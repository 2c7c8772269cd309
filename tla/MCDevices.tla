----------------------------- MODULE MCDevices ------------------------------
(***************************************************************************)
(* The devices of an owner and of a member: unlocking one with a biometric *)
(* (BiometricUnlock) and keeping them in step (DeviceSync). A behaviour    *)
(* plays one scene.                                                        *)
(***************************************************************************)
EXTENDS BiometricUnlock, Integers, Sequences

CONSTANTS a1, a2, b1, alice, bob, it1, NoId

VARIABLES scene,
          st, sy, log, lost, writes, faults, torn

biometricVars == <<platform, curId, curDismiss, open, epoch, rec, pw, made, key, gate,
            blob, item, challenge, pc, id, began, hand, job, dismissed, after, doomed,
            spared>>
deviceVars == <<st, sy, log, lost, writes, faults, torn>>
sceneVars == <<scene, biometricVars, deviceVars>>

\* A part that is not played; BiometricUnlock then stays in its first state.
Off == "off"
NoDevice ==
  /\ st = Off /\ sy = Off /\ log = Off /\ lost = Off /\ writes = Off /\ faults = Off
  /\ torn = Off

\* BiometricUnlock where it is not played.
AtRest == Init /\ platform = "macos" /\ pw = 0 /\ ~open /\ ~key

\* alice, the owner, has the devices a1 and a2; bob, a member, has b1.
DevicesOf(D) == [d \in D |-> IF d = b1 THEN bob ELSE alice]

\* Member sets: with bob as an editor or without him; with either role, so that
\* two devices can issue different manifests for one epoch.
With(r) == [m \in {alice, bob} |-> IF m = alice THEN "admin" ELSE r]
EditorOrNone == {With("none"), With("editor")}
EitherRole == {With("viewer"), With("editor")}

-----------------------------------------------------------------------------
(* The scenes.                                                             *)
\* Scene "prompts", BiometricUnlock with the constants of the configuration: two
\* prompts, one after the other or at once, and a lock.

\* A prompt that is given up for the typed password, and a password change.
GivingUp == INSTANCE BiometricUnlock WITH
  Faults <- FALSE, Jobs <- {"a1", "c1", "t1", "i1"}
\* Biometric unlock is turned on while the keyset is replaced or the instance reset,
\* with failures.
Sealing == INSTANCE BiometricUnlock WITH
  Faults <- TRUE, Jobs <- {"e1", "i1", "r1"}
\* A prompt whose secret dies, and turning it off.
Dying == INSTANCE BiometricUnlock WITH
  Faults <- TRUE, Jobs <- {"a1", "d1", "l1"}
\* Two devices of the owner edit and change the members, a request or a process is
\* lost.
Rotate == INSTANCE DeviceSync WITH
  MemberSeq <- <<alice, bob>>, ItemSeq <- <<it1>>, Owner <- alice, Big <- {},
  ServerMax <- 9, BatchMax <- 4, PageMax <- 9, OneProcess <- TRUE, MaxFault <- 1,
  MaxEpoch <- 2, DeviceSeq <- <<a1, a2>>, AccountOf <- DevicesOf({a1, a2}),
  MemberSets <- EitherRole, Ops <- {"item", "member"}, MaxWrite <- 2
\* The owner shares the vault, bob accepts, edits and is removed.
Share == INSTANCE DeviceSync WITH
  MemberSeq <- <<alice, bob>>, ItemSeq <- <<it1>>, Owner <- alice, Big <- {},
  ServerMax <- 9, BatchMax <- 9, PageMax <- 9, OneProcess <- TRUE, MaxFault <- 0,
  MaxEpoch <- 2, DeviceSeq <- <<a1, b1>>, AccountOf <- DevicesOf({a1, b1}),
  MemberSets <- EditorOrNone, Ops <- {"item", "member", "pull"}, MaxWrite <- 3

ASSUME SceneAssumption ==
  /\ BiometricAssumption /\ GivingUp!BiometricAssumption
  /\ Sealing!BiometricAssumption /\ Dying!BiometricAssumption
  /\ Rotate!DeviceAssumption /\ Share!DeviceAssumption

SceneInit ==
  \/ scene = "prompts" /\ Init /\ NoDevice
  \/ scene = "givingUp" /\ GivingUp!Init /\ NoDevice
  \/ scene = "sealing" /\ Sealing!Init /\ NoDevice
  \/ scene = "dying" /\ Dying!Init /\ NoDevice
  \/ scene = "rotate" /\ Rotate!Init /\ AtRest
  \/ scene = "share" /\ Share!Init /\ AtRest

SceneNext ==
  \/ scene = "prompts" /\ Next /\ UNCHANGED <<scene, deviceVars>>
  \/ scene = "givingUp" /\ GivingUp!Next /\ UNCHANGED <<scene, deviceVars>>
  \/ scene = "sealing" /\ Sealing!Next /\ UNCHANGED <<scene, deviceVars>>
  \/ scene = "dying" /\ Dying!Next /\ UNCHANGED <<scene, deviceVars>>
  \/ scene = "rotate" /\ Rotate!Next /\ UNCHANGED <<scene, biometricVars>>
  \/ scene = "share" /\ Share!Next /\ UNCHANGED <<scene, biometricVars>>

SceneSpec == SceneInit /\ [][SceneNext]_sceneVars

-----------------------------------------------------------------------------
(* The properties: each in the scenes that are made for it.                *)

\* Dependency order: whatever the cutting, the halving and the failures, a record or
\* grant of an epoch comes after the manifest of the epoch.
ManifestFirst == scene = "rotate" => Rotate!ManifestFirst

\* Hence a device of the owner, which is sent every row, never refuses one for want
\* of a manifest: the cursor would pass it for ever.
OwnerNeverGaps == scene = "rotate" => Rotate!OwnerNeverGaps

\* No silent divergence: once everything is pushed and pulled, two devices of the
\* owner hold the same records and manifests, unless one of them reported a conflict
\* or a rejection.
SettledAgree == scene = "rotate" => Rotate!SettledAgree

\* The dirty flags and the account cursor never claim more than the server has: a row
\* that no push will send is in the log, so no failure, halving, replay or kill
\* between accepting and settling loses a change. (A kill between the two statements
\* of an edit does: torn.)
NothingUnsent == scene = "share" => Share!NothingUnsent

\* A member who accepted the share can open the vault whenever the server lets it
\* read it and everything is pushed and pulled: the manifests, the record and its
\* grant fit together.
MemberOpens == scene = "share" => Share!MemberOpens

\* What a device trusts only grows: no row vanishes or goes back to an older version,
\* no manifest changes once stored, neither the epoch floor nor the cursor is
\* lowered, whatever the pages contain and wherever a pull stops.
TrustMonotone == [][scene = "rotate" => Rotate!TrustMonotoneStep]_sceneVars

\* Nothing arrives before what it is verified by, and what a member holds opens: over
\* every cut of a push, lost request and kill.
ObjectsUsable ==
  /\ ManifestFirst
  /\ OwnerNeverGaps
  /\ MemberOpens

\* Nothing is lost and nothing diverges unsaid: a row no push will send is in the
\* log, and two devices that pushed and pulled everything agree or one reported a
\* conflict.
SettledSound ==
  /\ SettledAgree
  /\ NothingUnsent

-----------------------------------------------------------------------------
(* A finding: what the code and its comment disagree about.                *)

\* Two devices of the owner edit while one of them rotates the vault key.
Stale == INSTANCE DeviceSync WITH
  DeviceSeq <- <<a1, a2>>, AccountOf <- DevicesOf({a1, a2}), PageMax <- 5,
  MemberSets <- EditorOrNone, Ops <- {"item", "member"}, MaxWrite <- 3,
  MemberSeq <- <<alice, bob>>, ItemSeq <- <<it1>>, Owner <- alice, Big <- {}, ServerMax <- 9,
  BatchMax <- 9, OneProcess <- TRUE, MaxFault <- 0, MaxEpoch <- 2
StaleSpec ==
  (scene = "stale" /\ Stale!Init /\ AtRest)
    /\ [][Stale!Next /\ UNCHANGED <<scene, biometricVars>>]_sceneVars

\* The epoch stamped on a record is the epoch of the key it is wrapped under: an
\* item opens with the key of a vault record of the same epoch.
KeyOfEpoch == Stale!KeyOfEpoch
=============================================================================

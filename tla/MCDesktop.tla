----------------------------- MODULE MCDesktop ------------------------------
(***************************************************************************)
(* The desktop application: the keyset, the core lock (CoreLock), the links*)
(* to servers and their tokens (CloudLinks), and the rotation of an SSH key*)
(* over the hosts that use it (KeyRotation). A behaviour plays one scene.  *)
(***************************************************************************)
EXTENDS CoreLock, Integers, Sequences, TLC

CONSTANTS i1, i2, t1, t2, t3

VARIABLES scene,
          on, links, active, access, superseded, kept, refreshGate, tmp, disk, used,
          task, pairs, ended, devs, devN, reused, lost, left,
          fleet, mach, item, cand, link, cert, plan, keys, run, driving, queue, wk,
          cmd, named, given, fresh, runs, faults

coreVars == <<file, db, open, epoch, gate, guard, sftp, th, ops, crashes, swaps,
            sessions, crossed, wanted>>
linksVars == <<on, links, active, access, superseded, kept, refreshGate, tmp, disk,
            used, task, pairs, ended, devs, devN, reused, lost, left>>
rotationVars == <<fleet, mach, item, cand, link, cert, plan, keys, run, driving,
            queue, wk, cmd, named, given, fresh, runs, faults>>
sceneVars == <<scene, coreVars, linksVars, rotationVars>>

\* A part that is not played; CoreLock then stays in its first state.
Off == "off"
NoLinks ==
  /\ on = Off /\ links = Off /\ active = Off /\ access = Off /\ superseded = Off
  /\ kept = Off /\ refreshGate = Off /\ tmp = Off /\ disk = Off /\ used = Off
  /\ task = Off /\ pairs = Off /\ ended = Off /\ devs = Off /\ devN = Off
  /\ reused = Off /\ lost = Off /\ left = Off
NoRotation ==
  /\ fleet = Off /\ mach = Off /\ item = Off /\ cand = Off /\ link = Off
  /\ cert = Off /\ plan = Off /\ keys = Off /\ run = Off /\ driving = Off
  /\ queue = Off /\ wk = Off /\ cmd = Off /\ named = Off /\ given = Off
  /\ fresh = Off /\ runs = Off /\ faults = Off

\* Keyset records: the current one, and an older copy.
Current == [acct |-> 1, gen |-> 2, fmt |-> "current", pw |-> 1]
Older == [acct |-> 1, gen |-> 1, fmt |-> "current", pw |-> 1]
Copies == {Older, Current}

\* What cloud.json holds at the first start: no file, one server, two servers, or
\* one server linked twice.
Linked(ids, has) == [i \in ids |-> IF i \in DOMAIN has THEN has[i] ELSE [ident |-> "none", dev |-> 0]]
NoFile(ids) == [is |-> "absent", links |-> Linked(ids, <<>>), active |-> "none"]
File(ids, has, now) == [is |-> "doc", links |-> Linked(ids, has), active |-> now]
ServerA == [ident |-> "a", dev |-> 1]
OneServer(ids) == {File(ids, i1 :> ServerA, i1)}
TwoServers(ids) == {File(ids, i1 :> ServerA @@ i2 :> [ident |-> "b", dev |-> 2], i1)}
OneTwice(ids) ==
  {NoFile(ids)} \cup OneServer(ids)
    \cup {File(ids, i1 :> ServerA @@ i2 :> [ident |-> "a", dev |-> 2], x) : x \in {i1, i2, "none"}}

\* The hosts of a rotated key: a bastion, a host behind it, one that uses the bastion
\* by its address only, one whose host key is not pinned, one whose hop is gone, and
\* hosts of another vault that log in with the key through the user's own identity.
Hop(ref, end, key) == [ref |-> ref, end |-> end, key |-> key]
Host(uid, owner, end, auth, jumps) ==
  [uid |-> uid, vault |-> owner, end |-> end, auth |-> auth, jumps |-> jumps, proxy |-> "direct"]
Bastion == Host("b", "own", "mb", "key", <<>>)
Behind == Host("x", "own", "mx", "key", <<Hop("b", "mb", FALSE)>>)
Follower == Host("f", "own", "mf", "password", <<Hop("inline", "mb", TRUE)>>)
Unknown == Host("u", "own", "mu", "key", <<>>)
Dangling == Host("d", "own", "mx", "key", <<Hop("gone", "mb", FALSE)>>)
Personal == Host("o", "other", "mx", "bound", <<Hop("inline", "mb", TRUE)>>)
Astray == Host("o", "other", "mx", "bound", <<Hop("b", "mb", FALSE)>>)
Mixed == {<<Bastion, Behind, Follower>>, <<Follower, Personal>>, <<Bastion, Unknown>>,
          <<Bastion, Dangling>>, <<Bastion, Astray>>}
Stray(options, other, mfa) == [file |-> TRUE, options |-> options, other |-> other, mfa |-> mfa]
Plain == {Stray(FALSE, FALSE, FALSE)}
Odd == {Stray(FALSE, TRUE, FALSE), Stray(TRUE, FALSE, FALSE), Stray(FALSE, FALSE, TRUE)}

-----------------------------------------------------------------------------
(* The scenes.                                                             *)
\* Scene "unlock", CoreLock with the constants of the configuration: unlocking,
\* locking and changing the password from several threads, over a stale or current
\* record.

\* Two commands link the same server.
Identity == INSTANCE CloudLinks WITH
  Idents <- {"a"}, Ends <- "never", Fails <- TRUE, Ids <- {i1, i2}, Tasks <- {t1, t2},
  Ops <- {"link", "sso"}, FirstDocs <- OneTwice({i1, i2}), MaxPairs <- 1,
  MaxDevs <- 3, gate <- refreshGate
\* Three calls find their access token expired, with requests that fail, answers that
\* are lost and a keychain that refuses a token.
Tokens == INSTANCE CloudLinks WITH
  Idents <- {"a"}, Ends <- "never", Fails <- TRUE, Ids <- {i1}, Tasks <- {t1, t2, t3},
  Ops <- {"call", "login", "logout"}, FirstDocs <- OneServer({i1}), MaxPairs <- 2,
  MaxDevs <- 1, gate <- refreshGate
\* The app dies while cloud.json is written.
Dying == INSTANCE CloudLinks WITH
  Idents <- {"a"}, Ends <- "anywhere", Fails <- TRUE, Ids <- {i1, i2}, Tasks <- {t1},
  Ops <- {"link", "sso", "remove", "login"},
  FirstDocs <- TwoServers({i1, i2}) \cup OneTwice({i1, i2}), MaxPairs <- 1,
  MaxDevs <- 3, gate <- refreshGate
\* Devices are enrolled, signed out and removed, one command at a time.
Device == INSTANCE CloudLinks WITH
  Idents <- {"a"}, Ends <- "idle", Fails <- FALSE, Ids <- {i1, i2}, Tasks <- {t1},
  Ops <- {"link", "sso", "login", "refresh", "call", "logout", "remove"},
  FirstDocs <- OneTwice({i1, i2}), MaxPairs <- 3, MaxDevs <- 3, gate <- refreshGate
\* A rotation from the command line over mixed fleets, run twice.
Cli == INSTANCE KeyRotation WITH
  Machines <- {"mb", "mx", "mf", "mu"}, Fleets <- Mixed, Strays <- Plain \cup Odd,
  Unpinned <- {"mu"}, Workers <- {"w1", "w2"}, MaxKey <- 2, MaxRuns <- 2,
  MaxFaults <- 0, Syncs <- {}, Dialog <- FALSE
\* A rotation that is cut short once and taken up, or given up, again.
Again == INSTANCE KeyRotation WITH
  Machines <- {"mb", "mf"}, Fleets <- {<<Bastion, Follower>>}, Strays <- Plain,
  Unpinned <- {}, Workers <- {"w1"}, MaxKey <- 2, MaxRuns <- 2, MaxFaults <- 1,
  Syncs <- {}, Dialog <- FALSE
\* The dialog, with crashes, lost results and another device that changes the items.
Dialog == INSTANCE KeyRotation WITH
  Machines <- {"mb", "mx"}, Fleets <- {<<Bastion, Behind>>}, Strays <- Plain,
  Unpinned <- {}, Workers <- {"w1", "w2"}, MaxKey <- 3, MaxRuns <- 3, MaxFaults <- 2,
  Syncs <- {"candidate", "item"}, Dialog <- TRUE

ASSUME SceneAssumption ==
  /\ CoreAssumption /\ Identity!CloudLinksAssumption /\ Tokens!CloudLinksAssumption
  /\ Dying!CloudLinksAssumption /\ Device!CloudLinksAssumption
  /\ Cli!RotationAssumption /\ Again!RotationAssumption /\ Dialog!RotationAssumption

SceneInit ==
  \/ scene = "unlock" /\ Init /\ NoLinks /\ NoRotation
  \/ scene = "identity" /\ Identity!Init /\ Init /\ NoRotation
  \/ scene = "tokens" /\ Tokens!Init /\ Init /\ NoRotation
  \/ scene = "dying" /\ Dying!Init /\ Init /\ NoRotation
  \/ scene = "device" /\ Device!Init /\ Init /\ NoRotation
  \/ scene = "cli" /\ Cli!Init /\ Init /\ NoLinks
  \/ scene = "again" /\ Again!Init /\ Init /\ NoLinks
  \/ scene = "dialog" /\ Dialog!Init /\ Init /\ NoLinks

SceneNext ==
  \/ scene = "unlock" /\ Next /\ UNCHANGED <<scene, linksVars, rotationVars>>
  \/ scene = "identity" /\ Identity!Next /\ UNCHANGED <<scene, coreVars, rotationVars>>
  \/ scene = "tokens" /\ Tokens!Next /\ UNCHANGED <<scene, coreVars, rotationVars>>
  \/ scene = "dying" /\ Dying!Next /\ UNCHANGED <<scene, coreVars, rotationVars>>
  \/ scene = "device" /\ Device!Next /\ UNCHANGED <<scene, coreVars, rotationVars>>
  \/ scene = "cli" /\ Cli!Next /\ UNCHANGED <<scene, coreVars, linksVars>>
  \/ scene = "again" /\ Again!Next /\ UNCHANGED <<scene, coreVars, linksVars>>
  \/ scene = "dialog" /\ Dialog!Next /\ UNCHANGED <<scene, coreVars, linksVars>>

SceneSpec == SceneInit /\ [][SceneNext]_sceneVars

Symmetry == Permutations({t1, t2, t3})

-----------------------------------------------------------------------------
(* The properties: each in the scenes that are made for it.                *)

\* One link per server identity, also when two commands link the same server at a
\* time or an older version left two in the file (upsert_config, CloudState::new).
OneLinkPerIdentity == scene = "identity" => Identity!OneLinkPerIdentity

\* Requests whose token expires together never present a refresh token twice: it
\* would end the session (refresh_gate). The only spent token that is presented again
\* is one whose successor never reached the keychain, because the answer to the
\* refresh was lost or the keychain refused it.
NoTokenSpentTwice == scene = "tokens" => Tokens!NoTokenSpentTwice

\* When nothing runs, the file holds the links the app has, whatever crashed before;
\* and a start never finds it half written.
FileIsRegistry == scene = "dying" => Dying!FileIsRegistry

\* A link nobody asked to remove holds a device its server knows. Commands that link
\* a server again at a time never revoke as replaced the device that ends up in use,
\* whichever requests fail (upsert_link, retire_replaced_device); and with one
\* command at a time, the link a start finds in the file is never one whose device
\* was revoked, wherever the app died (retired only after persist).
LinkedDeviceLives ==
  /\ scene = "identity" => Identity!LinkedDeviceLives
  /\ scene = "dying" => Dying!LinkedDeviceLives
  /\ scene = "device" => Device!LinkedDeviceLives

\* One command at a time, no request failing: a server knows no device of this app
\* but the link's own, those of links dropped as duplicates at the start, and those
\* of links removed with no session left to revoke them by (best_effort_leave,
\* retire_replaced_device).
NoStrayDevice == scene = "device" => Device!NoStrayDevice

\* Rotating never silently locks the user out: every host of the vault that needs the
\* key, for its login or for a jump hop, can be opened with the key item or with the
\* candidate, unless a confirmation named it, or what cut it off was not this
\* rotation's own steps: the user gave the rotation up after a warning that names no
\* host (abandon), or another device deleted the candidate or replaced a key.
NoSilentLockout ==
  /\ scene = "cli" => Cli!NoSilentLockout
  /\ scene = "dialog" => Dialog!NoSilentLockout

\* A target is called switched only when its machine refuses the old key, whichever
\* way the old key was let in.
SwitchedRefusesOld == scene = "cli" => Cli!SwitchedRefusesOld

\* A certificate for a key the item no longer holds is only ever left by a finish
\* that can still be completed from this device.
StaleCertRecoverable ==
  /\ scene = "cli" => Cli!StaleCertRecoverable
  /\ scene = "again" => Again!StaleCertRecoverable

\* One link per server, no refresh token presented twice unless its successor was
\* lost, a file that agrees with the registry after a crash, no link with a revoked
\* device, and no device left behind but those of links dropped without a session.
LinksSound ==
  /\ OneLinkPerIdentity
  /\ NoTokenSpentTwice
  /\ FileIsRegistry
  /\ LinkedDeviceLives
  /\ NoStrayDevice

\* A key rotation locks the user out of no host it did not name, revokes the old key
\* where it says so, and leaves no certificate that cannot be repaired.
RotationSafe ==
  /\ NoSilentLockout
  /\ SwitchedRefusesOld
  /\ StaleCertRecoverable
=============================================================================

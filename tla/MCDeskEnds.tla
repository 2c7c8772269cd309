----------------------------- MODULE MCDeskEnds -----------------------------
(***************************************************************************)
(* An account that is migrated, killed anywhere (CoreLock), and what ends  *)
(* on the desktop: a drive of a key rotation, the hold on what a terminal  *)
(* may echo, the recording of a closed session, the upload of a vault that *)
(* was moved. A behaviour plays one scene.                                 *)
(***************************************************************************)
EXTENDS CoreLock, Integers, Sequences, TLC

CONSTANTS f1, t1, r1, r2, c1, m1

VARIABLES scene,
          fleet, mach, item, cand, link, cert, plan, keys, run, driving, queue, wk,
          cmd, named, given, fresh, runs, faults,
          tail, current, lastFill, echo, rejected, gen, nextId, savedPw, job, timers,
          ui, fed, ended, fillShown, typed, told, kills, inputs,
          core, reg, ses, act, cut, recLocks, exit,
          vault, hosts, binds, reserved, claims, moved, personal, lists, moving,
          session, saved, backup, lost, used

coreVars == <<file, db, open, epoch, gate, guard, sftp, th, ops, crashes, swaps,
            sessions, crossed, wanted>>
rotationVars == <<fleet, mach, item, cand, link, cert, plan, keys, run, driving,
            queue, wk, cmd, named, given, fresh, runs, faults>>
fillVars == <<tail, current, lastFill, echo, rejected, gen, nextId, savedPw, job,
            timers, ui, fed, ended, fillShown, typed, told, kills, inputs>>
recVars == <<core, reg, ses, act, cut, recLocks, exit>>
moveVars == <<vault, hosts, binds, reserved, claims, moved, personal, lists, moving,
            session, saved, backup, lost, used>>
sceneVars == <<scene, coreVars, rotationVars, fillVars, recVars, moveVars>>

\* A part that is not played; CoreLock then stays in its first state.
Off == "off"
NoRotation ==
  /\ fleet = Off /\ mach = Off /\ item = Off /\ cand = Off /\ link = Off
  /\ cert = Off /\ plan = Off /\ keys = Off /\ run = Off /\ driving = Off
  /\ queue = Off /\ wk = Off /\ cmd = Off /\ named = Off /\ given = Off
  /\ fresh = Off /\ runs = Off /\ faults = Off
NoFill ==
  /\ tail = Off /\ current = Off /\ lastFill = Off /\ echo = Off /\ rejected = Off
  /\ gen = Off /\ nextId = Off /\ savedPw = Off /\ job = Off /\ timers = Off
  /\ ui = Off /\ fed = Off /\ ended = Off /\ fillShown = Off /\ typed = Off
  /\ told = Off /\ kills = Off /\ inputs = Off
NoRec ==
  /\ core = Off /\ reg = Off /\ ses = Off /\ act = Off /\ cut = Off
  /\ recLocks = Off /\ exit = Off
NoMove ==
  /\ vault = Off /\ hosts = Off /\ binds = Off /\ reserved = Off /\ claims = Off
  /\ moved = Off /\ personal = Off /\ lists = Off /\ moving = Off /\ session = Off
  /\ saved = Off /\ backup = Off /\ lost = Off /\ used = Off

Hop(ref, end, key) == [ref |-> ref, end |-> end, key |-> key]
Host(uid, end, jumps) ==
  [uid |-> uid, vault |-> "own", end |-> end, auth |-> "key", jumps |-> jumps, proxy |-> "direct"]
Chain == <<Host("b", "mb", <<>>), Host("x", "mx", <<Hop("b", "mb", FALSE)>>)>>
\* A keyset record of the old format.
Legacy == [acct |-> 1, gen |-> 1, fmt |-> "old", pw |-> 1]

Accepts(other) == [file |-> TRUE, options |-> FALSE, other |-> other, mfa |-> FALSE]

-----------------------------------------------------------------------------
(* The scenes.                                                             *)
\* Scene "migrate", CoreLock with the constants of the configuration: an account of
\* the old format is migrated, reset and created again, with a crash anywhere.

\* A rotation over a bastion and a host behind it, with a fault anywhere.
Drive == INSTANCE KeyRotation WITH
  Machines <- {"mb", "mx"}, Fleets <- {Chain},
  Strays <- {Accepts(FALSE), Accepts(TRUE)}, Unpinned <- {}, Workers <- {"w1", "w2"},
  MaxKey <- 2, MaxRuns <- 2, MaxFaults <- 1, Syncs <- {}, Dialog <- TRUE
\* Output that may be the echo of a password is held back.
Hold == INSTANCE PasswordFill WITH
  Chunks <- {<<"sudo">>, <<"a">>, <<"b">>}, Kinds <- {"sudo", "generic"},
  Secrets <- [p |-> <<"a", "b">>], Inputs <- {"enter"}, Fillers <- {f1},
  Timers <- {t1}, HoldMax <- 3, MaxFed <- 3, MaxInputs <- 1, shown <- fillShown,
  saved <- savedPw
\* A remote session and a local shell are closed or locked.
Closing == INSTANCE Recordings WITH
  Sessions <- {r1, r2}, Kind <- (r1 :> "plain" @@ r2 :> "local"), Callers <- {c1},
  Uses <- {"close", "lock"}, Chunks <- {"whole"}, Lingers <- {FALSE},
  Timeouts <- TRUE, PutFails <- {FALSE}, RecordingMax <- 1, MaxOut <- 1,
  MaxLocks <- 1, locks <- recLocks
\* The first push of a moved vault fails.
Upload == INSTANCE VaultMove WITH
  LocalIds <- {"L1"}, Restored <- "R", Shared <- "S", Viewed <- "V",
  Fresh <- <<"c1", "c2", "c3">>, Recorded <- {}, Spaces <- {"sp"}, Primary <- "sp",
  Cmds <- {m1}, Hosts0 <- {{}}, Binds0 <- {{}}, MaxFaults <- 1, MaxUser <- 1,
  cmd <- moving, faults <- lost

ASSUME SceneAssumption ==
  /\ CoreAssumption /\ Drive!RotationAssumption /\ Hold!FillAssumption
  /\ Closing!RecordingsAssumption /\ Upload!BoundsAssumption

SceneInit ==
  \/ scene = "migrate" /\ Init /\ NoRotation /\ NoFill /\ NoRec /\ NoMove
  \/ scene = "drive" /\ Drive!Init /\ Init /\ NoFill /\ NoRec /\ NoMove
  \/ scene = "hold" /\ Hold!Init /\ Init /\ NoRotation /\ NoRec /\ NoMove
  \/ scene = "closing" /\ Closing!Init /\ Init /\ NoRotation /\ NoFill /\ NoMove
  \/ scene = "upload" /\ Upload!Init /\ Init /\ NoRotation /\ NoFill /\ NoRec

SceneNext ==
  \/ scene = "migrate" /\ Next /\ UNCHANGED <<scene, rotationVars, fillVars, recVars, moveVars>>
  \/ scene = "drive" /\ Drive!Next /\ UNCHANGED <<scene, coreVars, fillVars, recVars, moveVars>>
  \/ scene = "hold" /\ Hold!Next /\ UNCHANGED <<scene, coreVars, rotationVars, recVars, moveVars>>
  \/ scene = "closing" /\ Closing!Next /\ UNCHANGED <<scene, coreVars, rotationVars, fillVars, moveVars>>
  \/ scene = "upload" /\ Upload!Next /\ UNCHANGED <<scene, coreVars, rotationVars, fillVars, recVars>>

SceneSpec == SceneInit /\ [][SceneNext]_sceneVars

\* The fairness of each part, in its scene.
SceneFairness ==
  /\ WF_rotationVars(scene = "drive" /\ Drive!RoundBegin)
  /\ \A w \in {"w1", "w2"} : /\ WF_rotationVars(scene = "drive" /\ Drive!Take(w))
                           /\ WF_rotationVars(scene = "drive" /\ Drive!Connect(w))
                           /\ WF_rotationVars(scene = "drive" /\ Drive!Exec(w))
                           /\ WF_rotationVars(scene = "drive" /\ Drive!Record(w))
  /\ WF_fillVars(scene = "hold" /\ Hold!Timer)
  /\ \A x \in {"reader", "user", t1, f1} : WF_fillVars(scene = "hold" /\ Hold!Release(x))
  /\ \A s \in {r1, r2} : /\ WF_recVars(scene = "closing" /\ Closing!Thread(s))
                       /\ WF_recVars(scene = "closing" /\ ses[s].stop /\ Closing!Ends(s, FALSE))
  /\ \A x \in {c1, "locker"} : WF_recVars(scene = "closing" /\ Closing!Work(x))
  /\ WF_recVars(scene = "closing" /\ Closing!LockCore)
  /\ WF_moveVars(scene = "upload" /\ Upload!server_sync_now) /\ WF_moveVars(scene = "upload" /\ Upload!Step(m1))
FairSceneSpec == SceneSpec /\ SceneFairness

-----------------------------------------------------------------------------
(* The properties: each in the scenes that are made for it.                *)
\* The sessions that are closed and not recorded yet, the moved vaults not yet uploaded.
Ending == {s \in {r1, r2} : ses[s].stop /\ ses[s].st = "up" /\ ~(ses[s].saved # "no" /\ ses[s].closes = 1)}
Unsent == {v \in Upload!FreshIds : vault[v].tenant = "sp" /\ vault[v].dirty}

\* Every drive ends, however its steps fail and whenever it is stopped.
DriveEnds ==
  (scene = "drive" /\ driving) ~> (scene = "drive" /\ ~driving)

\* What is held back is shown sooner or later.
HeldShown ==
  (scene = "hold" /\ echo.on /\ echo.held # <<>>) ~> (scene = "hold" /\ ~(echo.on /\ echo.held # <<>>))

\* Once it is closed or dropped, a session's recording is written or given up, and
\* its close is reported.
ClosedIsRecorded ==
  (scene = "closing" /\ Ending # {}) ~> (scene = "closing" /\ Ending = {})

\* A vault bound to the link's own space is uploaded sooner or later, whatever became
\* of its first push, unless it is unbound.
BoundUploaded ==
  (scene = "upload" /\ Unsent # {}) ~> (scene = "upload" /\ Unsent = {})

\* A drive of a key rotation ends, held output is shown, a closed session is
\* recorded, and a vault that was moved is uploaded.
DeskEnds ==
  /\ DriveEnds
  /\ HeldShown
  /\ ClosedIsRecorded
  /\ BoundUploaded
=============================================================================

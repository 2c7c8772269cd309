----------------------------- MODULE MCWorkEnds -----------------------------
(***************************************************************************)
(* What ends: operations on pooled SFTP channels, signature requests,      *)
(* commands of an integration and their connections, starts and stops of   *)
(* the agent. A behaviour plays one scene.                                 *)
(***************************************************************************)
EXTENDS Integers, Sequences, FiniteSets

CONSTANTS y1, g1, a, k1

VARIABLES scene,
          idle, created, max, generation, closed, shutdown, client, clientLock,
          reconnectLock, th, waiting, chans, ops, downs, flaws,
          unlocked, line, locks, sysEpoch, listener, conn, ask, prompts, early,
          locker, revoker, ids, opens, closes, revokes, struck,
          rev, revs, suspended, brokerEpoch, accessRev, saved, grants, eps, ticket,
          sess, run, open, closers, past, lapsed, due, allowed, execs,
          accessUnlocked, screen, asleep, accessLocker, system, accessLocks, signals,
          switches, accessEpoch, stop, running, turn, enabled, task, listening,
          cancelled, failed, gate, gateEpoch, server, mturn, menabled, mtask

poolVars == <<idle, created, max, generation, closed, shutdown, client, clientLock,
            reconnectLock, th, waiting, chans, ops, downs, flaws>>
signVars == <<unlocked, line, locks, sysEpoch, listener, conn, ask, prompts, early,
            locker, revoker, ids, opens, closes, revokes, struck>>
brokerVars == <<rev, revs, suspended, brokerEpoch, accessRev, saved, grants, eps,
            ticket, sess, run, open, closers, past, lapsed, due, allowed, execs>>
accessVars == <<accessUnlocked, screen, asleep, accessLocker, system, accessLocks,
            signals, switches, accessEpoch, stop, running, turn, enabled, task,
            listening, cancelled, failed, gate, gateEpoch, server, mturn, menabled,
            mtask>>
vars == <<scene, poolVars, signVars, brokerVars, accessVars>>

\* A part that is not played.
Off == "off"
NoPool ==
  /\ idle = Off /\ created = Off /\ max = Off /\ generation = Off /\ closed = Off
  /\ shutdown = Off /\ client = Off /\ clientLock = Off /\ reconnectLock = Off
  /\ th = Off /\ waiting = Off /\ chans = Off /\ ops = Off /\ downs = Off
  /\ flaws = Off
NoSign ==
  /\ unlocked = Off /\ line = Off /\ locks = Off /\ sysEpoch = Off /\ listener = Off
  /\ conn = Off /\ ask = Off /\ prompts = Off /\ early = Off /\ locker = Off
  /\ revoker = Off /\ ids = Off /\ opens = Off /\ closes = Off /\ revokes = Off
  /\ struck = Off
NoBroker ==
  /\ rev = Off /\ revs = Off /\ suspended = Off /\ brokerEpoch = Off
  /\ accessRev = Off /\ saved = Off /\ grants = Off /\ eps = Off /\ ticket = Off
  /\ sess = Off /\ run = Off /\ open = Off /\ closers = Off /\ past = Off
  /\ lapsed = Off /\ due = Off /\ allowed = Off /\ execs = Off
NoAccess ==
  /\ accessUnlocked = Off /\ screen = Off /\ asleep = Off /\ accessLocker = Off
  /\ system = Off /\ accessLocks = Off /\ signals = Off /\ switches = Off
  /\ accessEpoch = Off /\ stop = Off /\ running = Off /\ turn = Off /\ enabled = Off
  /\ task = Off /\ listening = Off /\ cancelled = Off /\ failed = Off /\ gate = Off
  /\ gateEpoch = Off /\ server = Off /\ mturn = Off /\ menabled = Off /\ mtask = Off

-----------------------------------------------------------------------------
(* The scenes.                                                             *)
\* Three threads share the channel the server grants; an open may fail, the link
\* stays up.
Lease == INSTANCE SftpPool WITH
  Plain <- {"p1", "p2"}, Cancellable <- {"c1"}, Reopeners <- {}, Parallelism <- 2,
  ServerMax <- 1, OpenRetryMax <- 1, MaxOps <- 2, MaxDown <- 0, MaxFlaw <- 1
\* Requests are overtaken by a lock and a revocation.
Signing == INSTANCE SignApprovals WITH
  Conns <- {y1, g1}, System <- {y1}, MaxForwarded <- 1, MaxIds <- 1, MaxLocks <- 1,
  MaxRevokes <- 1, MaxCloses <- 0, MaxOpens <- 0
\* A session and a command that nobody may answer.
Command == INSTANCE AutomationBroker WITH
  Owners <- {a}, Keys <- {k1}, Modes <- {"manual", "trusted"}, Capacity <- 1,
  MaxConns <- 1, MaxActive <- 1, Retained <- 1, RetainedSess <- 1, RetainedTotal <- 1,
  MaxSess <- 1, MaxRuns <- 1, MaxRevs <- 1, MaxEps <- 1, MaxEpoch <- 0,
  epoch <- brokerEpoch
\* The machine sleeps, wakes, and the vault is locked and unlocked.
Again == INSTANCE AgentAccess WITH
  Agents <- {1, 2}, Mcps <- {1}, MaxLocks <- 1, MaxSignals <- 1, MaxSwitches <- 0,
  unlocked <- accessUnlocked, locks <- accessLocks, locker <- accessLocker,
  epoch <- accessEpoch
\* The machine sleeps and wakes twice, the screen is locked and unlocked.
Resume == INSTANCE AgentAccess WITH
  Agents <- {1, 2, 3}, Mcps <- {}, MaxLocks <- 0, MaxSignals <- 4, MaxSwitches <- 0,
  unlocked <- accessUnlocked, locks <- accessLocks, locker <- accessLocker,
  epoch <- accessEpoch

ASSUME SceneAssumption ==
  /\ Lease!PoolAssumption /\ Signing!ApprovalAssumption /\ Command!BrokerAssumption
  /\ Again!AccessAssumption /\ Resume!AccessAssumption

Init ==
  \/ scene = "lease" /\ Lease!Init /\ NoSign /\ NoBroker /\ NoAccess
  \/ scene = "signing" /\ Signing!Init /\ NoPool /\ NoBroker /\ NoAccess
  \/ scene = "command" /\ Command!Init /\ NoPool /\ NoSign /\ NoAccess
  \/ scene = "again" /\ Again!Init /\ NoPool /\ NoSign /\ NoBroker
  \/ scene = "resume" /\ Resume!Init /\ NoPool /\ NoSign /\ NoBroker

Next ==
  \/ scene = "lease" /\ Lease!Next /\ UNCHANGED <<scene, signVars, brokerVars, accessVars>>
  \/ scene = "signing" /\ Signing!Next /\ UNCHANGED <<scene, poolVars, brokerVars, accessVars>>
  \/ scene = "command" /\ Command!Next /\ UNCHANGED <<scene, poolVars, signVars, accessVars>>
  \/ scene = "again" /\ Again!Next /\ UNCHANGED <<scene, poolVars, signVars, brokerVars>>
  \/ scene = "resume" /\ Resume!Next /\ UNCHANGED <<scene, poolVars, signVars, brokerVars>>

Spec == Init /\ [][Next]_vars

\* The fairness of each part, in its scene.
Fairness ==
  /\ \A t \in {"p1", "p2", "c1"} : SF_poolVars(scene = "lease" /\ Lease!ThreadStep(t))
  /\ \A c \in {y1, g1} : /\ WF_signVars(scene = "signing" /\ Signing!ThreadStep(c))
                        /\ WF_signVars(scene = "signing" /\ Signing!CloseStep(c))
  /\ WF_signVars(scene = "signing" /\ Signing!LockStep) /\ WF_signVars(scene = "signing" /\ Signing!RevokeStep)
  /\ \A r \in {1} : /\ WF_brokerVars(scene = "command" /\ Command!Worker(r))
                  /\ WF_brokerVars(scene = "command" /\ Command!StartTrusted(r))
                  /\ WF_brokerVars(scene = "command" /\ Command!SweepApproval(r))
                  /\ WF_brokerVars(scene = "command" /\ Command!ApprovalTimeUp(r))
                  /\ WF_brokerVars(scene = "command" /\ Command!CommandTimeUp(r))
  /\ \A s \in {1} : /\ WF_brokerVars(scene = "command" /\ Command!ConnectSession(s))
                  /\ WF_brokerVars(scene = "command" /\ Command!PublishSession(s))
                  /\ WF_brokerVars(scene = "command" /\ Command!CloseConnection(s))
                  /\ WF_brokerVars(scene = "command" /\ Command!SweepSession(s))
  /\ WF_accessVars(scene = "again" /\ Again!LockStep) /\ WF_accessVars(scene = "again" /\ Again!SignalStep)
  /\ \A t \in {1, 2} : /\ WF_accessVars(scene = "again" /\ Again!AgentStep(t))
                     /\ WF_accessVars(scene = "again" /\ t \in cancelled /\ Again!ListenerEnds(t))
  /\ \A t \in {1} : WF_accessVars(scene = "again" /\ Again!McpStep(t))
FairSpec == Spec /\ Fairness

-----------------------------------------------------------------------------
(* The properties: each in the scenes that are made for it.                *)
\* The threads that want a channel, the requests that wait, the commands and the
\* connections that have not ended, the tasks at work.
Leasing == {t \in {"p1", "p2", "c1"} : th[t].pc # "idle"}
Asking == {c \in {y1, g1} : ask[c].pc \notin {"idle", "epoch", "begin"}}
Unended == {r \in Command!Runs : (run[r].here /\ run[r].fin = 0) \/ Command!Holds(r)}
Adrift == {s \in Command!Sess : sess[s].st = "gone" /\ <<"s", s>> \in open}
AtWork == {t \in {1, 2} : task[t].kind # "none" /\ task[t].pc # "done"}
AtWorkMcp == {t \in {1} : mtask[t].kind # "none" /\ mtask[t].pc # "done"}

\* The vault open, the screen unlocked, the machine awake, the setting on and nobody
\* at work: the agent serves again or shows why not, so nobody has to switch it on by
\* hand (resume_access, system_agent.rs).
ServesAgain == scene = "resume" => Resume!ServesAgain

\* Every operation ends: no wake-up is lost between threads that wait for a channel,
\* cancel, fail to open one or give one back.
EveryOperationEnds ==
  (scene = "lease" /\ Leasing # {}) ~> (scene = "lease" /\ Leasing = {})

\* Every request comes to an end: the line always moves on.
EveryRequestEnds ==
  (scene = "signing" /\ Asking # {}) ~> (scene = "signing" /\ Asking = {})

\* Every accepted command ends, whether somebody answers, cancels, revokes or the
\* host never does (sweep, the worker's deadline).
EveryRunEnds ==
  (scene = "command" /\ Unended # {}) ~> (scene = "command" /\ Unended = {})

\* Every connection that left its session is closed (revoke_inner, the session's
\* thread).
DroppedCloses ==
  (scene = "command" /\ Adrift # {}) ~> (scene = "command" /\ Adrift = {})

\* Every start and stop comes to an end and gives the mutex back.
EveryTaskEnds ==
  (scene = "again" /\ AtWork \cup AtWorkMcp # {}) ~> (scene = "again" /\ AtWork \cup AtWorkMcp = {})

\* Whatever was begun ends: an operation on a pooled channel, a signature request, a
\* command, a dropped connection, a start of a listener; and the agent serves again
\* after a wake.
WorkEnds ==
  /\ [](ServesAgain)
  /\ EveryOperationEnds
  /\ EveryRequestEnds
  /\ EveryRunEnds
  /\ DroppedCloses
  /\ EveryTaskEnds
=============================================================================

------------------------------ MODULE MCAgents ------------------------------
(***************************************************************************)
(* What acts for the user: approvals of signatures (SignApprovals),        *)
(* commands of automation (AutomationBroker) and the listeners of the      *)
(* system agent and of MCP (AgentAccess). A behaviour plays one scene.     *)
(***************************************************************************)
EXTENDS AutomationBroker, Integers, Sequences, TLC

CONSTANTS y1, y2, g1, a, b, k1, k2

VARIABLES scene,
          unlocked, line, locks, sysEpoch, listener, conn, ask, prompts, early,
          locker, revoker, ids, opens, closes, revokes, struck,
          accessUnlocked, screen, asleep, accessLocker, system, accessLocks, signals,
          switches, accessEpoch, stop, running, turn, enabled, task, listening,
          cancelled, failed, gate, gateEpoch, server, mturn, menabled, mtask

signVars == <<unlocked, line, locks, sysEpoch, listener, conn, ask, prompts, early,
            locker, revoker, ids, opens, closes, revokes, struck>>
brokerVars == <<rev, revs, suspended, epoch, accessRev, saved, grants, eps, ticket,
            sess, run, open, closers, past, lapsed, due, allowed, execs>>
accessVars == <<accessUnlocked, screen, asleep, accessLocker, system, accessLocks,
            signals, switches, accessEpoch, stop, running, turn, enabled, task,
            listening, cancelled, failed, gate, gateEpoch, server, mturn, menabled,
            mtask>>
sceneVars == <<scene, signVars, brokerVars, accessVars>>

\* A part that is not played; AutomationBroker then stays in its first state.
Off == "off"
NoSign ==
  /\ unlocked = Off /\ line = Off /\ locks = Off /\ sysEpoch = Off /\ listener = Off
  /\ conn = Off /\ ask = Off /\ prompts = Off /\ early = Off /\ locker = Off
  /\ revoker = Off /\ ids = Off /\ opens = Off /\ closes = Off /\ revokes = Off
  /\ struck = Off
NoAccess ==
  /\ accessUnlocked = Off /\ screen = Off /\ asleep = Off /\ accessLocker = Off
  /\ system = Off /\ accessLocks = Off /\ signals = Off /\ switches = Off
  /\ accessEpoch = Off /\ stop = Off /\ running = Off /\ turn = Off /\ enabled = Off
  /\ task = Off /\ listening = Off /\ cancelled = Off /\ failed = Off /\ gate = Off
  /\ gateEpoch = Off /\ server = Off /\ mturn = Off /\ menabled = Off /\ mtask = Off

-----------------------------------------------------------------------------
(* The scenes.                                                             *)
\* Two connections to the system agent and a forwarded one ask at the same time; the
\* core is locked.
Line == INSTANCE SignApprovals WITH
  Conns <- {y1, y2, g1}, System <- {y1, y2}, MaxForwarded <- 1, MaxIds <- 1,
  MaxLocks <- 1, MaxRevokes <- 0, MaxCloses <- 0, MaxOpens <- 0
\* A connection closes and another takes its place while requests wait and the
\* listener is revoked.
Close == INSTANCE SignApprovals WITH
  Conns <- {y1, g1}, System <- {y1}, MaxForwarded <- 1, MaxIds <- 2, MaxLocks <- 0,
  MaxRevokes <- 1, MaxCloses <- 1, MaxOpens <- 1
\* Scene "exec", AutomationBroker with the constants of the configuration: a command
\* that needs approval, through revocation, suspension and locks.

\* Two sessions and a command compete for one connection.
Slots == INSTANCE AutomationBroker WITH
  Owners <- {a}, Keys <- {k1}, Modes <- {"trusted"}, Capacity <- 1, MaxConns <- 1,
  MaxActive <- 2, Retained <- 2, RetainedSess <- 2, RetainedTotal <- 2, MaxSess <- 2,
  MaxRuns <- 1, MaxRevs <- 1, MaxEps <- 2, MaxEpoch <- 0
\* Two commands where one record is retained.
Evict == INSTANCE AutomationBroker WITH
  Owners <- {a}, Keys <- {k1, k2}, Modes <- {"trusted"}, Capacity <- 2, MaxConns <- 1,
  MaxActive <- 1, Retained <- 1, RetainedSess <- 1, RetainedTotal <- 1, MaxSess <- 1,
  MaxRuns <- 2, MaxRevs <- 1, MaxEps <- 1, MaxEpoch <- 0
\* Consents of two integrations are given, saved, restored and withdrawn.
Consent == INSTANCE AutomationBroker WITH
  Owners <- {a, b}, Keys <- {k1}, Modes <- {"manual", "trusted"}, Capacity <- 1,
  MaxConns <- 1, MaxActive <- 1, Retained <- 1, RetainedSess <- 1, RetainedTotal <- 1,
  MaxSess <- 0, MaxRuns <- 0, MaxRevs <- 2, MaxEps <- 2, MaxEpoch <- 1
\* The system agent through a lock, signals of the system and a switch.
Agent == INSTANCE AgentAccess WITH
  Agents <- {1, 2}, Mcps <- {}, MaxLocks <- 1, MaxSignals <- 2, MaxSwitches <- 1,
  unlocked <- accessUnlocked, locks <- accessLocks, locker <- accessLocker,
  epoch <- accessEpoch
\* The MCP server likewise.
Mcp == INSTANCE AgentAccess WITH
  Agents <- {}, Mcps <- {1, 2}, MaxLocks <- 1, MaxSignals <- 2, MaxSwitches <- 1,
  unlocked <- accessUnlocked, locks <- accessLocks, locker <- accessLocker,
  epoch <- accessEpoch

ASSUME SceneAssumption ==
  /\ Line!ApprovalAssumption /\ Close!ApprovalAssumption /\ BrokerAssumption
  /\ Slots!BrokerAssumption /\ Evict!BrokerAssumption /\ Consent!BrokerAssumption
  /\ Agent!AccessAssumption /\ Mcp!AccessAssumption

SceneInit ==
  \/ scene = "line" /\ Line!Init /\ Init /\ NoAccess
  \/ scene = "close" /\ Close!Init /\ Init /\ NoAccess
  \/ scene = "exec" /\ Init /\ NoSign /\ NoAccess
  \/ scene = "slots" /\ Slots!Init /\ NoSign /\ NoAccess
  \/ scene = "evict" /\ Evict!Init /\ NoSign /\ NoAccess
  \/ scene = "consent" /\ Consent!Init /\ NoSign /\ NoAccess
  \/ scene = "agent" /\ Agent!Init /\ NoSign /\ Init
  \/ scene = "mcp" /\ Mcp!Init /\ NoSign /\ Init

SceneNext ==
  \/ scene = "line" /\ Line!Next /\ UNCHANGED <<scene, brokerVars, accessVars>>
  \/ scene = "close" /\ Close!Next /\ UNCHANGED <<scene, brokerVars, accessVars>>
  \/ scene = "exec" /\ Next /\ UNCHANGED <<scene, signVars, accessVars>>
  \/ scene = "slots" /\ Slots!Next /\ UNCHANGED <<scene, signVars, accessVars>>
  \/ scene = "evict" /\ Evict!Next /\ UNCHANGED <<scene, signVars, accessVars>>
  \/ scene = "consent" /\ Consent!Next /\ UNCHANGED <<scene, signVars, accessVars>>
  \/ scene = "agent" /\ Agent!Next /\ UNCHANGED <<scene, signVars, brokerVars>>
  \/ scene = "mcp" /\ Mcp!Next /\ UNCHANGED <<scene, signVars, brokerVars>>

SceneSpec == SceneInit /\ [][SceneNext]_sceneVars

Symmetry == Permutations({y1, y2})

-----------------------------------------------------------------------------
(* The properties: each in the scenes that are made for it.                *)

\* The approver is asked about one request at a time, the front of the line, however
\* requests are cancelled: nothing is handed over before the approver has let go of
\* the one before.
OneAtATime ==
  /\ scene = "line" => Line!OneAtATime
  /\ scene = "close" => Close!OneAtATime

\* When a lock has returned, no request that set out before it is on the screen or in
\* the line behind the front.
LockClears == scene = "line" => Line!LockClears

\* When a revoke has returned, nothing of an earlier listener is on screen or can
\* still come to the front.
RevokeClears == scene = "close" => Close!RevokeClears

\* A connection that has closed leaves no prompt behind, wherever its request was:
\* not yet in the line, waiting, handed over or on screen.
ClosedLeavesNothing == scene = "close" => Close!ClosedLeavesNothing

\* A request that was cancelled before it was answered is never signed, also if the
\* cancellation came before the prompt did.
CancelSticks == scene = "close" => Close!CancelSticks

\* While access is suspended nothing of it is left in the broker, whatever grant
\* form, restore or request was under way (suspend, restore_access,
\* grant_with_limits).
SceneSuspendedHolds ==
  /\ scene = "exec" => SuspendedHolds
  /\ scene = "consent" => Consent!SuspendedHolds

\* Whatever is live belongs to the grant that is live: no session or command of a
\* replaced or revoked grant stays usable (revoke_inner).
SceneNothingFromBefore ==
  /\ scene = "exec" => NothingFromBefore
  /\ scene = "slots" => Slots!NothingFromBefore

\* What a client was told about the end of a command stays so (finish).
SceneFinalStays == [][scene = "exec" => FinalStaysStep]_sceneVars

\* No more connections to hosts than slots, in all and per grant, also while
\* connections of a revoked grant are still being closed (Limiter).
SceneConnectionsBounded == scene = "slots" => Slots!ConnectionsBounded

\* A command's record is not dropped for room while its thread is at work
\* (State::evictable): the limits would then count less than there is.
SceneRecordOutlivesWork == scene = "evict" => Evict!RecordOutlivesWork

\* A session that still works is not closed under a command without the command being
\* cancelled: idleness is judged by commands under way, also ones that have not
\* reached the host yet (sweep, CloseSession).
SceneClosedTellsCommand == [][scene = "evict" => Evict!ClosedTellsCommandStep]_sceneVars

\* A live grant always has the person's saved consent behind it: forgetting cannot be
\* undone by a restore (forget_access, restore_access).
SceneConsented == scene = "consent" => Consent!Consented

\* Once a lock command is through, no listener serves the locked vault, except one
\* whose start has still to look (revoke_agent_access, arm).
LockCloses == scene = "agent" => Agent!LockCloses

\* Once the handling of a screen lock is through, nothing serves behind the locked
\* screen: neither agent nor gate (system_lock.rs, may_serve).
ScreenCloses ==
  /\ scene = "agent" => Agent!ScreenCloses
  /\ scene = "mcp" => Mcp!ScreenCloses

\* Switched off, the agent has no listener once nobody is at work on it: a restart
\* cannot bring it back (restart rechecks with the mutex held).
OffMeansOff == scene = "agent" => Agent!OffMeansOff

\* What serves can always be stopped: a listener is in reach of a revoke or of the
\* task that started it.
Reachable == scene = "agent" => Agent!Reachable

\* The gate of the broker is open over an unlocked vault only, or while the lock
\* command still has its second revoke to make.
GateNeedsVault == scene = "mcp" => Mcp!GateNeedsVault

\* One request at a time is asked; a lock, a revocation and a close leave no request
\* of theirs in the line and no prompt, and a cancelled request is never granted.
RequestsCleared ==
  /\ OneAtATime
  /\ LockClears
  /\ RevokeClears
  /\ ClosedLeavesNothing
  /\ CancelSticks

\* What lives in the broker lives under a live grant the person gave, within the
\* limits, and the record of a command outlives its work and keeps its outcome.
BrokerSound ==
  /\ [](/\ SceneSuspendedHolds
       /\ SceneNothingFromBefore
       /\ SceneConnectionsBounded
       /\ SceneRecordOutlivesWork
       /\ SceneConsented)
  /\ SceneFinalStays
  /\ SceneClosedTellsCommand

\* A listener is open only while the vault, the screen and the switch allow it, and a
\* listener that was opened is reachable by the stop that ends it.
ListenersClose ==
  /\ LockCloses
  /\ ScreenCloses
  /\ OffMeansOff
  /\ Reachable
  /\ GateNeedsVault
=============================================================================

---------------------------- MODULE AgentAccess ----------------------------
(***************************************************************************)
(* What decides whether other programs may reach the desktop application:  *)
(* the controllers of the system agent (client system_agent.rs) and of the *)
(* local MCP server (client mcp.rs), the lock and unlock commands, and the *)
(* operating system's lock, unlock, sleep and wake signals.                *)
(*                                                                         *)
(* Starting takes several awaits, so a start asked for before a lock may   *)
(* come to its end after it.  A task has the number of the listener it may *)
(* start; the MCP side keeps one listener and the broker's gate.           *)
(***************************************************************************)
EXTENDS Naturals, FiniteSets

CONSTANTS Agents,   \* tasks of the system agent's controller
          Mcps,     \* tasks of the MCP controller
          MaxLocks, MaxSignals, MaxSwitches \* bounds: lock commands, signals, switches by the person

\* What every instance of this module satisfies.
AccessAssumption ==
  Agents \subseteq Nat \ {0} /\ Mcps \subseteq Nat \ {0} /\ {MaxLocks, MaxSignals, MaxSwitches} \subseteq Nat

VARIABLES unlocked, screen, \* the core's state is there; the screen is locked
          asleep,           \* between a suspend and its wake
          locker, system,   \* the lock command and the signal handler under way
          locks, signals, switches, \* bounds
          epoch, stop,      \* Live: the epoch, the listener a revoke would stop
          running, turn,    \* Running and the task that holds its mutex
          enabled,          \* the saved setting of the system agent
          task, listening, cancelled, \* tasks; listeners up; tokens cancelled
          failed,           \* the status shows an error
          gate, gateEpoch,  \* the broker: open when not suspended; its lifecycle epoch
          server, mturn, menabled, mtask \* the MCP side likewise

agent == <<epoch, stop, running, turn, enabled, task, listening, cancelled, failed>>
mcp == <<gate, gateEpoch, server, mturn, menabled, mtask>>
world == <<unlocked, screen, asleep, locker, system, locks, signals, switches>>
vars == <<world, agent, mcp>>

Idle == [pc |-> "idle", kind |-> "none", ep |-> 0]

Init ==
  /\ unlocked = FALSE /\ screen = FALSE /\ asleep = FALSE /\ locker = "idle" /\ system = "idle"
  /\ locks = 0 /\ signals = 0 /\ switches = 0
  /\ epoch = 0 /\ stop = 0 /\ running = 0 /\ turn = 0 /\ enabled \in BOOLEAN
  /\ task = [t \in Agents |-> Idle] /\ listening = {} /\ cancelled = {} /\ failed = FALSE
  /\ gate = FALSE /\ gateEpoch = 1 /\ server = 0 /\ mturn = 0 /\ menabled \in BOOLEAN
  /\ mtask = [t \in Mcps |-> Idle]

Serving == listening \ cancelled

(***************************************************************************)
(* Revoking                                                                *)
(***************************************************************************)
(* Broker::suspend closes the gate and moves its epoch on.                 *)
RevokeMcp == gate' = FALSE /\ gateEpoch' = gateEpoch + 1 /\ UNCHANGED <<server, mturn, menabled, mtask>>

MutantRevokeAgent ==
  /\ stop' = 0 /\ cancelled' = cancelled \cup ({stop} \ {0})
  /\ UNCHANGED <<epoch, running, turn, enabled, task, listening, failed>>

(* Controller::revoke of the system agent: the listener in Live is stopped *)
(* and a start under way finds its epoch gone.                             *)
RevokeAgent ==
  /\ epoch' = epoch + 1 /\ stop' = 0
  /\ cancelled' = cancelled \cup ({stop} \ {0})
  /\ UNCHANGED <<running, turn, enabled, task, listening, failed>>

(* The lock command revokes, locks the core and revokes again.             *)
LockNext(pc) ==
  [mcp |-> "agent", agent |-> "core", core |-> "mcp2", mcp2 |-> "agent2", agent2 |-> "idle"][pc]

LockBegin ==
  /\ locker = "idle" /\ locks < MaxLocks
  /\ locker' = "mcp" /\ locks' = locks + 1
  /\ UNCHANGED <<unlocked, screen, asleep, system, signals, switches, agent, mcp>>

LockStep ==
  /\ locker # "idle" /\ locker' = LockNext(locker)
  /\ \/ locker \in {"mcp", "mcp2"} /\ RevokeMcp /\ UNCHANGED <<unlocked, agent>>
     \/ locker \in {"agent", "agent2"} /\ RevokeAgent /\ UNCHANGED <<unlocked, mcp>>
     \/ locker = "core" /\ unlocked' = FALSE /\ UNCHANGED <<agent, mcp>>
  /\ UNCHANGED <<screen, asleep, system, locks, signals, switches>>

(***************************************************************************)
(* Resuming: the MCP gate first, then the system agent, each in a task     *)
(***************************************************************************)
ResumeAccess ==
  /\ \/ Agents = {} /\ UNCHANGED task
     \/ \E t \in Agents :
          /\ task[t].kind = "none" /\ \A q \in Agents : q < t => task[q].kind # "none"
          /\ task' = [task EXCEPT ![t] = [pc |-> "screen", kind |-> "restart", ep |-> epoch]]
  /\ \/ Mcps = {} /\ UNCHANGED mtask
     \/ \E t \in Mcps :
          /\ mtask[t].kind = "none" /\ \A q \in Mcps : q < t => mtask[q].kind # "none"
          /\ mtask' = [mtask EXCEPT ![t] = [pc |-> "unlocked", kind |-> "resume", ep |-> gateEpoch]]
  /\ UNCHANGED <<epoch, stop, running, turn, enabled, listening, cancelled, failed,
                 gate, gateEpoch, server, mturn, menabled>>

(* unlock, and the biometric and keychain unlocks                          *)
Unlock ==
  /\ ~unlocked /\ unlocked' = TRUE
  /\ ResumeAccess
  /\ UNCHANGED <<screen, asleep, locker, system, locks, signals, switches>>

(* Signals come one at a time.  ScreenLock and Suspend revoke, ScreenUnlock*)
(* and a wake with the screen unlocked resume.                             *)
Signal(s) ==
  /\ system = "idle" /\ signals < MaxSignals /\ signals' = signals + 1
  /\ \/ s = "ScreenLock" /\ ~screen /\ screen' = TRUE /\ system' = "mcp" /\ UNCHANGED <<asleep, agent, mcp>>
     \/ s = "Suspend" /\ asleep' = TRUE /\ system' = "mcp" /\ UNCHANGED <<screen, agent, mcp>>
     \/ s = "ScreenUnlock" /\ screen /\ screen' = FALSE /\ ResumeAccess /\ UNCHANGED <<asleep, system>>
     \/ /\ s = "Wake" /\ asleep /\ asleep' = FALSE
        /\ IF screen THEN UNCHANGED <<agent, mcp>> ELSE ResumeAccess
        /\ UNCHANGED <<screen, system>>
  /\ UNCHANGED <<unlocked, locker, locks, switches>>

SignalStep ==
  /\ \/ system = "mcp" /\ system' = "agent" /\ RevokeMcp /\ UNCHANGED agent
     \/ system = "agent" /\ system' = "idle" /\ RevokeAgent /\ UNCHANGED mcp
  /\ UNCHANGED <<unlocked, screen, asleep, locker, locks, signals, switches>>

(***************************************************************************)
(* The system agent's controller                                           *)
(***************************************************************************)
Go(t, pc) == task' = [task EXCEPT ![t].pc = pc]
Return(t) == Go(t, "done") /\ turn' = IF turn = t THEN 0 ELSE turn

(* The person switches the agent on or off; the epoch is read first.       *)
Enable(t, on) ==
  /\ task[t].kind = "none" /\ \A q \in Agents : q < t => task[q].kind # "none"
  /\ task' = [task EXCEPT ![t] = [pc |-> "mutex", kind |-> IF on THEN "on" ELSE "off", ep |-> epoch]]
  /\ switches < MaxSwitches /\ switches' = switches + 1
  /\ UNCHANGED <<unlocked, screen, asleep, locker, system, locks, signals, mcp, epoch, stop, running, turn, enabled, listening, cancelled, failed>>

(* may_serve, in two looks; on the way of a restart and of switching on    *)
MayServe(t) ==
  /\ \/ /\ task[t].pc = "screen"
        /\ IF screen THEN Go(t, "mayNot") ELSE Go(t, "unlocked")
     \/ /\ task[t].pc = "unlocked"
        /\ Go(t, IF ~unlocked THEN "mayNot" ELSE IF task[t].kind = "restart" THEN "mutex" ELSE "listen")
  /\ UNCHANGED <<world, mcp, epoch, stop, running, turn, enabled, listening, cancelled, failed>>

(* It may not serve: a restart ends; switching on only saves the setting.  *)
MayNot(t) ==
  /\ task[t].pc = "mayNot"
  /\ IF task[t].kind = "restart" THEN UNCHANGED <<enabled, failed>>
     ELSE \/ enabled' = TRUE /\ failed' = FALSE
          \/ UNCHANGED enabled /\ failed' = TRUE
  /\ Return(t)
  /\ UNCHANGED <<world, mcp, epoch, stop, running, listening, cancelled>>

TakeTurn(t) ==
  /\ task[t].pc = "mutex" /\ turn = 0 /\ turn' = t
  /\ Go(t, IF task[t].kind = "restart" THEN "recheck" ELSE "stop")
  /\ UNCHANGED <<world, mcp, epoch, stop, running, enabled, listening, cancelled, failed>>

(* restart, with the mutex: still wanted, and not serving already          *)
Recheck(t) ==
  /\ task[t].pc = "recheck"
  /\ IF ~enabled \/ epoch # task[t].ep \/ (stop # 0 /\ running \in listening)
     THEN Return(t) ELSE Go(t, "stop") /\ UNCHANGED turn
  /\ UNCHANGED <<world, mcp, epoch, stop, running, enabled, listening, cancelled, failed>>

(* stop: cancels what runs and waits for it to end, two seconds at most,   *)
(* after which the task is aborted: either way it is gone.                 *)
StopOld(t) ==
  /\ task[t].pc = "stop"
  /\ stop' = 0 /\ cancelled' = cancelled \cup ({running} \ {0})
  /\ Go(t, "stopping")
  /\ UNCHANGED <<world, mcp, epoch, running, turn, enabled, listening, failed>>

Stopped(t) ==
  /\ task[t].pc = "stopping"
  /\ listening' = listening \ {running} /\ running' = 0
  /\ Go(t, CASE task[t].kind = "restart" -> "listen" [] task[t].kind = "on" -> "screen" [] OTHER -> "save")
  /\ UNCHANGED <<world, mcp, epoch, stop, turn, enabled, cancelled, failed>>

Listen(t) ==
  /\ task[t].pc = "listen"
  /\ \/ listening' = listening \cup {t} /\ Go(t, IF task[t].kind = "on" THEN "save" ELSE "look")
        /\ UNCHANGED <<turn, failed>>
     \/ failed' = TRUE /\ Return(t) /\ UNCHANGED listening
  /\ UNCHANGED <<world, mcp, epoch, stop, running, enabled, cancelled>>

(* Saving may fail; a listener that was started for it is then stopped.    *)
Save(t) ==
  /\ task[t].pc = "save"
  /\ \/ /\ enabled' = (task[t].kind = "on")
        /\ IF task[t].kind = "on" THEN Go(t, "look") /\ UNCHANGED <<turn, failed>>
           ELSE Return(t) /\ failed' = FALSE
        /\ UNCHANGED <<cancelled, listening>>
     \/ /\ failed' = TRUE /\ Return(t) /\ UNCHANGED enabled
        /\ cancelled' = IF task[t].kind = "on" THEN cancelled \cup {t} ELSE cancelled
        /\ listening' = listening \ {t}
  /\ UNCHANGED <<world, mcp, epoch, stop, running>>

(* Listening already, it looks at the core again.                          *)
Look(t) ==
  /\ task[t].pc = "look"
  /\ IF unlocked THEN Go(t, "arm") /\ UNCHANGED <<cancelled, running, turn, failed>>
     ELSE /\ cancelled' = cancelled \cup {t} /\ running' = t /\ failed' = FALSE /\ Return(t)
  /\ UNCHANGED <<world, mcp, epoch, stop, enabled, listening>>

Arm(t) ==
  /\ task[t].pc = "arm"
  /\ IF epoch = task[t].ep THEN stop' = t /\ UNCHANGED cancelled
     ELSE cancelled' = cancelled \cup {t} /\ UNCHANGED stop
  /\ running' = t /\ failed' = FALSE /\ Return(t)
  /\ UNCHANGED <<world, mcp, epoch, enabled, listening>>

(* A listener ends when it is cancelled, or when accepting fails for good. *)
ListenerEnds(t) ==
  /\ t \in listening /\ listening' = listening \ {t} /\ cancelled' = cancelled \cup {t}
  /\ failed' = (failed \/ t \notin cancelled)
  /\ UNCHANGED <<world, mcp, epoch, stop, running, turn, enabled, task>>

AgentStep(t) ==
  \/ MayServe(t) \/ MayNot(t) \/ TakeTurn(t) \/ Recheck(t) \/ StopOld(t) \/ Stopped(t)
  \/ Listen(t) \/ Save(t) \/ Look(t) \/ Arm(t)

(***************************************************************************)
(* The MCP controller                                                      *)
(***************************************************************************)
MGo(t, pc) == mtask' = [mtask EXCEPT ![t].pc = pc]
MReturn(t) == MGo(t, "done") /\ mturn' = IF mturn = t THEN 0 ELSE mturn

McpEnable(t, on) ==
  /\ mtask[t].kind = "none" /\ \A q \in Mcps : q < t => mtask[q].kind # "none"
  /\ mtask' = [mtask EXCEPT ![t] = [pc |-> "mutex", kind |-> IF on THEN "on" ELSE "off", ep |-> 0]]
  /\ switches < MaxSwitches /\ switches' = switches + 1
  /\ UNCHANGED <<unlocked, screen, asleep, locker, system, locks, signals, agent, gate, gateEpoch, server, mturn, menabled>>

(* enable closes the gate, then reads the epoch it may reopen it under,    *)
(* then stops the old listener.                                            *)
McpTurn(t) ==
  /\ mtask[t].pc = "mutex" /\ mturn = 0 /\ mturn' = t
  /\ MGo(t, IF mtask[t].kind = "resume" THEN "screen" ELSE "suspend")
  /\ UNCHANGED <<world, agent, gate, gateEpoch, server, menabled>>

McpSuspend(t) ==
  /\ mtask[t].pc = "suspend" /\ gate' = FALSE /\ gateEpoch' = gateEpoch + 1
  /\ MGo(t, "epoch")
  /\ UNCHANGED <<world, agent, server, mturn, menabled>>

McpEpoch(t) ==
  /\ mtask[t].pc = "epoch"
  /\ mtask' = [mtask EXCEPT ![t].ep = gateEpoch, ![t].pc = "bind"]
  /\ server' = 0
  /\ UNCHANGED <<world, agent, gate, gateEpoch, mturn, menabled>>

(* Binding or saving may fail.  Off, there is no listener any more.        *)
McpBind(t) ==
  /\ mtask[t].pc = "bind"
  /\ \/ mtask[t].kind = "off" /\ menabled' = FALSE /\ MReturn(t) /\ UNCHANGED server
     \/ /\ mtask[t].kind = "on" /\ menabled' = TRUE /\ server' = t
        /\ MGo(t, "unlocked") /\ UNCHANGED mturn
     \/ MReturn(t) /\ UNCHANGED <<server, menabled>>
  /\ UNCHANGED <<world, agent, gate, gateEpoch>>

McpUnlocked(t) ==
  /\ mtask[t].pc = "unlocked"
  /\ IF ~unlocked THEN MReturn(t)
     ELSE MGo(t, IF mtask[t].kind = "resume" THEN "mutex" ELSE "screen") /\ UNCHANGED mturn
  /\ UNCHANGED <<world, agent, gate, gateEpoch, server, menabled>>

McpScreen(t) ==
  /\ mtask[t].pc = "screen"
  /\ IF screen \/ (mtask[t].kind = "resume" /\ server = 0) THEN MReturn(t)
     ELSE MGo(t, "open") /\ UNCHANGED mturn
  /\ UNCHANGED <<world, agent, gate, gateEpoch, server, menabled>>

(* resume_if_current                                                       *)
McpOpen(t) ==
  /\ mtask[t].pc = "open"
  /\ gate' = (gate \/ gateEpoch = mtask[t].ep) /\ MReturn(t)
  /\ UNCHANGED <<world, agent, gateEpoch, server, menabled>>

(* The listener fails: the gate is closed by its own task.                 *)
McpFails ==
  /\ server # 0 /\ server' = 0 /\ gate' = FALSE /\ gateEpoch' = gateEpoch + 1
  /\ UNCHANGED <<world, agent, mturn, menabled, mtask>>

McpStep(t) ==
  \/ McpTurn(t) \/ McpSuspend(t) \/ McpEpoch(t) \/ McpBind(t) \/ McpUnlocked(t)
  \/ McpScreen(t) \/ McpOpen(t)

Next ==
  \/ LockBegin \/ LockStep \/ Unlock \/ SignalStep \/ McpFails
  \/ \E s \in {"ScreenLock", "ScreenUnlock", "Suspend", "Wake"} : Signal(s)
  \/ \E t \in Agents : AgentStep(t) \/ Enable(t, TRUE) \/ Enable(t, FALSE) \/ ListenerEnds(t)
  \/ \E t \in Mcps : McpStep(t) \/ McpEnable(t, TRUE) \/ McpEnable(t, FALSE)

Spec == Init /\ [][Next]_vars

(* Tasks, commands and handlers that have begun go on; a cancelled         *)
(* listener ends.                                                          *)
FairSpec ==
  /\ Spec /\ WF_vars(LockStep) /\ WF_vars(SignalStep)
  /\ \A t \in Agents : WF_vars(AgentStep(t)) /\ WF_vars(t \in cancelled /\ ListenerEnds(t))
  /\ \A t \in Mcps : WF_vars(McpStep(t))

(***************************************************************************)
(* Properties                                                              *)
(***************************************************************************)
(* What the controllers keep agrees: the listener a revoke would stop is   *)
(* the running one, and a mutex is held by a task at work.                 *)
TypeOK ==
  /\ stop \in Agents \cup {0} /\ (stop # 0 => stop = running)
  /\ turn \in {t \in Agents : task[t].pc \notin {"idle", "mutex", "done"}} \cup {0}
  /\ mturn \in {t \in Mcps : mtask[t].pc \notin {"idle", "mutex", "done"}} \cup {0}
  /\ listening \subseteq Agents /\ server \in Mcps \cup {0}

(* A start that has not made up its mind yet: it will arm or cancel.       *)
Undecided == {t \in Agents : task[t].pc \in {"save", "look", "arm"}}

(* Once a lock command is through, no listener serves the locked vault,    *)
(* except one whose start has still to look (revoke_agent_access, arm).    *)
LockCloses ==
  ~unlocked /\ locker = "idle" /\ locks > 0 => stop = 0 /\ Serving \subseteq Undecided

(* Once the handling of a screen lock is through, nothing serves behind    *)
(* the locked screen: neither agent nor gate (system_lock.rs, may_serve).  *)
ScreenCloses ==
  screen /\ system = "idle" =>
    stop = 0 /\ Serving \subseteq Undecided /\ ~gate

(* The gate of the broker is open over an unlocked vault only, or while    *)
(* the lock command still has its second revoke to make.                   *)
GateNeedsVault == gate /\ ~unlocked => locker = "mcp2"

(* Switched off, the agent has no listener once nobody is at work on it:   *)
(* a restart cannot bring it back (restart rechecks with the mutex held).  *)
OffMeansOff == ~enabled /\ turn = 0 => Serving = {}

(* What serves can always be stopped: a listener is in reach of a revoke   *)
(* or of the task that started it.                                         *)
Reachable == \A t \in Serving : t = stop \/ t \in Undecided

(* Every start and stop comes to an end and gives the mutex back.          *)
EveryTaskEnds ==
  /\ \A t \in Agents : task[t].kind # "none" ~> task[t].pc = "done"
  /\ \A t \in Mcps : mtask[t].kind # "none" ~> mtask[t].pc = "done"

\* Nothing keeps the agent from serving and nobody is at work on it.
Calm ==
  /\ unlocked /\ ~screen /\ ~asleep /\ enabled /\ system = "idle" /\ locker = "idle"
  /\ \A t \in Agents : task[t].pc \in {"idle", "done"}
(* The vault open, the screen unlocked, the machine awake, the setting on  *)
(* and nobody at work: the agent serves again or shows why not, so nobody  *)
(* has to switch it on by hand (resume_access, system_agent.rs).           *)
ServesAgain == Calm => stop # 0 \/ failed
=============================================================================

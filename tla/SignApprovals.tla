--------------------------- MODULE SignApprovals ---------------------------
(***************************************************************************)
(* The one line every signature request of an agent waits in (ffi          *)
(* approvals.rs) and the window's registry of prompts (observers.rs).      *)
(* A connection, of a local program or a channel of a forwarded session,   *)
(* has one request at a time, answered on a thread of its own; meanwhile   *)
(* the connection may close, the core lock and unlock, the system agent be *)
(* revoked, and the person answer or let the prompt time out.              *)
(*                                                                         *)
(* Every step is what happens under one lock: the line's, a connection's,  *)
(* the core state's or the registry's.  They are never held together,      *)
(* except that joining the line looks whether the connection has closed.   *)
(***************************************************************************)
EXTENDS Naturals, FiniteSets, Sequences, SequencesExt

CONSTANTS Conns,
          System,       \* the connections to the system agent; the others are forwarded
          MaxForwarded, \* MAX_FORWARDED
          MaxIds, MaxLocks, MaxRevokes, MaxCloses, MaxOpens  \* bounds

\* What every instance of this module satisfies.
ApprovalAssumption ==
  /\ System \subseteq Conns
  /\ {MaxForwarded, MaxIds, MaxLocks, MaxRevokes, MaxCloses, MaxOpens} \subseteq Nat

None == <<>>

VARIABLES unlocked, \* the core's state is there
          line,     \* the ids waiting, the front being asked about
          locks, sysEpoch, \* the line's lock epoch and system epoch
          listener, \* the epoch the listening system agent was made in
          conn,     \* the connections: closed, pending, epoch, and the closing thread
          ask,      \* the request each connection's thread works on
          prompts, early, \* the registry: prompts shown, ids cancelled before they came
          locker, revoker, \* what a lock and a revoke under way have left to do
          ids,      \* how many requests each connection slot has made
          opens, closes, revokes, \* bounds
          struck    \* history: ids cancelled or withdrawn before an answer

vars == <<unlocked, line, locks, sysEpoch, listener, conn, ask, prompts, early, locker,
          revoker, ids, opens, closes, revokes, struck>>

Quiet == [pc |-> "idle", id |-> None]
NoAsk == [pc |-> "idle", id |-> None, lk |-> 0, reply |-> "none", at |-> 0]
Fresh(e) == [closed |-> FALSE, pending |-> None, epoch |-> e, closing |-> Quiet]

Init ==
  /\ unlocked = TRUE /\ line = <<>> /\ locks = 0 /\ sysEpoch = 0 /\ listener = 0
  /\ conn = [c \in Conns |-> Fresh(0)]
  /\ ask = [c \in Conns |-> NoAsk]
  /\ prompts = {} /\ early = {}
  /\ locker = Quiet /\ revoker = Quiet
  /\ ids = [c \in Conns |-> 0] /\ opens = 0 /\ closes = 0 /\ revokes = 0 /\ struck = {}

IsSystem(id) == id # None /\ id[1] \in System
Shown == IF line = <<>> THEN None ELSE Head(line)

(* notify_all: whoever sleeps on the line looks at it again.               *)
Woken(a) == [c \in Conns |-> IF a[c].pc = "asleep" THEN [a[c] EXCEPT !.pc = "wait"] ELSE a[c]]
To(c, pc) == [ask EXCEPT ![c].pc = pc]

(***************************************************************************)
(* A request: approve of the bridge and of the system agent, then ask      *)
(***************************************************************************)
(* approval_epoch_if_unlocked: the epoch first, the state after it.        *)
ReadEpoch(c) ==
  /\ ask[c].pc = "idle" /\ ~conn[c].closed /\ ids[c] < MaxIds
  /\ ask' = [ask EXCEPT ![c] = [NoAsk EXCEPT !.pc = "epoch", !.lk = locks]]
  /\ UNCHANGED <<unlocked, line, locks, sysEpoch, listener, conn, prompts, early, locker, revoker, ids, opens, closes, revokes, struck>>

SeeUnlocked(c) ==
  /\ ask[c].pc = "epoch"
  /\ ask' = IF unlocked THEN To(c, "begin") ELSE [ask EXCEPT ![c] = NoAsk]
  /\ UNCHANGED <<unlocked, line, locks, sysEpoch, listener, conn, prompts, early, locker, revoker, ids, opens, closes, revokes, struck>>

(* Connection::begin                                                       *)
BeginRequest(c) ==
  /\ ask[c].pc = "begin"
  /\ ids' = [ids EXCEPT ![c] = @ + 1]
  /\ IF conn[c].closed
     THEN ask' = [ask EXCEPT ![c] = NoAsk] /\ UNCHANGED conn
     ELSE /\ ask' = [ask EXCEPT ![c].pc = "join", ![c].id = <<c, ids[c] + 1>>]
          /\ conn' = [conn EXCEPT ![c].pending = <<c, ids[c] + 1>>]
  /\ UNCHANGED <<unlocked, line, locks, sysEpoch, listener, prompts, early, locker, revoker, opens, closes, revokes, struck>>

(* The door of the line.                                                   *)
Admitted(c) ==
  /\ ask[c].lk = locks
  /\ ~conn[c].closed
  /\ IF c \in System THEN conn[c].epoch = sysEpoch
     ELSE Cardinality({i \in DOMAIN line : ~IsSystem(line[i])}) < MaxForwarded

Join(c) ==
  /\ ask[c].pc = "join"
  /\ IF Admitted(c)
     THEN line' = Append(line, ask[c].id) /\ ask' = To(c, "wait")
     ELSE UNCHANGED line /\ ask' = To(c, "finish")
  /\ UNCHANGED <<unlocked, locks, sysEpoch, listener, conn, prompts, early, locker, revoker, ids, opens, closes, revokes, struck>>

(* wait_while: behind others the thread sleeps, out of the line it is      *)
(* refused, at the front it has its turn.                                  *)
Look(c) ==
  /\ ask[c].pc = "wait"
  /\ ask' = To(c, IF ~Contains(line, ask[c].id) THEN "finish"
                  ELSE IF Shown # ask[c].id THEN "asleep" ELSE "turn")
  /\ UNCHANGED <<unlocked, line, locks, sysEpoch, listener, conn, prompts, early, locker, revoker, ids, opens, closes, revokes, struck>>

(* AppApprover::approve registers the prompt, unless it was cancelled      *)
(* before it came; what else was remembered can never come any more.       *)
HandOver(c) ==
  /\ ask[c].pc = "turn"
  /\ early' = {}
  /\ IF ask[c].id \in early
     THEN ask' = [ask EXCEPT ![c].pc = "leave", ![c].reply = "no"] /\ UNCHANGED prompts
     ELSE /\ ask' = [ask EXCEPT ![c].pc = "shown", ![c].at = locks]
          /\ prompts' = prompts \cup {ask[c].id}
  /\ UNCHANGED <<unlocked, line, locks, sysEpoch, listener, conn, locker, revoker, ids, opens, closes, revokes, struck>>

(* The person answers; the answer waits in the prompt's channel.           *)
Answer(c, reply) ==
  /\ ask[c].id \in prompts
  /\ prompts' = prompts \ {ask[c].id}
  /\ ask' = [ask EXCEPT ![c].reply = reply]
  /\ UNCHANGED <<unlocked, line, locks, sysEpoch, listener, conn, early, locker, revoker, ids, opens, closes, revokes, struck>>

Receive(c) ==
  /\ ask[c].pc = "shown" /\ ask[c].reply # "none"
  /\ ask' = To(c, "leave")
  /\ UNCHANGED <<unlocked, line, locks, sysEpoch, listener, conn, prompts, early, locker, revoker, ids, opens, closes, revokes, struck>>

(* Sixty seconds without an answer (or the window could not be told): the  *)
(* thread gives up, then takes the prompt out; an answer in between is lost.*)
TimeOut(c) ==
  /\ ask[c].pc = "shown" /\ ask[c].reply = "none"
  /\ ask' = To(c, "giveup")
  /\ UNCHANGED <<unlocked, line, locks, sysEpoch, listener, conn, prompts, early, locker, revoker, ids, opens, closes, revokes, struck>>

GiveUp(c) ==
  /\ ask[c].pc = "giveup"
  /\ prompts' = prompts \ {ask[c].id}
  /\ ask' = [ask EXCEPT ![c].pc = "leave", ![c].reply = "no"]
  /\ UNCHANGED <<unlocked, line, locks, sysEpoch, listener, conn, early, locker, revoker, ids, opens, closes, revokes, struck>>

(* Turn::drop                                                              *)
LeaveLine(c) ==
  /\ ask[c].pc = "leave"
  /\ line' = Remove(line, ask[c].id)
  /\ ask' = Woken(To(c, "finish"))
  /\ UNCHANGED <<unlocked, locks, sysEpoch, listener, conn, prompts, early, locker, revoker, ids, opens, closes, revokes, struck>>

(* Connection::finish, and back to the agent, which signs if it was allowed.*)
Finish(c) ==
  /\ ask[c].pc = "finish"
  /\ conn' = [conn EXCEPT ![c].pending = None]
  /\ ask' = [ask EXCEPT ![c] = NoAsk]
  /\ UNCHANGED <<unlocked, line, locks, sysEpoch, listener, prompts, early, locker, revoker, ids, opens, closes, revokes, struck>>

(***************************************************************************)
(* What ends requests                                                      *)
(***************************************************************************)
Replied(refused) ==
  [c \in Conns |-> IF ask[c].id \in refused \cap prompts
                   THEN [ask[c] EXCEPT !.reply = "no"] ELSE ask[c]]
Unanswered(id) == id # None /\ \E c \in Conns : ask[c].id = id /\ ask[c].reply = "none"

MutantCancel(id) ==
  /\ prompts' = prompts \ {id}
  /\ UNCHANGED early
  /\ ask' = Replied({id})
  /\ struck' = IF Unanswered(id) THEN struck \cup {id} ELSE struck

(* AppApprover::cancel: a prompt that has not come yet is remembered.      *)
Cancel(id) ==
  /\ prompts' = prompts \ {id}
  /\ early' = IF id \in prompts \/ id = None THEN early ELSE early \cup {id}
  /\ ask' = Replied({id})
  /\ struck' = IF Unanswered(id) THEN struck \cup {id} ELSE struck

(* Connection::close: marked closed first, then the request withdrawn.     *)
Close(c) ==
  /\ ~conn[c].closed /\ closes < MaxCloses
  /\ closes' = closes + 1
  /\ conn' = [conn EXCEPT ![c].closed = TRUE, ![c].pending = None,
                ![c].closing = IF conn[c].pending = None THEN Quiet
                               ELSE [pc |-> "withdraw", id |-> conn[c].pending]]
  /\ UNCHANGED <<unlocked, line, locks, sysEpoch, listener, ask, prompts, early, locker, revoker, ids, opens, revokes, struck>>

(* Approvals::withdraw: the front stays in the line until its turn is over.*)
Withdraw(c) ==
  LET id == conn[c].closing.id IN
  /\ conn[c].closing.pc = "withdraw"
  /\ line' = IF Shown = id THEN line ELSE Remove(line, id)
  /\ conn' = [conn EXCEPT ![c].closing = IF Shown = id THEN [pc |-> "cancel", id |-> id] ELSE Quiet]
  /\ ask' = Woken(ask)
  /\ UNCHANGED <<unlocked, locks, sysEpoch, listener, prompts, early, locker, revoker, ids, opens, closes, revokes, struck>>

WithdrawCancel(c) ==
  /\ conn[c].closing.pc = "cancel"
  /\ Cancel(conn[c].closing.id)
  /\ conn' = [conn EXCEPT ![c].closing = Quiet]
  /\ UNCHANGED <<unlocked, line, locks, sysEpoch, listener, locker, revoker, ids, opens, closes, revokes>>

(* The next connection, once the thread of the last one is done: a new     *)
(* channel, or one accepted by whichever listener is there.                *)
Reopen(c) ==
  /\ conn[c].closed /\ conn[c].closing = Quiet /\ ask[c].pc = "idle" /\ opens < MaxOpens
  /\ opens' = opens + 1
  /\ conn' = [conn EXCEPT ![c] = Fresh(listener)]
  /\ UNCHANGED <<unlocked, line, locks, sysEpoch, listener, ask, prompts, early, locker, revoker, ids, closes, revokes, struck>>

(* Core::lock: the state is gone first, then the line is emptied.          *)
LockState ==
  /\ unlocked /\ locker = Quiet /\ locks < MaxLocks
  /\ unlocked' = FALSE
  /\ locker' = [pc |-> "line", id |-> None]
  /\ UNCHANGED <<line, locks, sysEpoch, listener, conn, ask, prompts, early, revoker, ids, opens, closes, revokes, struck>>

MutantRefuseAll ==
  /\ locker.pc = "line"
  /\ locks' = locks + 1
  /\ line' = <<>>
  /\ locker' = [pc |-> "cancel", id |-> Shown]
  /\ ask' = Woken(ask)
  /\ UNCHANGED <<unlocked, sysEpoch, listener, conn, prompts, early, revoker, ids, opens, closes, revokes, struck>>

(* refuse_all: everything but the front goes, and the front is cancelled.  *)
RefuseAll ==
  /\ locker.pc = "line"
  /\ locks' = locks + 1
  /\ line' = IF line = <<>> THEN line ELSE <<Head(line)>>
  /\ locker' = [pc |-> "cancel", id |-> Shown]
  /\ ask' = Woken(ask)
  /\ UNCHANGED <<unlocked, sysEpoch, listener, conn, prompts, early, revoker, ids, opens, closes, revokes, struck>>

RefuseCancel ==
  /\ locker.pc = "cancel"
  /\ Cancel(locker.id)
  /\ locker' = Quiet
  /\ UNCHANGED <<unlocked, line, locks, sysEpoch, listener, conn, revoker, ids, opens, closes, revokes>>

Unlock ==
  /\ ~unlocked
  /\ unlocked' = TRUE
  /\ UNCHANGED <<line, locks, sysEpoch, listener, conn, ask, prompts, early, locker, revoker, ids, opens, closes, revokes, struck>>

(* revoke_system: the system requests behind the front go; then the front  *)
(* is cancelled if it is one, and the window's registry swept.             *)
RevokeSystem ==
  /\ revoker = Quiet /\ revokes < MaxRevokes
  /\ revokes' = revokes + 1
  /\ sysEpoch' = sysEpoch + 1
  /\ line' = IF line = <<>> THEN line
             ELSE <<Head(line)>> \o SelectSeq(Tail(line), LAMBDA id : ~IsSystem(id))
  /\ revoker' = [pc |-> "cancel", id |-> IF IsSystem(Shown) THEN Shown ELSE None]
  /\ ask' = Woken(ask)
  /\ UNCHANGED <<unlocked, locks, listener, conn, prompts, early, locker, ids, opens, closes, struck>>

RevokeCancel ==
  /\ revoker.pc = "cancel"
  /\ Cancel(revoker.id)
  /\ revoker' = [pc |-> "sweep", id |-> None]
  /\ UNCHANGED <<unlocked, line, locks, sysEpoch, listener, conn, locker, ids, opens, closes, revokes>>

(* cancel_system                                                           *)
Sweep ==
  LET swept == {id \in prompts : IsSystem(id)} IN
  /\ revoker.pc = "sweep"
  /\ prompts' = prompts \ swept
  /\ ask' = Replied(swept)
  /\ struck' = struck \cup swept
  /\ revoker' = Quiet
  /\ UNCHANGED <<unlocked, line, locks, sysEpoch, listener, conn, early, locker, ids, opens, closes, revokes>>

(* Core::system_agent: a listener started from now on has the new epoch.   *)
Listen ==
  /\ listener # sysEpoch
  /\ listener' = sysEpoch
  /\ UNCHANGED <<unlocked, line, locks, sysEpoch, conn, ask, prompts, early, locker, revoker, ids, opens, closes, revokes, struck>>

ThreadStep(c) ==
  \/ SeeUnlocked(c) \/ BeginRequest(c) \/ Join(c) \/ Look(c) \/ HandOver(c) \/ Receive(c)
  \/ TimeOut(c) \/ GiveUp(c) \/ LeaveLine(c) \/ Finish(c)
CloseStep(c) == Withdraw(c) \/ WithdrawCancel(c)
LockStep == RefuseAll \/ RefuseCancel
RevokeStep == RevokeCancel \/ Sweep

Next ==
  \/ \E c \in Conns : \/ ReadEpoch(c) \/ ThreadStep(c) \/ Close(c) \/ CloseStep(c) \/ Reopen(c)
                      \/ \E reply \in {"yes", "no"} : Answer(c, reply)
  \/ LockState \/ LockStep \/ Unlock \/ RevokeSystem \/ RevokeStep \/ Listen

Spec == Init /\ [][Next]_vars

(* Threads run, and a prompt nobody answers times out.                     *)
Fairness == (\A c \in Conns : WF_vars(ThreadStep(c)) /\ WF_vars(CloseStep(c)))
            /\ WF_vars(LockStep) /\ WF_vars(RevokeStep)
FairSpec == Spec /\ Fairness

-----------------------------------------------------------------------------
(* The line holds requests under way, each once, and nobody sleeps at the  *)
(* front of the line or outside of it.                                     *)
TypeOK ==
  /\ \A i \in DOMAIN line : \E c \in Conns : ask[c].id = line[i]
  /\ IsInjective(line)
  /\ prompts \cup early \subseteq Conns \X (1..MaxIds)
  /\ \A c \in Conns : ask[c].pc = "asleep" => ask[c].id \in ToSet(Tail(line))

(* The approver is asked about one request at a time, the front of the     *)
(* line, however requests are cancelled: nothing is handed over before the *)
(* approver has let go of the one before.                                  *)
OneAtATime ==
  /\ \A c, d \in Conns : {ask[c].pc, ask[d].pc} \subseteq {"turn", "shown", "giveup", "leave"} => c = d
  /\ \A c \in Conns : ask[c].id \in prompts => Shown = ask[c].id

(* When a lock has returned, no request that set out before it is on the   *)
(* screen or in the line behind the front.                                 *)
LockClears ==
  locker = Quiet =>
    \A c \in Conns : /\ ask[c].id \in prompts => ask[c].lk = locks
                     /\ line # <<>> /\ ask[c].id \in ToSet(Tail(line)) => ask[c].lk = locks

(* When a revoke has returned, nothing of an earlier listener is on screen *)
(* or can still come to the front.                                         *)
RevokeClears ==
  revoker = Quiet =>
    \A c \in System : /\ ask[c].id \in prompts => conn[c].epoch = sysEpoch
                      /\ line # <<>> /\ ask[c].id \in ToSet(Tail(line)) => conn[c].epoch = sysEpoch

(* A connection that has closed leaves no prompt behind, wherever its      *)
(* request was: not yet in the line, waiting, handed over or on screen.    *)
ClosedLeavesNothing ==
  \A c \in Conns : conn[c].closed /\ conn[c].closing = Quiet =>
    ask[c].id \notin prompts

(* A request that was cancelled before it was answered is never signed,    *)
(* also if the cancellation came before the prompt did.                    *)
CancelSticks == \A c \in Conns : ask[c].pc = "finish" /\ ask[c].reply = "yes" => ask[c].id \notin struck

(* Every request comes to an end: the line always moves on.                *)
EveryRequestEnds == \A c \in Conns : ask[c].pc = "join" ~> ask[c].pc = "idle"

(* No request from before a lock is ever put to the approver after it.     *)
NothingFromBefore == \A c \in Conns : ask[c].id \in prompts => ask[c].at = ask[c].lk
=============================================================================

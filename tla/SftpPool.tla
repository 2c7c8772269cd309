------------------------------ MODULE SftpPool ------------------------------
(***************************************************************************)
(* The channel pool of one SFTP session (SftpFfi, rust-core/crates/ffi).   *)
(* Threads lease a channel for one operation, opening new channels on the  *)
(* SSH connection up to a limit that the server may lower; reopen replaces *)
(* a broken connection, close ends the session.  The pool, the connection  *)
(* and reconnecting have a mutex each; threads wait on a condition         *)
(* variable.  What runs under the pool's mutex is one step.                *)
(***************************************************************************)
EXTENDS Naturals, FiniteSets

CONSTANTS Plain,      \* threads whose operation cannot be cancelled
          Cancellable, \* threads whose operation has a cancel token
          Reopeners,  \* threads that call reopen
          Parallelism, \* the pool's first limit
          ServerMax,  \* channels the server grants on one connection
          OpenRetryMax, \* OPEN_RETRY_MAX
          MaxOps,     \* bound on operations
          MaxDown,    \* bound on connections that break
          MaxFlaw     \* bound on poisoned channels and failed opens on a good link

Threads == Plain \cup Cancellable \cup Reopeners
NoOne == "nobody"

\* What every instance of this module satisfies.
PoolAssumption ==
  /\ Parallelism \in Nat \ {0} /\ ServerMax \in Nat \ {0}
  /\ {OpenRetryMax, MaxOps, MaxDown, MaxFlaw} \subseteq Nat
  /\ Plain \cap Cancellable = {} /\ (Plain \cup Cancellable) \cap Reopeners = {}
  /\ IsFiniteSet(Threads) /\ NoOne \notin Threads

VARIABLES idle,     \* channels in the pool; a channel is <<connection, number>>
          created, max, generation, closed,  \* the rest of SftpPool
          shutdown, \* the flag every operation of the session watches
          client,   \* the connection in use: [conn, alive], conn 0 once taken
          clientLock, reconnectLock,          \* their holders
          th,       \* the threads
          waiting,  \* threads on the condition variable
          chans,    \* channels opened so far
          ops, downs, flaws                   \* bounds

pool == <<idle, created, max, generation, closed>>
vars == <<idle, created, max, generation, closed, shutdown, client, clientLock,
          reconnectLock, th, waiting, chans, ops, downs, flaws>>

Idle == [pc |-> "idle", gen |-> 0, ch |-> <<0, 0>>, retries |-> 0, cancelled |-> FALSE,
         why |-> "none", seen |-> 0]

Init ==
  /\ idle = {<<1, 1>>} /\ created = 1 /\ max = Parallelism /\ generation = 1
  /\ closed = FALSE /\ shutdown = FALSE
  /\ client = [conn |-> 1, alive |-> TRUE]
  /\ clientLock = NoOne /\ reconnectLock = NoOne
  /\ th = [t \in Threads |-> Idle]
  /\ waiting = {} /\ chans = 1 /\ ops = 0 /\ downs = 0 /\ flaws = 0

Go(t, pc) == th' = [th EXCEPT ![t].pc = pc]

(* notify_one wakes one waiting thread, if there is any; next holds the    *)
(* threads after the caller's own step.                                    *)
NotifyOne(next, W) ==
  IF W = {} THEN th' = next /\ waiting' = W
  ELSE \E w \in W : th' = [next EXCEPT ![w].pc = "lease"] /\ waiting' = W \ {w}

NotifyAll == [t \in Threads |-> IF t \in waiting THEN [th[t] EXCEPT !.pc = "lease"] ELSE th[t]]

(***************************************************************************)
(* The operations: each leases a channel, works on it and gives it back    *)
(***************************************************************************)
StartPlain(t) ==
  /\ t \in Plain /\ th[t].pc = "idle" /\ ops < MaxOps
  /\ ops' = ops + 1
  /\ th' = [th EXCEPT ![t] = [Idle EXCEPT !.pc = "lease"]]
  /\ UNCHANGED <<pool, shutdown, client, clientLock, reconnectLock, waiting, chans, downs, flaws>>

StartCancellable(t) ==
  /\ t \in Cancellable /\ th[t].pc = "idle" /\ ops < MaxOps
  /\ ops' = ops + 1
  /\ th' = [th EXCEPT ![t] = [Idle EXCEPT !.pc = "lease"]]
  /\ UNCHANGED <<pool, shutdown, client, clientLock, reconnectLock, waiting, chans, downs, flaws>>

(* The user cancels; the flag is seen at the next look at it.              *)
Cancel(t) ==
  /\ t \in Cancellable /\ th[t].pc # "idle" /\ ~th[t].cancelled
  /\ th' = [th EXCEPT ![t].cancelled = TRUE]
  /\ UNCHANGED <<pool, shutdown, client, clientLock, reconnectLock, waiting, chans, ops, downs, flaws>>

(* One round of the loop of lease, under the pool's mutex.  The slot of a  *)
(* channel that is to be opened is counted before it is.                   *)
LeaseRound(t) ==
  /\ th[t].pc = "lease"
  /\ \/ /\ th[t].cancelled
        /\ NotifyOne([th EXCEPT ![t].pc = "ended"], waiting)
        /\ UNCHANGED pool
     \/ /\ ~th[t].cancelled /\ closed
        /\ Go(t, "refused")
        /\ UNCHANGED <<pool, waiting>>
     \/ /\ ~th[t].cancelled /\ ~closed
        /\ \E c \in idle :
             /\ idle' = idle \ {c}
             /\ th' = [th EXCEPT ![t].pc = "use", ![t].ch = c, ![t].gen = generation]
        /\ UNCHANGED <<created, max, generation, closed, waiting>>
     \/ /\ ~th[t].cancelled /\ ~closed /\ idle = {} /\ created < max
        /\ created' = created + 1
        /\ th' = [th EXCEPT ![t].pc = "client", ![t].gen = generation]
        /\ UNCHANGED <<idle, max, generation, closed, waiting>>
     \/ /\ ~th[t].cancelled /\ ~closed /\ idle = {} /\ created >= max
        /\ Go(t, "wait")
        /\ waiting' = waiting \cup {t}
        /\ UNCHANGED pool
  /\ UNCHANGED <<shutdown, client, clientLock, reconnectLock, chans, ops, downs, flaws>>

(* A thread with a cancel token looks again after 50 ms.                   *)
WaitTimeout(t) ==
  /\ t \in waiting \cap Cancellable
  /\ Go(t, "lease")
  /\ waiting' = waiting \ {t}
  /\ UNCHANGED <<pool, shutdown, client, clientLock, reconnectLock, chans, ops, downs, flaws>>

(* open_channel_cancel: the connection's mutex, then the pool is looked at *)
(* again: the slot may belong to an older connection by now.               *)
LockClient(t) ==
  /\ th[t].pc = "client"
  /\ \/ /\ th[t].cancelled
        /\ Go(t, "unopened")
        /\ UNCHANGED clientLock
     \/ /\ ~th[t].cancelled /\ clientLock = NoOne
        /\ IF closed \/ generation # th[t].gen \/ client.conn = 0
           THEN /\ th' = [th EXCEPT ![t].pc = "failed", ![t].why = "stale"]
                /\ UNCHANGED clientLock
           ELSE Go(t, "opening") /\ clientLock' = t
  /\ UNCHANGED <<pool, shutdown, client, reconnectLock, waiting, chans, ops, downs, flaws>>

(* Channels of connection k that the server still counts.                  *)
Live(k) == {c \in idle : c[1] = k} \cup
           {th[t].ch : t \in {u \in Threads : th[u].pc \in {"opened", "use", "back"}
                                              /\ th[u].ch[1] = k}}

(* The open itself: it succeeds, is refused, breaks or is interrupted.     *)
OpenChannel(t) ==
  /\ th[t].pc = "opening"
  /\ clientLock' = NoOne
  /\ \/ /\ ~shutdown /\ ~th[t].cancelled /\ client.alive
        /\ Cardinality(Live(client.conn)) < ServerMax
        /\ chans' = chans + 1
        /\ th' = [th EXCEPT ![t].pc = "opened", ![t].ch = <<client.conn, chans + 1>>]
        /\ UNCHANGED flaws
     \/ /\ client.alive /\ Cardinality(Live(client.conn)) >= ServerMax
        /\ th' = [th EXCEPT ![t].pc = "failed", ![t].why = "prohibited"]
        /\ UNCHANGED <<chans, flaws>>
     \/ /\ client.alive => flaws < MaxFlaw /\ ~shutdown
        /\ flaws' = IF client.alive THEN flaws + 1 ELSE flaws
        /\ \E why \in {"broken", "prohibited"} :
             th' = [th EXCEPT ![t].pc = "failed", ![t].why = why]
        /\ UNCHANGED chans
     \/ /\ th[t].cancelled
        /\ Go(t, "unopened")
        /\ UNCHANGED <<chans, flaws>>
     \/ /\ shutdown
        /\ th' = [th EXCEPT ![t].pc = "failed", ![t].why = "closed"]
        /\ UNCHANGED <<chans, flaws>>
  /\ UNCHANGED <<pool, shutdown, client, reconnectLock, waiting, ops, downs>>

MutantStillMine(t) == TRUE

(* A channel that took long to open counts only if its slot still exists.  *)
StillMine(t) == ~closed /\ generation = th[t].gen

LeaseOpened(t) ==
  /\ th[t].pc = "opened"
  /\ th' = [th EXCEPT ![t].pc = IF StillMine(t) THEN "use" ELSE "lease"]
  /\ UNCHANGED <<pool, shutdown, client, clientLock, reconnectLock, waiting, chans, ops, downs,
                 flaws>>

(* Cancelled before the channel was there: the slot is given up.           *)
LeaseUnopened(t) ==
  /\ th[t].pc = "unopened"
  /\ created' = IF generation = th[t].gen THEN created - 1 ELSE created
  /\ NotifyOne([th EXCEPT ![t].pc = "ended"], waiting)
  /\ UNCHANGED <<idle, max, generation, closed, shutdown, client, clientLock, reconnectLock,
                 chans, ops, downs, flaws>>

Lowers(t, left) == left > 0 /\ th[t].why = "prohibited"

(* The open failed.  If the server refused it and other channels are there *)
(* the limit falls to what it granted; otherwise the thread tries again, a *)
(* few times.                                                              *)
LeaseFailed(t) ==
  /\ th[t].pc = "failed"
  /\ LET left == created - 1
         lower == Lowers(t, left)
         tries == th[t].retries + 1
     IN \/ /\ generation # th[t].gen
           /\ Go(t, "lease")
           /\ UNCHANGED <<created, max, waiting>>
        \/ /\ generation = th[t].gen /\ lower
           /\ created' = left
           /\ max' = IF left < max THEN left ELSE max
           /\ Go(t, "lease")
           /\ UNCHANGED waiting
        \/ /\ generation = th[t].gen /\ ~lower
           /\ created' = left
           /\ UNCHANGED max
           /\ IF tries > OpenRetryMax
              THEN NotifyOne([th EXCEPT ![t].pc = "refused"], waiting)
              ELSE /\ th' = [th EXCEPT ![t].pc = "lease", ![t].retries = tries]
                   /\ UNCHANGED waiting
  /\ UNCHANGED <<idle, generation, closed, shutdown, client, clientLock, reconnectLock, chans,
                 ops, downs, flaws>>

(* The operation runs; afterwards the channel is in step or poisoned.  On  *)
(* a dead connection, or when interrupted, it cannot stay in step.         *)
UseChannel(t) ==
  /\ th[t].pc = "use"
  /\ LET good == client.alive /\ client.conn = th[t].ch[1] /\ ~shutdown
     IN \/ good /\ th' = [th EXCEPT ![t].pc = "back", ![t].why = "healthy"] /\ UNCHANGED flaws
        \/ /\ good /\ ~th[t].cancelled => flaws < MaxFlaw
           /\ flaws' = IF good /\ ~th[t].cancelled THEN flaws + 1 ELSE flaws
           /\ th' = [th EXCEPT ![t].pc = "back", ![t].why = "poisoned"]
  /\ UNCHANGED <<pool, shutdown, client, clientLock, reconnectLock, waiting, chans, ops, downs>>

(* A channel returns to the pool only if it is of the pool's generation.   *)
TakesBack(t) == th[t].why = "healthy" /\ ~closed /\ th[t].gen = generation

Giveback(t) ==
  /\ th[t].pc = "back"
  /\ IF TakesBack(t)
     THEN idle' = idle \cup {th[t].ch} /\ UNCHANGED created
     ELSE /\ created' = IF th[t].gen = generation /\ created > 0 THEN created - 1 ELSE created
          /\ UNCHANGED idle
  /\ NotifyOne([th EXCEPT ![t].pc = IF th[t].why = "healthy" THEN "ended" ELSE "refused"], waiting)
  /\ UNCHANGED <<max, generation, closed, shutdown, client, clientLock, reconnectLock, chans,
                 ops, downs, flaws>>

(* The caller gets its answer.                                             *)
Answer(t) ==
  /\ t \notin Reopeners
  /\ th[t].pc \in {"ended", "refused"}
  /\ th' = [th EXCEPT ![t] = Idle]
  /\ UNCHANGED <<pool, shutdown, client, clientLock, reconnectLock, waiting, chans, ops, downs,
                 flaws>>

(***************************************************************************)
(* reopen, close, and the connection                                       *)
(***************************************************************************)
ReopenBegin(t) ==
  /\ t \in Reopeners /\ th[t].pc = "idle" /\ ops < MaxOps
  /\ ops' = ops + 1
  /\ th' = [th EXCEPT ![t] = [Idle EXCEPT !.pc = "serialize", !.seen = generation]]
  /\ UNCHANGED <<pool, shutdown, client, clientLock, reconnectLock, waiting, chans, downs, flaws>>

(* One at a time; who finds a newer generation has nothing to do.          *)
ReopenLock(t) ==
  /\ th[t].pc = "serialize" /\ reconnectLock = NoOne
  /\ IF closed \/ generation # th[t].seen
     THEN th' = [th EXCEPT ![t] = Idle] /\ UNCHANGED reconnectLock
     ELSE Go(t, "lease") /\ reconnectLock' = t   \* the probe is an operation
  /\ UNCHANGED <<pool, shutdown, client, clientLock, waiting, chans, ops, downs, flaws>>

ReopenProbed(t) ==
  /\ t \in Reopeners /\ th[t].pc \in {"ended", "refused"}
  /\ IF th[t].pc = "ended"
     THEN th' = [th EXCEPT ![t] = Idle] /\ reconnectLock' = NoOne
     ELSE Go(t, "connect") /\ UNCHANGED reconnectLock
  /\ UNCHANGED <<pool, shutdown, client, clientLock, waiting, chans, ops, downs, flaws>>

(* The new connection is made without any lock; it may fail.               *)
ReconnectFails(t) ==
  /\ th[t].pc = "connect"
  /\ th' = [th EXCEPT ![t] = Idle] /\ reconnectLock' = NoOne
  /\ UNCHANGED <<pool, shutdown, client, clientLock, waiting, chans, ops, downs, flaws>>

MutantReconnect(t) ==
  /\ th[t].pc = "connect"
  /\ clientLock = NoOne
  /\ reconnectLock' = NoOne
  /\ IF closed
     THEN th' = [th EXCEPT ![t] = Idle] /\ UNCHANGED <<pool, client, waiting>>
     ELSE /\ idle' = {}
          /\ generation' = generation + 1
          /\ client' = [conn |-> generation + 1, alive |-> TRUE]
          /\ th' = [NotifyAll EXCEPT ![t] = Idle]
          /\ waiting' = {}
          /\ UNCHANGED <<created, max, closed>>
  /\ UNCHANGED <<shutdown, clientLock, chans, ops, downs, flaws>>

Reconnect(t) ==
  /\ th[t].pc = "connect"
  /\ clientLock = NoOne
  /\ reconnectLock' = NoOne
  /\ IF closed
     THEN th' = [th EXCEPT ![t] = Idle] /\ UNCHANGED <<pool, client, waiting>>
     ELSE /\ idle' = {} /\ created' = 0
          /\ generation' = generation + 1
          /\ client' = [conn |-> generation + 1, alive |-> TRUE]
          /\ th' = [NotifyAll EXCEPT ![t] = Idle]
          /\ waiting' = {}
          /\ UNCHANGED <<max, closed>>
  /\ UNCHANGED <<shutdown, clientLock, chans, ops, downs, flaws>>

(* teardown: the pool first, then the connection once nobody opens on it.  *)
TeardownPool ==
  /\ ~closed
  /\ shutdown' = TRUE
  /\ closed' = TRUE /\ generation' = generation + 1 /\ idle' = {} /\ created' = 0
  /\ th' = NotifyAll /\ waiting' = {}
  /\ UNCHANGED <<max, client, clientLock, reconnectLock, chans, ops, downs, flaws>>

TeardownClient ==
  /\ closed /\ client.conn # 0 /\ clientLock = NoOne
  /\ client' = [conn |-> 0, alive |-> FALSE]
  /\ UNCHANGED <<pool, shutdown, clientLock, reconnectLock, th, waiting, chans, ops, downs, flaws>>

LinkDown ==
  /\ client.alive /\ downs < MaxDown
  /\ client' = [client EXCEPT !.alive = FALSE]
  /\ downs' = downs + 1
  /\ UNCHANGED <<pool, shutdown, clientLock, reconnectLock, th, waiting, chans, ops, flaws>>

ThreadStep(t) ==
  \/ LeaseRound(t) \/ LockClient(t) \/ OpenChannel(t) \/ LeaseOpened(t) \/ LeaseUnopened(t)
  \/ LeaseFailed(t) \/ UseChannel(t) \/ Giveback(t) \/ Answer(t)
  \/ ReopenLock(t) \/ ReopenProbed(t) \/ ReconnectFails(t) \/ Reconnect(t)

Next ==
  \/ \E t \in Threads :
       ThreadStep(t) \/ StartPlain(t) \/ StartCancellable(t) \/ Cancel(t) \/ WaitTimeout(t)
       \/ ReopenBegin(t)
  \/ TeardownPool \/ TeardownClient \/ LinkDown

Spec == Init /\ [][Next]_vars

(* A running thread goes on and gets a mutex that is free again and again. *)
FairSpec == Spec /\ \A t \in Threads : SF_vars(ThreadStep(t))

-----------------------------------------------------------------------------
\* The states of a thread that has a slot of the pool, and those in which a
\* channel fills the slot.
Slotted == {"client", "opening", "opened", "unopened", "failed", "use", "back"}
Filled == {"opened", "use", "back"}

ThreadState ==
  [pc : Slotted \cup {"idle", "lease", "wait", "ended", "refused", "serialize", "connect"},
   gen : 0..generation, ch : (0..generation) \X (0..chans), retries : Nat,
   cancelled : BOOLEAN,
   why : {"none", "stale", "broken", "prohibited", "closed", "healthy", "poisoned"},
   seen : 0..generation]

(* The pool's fields and every thread have their types; the threads on the *)
(* condition variable are those that wait.                                 *)
TypeOK ==
  /\ generation \in Nat \ {0} /\ chans \in Nat
  /\ idle \in SUBSET ((0..generation) \X (0..chans)) /\ IsFiniteSet(idle)
  /\ created \in 0..Parallelism /\ max \in 1..Parallelism
  /\ closed \in BOOLEAN /\ shutdown \in BOOLEAN
  /\ client \in [conn : 0..generation, alive : BOOLEAN]
  /\ clientLock \in Threads \cup {NoOne} /\ reconnectLock \in Threads \cup {NoOne}
  /\ th \in [Threads -> ThreadState]
  /\ waiting = {t \in Threads : th[t].pc = "wait"}
  /\ ops \in Nat /\ downs \in Nat /\ flaws \in Nat

\* The threads with a slot of the present connection.
Holders == {t \in Threads : th[t].gen = generation /\ th[t].pc \in Slotted}

(* created counts exactly the channels and slots of the current connection *)
(* that are idle, being opened or in use, whatever is cancelled, refused,  *)
(* poisoned, replaced or closed meanwhile: a slot that leaked would shrink *)
(* the pool for good.                                                      *)
SlotsCounted == ~closed => created = Cardinality(idle) + Cardinality(Holders)

(* An idle channel is of the connection in use and nobody works on it: a   *)
(* channel leased before a reconnect never returns to the new pool.        *)
IdleUsable ==
  \A c \in idle : c[1] = client.conn /\ \A t \in Threads : th[t].pc \in {"use", "back"}
                                                           => th[t].ch # c

\* The pool counts exactly the channels that exist, and an idle one belongs
\* to the present connection and is free (SftpPool with its giveback).
PoolSound == SlotsCounted /\ IdleUsable

\* What LeasedCurrent says of one step.
LeasedCurrentStep ==
  \A t \in Threads : th'[t].pc = "use" /\ th[t].pc # "use"
    => ~closed /\ th'[t].ch[1] = client.conn

(* A lease is given only while the session is open, for a channel of the   *)
(* connection in use: an open that finished late yields nothing.           *)
LeasedCurrent == [][LeasedCurrentStep]_vars

(* Every operation ends: no wake-up is lost between threads that wait for  *)
(* a channel, cancel, fail to open one or give one back.                   *)
EveryOperationEnds ==
  \A t \in Threads : (th[t].pc = "lease") ~> (th[t].pc = "idle")
=============================================================================

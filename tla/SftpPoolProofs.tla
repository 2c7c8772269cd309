--------------------------- MODULE SftpPoolProofs ---------------------------
(***************************************************************************)
(* Proofs about SftpPool, for every set of threads, every limit and every  *)
(* number of operations, broken links and flaws.                           *)
(***************************************************************************)
EXTENDS SftpPool, FiniteSetTheorems, TLAPS

\* What closed and the generation say of the connection: a closed pool is
\* empty and nobody has a slot of its generation; an open one is of the
\* connection in use.
ConnInv ==
  /\ closed => idle = {} /\ \A t \in Threads : th[t].gen < generation
  /\ ~closed => client.conn = generation

\* Idle channels are of the present connection; a channel in a thread's hands
\* is nobody else's and not idle, and of the present connection if its slot is.
ChanInv ==
  /\ \A c \in idle : c[1] = generation
  /\ \A t \in Threads : th[t].pc \in Filled =>
       /\ th[t].ch \notin idle
       /\ th[t].gen = generation => th[t].ch[1] = generation
       /\ \A u \in Threads \ {t} : th[u].pc \in Filled => th[u].ch # th[t].ch

IInv == TypeOK /\ ConnInv /\ ChanInv /\ SlotsCounted

-----------------------------------------------------------------------------
(* How threads move.                                                       *)

\* In a step of thread t, the others stay as they are or are woken.
OthersKeep(t) ==
  \A u \in Threads \ {t} :
    \/ th'[u] = th[u]
    \/ th[u].pc = "wait" /\ th'[u] = [th[u] EXCEPT !.pc = "lease"]

\* What every step of a thread has to say of the threads.
Moved(t, x) ==
  /\ th' \in [Threads -> ThreadState'] /\ th'[t] = x /\ OthersKeep(t)
  /\ waiting' = {u \in Threads : th'[u].pc = "wait"}

\* Numbers only grow: a thread's state stays one.
LEMMA StateGrows ==
  ASSUME TypeOK, generation' \in Nat, generation <= generation', chans' \in Nat, chans <= chans'
  PROVE  ThreadState \subseteq ThreadState'
<1>1. generation \in Nat /\ chans \in Nat
  BY DEF TypeOK
<1>2. 0..generation \subseteq 0..generation' /\ 0..chans \subseteq 0..chans'
  BY <1>1
<1> QED BY <1>2 DEF ThreadState

\* notify_one: the caller has moved, one that waits looks at the pool again.
LEMMA NotifyMoves ==
  ASSUME TypeOK, NEW t \in Threads, NEW x \in ThreadState, ThreadState \subseteq ThreadState',
         th[t].pc # "wait", x.pc # "wait",
         NotifyOne([th EXCEPT ![t] = x], waiting)
  PROVE  Moved(t, x)
<1> DEFINE next == [th EXCEPT ![t] = x]
<1>1. next \in [Threads -> ThreadState] /\ next[t] = x
      /\ \A u \in Threads \ {t} : next[u] = th[u]
  BY DEF TypeOK
<1>2. CASE waiting = {}
  <2>1. th' = next /\ waiting' = waiting
    BY <1>2 DEF NotifyOne
  <2> QED BY <1>1, <1>2, <2>1 DEF Moved, OthersKeep, TypeOK
<1>3. CASE waiting # {}
  <2>1. PICK w \in waiting : th' = [next EXCEPT ![w].pc = "lease"] /\ waiting' = waiting \ {w}
    BY <1>3 DEF NotifyOne
  <2>2. w \in Threads \ {t} /\ th[w].pc = "wait"
    BY <2>1 DEF TypeOK
  <2>3. [th[w] EXCEPT !.pc = "lease"] \in ThreadState
    <3>1. th[w] \in ThreadState
      BY <2>2 DEF TypeOK
    <3> QED BY <3>1 DEF ThreadState
  <2>4. th' \in [Threads -> ThreadState'] /\ th'[w] = [th[w] EXCEPT !.pc = "lease"]
        /\ th'[t] = x /\ \A u \in Threads \ {t, w} : th'[u] = th[u]
    BY <1>1, <2>1, <2>2, <2>3
  <2>5. th'[w].pc = "lease"
    BY <2>2, <2>4 DEF TypeOK, ThreadState
  <2>6. waiting' = {u \in Threads : th'[u].pc = "wait"}
    BY <2>1, <2>2, <2>4, <2>5 DEF TypeOK
  <2> QED BY <2>2, <2>4, <2>6 DEF Moved, OthersKeep
<1> QED BY <1>2, <1>3

\* A step that wakes nobody.
LEMMA AloneMoves ==
  ASSUME TypeOK, NEW t \in Threads, NEW x \in ThreadState', ThreadState \subseteq ThreadState',
         th' = [th EXCEPT ![t] = x],
         waiting' = IF x.pc = "wait" THEN waiting \cup {t} ELSE waiting \ {t}
  PROVE  Moved(t, x)
<1>1. th' \in [Threads -> ThreadState'] /\ th'[t] = x
      /\ \A u \in Threads \ {t} : th'[u] = th[u]
  BY DEF TypeOK
<1>2. waiting' = {u \in Threads : th'[u].pc = "wait"}
  BY <1>1 DEF TypeOK
<1> QED BY <1>1, <1>2 DEF Moved, OthersKeep

-----------------------------------------------------------------------------
(* What a step of one thread does to the slots and the channels.           *)

\* The threads with a slot are finitely many.
LEMMA HoldersFinite ==
  ASSUME PoolAssumption
  PROVE  IsFiniteSet(Holders) /\ Cardinality(Holders) \in Nat
<1>1. Holders \in SUBSET Threads
  BY DEF Holders
<1> QED BY <1>1, FS_Subset, FS_CardinalityType DEF PoolAssumption

\* Woken threads have no slot: only the moving thread changes the holders.
LEMMA HoldersMove ==
  ASSUME TypeOK, NEW t \in Threads, NEW x, Moved(t, x), generation' = generation
  PROVE  Holders' = IF x.gen = generation /\ x.pc \in Slotted
                    THEN Holders \cup {t} ELSE Holders \ {t}
<1>1. \A u \in Threads \ {t} : u \in Holders' <=> u \in Holders
  <2> TAKE u \in Threads \ {t}
  <2>1. CASE th'[u] = th[u]
    BY <2>1 DEF Holders
  <2>2. CASE th[u].pc = "wait" /\ th'[u] = [th[u] EXCEPT !.pc = "lease"]
    <3>1. th'[u].pc = "lease"
      BY <2>2 DEF TypeOK, ThreadState
    <3> QED BY <2>2, <3>1 DEF Holders, Slotted
  <2> QED BY <2>1, <2>2 DEF Moved, OthersKeep
<1>2. t \in Holders' <=> x.gen = generation /\ x.pc \in Slotted
  BY DEF Holders, Moved
<1>3. Holders \subseteq Threads /\ Holders' \subseteq Threads
  BY DEF Holders
<1> QED BY <1>1, <1>2, <1>3

\* The count of the slots after a step of t within one generation.
LEMMA HoldersCount ==
  ASSUME PoolAssumption, TypeOK, NEW t \in Threads, NEW x, Moved(t, x),
         generation' = generation
  PROVE  LET had == IF th[t].gen = generation /\ th[t].pc \in Slotted THEN 1 ELSE 0
             has == IF x.gen = generation /\ x.pc \in Slotted THEN 1 ELSE 0
         IN  Cardinality(Holders') + had = Cardinality(Holders) + has
<1>1. IsFiniteSet(Holders) /\ Cardinality(Holders) \in Nat
  BY HoldersFinite
<1>2. t \in Holders <=> th[t].gen = generation /\ th[t].pc \in Slotted
  BY DEF Holders
<1>3. CASE x.gen = generation /\ x.pc \in Slotted
  <2>1. Holders' = Holders \cup {t}
    BY <1>3, HoldersMove
  <2>2. Cardinality(Holders \cup {t}) =
          IF t \in Holders THEN Cardinality(Holders) ELSE Cardinality(Holders) + 1
    BY <1>1, FS_AddElement
  <2> QED BY <1>1, <1>2, <1>3, <2>1, <2>2
<1>4. CASE ~(x.gen = generation /\ x.pc \in Slotted)
  <2>1. Holders' = Holders \ {t}
    BY <1>4, HoldersMove
  <2>2. Cardinality(Holders \ {t}) =
          IF t \in Holders THEN Cardinality(Holders) - 1 ELSE Cardinality(Holders)
    BY <1>1, FS_RemoveElement
  <2> QED BY <1>1, <1>2, <1>4, <2>1, <2>2
<1> QED BY <1>3, <1>4

\* A step of t that keeps its channel, or drops it, keeps the channels apart.
LEMMA ChannelsKept ==
  ASSUME TypeOK, ChanInv, NEW t \in Threads, NEW x, Moved(t, x),
         idle' = idle, generation' = generation,
         x.pc \in Filled => th[t].pc \in Filled /\ x.ch = th[t].ch /\ x.gen = th[t].gen
  PROVE  ChanInv'
<1>1. \A u \in Threads : th'[u].pc \in Filled =>
        th[u].pc \in Filled /\ th'[u].ch = th[u].ch /\ th'[u].gen = th[u].gen
  <2> TAKE u \in Threads
  <2>1. CASE u = t
    BY <2>1 DEF Moved
  <2>2. CASE th[u].pc = "wait" /\ th'[u] = [th[u] EXCEPT !.pc = "lease"]
    <3>1. th'[u].pc = "lease"
      BY <2>2 DEF TypeOK, ThreadState
    <3> QED BY <3>1 DEF Filled
  <2> QED BY <2>1, <2>2 DEF Moved, OthersKeep
<1> QED BY <1>1 DEF ChanInv

\* Nor do the generations of the slots change, but that of the mover.
LEMMA GenerationsKept ==
  ASSUME TypeOK, ConnInv, NEW t \in Threads, NEW x, Moved(t, x),
         closed' = closed, generation' = generation, client'.conn = client.conn,
         closed => idle' = {} /\ x.gen < generation
  PROVE  ConnInv'
<1>1. \A u \in Threads : th'[u].gen = th[u].gen \/ u = t
  BY DEF Moved, OthersKeep, TypeOK, ThreadState
<1> QED BY <1>1 DEF ConnInv, Moved

\* The numbers, and with them the type of a thread, are those before.
LEMMA SameState ==
  ASSUME generation' = generation, chans' = chans
  PROVE  ThreadState' = ThreadState
BY DEF ThreadState

\* A step of one thread that leaves the pool alone but for the slots, and
\* takes no new channel, preserves the invariant.
LEMMA SlotStep ==
  ASSUME PoolAssumption, IInv, NEW t \in Threads, NEW x, Moved(t, x),
         idle' = idle, generation' = generation, closed' = closed, client'.conn = client.conn,
         closed => x.gen < generation,
         x.pc \in Filled => th[t].pc \in Filled /\ x.ch = th[t].ch /\ x.gen = th[t].gen,
         ~closed => created' =
           created + (IF x.gen = generation /\ x.pc \in Slotted THEN 1 ELSE 0)
                   - (IF th[t].gen = generation /\ th[t].pc \in Slotted THEN 1 ELSE 0)
  PROVE  ConnInv' /\ ChanInv' /\ SlotsCounted'
<1>1. ConnInv'
  BY GenerationsKept DEF IInv, ConnInv
<1>2. ChanInv'
  BY ChannelsKept DEF IInv
<1>3. SlotsCounted'
  <2>1. Cardinality(Holders) \in Nat /\ Cardinality(idle) \in Nat /\ created \in Nat
    BY HoldersFinite, FS_CardinalityType DEF IInv, TypeOK
  <2>2. Cardinality(Holders') \in Int
    <3>1. Holders' \in SUBSET Threads
      BY DEF Holders
    <3> QED BY <3>1, FS_Subset, FS_CardinalityType DEF PoolAssumption
  <2>3. LET had == IF th[t].gen = generation /\ th[t].pc \in Slotted THEN 1 ELSE 0
            has == IF x.gen = generation /\ x.pc \in Slotted THEN 1 ELSE 0
        IN  Cardinality(Holders') + had = Cardinality(Holders) + has
    BY HoldersCount DEF IInv
  <2> QED BY <2>1, <2>2, <2>3 DEF IInv, SlotsCounted
<1> QED BY <1>1, <1>2, <1>3

-----------------------------------------------------------------------------
(* The steps.                                                              *)

PCs == Slotted \cup {"idle", "lease", "wait", "ended", "refused", "serialize", "connect"}

\* A thread that goes on to c.
LEMMA GoesOn ==
  ASSUME TypeOK, NEW t \in Threads, NEW c \in PCs
  PROVE  LET y == [th[t] EXCEPT !.pc = c] IN
         /\ y \in ThreadState /\ y.pc = c /\ y.gen = th[t].gen /\ y.ch = th[t].ch
         /\ [th EXCEPT ![t].pc = c] = [th EXCEPT ![t] = y]
BY DEF TypeOK, ThreadState, PCs

\* The states a call begins and ends in.
LEMMA RestStates ==
  ASSUME TypeOK
  PROVE  /\ Idle \in ThreadState
         /\ [Idle EXCEPT !.pc = "lease"] \in ThreadState
         /\ [Idle EXCEPT !.pc = "serialize", !.seen = generation] \in ThreadState
<1>1. 0 \in 0..generation /\ 0 \in 0..chans /\ generation \in 0..generation
  BY DEF TypeOK
<1> QED BY <1>1 DEF Idle, ThreadState

\* Starting, cancelling, timing out, answering and the reopener's own steps.
LEMMA CallSteps ==
  ASSUME PoolAssumption, IInv, NEW t \in Threads,
         \/ StartPlain(t) \/ StartCancellable(t) \/ Cancel(t) \/ WaitTimeout(t) \/ Answer(t)
         \/ ReopenBegin(t) \/ ReopenLock(t) \/ ReopenProbed(t) \/ ReconnectFails(t)
  PROVE  IInv'
<1> DEFINE x == th'[t]
<1> USE DEF pool
<1>1. /\ idle' = idle /\ generation' = generation /\ closed' = closed /\ client' = client
      /\ created' = created /\ chans' = chans /\ max' = max /\ shutdown' = shutdown
      /\ clientLock' = clientLock /\ downs' = downs /\ flaws' = flaws
  BY DEF StartPlain, StartCancellable, Cancel, WaitTimeout, Answer, ReopenBegin, ReopenLock,
         ReopenProbed, ReconnectFails, Go
<1>2. ThreadState' = ThreadState
  BY <1>1, SameState
<1>3. th \in [Threads -> ThreadState] /\ generation \in Nat \ {0}
  BY DEF IInv, TypeOK
<1>4. reconnectLock' \in Threads \cup {NoOne} /\ ops' \in Nat
  BY DEF StartPlain, StartCancellable, Cancel, WaitTimeout, Answer, ReopenBegin, ReopenLock,
         ReopenProbed, ReconnectFails, Go, IInv, TypeOK
<1>5. /\ Moved(t, x)
      /\ \/ x.gen = 0 /\ x.pc \notin Slotted /\ th[t].pc \notin Slotted
         \/ x.gen = th[t].gen /\ x.pc \notin Slotted /\ th[t].pc \notin Slotted
         \/ x.gen = th[t].gen /\ x.ch = th[t].ch /\ x.pc = th[t].pc
  <2> DEFINE Goal(y) ==
        /\ Moved(t, y)
        /\ \/ y.gen = 0 /\ y.pc \notin Slotted /\ th[t].pc \notin Slotted
           \/ y.gen = th[t].gen /\ y.pc \notin Slotted /\ th[t].pc \notin Slotted
           \/ y.gen = th[t].gen /\ y.ch = th[t].ch /\ y.pc = th[t].pc
  <2>0. t \in waiting <=> th[t].pc = "wait"
    BY DEF IInv, TypeOK
  <2>1. ASSUME NEW y \in ThreadState, y.gen = 0, y.pc \notin Slotted \cup {"wait"},
               th[t].pc \notin Slotted \cup {"wait"},
               th' = [th EXCEPT ![t] = y], waiting' = waiting
        PROVE  Goal(x)
    <3>1. Moved(t, y)
      BY <1>2, <2>0, <2>1, AloneMoves DEF IInv
    <3> QED BY <2>1, <3>1 DEF Moved
  <2>2. ASSUME NEW c, th' = [th EXCEPT ![t].pc = c], [th[t] EXCEPT !.pc = c] \in ThreadState,
               c # "wait", c \notin Slotted, th[t].pc \notin Slotted, waiting' = waiting \ {t}
        PROVE  Goal(x)
    <3> DEFINE y == [th[t] EXCEPT !.pc = c]
    <3>1. th' = [th EXCEPT ![t] = y] /\ y.pc = c /\ y.gen = th[t].gen /\ y.ch = th[t].ch
      BY <1>3, <2>2 DEF ThreadState
    <3>2. Moved(t, y)
      BY <1>2, <2>2, <3>1, AloneMoves DEF IInv
    <3> QED BY <2>2, <3>1, <3>2 DEF Moved
  <2>3. CASE StartPlain(t) \/ StartCancellable(t)
    BY <2>1, <2>3, RestStates DEF StartPlain, StartCancellable, IInv, Idle, Slotted
  <2>4. CASE ReopenBegin(t)
    BY <2>1, <2>4, RestStates DEF ReopenBegin, IInv, Idle, Slotted
  <2>5. CASE Answer(t)
    BY <2>1, <2>5, RestStates DEF Answer, IInv, Idle, Slotted
  <2>6. CASE ReconnectFails(t)
    BY <2>1, <2>6, RestStates DEF ReconnectFails, IInv, Idle, Slotted
  <2>7. CASE ReopenLock(t)
    <3>1. [th[t] EXCEPT !.pc = "lease"] \in ThreadState
      BY <1>3 DEF ThreadState
    <3>2. th[t].pc = "serialize" /\ waiting' = waiting /\ waiting' = waiting \ {t}
      BY <2>0, <2>7 DEF ReopenLock
    <3>3. CASE th' = [th EXCEPT ![t] = Idle]
      BY <2>1, <3>2, <3>3, RestStates DEF IInv, Idle, Slotted
    <3>4. CASE th' = [th EXCEPT ![t].pc = "lease"]
      BY <2>2, <3>1, <3>2, <3>4 DEF Slotted
    <3> QED BY <2>7, <3>3, <3>4 DEF ReopenLock, Go
  <2>8. CASE ReopenProbed(t)
    <3>1. [th[t] EXCEPT !.pc = "connect"] \in ThreadState
      BY <1>3 DEF ThreadState
    <3>2. th[t].pc \in {"ended", "refused"} /\ waiting' = waiting /\ waiting' = waiting \ {t}
      BY <2>0, <2>8 DEF ReopenProbed
    <3>3. CASE th' = [th EXCEPT ![t] = Idle]
      BY <2>1, <3>2, <3>3, RestStates DEF IInv, Idle, Slotted
    <3>4. CASE th' = [th EXCEPT ![t].pc = "connect"]
      BY <2>2, <3>1, <3>2, <3>4 DEF Slotted
    <3> QED BY <2>8, <3>3, <3>4 DEF ReopenProbed, Go
  <2>9. CASE WaitTimeout(t)
    <3>1. [th[t] EXCEPT !.pc = "lease"] \in ThreadState
      BY <1>3 DEF ThreadState
    <3> QED BY <2>0, <2>2, <2>9, <3>1 DEF WaitTimeout, Go, Slotted
  <2>10. CASE Cancel(t)
    <3> DEFINE y == [th[t] EXCEPT !.cancelled = TRUE]
    <3>1. y \in ThreadState /\ y.pc = th[t].pc /\ y.gen = th[t].gen /\ y.ch = th[t].ch
      BY <1>3 DEF ThreadState
    <3>2. th' = [th EXCEPT ![t] = y] /\ waiting' = waiting
      BY <2>10 DEF Cancel
    <3>3. Moved(t, y)
      BY <1>2, <2>0, <3>1, <3>2, AloneMoves DEF IInv
    <3> QED BY <3>1, <3>3 DEF Moved
  <2> QED BY <2>3, <2>4, <2>5, <2>6, <2>7, <2>8, <2>9, <2>10
<1>6. ConnInv' /\ ChanInv' /\ SlotsCounted'
  <2>1. x.pc \in Filled => x.pc \in Slotted
    BY DEF Filled, Slotted
  <2> QED BY <1>1, <1>3, <1>5, <2>1, SlotStep DEF IInv, ConnInv, TypeOK
<1>7. TypeOK'
  BY <1>1, <1>2, <1>4, <1>5 DEF IInv, TypeOK, Moved
<1> QED BY <1>6, <1>7 DEF IInv

\* One round of the loop of lease.
LEMMA LeaseRoundStep ==
  ASSUME PoolAssumption, IInv, NEW t \in Threads, LeaseRound(t)
  PROVE  IInv' /\ LeasedCurrentStep
<1> DEFINE y == th[t]
<1>1. /\ y.pc = "lease" /\ y \in ThreadState /\ t \notin waiting
      /\ generation \in Nat \ {0} /\ y.gen \in 0..generation
  BY DEF LeaseRound, IInv, TypeOK, ThreadState
<1>a. created \in 0..Parallelism /\ created + 0 = created
  BY DEF IInv, TypeOK, PoolAssumption
<1>2. /\ shutdown' = shutdown /\ client' = client /\ clientLock' = clientLock
      /\ reconnectLock' = reconnectLock /\ chans' = chans /\ ops' = ops /\ downs' = downs
      /\ flaws' = flaws
  BY DEF LeaseRound
<1>3. ASSUME NEW x \in ThreadState, Moved(t, x), x.pc # "use",
             idle' = idle, max' = max, generation' = generation, closed' = closed,
             x.pc \notin Filled, x.gen = y.gen \/ ~closed,
             created' = created + (IF x.gen = generation /\ x.pc \in Slotted THEN 1 ELSE 0),
             created' \in 0..Parallelism
      PROVE  IInv' /\ LeasedCurrentStep
  <2>1. ConnInv' /\ ChanInv' /\ SlotsCounted'
    BY <1>1, <1>2, <1>3, SlotStep DEF IInv, ConnInv, TypeOK, Slotted
  <2>2. TypeOK'
    BY <1>2, <1>3 DEF IInv, TypeOK, Moved
  <2>3. LeasedCurrentStep
    BY <1>3 DEF LeasedCurrentStep, Moved, OthersKeep, IInv, TypeOK, ThreadState
  <2> QED BY <2>1, <2>2, <2>3 DEF IInv
<1>4. CASE /\ y.cancelled
           /\ NotifyOne([th EXCEPT ![t].pc = "ended"], waiting)
           /\ UNCHANGED pool
  <2> DEFINE x == [th[t] EXCEPT !.pc = "ended"]
  <2>1. x \in ThreadState /\ x.pc = "ended" /\ x.gen = y.gen
        /\ [th EXCEPT ![t].pc = "ended"] = [th EXCEPT ![t] = x]
    BY GoesOn DEF IInv, PCs
  <2>2. Moved(t, x)
    BY <1>1, <1>2, <1>4, <2>1, NotifyMoves, SameState DEF IInv, pool
  <2> QED BY <1>1, <1>a, <1>3, <1>4, <2>1, <2>2 DEF pool, Filled, Slotted
<1>5. CASE /\ ~y.cancelled /\ closed /\ Go(t, "refused") /\ UNCHANGED <<pool, waiting>>
  <2> DEFINE x == [th[t] EXCEPT !.pc = "refused"]
  <2>1. x \in ThreadState /\ x.pc = "refused" /\ x.gen = y.gen
        /\ [th EXCEPT ![t].pc = "refused"] = [th EXCEPT ![t] = x]
    BY GoesOn DEF IInv, PCs
  <2>2. Moved(t, x)
    BY <1>1, <1>2, <1>5, <2>1, AloneMoves, SameState DEF IInv, pool, Go
  <2> QED BY <1>1, <1>a, <1>3, <1>5, <2>1, <2>2 DEF pool, Filled, Slotted
<1>6. CASE /\ ~y.cancelled /\ ~closed
           /\ \E c \in idle :
                /\ idle' = idle \ {c}
                /\ th' = [th EXCEPT ![t].pc = "use", ![t].ch = c, ![t].gen = generation]
           /\ UNCHANGED <<created, max, generation, closed, waiting>>
  <2>1. PICK c \in idle :
               /\ idle' = idle \ {c}
               /\ th' = [th EXCEPT ![t].pc = "use", ![t].ch = c, ![t].gen = generation]
    BY <1>6
  <2> DEFINE x == [th[t] EXCEPT !.pc = "use", !.ch = c, !.gen = generation]
  <2>2. /\ c \in (0..generation) \X (0..chans) /\ c[1] = generation
        /\ client.conn = generation
    BY <1>6, <2>1 DEF IInv, TypeOK, ChanInv, ConnInv
  <2>3. x \in ThreadState /\ x.pc = "use" /\ x.gen = generation /\ x.ch = c
    <3>1. th[t] \in ThreadState /\ generation \in 0..generation
      BY DEF IInv, TypeOK
    <3> QED BY <2>2, <3>1 DEF ThreadState, Slotted
  <2>4. th' = [th EXCEPT ![t] = x]
    BY <2>1 DEF IInv, TypeOK
  <2>5. Moved(t, x)
    <3>1. waiting' = waiting \ {t} /\ ThreadState' = ThreadState /\ TypeOK
      BY <1>1, <1>2, <1>6, SameState DEF IInv
    <3> QED BY <2>3, <2>4, <3>1, AloneMoves
  <2>6. ConnInv'
    BY <1>2, <1>6, <2>5, GenerationsKept DEF IInv
  <2>7. \A u \in Threads : u # t /\ th'[u].pc \in Filled => th'[u] = th[u]
    BY <2>4 DEF IInv, TypeOK
  <2>8. ChanInv'
    <3>1. \A e \in idle' : e[1] = generation'
      BY <1>6, <2>1 DEF IInv, ChanInv
    <3>2. th'[t] = x /\ c \notin idle'
      BY <2>1, <2>5 DEF Moved
    <3>3. ASSUME NEW u \in Threads \ {t}, th'[u].pc \in Filled PROVE th'[u].ch # c
      <4>1. th'[u] = th[u] /\ th[u].pc \in Filled
        BY <2>7, <3>3
      <4> QED BY <2>1, <4>1 DEF IInv, ChanInv
    <3>4. \A u \in Threads : th'[u].pc \in Filled =>
            /\ th'[u].ch \notin idle'
            /\ th'[u].gen = generation' => th'[u].ch[1] = generation'
      <4>1. c[1] = generation' /\ x.ch = c
        BY <1>6, <2>1, <2>2 DEF IInv, ChanInv
      <4>2. ASSUME NEW u \in Threads \ {t}, th'[u].pc \in Filled
            PROVE  /\ th'[u].ch \notin idle'
                   /\ th'[u].gen = generation' => th'[u].ch[1] = generation'
        <5>1. th'[u] = th[u] /\ th[u].pc \in Filled
          BY <2>7, <4>2
        <5> QED BY <1>6, <2>1, <5>1 DEF IInv, ChanInv
      <4> QED BY <3>2, <4>1, <4>2
    <3>5. \A u, v \in Threads : u # v /\ th'[u].pc \in Filled /\ th'[v].pc \in Filled
            => th'[u].ch # th'[v].ch
      <4>1. th'[t].ch = c
        BY <2>3, <3>2
      <4>2. \A u, v \in Threads \ {t} : u # v /\ th'[u].pc \in Filled /\ th'[v].pc \in Filled
              => th'[u].ch # th'[v].ch
        BY <2>7 DEF IInv, ChanInv
      <4> QED BY <3>3, <4>1, <4>2
    <3> QED BY <3>1, <3>4, <3>5 DEF ChanInv
  <2>9. SlotsCounted'
    <3>1. Cardinality(idle') = Cardinality(idle) - 1 /\ IsFiniteSet(idle')
      BY <2>1, FS_RemoveElement DEF IInv, TypeOK
    <3>2. Cardinality(Holders') + 0 = Cardinality(Holders) + 1
      BY <1>1, <1>6, <2>3, <2>5, HoldersCount DEF IInv, Slotted
    <3>3. Cardinality(idle) \in Nat /\ Cardinality(Holders) \in Nat
      BY HoldersFinite, FS_CardinalityType DEF IInv, TypeOK
    <3>4. Cardinality(Holders') \in Nat
      <4>1. Holders' \in SUBSET Threads
        BY DEF Holders
      <4> QED BY <4>1, FS_Subset, FS_CardinalityType DEF PoolAssumption
    <3> QED BY <1>6, <3>1, <3>2, <3>3, <3>4 DEF IInv, SlotsCounted
  <2>10. TypeOK'
    <3>1. IsFiniteSet(idle') /\ idle' \subseteq idle
      BY <2>1, FS_RemoveElement DEF IInv, TypeOK
    <3> QED BY <1>2, <1>6, <2>5, <3>1 DEF IInv, TypeOK, Moved
  <2>11. LeasedCurrentStep
    BY <1>6, <2>2, <2>3, <2>4 DEF LeasedCurrentStep, IInv, TypeOK
  <2> QED BY <2>6, <2>8, <2>9, <2>10, <2>11 DEF IInv
<1>7. CASE /\ ~y.cancelled /\ ~closed /\ idle = {} /\ created < max
           /\ created' = created + 1
           /\ th' = [th EXCEPT ![t].pc = "client", ![t].gen = generation]
           /\ UNCHANGED <<idle, max, generation, closed, waiting>>
  <2> DEFINE x == [th[t] EXCEPT !.pc = "client", !.gen = generation]
  <2>1. x \in ThreadState /\ x.pc = "client" /\ x.gen = generation
    <3>1. th[t] \in ThreadState /\ generation \in 0..generation
      BY DEF IInv, TypeOK
    <3> QED BY <3>1 DEF ThreadState, Slotted
  <2>a. th' = [th EXCEPT ![t] = x]
    BY <1>7 DEF IInv, TypeOK
  <2>2. Moved(t, x)
    <3>1. waiting' = waiting \ {t} /\ ThreadState' = ThreadState /\ TypeOK
      BY <1>1, <1>2, <1>7, SameState DEF IInv
    <3> QED BY <2>1, <2>a, <3>1, AloneMoves
  <2>3. created + 1 \in 0..Parallelism
    BY <1>7 DEF IInv, TypeOK, PoolAssumption
  <2> QED BY <1>3, <1>7, <2>1, <2>2, <2>3 DEF Filled, Slotted
<1>8. CASE /\ ~y.cancelled /\ ~closed /\ idle = {} /\ created >= max
           /\ Go(t, "wait") /\ waiting' = waiting \cup {t} /\ UNCHANGED pool
  <2> DEFINE x == [th[t] EXCEPT !.pc = "wait"]
  <2>1. x \in ThreadState /\ x.pc = "wait" /\ x.gen = y.gen
        /\ [th EXCEPT ![t].pc = "wait"] = [th EXCEPT ![t] = x]
    BY GoesOn DEF IInv, PCs
  <2>2. Moved(t, x)
    BY <1>1, <1>2, <1>8, <2>1, AloneMoves, SameState DEF IInv, pool, Go
  <2> QED BY <1>1, <1>a, <1>3, <1>8, <2>1, <2>2 DEF pool, Filled, Slotted
<1> QED BY <1>4, <1>5, <1>6, <1>7, <1>8 DEF LeaseRound

\* Taking the connection's mutex, giving the open up, and the operation itself
\* leave the pool as it is, and the thread its slot.
LEMMA OpenSteps ==
  ASSUME PoolAssumption, IInv, NEW t \in Threads,
         LockClient(t) \/ LeaseOpened(t) \/ UseChannel(t)
  PROVE  IInv' /\ LeasedCurrentStep
<1> DEFINE y == th[t]
           x == th'[t]
<1> USE DEF pool
<1>1. /\ y \in ThreadState /\ y.pc \in {"client", "opened", "use"} /\ t \notin waiting
      /\ th \in [Threads -> ThreadState] /\ TypeOK
  BY DEF LockClient, LeaseOpened, UseChannel, IInv, TypeOK
<1>2. /\ idle' = idle /\ created' = created /\ max' = max /\ generation' = generation
      /\ closed' = closed /\ shutdown' = shutdown /\ client' = client
      /\ reconnectLock' = reconnectLock /\ waiting' = waiting /\ chans' = chans
      /\ ops' = ops /\ downs' = downs
  BY DEF LockClient, LeaseOpened, UseChannel
<1>3. clientLock' \in Threads \cup {NoOne} /\ flaws' \in Nat
  BY DEF LockClient, LeaseOpened, UseChannel, IInv, TypeOK
<1>4. ASSUME NEW z \in ThreadState, th' = [th EXCEPT ![t] = z], z.pc # "wait",
             z.gen = y.gen, z.ch = y.ch,
             z.pc \in Slotted \/ closed \/ y.gen # generation,
             z.pc \in Filled => y.pc \in Filled,
             z.pc = "use" => ~closed /\ y.gen = generation
      PROVE  IInv' /\ LeasedCurrentStep
  <2>1. Moved(t, z)
    <3>1. waiting' = waiting \ {t} /\ ThreadState' = ThreadState
      BY <1>1, <1>2, SameState
    <3> QED BY <1>1, <1>4, <3>1, AloneMoves
  <2>2. created \in Nat /\ created + 1 - 1 = created /\ created + 0 - 0 = created
    BY DEF IInv, TypeOK
  <2>3. closed => z.gen < generation
    BY <1>4 DEF IInv, ConnInv
  <2>4. y.pc \in Slotted
    BY <1>1 DEF Slotted
  <2>5. ConnInv' /\ ChanInv' /\ SlotsCounted'
    BY <1>2, <1>4, <2>1, <2>2, <2>3, <2>4, SlotStep
  <2>6. TypeOK'
    BY <1>2, <1>3, <2>1 DEF IInv, TypeOK, Moved
  <2>7. LeasedCurrentStep
    <3> SUFFICES ASSUME NEW u \in Threads, th'[u].pc = "use", th[u].pc # "use"
                 PROVE  ~closed /\ th'[u].ch[1] = client.conn
      BY DEF LeasedCurrentStep
    <3>1. u = t
      BY <1>1, <1>4
    <3>2. th'[u] = z
      BY <1>1, <1>4, <3>1
    <3>3. y.pc \in Filled /\ y.gen = generation /\ ~closed
      BY <1>4, <3>2 DEF Filled
    <3> QED BY <1>4, <3>2, <3>3 DEF IInv, ChanInv, ConnInv
  <2> QED BY <2>5, <2>6, <2>7 DEF IInv
<1>5. ASSUME NEW c \in PCs, NEW w \in {"none", "stale", "healthy", "poisoned"}
      PROVE  LET z == [y EXCEPT !.pc = c]
                 v == [y EXCEPT !.pc = c, !.why = w] IN
             /\ z \in ThreadState /\ z.pc = c /\ z.gen = y.gen /\ z.ch = y.ch
             /\ v \in ThreadState /\ v.pc = c /\ v.gen = y.gen /\ v.ch = y.ch
  BY <1>1 DEF ThreadState, PCs
<1>6. ASSUME NEW c \in PCs \ {"wait"}, NEW w \in {"none", "stale", "healthy", "poisoned"},
             \/ th' = [th EXCEPT ![t].pc = c]
             \/ th' = [th EXCEPT ![t].pc = c, ![t].why = w],
             c \in Slotted \/ closed \/ y.gen # generation,
             c \in Filled => y.pc \in Filled,
             c = "use" => ~closed /\ y.gen = generation
      PROVE  IInv' /\ LeasedCurrentStep
  <2>1. CASE th' = [th EXCEPT ![t].pc = c]
    <3> DEFINE z == [y EXCEPT !.pc = c]
    <3>1. z \in ThreadState /\ z.pc = c /\ z.gen = y.gen /\ z.ch = y.ch
      BY <1>5
    <3>2. th' = [th EXCEPT ![t] = z]
      BY <1>1, <2>1
    <3> QED BY <1>4, <1>6, <3>1, <3>2
  <2>2. CASE th' = [th EXCEPT ![t].pc = c, ![t].why = w]
    <3> DEFINE z == [y EXCEPT !.pc = c, !.why = w]
    <3>1. z \in ThreadState /\ z.pc = c /\ z.gen = y.gen /\ z.ch = y.ch
      BY <1>5
    <3>2. th' = [th EXCEPT ![t] = z]
      BY <1>1, <2>2
    <3> QED BY <1>4, <1>6, <3>1, <3>2
  <2> QED BY <1>6, <2>1, <2>2
<1>7. /\ {"unopened", "opening", "failed", "back", "use", "lease"} \subseteq PCs \ {"wait"}
      /\ {"unopened", "opening", "failed", "back", "use"} \subseteq Slotted
      /\ "use" \in Filled /\ "back" \in Filled /\ "opened" \in Filled
      /\ {"unopened", "opening", "failed", "lease"} \cap Filled = {}
  BY DEF PCs, Slotted, Filled
<1>8. CASE LockClient(t)
  <2>1. \/ th' = [th EXCEPT ![t].pc = "unopened"]
        \/ th' = [th EXCEPT ![t].pc = "opening"]
        \/ th' = [th EXCEPT ![t].pc = "failed", ![t].why = "stale"]
    BY <1>8 DEF LockClient, Go
  <2> QED BY <1>6, <1>7, <2>1
<1>9. CASE LeaseOpened(t)
  <2>1. /\ y.pc = "opened"
        /\ th' = [th EXCEPT ![t].pc = IF StillMine(t) THEN "use" ELSE "lease"]
    BY <1>9 DEF LeaseOpened
  <2>2. CASE StillMine(t)
    <3>1. th' = [th EXCEPT ![t].pc = "use"] /\ ~closed /\ y.gen = generation
      BY <2>1, <2>2 DEF StillMine
    <3> QED BY <1>6, <1>7, <2>1, <3>1
  <2>3. CASE ~StillMine(t)
    <3>1. th' = [th EXCEPT ![t].pc = "lease"] /\ (closed \/ y.gen # generation)
      BY <2>1, <2>3 DEF StillMine
    <3> QED BY <1>6, <1>7, <2>1, <3>1
  <2> QED BY <2>2, <2>3
<1>10. CASE UseChannel(t)
  <2>1. /\ y.pc = "use"
        /\ \/ th' = [th EXCEPT ![t].pc = "back", ![t].why = "healthy"]
           \/ th' = [th EXCEPT ![t].pc = "back", ![t].why = "poisoned"]
    BY <1>10 DEF UseChannel
  <2> QED BY <1>6, <1>7, <2>1
<1> QED BY <1>8, <1>9, <1>10

\* Whoever has a slot of the present connection is counted.
LEMMA SlotIsCounted ==
  ASSUME PoolAssumption, IInv, NEW t \in Threads, th[t].pc \in Slotted, th[t].gen = generation
  PROVE  ~closed /\ created \in 1..Parallelism
<1>1. ~closed
  BY DEF IInv, ConnInv, TypeOK
<1>2. t \in Holders /\ IsFiniteSet(Holders) /\ Cardinality(Holders) \in Nat
  BY HoldersFinite DEF Holders
<1>3. Cardinality(Holders) # 0
  BY <1>2, FS_EmptySet
<1>4. Cardinality(idle) \in Nat
  BY FS_CardinalityType DEF IInv, TypeOK
<1> QED BY <1>1, <1>2, <1>3, <1>4 DEF IInv, SlotsCounted, TypeOK, PoolAssumption

\* A thread gives its slot up: it counts no longer, unless the slot was of an
\* older connection and never counted in this pool.
LEMMA SlotLeft ==
  ASSUME PoolAssumption, IInv, NEW t \in Threads, th[t].pc \in Slotted,
         NEW z \in ThreadState, z.gen = th[t].gen, z.pc \notin Slotted, Moved(t, z),
         idle' = idle, generation' = generation, closed' = closed, shutdown' = shutdown,
         client' = client, clientLock' = clientLock, reconnectLock' = reconnectLock,
         chans' = chans, ops' = ops, downs' = downs, flaws' = flaws,
         created' = IF generation = th[t].gen THEN created - 1 ELSE created,
         max' \in 1..Parallelism
  PROVE  IInv' /\ LeasedCurrentStep
<1>1. created \in 0..Parallelism /\ Parallelism \in Nat /\ created' \in 0..Parallelism
  BY SlotIsCounted DEF IInv, TypeOK, PoolAssumption
<1>2. created' = created + 0 - (IF th[t].gen = generation /\ th[t].pc \in Slotted THEN 1 ELSE 0)
  BY <1>1
<1>3. z.pc \notin Filled /\ z.pc # "use"
  BY DEF Filled, Slotted
<1>4. closed => z.gen < generation
  BY DEF IInv, ConnInv
<1>5. ConnInv' /\ ChanInv' /\ SlotsCounted'
  BY <1>2, <1>3, <1>4, SlotStep
<1>6. TypeOK'
  BY <1>1 DEF IInv, TypeOK, Moved
<1>7. LeasedCurrentStep
  BY <1>3 DEF LeasedCurrentStep, Moved, OthersKeep, IInv, TypeOK, ThreadState
<1> QED BY <1>5, <1>6, <1>7 DEF IInv

\* The thread was cancelled before its channel was there.
LEMMA LeaseUnopenedStep ==
  ASSUME PoolAssumption, IInv, NEW t \in Threads, LeaseUnopened(t)
  PROVE  IInv' /\ LeasedCurrentStep
<1> DEFINE z == [th[t] EXCEPT !.pc = "ended"]
<1>1. z \in ThreadState /\ z.pc = "ended" /\ z.gen = th[t].gen
      /\ [th EXCEPT ![t].pc = "ended"] = [th EXCEPT ![t] = z]
  BY GoesOn DEF IInv, PCs
<1>2. ThreadState' = ThreadState /\ th[t].pc = "unopened" /\ TypeOK
  BY SameState DEF LeaseUnopened, IInv
<1>3. Moved(t, z)
  BY <1>1, <1>2, NotifyMoves DEF LeaseUnopened
<1> QED BY <1>1, <1>2, <1>3, SlotLeft DEF LeaseUnopened, Slotted, TypeOK

\* The open failed: the slot is given up, the limit falls or the thread tries
\* again, or its connection is gone and with it the slot.
LEMMA LeaseFailedStep ==
  ASSUME PoolAssumption, IInv, NEW t \in Threads, LeaseFailed(t)
  PROVE  IInv' /\ LeasedCurrentStep
<1> DEFINE y == th[t]
<1>1. /\ ThreadState' = ThreadState /\ TypeOK /\ y \in ThreadState /\ t \notin waiting
      /\ y.pc = "failed" /\ y.pc \in Slotted
  BY SameState DEF LeaseFailed, IInv, TypeOK, Slotted
<1>2. created' = IF generation = y.gen THEN created - 1 ELSE created
  BY DEF LeaseFailed
<1>3. max' \in 1..Parallelism
  BY DEF LeaseFailed, Lowers, TypeOK, IInv, PoolAssumption
<1>4. ASSUME NEW z \in ThreadState, z.pc \in {"lease", "refused"}, z.gen = y.gen, Moved(t, z)
      PROVE  IInv' /\ LeasedCurrentStep
  BY <1>1, <1>2, <1>3, <1>4, SlotLeft DEF LeaseFailed, Slotted
<1>5. CASE Go(t, "lease") /\ waiting' = waiting
  <2> DEFINE z == [y EXCEPT !.pc = "lease"]
  <2>1. z \in ThreadState /\ z.pc = "lease" /\ z.gen = y.gen /\ th' = [th EXCEPT ![t] = z]
    BY <1>1, <1>5, GoesOn DEF Go, PCs
  <2>2. Moved(t, z)
    BY <1>1, <1>5, <2>1, AloneMoves
  <2> QED BY <1>4, <2>1, <2>2
<1>6. CASE NotifyOne([th EXCEPT ![t].pc = "refused"], waiting)
  <2> DEFINE z == [y EXCEPT !.pc = "refused"]
  <2>1. z \in ThreadState /\ z.pc = "refused" /\ z.gen = y.gen
        /\ [th EXCEPT ![t].pc = "refused"] = [th EXCEPT ![t] = z]
    BY <1>1, GoesOn DEF PCs
  <2>2. Moved(t, z)
    BY <1>1, <1>6, <2>1, NotifyMoves
  <2> QED BY <1>4, <2>1, <2>2
<1>7. CASE th' = [th EXCEPT ![t].pc = "lease", ![t].retries = y.retries + 1] /\ waiting' = waiting
  <2> DEFINE z == [y EXCEPT !.pc = "lease", !.retries = y.retries + 1]
  <2>1. z \in ThreadState /\ z.pc = "lease" /\ z.gen = y.gen
    <3>1. y.retries + 1 \in Nat
      BY <1>1 DEF ThreadState
    <3> QED BY <1>1, <3>1 DEF ThreadState
  <2>2. th' = [th EXCEPT ![t] = z]
    BY <1>7 DEF IInv, TypeOK
  <2> HIDE DEF z
  <2>3. /\ z \in ThreadState' /\ ThreadState \subseteq ThreadState'
        /\ waiting' = IF z.pc = "wait" THEN waiting \cup {t} ELSE waiting \ {t}
    BY <1>1, <1>7, <2>1
  <2>4. Moved(t, z)
    BY <1>1, <2>2, <2>3, AloneMoves
  <2> QED BY <1>4, <2>1, <2>4
<1> QED BY <1>5, <1>6, <1>7 DEF LeaseFailed

\* The channel is given back: to the pool if it is healthy and of the present
\* connection, else its slot is given up.
LEMMA GivebackStep ==
  ASSUME PoolAssumption, IInv, NEW t \in Threads, Giveback(t)
  PROVE  IInv' /\ LeasedCurrentStep
<1> DEFINE y == th[t]
           c == IF y.why = "healthy" THEN "ended" ELSE "refused"
           z == [y EXCEPT !.pc = c]
<1>1. /\ ThreadState' = ThreadState /\ TypeOK /\ y \in ThreadState /\ t \notin waiting
      /\ y.pc = "back" /\ y.pc \in Slotted /\ y.pc \in Filled
  BY SameState DEF Giveback, IInv, TypeOK, Slotted, Filled
<1>2. /\ z \in ThreadState /\ z.pc = c /\ z.gen = y.gen
      /\ [th EXCEPT ![t].pc = c] = [th EXCEPT ![t] = z]
  BY <1>1, GoesOn DEF PCs
<1>3. c \notin Slotted /\ c \notin Filled /\ c # "wait" /\ c # "use"
  BY DEF Slotted, Filled
<1>4. Moved(t, z)
  <2>1. NotifyOne([th EXCEPT ![t].pc = c], waiting)
    BY DEF Giveback
  <2> QED BY <1>1, <1>2, <1>3, <2>1, NotifyMoves
<1>5. /\ max' = max /\ generation' = generation /\ closed' = closed /\ shutdown' = shutdown
      /\ client' = client /\ clientLock' = clientLock /\ reconnectLock' = reconnectLock
      /\ chans' = chans /\ ops' = ops /\ downs' = downs /\ flaws' = flaws
  BY DEF Giveback
<1>6. CASE ~TakesBack(t)
  <2>1. idle' = idle /\ max' \in 1..Parallelism
    BY <1>1, <1>5, <1>6 DEF Giveback, TypeOK
  <2>2. created' = IF generation = y.gen THEN created - 1 ELSE created
    <3>1. created' = IF y.gen = generation /\ created > 0 THEN created - 1 ELSE created
      BY <1>6 DEF Giveback
    <3>2. y.gen = generation => created \in 1..Parallelism
      BY <1>1, SlotIsCounted
    <3> QED BY <3>1, <3>2 DEF PoolAssumption
  <2> QED BY <1>1, <1>2, <1>3, <1>4, <1>5, <2>1, <2>2, SlotLeft
<1>7. CASE TakesBack(t)
  <2>1. /\ idle' = idle \cup {y.ch} /\ created' = created
        /\ ~closed /\ y.gen = generation
    BY <1>7 DEF Giveback, TakesBack
  <2>2. y.ch \notin idle /\ y.ch[1] = generation
    BY <1>1, <2>1 DEF IInv, ChanInv
  <2>3. ConnInv'
    BY <1>4, <1>5, <2>1, GenerationsKept DEF IInv
  <2>4. \A u \in Threads : th'[u].pc \in Filled => u # t /\ th'[u] = th[u]
    BY <1>2, <1>3, <1>4 DEF Moved, OthersKeep, Filled, IInv, TypeOK, ThreadState
  <2>5. ChanInv'
    <3>1. \A e \in idle' : e[1] = generation'
      BY <1>5, <2>1, <2>2 DEF IInv, ChanInv
    <3>2. \A u \in Threads : th'[u].pc \in Filled =>
            /\ th'[u].ch \notin idle'
            /\ th'[u].gen = generation' => th'[u].ch[1] = generation'
      BY <1>1, <1>5, <2>1, <2>4 DEF IInv, ChanInv
    <3>3. \A u, v \in Threads : u # v /\ th'[u].pc \in Filled /\ th'[v].pc \in Filled
            => th'[u].ch # th'[v].ch
      BY <2>4 DEF IInv, ChanInv
    <3> QED BY <3>1, <3>2, <3>3 DEF ChanInv
  <2>6. SlotsCounted'
    <3>1. Cardinality(idle') = Cardinality(idle) + 1 /\ Cardinality(idle) \in Nat
      BY <2>1, <2>2, FS_AddElement, FS_CardinalityType DEF IInv, TypeOK
    <3>2. Cardinality(Holders') + 1 = Cardinality(Holders) + 0
      BY <1>1, <1>2, <1>3, <1>4, <1>5, <2>1, HoldersCount
    <3>3. Cardinality(Holders) \in Nat
      BY HoldersFinite
    <3>4. Cardinality(Holders') \in Nat
      <4>1. Holders' \in SUBSET Threads
        BY DEF Holders
      <4> QED BY <4>1, FS_Subset, FS_CardinalityType DEF PoolAssumption
    <3> QED BY <1>5, <2>1, <3>1, <3>2, <3>3, <3>4 DEF IInv, SlotsCounted
  <2>7. TypeOK'
    <3>1. IsFiniteSet(idle')
      BY <2>1, FS_AddElement DEF IInv, TypeOK
    <3>2. y.ch \in (0..generation) \X (0..chans)
      BY <1>1 DEF ThreadState
    <3> QED BY <1>4, <1>5, <2>1, <3>1, <3>2 DEF IInv, TypeOK, Moved
  <2>8. LeasedCurrentStep
    BY <2>4 DEF LeasedCurrentStep, Filled
  <2> QED BY <2>3, <2>5, <2>6, <2>7, <2>8 DEF IInv
<1> QED BY <1>6, <1>7

\* The open: a channel that was made is of the connection in use, and new.
LEMMA OpenChannelStep ==
  ASSUME PoolAssumption, IInv, NEW t \in Threads, OpenChannel(t)
  PROVE  IInv' /\ LeasedCurrentStep
<1> DEFINE y == th[t]
<1>1. /\ TypeOK /\ y \in ThreadState /\ t \notin waiting /\ th \in [Threads -> ThreadState]
      /\ y.pc = "opening" /\ y.pc \in Slotted /\ y.pc \notin Filled
  BY DEF OpenChannel, IInv, TypeOK, Slotted, Filled
<1>2. /\ idle' = idle /\ created' = created /\ max' = max /\ generation' = generation
      /\ closed' = closed /\ shutdown' = shutdown /\ client' = client
      /\ reconnectLock' = reconnectLock /\ waiting' = waiting
      /\ ops' = ops /\ downs' = downs
  BY DEF OpenChannel, pool
<1>3. clientLock' \in Threads \cup {NoOne} /\ flaws' \in Nat /\ chans' \in {chans, chans + 1}
  BY DEF OpenChannel, IInv, TypeOK
<1>4. /\ ThreadState \subseteq ThreadState' /\ waiting' = waiting \ {t}
      /\ chans \in Nat /\ chans' \in Nat /\ generation \in Nat
  BY <1>1, <1>2, <1>3, StateGrows DEF TypeOK
<1>5. ASSUME NEW z, Moved(t, z), z.pc \in Slotted, z.pc # "use", z.gen = y.gen, ChanInv'
      PROVE  IInv' /\ LeasedCurrentStep
  <2>1. ConnInv'
    BY <1>1, <1>2, <1>5, GenerationsKept DEF IInv, ConnInv
  <2>2. SlotsCounted'
    <3>1. Cardinality(Holders') = Cardinality(Holders)
      <4>1. Holders' = Holders
        <5>1. t \in Holders <=> z.gen = generation /\ z.pc \in Slotted
          BY <1>1, <1>5 DEF Holders
        <5>2. Holders' = IF z.gen = generation /\ z.pc \in Slotted
                          THEN Holders \cup {t} ELSE Holders \ {t}
          BY <1>1, <1>2, <1>5, HoldersMove
        <5> HIDE DEF Holders
        <5> QED BY <5>1, <5>2
      <4> QED BY <4>1
    <3> QED BY <1>2, <3>1 DEF IInv, SlotsCounted
  <2>3. TypeOK'
    <3>1. idle' \in SUBSET ((0..generation') \X (0..chans'))
      <4>1. 0..chans \subseteq 0..chans'
        BY <1>3, <1>4
      <4> QED BY <1>1, <1>2, <4>1 DEF TypeOK
    <3> QED BY <1>1, <1>2, <1>3, <1>4, <1>5, <3>1 DEF TypeOK, Moved
  <2>4. LeasedCurrentStep
    BY <1>1, <1>5 DEF LeasedCurrentStep, Moved, OthersKeep, ThreadState
  <2> QED BY <1>5, <2>1, <2>2, <2>3, <2>4 DEF IInv
<1>6. ASSUME NEW c \in {"failed", "unopened"},
             NEW w \in {"none", "broken", "prohibited", "closed"},
             \/ th' = [th EXCEPT ![t].pc = c]
             \/ th' = [th EXCEPT ![t].pc = c, ![t].why = w]
      PROVE  IInv' /\ LeasedCurrentStep
  <2>1. PICK z \in ThreadState : th' = [th EXCEPT ![t] = z] /\ z.pc = c /\ z.gen = y.gen
    <3>1. /\ [y EXCEPT !.pc = c] \in ThreadState /\ [y EXCEPT !.pc = c].pc = c
          /\ [y EXCEPT !.pc = c].gen = y.gen
      BY <1>1 DEF ThreadState, Slotted
    <3>2. /\ [y EXCEPT !.pc = c, !.why = w] \in ThreadState
          /\ [y EXCEPT !.pc = c, !.why = w].pc = c /\ [y EXCEPT !.pc = c, !.why = w].gen = y.gen
      BY <1>1 DEF ThreadState, Slotted
    <3>3. \/ th' = [th EXCEPT ![t] = [y EXCEPT !.pc = c]]
          \/ th' = [th EXCEPT ![t] = [y EXCEPT !.pc = c, !.why = w]]
      BY <1>1, <1>6
    <3> QED BY <3>1, <3>2, <3>3
  <2>2. z.pc \in Slotted /\ z.pc \notin Filled /\ z.pc # "use" /\ z.pc # "wait"
    BY <2>1 DEF Slotted, Filled
  <2>3. Moved(t, z)
    BY <1>1, <1>4, <2>1, <2>2, AloneMoves
  <2>4. ChanInv'
    BY <1>1, <1>2, <2>2, <2>3, ChannelsKept DEF IInv
  <2> QED BY <1>5, <2>1, <2>2, <2>3, <2>4
<1>7. CASE th' = [th EXCEPT ![t].pc = "opened", ![t].ch = <<client.conn, chans + 1>>]
           /\ chans' = chans + 1
  <2> DEFINE k == <<client.conn, chans + 1>>
             z == [y EXCEPT !.pc = "opened", !.ch = k]
  <2>1. k \in (0..generation') \X (0..chans') /\ y \in ThreadState'
    BY <1>1, <1>2, <1>4, <1>7 DEF TypeOK
  <2>2. z \in ThreadState' /\ z.pc = "opened" /\ z.gen = y.gen /\ z.ch = k
    BY <2>1 DEF ThreadState, Slotted
  <2>3. th' = [th EXCEPT ![t] = z]
    BY <1>1, <1>7
  <2>4. Moved(t, z)
    BY <1>1, <1>4, <2>2, <2>3, AloneMoves
  <2>5. th'[t] = z /\ \A u \in Threads \ {t} : th'[u] = th[u]
    BY <1>1, <2>3
  <2>6. \A u \in Threads : th[u].ch # k
    <3>1. \A u \in Threads : th[u].ch \in (0..generation) \X (0..chans)
      BY <1>1 DEF ThreadState
    <3> QED BY <1>4, <3>1
  <2>7. k \notin idle
    BY <1>1, <1>4 DEF TypeOK
  <2>8. y.gen = generation => k[1] = generation
    <3>1. y.gen = generation => ~closed
      BY <1>1, SlotIsCounted
    <3> QED BY <3>1 DEF IInv, ConnInv
  <2>9. ChanInv'
    <3>1. \A e \in idle' : e[1] = generation'
      BY <1>2 DEF IInv, ChanInv
    <3>2. \A u \in Threads : th'[u].pc \in Filled =>
            /\ th'[u].ch \notin idle'
            /\ th'[u].gen = generation' => th'[u].ch[1] = generation'
      BY <1>2, <2>2, <2>5, <2>7, <2>8 DEF IInv, ChanInv
    <3>3. \A u \in Threads \ {t} : th'[u].ch # k
      BY <2>5, <2>6
    <3>4. \A u, v \in Threads \ {t} : u # v /\ th'[u].pc \in Filled /\ th'[v].pc \in Filled
            => th'[u].ch # th'[v].ch
      BY <2>5 DEF IInv, ChanInv
    <3>5. th'[t].ch = k
      BY <2>2, <2>5
    <3> QED BY <3>1, <3>2, <3>3, <3>4, <3>5 DEF ChanInv
  <2> QED BY <1>5, <2>2, <2>4, <2>9 DEF Slotted
<1> QED BY <1>6, <1>7 DEF OpenChannel, Go

\* A new generation begins: every waiting thread is woken, no slot and no
\* channel of before counts in it.
LEMMA NewGeneration ==
  ASSUME PoolAssumption, IInv, generation' = generation + 1, chans' = chans,
         idle' = {}, created' = 0, waiting' = {},
         \A u \in Threads : th'[u] \in {th[u], NotifyAll[u], Idle},
         \A u \in Threads : th'[u].pc # "wait",
         th' \in [Threads -> ThreadState]
  PROVE  /\ ChanInv' /\ SlotsCounted'
         /\ \A u \in Threads : th'[u].gen < generation'
         /\ th' \in [Threads -> ThreadState'] /\ waiting' = {u \in Threads : th'[u].pc = "wait"}
<1>1. generation \in Nat \ {0} /\ chans \in Nat /\ TypeOK /\ th \in [Threads -> ThreadState]
  BY DEF IInv, TypeOK
<1>2. ThreadState \subseteq ThreadState'
  BY <1>1, StateGrows
<1>3. \A u \in Threads : th'[u].gen < generation'
  BY <1>1 DEF ThreadState
<1>4. \A u \in Threads : th'[u].pc \in Filled => th'[u].pc = th[u].pc /\ th'[u].ch = th[u].ch
  BY <1>1 DEF NotifyAll, Idle, Filled, ThreadState
<1>5. ChanInv'
  BY <1>3, <1>4 DEF IInv, ChanInv
<1>6. SlotsCounted'
  <2>1. Holders' = {}
    BY <1>1, <1>3 DEF Holders, ThreadState
  <2> QED BY <2>1, FS_EmptySet DEF SlotsCounted
<1> QED BY <1>2, <1>3, <1>5, <1>6

\* Waking everybody gives thread states, and nobody waits.
LEMMA NotifyAllStates ==
  ASSUME TypeOK
  PROVE  NotifyAll \in [Threads -> ThreadState] /\ \A u \in Threads : NotifyAll[u].pc # "wait"
<1>1. \A u \in Threads : th[u] \in ThreadState /\ (u \in waiting <=> th[u].pc = "wait")
  BY DEF TypeOK
<1>2. \A u \in Threads : /\ [th[u] EXCEPT !.pc = "lease"] \in ThreadState
                         /\ [th[u] EXCEPT !.pc = "lease"].pc = "lease"
  BY <1>1 DEF ThreadState
<1> QED BY <1>1, <1>2 DEF NotifyAll

\* reopen installs the new connection, unless the session was closed meanwhile.
LEMMA ReconnectStep ==
  ASSUME PoolAssumption, IInv, NEW t \in Threads, Reconnect(t)
  PROVE  IInv' /\ LeasedCurrentStep
<1>1. /\ TypeOK /\ th \in [Threads -> ThreadState] /\ th[t].pc = "connect" /\ t \notin waiting
      /\ Idle \in ThreadState /\ generation \in Nat \ {0}
  BY RestStates DEF Reconnect, IInv, TypeOK
<1>2. /\ shutdown' = shutdown /\ clientLock' = clientLock /\ chans' = chans
      /\ ops' = ops /\ downs' = downs /\ flaws' = flaws /\ reconnectLock' = NoOne
  BY DEF Reconnect
<1>3. CASE closed
  <2>1. /\ th' = [th EXCEPT ![t] = Idle] /\ waiting' = waiting /\ client' = client
        /\ idle' = idle /\ created' = created /\ max' = max /\ generation' = generation
        /\ closed' = closed
    BY <1>3 DEF Reconnect, pool
  <2>2. Idle.pc = "idle" /\ Idle.gen = 0 /\ Idle.pc \notin Filled
    BY DEF Idle, Filled
  <2>3. Moved(t, Idle)
    <3>1. ThreadState' = ThreadState /\ waiting' = waiting \ {t}
      BY <1>1, <1>2, <2>1, SameState
    <3> QED BY <1>1, <2>1, <2>2, <3>1, AloneMoves
  <2>4. ConnInv' /\ ChanInv' /\ SlotsCounted'
    BY <1>1, <1>3, <2>1, <2>2, <2>3, SlotStep
  <2>5. TypeOK'
    BY <1>1, <1>2, <2>1, <2>3 DEF TypeOK, Moved
  <2>6. LeasedCurrentStep
    BY <1>1, <2>1, <2>2 DEF LeasedCurrentStep
  <2> QED BY <2>4, <2>5, <2>6 DEF IInv
<1>4. CASE ~closed
  <2>1. /\ idle' = {} /\ created' = 0 /\ generation' = generation + 1
        /\ client' = [conn |-> generation + 1, alive |-> TRUE]
        /\ th' = [NotifyAll EXCEPT ![t] = Idle] /\ waiting' = {}
        /\ max' = max /\ closed' = closed
    BY <1>4 DEF Reconnect
  <2>2. /\ th' \in [Threads -> ThreadState] /\ \A u \in Threads : th'[u] \in {NotifyAll[u], Idle}
        /\ \A u \in Threads : th'[u].pc # "wait"
    BY <1>1, <2>1, NotifyAllStates DEF Idle
  <2>3. /\ ChanInv' /\ SlotsCounted'
        /\ th' \in [Threads -> ThreadState'] /\ waiting' = {u \in Threads : th'[u].pc = "wait"}
    BY <1>2, <2>1, <2>2, NewGeneration
  <2>4. ConnInv'
    BY <1>4, <2>1 DEF ConnInv
  <2>5. TypeOK'
    BY <1>1, <1>2, <2>1, <2>3, FS_EmptySet DEF TypeOK, PoolAssumption
  <2>6. LeasedCurrentStep
    BY <1>1, <2>1, <2>2 DEF LeasedCurrentStep, NotifyAll, Idle, ThreadState
  <2> QED BY <2>3, <2>4, <2>5, <2>6 DEF IInv
<1> QED BY <1>3, <1>4

\* teardown of the pool, then of the connection; a link that breaks.
LEMMA SessionSteps ==
  ASSUME PoolAssumption, IInv, TeardownPool \/ TeardownClient \/ LinkDown
  PROVE  IInv' /\ LeasedCurrentStep
<1>1. TypeOK /\ th \in [Threads -> ThreadState] /\ generation \in Nat \ {0}
  BY DEF IInv, TypeOK
<1>2. CASE TeardownPool
  <2>1. /\ closed' = TRUE /\ generation' = generation + 1 /\ idle' = {} /\ created' = 0
        /\ th' = NotifyAll /\ waiting' = {} /\ shutdown' = TRUE
        /\ max' = max /\ client' = client /\ clientLock' = clientLock
        /\ reconnectLock' = reconnectLock /\ chans' = chans /\ ops' = ops /\ downs' = downs
        /\ flaws' = flaws
    BY <1>2 DEF TeardownPool
  <2>2. /\ th' \in [Threads -> ThreadState] /\ \A u \in Threads : th'[u].pc # "wait"
    BY <1>1, <2>1, NotifyAllStates
  <2>3. /\ ChanInv' /\ SlotsCounted' /\ \A u \in Threads : th'[u].gen < generation'
        /\ th' \in [Threads -> ThreadState'] /\ waiting' = {u \in Threads : th'[u].pc = "wait"}
    BY <2>1, <2>2, NewGeneration
  <2>4. ConnInv'
    BY <2>1, <2>3 DEF ConnInv
  <2>5. TypeOK'
    <3>1. client' \in [conn : 0..generation', alive : BOOLEAN]
      BY <1>1, <2>1 DEF TypeOK
    <3> QED BY <1>1, <2>1, <2>3, <3>1, FS_EmptySet DEF TypeOK, PoolAssumption
  <2>6. LeasedCurrentStep
    BY <1>1, <2>1 DEF LeasedCurrentStep, NotifyAll, ThreadState
  <2> QED BY <2>3, <2>4, <2>5, <2>6 DEF IInv
<1>3. CASE TeardownClient \/ LinkDown
  <2>1. /\ idle' = idle /\ created' = created /\ max' = max /\ generation' = generation
        /\ closed' = closed /\ th' = th /\ waiting' = waiting /\ chans' = chans /\ ops' = ops
        /\ clientLock' = clientLock /\ reconnectLock' = reconnectLock /\ shutdown' = shutdown
        /\ flaws' = flaws
    BY <1>3 DEF TeardownClient, LinkDown, pool
  <2>2. /\ client' \in [conn : 0..generation, alive : BOOLEAN] /\ downs' \in Nat
        /\ ~closed => client'.conn = client.conn
    <3>1. client \in [conn : 0..generation, alive : BOOLEAN] /\ downs \in Nat
      BY <1>1 DEF TypeOK
    <3>2. CASE TeardownClient
      <4>1. client' = [conn |-> 0, alive |-> FALSE] /\ downs' = downs /\ closed
        BY <3>2 DEF TeardownClient
      <4>2. 0 \in 0..generation
        BY <1>1
      <4> QED BY <3>1, <4>1, <4>2
    <3>3. CASE LinkDown
      <4>1. client' = [client EXCEPT !.alive = FALSE] /\ downs' = downs + 1
        BY <3>3 DEF LinkDown
      <4>2. client' = [conn |-> client.conn, alive |-> FALSE] /\ client.conn \in 0..generation
        BY <3>1, <4>1
      <4>3. client' \in [conn : 0..generation, alive : BOOLEAN] /\ client'.conn = client.conn
        BY <4>2
      <4> QED BY <3>1, <4>1, <4>3
    <3> QED BY <1>3, <3>2, <3>3
  <2>3. ThreadState' = ThreadState /\ Holders' = Holders
    BY <2>1 DEF ThreadState, Holders
  <2>4. TypeOK'
    BY <1>1, <2>1, <2>2, <2>3 DEF TypeOK
  <2>5. ConnInv' /\ ChanInv' /\ SlotsCounted'
    BY <2>1, <2>2, <2>3 DEF IInv, ConnInv, ChanInv, SlotsCounted
  <2>6. LeasedCurrentStep
    BY <2>1 DEF LeasedCurrentStep
  <2> QED BY <2>4, <2>5, <2>6 DEF IInv
<1> QED BY <1>2, <1>3

-----------------------------------------------------------------------------
(* The theorems.                                                           *)

\* The first channel is idle, counted and of the first connection.
LEMMA PoolInit ==
  ASSUME PoolAssumption, Init
  PROVE  IInv
<1>1. TypeOK
  <2>1. th \in [Threads -> ThreadState]
    <3>1. Idle \in ThreadState
      <4>1. 0 \in 0..generation /\ 0 \in 0..chans
        BY DEF Init
      <4> QED BY <4>1 DEF Idle, ThreadState
    <3> QED BY <3>1 DEF Init
  <2>2. IsFiniteSet({<<1, 1>>}) /\ Cardinality({<<1, 1>>}) = 1
    BY FS_Singleton
  <2>3. waiting = {t \in Threads : th[t].pc = "wait"}
    BY DEF Init, Idle
  <2>4. {<<1, 1>>} \in SUBSET ((0..1) \X (0..1)) /\ 1 \in 0..Parallelism
        /\ Parallelism \in 1..Parallelism
    BY DEF PoolAssumption
  <2>5. /\ client \in [conn : 0..generation, alive : BOOLEAN] /\ generation \in Nat \ {0}
        /\ chans \in Nat /\ ops \in Nat /\ downs \in Nat /\ flaws \in Nat
        /\ closed \in BOOLEAN /\ shutdown \in BOOLEAN
    <3>1. client \in [conn : 0..generation, alive : BOOLEAN]
      <4>1. 1 \in 0..1
        OBVIOUS
      <4>2. client = [conn |-> 1, alive |-> TRUE] /\ generation = 1
        BY DEF Init
      <4> QED BY <4>1, <4>2
    <3>2. closed \in BOOLEAN /\ shutdown \in BOOLEAN
      BY DEF Init
    <3>3. generation \in Nat \ {0} /\ chans \in Nat /\ ops \in Nat /\ downs \in Nat /\ flaws \in Nat
      BY DEF Init
    <3> QED BY <3>1, <3>2, <3>3
  <2>6. /\ idle \in SUBSET ((0..generation) \X (0..chans)) /\ IsFiniteSet(idle)
        /\ created \in 0..Parallelism /\ max \in 1..Parallelism
    BY <2>2, <2>4 DEF Init
  <2>7. clientLock \in Threads \cup {NoOne} /\ reconnectLock \in Threads \cup {NoOne}
    BY DEF Init
  <2> QED BY <2>1, <2>3, <2>5, <2>6, <2>7 DEF TypeOK
<1>2. Holders = {} /\ \A t \in Threads : th[t].pc \notin Filled
  BY DEF Init, Idle, Holders, Filled
<1>3. SlotsCounted
  <2>1. Cardinality({<<1, 1>>}) = 1 /\ Cardinality({}) = 0
    BY FS_Singleton, FS_EmptySet
  <2> QED BY <1>2, <2>1 DEF SlotsCounted, Init
<1> QED BY <1>1, <1>2, <1>3 DEF IInv, ConnInv, ChanInv, Init

\* Starting, cancelling and the rest of CallSteps lease nothing.
LEMMA CallsLeaseNothing ==
  ASSUME PoolAssumption, IInv, NEW t \in Threads,
         \/ StartPlain(t) \/ StartCancellable(t) \/ Cancel(t) \/ WaitTimeout(t) \/ Answer(t)
         \/ ReopenBegin(t) \/ ReopenLock(t) \/ ReopenProbed(t) \/ ReconnectFails(t)
  PROVE  LeasedCurrentStep
<1>1. th \in [Threads -> ThreadState]
  BY DEF IInv, TypeOK
<1>2. \A u \in Threads \ {t} : th'[u] = th[u]
  BY <1>1 DEF StartPlain, StartCancellable, Cancel, WaitTimeout, Answer, ReopenBegin, ReopenLock,
              ReopenProbed, ReconnectFails, Go
<1>3. th'[t].pc # "use" \/ th[t].pc = "use"
  <2>1. CASE Cancel(t)
    BY <1>1, <2>1 DEF Cancel, ThreadState
  <2>2. CASE StartPlain(t) \/ StartCancellable(t) \/ ReopenBegin(t)
    BY <1>1, <2>2 DEF StartPlain, StartCancellable, ReopenBegin, Idle
  <2>3. CASE WaitTimeout(t) \/ Answer(t) \/ ReconnectFails(t)
    BY <1>1, <2>3 DEF WaitTimeout, Answer, ReconnectFails, Go, Idle, ThreadState
  <2>4. CASE ReopenLock(t) \/ ReopenProbed(t)
    BY <1>1, <2>4 DEF ReopenLock, ReopenProbed, Go, Idle, ThreadState
  <2> QED BY <2>1, <2>2, <2>3, <2>4
<1> QED BY <1>2, <1>3 DEF LeasedCurrentStep

\* Every step preserves the invariant and leases only what is current.
LEMMA PoolNext ==
  ASSUME PoolAssumption, IInv, [Next]_vars
  PROVE  IInv' /\ [LeasedCurrentStep]_vars
<1>1. CASE UNCHANGED vars
  <2>1. ThreadState' = ThreadState /\ Holders' = Holders
    BY <1>1 DEF vars, ThreadState, Holders
  <2> QED BY <1>1, <2>1 DEF vars, IInv, TypeOK, ConnInv, ChanInv, SlotsCounted
<1>2. ASSUME NEW t \in Threads, ThreadStep(t)
      PROVE  IInv' /\ LeasedCurrentStep
  BY <1>2, LeaseRoundStep, OpenSteps, OpenChannelStep, LeaseUnopenedStep, LeaseFailedStep,
     GivebackStep, ReconnectStep, CallSteps, CallsLeaseNothing DEF ThreadStep
<1>3. ASSUME NEW t \in Threads,
             \/ StartPlain(t) \/ StartCancellable(t) \/ Cancel(t) \/ WaitTimeout(t)
             \/ ReopenBegin(t)
      PROVE  IInv' /\ LeasedCurrentStep
  BY <1>3, CallSteps, CallsLeaseNothing
<1> QED BY <1>1, <1>2, <1>3, SessionSteps DEF Next

\* An idle channel that is of the present connection is of the one in use.
LEMMA PoolImplied ==
  ASSUME IInv
  PROVE  PoolSound
BY DEF IInv, ConnInv, ChanInv, Filled, PoolSound, IdleUsable

\* The pool's fields keep their types: created stays within the first limit,
\* and the condition variable knows exactly the threads that wait.
THEOREM PoolTypes == ASSUME PoolAssumption PROVE Spec => []TypeOK
<1>1. Init => IInv
  BY PoolInit
<1>2. IInv /\ [Next]_vars => IInv'
  BY PoolNext
<1>3. IInv => TypeOK
  BY DEF IInv
<1> QED BY <1>1, <1>2, <1>3, PTL DEF Spec

\* The pool never leaks or invents a slot, and never offers a channel of a
\* connection that was replaced or one that somebody works on.
THEOREM PoolIsSound == ASSUME PoolAssumption PROVE Spec => []PoolSound
<1>1. Init => IInv
  BY PoolInit
<1>2. IInv /\ [Next]_vars => IInv'
  BY PoolNext
<1>3. IInv => PoolSound
  BY PoolImplied
<1> QED BY <1>1, <1>2, <1>3, PTL DEF Spec

\* Every lease, of an idle channel or of one that was opened for it, is given
\* while the session is open and is of the connection in use.
THEOREM LeasesAreCurrent == ASSUME PoolAssumption PROVE Spec => LeasedCurrent
<1>1. Init => IInv
  BY PoolInit
<1>2. IInv /\ [Next]_vars => IInv'
  BY PoolNext
<1>3. IInv /\ [Next]_vars => [LeasedCurrentStep]_vars
  BY PoolNext
<1> QED BY <1>1, <1>2, <1>3, PTL DEF Spec, LeasedCurrent
=============================================================================

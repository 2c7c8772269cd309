----------------------- MODULE AutomationBrokerProofs -----------------------
(***************************************************************************)
(* Proofs about AutomationBroker, for any integrations, limits and bounds. *)
(***************************************************************************)
EXTENDS AutomationBroker, FiniteSetTheorems, TLAPS

Final == {"completed", "failed", "cancelled", "denied"}
Working == {"record", "connect", "check", "loop", "close", "publish", "refused"}
Unsent == {"record", "connect", "check"}
BothModes == {"manual", "trusted"}

GrantState == {None} \cup [ep : Nat \ {0}, rev : Nat \ {0}, mode : BothModes]
SavedState == {None} \cup [ep : {1}, mode : BothModes, late : BOOLEAN]
SessState == [st : {"none", "gone", "connecting", "ready", "closed"}, o : Owners \cup {0},
              ep : Nat, rev : Nat, key : Keys \cup {0}, stop : BOOLEAN, has : BOOLEAN,
              pc : {"idle", "connect", "up", "down", "close"}]
RunState == [st : Final \cup {"none", "awaiting_approval", "queued", "connecting", "running",
                              "cancelling"},
             here : BOOLEAN, o : Owners \cup {0}, ep : Nat, rev : Nat, mode : BothModes,
             key : Keys \cup {0}, s : Sess \cup {0}, stop : BOOLEAN, fin : Nat,
             worker : BOOLEAN, pc : Working \cup {"idle", "end"}]

(***************************************************************************)
(* The inductive invariant                                                 *)
(***************************************************************************)
\* The record x belongs to the grant that is live.
Belongs(x) ==
  x.o \in Owners /\ Live(x.o) /\ grants[x.o].ep = x.ep /\ grants[x.o].rev = x.rev

\* A session's record.
SessOK(x) ==
  /\ x.st \notin {"none", "gone"} => Belongs(x)
  /\ x.has => x.st = "ready"
  /\ x.st = "ready" => x.pc = "idle"

\* A command's session, among ss, is of the grant of the command.
InSession(x, ss) == ss[x.s].st # "none" /\ ss[x.s].rev = x.rev /\ ss[x.s].o = x.o

(* The record of command r and its thread.  The thread runs under a record *)
(* that is there, or has its flag set; a record is given up for room only  *)
(* when no thread works on it; what needed a person was allowed by one.    *)
RunOK(r, x) ==
  /\ x.here => x.st # "none" /\ Belongs(x) /\ grants[x.o].mode = x.mode
  /\ x.pc \in Working => x.here \/ x.stop
  /\ x.pc \in Working /\ x.here => x.worker
  /\ x.pc # "idle" /\ x.mode = "manual" => r \in allowed
  /\ x.pc # "idle" => x.st \notin {"none", "awaiting_approval", "queued"}
  /\ x.pc \in Unsent => x.fin = 0
  /\ x.fin > 0 <=> x.st \in Final
  /\ x.st # "none" /\ x.s # 0 => InSession(x, sess)

Types ==
  /\ rev \in 0 .. MaxRevs /\ revs \in 0 .. MaxRevs /\ suspended \in BOOLEAN /\ epoch \in Nat
  /\ eps \in Nat /\ grants \in [Owners -> GrantState] /\ saved \in [Owners -> SavedState]
  /\ sess \in [Sess -> SessState] /\ run \in [Runs -> RunState]
  /\ open \subseteq ({"s"} \X Sess) \cup ({"r"} \X Runs)

GrantInv == Consented /\ (suspended => \A o \in Owners : ~Live(o))
SessInv == \A s \in Sess : SessOK(sess[s])
RunInv == \A r \in Runs : RunOK(r, run[r])
BInv == Types /\ GrantInv /\ SessInv /\ RunInv

-----------------------------------------------------------------------------
LEMMA Bounds ==
  ASSUME BrokerAssumption
  PROVE  /\ MaxSess \in Nat /\ MaxRuns \in Nat /\ MaxRevs \in Nat /\ MaxRevs # 0
         /\ 0 \notin Sess /\ 0 \notin Runs /\ Modes \subseteq BothModes
BY DEF BrokerAssumption, Sess, Runs, BothModes

LEMMA GrantTyped ==
  ASSUME NEW g \in GrantState, g # None
  PROVE  g \in [ep : Nat \ {0}, rev : Nat \ {0}, mode : BothModes]
BY DEF GrantState

\* A grant made of its parts is one.
LEMMA GrantMade ==
  ASSUME NEW e \in Nat \ {0}, NEW v \in Nat \ {0}, NEW m \in BothModes
  PROVE  LET g == [ep |-> e, rev |-> v, mode |-> m] IN
         g \in GrantState /\ g # None /\ g.ep = e /\ g.rev = v /\ g.mode = m
<1> DEFINE g == [ep |-> e, rev |-> v, mode |-> m]
<1>1. g \in GrantState /\ g.ep = e /\ g.rev = v /\ g.mode = m
  BY DEF GrantState
<1>2. g # None
  <2>1. None.ep = 0
    BY DEF None
  <2> QED BY <1>1, <2>1
<1> QED BY <1>1, <1>2

LEMMA FinishedCount ==
  ASSUME BrokerAssumption
  PROVE  Finished \in Nat
<1>1. IsFiniteSet(Runs)
  BY Bounds, FS_Interval DEF Runs
<1>2. {r \in Runs : run[r].fin > 0} \subseteq Runs
  OBVIOUS
<1> QED BY <1>1, <1>2, FS_Subset, FS_CardinalityType DEF Finished

\* What Finish changes of a record, and what not.
SameRun(y, x) ==
  /\ y.here = x.here /\ y.o = x.o /\ y.ep = x.ep /\ y.rev = x.rev /\ y.mode = x.mode
  /\ y.s = x.s

LEMMA FinishState ==
  ASSUME BrokerAssumption, NEW x \in RunState, NEW c \in Final
  PROVE  LET y == Finish(x, c) IN
         /\ y \in RunState /\ SameRun(y, x) /\ y.st = c /\ y.fin > 0
         /\ y.stop = x.stop /\ y.worker = x.worker /\ y.pc = x.pc
<1> DEFINE n == Finished + 1
           y == [x EXCEPT !.st = c, !.fin = n]
<1>1. n \in Nat /\ n > 0
  BY FinishedCount
<1> HIDE DEF n
<1>2. /\ y \in RunState /\ SameRun(y, x) /\ y.st = c /\ y.fin = n
      /\ y.stop = x.stop /\ y.worker = x.worker /\ y.pc = x.pc
  BY <1>1 DEF RunState, SameRun
<1>3. Finish(x, c) = y
  BY DEF Finish, n
<1> QED BY <1>1, <1>2, <1>3

LEMMA EndState ==
  ASSUME NEW x \in RunState
  PROVE  LET y == [x EXCEPT !.worker = FALSE, !.pc = "end"] IN
         y \in RunState /\ SameRun(y, x) /\ y.st = x.st /\ y.fin = x.fin /\ y.stop = x.stop
         /\ y.pc = "end"
BY DEF RunState, SameRun

LEMMA GoOn ==
  ASSUME NEW x \in RunState, NEW c \in Working
  PROVE  LET y == [x EXCEPT !.pc = c] IN
         /\ y \in RunState /\ SameRun(y, x) /\ y.st = x.st /\ y.fin = x.fin /\ y.pc = c
         /\ y.stop = x.stop /\ y.worker = x.worker
BY DEF RunState, SameRun

LEMMA StopState ==
  ASSUME NEW x \in RunState
  PROVE  LET y == [x EXCEPT !.stop = TRUE] IN
         /\ y \in RunState /\ SameRun(y, x) /\ y.st = x.st /\ y.fin = x.fin /\ y.pc = x.pc
         /\ y.stop /\ y.worker = x.worker
BY DEF RunState, SameRun

(***************************************************************************)
(* What a step may do to the record of one command                         *)
(***************************************************************************)
(* The record stays the same grant's, its flag stays set, its outcome      *)
(* stays, and its thread goes on, ends, or starts with a person's consent. *)
Moves(r, x, y) ==
  /\ y \in RunState /\ SameRun(y, x) /\ (y.st = "none" <=> x.st = "none")
  /\ x.stop => y.stop
  /\ y.fin > 0 <=> y.st \in Final
  /\ x.fin > 0 => y.fin = x.fin /\ y.st = x.st
  /\ \/ y.pc = "idle" /\ x.pc = "idle"
     \/ y.pc = "end" /\ x.pc # "idle" /\ y.st \notin {"awaiting_approval", "queued"}
     \/ /\ x.pc \in Working /\ y.pc \in Working /\ y.worker = x.worker
        /\ y.st \notin {"awaiting_approval", "queued"} /\ (y.pc \in Unsent => y.fin = 0)
     \/ /\ y.pc = "record" /\ y.worker /\ y.here /\ y.fin = 0
        /\ y.st \notin {"awaiting_approval", "queued"} /\ (x.mode = "manual" => r \in allowed')
     \/ y.pc = "end" /\ y.pc = x.pc /\ y.st \notin {"awaiting_approval", "queued"}

SessKept ==
  \A s \in Sess : sess[s].st # "none" =>
    sess'[s].st # "none" /\ sess'[s].rev = sess[s].rev /\ sess'[s].o = sess[s].o

\* What a step may do to all commands while grants stay.
RunsMove ==
  /\ run' \in [Runs -> RunState]
  /\ \A q \in Runs : run'[q] = run[q] \/ Moves(q, run[q], run'[q])

LEMMA RunsKept ==
  ASSUME BInv, RunsMove, grants' = grants, SessKept, allowed \subseteq allowed'
  PROVE  RunInv'
<1> SUFFICES ASSUME NEW r \in Runs PROVE RunOK(r, run[r])'
  BY DEF RunInv
<1> DEFINE x == run[r]
           y == run'[r]
<1>1. x \in RunState /\ y \in RunState /\ RunOK(r, x)
  BY DEF BInv, Types, RunInv, RunsMove
<1>2. x.s \in Sess \cup {0} /\ y.s \in Sess \cup {0}
  BY <1>1 DEF RunState
<1>3. x.st # "none" /\ x.s # 0 => InSession(x, sess')
  BY <1>1, <1>2 DEF RunOK, SessKept, InSession
<1>4. CASE y = x
  BY <1>1, <1>3, <1>4 DEF RunOK, Belongs, Live
<1>5. CASE Moves(r, x, y)
  <2>1. /\ y.o = x.o /\ y.ep = x.ep /\ y.rev = x.rev /\ y.mode = x.mode /\ y.s = x.s
        /\ y.here = x.here /\ (y.st = "none" <=> x.st = "none")
    BY <1>5 DEF Moves, SameRun
  <2>2. y.here => /\ y.st # "none" /\ y.o \in Owners /\ grants'[y.o] # None
                  /\ grants'[y.o].ep = y.ep /\ grants'[y.o].rev = y.rev
                  /\ grants'[y.o].mode = y.mode
    BY <1>1, <2>1 DEF RunOK, Belongs, Live
  <2>3. y.pc \in Working => y.here \/ y.stop
    BY <1>1, <1>5, <2>1 DEF RunOK, Moves, Working
  <2>4. y.pc \in Working /\ y.here => y.worker
    BY <1>1, <1>5, <2>1 DEF RunOK, Moves, Working
  <2>5. y.pc # "idle" /\ y.mode = "manual" => r \in allowed'
    BY <1>1, <1>5, <2>1 DEF RunOK, Moves, Working
  <2>6. /\ y.pc # "idle" => y.st \notin {"none", "awaiting_approval", "queued"}
        /\ y.fin > 0 <=> y.st \in Final
    BY <1>1, <1>5, <2>1 DEF Moves, RunOK, Working
  <2>7. y.pc \in Unsent => y.fin = 0
    BY <1>5 DEF Moves, Unsent
  <2>8. y.st # "none" /\ y.s # 0 => InSession(y, sess')
    BY <1>3, <2>1 DEF InSession
  <2> QED BY <2>2, <2>3, <2>4, <2>5, <2>6, <2>7, <2>8 DEF RunOK, Belongs, Live
<1> QED BY <1>4, <1>5 DEF RunsMove

(* A step that changes one command's record.                               *)
LEMMA OneMoves ==
  ASSUME BInv, NEW r \in Runs, NEW y, run' = [run EXCEPT ![r] = y], Moves(r, run[r], y)
  PROVE  RunsMove
<1>1. run \in [Runs -> RunState] /\ y \in RunState
  BY DEF BInv, Types, Moves
<1>2. run' \in [Runs -> RunState] /\ \A q \in Runs : run'[q] = IF q = r THEN y ELSE run[q]
  BY <1>1
<1> QED BY <1>2 DEF RunsMove

LEMMA RunHere ==
  ASSUME BInv, NEW r \in Runs
  PROVE  run \in [Runs -> RunState] /\ run[r] \in RunState /\ RunOK(r, run[r])
BY DEF BInv, Types, RunInv

(***************************************************************************)
(* What a step may do to the record of one session                         *)
(***************************************************************************)
SessMoves(x, y) ==
  /\ y \in SessState /\ y.o = x.o /\ y.ep = x.ep /\ y.rev = x.rev
  /\ y.st = "none" <=> x.st = "none"
  /\ y.st \notin {"none", "gone"} => x.st \notin {"none", "gone"}
  /\ y.has => y.st = "ready"
  /\ y.st = "ready" => y.pc = "idle"

SessMove ==
  /\ sess' \in [Sess -> SessState]
  /\ \A s \in Sess : \/ sess'[s] = sess[s]
                     \/ SessMoves(sess[s], sess'[s])
                     \/ sess[s].st = "none" /\ SessOK(sess'[s])

LEMMA SessionsKept ==
  ASSUME BInv, SessMove, grants' = grants
  PROVE  SessInv' /\ SessKept
<1>1. SUFFICES ASSUME NEW s \in Sess
              PROVE  /\ SessOK(sess[s])'
                     /\ sess[s].st # "none" => /\ sess'[s].st # "none" /\ sess'[s].rev = sess[s].rev
                                               /\ sess'[s].o = sess[s].o
  BY DEF SessInv, SessKept
<1> DEFINE x == sess[s]
           y == sess'[s]
<1>2. SessOK(x)
  BY DEF BInv, SessInv
<1>3. CASE y = x
  BY <1>2, <1>3 DEF SessOK, Belongs, Live
<1>4. CASE SessMoves(x, y)
  BY <1>2, <1>4 DEF SessMoves, SessOK, Belongs, Live
<1>5. CASE x.st = "none" /\ SessOK(y)
  BY <1>5 DEF SessOK, Belongs, Live
<1> QED BY <1>3, <1>4, <1>5 DEF SessMove

LEMMA OneSessMoves ==
  ASSUME BInv, NEW s \in Sess, NEW y, sess' = [sess EXCEPT ![s] = y], SessMoves(sess[s], y)
  PROVE  SessMove
<1>1. sess \in [Sess -> SessState] /\ y \in SessState
  BY DEF BInv, Types, SessMoves
<1>2. sess' \in [Sess -> SessState] /\ \A q \in Sess : sess'[q] = IF q = s THEN y ELSE sess[q]
  BY <1>1
<1> QED BY <1>2 DEF SessMove

LEMMA SessHere ==
  ASSUME BInv, NEW s \in Sess
  PROVE  sess \in [Sess -> SessState] /\ sess[s] \in SessState /\ SessOK(sess[s])
BY DEF BInv, Types, SessInv

\* A session whose flag is set, and no more.
LEMMA SessStops ==
  ASSUME BInv, NEW s \in Sess, sess' = [sess EXCEPT ![s].stop = TRUE]
  PROVE  SessMove
<1> DEFINE x == sess[s]
           y == [x EXCEPT !.stop = TRUE]
<1>1. x \in SessState /\ SessOK(x)
  BY SessHere
<1>2. SessMoves(x, y)
  BY <1>1 DEF SessMoves, SessState, SessOK
<1>3. sess' = [sess EXCEPT ![s] = y]
  OBVIOUS
<1> HIDE DEF y
<1> QED BY <1>2, <1>3, OneSessMoves

LEMMA CloseRecordMoves ==
  ASSUME BInv, NEW s \in Sess, sess[s].st \notin {"none", "gone"},
         sess' = [sess EXCEPT ![s].st = "closed", ![s].stop = TRUE, ![s].has = FALSE]
  PROVE  SessMove
<1> DEFINE x == sess[s]
           y == [x EXCEPT !.st = "closed", !.stop = TRUE, !.has = FALSE]
<1>1. x \in SessState
  BY SessHere
<1>2. SessMoves(x, y)
  BY <1>1 DEF SessMoves, SessState
<1>3. sess' = [sess EXCEPT ![s] = y]
  OBVIOUS
<1> HIDE DEF y
<1> QED BY <1>2, <1>3, OneSessMoves

(***************************************************************************)
(* The steps of a command's thread                                         *)
(***************************************************************************)
LEMMA RecordMoves ==
  ASSUME BrokerAssumption, BInv, NEW r \in Runs, Record(r)
  PROVE  RunsMove
<1> DEFINE x == run[r]
<1>1. x \in RunState /\ RunOK(r, x) /\ x.pc = "record"
  BY RunHere DEF Record
<1>2. CASE run' = [run EXCEPT ![r].pc = IF run[r].s = 0 THEN "connect" ELSE "check"]
  <2> DEFINE c == IF run[r].s = 0 THEN "connect" ELSE "check"
             y == [x EXCEPT !.pc = c]
  <2>1. c \in Working
    BY DEF Working
  <2>2. /\ y \in RunState /\ SameRun(y, x) /\ y.st = x.st /\ y.fin = x.fin /\ y.pc = c
        /\ y.stop = x.stop /\ y.worker = x.worker
    BY <1>1, <2>1, GoOn
  <2>3. run' = [run EXCEPT ![r] = y]
    BY <1>2
  <2> HIDE DEF y, c
  <2>4. Moves(r, x, y)
    BY <1>1, <2>1, <2>2 DEF Moves, RunOK, Working, Unsent
  <2> QED BY <2>3, <2>4, OneMoves
<1>3. CASE run' = [run EXCEPT ![r] = [(IF @.here THEN Finish(@, "failed") ELSE @)
                                       EXCEPT !.worker = FALSE, !.pc = "end"]]
  <2> DEFINE z == IF x.here THEN Finish(x, "failed") ELSE x
             y == [z EXCEPT !.worker = FALSE, !.pc = "end"]
  <2>1. /\ z \in RunState /\ SameRun(z, x) /\ z.stop = x.stop
        /\ (x.here /\ z.st = "failed" /\ z.fin > 0) \/ (~x.here /\ z.st = x.st /\ z.fin = x.fin)
    BY <1>1, FinishState DEF Final, SameRun
  <2>2. run' = [run EXCEPT ![r] = y]
    BY <1>3
  <2> HIDE DEF z
  <2>3. y \in RunState /\ SameRun(y, z) /\ y.st = z.st /\ y.fin = z.fin /\ y.stop = z.stop /\ y.pc = "end"
    BY <2>1, EndState
  <2> HIDE DEF y
  <2>4. Moves(r, x, y)
    BY <1>1, <2>1, <2>3 DEF Moves, RunOK, Working, Unsent, Final, SameRun
  <2> QED BY <2>2, <2>4, OneMoves
<1> QED BY <1>2, <1>3 DEF Record

\* A thread goes on to pc c, and may set the flag.
LEMMA ThreadGoesOn ==
  ASSUME BInv, NEW r \in Runs, run[r].pc \in Working, NEW c \in Working,
         c \in Unsent => run[r].pc \in Unsent,
         NEW b \in BOOLEAN, run[r].stop => b,
         run' = [run EXCEPT ![r].pc = c, ![r].stop = b]
  PROVE  RunsMove
<1> DEFINE x == run[r]
           y == [x EXCEPT !.pc = c, !.stop = b]
<1>1. x \in RunState /\ RunOK(r, x)
  BY RunHere
<1>2. /\ y \in RunState /\ SameRun(y, x) /\ y.st = x.st /\ y.fin = x.fin /\ y.pc = c
      /\ y.stop = b /\ y.worker = x.worker
  BY <1>1 DEF RunState, SameRun
<1>3. run' = [run EXCEPT ![r] = y]
  OBVIOUS
<1> HIDE DEF y
<1>4. Moves(r, x, y)
  BY <1>1, <1>2 DEF Moves, RunOK, Working, Unsent
<1> QED BY <1>3, <1>4, OneMoves

LEMMA ThreadGoesOnKept ==
  ASSUME BInv, NEW r \in Runs, run[r].pc \in Working, NEW c \in Working,
         c \in Unsent => run[r].pc \in Unsent,
         run' = [run EXCEPT ![r].pc = c]
  PROVE  RunsMove
<1> DEFINE x == run[r]
           y == [x EXCEPT !.pc = c]
<1>1. x \in RunState /\ RunOK(r, x)
  BY RunHere
<1>2. /\ y \in RunState /\ SameRun(y, x) /\ y.st = x.st /\ y.fin = x.fin /\ y.pc = c
      /\ y.stop = x.stop /\ y.worker = x.worker
  BY <1>1, GoOn
<1>3. run' = [run EXCEPT ![r] = y]
  OBVIOUS
<1> HIDE DEF y
<1>4. Moves(r, x, y)
  BY <1>1, <1>2 DEF Moves, RunOK, Working, Unsent
<1> QED BY <1>3, <1>4, OneMoves

LEMMA ConnectRunMoves ==
  ASSUME BInv, NEW r \in Runs, ConnectRun(r)
  PROVE  RunsMove
<1>1. run[r].pc = "connect" /\ "check" \in Working /\ "refused" \in Working
      /\ run[r].pc \in Working /\ run[r].pc \in Unsent /\ "refused" \notin Unsent
  BY DEF ConnectRun, Working, Unsent
<1>2. CASE run' = [run EXCEPT ![r].pc = "check"]
  BY <1>1, <1>2, ThreadGoesOnKept
<1>3. CASE run' = [run EXCEPT ![r].pc = "refused", ![r].stop = TRUE]
  BY <1>1, <1>3, ThreadGoesOn
<1> QED BY <1>2, <1>3 DEF ConnectRun

LEMMA EndLoopMoves ==
  ASSUME BInv, NEW r \in Runs, EndLoop(r)
  PROVE  RunsMove
<1>1. run[r].pc \in Working /\ "close" \in Working /\ "close" \notin Unsent
  BY DEF EndLoop, Working, Unsent
<1> QED BY <1>1, ThreadGoesOnKept DEF EndLoop

LEMMA CloseImplicitMoves ==
  ASSUME BInv, NEW r \in Runs, CloseImplicit(r)
  PROVE  RunsMove
<1> DEFINE b == run[r].stop \/ run[r].s = 0
<1>1. run[r].pc \in Working /\ "publish" \in Working /\ "publish" \notin Unsent
  BY DEF CloseImplicit, Working, Unsent
<1>2. b \in BOOLEAN /\ (run[r].stop => b)
  OBVIOUS
<1>3. run' = [run EXCEPT ![r].pc = "publish", ![r].stop = b]
  BY RunHere DEF CloseImplicit, RunState
<1> HIDE DEF b
<1> QED BY <1>1, <1>2, <1>3, ThreadGoesOn

LEMMA PublishRunMoves ==
  ASSUME BrokerAssumption, BInv, NEW r \in Runs, PublishRun(r)
  PROVE  RunsMove
<1> DEFINE x == run[r]
           c == IF x.stop /\ (x.pc = "publish" \/ x.st = "cancelling") THEN "cancelled" ELSE "failed"
           z == IF ~Unfinished(r) THEN x ELSE Finish(x, c)
           y == [z EXCEPT !.worker = FALSE, !.pc = "end"]
<1>1. x \in RunState /\ RunOK(r, x) /\ x.pc \in Working
  BY RunHere DEF PublishRun, Working
<1>2. c \in Final
  BY DEF Final
<1>3. run' = [run EXCEPT ![r] = y]
  BY DEF PublishRun
<1> HIDE DEF c
<1>4. /\ z \in RunState /\ SameRun(z, x) /\ z.stop = x.stop
      /\ (x.fin = 0 /\ z.st = c /\ z.fin > 0) \/ (z.st = x.st /\ z.fin = x.fin)
  <2>1. CASE Unfinished(r)
    BY <1>1, <1>2, <2>1, FinishState DEF Unfinished
  <2>2. CASE ~Unfinished(r)
    BY <1>1, <2>2 DEF SameRun
  <2> QED BY <2>1, <2>2
<1> HIDE DEF z
<1>5. y \in RunState /\ SameRun(y, z) /\ y.st = z.st /\ y.fin = z.fin /\ y.stop = z.stop /\ y.pc = "end"
  BY <1>4, EndState
<1> HIDE DEF y
<1>6. SameRun(y, x) /\ x.pc # "idle"
  BY <1>1, <1>4, <1>5 DEF SameRun, Working
<1>7. Moves(r, x, y)
  BY <1>1, <1>2, <1>4, <1>5, <1>6 DEF Moves, RunOK, Final
<1> QED BY <1>3, <1>7, OneMoves

\* The record of command r is finished, its thread goes on as it was.
LEMMA FinishMoves ==
  ASSUME BrokerAssumption, BInv, NEW r \in Runs, NEW c \in Final,
         run[r].fin = 0, run[r].st # "none", run[r].pc \notin Unsent
  PROVE  Moves(r, run[r], Finish(run[r], c))
<1> DEFINE x == run[r]
           y == Finish(x, c)
<1>1. x \in RunState /\ RunOK(r, x)
  BY RunHere
<1>2. /\ y \in RunState /\ SameRun(y, x) /\ y.st = c /\ y.fin > 0
      /\ y.stop = x.stop /\ y.worker = x.worker /\ y.pc = x.pc
  BY <1>1, FinishState
<1> HIDE DEF y
<1>3. x.pc = "idle" \/ x.pc = "end" \/ x.pc \in Working
  BY <1>1 DEF RunState
<1>4. y.st \in Final /\ y.st \notin {"none", "awaiting_approval", "queued"} /\ y.fin > 0
  BY <1>2 DEF Final
<1>5. Moves(r, x, y)
  BY <1>1, <1>2, <1>3, <1>4 DEF Moves
<1> QED BY <1>5 DEF y

\* A command nobody answered, that somebody denied or that cannot be shown.
LEMMA UnansweredMoves ==
  ASSUME BrokerAssumption, BInv, NEW r \in Runs, NEW c \in Final,
         run[r].st \in {"awaiting_approval", "queued"}, run' = [run EXCEPT ![r] = Finish(@, c)]
  PROVE  RunsMove
<1>1. run[r] \in RunState /\ RunOK(r, run[r])
  BY RunHere
<1>2. run[r].fin \in Nat /\ run[r].st \notin Final /\ run[r].st # "none"
  BY <1>1 DEF RunState, Final
<1>3. run[r].fin = 0 /\ run[r].pc = "idle"
  BY <1>1, <1>2 DEF RunOK
<1>4. Moves(r, run[r], Finish(run[r], c))
  BY <1>2, <1>3, FinishMoves DEF Unsent
<1>5. run' = [run EXCEPT ![r] = Finish(run[r], c)]
  OBVIOUS
<1> QED BY <1>4, <1>5, OneMoves

LEMMA ExitedMoves ==
  ASSUME BrokerAssumption, BInv, NEW r \in Runs, NEW c \in Final, Exited(r, c)
  PROVE  RunsMove
<1>1. run[r].fin = 0 /\ run[r].pc \notin Unsent /\ run[r].here
  BY DEF Exited, Unfinished, Unsent
<1>2. run[r].st # "none"
  BY <1>1, RunHere DEF RunOK
<1>3. Moves(r, run[r], Finish(run[r], c))
  BY <1>1, <1>2, FinishMoves
<1>4. run' = [run EXCEPT ![r] = Finish(run[r], c)]
  BY DEF Exited
<1> QED BY <1>3, <1>4, OneMoves

\* A command starts: its thread begins with the recording.
LEMMA StartedMoves ==
  ASSUME BInv, NEW r \in Runs, run[r].here, run[r].st \in {"awaiting_approval", "queued"},
         run[r].mode = "manual" => r \in allowed', Started(r)
  PROVE  RunsMove
<1> DEFINE x == run[r]
           c == IF run[r].s = 0 THEN "connecting" ELSE "running"
           y == [x EXCEPT !.st = c, !.worker = TRUE, !.pc = "record"]
<1>1. x \in RunState /\ RunOK(r, x)
  BY RunHere
<1>2. run' = [run EXCEPT ![r] = y]
  BY DEF Started
<1>3. c \in {"connecting", "running"}
  OBVIOUS
<1> HIDE DEF c
<1>4. /\ y \in RunState /\ SameRun(y, x) /\ y.st = c /\ y.fin = x.fin /\ y.pc = "record"
      /\ y.stop = x.stop /\ y.worker
  BY <1>1, <1>3 DEF RunState, SameRun, Working
<1> HIDE DEF y
<1>5. x.fin \in Nat /\ x.st \notin Final
  BY <1>1 DEF RunState, Final
<1>6. x.fin = 0
  BY <1>1, <1>5 DEF RunOK
<1>7. y.here
  BY <1>4, Zenon DEF SameRun
<1>8. y.st \notin Final \cup {"none", "awaiting_approval", "queued"} /\ x.st # "none"
  BY <1>3, <1>4 DEF Final
<1>9. x.mode = "manual" => r \in allowed'
  OBVIOUS
<1>10. y.fin = 0 /\ ~(y.fin > 0) /\ ~(x.fin > 0)
  BY <1>4, <1>6
<1>11. x.stop => y.stop
  BY <1>4, Zenon
<1>12. Moves(r, x, y)
  BY <1>4, <1>7, <1>8, <1>9, <1>10, <1>11, Zenon DEF Moves
<1> QED BY <1>2, <1>12, OneMoves

LEMMA ApproveMoves ==
  ASSUME BInv, NEW r \in Runs, Approve(r)
  PROVE  RunsMove
<1>1. run[r].here /\ run[r].st = "awaiting_approval" /\ r \in allowed' /\ Started(r)
  BY DEF Approve, Startable
<1> QED BY <1>1, StartedMoves

LEMMA StartTrustedMoves ==
  ASSUME BrokerAssumption, BInv, NEW r \in Runs, StartTrusted(r)
  PROVE  RunsMove
<1>1. run[r].st = "queued" /\ run[r].here
  BY DEF StartTrusted, Unfinished
<1>2. CASE Authorised(r, "trusted") /\ Started(r)
  <2>1. grants[run[r].o].mode = "trusted"
    BY <1>2 DEF Authorised
  <2>2. run[r].mode = "trusted"
    BY <1>1, <2>1, RunHere DEF RunOK
  <2> QED BY <1>1, <1>2, <2>2, StartedMoves
<1>3. CASE run' = [run EXCEPT ![r] = Finish(@, "failed")]
  BY <1>1, <1>3, UnansweredMoves DEF Final
<1> QED BY <1>2, <1>3 DEF StartTrusted

\* The flag of command r is set and, when its thread never began, it ends.
Halted(x) ==
  LET y == [x EXCEPT !.stop = TRUE] IN
  IF y.st \in {"awaiting_approval", "queued"} THEN Finish(y, "cancelled") ELSE y

LEMMA StopMoves ==
  ASSUME BInv, NEW r \in Runs
  PROVE  Moves(r, run[r], [run[r] EXCEPT !.stop = TRUE])
<1> DEFINE x == run[r]
           y == [x EXCEPT !.stop = TRUE]
<1>1. x \in RunState /\ RunOK(r, x)
  BY RunHere
<1>2. /\ y \in RunState /\ SameRun(y, x) /\ y.st = x.st /\ y.fin = x.fin /\ y.pc = x.pc
      /\ y.stop /\ y.worker = x.worker
  BY <1>1, StopState
<1> HIDE DEF y
<1>3. x.pc = "idle" \/ x.pc = "end" \/ x.pc \in Working
  BY <1>1 DEF RunState
<1>4. Moves(r, x, y)
  BY <1>1, <1>2, <1>3 DEF Moves, RunOK, Working, Unsent
<1> QED BY <1>4 DEF y

LEMMA HaltedMoves ==
  ASSUME BrokerAssumption, BInv, NEW r \in Runs
  PROVE  Moves(r, run[r], Halted(run[r]))
<1> DEFINE x == run[r]
           y == [x EXCEPT !.stop = TRUE]
           z == Finish(y, "cancelled")
<1>1. x \in RunState /\ RunOK(r, x)
  BY RunHere
<1>2. /\ y \in RunState /\ SameRun(y, x) /\ y.st = x.st /\ y.fin = x.fin /\ y.pc = x.pc
      /\ y.stop /\ y.worker = x.worker
  BY <1>1, StopState
<1>3. Moves(r, x, y)
  BY StopMoves
<1> HIDE DEF y
<1>4. CASE x.st \in {"awaiting_approval", "queued"}
  <2>1. x.fin \in Nat /\ x.st \notin Final /\ x.st # "none"
    BY <1>1, <1>4 DEF RunState, Final
  <2>2. x.fin = 0 /\ x.pc = "idle"
    BY <1>1, <1>4, <2>1 DEF RunOK
  <2>3. /\ z \in RunState /\ SameRun(z, y) /\ z.st = "cancelled" /\ z.fin > 0
        /\ z.stop = y.stop /\ z.worker = y.worker /\ z.pc = y.pc
    BY <1>2, FinishState DEF Final
  <2> HIDE DEF z
  <2>4. SameRun(z, x) /\ z.st \in Final
    BY <1>2, <2>3 DEF SameRun, Final
  <2>5. Moves(r, x, z)
    BY <1>2, <2>1, <2>2, <2>3, <2>4 DEF Moves, Final
  <2>6. Halted(x) = z
    BY <1>2, <1>4 DEF Halted, y, z
  <2> QED BY <2>5, <2>6
<1>5. CASE x.st \notin {"awaiting_approval", "queued"}
  <2>1. Halted(x) = y
    BY <1>2, <1>5 DEF Halted, y
  <2> QED BY <1>3, <2>1
<1> QED BY <1>4, <1>5

LEMMA CancelMoves ==
  ASSUME BrokerAssumption, BInv, NEW r \in Runs, CancelCommand(r)
  PROVE  RunsMove
<1> DEFINE x == run[r]
           y == [x EXCEPT !.stop = TRUE]
           z == [y EXCEPT !.st = "cancelling"]
<1>1. x \in RunState /\ RunOK(r, x) /\ x.here /\ x.fin = 0
  BY RunHere DEF CancelCommand, Unfinished
<1>2. /\ y \in RunState /\ SameRun(y, x) /\ y.st = x.st /\ y.fin = x.fin /\ y.pc = x.pc
      /\ y.stop /\ y.worker = x.worker
  BY <1>1, StopState
<1>3. CASE x.st \in {"awaiting_approval", "queued"}
  <2>1. run' = [run EXCEPT ![r] = Halted(x)]
    BY <1>2, <1>3 DEF CancelCommand, Halted
  <2> QED BY <2>1, HaltedMoves, OneMoves
<1>4. CASE x.st \notin {"awaiting_approval", "queued"}
  <2>1. run' = [run EXCEPT ![r] = z]
    BY <1>2, <1>4 DEF CancelCommand
  <2> HIDE DEF y
  <2>2. /\ z \in RunState /\ SameRun(z, y) /\ z.st = "cancelling" /\ z.fin = y.fin /\ z.pc = y.pc
        /\ z.stop = y.stop /\ z.worker = y.worker
    BY <1>2 DEF RunState, SameRun
  <2> HIDE DEF z
  <2>3. x.pc = "idle" \/ x.pc = "end" \/ x.pc \in Working
    BY <1>1 DEF RunState
  <2>4. SameRun(z, x) /\ z.fin = 0 /\ x.st # "none" /\ z.st \notin Final
    BY <1>1, <1>2, <2>2 DEF SameRun, Final, RunOK
  <2>5. Moves(r, x, z)
    BY <1>1, <1>2, <2>2, <2>3, <2>4 DEF Moves
  <2> QED BY <2>1, <2>5, OneMoves
<1> QED BY <1>3, <1>4

(***************************************************************************)
(* Sending the command                                                     *)
(***************************************************************************)
LEMMA ExecMoves ==
  ASSUME BInv, NEW r \in Runs, Exec(r)
  PROVE  RunsMove /\ SessMove
<1> DEFINE x == run[r]
           z == IF x.here THEN [x EXCEPT !.st = "running"] ELSE x
<1>1. x \in RunState /\ RunOK(r, x) /\ x.pc = "check" /\ x.pc \in Working /\ x.fin = 0
  BY RunHere DEF Exec, RunOK, Unsent, Working
<1>2. /\ z \in RunState /\ SameRun(z, x) /\ z.fin = 0 /\ z.stop = x.stop /\ z.worker = x.worker
      /\ z.st \notin Final \cup {"none", "awaiting_approval", "queued"} /\ x.st # "none"
  <2>1. x.st \notin {"none", "awaiting_approval", "queued"} /\ x.st \notin Final
    BY <1>1 DEF RunOK
  <2>2. CASE x.here
    BY <1>1, <2>1, <2>2 DEF RunState, SameRun, Final
  <2>3. CASE ~x.here
    BY <1>1, <2>1, <2>3 DEF SameRun
  <2> QED BY <2>2, <2>3
<1>3. ASSUME NEW c \in Working \ Unsent, NEW b \in BOOLEAN, x.stop => b,
             run' = [run EXCEPT ![r] = [z EXCEPT !.pc = c, !.stop = b]]
      PROVE  RunsMove
  <2> HIDE DEF z
  <2> DEFINE y == [z EXCEPT !.pc = c, !.stop = b]
  <2>1. y \in RunState /\ SameRun(y, z) /\ y.fin = 0 /\ y.stop = b /\ y.worker = z.worker
        /\ y.st = z.st /\ y.pc = c
    BY <1>2, <1>3 DEF RunState, SameRun
  <2>2. run' = [run EXCEPT ![r] = y]
    BY <1>3
  <2> HIDE DEF y
  <2>3. SameRun(y, x)
    BY <1>2, <2>1 DEF SameRun
  <2>4. Moves(r, x, y)
    BY <1>1, <1>2, <1>3, <2>1, <2>3 DEF Moves
  <2> QED BY <2>2, <2>4, OneMoves
<1>4. ASSUME NEW c \in Working \ Unsent, run' = [run EXCEPT ![r] = [z EXCEPT !.pc = c]]
      PROVE  RunsMove
  <2> HIDE DEF z
  <2> DEFINE y == [z EXCEPT !.pc = c]
  <2>1. y \in RunState /\ SameRun(y, z) /\ y.fin = 0 /\ y.stop = z.stop /\ y.worker = z.worker
        /\ y.st = z.st /\ y.pc = c
    BY <1>2, <1>4 DEF RunState, SameRun
  <2>2. run' = [run EXCEPT ![r] = y]
    BY <1>4
  <2> HIDE DEF y
  <2>3. SameRun(y, x)
    BY <1>2, <2>1 DEF SameRun
  <2>4. Moves(r, x, y)
    BY <1>1, <1>2, <1>4, <2>1, <2>3 DEF Moves
  <2> QED BY <2>2, <2>4, OneMoves
<1>5. "close" \in Working \ Unsent /\ "loop" \in Working \ Unsent
  BY DEF Working, Unsent
<1>6. sess' = sess => SessMove
  BY DEF SessMove, BInv, Types
<1>7. CASE ~MayExec(r)
  <2>1. run' = [run EXCEPT ![r].pc = "close"] /\ sess' = sess
    BY <1>7 DEF Exec
  <2> QED BY <1>1, <1>5, <1>6, <2>1, ThreadGoesOnKept
<1>8. CASE MayExec(r) /\ ~Valid(ConnOf(r))
  <2>1. run' = [run EXCEPT ![r] = [z EXCEPT !.pc = "close"]] /\ sess' = sess
    BY <1>8 DEF Exec
  <2> QED BY <1>4, <1>5, <1>6, <2>1
<1>9. CASE MayExec(r) /\ Valid(ConnOf(r))
  <2>1. CASE run' = [run EXCEPT ![r] = [z EXCEPT !.pc = "loop"]] /\ UNCHANGED sess
    BY <1>4, <1>5, <1>6, <2>1
  <2>2. CASE /\ run' = [run EXCEPT ![r] = [z EXCEPT !.pc = "close", !.stop = @ \/ run[r].s = 0]]
             /\ sess' = IF run[r].s = 0 THEN sess ELSE [sess EXCEPT ![run[r].s].stop = TRUE]
    <3> DEFINE b == x.stop \/ run[r].s = 0
    <3>1. b \in BOOLEAN /\ (x.stop => b)
      OBVIOUS
    <3>2. run' = [run EXCEPT ![r] = [z EXCEPT !.pc = "close", !.stop = b]]
      BY <1>2, <2>2
    <3>3. RunsMove
      <4> HIDE DEF b, z
      <4> QED BY <1>3, <1>5, <3>1, <3>2
    <3>4. x.s \in Sess \cup {0}
      BY <1>1 DEF RunState
    <3>5. SessMove
      BY <1>6, <2>2, <3>4, SessStops
    <3> QED BY <3>3, <3>5
  <2> QED BY <1>9, <2>1, <2>2 DEF Exec
<1> QED BY <1>7, <1>8, <1>9

LEMMA WatchMoves ==
  ASSUME BInv, NEW c \in open, WatchConnection(c)
  PROVE  RunsMove /\ SessMove
<1>1. c \in ({"s"} \X Sess) \cup ({"r"} \X Runs)
  BY DEF BInv, Types
<1>2. CASE c[1] = "s"
  <2>1. c[2] \in Sess /\ sess' = [sess EXCEPT ![c[2]].stop = TRUE] /\ run' = run
    BY <1>1, <1>2 DEF WatchConnection
  <2>2. RunsMove
    BY <2>1 DEF RunsMove, BInv, Types
  <2> QED BY <2>1, <2>2, SessStops
<1>3. CASE c[1] # "s"
  <2>1. c[2] \in Runs /\ run' = [run EXCEPT ![c[2]].stop = TRUE] /\ sess' = sess
    BY <1>1, <1>3 DEF WatchConnection
  <2>2. SessMove
    BY <2>1 DEF SessMove, BInv, Types
  <2> DEFINE y == [run[c[2]] EXCEPT !.stop = TRUE]
  <2>3. Moves(c[2], run[c[2]], y)
    BY <2>1, StopMoves
  <2>4. run' = [run EXCEPT ![c[2]] = y]
    BY <2>1
  <2> HIDE DEF y
  <2> QED BY <2>1, <2>2, <2>3, <2>4, OneMoves
<1> QED BY <1>2, <1>3

(***************************************************************************)
(* The steps of sessions                                                   *)
(***************************************************************************)
LEMMA ConnectSessionMoves ==
  ASSUME BInv, NEW s \in Sess, ConnectSession(s)
  PROVE  SessMove
<1> DEFINE x == sess[s]
<1>1. x \in SessState /\ SessOK(x) /\ x.pc = "connect" /\ x.st # "ready"
  BY SessHere DEF ConnectSession, SessOK
<1>2. CASE sess' = [sess EXCEPT ![s].pc = "up"]
  <2> DEFINE y == [x EXCEPT !.pc = "up"]
  <2>1. SessMoves(x, y)
    BY <1>1 DEF SessMoves, SessState, SessOK
  <2>2. sess' = [sess EXCEPT ![s] = y]
    BY <1>2
  <2> HIDE DEF y
  <2> QED BY <2>1, <2>2, OneSessMoves
<1>3. CASE sess' = [sess EXCEPT ![s].pc = "down", ![s].stop = TRUE]
  <2> DEFINE y == [x EXCEPT !.pc = "down", !.stop = TRUE]
  <2>1. SessMoves(x, y)
    BY <1>1 DEF SessMoves, SessState, SessOK
  <2>2. sess' = [sess EXCEPT ![s] = y]
    BY <1>3
  <2> HIDE DEF y
  <2> QED BY <2>1, <2>2, OneSessMoves
<1> QED BY <1>2, <1>3 DEF ConnectSession

LEMMA PublishSessionMoves ==
  ASSUME BInv, NEW s \in Sess, PublishSession(s)
  PROVE  SessMove
<1> DEFINE x == sess[s]
           shut == [x EXCEPT !.pc = "close"]
           late == [x EXCEPT !.st = "closed", !.pc = "close"]
           ready == [x EXCEPT !.st = "ready", !.has = TRUE, !.pc = "idle"]
           c == IF x.st = "connecting" THEN "closed" ELSE x.st
           down == [x EXCEPT !.st = c, !.pc = "idle"]
           y == IF x.pc = "up"
                THEN IF x.st # "connecting" THEN shut ELSE IF x.stop THEN late ELSE ready
                ELSE down
<1>1. x \in SessState /\ SessOK(x) /\ x.pc \in {"up", "down"} /\ x.st # "ready"
  BY SessHere DEF PublishSession, SessOK
<1>2. ~x.has
  BY <1>1 DEF SessOK
<1>3. SessMoves(x, shut)
  BY <1>1, <1>2 DEF SessMoves, SessState
<1>4. x.st = "connecting" => SessMoves(x, late)
  BY <1>1, <1>2 DEF SessMoves, SessState
<1>5. x.st = "connecting" => SessMoves(x, ready)
  BY <1>1 DEF SessMoves, SessState
<1>6. sess' = [sess EXCEPT ![s] = y]
  BY DEF PublishSession
<1>7. /\ c \in {"none", "gone", "closed"} /\ (c = "none" <=> x.st = "none")
      /\ (c \notin {"none", "gone"} => x.st \notin {"none", "gone"})
  BY <1>1 DEF SessState
<1> HIDE DEF c
<1>8. SessMoves(x, down)
  BY <1>1, <1>2, <1>7 DEF SessMoves, SessState
<1> HIDE DEF shut, late, ready, down
<1>9. SessMoves(x, y)
  BY <1>3, <1>4, <1>5, <1>8
<1> HIDE DEF y
<1> QED BY <1>6, <1>9, OneSessMoves

LEMMA CloseConnectionMoves ==
  ASSUME BInv, NEW s \in Sess, CloseConnection(s)
  PROVE  SessMove
<1> DEFINE x == sess[s]
           c == IF x.pc = "close" THEN "idle" ELSE x.pc
           y == [x EXCEPT !.stop = TRUE, !.pc = c]
<1>1. x \in SessState /\ SessOK(x)
  BY SessHere
<1>2. c \in {"idle", "connect", "up", "down", "close"} /\ (x.st = "ready" => c = "idle")
  BY <1>1 DEF SessState, SessOK
<1>3. sess' = [sess EXCEPT ![s] = y]
  BY <1>1 DEF CloseConnection, SessState
<1> HIDE DEF c
<1>4. SessMoves(x, y)
  BY <1>1, <1>2 DEF SessMoves, SessState, SessOK
<1> HIDE DEF y
<1> QED BY <1>3, <1>4, OneSessMoves

LEMMA SweepSessionMoves ==
  ASSUME BInv, NEW s \in Sess, SweepSession(s)
  PROVE  SessMove
<1>1. sess[s].st = "ready"
  BY SessHere DEF SweepSession, Idle, SessOK
<1> QED BY <1>1, CloseRecordMoves DEF SweepSession, CloseRecord

LEMMA CloseSessionMoves ==
  ASSUME BrokerAssumption, BInv, NEW s \in Sess, CloseSession(s)
  PROVE  RunsMove /\ SessMove
<1>1. SessMove
  BY CloseRecordMoves DEF CloseSession, CloseRecord, Here
<1>2. run' = [r \in Runs |-> IF run[r].here /\ run[r].s = s /\ run[r].o = sess[s].o
                             THEN Halted(run[r]) ELSE run[r]]
  BY DEF CloseSession, Halted
<1>3. \A r \in Runs : run[r] \in RunState /\ Moves(r, run[r], Halted(run[r]))
  BY RunHere, HaltedMoves
<1>4. \A r \in Runs : Halted(run[r]) \in RunState
  BY <1>3 DEF Moves
<1>5. RunsMove
  BY <1>2, <1>3, <1>4 DEF RunsMove
<1> QED BY <1>1, <1>5

LEMMA OpenSessionMoves ==
  ASSUME BrokerAssumption, BInv, NEW o \in Owners, NEW k \in Keys, NEW s \in Sess, OpenSession(o, k, s)
  PROVE  SessMove
<1> DEFINE g == grants[o]
           y == [NoSess EXCEPT !.st = "connecting", !.o = o, !.ep = g.ep,
                               !.rev = g.rev, !.key = k, !.pc = "connect"]
<1>1. g \in [ep : Nat \ {0}, rev : Nat \ {0}, mode : BothModes] /\ Live(o)
  <2>1. g \in GrantState /\ g # None /\ Live(o)
    BY DEF BInv, Types, OpenSession, Granted, Live
  <2> QED BY <2>1, GrantTyped
<1>2. g.ep \in Nat /\ g.rev \in Nat
  BY <1>1
<1>3. PICK drop \in SUBSET Sess :
        /\ AdmitSession(o, drop)
        /\ sess' = [q \in Sess |-> IF q = s THEN y
                                   ELSE IF q \in drop THEN [sess[q] EXCEPT !.st = "gone"] ELSE sess[q]]
  BY DEF OpenSession
<1>4. /\ y \in SessState /\ y.o = o /\ y.ep = g.ep /\ y.rev = g.rev /\ y.st = "connecting"
      /\ ~y.has
  <2>1. NoSess \in SessState /\ ~NoSess.has
    BY DEF NoSess, SessState
  <2> HIDE DEF g
  <2> QED BY <1>2, <2>1 DEF SessState
<1>5. SessOK(y)
  <2> HIDE DEF y
  <2> QED BY <1>1, <1>4 DEF SessOK, Belongs
<1>6. sess[s].st = "none"
  BY DEF OpenSession
<1>7. ASSUME NEW q \in drop
      PROVE  SessMoves(sess[q], [sess[q] EXCEPT !.st = "gone"])
  <2>1. sess[q] \in SessState /\ SessOK(sess[q]) /\ sess[q].st = "closed"
    BY <1>3, SessHere DEF AdmitSession
  <2>2. ~sess[q].has
    BY <2>1 DEF SessOK
  <2> QED BY <2>1, <2>2 DEF SessMoves, SessState
<1> HIDE DEF y
<1>8. \A q \in drop : [sess[q] EXCEPT !.st = "gone"] \in SessState
  BY <1>7 DEF SessMoves
<1>9. sess' \in [Sess -> SessState]
  BY <1>3, <1>4, <1>8, SessHere
<1>10. ASSUME NEW q \in Sess
       PROVE  \/ sess'[q] = sess[q]
              \/ SessMoves(sess[q], sess'[q])
              \/ sess[q].st = "none" /\ SessOK(sess'[q])
  <2>1. CASE q = s
    BY <1>3, <1>5, <1>6, <2>1
  <2>2. CASE q # s /\ q \in drop
    <3>1. sess'[q] = [sess[q] EXCEPT !.st = "gone"]
      BY <1>3, <2>2
    <3> QED BY <1>7, <2>2, <3>1
  <2>3. CASE q # s /\ q \notin drop
    BY <1>3, <2>3
  <2> QED BY <2>1, <2>2, <2>3
<1> QED BY <1>9, <1>10 DEF SessMove

(***************************************************************************)
(* Steps that change grants, or drop records                               *)
(***************************************************************************)
LEMMA RecordStays ==
  ASSUME BInv, NEW r \in Runs, run'[r] = run[r], SessKept, allowed \subseteq allowed',
         run[r].here => grants'[run[r].o] = grants[run[r].o]
  PROVE  RunOK(r, run[r])'
<1> DEFINE x == run[r]
<1>1. x \in RunState /\ RunOK(r, x)
  BY RunHere
<1>2. x.s \in Sess \cup {0}
  BY <1>1 DEF RunState
<1>3. x.st # "none" /\ x.s # 0 => InSession(x, sess')
  BY <1>1, <1>2 DEF RunOK, SessKept, InSession
<1> QED BY <1>1, <1>3 DEF RunOK, Belongs, Live, InSession

\* The record is given up; its thread, if it has one, is told.
Dropped(x) == [x EXCEPT !.here = FALSE]
Withdrawn(x) == [x EXCEPT !.here = FALSE, !.stop = TRUE]

LEMMA DroppedState ==
  ASSUME NEW x \in RunState, NEW y \in {Dropped(x), Withdrawn(x)}
  PROVE  /\ y \in RunState /\ ~y.here /\ y.mode = x.mode /\ y.st = x.st /\ y.fin = x.fin
         /\ y.pc = x.pc /\ y.s = x.s /\ y.rev = x.rev /\ y.o = x.o
         /\ (y = Dropped(x) \/ y.stop)
<1>1. CASE y = Dropped(x)
  BY <1>1 DEF Dropped, RunState
<1>2. CASE y = Withdrawn(x)
  BY <1>2 DEF Withdrawn, RunState
<1> QED BY <1>1, <1>2

LEMMA RecordDropped ==
  ASSUME BInv, NEW r \in Runs, SessKept, allowed \subseteq allowed',
         \/ run'[r] = Withdrawn(run[r])
         \/ run'[r] = Dropped(run[r]) /\ run[r].pc \notin Working
  PROVE  RunOK(r, run[r])' /\ run'[r] \in RunState
<1> DEFINE x == run[r]
           y == run'[r]
<1>1. x \in RunState /\ RunOK(r, x)
  BY RunHere
<1>2. /\ y \in RunState /\ ~y.here /\ y.mode = x.mode /\ y.st = x.st /\ y.fin = x.fin
      /\ y.pc = x.pc /\ y.s = x.s /\ y.rev = x.rev /\ y.o = x.o
      /\ (y = Dropped(x) \/ y.stop)
  BY <1>1, DroppedState
<1>3. x.s \in Sess \cup {0}
  BY <1>1 DEF RunState
<1>4. y.st # "none" /\ y.s # 0 => InSession(y, sess')
  BY <1>1, <1>2, <1>3 DEF RunOK, SessKept, InSession
<1>5. y.pc \in Working => y.stop
  BY <1>1, <1>2, DroppedState DEF Withdrawn, RunState
<1>6. /\ y.pc # "idle" /\ y.mode = "manual" => r \in allowed'
      /\ y.pc # "idle" => y.st \notin {"none", "awaiting_approval", "queued"}
      /\ y.pc \in Unsent => y.fin = 0
      /\ y.fin > 0 <=> y.st \in Final
  BY <1>1, <1>2 DEF RunOK
<1> QED BY <1>2, <1>4, <1>5, <1>6 DEF RunOK

LEMMA SessionStays ==
  ASSUME BInv, NEW s \in Sess, sess'[s] = sess[s],
         sess[s].st \notin {"none", "gone"} => grants'[sess[s].o] = grants[sess[s].o]
  PROVE  SessOK(sess[s])'
<1>1. SessOK(sess[s])
  BY SessHere
<1> QED BY <1>1 DEF SessOK, Belongs, Live

\* After revoke_inner nothing of the owners os is usable.
LEMMA RevokedKeeps ==
  ASSUME BInv, NEW os, Revoked(os), allowed' = allowed,
         \A o \in Owners \ os : grants'[o] = grants[o]
  PROVE  /\ sess' \in [Sess -> SessState] /\ run' \in [Runs -> RunState]
         /\ SessInv' /\ RunInv' /\ FinalStaysStep
<1> DEFINE gone(x) == [x EXCEPT !.st = "gone", !.stop = TRUE, !.has = FALSE]
<1>1. \A s \in Sess : sess'[s] = IF Here(s) /\ sess[s].o \in os THEN gone(sess[s]) ELSE sess[s]
  BY DEF Revoked
<1>2. \A r \in Runs : run'[r] = IF run[r].here /\ run[r].o \in os THEN Withdrawn(run[r]) ELSE run[r]
  BY DEF Revoked, Withdrawn
<1>3. ASSUME NEW s \in Sess
      PROVE  /\ gone(sess[s]) \in SessState /\ gone(sess[s]).st = "gone" /\ ~gone(sess[s]).has
             /\ gone(sess[s]).rev = sess[s].rev /\ gone(sess[s]).o = sess[s].o
  BY SessHere DEF SessState
<1> HIDE DEF gone
<1>4. SessKept
  <2> SUFFICES ASSUME NEW s \in Sess, sess[s].st # "none"
               PROVE  sess'[s].st # "none" /\ sess'[s].rev = sess[s].rev /\ sess'[s].o = sess[s].o
    BY DEF SessKept
  <2> QED BY <1>1, <1>3
<1>5. SessInv'
  <2> SUFFICES ASSUME NEW s \in Sess PROVE SessOK(sess[s])'
    BY DEF SessInv
  <2>1. CASE Here(s) /\ sess[s].o \in os
    <3>1. sess'[s].st = "gone" /\ ~sess'[s].has
      BY <1>1, <1>3, <2>1
    <3> QED BY <3>1 DEF SessOK
  <2>2. CASE ~(Here(s) /\ sess[s].o \in os)
    <3>1. sess'[s] = sess[s]
      BY <1>1, <2>2
    <3>2. sess[s].st \notin {"none", "gone"} => sess[s].o \in Owners \ os
      BY <2>2, SessHere DEF SessOK, Belongs, Here
    <3> QED BY <3>1, <3>2, SessionStays
  <2> QED BY <2>1, <2>2
<1>6. ASSUME NEW r \in Runs
      PROVE  RunOK(r, run[r])' /\ run'[r] \in RunState
  <2>1. CASE run[r].here /\ run[r].o \in os
    <3>1. run'[r] = Withdrawn(run[r])
      BY <1>2, <2>1
    <3> QED BY <1>4, <3>1, RecordDropped
  <2>2. CASE ~(run[r].here /\ run[r].o \in os)
    <3>1. run'[r] = run[r] /\ run[r] \in RunState
      BY <1>2, <2>2, RunHere
    <3>2. run[r].here => run[r].o \in Owners \ os
      BY <2>2, RunHere DEF RunOK, Belongs
    <3>3. run[r].here => grants'[run[r].o] = grants[run[r].o]
      BY <3>2
    <3> QED BY <1>4, <3>1, <3>3, RecordStays
  <2> QED BY <2>1, <2>2
<1>7. sess' \in [Sess -> SessState]
  <2>1. sess' = [s \in Sess |-> IF Here(s) /\ sess[s].o \in os THEN gone(sess[s]) ELSE sess[s]]
    BY DEF Revoked, gone
  <2>2. \A s \in Sess : sess[s] \in SessState
    BY SessHere
  <2> QED BY <1>3, <2>1, <2>2
<1>8. run' \in [Runs -> RunState]
  <2>1. run' = [r \in Runs |-> IF run[r].here /\ run[r].o \in os THEN Withdrawn(run[r]) ELSE run[r]]
    BY DEF Revoked, Withdrawn
  <2>2. \A r \in Runs : run[r] \in RunState /\ Withdrawn(run[r]) \in RunState
    BY RunHere, DroppedState
  <2> QED BY <2>1, <2>2
<1>9. FinalStaysStep
  <2> SUFFICES ASSUME NEW r \in Runs
               PROVE  run'[r].fin = run[r].fin /\ run'[r].st = run[r].st
    BY DEF FinalStaysStep
  <2> QED BY <1>2, RunHere, DroppedState
<1> QED BY <1>5, <1>6, <1>7, <1>8, <1>9 DEF RunInv

LEMMA RunCommandKeeps ==
  ASSUME BrokerAssumption, BInv, NEW o \in Owners, NEW k \in Keys, NEW s \in Sess \cup {0},
         NEW r \in Runs, RunCommand(o, k, s, r)
  PROVE  run' \in [Runs -> RunState] /\ RunInv' /\ FinalStaysStep
<1> DEFINE g == grants[o]
           c == IF g.mode = "manual" THEN "awaiting_approval" ELSE "queued"
           y == [NoRun EXCEPT !.here = TRUE, !.o = o, !.ep = g.ep, !.s = s,
                              !.rev = g.rev, !.mode = g.mode, !.key = k, !.st = c]
<1>1. g \in [ep : Nat \ {0}, rev : Nat \ {0}, mode : BothModes] /\ Live(o)
  <2>1. g \in GrantState /\ g # None /\ Live(o)
    BY DEF BInv, Types, RunCommand, Granted, Live
  <2> QED BY <2>1, GrantTyped
<1>2. g.ep \in Nat /\ g.rev \in Nat /\ g.mode \in BothModes
  BY <1>1
<1>3. PICK drop \in SUBSET Runs :
        /\ AdmitRun(o, drop)
        /\ run' = [q \in Runs |-> IF q = r THEN y ELSE IF q \in drop THEN Dropped(run[q]) ELSE run[q]]
  BY DEF RunCommand, Dropped
<1>4. c \in {"awaiting_approval", "queued"}
  OBVIOUS
<1> HIDE DEF c
<1>5. /\ y \in RunState /\ y.here /\ y.o = o /\ y.ep = g.ep /\ y.rev = g.rev /\ y.mode = g.mode
      /\ y.s = s /\ y.st = c /\ y.fin = 0 /\ y.pc = "idle"
  <2>1. NoRun \in RunState /\ NoRun.fin = 0 /\ NoRun.pc = "idle"
    BY DEF NoRun, RunState, Working, BothModes, Final
  <2> HIDE DEF g
  <2> QED BY <1>2, <1>4, <2>1 DEF RunState
<1> HIDE DEF y
<1>6. SessKept /\ allowed' = allowed /\ grants' = grants /\ sess' = sess
  BY DEF RunCommand, access, SessKept
<1>7. s # 0 => InSession(y, sess)
  <2> SUFFICES ASSUME s # 0 PROVE InSession(y, sess)
    OBVIOUS
  <2>1. sess[s].st = "ready" /\ sess[s].o = o /\ s \in Sess
    BY DEF RunCommand
  <2>2. Belongs(sess[s])
    BY <2>1, SessHere DEF SessOK
  <2> QED BY <1>5, <2>1, <2>2 DEF InSession, Belongs
<1>8. \A q \in drop : run[q].pc \notin Working /\ q \in Runs
  <2> SUFFICES ASSUME NEW q \in drop PROVE run[q].pc \notin Working /\ q \in Runs
    OBVIOUS
  <2>1. q \in Runs /\ run[q].here /\ ~run[q].worker
    BY <1>3 DEF AdmitRun, Evictable
  <2> QED BY <2>1, RunHere DEF RunOK
<1>9. ASSUME NEW q \in Runs PROVE RunOK(q, run[q])' /\ run'[q] \in RunState
  <2>1. CASE q = r
    <3>1. run'[q] = y
      BY <1>3, <2>1
    <3>2. Belongs(y) /\ grants[y.o].mode = y.mode
      BY <1>1, <1>5 DEF Belongs
    <3>3. y.st \notin Final /\ y.st # "none" /\ y.pc \notin Working /\ y.pc \notin Unsent
      BY <1>4, <1>5 DEF Final, Working, Unsent
    <3> QED BY <1>5, <1>6, <1>7, <3>1, <3>2, <3>3 DEF RunOK, Belongs, Live, InSession
  <2>2. CASE q # r /\ q \in drop
    <3>1. run'[q] = Dropped(run[q])
      BY <1>3, <2>2
    <3> QED BY <1>6, <1>8, <2>2, <3>1, RecordDropped
  <2>3. CASE q # r /\ q \notin drop
    <3>1. run'[q] = run[q] /\ run[q] \in RunState
      BY <1>3, <2>3, RunHere
    <3> QED BY <1>6, <3>1, RecordStays
  <2> QED BY <2>1, <2>2, <2>3
<1>10. run' \in [Runs -> RunState]
  BY <1>3, <1>9
<1>11. FinalStaysStep
  <2> SUFFICES ASSUME NEW q \in Runs, run[q].fin > 0
               PROVE  run'[q].fin = run[q].fin /\ run'[q].st = run[q].st
    BY DEF FinalStaysStep
  <2>1. run[r].st = "none" /\ RunOK(r, run[r])
    BY RunHere DEF RunCommand
  <2>2. q # r
    BY <2>1 DEF RunOK, Final
  <2>3. CASE q \in drop
    BY <1>3, <2>2, <2>3, RunHere, DroppedState
  <2>4. CASE q \notin drop
    BY <1>3, <2>2, <2>4
  <2> QED BY <2>3, <2>4
<1> QED BY <1>9, <1>10, <1>11 DEF RunInv

(***************************************************************************)
(* The invariant holds in every state                                      *)
(***************************************************************************)
Conns == ({"s"} \X Sess) \cup ({"r"} \X Runs)
Quiet == UNCHANGED <<rev, revs, suspended, epoch, saved, grants, eps>>

LEMMA MovesKeep ==
  ASSUME BInv, RunsMove, SessMove, Quiet, allowed \subseteq allowed', open' \subseteq Conns
  PROVE  BInv' /\ FinalStaysStep
<1>1. grants' = grants
  BY DEF Quiet
<1>2. SessInv' /\ SessKept
  BY <1>1, SessionsKept
<1>3. RunInv'
  BY <1>1, <1>2, RunsKept
<1>4. Types'
  BY DEF BInv, Types, RunsMove, SessMove, Quiet, Conns
<1>5. GrantInv'
  BY DEF BInv, GrantInv, Consented, Live, Quiet
<1>6. FinalStaysStep
  BY DEF FinalStaysStep, RunsMove, Moves
<1> QED BY <1>2, <1>3, <1>4, <1>5, <1>6 DEF BInv

LEMMA RunsSame ==
  ASSUME BInv, run' = run
  PROVE  RunsMove
BY DEF BInv, Types, RunsMove

LEMMA SessSame ==
  ASSUME BInv, sess' = sess
  PROVE  SessMove
BY DEF BInv, Types, SessMove

\* The steps of one command, its thread's included.
RunStep(r) ==
  \/ CancelCommand(r) \/ Approve(r) \/ Deny(r) \/ ApprovalUnavailable(r)
  \/ StartTrusted(r) \/ SweepApproval(r) \/ Worker(r)
  \/ Exited(r, "completed") \/ Exited(r, "failed")
  \/ ApprovalTimeUp(r) \/ CommandTimeUp(r)

LEMMA RunStepKeeps ==
  ASSUME BrokerAssumption, BInv, NEW r \in Runs, RunStep(r)
  PROVE  BInv' /\ FinalStaysStep
<1>1. open \subseteq Conns /\ "denied" \in Final /\ "failed" \in Final /\ "completed" \in Final
  BY DEF BInv, Types, Conns, Final
<1>2. <<"r", r>> \in Conns
  BY DEF Conns
<1>3. Quiet
  BY DEF RunStep, CancelCommand, Approve, Deny, ApprovalUnavailable, StartTrusted, SweepApproval,
         Worker, Record, ConnectRun, Exec, EndLoop, CloseImplicit, PublishRun, Exited,
         ApprovalTimeUp, CommandTimeUp, Quiet, core, access
<1>4. allowed \subseteq allowed'
  BY DEF RunStep, CancelCommand, Approve, Deny, ApprovalUnavailable, StartTrusted, SweepApproval,
         Worker, Record, ConnectRun, Exec, EndLoop, CloseImplicit, PublishRun, Exited,
         ApprovalTimeUp, CommandTimeUp
<1>5. open' \subseteq Conns
  <2>1. open' = open \/ open' = open \cup {<<"r", r>>} \/ open' = open \ {<<"r", r>>}
    BY DEF RunStep, CancelCommand, Approve, Deny, ApprovalUnavailable, StartTrusted, SweepApproval,
           Worker, Record, ConnectRun, Exec, EndLoop, CloseImplicit, PublishRun, Exited,
           ApprovalTimeUp, CommandTimeUp
  <2> QED BY <1>1, <1>2, <2>1
<1>6. SessMove
  <2>1. CASE Exec(r)
    BY <2>1, ExecMoves
  <2>2. CASE ~Exec(r)
    <3>1. sess' = sess
      BY <2>2 DEF RunStep, CancelCommand, Approve, Deny, ApprovalUnavailable, StartTrusted,
         SweepApproval, Worker, Record, ConnectRun, EndLoop, CloseImplicit, PublishRun, Exited,
         ApprovalTimeUp, CommandTimeUp
    <3> QED BY <3>1, SessSame
  <2> QED BY <2>1, <2>2
<1>7. RunsMove
  <2>1. CASE CancelCommand(r)
    BY <2>1, CancelMoves
  <2>2. CASE Approve(r)
    BY <2>2, ApproveMoves
  <2>3. CASE Deny(r)
    BY <1>1, <2>3, UnansweredMoves DEF Deny, Startable
  <2>4. CASE ApprovalUnavailable(r)
    BY <1>1, <2>4, UnansweredMoves DEF ApprovalUnavailable, Startable
  <2>5. CASE StartTrusted(r)
    BY <2>5, StartTrustedMoves
  <2>6. CASE SweepApproval(r)
    BY <1>1, <2>6, UnansweredMoves DEF SweepApproval
  <2>7. CASE Record(r)
    BY <2>7, RecordMoves
  <2>8. CASE ConnectRun(r)
    BY <2>8, ConnectRunMoves
  <2>9. CASE Exec(r)
    BY <2>9, ExecMoves
  <2>10. CASE EndLoop(r)
    BY <2>10, EndLoopMoves
  <2>11. CASE CloseImplicit(r)
    BY <2>11, CloseImplicitMoves
  <2>12. CASE PublishRun(r)
    BY <2>12, PublishRunMoves
  <2>13. CASE Exited(r, "completed") \/ Exited(r, "failed")
    BY <1>1, <2>13, ExitedMoves
  <2>14. CASE ApprovalTimeUp(r) \/ CommandTimeUp(r)
    BY <2>14, RunsSame DEF ApprovalTimeUp, CommandTimeUp
  <2> QED BY <2>1, <2>2, <2>3, <2>4, <2>5, <2>6, <2>7, <2>8, <2>9, <2>10, <2>11, <2>12, <2>13, <2>14
          DEF RunStep, Worker
<1> QED BY <1>3, <1>4, <1>5, <1>6, <1>7, MovesKeep

SessStep(s) ==
  \/ CloseSession(s) \/ SweepSession(s) \/ ConnectSession(s)
  \/ PublishSession(s) \/ CloseConnection(s)

LEMMA SessStepKeeps ==
  ASSUME BrokerAssumption, BInv, NEW s \in Sess, SessStep(s)
  PROVE  BInv' /\ FinalStaysStep
<1>1. open \subseteq Conns /\ <<"s", s>> \in Conns
  BY DEF BInv, Types, Conns
<1>2. Quiet /\ allowed' = allowed
  BY DEF SessStep, CloseSession, SweepSession, ConnectSession, PublishSession, CloseConnection,
         Quiet, core, access
<1>3. open' \subseteq Conns
  <2>1. open' = open \/ open' = open \cup {<<"s", s>>} \/ open' = open \ {<<"s", s>>}
    BY DEF SessStep, CloseSession, SweepSession, ConnectSession, PublishSession, CloseConnection
  <2> QED BY <1>1, <2>1
<1>4. RunsMove /\ SessMove
  <2>1. CASE CloseSession(s)
    BY <2>1, CloseSessionMoves
  <2>2. CASE SweepSession(s)
    BY <2>2, SweepSessionMoves, RunsSame DEF SweepSession
  <2>3. CASE ConnectSession(s)
    BY <2>3, ConnectSessionMoves, RunsSame DEF ConnectSession
  <2>4. CASE PublishSession(s)
    BY <2>4, PublishSessionMoves, RunsSame DEF PublishSession
  <2>5. CASE CloseConnection(s)
    BY <2>5, CloseConnectionMoves, RunsSame DEF CloseConnection
  <2> QED BY <2>1, <2>2, <2>3, <2>4, <2>5 DEF SessStep
<1> QED BY <1>2, <1>3, <1>4, MovesKeep

\* The requests of an integration that make records.
LEMMA RequestKeeps ==
  ASSUME BrokerAssumption, BInv, NEW o \in Owners, NEW k \in Keys,
         \/ \E s \in Sess : OpenSession(o, k, s)
         \/ \E s \in Sess \cup {0}, r \in Runs : RunCommand(o, k, s, r)
  PROVE  BInv' /\ FinalStaysStep
<1>1. CASE \E s \in Sess : OpenSession(o, k, s)
  <2>1. PICK s \in Sess : OpenSession(o, k, s)
    BY <1>1
  <2>2. SessMove
    BY <2>1, OpenSessionMoves
  <2>3. Quiet /\ allowed' = allowed /\ open' \subseteq Conns /\ run' = run
    BY <2>1 DEF OpenSession, Quiet, core, access, BInv, Types, Conns
  <2> QED BY <2>2, <2>3, RunsSame, MovesKeep
<1>2. CASE \E s \in Sess \cup {0}, r \in Runs : RunCommand(o, k, s, r)
  <2>1. PICK s \in Sess \cup {0}, r \in Runs : RunCommand(o, k, s, r)
    BY <1>2
  <2>2. run' \in [Runs -> RunState] /\ RunInv' /\ FinalStaysStep
    BY <2>1, RunCommandKeeps
  <2>3. Quiet /\ sess' = sess /\ open' = open
    BY <2>1 DEF RunCommand, Quiet, core, access
  <2>4. Types' /\ GrantInv'
    BY <2>2, <2>3 DEF BInv, Types, Quiet, GrantInv, Consented, Live
  <2>5. SessInv'
    BY <2>3 DEF Quiet, BInv, SessInv, SessOK, Belongs, Live
  <2> QED BY <2>2, <2>4, <2>5 DEF BInv
<1> QED BY <1>1, <1>2

\* The steps that revoke the owners os and leave other grants alone.
LEMMA RevokesKeep ==
  ASSUME BInv, NEW os \in SUBSET Owners, Revoked(os), allowed' = allowed,
         grants' = NoGrantsOf(os), epoch' = epoch + 1, suspended' \in BOOLEAN,
         suspended' => suspended \/ os = Owners,
         saved' = saved \/ saved' = [o \in Owners |-> IF o \in os THEN None ELSE saved[o]],
         UNCHANGED <<rev, revs, eps, open>>
  PROVE  BInv' /\ FinalStaysStep
<1>1. \A o \in Owners : grants'[o] = IF o \in os THEN None ELSE grants[o]
  BY DEF NoGrantsOf
<1>2. /\ sess' \in [Sess -> SessState] /\ run' \in [Runs -> RunState]
      /\ SessInv' /\ RunInv' /\ FinalStaysStep
  <2>1. \A o \in Owners \ os : grants'[o] = grants[o]
    BY <1>1
  <2> QED BY <2>1, RevokedKeeps
<1>3. grants' \in [Owners -> GrantState] /\ saved' \in [Owners -> SavedState]
  <2>1. grants' \in [Owners -> GrantState]
    BY DEF NoGrantsOf, BInv, Types, GrantState
  <2>2. saved' \in [Owners -> SavedState]
    BY DEF BInv, Types, SavedState
  <2> QED BY <2>1, <2>2
<1>4. epoch' \in Nat
  BY DEF BInv, Types
<1>5. Types'
  BY <1>2, <1>3, <1>4 DEF BInv, Types
<1>6. Consented'
  <2> SUFFICES ASSUME NEW o \in Owners, grants'[o] # None
               PROVE  saved'[o] # None /\ saved'[o].mode = grants'[o].mode
    BY DEF Consented, Live
  <2>1. o \notin os /\ grants'[o] = grants[o]
    BY <1>1
  <2>2. saved'[o] = saved[o]
    BY <2>1
  <2> QED BY <2>1, <2>2 DEF BInv, GrantInv, Consented, Live
<1>7. suspended' => \A o \in Owners : grants'[o] = None
  BY <1>1 DEF BInv, GrantInv, Live
<1>8. GrantInv'
  BY <1>6, <1>7 DEF GrantInv, Live
<1> QED BY <1>2, <1>5, <1>8 DEF BInv

LEMMA GrantKeeps ==
  ASSUME BrokerAssumption, BInv, NEW o \in Owners, NEW m \in Modes, Grant(o, m)
  PROVE  BInv' /\ FinalStaysStep
<1> DEFINE g == [ep |-> eps + 1, rev |-> rev, mode |-> m]
           w == [ep |-> 1, mode |-> m, late |-> FALSE]
<1>1. /\ eps \in Nat /\ rev \in Nat /\ rev # 0 /\ m \in BothModes /\ ~suspended
      /\ grants \in [Owners -> GrantState] /\ saved \in [Owners -> SavedState]
  BY Bounds DEF BInv, Types, Grant, TicketStands
<1>2. eps + 1 \in Nat \ {0} /\ rev \in Nat \ {0}
  BY <1>1
<1>3. g \in GrantState /\ g # None /\ g.mode = m
  BY <1>1, <1>2, GrantMade
<1>4. w \in SavedState /\ w # None /\ w.mode = m
  <2>1. w \in SavedState /\ w.mode = m /\ w.ep = 1
    BY <1>1 DEF SavedState
  <2>2. None.ep = 0
    BY DEF None
  <2> QED BY <2>1, <2>2
<1>5. /\ grants' = [grants EXCEPT ![o] = g] /\ saved' = [saved EXCEPT ![o] = w] /\ eps' = eps + 1
      /\ Revoked({o}) /\ UNCHANGED <<rev, revs, suspended, epoch, open, allowed>>
  BY DEF Grant, core
<1> HIDE DEF g, w
<1>6. /\ sess' \in [Sess -> SessState] /\ run' \in [Runs -> RunState]
      /\ SessInv' /\ RunInv' /\ FinalStaysStep
  <2>1. \A q \in Owners \ {o} : grants'[q] = grants[q]
    BY <1>1, <1>5
  <2> QED BY <1>5, <2>1, RevokedKeeps
<1>7. grants' \in [Owners -> GrantState] /\ saved' \in [Owners -> SavedState]
  BY <1>1, <1>3, <1>4, <1>5
<1>8. Types'
  BY <1>2, <1>5, <1>6, <1>7 DEF BInv, Types
<1>9. Consented'
  <2> SUFFICES ASSUME NEW q \in Owners, grants'[q] # None
               PROVE  saved'[q] # None /\ saved'[q].mode = grants'[q].mode
    BY DEF Consented, Live
  <2>1. CASE q = o
    BY <1>1, <1>3, <1>4, <1>5, <2>1
  <2>2. CASE q # o
    BY <1>1, <1>5, <2>2 DEF BInv, GrantInv, Consented, Live
  <2> QED BY <2>1, <2>2
<1>10. GrantInv'
  BY <1>1, <1>5, <1>9 DEF GrantInv
<1> QED BY <1>6, <1>8, <1>10 DEF BInv

LEMMA RestoreKeeps ==
  ASSUME BrokerAssumption, BInv, NEW os \in SUBSET Owners, RestoreAccess(os)
  PROVE  BInv' /\ FinalStaysStep
<1>1. /\ eps \in Nat /\ rev \in Nat /\ rev # 0 /\ ~suspended
      /\ grants \in [Owners -> GrantState] /\ saved \in [Owners -> SavedState]
  BY Bounds DEF BInv, Types, RestoreAccess, Restorable
<1>2. Cardinality(os) \in Nat
  BY FS_Subset, FS_CardinalityType DEF BrokerAssumption
<1>3. PICK f \in [os -> 1 .. Cardinality(os)] :
        grants' = [o \in Owners |-> IF o \in os
                   THEN [ep |-> eps + f[o], rev |-> rev, mode |-> saved[o].mode] ELSE grants[o]]
  BY DEF RestoreAccess
<1>4. /\ UNCHANGED <<rev, revs, suspended, epoch, saved, sess, run, open, allowed>>
      /\ eps' = eps + Cardinality(os)
  BY DEF RestoreAccess, core
<1>5. ASSUME NEW o \in os
      PROVE  grants'[o] \in GrantState /\ grants'[o].mode = saved[o].mode /\ saved[o] # None
             /\ grants[o] = None
  <2>1. saved[o] # None /\ grants[o] = None
    BY DEF RestoreAccess, Live
  <2>2. saved[o].mode \in BothModes
    BY <1>1, <2>1 DEF SavedState
  <2>3. f[o] \in 1 .. Cardinality(os)
    BY <1>3
  <2>4. eps + f[o] \in Nat \ {0} /\ rev \in Nat \ {0}
    BY <1>1, <1>2, <2>3
  <2>5. grants'[o] = [ep |-> eps + f[o], rev |-> rev, mode |-> saved[o].mode]
    BY <1>3
  <2> QED BY <2>1, <2>2, <2>4, <2>5, GrantMade
<1>6. \A o \in Owners \ os : grants'[o] = grants[o]
  BY <1>3
<1>7. \A o \in Owners : grants[o] # None => grants'[o] = grants[o]
  BY <1>5, <1>6
<1>8. grants' \in [Owners -> GrantState]
  <2>1. \A o \in Owners : grants'[o] \in GrantState
    BY <1>1, <1>5, <1>6
  <2> QED BY <1>3, <2>1
<1>9. eps' \in Nat
  BY <1>1, <1>2, <1>4
<1>10. Types'
  BY <1>4, <1>8, <1>9 DEF BInv, Types
<1>11. GrantInv'
  <2>1. Consented'
    <3> SUFFICES ASSUME NEW o \in Owners, grants'[o] # None
                 PROVE  saved[o] # None /\ saved[o].mode = grants'[o].mode
      BY <1>4 DEF Consented, Live
    <3> QED BY <1>5, <1>6 DEF BInv, GrantInv, Consented, Live
  <2> QED BY <1>1, <1>4, <2>1 DEF GrantInv
<1>12. SessInv'
  <2> SUFFICES ASSUME NEW s \in Sess PROVE SessOK(sess[s])'
    BY DEF SessInv
  <2>1. sess[s].st \notin {"none", "gone"} => grants'[sess[s].o] = grants[sess[s].o]
    BY <1>7, SessHere DEF SessOK, Belongs, Live
  <2> QED BY <1>4, <2>1, SessionStays
<1>13. RunInv'
  <2> SUFFICES ASSUME NEW r \in Runs PROVE RunOK(r, run[r])'
    BY DEF RunInv
  <2>1. run[r].here => grants'[run[r].o] = grants[run[r].o]
    BY <1>7, RunHere DEF RunOK, Belongs, Live
  <2>2. SessKept
    BY <1>4 DEF SessKept
  <2> QED BY <1>4, <2>1, <2>2, RecordStays
<1>14. FinalStaysStep
  BY <1>4 DEF FinalStaysStep
<1> QED BY <1>10, <1>11, <1>12, <1>13, <1>14 DEF BInv

(* What belongs to no command and to no session and leaves grants alone:   *)
(* forms, resuming, the core, the clock, connections.                      *)
LEMMA AroundKeeps ==
  ASSUME BrokerAssumption, BInv,
         UNCHANGED <<grants, eps, sess, run, open, allowed>>,
         rev' \in 0 .. MaxRevs, revs' \in 0 .. MaxRevs, epoch' = epoch,
         suspended' \in BOOLEAN, suspended' => suspended,
         saved' \in [Owners -> SavedState],
         \A o \in Owners : saved[o] # None => saved'[o] # None /\ saved'[o].mode = saved[o].mode
  PROVE  BInv' /\ FinalStaysStep
<1>1. Types'
  BY DEF BInv, Types
<1>2. GrantInv'
  BY DEF BInv, GrantInv, Consented, Live
<1>3. SessInv'
  BY DEF BInv, SessInv, SessOK, Belongs, Live
<1>4. RunInv'
  BY DEF BInv, RunInv, RunOK, Belongs, Live
<1>5. FinalStaysStep
  BY DEF FinalStaysStep
<1> QED BY <1>1, <1>2, <1>3, <1>4, <1>5 DEF BInv

LEMMA OwnerStepKeeps ==
  ASSUME BrokerAssumption, BInv, NEW o \in Owners,
         \/ GrantTicket(o) \/ (\E m \in Modes : Grant(o, m)) \/ Revoke({o})
         \/ ForgetAccess({o}) \/ RevokeExpired(o) \/ GrantTimeUp(o)
  PROVE  BInv' /\ FinalStaysStep
<1>1. /\ rev \in 0 .. MaxRevs /\ revs \in 0 .. MaxRevs /\ suspended \in BOOLEAN
      /\ saved \in [Owners -> SavedState]
  BY DEF BInv, Types
<1>2. CASE GrantTicket(o)
  <2>1. UNCHANGED <<grants, eps, sess, run, open, allowed, rev, revs, epoch, suspended, saved>>
    BY <1>2 DEF GrantTicket, core
  <2> QED BY <1>1, <2>1, AroundKeeps
<1>3. CASE \E m \in Modes : Grant(o, m)
  BY <1>3, GrantKeeps
<1>4. CASE Revoke({o})
  <2>1. /\ Revoked({o}) /\ grants' = NoGrantsOf({o}) /\ epoch' = epoch + 1
        /\ UNCHANGED <<rev, revs, eps, open, suspended, saved, allowed>>
    BY <1>4 DEF Revoke, core
  <2> QED BY <1>1, <2>1, RevokesKeep
<1>5. CASE ForgetAccess({o})
  <2>1. /\ Revoked({o}) /\ grants' = NoGrantsOf({o}) /\ epoch' = epoch + 1
        /\ UNCHANGED <<rev, revs, eps, open, suspended, allowed>>
        /\ saved' = saved \/ saved' = [q \in Owners |-> IF q \in {o} THEN None ELSE saved[q]]
    BY <1>5 DEF ForgetAccess, core
  <2> QED BY <1>1, <2>1, RevokesKeep
<1>6. CASE RevokeExpired(o)
  <2>1. /\ Revoked({o}) /\ grants' = NoGrantsOf({o}) /\ epoch' = epoch + 1
        /\ UNCHANGED <<rev, revs, eps, open, suspended, saved, allowed>>
    BY <1>6 DEF RevokeExpired, core
  <2> QED BY <1>1, <2>1, RevokesKeep
<1>7. CASE GrantTimeUp(o)
  <2> DEFINE w == [saved[o] EXCEPT !.late = TRUE]
  <2>1. /\ UNCHANGED <<grants, eps, sess, run, open, allowed, rev, revs, epoch, suspended>>
        /\ saved' = [saved EXCEPT ![o] = w] /\ saved[o] # None
    BY <1>7 DEF GrantTimeUp, core
  <2>2. saved[o] \in [ep : {1}, mode : BothModes, late : BOOLEAN]
    BY <1>1, <2>1 DEF SavedState
  <2>3. w \in [ep : {1}, mode : BothModes, late : BOOLEAN] /\ w.mode = saved[o].mode
    BY <2>2
  <2>4. w \in SavedState /\ w # None
    <3>1. w.ep = 1 /\ None.ep = 0
      BY <2>3 DEF None
    <3> QED BY <2>3, <3>1 DEF SavedState
  <2> HIDE DEF w
  <2>5. /\ saved' \in [Owners -> SavedState]
        /\ \A q \in Owners : saved[q] # None => saved'[q] # None /\ saved'[q].mode = saved[q].mode
    BY <1>1, <2>1, <2>3, <2>4
  <2> QED BY <1>1, <2>1, <2>5, AroundKeeps
<1> QED BY <1>2, <1>3, <1>4, <1>5, <1>6, <1>7

LEMMA Step ==
  ASSUME BrokerAssumption, BInv, [Next]_vars
  PROVE  BInv' /\ FinalStaysStep
<1>1. /\ rev \in 0 .. MaxRevs /\ revs \in 0 .. MaxRevs /\ suspended \in BOOLEAN
      /\ saved \in [Owners -> SavedState] /\ open \subseteq Conns
  BY DEF BInv, Types, Conns
<1>2. CASE UNCHANGED vars
  <2>1. UNCHANGED <<grants, eps, sess, run, open, allowed, rev, revs, epoch, suspended, saved>>
    BY <1>2 DEF vars, core, access
  <2> QED BY <1>1, <2>1, AroundKeeps
<1>3. CASE \E o \in Owners : \/ GrantTicket(o) \/ (\E m \in Modes : Grant(o, m)) \/ Revoke({o})
                             \/ ForgetAccess({o}) \/ RevokeExpired(o) \/ GrantTimeUp(o)
  BY <1>3, OwnerStepKeeps
<1>4. CASE ForgetAccess(Owners)
  <2>1. /\ Revoked(Owners) /\ grants' = NoGrantsOf(Owners) /\ epoch' = epoch + 1
        /\ UNCHANGED <<rev, revs, eps, open, suspended, allowed>>
        /\ saved' = saved \/ saved' = [q \in Owners |-> IF q \in Owners THEN None ELSE saved[q]]
    BY <1>4 DEF ForgetAccess, core
  <2> QED BY <1>1, <2>1, RevokesKeep
<1>5. CASE Suspend
  <2>1. /\ Revoked(Owners) /\ grants' = NoGrantsOf(Owners) /\ epoch' = epoch + 1
        /\ UNCHANGED <<rev, revs, eps, open, saved, allowed>> /\ suspended' = TRUE
    BY <1>5 DEF Suspend, core
  <2> QED BY <2>1, RevokesKeep
<1>6. CASE Resume
  <2>1. /\ UNCHANGED <<grants, eps, sess, run, open, allowed, rev, revs, epoch, saved>>
        /\ suspended' = FALSE
    BY <1>6 DEF Resume, core
  <2> QED BY <1>1, <2>1, AroundKeeps
<1>7. CASE CoreChange
  <2>1. UNCHANGED <<grants, eps, sess, run, open, allowed, epoch, suspended, saved>>
    BY <1>7 DEF CoreChange, access
  <2>2. rev' \in 0 .. MaxRevs /\ revs' \in 0 .. MaxRevs
    BY <1>1, <1>7, Bounds DEF CoreChange
  <2> QED BY <1>1, <2>1, <2>2, AroundKeeps
<1>8. CASE \E os \in SUBSET Owners : RestoreAccess(os)
  BY <1>8, RestoreKeeps
<1>9. CASE \E o \in Owners, k \in Keys : \/ \E s \in Sess : OpenSession(o, k, s)
                                         \/ \E s \in Sess \cup {0}, r \in Runs : RunCommand(o, k, s, r)
  BY <1>9, RequestKeeps
<1>10. CASE \E s \in Sess : SessStep(s)
  BY <1>10, SessStepKeeps
<1>11. CASE \E r \in Runs : RunStep(r)
  BY <1>11, RunStepKeeps
<1>12. CASE \E c \in open : Disconnect(c)
  <2>1. Quiet /\ run' = run /\ sess' = sess /\ allowed' = allowed /\ open' \subseteq Conns
    BY <1>1, <1>12 DEF Disconnect, Quiet, core, access
  <2> QED BY <2>1, RunsSame, SessSame, MovesKeep
<1>13. CASE \E c \in open : WatchConnection(c)
  <2>1. PICK c \in open : WatchConnection(c)
    BY <1>13
  <2>2. Quiet /\ allowed' = allowed /\ open' \subseteq Conns
    BY <1>1, <2>1 DEF WatchConnection, Quiet, core, access
  <2> QED BY <2>1, <2>2, WatchMoves, MovesKeep
<1> QED BY <1>2, <1>3, <1>4, <1>5, <1>6, <1>7, <1>8, <1>9, <1>10, <1>11, <1>12, <1>13
        DEF Next, SessStep, RunStep

LEMMA Start ==
  ASSUME BrokerAssumption, Init
  PROVE  BInv
<1>1. NoSess \in SessState /\ NoSess.st = "none" /\ ~NoSess.has
  BY DEF NoSess, SessState
<1>2. NoRun \in RunState /\ NoRun.st = "none" /\ ~NoRun.here /\ NoRun.pc = "idle" /\ NoRun.fin = 0
  BY DEF NoRun, RunState, Working, BothModes, Final
<1>3. Types
  <2>1. rev \in 0 .. MaxRevs /\ revs \in 0 .. MaxRevs
    BY Bounds DEF Init
  <2>2. grants \in [Owners -> GrantState] /\ saved \in [Owners -> SavedState]
    BY DEF Init, GrantState, SavedState
  <2>3. sess \in [Sess -> SessState] /\ run \in [Runs -> RunState]
    BY <1>1, <1>2 DEF Init
  <2> QED BY <2>1, <2>2, <2>3 DEF Init, Types
<1>4. GrantInv
  BY DEF Init, GrantInv, Consented, Live
<1>5. SessInv
  BY <1>1 DEF Init, SessInv, SessOK
<1>6. RunInv
  <2> SUFFICES ASSUME NEW r \in Runs PROVE RunOK(r, NoRun)
    BY DEF RunInv, Init
  <2> QED BY <1>2 DEF RunOK, Working, Unsent, Final
<1> QED BY <1>3, <1>4, <1>5, <1>6 DEF BInv

LEMMA Invariant ==
  ASSUME BrokerAssumption
  PROVE  Spec => []BInv
<1>1. Init => BInv
  BY Start
<1>2. BInv /\ [Next]_vars => BInv'
  BY Step
<1> QED BY <1>1, <1>2, PTL DEF Spec

-----------------------------------------------------------------------------
(* What is recorded of sessions, commands and connections agrees with      *)
(* itself in every state.                                                  *)
THEOREM BrokerTypes ==
  ASSUME BrokerAssumption
  PROVE  Spec => []TypeOK
<1>1. BInv => TypeOK
  <2> SUFFICES ASSUME BInv PROVE TypeOK
    OBVIOUS
  <2>1. \A s \in Sess : sess[s].has => sess[s].st = "ready"
    BY SessHere DEF SessOK
  <2>2. \A r \in Runs : /\ run[r].fin > 0 <=> run[r].st \in {"completed", "failed", "cancelled", "denied"}
                        /\ run[r].here /\ Holds(r) => run[r].worker
    BY RunHere DEF RunOK, Final, Holds, Working
  <2> QED BY <2>1, <2>2 DEF TypeOK, BInv, Types
<1> QED BY <1>1, Invariant, PTL

(* A command reaches a host only under the grant it was accepted under,    *)
(* live, in time and of the revision the core is unlocked with, and after  *)
(* a person allowed it where the mode asks: for any integrations, limits   *)
(* and interleaving of the windows, the sweeper, the threads and the core. *)
THEOREM ExecsAuthorised ==
  ASSUME BrokerAssumption
  PROVE  Spec => ExecAuthorised
<1>1. ASSUME BInv, NEW r \in Runs, Exec(r), r \in execs' \ execs
      PROVE  /\ ~suspended /\ Live(run[r].o) /\ grants[run[r].o].ep = run[r].ep
             /\ run[r].ep \notin past /\ rev # 0 /\ rev = run[r].rev /\ ~run[r].stop
             /\ grants[run[r].o].mode = "manual" => r \in allowed
  <2> DEFINE x == run[r]
  <2>1. MayExec(r) /\ Valid(ConnOf(r)) /\ x.pc = "check"
    BY <1>1 DEF Exec
  <2>2. ~x.stop /\ x.ep \notin past /\ x \in RunState /\ RunOK(r, x)
    BY <1>1, <2>1, RunHere DEF MayExec
  <2>3. x.here
    BY <2>1, <2>2 DEF RunOK, Working
  <2>4. Belongs(x) /\ grants[x.o].mode = x.mode /\ x.st # "none"
    BY <2>2, <2>3 DEF RunOK
  <2>5. rev = x.rev
    <3>1. CASE x.s = 0
      <4>1. ConnOf(r) = <<"r", r>>
        BY <3>1 DEF ConnOf
      <4> QED BY <2>1, <4>1 DEF Valid
    <3>2. CASE x.s # 0
      <4>1. ConnOf(r) = <<"s", x.s>>
        BY <3>2 DEF ConnOf
      <4>2. sess[x.s].rev = x.rev
        BY <2>2, <2>4, <3>2 DEF RunOK, InSession
      <4>3. rev = sess[x.s].rev
        BY <2>1, <4>1 DEF Valid
      <4> QED BY <4>2, <4>3
    <3> QED BY <3>1, <3>2
  <2>6. rev # 0
    <3>1. grants[x.o] \in GrantState /\ grants[x.o] # None
      BY <1>1, <2>4 DEF BInv, Types, Belongs, Live
    <3>2. grants[x.o].rev # 0
      BY <3>1, GrantTyped
    <3> QED BY <2>4, <2>5, <3>2 DEF Belongs
  <2>7. x.mode = "manual" => r \in allowed
    BY <2>1, <2>2 DEF RunOK
  <2>8. ~suspended
    BY <1>1, <2>4 DEF BInv, GrantInv, Belongs
  <2> QED BY <2>2, <2>4, <2>5, <2>6, <2>7, <2>8 DEF Belongs
<1>2. ASSUME Next, NEW q \in execs' \ execs
      PROVE  q \in Runs => Exec(q)
  <2>1. PICK r : r \in Runs /\ Exec(r)
    <3>1. ASSUME NEW o \in Owners,
                 \/ GrantTicket(o) \/ (\E m \in Modes : Grant(o, m)) \/ Revoke({o})
                 \/ ForgetAccess({o}) \/ RevokeExpired(o) \/ GrantTimeUp(o)
          PROVE  execs' = execs
      BY <3>1 DEF GrantTicket, Grant, Revoke, ForgetAccess, RevokeExpired, GrantTimeUp
    <3>2. ASSUME \/ ForgetAccess(Owners) \/ Suspend \/ Resume \/ CoreChange
                 \/ \E os \in SUBSET Owners : RestoreAccess(os)
          PROVE  execs' = execs
      BY <3>2 DEF ForgetAccess, Suspend, Resume, CoreChange, RestoreAccess
    <3>3. ASSUME NEW o \in Owners, NEW k \in Keys,
                 \/ \E s \in Sess : OpenSession(o, k, s)
                 \/ \E s \in Sess \cup {0}, r \in Runs : RunCommand(o, k, s, r)
          PROVE  execs' = execs
      BY <3>3 DEF OpenSession, RunCommand
    <3>4. ASSUME NEW s \in Sess, SessStep(s)
          PROVE  execs' = execs
      BY <3>4 DEF SessStep, CloseSession, SweepSession, ConnectSession, PublishSession, CloseConnection
    <3>5. ASSUME NEW r \in Runs, RunStep(r), ~Exec(r)
          PROVE  execs' = execs
      BY <3>5 DEF RunStep, Worker, CancelCommand, Approve, Deny, ApprovalUnavailable, StartTrusted,
         SweepApproval, Record, ConnectRun, EndLoop, CloseImplicit, PublishRun, Exited,
         ApprovalTimeUp, CommandTimeUp
    <3>6. ASSUME NEW c \in open, Disconnect(c) \/ WatchConnection(c)
          PROVE  execs' = execs
      BY <3>6 DEF Disconnect, WatchConnection
    <3>7. execs' # execs
      BY <1>2
    <3>8. \E r \in Runs : RunStep(r)
      BY <1>2, <3>1, <3>2, <3>3, <3>4, <3>6, <3>7 DEF Next, SessStep, RunStep
    <3> QED BY <3>5, <3>7, <3>8
  <2>2. execs' = execs \cup {r}
    BY <1>2, <2>1 DEF Exec
  <2> QED BY <1>2, <2>1, <2>2
<1>3. BInv /\ [Next]_vars => [ExecAuthorisedStep]_vars
  <2> SUFFICES ASSUME BInv, Next, NEW r \in Runs, r \in execs' \ execs
               PROVE  /\ ~suspended /\ Live(run[r].o) /\ grants[run[r].o].ep = run[r].ep
                      /\ run[r].ep \notin past /\ rev # 0 /\ rev = run[r].rev /\ ~run[r].stop
                      /\ grants[run[r].o].mode = "manual" => r \in allowed
    BY DEF ExecAuthorisedStep
  <2>1. Exec(r)
    BY <1>2
  <2> QED BY <1>1, <2>1
<1> QED BY <1>3, Invariant, PTL DEF Spec, ExecAuthorised

(* While access is suspended nothing of it is left; whatever is usable     *)
(* belongs to the live grant; a live grant has the person's saved consent; *)
(* no record is dropped under a thread at work.                            *)
THEOREM GrantsHold ==
  ASSUME BrokerAssumption
  PROVE  Spec => [](SuspendedHolds /\ NothingFromBefore /\ Consented /\ RecordOutlivesWork)
<1>1. ASSUME BInv
      PROVE  SuspendedHolds /\ NothingFromBefore /\ Consented /\ RecordOutlivesWork
  <2>1. \A s \in Sess : /\ Here(s) => /\ sess[s].o \in Owners /\ Live(sess[s].o)
                                      /\ grants[sess[s].o].ep = sess[s].ep
                        /\ sess[s].st = "ready" => sess[s].pc = "idle"
    BY <1>1, SessHere DEF SessOK, Belongs, Here
  <2>2. \A r \in Runs : /\ run[r].here => /\ run[r].o \in Owners /\ Live(run[r].o)
                                          /\ grants[run[r].o].ep = run[r].ep
                        /\ Holds(r) => run[r].here \/ run[r].stop
    BY <1>1, RunHere DEF RunOK, Belongs, Holds, Working
  <2>3. Consented /\ (suspended => \A o \in Owners : ~Live(o))
    BY <1>1 DEF BInv, GrantInv
  <2>4. SuspendedHolds
    BY <2>1, <2>2, <2>3 DEF SuspendedHolds
  <2>5. NothingFromBefore
    BY <2>1, <2>2 DEF NothingFromBefore
  <2>6. RecordOutlivesWork
    BY <2>2 DEF RecordOutlivesWork
  <2> QED BY <2>3, <2>4, <2>5, <2>6
<1> QED BY <1>1, Invariant, PTL

\* What a client was told about the end of a command stays so.
THEOREM OutcomesStay ==
  ASSUME BrokerAssumption
  PROVE  Spec => FinalStays
<1>1. BInv /\ [Next]_vars => [FinalStaysStep]_vars
  BY Step
<1> QED BY <1>1, Invariant, PTL DEF Spec, FinalStays

\* A ready session is closed by a request or by the sweeper, by nothing else.
LEMMA WhoCloses ==
  ASSUME BInv, Next, NEW s \in Sess, sess[s].st = "ready", sess'[s].st = "closed"
  PROVE  CloseSession(s) \/ SweepSession(s)
<1>1. sess \in [Sess -> SessState] /\ sess[s] \in SessState /\ sess[s].pc = "idle"
  BY SessHere DEF SessOK
<1>2. sess' # sess
  OBVIOUS
<1>3. ASSUME NEW q \in Sess, NEW y, sess' = [sess EXCEPT ![q] = y] PROVE q = s
  BY <1>1, <1>3
<1>4. ASSUME NEW os, Revoked(os) PROVE FALSE
  <2>1. sess'[s] = sess[s] \/ sess'[s] = [sess[s] EXCEPT !.st = "gone", !.stop = TRUE, !.has = FALSE]
    BY <1>4 DEF Revoked
  <2>2. [sess[s] EXCEPT !.st = "gone", !.stop = TRUE, !.has = FALSE].st = "gone"
    BY <1>1 DEF SessState
  <2> QED BY <2>1, <2>2
<1>5. ASSUME NEW q \in Sess, sess' = [sess EXCEPT ![q].stop = TRUE] PROVE FALSE
  BY <1>1, <1>5 DEF SessState
<1>6. ASSUME NEW r \in Runs, Exec(r) PROVE FALSE
  <2>1. sess' = [sess EXCEPT ![run[r].s].stop = TRUE] /\ run[r].s # 0
    BY <1>2, <1>6 DEF Exec
  <2>2. run[r].s \in Sess
    BY <2>1, RunHere DEF RunState
  <2> QED BY <1>5, <2>1, <2>2
<1>7. ASSUME NEW c \in open, WatchConnection(c) PROVE FALSE
  <2>1. c[1] = "s" /\ sess' = [sess EXCEPT ![c[2]].stop = TRUE]
    BY <1>2, <1>7 DEF WatchConnection
  <2>2. c[2] \in Sess
    BY <2>1 DEF BInv, Types
  <2> QED BY <1>5, <2>1, <2>2
<1>8. ASSUME NEW o \in Owners, NEW k \in Keys, NEW q \in Sess, OpenSession(o, k, q) PROVE FALSE
  <2> DEFINE y == [NoSess EXCEPT !.st = "connecting", !.o = o, !.ep = grants[o].ep,
                                 !.rev = grants[o].rev, !.key = k, !.pc = "connect"]
  <2>1. PICK drop \in SUBSET Sess :
          sess' = [p \in Sess |-> IF p = q THEN y
                                  ELSE IF p \in drop THEN [sess[p] EXCEPT !.st = "gone"] ELSE sess[p]]
    BY <1>8 DEF OpenSession
  <2>2. q # s
    BY <1>8 DEF OpenSession
  <2>3. sess'[s] = sess[s] \/ sess'[s] = [sess[s] EXCEPT !.st = "gone"]
    <3> HIDE DEF y
    <3> QED BY <2>1, <2>2
  <2>4. [sess[s] EXCEPT !.st = "gone"].st = "gone"
    BY <1>1 DEF SessState
  <2> QED BY <2>3, <2>4
<1>9. ASSUME NEW q \in Sess, ConnectSession(q) \/ PublishSession(q) PROVE FALSE
  <2>1. sess[q].pc # "idle"
    BY <1>9 DEF ConnectSession, PublishSession
  <2>2. q # s
    BY <1>1, <2>1
  <2>3. sess'[s] = sess[s]
    BY <1>1, <1>9, <2>2 DEF ConnectSession, PublishSession
  <2> QED BY <2>3
<1>10. ASSUME NEW q \in Sess, CloseConnection(q) PROVE FALSE
  BY <1>1, <1>10 DEF CloseConnection, SessState
<1>11. ASSUME NEW q \in Sess, CloseSession(q) \/ SweepSession(q) PROVE q = s
  <2>1. CloseRecord(q)
    BY <1>11 DEF CloseSession, SweepSession
  <2>2. q # s => sess'[s] = sess[s]
    BY <1>1, <2>1 DEF CloseRecord
  <2> QED BY <2>2
<1>12. \/ \E q \in Sess : CloseSession(q) \/ SweepSession(q) \/ ConnectSession(q) \/ PublishSession(q)
                          \/ CloseConnection(q)
       \/ \E o \in Owners, k \in Keys, q \in Sess : OpenSession(o, k, q)
       \/ \E c \in open : WatchConnection(c)
       \/ \E r \in Runs : Exec(r)
       \/ \E os \in SUBSET Owners : Revoked(os)
  <2>1. ASSUME NEW o \in Owners,
               \/ GrantTicket(o) \/ (\E m \in Modes : Grant(o, m)) \/ Revoke({o})
               \/ ForgetAccess({o}) \/ RevokeExpired(o) \/ GrantTimeUp(o)
        PROVE  sess' = sess \/ \E os \in SUBSET Owners : Revoked(os)
    BY <2>1 DEF GrantTicket, Grant, Revoke, ForgetAccess, RevokeExpired, GrantTimeUp
  <2>2. ASSUME \/ ForgetAccess(Owners) \/ Suspend \/ Resume \/ CoreChange
               \/ \E os \in SUBSET Owners : RestoreAccess(os)
        PROVE  sess' = sess \/ \E os \in SUBSET Owners : Revoked(os)
    BY <2>2 DEF ForgetAccess, Suspend, Resume, CoreChange, RestoreAccess
  <2>3. ASSUME NEW o \in Owners, NEW k \in Keys, NEW q \in Sess \cup {0}, NEW r \in Runs,
               RunCommand(o, k, q, r)
        PROVE  sess' = sess
    BY <2>3 DEF RunCommand
  <2>4. ASSUME NEW r \in Runs, RunStep(r), ~Exec(r)
        PROVE  sess' = sess
    BY <2>4 DEF RunStep, Worker, CancelCommand, Approve, Deny, ApprovalUnavailable, StartTrusted,
       SweepApproval, Record, ConnectRun, EndLoop, CloseImplicit, PublishRun, Exited,
       ApprovalTimeUp, CommandTimeUp
  <2>5. ASSUME NEW c \in open, Disconnect(c)
        PROVE  sess' = sess
    BY <2>5 DEF Disconnect
  <2> QED BY <1>2, <2>1, <2>2, <2>3, <2>4, <2>5 DEF Next, RunStep
<1> QED BY <1>4, <1>6, <1>7, <1>8, <1>9, <1>10, <1>11, <1>12

(* A session that works is never closed under a command that is not told:  *)
(* neither by a request nor by the sweeper's idea of idleness.             *)
THEOREM ClosingIsTold ==
  ASSUME BrokerAssumption
  PROVE  Spec => ClosedTellsCommand
<1>1. ASSUME BInv, Next, NEW r \in Runs, run[r].s # 0, Unfinished(r), sess[run[r].s].st = "ready",
             Valid(<<"s", run[r].s>>), sess'[run[r].s].st = "closed"
      PROVE  run'[r].stop
  <2> DEFINE x == run[r]
             s == x.s
  <2>1. x \in RunState /\ RunOK(r, x) /\ x.here /\ s \in Sess
    BY <1>1, RunHere DEF Unfinished, RunState
  <2>2. sess[s].o = x.o
    BY <1>1, <2>1 DEF RunOK, InSession
  <2>3. ~SweepSession(s)
    BY <1>1, <2>1 DEF SweepSession, Idle
  <2>4. CloseSession(s)
    BY <1>1, <2>1, <2>3, WhoCloses
  <2>5. run'[r] = Halted(x)
    BY <2>1, <2>2, <2>4 DEF CloseSession, Halted
  <2>6. [x EXCEPT !.stop = TRUE] \in RunState /\ [x EXCEPT !.stop = TRUE].stop
    BY <2>1, StopState
  <2>7. Halted(x).stop
    <3> DEFINE y == [x EXCEPT !.stop = TRUE]
    <3>1. Finish(y, "cancelled").stop = y.stop
      BY <2>6, FinishState DEF Final
    <3>2. Halted(x) = y \/ Halted(x) = Finish(y, "cancelled")
      BY DEF Halted
    <3> QED BY <2>6, <3>1, <3>2
  <2> QED BY <2>5, <2>7
<1>2. BInv /\ [Next]_vars => [ClosedTellsCommandStep]_vars
  <2> SUFFICES ASSUME BInv, Next PROVE ClosedTellsCommandStep
    OBVIOUS
  <2> QED BY <1>1 DEF ClosedTellsCommandStep
<1> QED BY <1>2, Invariant, PTL DEF Spec, ClosedTellsCommand
=============================================================================

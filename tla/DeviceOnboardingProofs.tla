----------------------- MODULE DeviceOnboardingProofs -----------------------
(***************************************************************************)
(* Proofs about DeviceOnboarding, for any devices, accounts, channels and  *)
(* any number of pairings, pushes, kills and restarts.                     *)
(***************************************************************************)
EXTENDS DeviceOnboarding, SequenceTheorems, WellFoundedInduction, TLAPS

\* A row is of one push: it has the password of the record that push carried,
\* and the credential it was armed with, if any, is the one typed for that push.
RowsInv ==
  \A r \in rows :
    /\ r.acc \in Accounts /\ r.push \in 1..Len(sent) /\ r.pw = sent[r.push].pw
    /\ r.salt # 0 => r.salt = r.push /\ r.escPw = sent[r.push].typed

SameKey(r, s) == r.acc = s.acc /\ r.gen = s.gen

\* A request about to arm the escrow finds its own row under its key.
HandInv ==
  \A h \in hand :
    /\ h.q \in 1..Len(sent) /\ h.row.acc \in Accounts
    /\ h.row.push = h.q /\ h.row.pw = sent[h.q].pw /\ h.row.salt = 0
    /\ h.at = "escrow" => /\ \E r \in rows : SameKey(r, h.row)
                          /\ \A r \in rows : SameKey(r, h.row) => r.push = h.q

Waits(d) == pc[d] = "await2"
Joins(d) == pc[d] \in {"post2", "await3"}

\* Every message of an initiator is sealed for one answer at most, and every
\* message of a joiner is in the hands of one device and installed once.
SealInv ==
  /\ \A d \in Devices : Waits(d) \/ Joins(d) \/ pc[d] = "post3" => work[d].ch \in Channels
  /\ \A d \in Devices : Waits(d) => /\ work[d].msg.n \in 1..(nextN - 1)
                                    /\ \A s \in sealed : s.n # work[d].msg.n
  /\ \A d, e \in Devices : Waits(d) /\ Waits(e) /\ work[d].msg.n = work[e].msg.n => d = e
  /\ \A s \in sealed : s.acc \in Accounts /\ s.n \in 1..(nextN - 1)
  /\ \A s, t \in sealed : s.n = t.n => s = t
  /\ \A d \in Devices : pc[d] = "post3" => work[d].msg \in sealed
  /\ \A c \in Channels : chan[c].slot[3] # NoMsg => chan[c].slot[3] \in sealed
JoinInv ==
  /\ \A d \in Devices : Joins(d) => /\ work[d].msg.m \in 1..(nextM - 1)
                                    /\ \A j \in joined : j.msg.m # work[d].msg.m
  /\ \A d, e \in Devices : Joins(d) /\ Joins(e) /\ work[d].msg.m = work[e].msg.m => d = e
  /\ \A j \in joined : j.msg.m \in 1..(nextM - 1) /\ [j.msg EXCEPT !.acc = j.acc] \in sealed
  /\ \A i, j \in joined : i.msg.m = j.msg.m => i = j

\* What is on disk fits, and what it is at every stage of a command.
Whole(v) == v.rec # NoRec /\ ~v.rec.torn /\ v.db # Nobody
Fits(v) ==
  /\ v.rec # NoRec => v.db # Nobody
  /\ v.open => Whole(v)
  /\ Whole(v) => v.rec.acc = v.db /\ v.rec.gen >= v.floor
AtStage(R, Q, v, s, w) ==
  /\ s = "record" => v.rec = NoRec /\ v.db = w.msg.acc /\ v.db \in Accounts /\ v.floor = 0 /\ ~v.open
  /\ s = "whole" => v.rec.torn /\ v.rec.acc = v.db /\ v.db \in Accounts /\ v.floor = 0 /\ ~v.open
  /\ s \in {"finish", "raise"} => Whole(v)
  /\ s = "send" => w.row.acc \in Accounts /\ w.row.salt = 0
  /\ s = "fetch" => w.row.acc \in Accounts /\ \E r \in R : r.acc = w.row.acc
  /\ s \in {"accept", "persist"} => w.row.acc \in Accounts /\ w.row.push \in 1..Len(Q)
  /\ s = "accept" /\ w.how = "escrow" /\ Q[w.row.push].typed = Q[w.row.push].pw => w.row.pw = w.pw
  /\ s = "persist" => v.db = w.row.acc /\ w.row.gen >= v.floor
DiskInv == \A d \in Devices : Fits(dev[d]) /\ AtStage(rows, sent, dev[d], pc[d], work[d])

IInv == TypeOK /\ RowsInv /\ HandInv /\ SealInv /\ JoinInv /\ DiskInv

-----------------------------------------------------------------------------
LEMMA Constants ==
  ASSUME OnboardingAssumption
  PROVE  /\ Nobody \in People /\ Nobody \in Words /\ Nobody \notin Accounts
         /\ NoMsg \in Messages /\ NoRec \in Records /\ NoRow \in Rows /\ NoWork \in Works /\ Blank \in Disks
<1>1. MaxPairings \in Nat /\ MaxGen \in Nat /\ MaxPushes \in Nat
  BY DEF OnboardingAssumption
<1>2. 0 \in 0..MaxPairings /\ 0 \in 0..MaxGen /\ 0 \in 0..MaxPushes
  BY <1>1
<1>3. Nobody \in People /\ Nobody \in Words /\ Nobody \notin Accounts
  BY DEF OnboardingAssumption, People, Words
<1>4. NoMsg \in Messages
  BY <1>2, <1>3 DEF NoMsg, Messages
<1>5. NoRec \in Records
  BY <1>2, <1>3 DEF NoRec, Records
<1>6. NoRow \in Rows
  BY <1>2, <1>3 DEF NoRow, Rows
<1>7. NoWork \in Works
  BY <1>2, <1>3, <1>4, <1>6 DEF NoWork, Works
<1>8. Blank \in Disks
  BY <1>2, <1>3, <1>5 DEF Blank, Disks
<1> QED BY <1>3, <1>4, <1>5, <1>6, <1>7, <1>8

LEMMA Typed ==
  ASSUME TypeOK, NEW d \in Devices
  PROVE  /\ dev[d] \in Disks /\ pc[d] \in Stages /\ work[d] \in Works
         /\ dev[d].rec \in Records /\ work[d].msg \in Messages /\ work[d].row \in Rows
<1>1. dev[d] \in Disks /\ pc[d] \in Stages /\ work[d] \in Works
  BY DEF TypeOK
<1> QED BY <1>1 DEF Disks, Works

\* The newest row is a row: a set of rows that is not empty has one of the
\* greatest generation, since generations are bounded.
LEMMA Highest ==
  ASSUME NEW N \in Nat, NEW S, S # {}, \A r \in S : r.gen \in 0..N
  PROVE  \E r \in S : \A s \in S : s.gen <= r.gen
<1> DEFINE Below == OpToRel(<, Nat)
           Gaps == {N - r.gen : r \in S}
<1>1. Gaps \subseteq Nat /\ Gaps # {}
  OBVIOUS
<1>2. \A i, k \in Nat : i < k => <<i, k>> \in Below
  BY DEF OpToRel
<1>3. IsWellFoundedOn(Below, Nat)
  BY NatLessThanWellFounded
<1> HIDE DEF Below, Gaps
<1>4. \E k \in Gaps : \A i \in Gaps : ~(<<i, k>> \in Below)
  BY <1>1, <1>3, WFMin
<1>5. PICK k \in Gaps : \A i \in Gaps : ~(<<i, k>> \in Below)
  BY <1>4
<1>6. \A i \in Gaps : k <= i
  <2> SUFFICES ASSUME NEW i \in Gaps PROVE k <= i
    OBVIOUS
  <2>1. i \in Nat /\ k \in Nat
    BY <1>1
  <2>2. ~(i < k)
    BY <1>2, <1>5, <2>1, Zenon
  <2> QED BY <2>1, <2>2
<1>7. PICK r \in S : k = N - r.gen
  BY DEF Gaps
<1>8. \A s \in S : N - r.gen <= N - s.gen
  BY <1>6, <1>7 DEF Gaps
<1> QED BY <1>8

LEMMA LatestIsARow ==
  ASSUME OnboardingAssumption, TypeOK, NEW acc, RowsOf(acc) # {}
  PROVE  Latest(acc) \in rows /\ Latest(acc).acc = acc /\ Latest(acc) \in Rows
<1>1. MaxGen \in Nat /\ \A r \in RowsOf(acc) : r.gen \in 0..MaxGen
  BY DEF OnboardingAssumption, TypeOK, RowsOf, Rows
<1>2. \E r \in RowsOf(acc) : \A s \in RowsOf(acc) : s.gen <= r.gen
  BY <1>1, Highest
<1>3. Latest(acc) \in RowsOf(acc)
  BY <1>2 DEF Latest
<1> QED BY <1>3 DEF RowsOf, TypeOK

-----------------------------------------------------------------------------
(* Steps of one device.                                                    *)

Moved(d, x, s, w) ==
  /\ dev' = [dev EXCEPT ![d] = x] /\ pc' = [pc EXCEPT ![d] = s] /\ work' = [work EXCEPT ![d] = w]

LEMMA MovedIs ==
  ASSUME TypeOK, NEW d \in Devices, NEW x \in Disks, NEW s \in Stages, NEW w \in Works, Moved(d, x, s, w)
  PROVE  /\ dev' \in [Devices -> Disks] /\ pc' \in [Devices -> Stages] /\ work' \in [Devices -> Works]
         /\ dev'[d] = x /\ pc'[d] = s /\ work'[d] = w
         /\ \A e \in Devices \ {d} : dev'[e] = dev[e] /\ pc'[e] = pc[e] /\ work'[e] = work[e]
BY DEF TypeOK, Moved

\* Rows and pushes only become more.
Grown ==
  /\ \A r \in rows : \E t \in rows' : t.acc = r.acc
  /\ Len(sent) <= Len(sent') /\ \A i \in 1..Len(sent) : sent'[i] = sent[i]

LEMMA StageKept ==
  ASSUME NEW R, NEW S, NEW Q, NEW P, Len(Q) \in Nat, Len(P) \in Nat,
         \A r \in R : \E t \in S : t.acc = r.acc,
         Len(Q) <= Len(P), \A i \in 1..Len(Q) : P[i] = Q[i],
         NEW v, NEW s, NEW w, AtStage(R, Q, v, s, w)
  PROVE  AtStage(S, P, v, s, w)
<1>1. s \in {"accept", "persist"} => w.row.push \in 1..Len(Q) /\ w.row.push \in 1..Len(P)
  BY DEF AtStage
<1>2. s = "fetch" => \E t \in S : t.acc = w.row.acc
  BY DEF AtStage
<1>3. s = "accept" /\ w.how = "escrow" /\ P[w.row.push].typed = P[w.row.push].pw => w.row.pw = w.pw
  BY <1>1 DEF AtStage
<1> QED BY <1>1, <1>2, <1>3 DEF AtStage

LEMMA DiskStep ==
  ASSUME TypeOK, DiskInv, sent' \in Seq([pw : Words, typed : Words]), Grown,
         NEW d \in Devices, NEW x \in Disks, NEW s \in Stages, NEW w \in Works, Moved(d, x, s, w),
         Fits(x), AtStage(rows', sent', x, s, w)
  PROVE  DiskInv'
<1>1. Len(sent) \in Nat /\ Len(sent') \in Nat
  BY DEF TypeOK
<1>2. ASSUME NEW e \in Devices
      PROVE  Fits(dev'[e]) /\ AtStage(rows', sent', dev'[e], pc'[e], work'[e])
  <2>1. CASE e = d
    BY <2>1, MovedIs
  <2>2. CASE e # d
    <3>1. dev'[e] = dev[e] /\ pc'[e] = pc[e] /\ work'[e] = work[e]
      BY <2>2, MovedIs
    <3>2. Fits(dev[e]) /\ AtStage(rows, sent, dev[e], pc[e], work[e])
      BY DEF DiskInv
    <3>3. AtStage(rows', sent', dev[e], pc[e], work[e])
      BY <1>1, <3>2, StageKept DEF Grown
    <3> QED BY <3>1, <3>2, <3>3
  <2> QED BY <2>1, <2>2
<1> QED BY <1>2 DEF DiskInv

\* The other devices only see more rows and pushes.
LEMMA DiskStill ==
  ASSUME TypeOK, DiskInv, sent' \in Seq([pw : Words, typed : Words]), Grown, UNCHANGED <<dev, pc, work>>
  PROVE  DiskInv'
<1>1. Len(sent) \in Nat /\ Len(sent') \in Nat
  BY DEF TypeOK
<1>2. ASSUME NEW e \in Devices
      PROVE  Fits(dev'[e]) /\ AtStage(rows', sent', dev'[e], pc'[e], work'[e])
  <2>1. Fits(dev[e]) /\ AtStage(rows, sent, dev[e], pc[e], work[e])
    BY DEF DiskInv
  <2>2. AtStage(rows', sent', dev[e], pc[e], work[e])
    BY <1>1, <2>1, StageKept DEF Grown
  <2> QED BY <2>1, <2>2
<1> QED BY <1>2 DEF DiskInv

Quiet == Stages \ {"await2", "post3", "post2", "await3"}

\* A device outside a pairing, or one that stays where it is, leaves the pairings alone.
LEMMA PairingsStay ==
  ASSUME TypeOK, SealInv, JoinInv, NEW d \in Devices, NEW x \in Disks, NEW s \in Stages, NEW w \in Works,
         Moved(d, x, s, w), s \in Quiet \/ (s = pc[d] /\ w = work[d]),
         UNCHANGED <<chan, sealed, joined, nextN, nextM>>
  PROVE  SealInv' /\ JoinInv'
<1>1. \A e \in Devices : pc'[e] \in {"await2", "post3", "post2", "await3"} => pc'[e] = pc[e] /\ work'[e] = work[e]
  BY MovedIs DEF Quiet
<1>2. SealInv'
  BY <1>1 DEF SealInv, Waits, Joins
<1>3. JoinInv'
  BY <1>1 DEF JoinInv, Joins
<1> QED BY <1>2, <1>3

LEMMA ServerStays ==
  ASSUME RowsInv, HandInv, UNCHANGED <<rows, hand, sent>>
  PROVE  RowsInv' /\ HandInv'
BY DEF RowsInv, HandInv, SameKey

\* A step of one device outside pairings that leaves the server alone.
LEMMA DeviceStep ==
  ASSUME IInv, NEW d \in Devices, NEW x \in Disks, NEW s \in Stages, NEW w \in Works, Moved(d, x, s, w),
         s \in Quiet \/ (s = pc[d] /\ w = work[d]),
         UNCHANGED <<now, serverVars, pairVars, sent>>, crashes' \in 0..MaxCrashes,
         Fits(x), AtStage(rows, sent, x, s, w)
  PROVE  IInv'
<1> USE DEF IInv
<1>1. UNCHANGED <<now, chan, rows, hand, sealed, joined, nextN, nextM, sent>>
  BY DEF serverVars, pairVars
<1>2. TypeOK'
  BY <1>1, MovedIs DEF TypeOK
<1>3. SealInv' /\ JoinInv'
  BY <1>1, PairingsStay
<1>4. RowsInv' /\ HandInv'
  BY <1>1, ServerStays
<1>5. Len(sent) \in Nat
  BY DEF TypeOK
<1>6. Grown /\ sent' \in Seq([pw : Words, typed : Words])
  BY <1>1, <1>5 DEF Grown, TypeOK
<1>7. DiskInv'
  BY <1>1, <1>6, DiskStep
<1> QED BY <1>2, <1>3, <1>4, <1>7

\* A command that starts, goes on or ends without touching the disk.
LEMMA CommandStep ==
  ASSUME OnboardingAssumption, IInv, NEW d \in Devices, NEW s \in Quiet, NEW w \in Works, Go(d, s, w),
         UNCHANGED <<now, serverVars, pairVars, dev, sent, crashes>>, AtStage(rows, sent, dev[d], s, w)
  PROVE  IInv'
<1>1. dev[d] \in Disks /\ Fits(dev[d])
  BY DEF IInv, TypeOK, DiskInv
<1>2. Moved(d, dev[d], s, w)
  BY DEF Moved, Go, IInv, TypeOK
<1>3. s \in Stages /\ crashes' \in 0..MaxCrashes
  BY DEF Quiet, IInv, TypeOK
<1> QED BY <1>1, <1>2, <1>3, DeviceStep

LEMMA Resting ==
  ASSUME NEW v, NEW w
  PROVE  AtStage(rows, sent, v, "idle", w)
BY DEF AtStage

LEMMA StopStep ==
  ASSUME OnboardingAssumption, IInv, NEW d \in Devices, Stop(d),
         UNCHANGED <<now, serverVars, pairVars, dev, sent, crashes>>
  PROVE  IInv'
<1>1. "idle" \in Quiet
  BY DEF Quiet, Stages
<1>2. NoWork \in Works
  BY Constants
<1>3. AtStage(rows, sent, dev[d], "idle", NoWork)
  BY Resting
<1> QED BY <1>1, <1>2, <1>3, CommandStep DEF Stop

LEMMA GiveUpStep ==
  ASSUME OnboardingAssumption, IInv, NEW d \in Devices, GiveUp(d)
  PROVE  IInv'
BY StopStep DEF GiveUp

LEMMA OpenIsWhole ==
  ASSUME OnboardingAssumption, IInv, NEW d \in Devices, dev[d].open
  PROVE  Whole(dev[d]) /\ dev[d].rec.acc = dev[d].db /\ dev[d].db \in Accounts
<1>1. dev[d].db \in People
  BY Typed DEF IInv, Disks
<1> QED BY <1>1 DEF IInv, DiskInv, Fits, Whole, People

LEMMA PushStep ==
  ASSUME OnboardingAssumption, IInv, NEW d \in Devices, server_keyset_push(d)
  PROVE  IInv'
<1>1. PICK p \in Passwords :
        Go(d, "send", [NoWork EXCEPT !.pw = p,
            !.row = [NoRow EXCEPT !.acc = dev[d].rec.acc, !.gen = dev[d].rec.gen, !.pw = dev[d].rec.pw]])
  BY DEF server_keyset_push
<1> DEFINE y == [NoRow EXCEPT !.acc = dev[d].rec.acc, !.gen = dev[d].rec.gen, !.pw = dev[d].rec.pw]
           w == [NoWork EXCEPT !.pw = p, !.row = y]
<1>2. dev[d].rec \in Records /\ NoRow \in Rows /\ NoWork \in Works
  BY Typed, Constants DEF IInv
<1>3. y \in Rows /\ y.acc = dev[d].rec.acc /\ y.salt = 0
  BY <1>2 DEF Rows, Records, NoRow
<1> HIDE DEF y
<1>4. w \in Works /\ w.row = y
  BY <1>2, <1>3 DEF Works, Words
<1>5. dev[d].rec.acc \in Accounts
  BY OpenIsWhole DEF server_keyset_push
<1>6. Go(d, "send", w)
  BY <1>1 DEF y
<1> HIDE DEF w
<1>7. AtStage(rows, sent, dev[d], "send", w)
  BY <1>3, <1>4, <1>5 DEF AtStage
<1>8. "send" \in Quiet
  BY DEF Quiet, Stages
<1> QED BY <1>4, <1>6, <1>7, <1>8, CommandStep DEF server_keyset_push

\* What a row of the server carries when it is taken along for an unlock.
LEMMA TakenAlong ==
  ASSUME OnboardingAssumption, IInv, NEW d \in Devices, NEW p \in Passwords, NEW r \in rows,
         NEW how \in {"pull", "import"},
         Go(d, "accept", [NoWork EXCEPT !.pw = p, !.row = r, !.how = how]),
         UNCHANGED <<now, serverVars, pairVars, dev, sent, crashes>>
  PROVE  IInv'
<1> DEFINE w == [NoWork EXCEPT !.pw = p, !.row = r, !.how = how]
<1>1. r \in Rows /\ NoWork \in Works
  BY Constants DEF IInv, TypeOK
<1>2. w \in Works /\ w.row = r /\ w.how = how
  BY <1>1 DEF Works, Words
<1> HIDE DEF w
<1>3. r.acc \in Accounts /\ r.push \in 1..Len(sent)
  BY DEF IInv, RowsInv
<1>4. AtStage(rows, sent, dev[d], "accept", w)
  BY <1>2, <1>3 DEF AtStage
<1>5. "accept" \in Quiet
  BY DEF Quiet, Stages
<1>6. Go(d, "accept", w)
  BY DEF w
<1> QED BY <1>2, <1>4, <1>5, <1>6, CommandStep

LEMMA PullStep ==
  ASSUME OnboardingAssumption, IInv, NEW d \in Devices, server_keyset_pull_and_unlock(d)
  PROVE  IInv'
<1>1. Latest(dev[d].db) \in rows
  BY LatestIsARow DEF IInv, server_keyset_pull_and_unlock
<1> QED BY <1>1, TakenAlong DEF server_keyset_pull_and_unlock

LEMMA ImportStep ==
  ASSUME OnboardingAssumption, IInv, NEW d \in Devices, server_import_keyset_and_unlock(d)
  PROVE  IInv'
BY TakenAlong DEF server_import_keyset_and_unlock

LEMMA ParamsStep ==
  ASSUME OnboardingAssumption, IInv, NEW d \in Devices, server_escrow_params(d)
  PROVE  IInv'
<1>1. PICK acc \in Accounts, p \in Passwords :
        /\ RowsOf(acc) # {}
        /\ Go(d, "fetch", [NoWork EXCEPT !.pw = p, !.salt = escrow_params(acc), !.row.acc = acc])
  BY DEF server_escrow_params
<1> DEFINE w == [NoWork EXCEPT !.pw = p, !.salt = escrow_params(acc), !.row.acc = acc]
<1>2. NoRow \in Rows /\ NoWork \in Works /\ NoWork.row = NoRow
  BY Constants DEF NoWork
<1>3. escrow_params(acc) \in 0..MaxPushes
  BY <1>1, LatestIsARow DEF escrow_params, Rows, IInv
<1>4. [NoRow EXCEPT !.acc = acc] \in Rows
  BY <1>2 DEF Rows, People
<1>5. w \in Works /\ w.row.acc = acc
  BY <1>2, <1>3, <1>4 DEF Works, Words, Rows
<1>6. \E r \in rows : r.acc = acc
  BY <1>1 DEF RowsOf
<1>7. Go(d, "fetch", w)
  BY <1>1
<1> HIDE DEF w
<1>8. AtStage(rows, sent, dev[d], "fetch", w)
  BY <1>5, <1>6 DEF AtStage
<1>9. "fetch" \in Quiet
  BY DEF Quiet, Stages
<1> QED BY <1>5, <1>7, <1>8, <1>9, CommandStep DEF server_escrow_params

\* What escrow hands out was armed by the push whose record it is.
LEMMA FetchStep ==
  ASSUME OnboardingAssumption, IInv, NEW d \in Devices, server_escrow_fetch_and_unlock(d)
  PROVE  IInv'
<1> DEFINE r == Latest(work[d].row.acc)
           w == [work[d] EXCEPT !.row = r, !.how = "escrow"]
<1>1. \E t \in rows : t.acc = work[d].row.acc
  BY DEF IInv, DiskInv, AtStage, server_escrow_fetch_and_unlock
<1>2. r \in rows /\ r \in Rows
  BY <1>1, LatestIsARow DEF IInv, RowsOf
<1>3. CASE escrow_fetch(r, work[d].pw, work[d].salt)
  <2>1. work[d] \in Works
    BY Typed DEF IInv
  <2>2. Go(d, "accept", w)
    BY <1>3 DEF server_escrow_fetch_and_unlock
  <2>3. w \in Works /\ w.row = r /\ w.pw = work[d].pw
    BY <1>2, <2>1 DEF Works
  <2>4. r.acc \in Accounts /\ r.push \in 1..Len(sent) /\ r.pw = sent[r.push].pw
        /\ r.escPw = sent[r.push].typed
    BY <1>2, <1>3 DEF IInv, RowsInv, escrow_fetch
  <2>5. r.escPw = work[d].pw
    BY <1>3 DEF escrow_fetch
  <2> HIDE DEF w, r
  <2>6. AtStage(rows, sent, dev[d], "accept", w)
    BY <2>3, <2>4, <2>5 DEF AtStage
  <2>7. "accept" \in Quiet
    BY DEF Quiet, Stages
  <2> QED BY <2>2, <2>3, <2>6, <2>7, CommandStep DEF server_escrow_fetch_and_unlock
<1>4. CASE ~escrow_fetch(r, work[d].pw, work[d].salt)
  BY <1>4, StopStep DEF server_escrow_fetch_and_unlock
<1> QED BY <1>3, <1>4

-----------------------------------------------------------------------------
(* Steps that write to the disk.                                           *)

LEMMA AcceptStep ==
  ASSUME OnboardingAssumption, IInv, NEW d \in Devices, unlock_from_server_blob(d)
  PROVE  IInv'
<1> DEFINE v == dev[d]
           w == work[d]
           x == [dev[d] EXCEPT !.db = work[d].row.acc]
<1>1. v \in Disks /\ w \in Works /\ w.row \in Rows
  BY Typed DEF IInv
<1>2. Fits(v) /\ AtStage(rows, sent, v, "accept", w)
  BY DEF IInv, DiskInv, unlock_from_server_blob
<1>3. CASE w.row.pw = w.pw /\ OpensHere(d, w.row)
  <2>1. x \in Disks /\ x.db = w.row.acc /\ x.rec = v.rec /\ x.open = v.open /\ x.floor = v.floor
    BY <1>1 DEF Disks, Rows
  <2>2. dev' = [dev EXCEPT ![d] = x]
    BY <1>3 DEF unlock_from_server_blob
  <2>3. w.row.acc \in Accounts /\ w.row.acc # Nobody
    BY <1>2, Constants DEF AtStage
  <2>4. Fits(x)
    BY <1>2, <1>3, <2>1, <2>3 DEF Fits, Whole, OpensHere
  <2>5. crashes' \in 0..MaxCrashes
    BY DEF IInv, TypeOK, unlock_from_server_blob
  <2> HIDE DEF x
  <2>6. CASE w.row.gen < v.floor
    <3>1. Moved(d, x, "idle", NoWork)
      BY <1>3, <2>2, <2>6 DEF Moved, unlock_from_server_blob, Stop, Go
    <3>2. "idle" \in Quiet /\ "idle" \in Stages /\ NoWork \in Works
      BY Constants DEF Quiet, Stages
    <3>3. AtStage(rows, sent, x, "idle", NoWork)
      BY Resting
    <3> QED BY <2>1, <2>4, <2>5, <3>1, <3>2, <3>3, DeviceStep DEF unlock_from_server_blob
  <2>7. CASE ~(w.row.gen < v.floor)
    <3>1. Moved(d, x, "persist", w)
      BY <1>3, <2>2, <2>7 DEF Moved, unlock_from_server_blob, Go
    <3>2. "persist" \in Quiet /\ "persist" \in Stages
      BY DEF Quiet, Stages
    <3>3. w.row.gen \in Nat /\ v.floor \in Nat
      BY <1>1 DEF Rows, Disks
    <3>4. AtStage(rows, sent, x, "persist", w)
      BY <1>2, <2>1, <2>7, <3>3 DEF AtStage
    <3> QED BY <1>1, <2>1, <2>4, <2>5, <3>1, <3>2, <3>4, DeviceStep DEF unlock_from_server_blob
  <2> QED BY <2>6, <2>7
<1>4. CASE ~(w.row.pw = w.pw /\ OpensHere(d, w.row))
  BY <1>4, StopStep DEF unlock_from_server_blob
<1> QED BY <1>3, <1>4

LEMMA PersistStep ==
  ASSUME OnboardingAssumption, IInv, NEW d \in Devices, PersistRecord(d)
  PROVE  IInv'
<1> DEFINE v == dev[d]
           w == work[d]
           r == [acc |-> work[d].row.acc, pw |-> work[d].row.pw, gen |-> work[d].row.gen, torn |-> FALSE]
           x == [dev[d] EXCEPT !.rec = r]
<1>1. v \in Disks /\ w \in Works /\ w.row \in Rows
  BY Typed DEF IInv
<1>2. Fits(v) /\ AtStage(rows, sent, v, "persist", w)
  BY DEF IInv, DiskInv, PersistRecord
<1>3. r \in Records /\ r.acc = w.row.acc /\ r.gen = w.row.gen /\ ~r.torn
  BY <1>1 DEF Records, Rows
<1>4. dev' = [dev EXCEPT ![d] = x]
  BY DEF PersistRecord
<1> HIDE DEF r
<1>5. x \in Disks /\ x.db = v.db /\ x.rec = r /\ x.floor = v.floor
  BY <1>1, <1>3 DEF Disks
<1>6. Moved(d, x, "raise", w)
  BY <1>4 DEF Moved, PersistRecord, Go
<1> HIDE DEF x
<1>7. w.row.acc \in Accounts /\ w.row.acc # Nobody /\ v.db = w.row.acc /\ w.row.gen >= v.floor
  BY <1>2, Constants DEF AtStage
<1>8. r # NoRec
  BY <1>3, <1>7 DEF NoRec
<1>9. Whole(x) /\ Fits(x)
  BY <1>3, <1>5, <1>7, <1>8 DEF Whole, Fits
<1>10. AtStage(rows, sent, x, "raise", w)
  BY <1>9 DEF AtStage
<1>11. "raise" \in Quiet /\ "raise" \in Stages /\ crashes' \in 0..MaxCrashes
  BY DEF Quiet, Stages, IInv, TypeOK, PersistRecord
<1> QED BY <1>1, <1>5, <1>6, <1>9, <1>10, <1>11, DeviceStep DEF PersistRecord

LEMMA FinishStep ==
  ASSUME OnboardingAssumption, IInv, NEW d \in Devices, Whole(dev[d]), Finish(d, dev[d].rec)
  PROVE  IInv'
<1> DEFINE v == dev[d]
           f == IF dev[d].rec.gen > dev[d].floor THEN dev[d].rec.gen ELSE dev[d].floor
<1>1. PICK k \in SaveKey(d, v.rec.acc) :
        dev' = [dev EXCEPT ![d].floor = IF v.rec.gen > @ THEN v.rec.gen ELSE @, ![d].open = TRUE, ![d].sk = k]
  BY DEF Finish
<1>2. v \in Disks /\ v.rec \in Records
  BY Typed DEF IInv
<1>3. k \in People
  BY <1>2 DEF SaveKey, Disks, Records
<1>4. v.rec.gen \in 0..MaxGen /\ v.floor \in 0..MaxGen
  BY <1>2 DEF Disks, Records
<1>5. f \in 0..MaxGen
  BY <1>4
<1>6. dev' = [dev EXCEPT ![d] = [dev[d] EXCEPT !.floor = f, !.open = TRUE, !.sk = k]]
  BY <1>1, <1>2 DEF IInv, TypeOK
<1>7. Fits(v)
  BY DEF IInv, DiskInv
<1>8. v.rec.gen >= f
  BY <1>4, <1>7 DEF Fits
<1> HIDE DEF f
<1> DEFINE x == [dev[d] EXCEPT !.floor = f, !.open = TRUE, !.sk = k]
<1>9. x \in Disks /\ x.rec = v.rec /\ x.db = v.db /\ x.floor = f
  BY <1>2, <1>3, <1>5 DEF Disks
<1>10. Moved(d, x, "idle", NoWork)
  BY <1>6 DEF Moved, Finish, Stop, Go
<1> HIDE DEF x
<1>11. Fits(x)
  BY <1>7, <1>8, <1>9 DEF Fits, Whole
<1>12. "idle" \in Quiet /\ "idle" \in Stages /\ NoWork \in Works /\ crashes' \in 0..MaxCrashes
  BY Constants DEF Quiet, Stages, IInv, TypeOK, Finish
<1>13. AtStage(rows, sent, x, "idle", NoWork)
  BY Resting
<1> QED BY <1>9, <1>10, <1>11, <1>12, <1>13, DeviceStep DEF Finish

LEMMA EndStep ==
  ASSUME OnboardingAssumption, IInv, NEW d \in Devices, FinishInstall(d) \/ RaiseFloor(d)
  PROVE  IInv'
<1>1. Whole(dev[d])
  BY DEF IInv, DiskInv, AtStage, FinishInstall, RaiseFloor
<1> QED BY <1>1, FinishStep DEF FinishInstall, RaiseFloor

LEMMA CreateStep ==
  ASSUME OnboardingAssumption, IInv, NEW d \in Devices, CreateRecord(d)
  PROVE  IInv'
<1> DEFINE v == dev[d]
           w == work[d]
           r == [acc |-> work[d].msg.acc, pw |-> work[d].pw, gen |-> 1, torn |-> TRUE]
           x == [dev[d] EXCEPT !.rec = r]
           z == [dev[d] EXCEPT !.db = Nobody]
<1>1. v \in Disks /\ w \in Works /\ w.msg \in Messages
  BY Typed DEF IInv
<1>2. AtStage(rows, sent, v, "record", w)
  BY DEF IInv, DiskInv, CreateRecord
<1>3. v.rec = NoRec /\ v.db = w.msg.acc /\ v.db \in Accounts /\ v.floor = 0 /\ ~v.open /\ v.db # Nobody
  BY <1>2, Constants DEF AtStage
<1>4. crashes' \in 0..MaxCrashes
  BY DEF IInv, TypeOK, CreateRecord
<1>5. CASE dev' = [dev EXCEPT ![d].rec = r] /\ Go(d, "whole", w)
  <2>1. 1 \in 0..MaxGen
    BY DEF OnboardingAssumption
  <2>2. r \in Records /\ r.torn /\ r.acc = w.msg.acc
    BY <1>1, <2>1 DEF Records, Works, Messages
  <2>3. dev' = [dev EXCEPT ![d] = x]
    BY <1>5
  <2> HIDE DEF r
  <2>4. x \in Disks /\ x.rec = r /\ x.db = v.db /\ x.floor = v.floor /\ x.open = v.open
    BY <1>1, <2>2 DEF Disks
  <2> HIDE DEF x
  <2>5. Fits(x) /\ AtStage(rows, sent, x, "whole", w)
    BY <1>3, <2>2, <2>4 DEF Fits, Whole, AtStage
  <2>6. Moved(d, x, "whole", w)
    BY <1>5, <2>3 DEF Moved, Go
  <2>7. "whole" \in Quiet /\ "whole" \in Stages
    BY DEF Quiet, Stages
  <2> QED BY <1>1, <1>4, <2>4, <2>5, <2>6, <2>7, DeviceStep DEF CreateRecord
<1>6. CASE dev' = [dev EXCEPT ![d].db = Nobody] /\ Stop(d)
  <2>1. dev' = [dev EXCEPT ![d] = z]
    BY <1>6
  <2>2. z \in Disks /\ z.rec = v.rec /\ z.db = Nobody /\ z.open = v.open
    BY <1>1, Constants DEF Disks
  <2>3. Moved(d, z, "idle", NoWork)
    BY <1>6, <2>1 DEF Moved, Stop, Go
  <2> HIDE DEF z
  <2>4. Fits(z)
    BY <1>3, <2>2 DEF Fits, Whole
  <2>5. "idle" \in Quiet /\ "idle" \in Stages /\ NoWork \in Works
    BY Constants DEF Quiet, Stages
  <2>6. AtStage(rows, sent, z, "idle", NoWork)
    BY Resting
  <2> QED BY <1>4, <2>2, <2>3, <2>4, <2>5, <2>6, DeviceStep DEF CreateRecord
<1> QED BY <1>5, <1>6 DEF CreateRecord

LEMMA MadeWhole ==
  ASSUME NEW r \in Records
  PROVE  LET t == [r EXCEPT !.torn = FALSE] IN t \in Records /\ ~t.torn /\ t.acc = r.acc /\ t.gen \in Nat
<1>1. [r EXCEPT !.torn = FALSE] \in Records
  BY DEF Records
<1>2. ~[r EXCEPT !.torn = FALSE].torn
  BY DEF Records
<1>3. [r EXCEPT !.torn = FALSE].acc = r.acc
  BY DEF Records
<1>4. [r EXCEPT !.torn = FALSE].gen \in Nat
  BY DEF Records
<1> QED BY <1>1, <1>2, <1>3, <1>4

LEMMA WriteStep ==
  ASSUME OnboardingAssumption, IInv, NEW d \in Devices, WriteRecord(d)
  PROVE  IInv'
<1> DEFINE v == dev[d]
           w == work[d]
           r == [dev[d].rec EXCEPT !.torn = FALSE]
           x == [dev[d] EXCEPT !.rec = r]
           z == [dev[d] EXCEPT !.rec = NoRec, !.db = Nobody]
<1>1. v \in Disks /\ w \in Works /\ v.rec \in Records
  BY Typed DEF IInv
<1>2. AtStage(rows, sent, v, "whole", w)
  BY DEF IInv, DiskInv, WriteRecord
<1>3. v.rec.acc = v.db /\ v.db \in Accounts /\ v.floor = 0 /\ ~v.open /\ v.db # Nobody
  BY <1>2, Constants DEF AtStage
<1>4. crashes' \in 0..MaxCrashes
  BY DEF IInv, TypeOK, WriteRecord
<1>5. CASE dev' = [dev EXCEPT ![d].rec.torn = FALSE] /\ Go(d, "finish", w)
  <2>1. r \in Records /\ ~r.torn /\ r.acc = v.rec.acc /\ r.gen \in Nat
    BY <1>1, MadeWhole
  <2>2. dev' = [dev EXCEPT ![d] = x]
    BY <1>5
  <2> HIDE DEF r
  <2>3. x \in Disks /\ x.rec = r /\ x.db = v.db /\ x.floor = v.floor /\ x.open = v.open
    BY <1>1, <2>1 DEF Disks
  <2>4. r # NoRec
    BY <1>3, <2>1 DEF NoRec
  <2>5. Moved(d, x, "finish", w)
    BY <1>5, <2>2 DEF Moved, Go
  <2> HIDE DEF x
  <2>6. Whole(x) /\ Fits(x)
    BY <1>3, <2>1, <2>3, <2>4 DEF Fits, Whole
  <2>7. AtStage(rows, sent, x, "finish", w)
    BY <2>6 DEF AtStage
  <2>8. "finish" \in Quiet /\ "finish" \in Stages
    BY DEF Quiet, Stages
  <2> QED BY <1>1, <1>4, <2>3, <2>5, <2>6, <2>7, <2>8, DeviceStep DEF WriteRecord
<1>6. CASE dev' = [dev EXCEPT ![d].rec = NoRec, ![d].db = Nobody] /\ Stop(d)
  <2>1. dev' = [dev EXCEPT ![d] = z]
    BY <1>1, <1>6 DEF IInv, TypeOK
  <2>2. z \in Disks /\ z.rec = NoRec /\ z.db = Nobody /\ z.open = v.open
    BY <1>1, Constants DEF Disks
  <2>3. Moved(d, z, "idle", NoWork)
    BY <1>6, <2>1 DEF Moved, Stop, Go
  <2> HIDE DEF z
  <2>4. Fits(z)
    BY <1>3, <2>2 DEF Fits, Whole
  <2>5. "idle" \in Quiet /\ "idle" \in Stages /\ NoWork \in Works
    BY Constants DEF Quiet, Stages
  <2>6. AtStage(rows, sent, z, "idle", NoWork)
    BY Resting
  <2> QED BY <1>4, <2>2, <2>3, <2>4, <2>5, <2>6, DeviceStep DEF WriteRecord
<1> QED BY <1>5, <1>6 DEF WriteRecord

LEMMA LockStep ==
  ASSUME OnboardingAssumption, IInv, NEW d \in Devices, LockDevice(d)
  PROVE  IInv'
<1> DEFINE v == dev[d]
           x == [dev[d] EXCEPT !.open = FALSE]
<1>1. v \in Disks /\ pc[d] \in Stages /\ work[d] \in Works
  BY Typed DEF IInv
<1>2. Fits(v) /\ AtStage(rows, sent, v, pc[d], work[d])
  BY DEF IInv, DiskInv
<1>3. x \in Disks /\ ~x.open
  BY <1>1 DEF Disks
<1>4. x.db = v.db /\ x.rec = v.rec /\ x.floor = v.floor
  BY <1>1 DEF Disks
<1>5. Moved(d, x, pc[d], work[d])
  BY DEF Moved, LockDevice, DeviceOnly, IInv, TypeOK
<1> HIDE DEF x
<1>6. Fits(x) /\ AtStage(rows, sent, x, pc[d], work[d])
  BY <1>2, <1>3, <1>4 DEF Fits, Whole, AtStage
<1>7. crashes' \in 0..MaxCrashes
  BY DEF IInv, TypeOK, LockDevice, DeviceOnly
<1> QED BY <1>1, <1>3, <1>5, <1>6, <1>7, DeviceStep DEF LockDevice, DeviceOnly

\* Between commands of the disk the stage says nothing of it.
LEMMA BetweenStages ==
  ASSUME NEW d \in Devices, Between(d), NEW v, NEW x, AtStage(rows, sent, v, pc[d], work[d])
  PROVE  AtStage(rows, sent, x, pc[d], work[d])
BY DEF Between, AtStage

LEMMA UnlockStep ==
  ASSUME OnboardingAssumption, IInv, NEW d \in Devices, UnlockDevice(d)
  PROVE  IInv'
<1> DEFINE v == dev[d]
           x == [dev[d] EXCEPT !.open = TRUE, !.floor = dev[d].rec.gen]
<1>1. v \in Disks /\ pc[d] \in Stages /\ work[d] \in Works /\ v.rec \in Records
  BY Typed DEF IInv
<1>2. Fits(v) /\ AtStage(rows, sent, v, pc[d], work[d])
  BY DEF IInv, DiskInv
<1>3. v.rec.gen \in 0..MaxGen
  BY <1>1 DEF Records
<1>4. x \in Disks /\ x.db = v.db /\ x.rec = v.rec /\ x.floor = v.rec.gen
  BY <1>1, <1>3 DEF Disks
<1>5. Moved(d, x, pc[d], work[d])
  BY <1>1 DEF Moved, UnlockDevice, DeviceOnly, IInv, TypeOK
<1> HIDE DEF x
<1>6. Whole(v)
  BY DEF UnlockDevice, Usable, Whole
<1>7. Fits(x)
  BY <1>2, <1>3, <1>4, <1>6 DEF Fits, Whole
<1>8. AtStage(rows, sent, x, pc[d], work[d])
  BY <1>2, BetweenStages DEF UnlockDevice
<1>9. crashes' \in 0..MaxCrashes
  BY DEF IInv, TypeOK, UnlockDevice, DeviceOnly
<1> QED BY <1>1, <1>4, <1>5, <1>7, <1>8, <1>9, DeviceStep DEF UnlockDevice, DeviceOnly

LEMMA ChangeStep ==
  ASSUME OnboardingAssumption, IInv, NEW d \in Devices, change_password(d)
  PROVE  IInv'
<1> DEFINE v == dev[d]
           g == dev[d].rec.gen + 1
<1>1. v \in Disks /\ pc[d] \in Stages /\ work[d] \in Works /\ v.rec \in Records
  BY Typed DEF IInv
<1>2. Fits(v) /\ AtStage(rows, sent, v, pc[d], work[d])
  BY DEF IInv, DiskInv
<1>3. PICK p \in Passwords :
        dev' = [dev EXCEPT ![d].rec.pw = p, ![d].rec.gen = @ + 1, ![d].floor = dev[d].rec.gen + 1]
  BY DEF change_password
<1>4. v.rec.gen \in 0..MaxGen /\ v.rec.gen < MaxGen /\ MaxGen \in Nat
  BY <1>1 DEF Records, change_password, OnboardingAssumption
<1>5. g \in 0..MaxGen
  BY <1>4
<1> DEFINE r == [dev[d].rec EXCEPT !.pw = p, !.gen = g]
           x == [dev[d] EXCEPT !.rec = r, !.floor = g]
<1>6. dev' = [dev EXCEPT ![d] = x]
  BY <1>1, <1>3 DEF IInv, TypeOK, Disks, Records
<1> HIDE DEF g
<1>7. r \in Records /\ r.acc = v.rec.acc /\ r.gen = g
  BY <1>1, <1>5 DEF Records, Words
<1>8. r.torn = v.rec.torn
  BY <1>1 DEF Records
<1> HIDE DEF r
<1>9. x \in Disks /\ x.db = v.db /\ x.rec = r /\ x.floor = g
  BY <1>1, <1>5, <1>7 DEF Disks
<1>10. Moved(d, x, pc[d], work[d])
  BY <1>6 DEF Moved, change_password, DeviceOnly, IInv, TypeOK
<1> HIDE DEF x
<1>11. Whole(v) /\ v.rec.acc = v.db /\ v.db # Nobody
  BY OpenIsWhole, Constants DEF change_password
<1>12. r # NoRec
  BY <1>7, <1>11 DEF NoRec
<1>13. Fits(x)
  BY <1>5, <1>7, <1>8, <1>9, <1>11, <1>12 DEF Fits, Whole
<1>14. AtStage(rows, sent, x, pc[d], work[d])
  BY <1>2, BetweenStages DEF change_password
<1>15. crashes' \in 0..MaxCrashes
  BY DEF IInv, TypeOK, change_password, DeviceOnly
<1> QED BY <1>1, <1>9, <1>10, <1>13, <1>14, <1>15, DeviceStep DEF change_password, DeviceOnly

LEMMA KillStep ==
  ASSUME OnboardingAssumption, IInv, NEW d \in Devices, KillDevice(d)
  PROVE  IInv'
<1> DEFINE v == dev[d]
           x == [dev[d] EXCEPT !.open = FALSE]
<1>1. v \in Disks /\ Fits(v)
  BY Typed DEF IInv, DiskInv
<1>2. x \in Disks /\ ~x.open
  BY <1>1 DEF Disks
<1>3. x.db = v.db /\ x.rec = v.rec /\ x.floor = v.floor
  BY <1>1 DEF Disks
<1>4. Moved(d, x, "idle", NoWork)
  BY DEF Moved, KillDevice, Stop, Go
<1> HIDE DEF x
<1>5. Fits(x)
  BY <1>1, <1>2, <1>3 DEF Fits, Whole
<1>6. "idle" \in Quiet /\ "idle" \in Stages /\ NoWork \in Works
  BY Constants DEF Quiet, Stages
<1>7. AtStage(rows, sent, x, "idle", NoWork)
  BY Resting
<1>8. crashes \in 0..MaxCrashes /\ crashes < MaxCrashes /\ MaxCrashes \in Nat /\ crashes' = crashes + 1
  BY DEF IInv, TypeOK, KillDevice, OnboardingAssumption
<1>9. crashes' \in 0..MaxCrashes
  BY <1>8
<1> QED BY <1>2, <1>4, <1>5, <1>6, <1>7, <1>9, DeviceStep DEF KillDevice

-----------------------------------------------------------------------------
(* The steps of a pairing.                                                 *)

LEMMA PairStep ==
  ASSUME IInv, NEW d \in Devices, NEW x \in Disks, NEW s \in Stages, NEW w \in Works, Moved(d, x, s, w),
         UNCHANGED <<now, rows, hand, sent, crashes>>, chan' \in [Channels -> Chans], sealed' \subseteq Messages,
         joined' \subseteq [dev : Devices, msg : Messages, acc : People],
         nextN' \in 1..MaxPairings + 1, nextM' \in 1..MaxPairings + 1,
         Fits(x), AtStage(rows, sent, x, s, w), SealInv', JoinInv'
  PROVE  IInv'
<1> USE DEF IInv
<1>1. TypeOK'
  BY MovedIs DEF TypeOK
<1>2. RowsInv' /\ HandInv'
  BY ServerStays
<1>3. Len(sent) \in Nat
  BY DEF TypeOK
<1>4. Grown /\ sent' \in Seq([pw : Words, typed : Words])
  BY <1>3 DEF Grown, TypeOK
<1>5. DiskInv'
  BY <1>4, DiskStep
<1> QED BY <1>1, <1>2, <1>5

\* What the three posts leave in the last slot.
LEMMA RelayPut ==
  ASSUME TypeOK, NEW c \in Channels, NEW msg \in Messages
  PROVE  /\ relay_put_slot(c, 1, msg) \/ relay_put_slot(c, 2, msg) =>
              /\ chan' \in [Channels -> Chans]
              /\ \A b \in Channels : chan'[b].slot[3] = chan[b].slot[3]
         /\ relay_put_slot(c, 3, msg) =>
              /\ chan' \in [Channels -> Chans]
              /\ \A b \in Channels : chan'[b].slot[3] = IF b = c THEN msg ELSE chan[b].slot[3]
<1>1. \A k \in 1..3 : relay_put_slot(c, k, msg) =>
        /\ chan' \in [Channels -> Chans]
        /\ \A b \in Channels, i \in 1..3 :
             chan'[b].slot[i] = IF b = c /\ i = k THEN msg ELSE chan[b].slot[i]
  <2> SUFFICES ASSUME NEW k \in 1..3, relay_put_slot(c, k, msg)
      PROVE  /\ chan' \in [Channels -> Chans]
             /\ \A b \in Channels, i \in 1..3 :
                  chan'[b].slot[i] = IF b = c /\ i = k THEN msg ELSE chan[b].slot[i]
    OBVIOUS
  <2> DEFINE f == [chan[c].slot EXCEPT ![k] = msg]
             y == [chan[c] EXCEPT !.slot = f]
  <2>1. chan[c] \in Chans /\ chan[c].slot \in [1..3 -> Messages]
    BY DEF TypeOK, Chans
  <2>2. f \in [1..3 -> Messages] /\ \A i \in 1..3 : f[i] = IF i = k THEN msg ELSE chan[c].slot[i]
    BY <2>1
  <2>3. chan' = [chan EXCEPT ![c] = y]
    BY DEF relay_put_slot
  <2> HIDE DEF f
  <2>4. y \in Chans /\ y.slot = f
    BY <2>1, <2>2 DEF Chans
  <2> HIDE DEF y
  <2>5. chan' \in [Channels -> Chans] /\ chan'[c] = y /\ \A b \in Channels \ {c} : chan'[b] = chan[b]
    BY <2>3, <2>4 DEF TypeOK
  <2> QED BY <2>2, <2>4, <2>5
<1>2. 1 \in 1..3 /\ 2 \in 1..3 /\ 3 \in 1..3
  OBVIOUS
<1> QED BY <1>1, <1>2

LEMMA NextMessage ==
  ASSUME OnboardingAssumption, NEW n \in 1..MaxPairings + 1, n <= MaxPairings
  PROVE  n \in 0..MaxPairings /\ n + 1 \in 1..MaxPairings + 1 /\ n \in 1..(n + 1) - 1
<1>1. MaxPairings \in Nat
  BY DEF OnboardingAssumption
<1> QED BY <1>1

LEMMA InitiateStep ==
  ASSUME OnboardingAssumption, IInv, NEW d \in Devices, server_onboard_initiate(d)
  PROVE  IInv'
<1>1. PICK c \in Channels :
        chan' = [chan EXCEPT ![c].st = "open", ![c].by = d, ![c].exp = now + RelayTTL]
  BY DEF server_onboard_initiate
<1>2. chan[c] \in Chans
  BY DEF IInv, TypeOK
<1>3. now + RelayTTL \in Nat
  BY DEF IInv, TypeOK, OnboardingAssumption
<1> DEFINE y == [chan[c] EXCEPT !.st = "open", !.by = d, !.exp = now + RelayTTL]
<1>4. chan' = [chan EXCEPT ![c] = y]
  BY <1>1, <1>2 DEF IInv, TypeOK
<1>5. y \in Chans /\ y.slot = chan[c].slot
  BY <1>2, <1>3 DEF Chans
<1> HIDE DEF y
<1>6. chan' \in [Channels -> Chans] /\ \A b \in Channels : chan'[b].slot = chan[b].slot
  BY <1>4, <1>5 DEF IInv, TypeOK
<1>7. dev[d] \in Disks /\ pc[d] \in Stages /\ work[d] \in Works
  BY Typed DEF IInv
<1>8. Moved(d, dev[d], pc[d], work[d])
  BY DEF Moved, server_onboard_initiate, IInv, TypeOK
<1>9. UNCHANGED <<now, rows, hand, sent, crashes, pc, work, sealed, joined, nextN, nextM>>
  BY DEF server_onboard_initiate, pairVars
<1>10. SealInv'
  BY <1>6, <1>9 DEF IInv, SealInv, Waits, Joins
<1>11. JoinInv'
  BY <1>9 DEF IInv, JoinInv, Joins
<1>12. Fits(dev[d]) /\ AtStage(rows, sent, dev[d], pc[d], work[d])
  BY DEF IInv, DiskInv
<1>13. /\ sealed' \subseteq Messages /\ joined' \subseteq [dev : Devices, msg : Messages, acc : People]
       /\ nextN' \in 1..MaxPairings + 1 /\ nextM' \in 1..MaxPairings + 1
  BY <1>9 DEF IInv, TypeOK
<1> QED BY <1>6, <1>7, <1>8, <1>9, <1>10, <1>11, <1>12, <1>13, PairStep

\* The message of a new attempt is one nobody has sealed for.
LEMMA CompleteStep ==
  ASSUME OnboardingAssumption, IInv, NEW d \in Devices, initiator_complete(d)
  PROVE  IInv'
<1> DEFINE msg == [NoMsg EXCEPT !.n = nextN]
<1>1. PICK c \in Channels :
        relay_put_slot(c, 1, msg) /\ Go(d, "await2", [NoWork EXCEPT !.ch = c, !.msg = msg])
  BY DEF initiator_complete
<1>2. nextN \in 1..MaxPairings + 1 /\ nextN <= MaxPairings /\ nextN' = nextN + 1 /\ nextN \in Nat
  BY DEF IInv, TypeOK, initiator_complete
<1>3. nextN \in 0..MaxPairings /\ nextN' \in 1..MaxPairings + 1
  BY <1>2, NextMessage
<1>4. NoMsg \in Messages /\ NoWork \in Works
  BY Constants
<1>5. msg \in Messages /\ msg.n = nextN
  BY <1>3, <1>4 DEF Messages
<1> HIDE DEF msg
<1> DEFINE w == [NoWork EXCEPT !.ch = c, !.msg = msg]
<1>6. w \in Works /\ w.msg = msg /\ w.ch = c
  BY <1>4, <1>5 DEF Works
<1> HIDE DEF w
<1>7. Go(d, "await2", w) /\ relay_put_slot(c, 1, msg)
  BY <1>1 DEF w
<1>8. /\ chan' \in [Channels -> Chans]
      /\ \A b \in Channels : chan'[b].slot[3] = chan[b].slot[3]
  BY <1>5, <1>7, RelayPut DEF IInv
<1>9. dev[d] \in Disks /\ Moved(d, dev[d], "await2", w) /\ "await2" \in Stages
  <2>1. dev' = [dev EXCEPT ![d] = dev[d]] /\ dev[d] \in Disks
    BY DEF initiator_complete, IInv, TypeOK
  <2> QED BY <1>7, <2>1 DEF Moved, Go, Stages
<1>10. UNCHANGED <<now, rows, hand, sent, crashes, sealed, joined, nextM>>
  BY DEF initiator_complete
<1>11. /\ pc'[d] = "await2" /\ work'[d] = w
       /\ \A e \in Devices \ {d} : pc'[e] = pc[e] /\ work'[e] = work[e]
  BY <1>6, <1>9, MovedIs DEF IInv
<1>12. \A n \in 1..(nextN - 1) : n \in 1..(nextN' - 1) /\ n # nextN
  BY <1>2
<1>13. nextN \in 1..(nextN' - 1)
  BY <1>2
<1>14. SealInv'
  <2>1. \A e \in Devices : (Waits(e) \/ Joins(e) \/ pc[e] = "post3")' => work'[e].ch \in Channels
    BY <1>6, <1>11 DEF IInv, SealInv, Waits, Joins
  <2>2. \A e \in Devices : Waits(e)' => /\ work'[e].msg.n \in 1..(nextN' - 1)
                                        /\ \A t \in sealed' : t.n # work'[e].msg.n
    BY <1>5, <1>6, <1>10, <1>11, <1>12, <1>13 DEF IInv, SealInv, Waits
  <2>3. \A e, f \in Devices : Waits(e)' /\ Waits(f)' /\ work'[e].msg.n = work'[f].msg.n => e = f
    BY <1>5, <1>6, <1>11, <1>12 DEF IInv, SealInv, Waits
  <2>4. \A e \in Devices : pc'[e] = "post3" => work'[e].msg \in sealed'
    BY <1>10, <1>11 DEF IInv, SealInv
  <2> QED BY <1>8, <1>10, <1>12, <2>1, <2>2, <2>3, <2>4 DEF IInv, SealInv
<1>15. JoinInv'
  BY <1>10, <1>11 DEF IInv, JoinInv, Joins
<1>16. Fits(dev[d]) /\ AtStage(rows, sent, dev[d], "await2", w)
  BY DEF IInv, DiskInv, AtStage
<1>17. /\ sealed' \subseteq Messages /\ joined' \subseteq [dev : Devices, msg : Messages, acc : People]
       /\ nextM' \in 1..MaxPairings + 1
  BY <1>10 DEF IInv, TypeOK
<1> QED BY <1>3, <1>6, <1>8, <1>9, <1>10, <1>14, <1>15, <1>16, <1>17, PairStep

\* The message of a joiner is its own.
LEMMA JoinStep ==
  ASSUME OnboardingAssumption, IInv, NEW d \in Devices, responder_join(d)
  PROVE  IInv'
<1>1. PICK c \in Channels, p \in Passwords :
        Go(d, "post2", [NoWork EXCEPT !.ch = c, !.pw = p, !.msg = [chan[c].slot[1] EXCEPT !.m = nextM]])
  BY DEF responder_join
<1> DEFINE msg == [chan[c].slot[1] EXCEPT !.m = nextM]
<1>2. nextM \in 1..MaxPairings + 1 /\ nextM <= MaxPairings /\ nextM' = nextM + 1 /\ nextM \in Nat
  BY DEF IInv, TypeOK, responder_join
<1>3. nextM \in 0..MaxPairings /\ nextM' \in 1..MaxPairings + 1
  BY <1>2, NextMessage
<1>4. chan[c].slot[1] \in Messages /\ NoWork \in Works
  BY Constants DEF IInv, TypeOK, Chans
<1>5. msg \in Messages /\ msg.m = nextM
  BY <1>3, <1>4 DEF Messages
<1> HIDE DEF msg
<1> DEFINE w == [NoWork EXCEPT !.ch = c, !.pw = p, !.msg = msg]
<1>6. w \in Works /\ w.msg = msg /\ w.ch = c
  BY <1>4, <1>5 DEF Works, Words
<1> HIDE DEF w
<1>7. Go(d, "post2", w)
  BY <1>1 DEF w, msg
<1>8. dev[d] \in Disks /\ Moved(d, dev[d], "post2", w) /\ "post2" \in Stages
  <2>1. dev' = [dev EXCEPT ![d] = dev[d]] /\ dev[d] \in Disks
    BY DEF responder_join, IInv, TypeOK
  <2> QED BY <1>7, <2>1 DEF Moved, Go, Stages
<1>9. UNCHANGED <<now, chan, rows, hand, sent, crashes, sealed, joined, nextN>>
  BY DEF responder_join, serverVars
<1>10. /\ pc'[d] = "post2" /\ work'[d] = w
       /\ \A e \in Devices \ {d} : pc'[e] = pc[e] /\ work'[e] = work[e]
  BY <1>6, <1>8, MovedIs DEF IInv
<1>11. \A n \in 1..(nextM - 1) : n \in 1..(nextM' - 1) /\ n # nextM
  BY <1>2
<1>12. nextM \in 1..(nextM' - 1)
  BY <1>2
<1>13. SealInv'
  BY <1>6, <1>9, <1>10 DEF IInv, SealInv, Waits, Joins
<1>14. JoinInv'
  <2>1. \A e \in Devices : Joins(e)' => /\ work'[e].msg.m \in 1..(nextM' - 1)
                                        /\ \A j \in joined' : j.msg.m # work'[e].msg.m
    BY <1>5, <1>6, <1>9, <1>10, <1>11, <1>12 DEF IInv, JoinInv, Joins
  <2>2. \A e, f \in Devices : Joins(e)' /\ Joins(f)' /\ work'[e].msg.m = work'[f].msg.m => e = f
    BY <1>5, <1>6, <1>10, <1>11 DEF IInv, JoinInv, Joins
  <2> QED BY <1>9, <1>11, <2>1, <2>2 DEF IInv, JoinInv
<1>15. Fits(dev[d]) /\ AtStage(rows, sent, dev[d], "post2", w)
  BY DEF IInv, DiskInv, AtStage
<1>16. /\ chan' \in [Channels -> Chans] /\ sealed' \subseteq Messages
       /\ joined' \subseteq [dev : Devices, msg : Messages, acc : People] /\ nextN' \in 1..MaxPairings + 1
  BY <1>9 DEF IInv, TypeOK
<1> QED BY <1>3, <1>6, <1>8, <1>9, <1>13, <1>14, <1>15, <1>16, PairStep

LEMMA PostStep ==
  ASSUME OnboardingAssumption, IInv, NEW d \in Devices, PostMsg2(d) \/ PostMsg3(d)
  PROVE  IInv'
<1> DEFINE v == dev[d]
           w == work[d]
<1>1. v \in Disks /\ w \in Works /\ w.msg \in Messages /\ Fits(v)
  BY Typed DEF IInv, DiskInv
<1>2. w.ch \in Channels
  BY DEF IInv, SealInv, Joins, PostMsg2, PostMsg3
<1>3. UNCHANGED <<now, rows, hand, sent, crashes, dev, sealed, joined, nextN, nextM>>
  BY DEF PostMsg2, PostMsg3, pairVars
<1>4. dev' = [dev EXCEPT ![d] = v]
  BY <1>3 DEF IInv, TypeOK
<1>5. /\ sealed' \subseteq Messages /\ joined' \subseteq [dev : Devices, msg : Messages, acc : People]
      /\ nextN' \in 1..MaxPairings + 1 /\ nextM' \in 1..MaxPairings + 1
  BY <1>3 DEF IInv, TypeOK
<1>6. CASE PostMsg2(d)
  <2>1. /\ chan' \in [Channels -> Chans]
        /\ \A b \in Channels : chan'[b].slot[3] = chan[b].slot[3]
    BY <1>1, <1>2, <1>6, RelayPut DEF PostMsg2, IInv
  <2>2. Moved(d, v, "await3", w) /\ "await3" \in Stages
    BY <1>4, <1>6 DEF Moved, PostMsg2, Go, Stages
  <2>3. /\ pc[d] = "post2" /\ pc'[d] = "await3" /\ work'[d] = work[d]
        /\ \A e \in Devices \ {d} : pc'[e] = pc[e] /\ work'[e] = work[e]
    BY <1>1, <1>6, <2>2, MovedIs DEF IInv, PostMsg2
  <2>4. SealInv'
    BY <1>2, <1>3, <2>1, <2>3 DEF IInv, SealInv, Waits, Joins
  <2>5. JoinInv'
    BY <1>3, <2>3 DEF IInv, JoinInv, Joins
  <2>6. AtStage(rows, sent, v, "await3", w)
    BY DEF AtStage
  <2> QED BY <1>1, <1>3, <1>5, <2>1, <2>2, <2>4, <2>5, <2>6, PairStep
<1>7. CASE PostMsg3(d)
  <2>1. /\ chan' \in [Channels -> Chans]
        /\ \A b \in Channels : chan'[b].slot[3] = IF b = w.ch THEN w.msg ELSE chan[b].slot[3]
    BY <1>1, <1>2, <1>7, RelayPut DEF PostMsg3, IInv
  <2>2. Moved(d, v, "idle", NoWork) /\ "idle" \in Stages /\ NoWork \in Works
    BY <1>4, <1>7, Constants DEF Moved, PostMsg3, Stop, Go, Stages
  <2>3. /\ pc[d] = "post3" /\ pc'[d] = "idle"
        /\ \A e \in Devices \ {d} : pc'[e] = pc[e] /\ work'[e] = work[e]
    BY <1>1, <1>7, <2>2, MovedIs DEF IInv, PostMsg3
  <2>4. w.msg \in sealed
    BY <2>3 DEF IInv, SealInv
  <2>5. SealInv'
    BY <1>3, <2>1, <2>3, <2>4 DEF IInv, SealInv, Waits, Joins
  <2>6. JoinInv'
    BY <1>3, <2>3 DEF IInv, JoinInv, Joins
  <2>7. AtStage(rows, sent, v, "idle", NoWork)
    BY Resting
  <2> QED BY <1>1, <1>3, <1>5, <2>1, <2>2, <2>5, <2>6, <2>7, PairStep
<1> QED BY <1>6, <1>7

\* An attempt of the initiator ends with its first seal.
LEMMA SealStep ==
  ASSUME OnboardingAssumption, IInv, NEW d \in Devices, onboard_confirm_and_seal(d)
  PROVE  IInv'
<1> DEFINE v == dev[d]
           msg2 == chan[work[d].ch].slot[2]
           msg3 == [msg2 EXCEPT !.acc = dev[d].rec.acc]
           w == [work[d] EXCEPT !.msg = msg3]
<1>1. v \in Disks /\ work[d] \in Works /\ work[d].msg \in Messages /\ v.rec \in Records /\ Fits(v)
  BY Typed DEF IInv, DiskInv
<1>2. work[d].ch \in Channels /\ pc[d] = "await2"
  BY DEF IInv, SealInv, Waits, onboard_confirm_and_seal
<1>3. msg2 \in Messages
  BY <1>2 DEF IInv, TypeOK, Chans
<1>4. UNCHANGED <<now, rows, hand, sent, crashes, chan, dev, joined, nextN, nextM>>
  BY DEF onboard_confirm_and_seal, serverVars
<1>5. CASE dev[d].open /\ Confirms(work[d].msg, msg2)
  <2>1. v.rec.acc \in Accounts /\ msg2.n = work[d].msg.n
    BY <1>5, OpenIsWhole DEF Confirms
  <2>2. msg3 \in Messages /\ msg3.acc \in Accounts /\ msg3.n = work[d].msg.n
    BY <1>3, <2>1 DEF Messages, People
  <2>3. Go(d, "post3", w) /\ sealed' = sealed \cup {msg3}
    BY <1>5 DEF onboard_confirm_and_seal
  <2> HIDE DEF msg3, msg2
  <2>4. w \in Works /\ w.msg = msg3 /\ w.ch = work[d].ch
    BY <1>1, <2>2 DEF Works
  <2> HIDE DEF w
  <2>5. dev' = [dev EXCEPT ![d] = v]
    BY <1>4 DEF IInv, TypeOK
  <2>6. Moved(d, v, "post3", w) /\ "post3" \in Stages
    BY <2>3, <2>5 DEF Moved, Go, Stages
  <2>7. /\ pc'[d] = "post3" /\ work'[d] = w
        /\ \A e \in Devices \ {d} : pc'[e] = pc[e] /\ work'[e] = work[e]
    BY <1>1, <2>4, <2>6, MovedIs DEF IInv
  <2>8. /\ msg3.n \in 1..(nextN - 1) /\ \A t \in sealed : t.n # msg3.n
        /\ \A e \in Devices \ {d} : Waits(e) => work[e].msg.n # msg3.n
    BY <1>2, <2>2 DEF IInv, SealInv, Waits
  <2>9. SealInv'
    <3>1. \A e \in Devices : (Waits(e) \/ Joins(e) \/ pc[e] = "post3")' => work'[e].ch \in Channels
      BY <1>2, <2>4, <2>7 DEF IInv, SealInv, Waits, Joins
    <3>2. \A e \in Devices : Waits(e)' => /\ work'[e].msg.n \in 1..(nextN' - 1)
                                          /\ \A t \in sealed' : t.n # work'[e].msg.n
      BY <1>4, <2>3, <2>7, <2>8 DEF IInv, SealInv, Waits
    <3>3. \A e, f \in Devices : Waits(e)' /\ Waits(f)' /\ work'[e].msg.n = work'[f].msg.n => e = f
      BY <2>7 DEF IInv, SealInv, Waits
    <3>4. \A t \in sealed' : t.acc \in Accounts /\ t.n \in 1..(nextN' - 1)
      BY <1>4, <2>2, <2>3, <2>8 DEF IInv, SealInv
    <3>5. \A t, u \in sealed' : t.n = u.n => t = u
      BY <2>3, <2>8 DEF IInv, SealInv
    <3>6. \A e \in Devices : pc'[e] = "post3" => work'[e].msg \in sealed'
      BY <2>3, <2>4, <2>7 DEF IInv, SealInv
    <3>7. \A b \in Channels : chan'[b].slot[3] # NoMsg => chan'[b].slot[3] \in sealed'
      BY <1>4, <2>3 DEF IInv, SealInv
    <3> QED BY <3>1, <3>2, <3>3, <3>4, <3>5, <3>6, <3>7 DEF SealInv
  <2>10. JoinInv'
    BY <1>2, <1>4, <2>3, <2>7 DEF IInv, JoinInv, Joins
  <2>11. AtStage(rows, sent, v, "post3", w)
    BY DEF AtStage
  <2>12. /\ chan' \in [Channels -> Chans] /\ sealed' \subseteq Messages
         /\ joined' \subseteq [dev : Devices, msg : Messages, acc : People]
         /\ nextN' \in 1..MaxPairings + 1 /\ nextM' \in 1..MaxPairings + 1
    BY <1>4, <2>2, <2>3 DEF IInv, TypeOK
  <2> QED BY <1>1, <1>4, <2>4, <2>6, <2>9, <2>10, <2>11, <2>12, PairStep
<1>6. CASE ~(dev[d].open /\ Confirms(work[d].msg, msg2))
  BY <1>6, StopStep DEF onboard_confirm_and_seal, pairVars
<1> QED BY <1>5, <1>6

LEMMA SameMessage ==
  ASSUME NEW a \in Messages, NEW b \in Messages, a.n = b.n, a.m = b.m
  PROVE  [a EXCEPT !.acc = b.acc] = b
BY DEF Messages

\* Keys are installed by the joiner they were sealed for.
LEMMA InstallStep ==
  ASSUME OnboardingAssumption, IInv, NEW d \in Devices, onboard_finish_install(d)
  PROVE  IInv'
<1> DEFINE v == dev[d]
           mine == work[d].msg
           msg3 == chan[work[d].ch].slot[3]
           w == [work[d] EXCEPT !.msg = msg3]
           x == [dev[d] EXCEPT !.db = msg3.acc, !.floor = 0]
           j == [dev |-> d, msg |-> mine, acc |-> msg3.acc]
<1>1. v \in Disks /\ work[d] \in Works /\ mine \in Messages /\ Fits(v)
  BY Typed DEF IInv, DiskInv
<1>2. pc[d] = "await3" /\ work[d].ch \in Channels /\ mine.m \in 1..(nextM - 1)
      /\ \A i \in joined : i.msg.m # mine.m
  BY DEF IInv, SealInv, JoinInv, Joins, onboard_finish_install
<1>3. msg3 \in Messages /\ msg3 \in sealed
  BY <1>2 DEF IInv, TypeOK, Chans, SealInv, onboard_finish_install, relay_poll
<1>4. UNCHANGED <<now, rows, hand, sent, crashes, chan, sealed, nextN, nextM>>
  BY DEF onboard_finish_install, serverVars
<1>5. CASE FreeDisk(d) /\ Confirms(mine, msg3)
  <2>1. mine.m # 0 /\ msg3.n = mine.n /\ msg3.m = mine.m
    BY <1>1, <1>2, <1>5 DEF Confirms, Messages
  <2>2. [mine EXCEPT !.acc = msg3.acc] = msg3
    BY <1>1, <1>3, <2>1, SameMessage
  <2>3. msg3.acc \in Accounts /\ msg3.acc # Nobody
    BY <1>3, Constants DEF IInv, SealInv
  <2>4. v.rec = NoRec /\ v.db = Nobody /\ ~v.open
    BY <1>1, <1>5 DEF FreeDisk, Fits, Whole
  <2>5. /\ dev' = [dev EXCEPT ![d].db = msg3.acc, ![d].floor = 0] /\ joined' = joined \cup {j}
        /\ Go(d, "record", w)
    BY <1>5 DEF onboard_finish_install
  <2>6. dev' = [dev EXCEPT ![d] = x]
    BY <1>1, <2>5 DEF IInv, TypeOK
  <2>7. j.msg = mine /\ j.acc = msg3.acc /\ j \in [dev : Devices, msg : Messages, acc : People]
    BY <1>1, <2>3 DEF People
  <2> HIDE DEF j, msg3, mine
  <2>8. w \in Works /\ w.msg = msg3
    BY <1>1, <1>3 DEF Works
  <2>9. 0 \in 0..MaxGen /\ msg3.acc \in People
    BY <2>3 DEF People, OnboardingAssumption
  <2>10. x \in Disks /\ x.db = msg3.acc /\ x.floor = 0 /\ x.rec = v.rec /\ x.open = v.open
    BY <1>1, <2>9 DEF Disks
  <2> HIDE DEF x, w
  <2>11. Moved(d, x, "record", w) /\ "record" \in Stages
    BY <2>5, <2>6 DEF Moved, Go, Stages
  <2>12. Fits(x) /\ AtStage(rows, sent, x, "record", w)
    BY <2>3, <2>4, <2>8, <2>10 DEF Fits, Whole, AtStage
  <2>13. /\ pc'[d] = "record"
         /\ \A e \in Devices \ {d} : pc'[e] = pc[e] /\ work'[e] = work[e]
    BY <2>8, <2>10, <2>11, MovedIs DEF IInv
  <2>14. SealInv'
    BY <1>4, <2>13 DEF IInv, SealInv, Waits, Joins
  <2>15. JoinInv'
    <3>1. \A e \in Devices \ {d} : Joins(e) => work[e].msg.m # mine.m
      BY <1>2 DEF IInv, JoinInv, Joins, mine
    <3>2. \A e \in Devices : Joins(e)' => /\ work'[e].msg.m \in 1..(nextM' - 1)
                                          /\ \A i \in joined' : i.msg.m # work'[e].msg.m
      BY <1>4, <2>5, <2>7, <2>13, <3>1 DEF IInv, JoinInv, Joins
    <3>3. \A e, f \in Devices : Joins(e)' /\ Joins(f)' /\ work'[e].msg.m = work'[f].msg.m => e = f
      BY <2>13 DEF IInv, JoinInv, Joins
    <3>4. \A i \in joined' : i.msg.m \in 1..(nextM' - 1) /\ [i.msg EXCEPT !.acc = i.acc] \in sealed'
      BY <1>2, <1>3, <1>4, <2>2, <2>5, <2>7 DEF IInv, JoinInv
    <3>5. \A i, k \in joined' : i.msg.m = k.msg.m => i = k
      BY <1>2, <2>5, <2>7 DEF IInv, JoinInv
    <3> QED BY <3>2, <3>3, <3>4, <3>5 DEF JoinInv
  <2>16. /\ chan' \in [Channels -> Chans] /\ sealed' \subseteq Messages
         /\ joined' \subseteq [dev : Devices, msg : Messages, acc : People]
         /\ nextN' \in 1..MaxPairings + 1 /\ nextM' \in 1..MaxPairings + 1
    BY <1>4, <2>5, <2>7 DEF IInv, TypeOK
  <2> QED BY <1>4, <2>8, <2>10, <2>11, <2>12, <2>14, <2>15, <2>16, PairStep
<1>6. CASE ~(FreeDisk(d) /\ Confirms(mine, msg3))
  BY <1>6, StopStep DEF onboard_finish_install, pairVars
<1> QED BY <1>5, <1>6

-----------------------------------------------------------------------------
(* Steps of the server.                                                    *)

LEMMA PairingsStill ==
  ASSUME SealInv, JoinInv, UNCHANGED <<pc, work, sealed, joined, nextN, nextM>>,
         \A c \in Channels : chan'[c].slot = chan[c].slot
  PROVE  SealInv' /\ JoinInv'
<1>1. SealInv'
  BY DEF SealInv, Waits, Joins
<1>2. JoinInv'
  BY DEF JoinInv, Joins
<1> QED BY <1>1, <1>2

LEMMA SendStep ==
  ASSUME OnboardingAssumption, IInv, NEW d \in Devices, SendPush(d)
  PROVE  IInv'
<1> DEFINE q == Len(sent) + 1
           m == [pw |-> work[d].row.pw, typed |-> work[d].pw]
           y == [work[d].row EXCEPT !.push = q]
           h == [q |-> q, row |-> y, at |-> "check"]
<1>1. dev[d] \in Disks /\ work[d] \in Works /\ work[d].row \in Rows /\ Fits(dev[d])
      /\ AtStage(rows, sent, dev[d], "send", work[d])
  BY Typed DEF IInv, DiskInv, SendPush
<1>2. sent \in Seq([pw : Words, typed : Words]) /\ Len(sent) \in Nat /\ MaxPushes \in Nat
  BY DEF IInv, TypeOK, OnboardingAssumption
<1>3. q \in 1..MaxPushes /\ q <= MaxPushes
  BY <1>2 DEF SendPush
<1>4. m \in [pw : Words, typed : Words] /\ m.pw = work[d].row.pw
  BY <1>1 DEF Works, Rows
<1>5. sent' = Append(sent, m) /\ hand' = hand \cup {h}
  BY DEF SendPush
<1> HIDE DEF m
<1>6. /\ sent' \in Seq([pw : Words, typed : Words]) /\ Len(sent') = q /\ sent'[q] = m
      /\ \A i \in 1..Len(sent) : sent'[i] = sent[i]
  BY <1>2, <1>4, <1>5
<1>7. work[d].row.acc \in Accounts /\ work[d].row.salt = 0
  BY <1>1 DEF AtStage
<1>8. y \in Rows /\ y.push = q /\ y.acc \in Accounts /\ y.salt = 0 /\ y.pw = work[d].row.pw
  BY <1>1, <1>3, <1>7 DEF Rows
<1> HIDE DEF y
<1>9. h.q = q /\ h.row = y /\ h.at = "check"
      /\ h \in [q : 1..MaxPushes, row : Rows, at : {"check", "insert", "escrow"}]
  BY <1>3, <1>8
<1> HIDE DEF h
<1>10. UNCHANGED <<now, chan, rows, sealed, joined, nextN, nextM, crashes, dev>>
  BY DEF SendPush, pairVars
<1>11. q \in Nat /\ Len(sent) < q
  BY <1>2
<1> HIDE DEF q
<1>12. Moved(d, dev[d], "idle", NoWork) /\ "idle" \in Stages /\ NoWork \in Works /\ "idle" \in Quiet
  <2>1. dev' = [dev EXCEPT ![d] = dev[d]]
    BY <1>10 DEF IInv, TypeOK
  <2> QED BY <2>1, Constants DEF SendPush, Stop, Go, Moved, Stages, Quiet
<1>13. TypeOK'
  <2>1. dev' \in [Devices -> Disks] /\ pc' \in [Devices -> Stages] /\ work' \in [Devices -> Works]
    BY <1>1, <1>12, MovedIs DEF IInv
  <2>2. hand' \subseteq [q : 1..MaxPushes, row : Rows, at : {"check", "insert", "escrow"}]
    BY <1>5, <1>9 DEF IInv, TypeOK
  <2> QED BY <1>3, <1>6, <1>10, <2>1, <2>2 DEF IInv, TypeOK
<1>14. SealInv' /\ JoinInv'
  BY <1>1, <1>10, <1>12, PairingsStay DEF IInv
<1>15. \A i \in 1..Len(sent) : i \in 1..Len(sent') /\ sent'[i] = sent[i]
  BY <1>2, <1>6, <1>11
<1>16. RowsInv'
  BY <1>10, <1>15 DEF IInv, RowsInv
<1>17. HandInv'
  <2> SUFFICES ASSUME NEW g \in hand'
      PROVE  /\ g.q \in 1..Len(sent') /\ g.row.acc \in Accounts
             /\ g.row.push = g.q /\ g.row.pw = sent'[g.q].pw /\ g.row.salt = 0
             /\ g.at = "escrow" => /\ \E r \in rows' : SameKey(r, g.row)
                                   /\ \A r \in rows' : SameKey(r, g.row) => r.push = g.q
    BY DEF HandInv, SameKey
  <2>1. CASE g \in hand
    BY <1>10, <1>15, <2>1 DEF IInv, HandInv
  <2>2. CASE g = h
    <3>1. q \in 1..Len(sent')
      BY <1>6, <1>11, <1>3
    <3> QED BY <1>4, <1>6, <1>8, <1>9, <2>2, <3>1
  <2> QED BY <1>5, <2>1, <2>2
<1>18. Grown
  BY <1>6, <1>10, <1>11, <1>2 DEF Grown
<1>19. AtStage(rows', sent', dev[d], "idle", NoWork)
  BY DEF AtStage
<1>20. DiskInv'
  BY <1>1, <1>6, <1>12, <1>18, <1>19, DiskStep DEF IInv
<1> QED BY <1>13, <1>14, <1>16, <1>17, <1>20 DEF IInv

Requests == [q : 1..MaxPushes, row : Rows, at : {"check", "insert", "escrow"}]

LEMMA HandlerStep ==
  ASSUME IInv, HandlerOnly, rows' \subseteq Rows, hand' \subseteq Requests,
         \A r \in rows : \E t \in rows' : t.acc = r.acc, RowsInv', HandInv'
  PROVE  IInv'
<1>1. UNCHANGED <<now, chan, sealed, joined, nextN, nextM, dev, pc, work, sent, crashes>>
  BY DEF HandlerOnly, pairVars
<1>2. TypeOK'
  BY <1>1 DEF IInv, TypeOK, Requests
<1>3. SealInv' /\ JoinInv'
  BY <1>1, PairingsStill DEF IInv
<1>4. Len(sent) \in Nat /\ sent' \in Seq([pw : Words, typed : Words])
  BY <1>1 DEF IInv, TypeOK
<1>5. Grown
  BY <1>1, <1>4 DEF Grown
<1>6. DiskInv'
  BY <1>1, <1>4, <1>5, DiskStill DEF IInv
<1> QED BY <1>2, <1>3, <1>6 DEF IInv

\* The requests that are left are as they were.
LEMMA FewerRequests ==
  ASSUME HandInv, UNCHANGED <<rows, sent>>, hand' \subseteq hand
  PROVE  HandInv'
BY DEF HandInv, SameKey

LEMMA CheckStep ==
  ASSUME IInv, NEW h \in hand, keyset_put(h)
  PROVE  IInv'
<1> DEFINE g == [h EXCEPT !.at = "insert"]
<1>1. h \in Requests /\ hand \subseteq Requests /\ rows \subseteq Rows
  BY DEF IInv, TypeOK, Requests
<1>2. UNCHANGED <<rows, sent>> /\ HandlerOnly
  BY DEF keyset_put, HandlerOnly
<1>3. RowsInv'
  BY <1>2 DEF IInv, RowsInv
<1>4. g \in Requests /\ g.q = h.q /\ g.row = h.row /\ g.at = "insert"
  BY <1>1 DEF Requests
<1> HIDE DEF g
<1>5. hand' = hand \ {h} \/ hand' = (hand \ {h}) \cup {g}
  BY DEF keyset_put, MoveOn, g
<1>6. hand' \subseteq Requests
  BY <1>1, <1>4, <1>5
<1>7. HandInv'
  <2>1. \A i \in hand' : i \in hand \/ i = g
    BY <1>5
  <2> SUFFICES ASSUME NEW i \in hand'
      PROVE  /\ i.q \in 1..Len(sent') /\ i.row.acc \in Accounts
             /\ i.row.push = i.q /\ i.row.pw = sent'[i.q].pw /\ i.row.salt = 0
             /\ i.at = "escrow" => /\ \E r \in rows' : SameKey(r, i.row)
                                   /\ \A r \in rows' : SameKey(r, i.row) => r.push = i.q
    BY DEF HandInv, SameKey
  <2>2. CASE i \in hand
    BY <1>2, <2>2 DEF IInv, HandInv
  <2>3. CASE i = g
    BY <1>2, <1>4, <2>3 DEF IInv, HandInv
  <2> QED BY <2>1, <2>2, <2>3
<1> QED BY <1>1, <1>2, <1>3, <1>6, <1>7, HandlerStep

\* Only one row of a key is ever inserted, so the others that armed theirs keep it.
LEMMA InsertStep ==
  ASSUME IInv, NEW h \in hand, put_keyset(h)
  PROVE  IInv'
<1> DEFINE g == [h EXCEPT !.at = "escrow"]
<1>1. h \in Requests /\ hand \subseteq Requests /\ rows \subseteq Rows
  BY DEF IInv, TypeOK, Requests
<1>2. UNCHANGED sent /\ HandlerOnly
  BY DEF put_keyset, HandlerOnly
<1>3. CASE Taken(h.row)
  <2>1. hand' = hand \ {h} /\ UNCHANGED rows
    BY <1>3 DEF put_keyset
  <2>2. RowsInv' /\ HandInv' /\ rows' \subseteq Rows /\ hand' \subseteq Requests
    BY <1>1, <1>2, <2>1, FewerRequests DEF IInv, RowsInv
  <2> QED BY <1>2, <2>1, <2>2, HandlerStep
<1>4. CASE ~Taken(h.row)
  <2>1. hand' = (hand \ {h}) \cup {g} /\ rows' = rows \cup {h.row}
    BY <1>4 DEF put_keyset, MoveOn
  <2>2. g \in Requests /\ g.q = h.q /\ g.row = h.row /\ h.row \in Rows
    BY <1>1 DEF Requests
  <2> HIDE DEF g
  <2>3. /\ h.q \in 1..Len(sent) /\ h.row.acc \in Accounts
        /\ h.row.push = h.q /\ h.row.pw = sent[h.q].pw /\ h.row.salt = 0
    BY DEF IInv, HandInv
  <2>4. RowsInv'
    BY <1>2, <2>1, <2>3 DEF IInv, RowsInv
  <2>5. \A r \in rows : ~SameKey(r, h.row)
    BY <1>4 DEF Taken, SameKey
  <2>6. HandInv'
    <3> SUFFICES ASSUME NEW i \in hand'
        PROVE  /\ i.q \in 1..Len(sent') /\ i.row.acc \in Accounts
               /\ i.row.push = i.q /\ i.row.pw = sent'[i.q].pw /\ i.row.salt = 0
               /\ i.at = "escrow" => /\ \E r \in rows' : SameKey(r, i.row)
                                     /\ \A r \in rows' : SameKey(r, i.row) => r.push = i.q
      BY DEF HandInv, SameKey
    <3>1. CASE i \in hand
      <4>1. i.at = "escrow" => \E r \in rows : SameKey(r, i.row)
        BY <3>1 DEF IInv, HandInv
      <4>2. i.at = "escrow" => ~SameKey(h.row, i.row)
        BY <2>5, <4>1 DEF SameKey
      <4> QED BY <1>2, <2>1, <3>1, <4>1, <4>2 DEF IInv, HandInv
    <3>2. CASE i = g
      <4>1. SameKey(h.row, h.row)
        BY DEF SameKey
      <4> QED BY <1>2, <2>1, <2>2, <2>3, <2>5, <3>2, <4>1
    <3> QED BY <2>1, <3>1, <3>2
  <2>7. rows' \subseteq Rows /\ hand' \subseteq Requests /\ \A r \in rows : \E t \in rows' : t.acc = r.acc
    BY <1>1, <2>1, <2>2
  <2> QED BY <1>2, <2>4, <2>6, <2>7, HandlerStep
<1> QED BY <1>3, <1>4

LEMMA SentTypes ==
  ASSUME NEW S, NEW q \in Seq([pw : S, typed : S]), NEW i \in 1..Len(q)
  PROVE  q[i].typed \in S
<1>1. q[i] \in [pw : S, typed : S]
  BY ElementOfSeq
<1> QED BY <1>1

\* A row is armed by the push it came with.
LEMMA ArmStep ==
  ASSUME IInv, NEW h \in hand, set_escrow(h)
  PROVE  IInv'
<1> DEFINE Arm(r) == [r EXCEPT !.escPw = sent[h.q].typed, !.salt = h.q]
           Now(r) == IF SameKey(r, h.row) THEN Arm(r) ELSE r
<1>1. h \in Requests /\ hand \subseteq Requests /\ rows \subseteq Rows
  BY DEF IInv, TypeOK, Requests
<1>2. UNCHANGED sent /\ HandlerOnly /\ hand' = hand \ {h}
  BY DEF set_escrow, HandlerOnly
<1>3. rows' = {Now(r) : r \in rows}
  BY DEF set_escrow, SameKey
<1>4. h.q \in 1..Len(sent) /\ h.q \in 1..MaxPushes /\ \A r \in rows : SameKey(r, h.row) => r.push = h.q
  BY <1>1 DEF IInv, HandInv, Requests, set_escrow
<1>5. sent[h.q].typed \in Words /\ h.q \in 0..MaxPushes /\ h.q # 0
  <2>1. sent \in Seq([pw : Words, typed : Words])
    BY DEF IInv, TypeOK
  <2>2. sent[h.q].typed \in Words
    BY <1>4, <2>1, SentTypes
  <2> QED BY <1>4, <2>2
<1>6. ASSUME NEW r \in rows
      PROVE  /\ Now(r) \in Rows /\ Now(r).acc = r.acc /\ Now(r).gen = r.gen /\ Now(r).push = r.push
             /\ Now(r).pw = r.pw
             /\ SameKey(r, h.row) => Now(r).salt = h.q /\ Now(r).escPw = sent[h.q].typed
             /\ ~SameKey(r, h.row) => Now(r) = r
  <2>1. r \in Rows
    BY <1>1
  <2>2. Arm(r) \in Rows /\ Arm(r).acc = r.acc /\ Arm(r).gen = r.gen /\ Arm(r).push = r.push
        /\ Arm(r).pw = r.pw /\ Arm(r).salt = h.q /\ Arm(r).escPw = sent[h.q].typed
    BY <1>5, <2>1 DEF Rows
  <2> HIDE DEF Arm
  <2> QED BY <2>1, <2>2
<1> HIDE DEF Now, Arm
<1>7. RowsInv'
  <2> SUFFICES ASSUME NEW r \in rows
      PROVE  /\ Now(r).acc \in Accounts /\ Now(r).push \in 1..Len(sent) /\ Now(r).pw = sent[Now(r).push].pw
             /\ Now(r).salt # 0 => Now(r).salt = Now(r).push /\ Now(r).escPw = sent[Now(r).push].typed
    BY <1>2, <1>3 DEF RowsInv
  <2>1. /\ r.acc \in Accounts /\ r.push \in 1..Len(sent) /\ r.pw = sent[r.push].pw
        /\ r.salt # 0 => r.salt = r.push /\ r.escPw = sent[r.push].typed
    BY DEF IInv, RowsInv
  <2> QED BY <1>4, <1>6, <2>1
<1>8. HandInv'
  <2> SUFFICES ASSUME NEW i \in hand'
      PROVE  /\ i.q \in 1..Len(sent') /\ i.row.acc \in Accounts
             /\ i.row.push = i.q /\ i.row.pw = sent'[i.q].pw /\ i.row.salt = 0
             /\ i.at = "escrow" => /\ \E r \in rows' : SameKey(r, i.row)
                                   /\ \A r \in rows' : SameKey(r, i.row) => r.push = i.q
    BY DEF HandInv, SameKey
  <2>1. i \in hand
    BY <1>2
  <2>2. \A r \in rows : SameKey(Now(r), i.row) <=> SameKey(r, i.row)
    BY <1>6 DEF SameKey
  <2> QED BY <1>2, <1>3, <1>6, <2>1, <2>2 DEF IInv, HandInv
<1>9. rows' \subseteq Rows /\ hand' \subseteq Requests /\ \A r \in rows : \E t \in rows' : t.acc = r.acc
  BY <1>1, <1>2, <1>3, <1>6
<1> QED BY <1>2, <1>7, <1>8, <1>9, HandlerStep

LEMMA ServerStep ==
  ASSUME OnboardingAssumption, IInv, Tick \/ PruneRelay \/ RestartServer
  PROVE  IInv'
<1>1. UNCHANGED <<rows, sealed, joined, nextN, nextM, dev, pc, work, sent>>
  BY DEF Tick, PruneRelay, RestartServer, serverVars, pairVars
<1>2. now' \in 0..MaxNow /\ crashes' \in 0..MaxCrashes
  BY DEF IInv, TypeOK, Tick, PruneRelay, RestartServer, OnboardingAssumption
<1>3. hand' \subseteq hand
  BY DEF Tick, PruneRelay, RestartServer, serverVars
<1>4. chan' \in [Channels -> Chans] /\ \A c \in Channels : chan'[c].slot = chan[c].slot
  <2>1. CASE PruneRelay
    <3> DEFINE Gone(c) == [chan[c] EXCEPT !.st = "gone"]
    <3>1. ASSUME NEW c \in Channels PROVE Gone(c) \in Chans /\ Gone(c).slot = chan[c].slot
      <4>1. chan[c] \in Chans
        BY DEF IInv, TypeOK
      <4> QED BY <4>1 DEF Chans
    <3>2. chan' = [c \in Channels |-> IF chan[c].st = "open" /\ chan[c].exp < now THEN Gone(c) ELSE chan[c]]
      BY <2>1 DEF PruneRelay
    <3> HIDE DEF Gone
    <3> QED BY <3>1, <3>2 DEF IInv, TypeOK
  <2>2. CASE ~PruneRelay
    BY <2>2 DEF Tick, RestartServer, serverVars, IInv, TypeOK
  <2> QED BY <2>1, <2>2
<1>5. TypeOK'
  BY <1>1, <1>2, <1>3, <1>4 DEF IInv, TypeOK
<1>6. RowsInv' /\ HandInv'
  BY <1>1, <1>3, FewerRequests DEF IInv, RowsInv
<1>7. SealInv' /\ JoinInv'
  BY <1>1, <1>4, PairingsStill DEF IInv
<1>8. Len(sent) \in Nat /\ sent' \in Seq([pw : Words, typed : Words])
  BY <1>1 DEF IInv, TypeOK
<1>9. Grown
  BY <1>1, <1>8 DEF Grown
<1>10. DiskInv'
  BY <1>1, <1>8, <1>9, DiskStill DEF IInv
<1> QED BY <1>5, <1>6, <1>7, <1>10 DEF IInv

-----------------------------------------------------------------------------
(* The invariant.                                                          *)

LEMMA Start ==
  ASSUME OnboardingAssumption, Init
  PROVE  IInv
<1>1. PICK p \in Passwords :
        dev = [d \in Devices |->
                IF AccountOf[d] = Nobody THEN Blank
                ELSE [db |-> AccountOf[d], open |-> TRUE, floor |-> 1, sk |-> AccountOf[d],
                      rec |-> [acc |-> AccountOf[d], pw |-> p, gen |-> 1, torn |-> FALSE]]]
  BY DEF Init
<1>2. NoMsg \in Messages /\ NoWork \in Works /\ Blank \in Disks /\ Nobody \notin Accounts
  BY Constants
<1>3. 1 \in 0..MaxGen /\ 0 \in 0..MaxNow /\ 0 \in 0..MaxCrashes /\ 0 <= MaxPushes /\ 1 \in 1..MaxPairings + 1
  BY DEF OnboardingAssumption
<1>4. ASSUME NEW d \in Devices PROVE dev[d] \in Disks /\ Fits(dev[d])
  <2>1. CASE AccountOf[d] = Nobody
    <3>1. dev[d] = Blank
      BY <1>1, <2>1
    <3>2. Blank.rec = NoRec /\ Blank.open = FALSE
      BY DEF Blank
    <3> QED BY <1>2, <3>1, <3>2 DEF Fits, Whole
  <2>2. CASE AccountOf[d] # Nobody
    <3> DEFINE r == [acc |-> AccountOf[d], pw |-> p, gen |-> 1, torn |-> FALSE]
               v == [db |-> AccountOf[d], open |-> TRUE, floor |-> 1, sk |-> AccountOf[d], rec |-> r]
    <3>1. dev[d] = v
      BY <1>1, <2>2
    <3>2. AccountOf[d] \in People /\ AccountOf[d] # Nobody
      BY <2>2 DEF OnboardingAssumption, People
    <3>3. r \in Records /\ r.acc = AccountOf[d] /\ ~r.torn /\ r.gen = 1
      BY <1>3, <3>2 DEF Records, Words
    <3>4. r # NoRec
      BY <3>2, <3>3 DEF NoRec
    <3> HIDE DEF r
    <3>5. v \in Disks /\ v.db = AccountOf[d] /\ v.rec = r /\ v.floor = 1
      BY <1>3, <3>2, <3>3 DEF Disks
    <3> HIDE DEF v
    <3> QED BY <3>1, <3>2, <3>3, <3>4, <3>5 DEF Fits, Whole
  <2> QED BY <2>1, <2>2
<1>5. dev \in [Devices -> Disks]
  BY <1>1, <1>4
<1>6. /\ pc \in [Devices -> Stages] /\ work \in [Devices -> Works]
      /\ \A d \in Devices : pc[d] = "idle"
  BY <1>2 DEF Init, Stages
<1>7. chan \in [Channels -> Chans] /\ \A c \in Channels : chan[c].slot[3] = NoMsg
  <2>1. \A c \in Channels : chan[c] = [st |-> "none", by |-> Nobody, exp |-> 0, slot |-> [k \in 1..3 |-> NoMsg]]
    BY DEF Init
  <2>2. [k \in 1..3 |-> NoMsg] \in [1..3 -> Messages] /\ [k \in 1..3 |-> NoMsg][3] = NoMsg
    BY <1>2
  <2>3. \A c \in Channels : chan[c] \in Chans /\ chan[c].slot = [k \in 1..3 |-> NoMsg]
    BY <2>1, <2>2 DEF Chans
  <2> QED BY <2>2, <2>3 DEF Init
<1>8. /\ now = 0 /\ rows = {} /\ hand = {} /\ sealed = {} /\ joined = {} /\ sent = <<>>
      /\ nextN = 1 /\ nextM = 1 /\ crashes = 0
  BY DEF Init
<1>9. sent \in Seq([pw : Words, typed : Words]) /\ Len(sent) <= MaxPushes
  BY <1>3, <1>8
<1>10. TypeOK
  BY <1>3, <1>5, <1>6, <1>7, <1>8, <1>9 DEF TypeOK
<1>11. RowsInv /\ HandInv
  BY <1>8 DEF RowsInv, HandInv
<1>12. SealInv
  BY <1>6, <1>7, <1>8 DEF SealInv, Waits, Joins
<1>13. JoinInv
  BY <1>6, <1>8 DEF JoinInv, Joins
<1>14. DiskInv
  <2>1. \A d \in Devices : AtStage(rows, sent, dev[d], pc[d], work[d])
    BY <1>6 DEF AtStage
  <2> QED BY <1>4, <2>1 DEF DiskInv
<1> QED BY <1>10, <1>11, <1>12, <1>13, <1>14 DEF IInv

LEMMA Step ==
  ASSUME OnboardingAssumption, IInv, [Next]_vars
  PROVE  IInv'
<1>1. CASE Tick \/ PruneRelay \/ RestartServer
  BY <1>1, ServerStep
<1>2. ASSUME NEW h \in hand, PushHandler(h) PROVE IInv'
  BY <1>2, CheckStep, InsertStep, ArmStep DEF PushHandler
<1>3. ASSUME NEW d \in Devices, Pairing(d) PROVE IInv'
  <2>1. CASE server_onboard_initiate(d) \/ initiator_complete(d) \/ onboard_confirm_and_seal(d) \/ PostMsg3(d)
    BY <2>1, InitiateStep, CompleteStep, SealStep, PostStep
  <2>2. CASE responder_join(d) \/ PostMsg2(d) \/ onboard_finish_install(d)
    BY <2>2, JoinStep, PostStep, InstallStep
  <2>3. CASE CreateRecord(d) \/ WriteRecord(d) \/ FinishInstall(d)
    BY <2>3, CreateStep, WriteStep, EndStep
  <2> QED BY <1>3, <2>1, <2>2, <2>3 DEF Pairing
<1>4. ASSUME NEW d \in Devices, Keyset(d) PROVE IInv'
  <2>1. CASE server_keyset_push(d) \/ SendPush(d) \/ server_keyset_pull_and_unlock(d)
    BY <2>1, PushStep, SendStep, PullStep
  <2>2. CASE server_escrow_params(d) \/ server_escrow_fetch_and_unlock(d) \/ server_import_keyset_and_unlock(d)
    BY <2>2, ParamsStep, FetchStep, ImportStep
  <2>3. CASE unlock_from_server_blob(d) \/ PersistRecord(d) \/ RaiseFloor(d)
    BY <2>3, AcceptStep, PersistStep, EndStep
  <2> QED BY <1>4, <2>1, <2>2, <2>3 DEF Keyset
<1>5. ASSUME NEW d \in Devices,
             GiveUp(d) \/ KillDevice(d) \/ LockDevice(d) \/ UnlockDevice(d) \/ change_password(d)
      PROVE  IInv'
  BY <1>5, GiveUpStep, KillStep, LockStep, UnlockStep, ChangeStep
<1>6. CASE UNCHANGED vars
  <2>1. UNCHANGED <<now, chan, rows, hand, dev, pc, work, sealed, joined, sent, nextN, nextM, crashes>>
    BY <1>6 DEF vars
  <2>2. TypeOK'
    BY <2>1 DEF IInv, TypeOK
  <2>3. RowsInv' /\ HandInv'
    BY <2>1, ServerStays DEF IInv
  <2>4. SealInv' /\ JoinInv'
    BY <2>1, PairingsStill DEF IInv
  <2>5. DiskInv'
    BY <2>1 DEF IInv, DiskInv
  <2> QED BY <2>2, <2>3, <2>4, <2>5 DEF IInv
<1> QED BY <1>1, <1>2, <1>3, <1>4, <1>5, <1>6 DEF Next

LEMMA Sound ==
  ASSUME IInv
  PROVE  OnboardingSound
<1>1. PairingAgrees
  <2>1. \A j \in joined : [j.msg EXCEPT !.acc = j.acc] \in sealed
    BY DEF IInv, JoinInv
  <2>2. ASSUME NEW i \in joined, NEW j \in joined, i.msg.n = j.msg.n PROVE i = j
    <3> DEFINE a == [i.msg EXCEPT !.acc = i.acc]
               b == [j.msg EXCEPT !.acc = j.acc]
    <3>1. i.msg \in Messages /\ j.msg \in Messages
      BY DEF IInv, TypeOK
    <3>2. a.n = i.msg.n /\ a.m = i.msg.m /\ b.n = j.msg.n /\ b.m = j.msg.m
      BY <3>1 DEF Messages
    <3>3. a \in sealed /\ b \in sealed
      BY <2>1
    <3> HIDE DEF a, b
    <3>4. a = b
      BY <2>2, <3>2, <3>3 DEF IInv, SealInv
    <3> QED BY <3>2, <3>4 DEF IInv, JoinInv
  <2> QED BY <2>1, <2>2 DEF PairingAgrees
<1>2. RecordOpens
  BY DEF IInv, DiskInv, Fits, Whole, RecordOpens, Usable
<1>3. FetchOpens
  BY DEF IInv, DiskInv, AtStage, FetchOpens
<1> QED BY <1>1, <1>2, <1>3 DEF OnboardingSound

LEMMA Invariant == Spec => []IInv
<1>1. Init => IInv
  BY OnboardingAssumption, Start
<1>2. IInv /\ [Next]_vars => IInv'
  BY OnboardingAssumption, Step
<1> QED BY <1>1, <1>2, PTL DEF Spec

\* Channels, rows, requests, disks and commands are of their types in every state,
\* for any devices, accounts and bounds.
THEOREM OnboardingTypes == Spec => []TypeOK
<1>1. IInv => TypeOK
  BY DEF IInv
<1> QED BY <1>1, Invariant, PTL

\* However joiners, attempts, pushes, recoveries, imports, password changes, kills and
\* restarts interleave: keys are installed only by the joiner they were sealed for and
\* once, the record on a disk opens the database beside it and is not below its floor,
\* and what escrow hands out is the record of the push that armed it.
THEOREM OnboardingIsSound == Spec => []OnboardingSound
<1>1. IInv => OnboardingSound
  BY Sound
<1> QED BY <1>1, Invariant, PTL
=============================================================================

--------------------------- MODULE CoreLockProofs ---------------------------
(***************************************************************************)
(* Proofs about CoreLock, for every set of threads, passwords and records  *)
(* and every number of operations, kills and restored backups.             *)
(***************************************************************************)
EXTENDS CoreLock, TLAPS

PCs == Operations \cup GateHeld \cup GuardHeld
         \cup {"idle", "database", "record", "begin", "relock", "wipe"}

\* A thread without a call, and no record, are well formed.
LEMMA IdleState ==
  /\ NoRecord \in Record /\ Idle \in ThreadState /\ Idle.pc = "idle" /\ Idle.fl = 0
  /\ Idle.pc \notin GateHeld /\ Idle.pc \notin GuardHeld
<1>1. NoRecord \in Record
  BY DEF NoRecord, Record
<1> QED BY <1>1 DEF Idle, ThreadState, GateHeld, GuardHeld

\* In a step of t the others stay, and the gate and the state lock follow
\* the sections.
Moves(t, z) ==
  /\ z \in ThreadState /\ th' = [th EXCEPT ![t] = z]
  /\ \/ gate' = gate /\ (z.pc \in GateHeld <=> th[t].pc \in GateHeld)
     \/ gate = NoOne /\ gate' = t /\ z.pc \in GateHeld
     \/ gate' = NoOne /\ th[t].pc \in GateHeld /\ z.pc \notin GateHeld
  /\ \/ guard' = guard /\ (z.pc \in GuardHeld <=> th[t].pc \in GuardHeld)
     \/ guard = NoOne /\ guard' = t /\ z.pc \in GuardHeld
     \/ guard' = NoOne /\ th[t].pc \in GuardHeld /\ z.pc \notin GuardHeld

\* The part of TypeOK about the threads and the two locks.
LocksOK ==
  /\ th \in [Threads -> ThreadState]
  /\ gate \in Threads \cup {NoOne} /\ guard \in Threads \cup {NoOne}
  /\ \A t \in Threads : gate = t <=> th[t].pc \in GateHeld
  /\ \A t \in Threads : guard = t <=> th[t].pc \in GuardHeld

LEMMA MovesKeepLocks ==
  ASSUME CoreAssumption, TypeOK, NEW t \in Threads, NEW z, Moves(t, z)
  PROVE  LocksOK'
<1>1. /\ th' \in [Threads -> ThreadState] /\ th'[t] = z
      /\ \A u \in Threads \ {t} : th'[u] = th[u]
  BY DEF Moves, TypeOK
<1>2. NoOne \notin Threads
  BY DEF CoreAssumption
<1>3. gate' \in Threads \cup {NoOne} /\ \A u \in Threads : gate' = u <=> th'[u].pc \in GateHeld
  BY <1>1, <1>2 DEF Moves, TypeOK
<1>4. guard' \in Threads \cup {NoOne} /\ \A u \in Threads : guard' = u <=> th'[u].pc \in GuardHeld
  BY <1>1, <1>2 DEF Moves, TypeOK
<1> QED BY <1>1, <1>3, <1>4 DEF LocksOK, ThreadState

\* The records of the configuration are records.
LEMMA RecordsAreRecords ==
  ASSUME CoreAssumption, NEW r \in Records
  PROVE  r \in Record
<1>1. MaxGen \in Nat /\ Passwords \subseteq Nat
  BY DEF CoreAssumption
<1>2. r.acct = 1 /\ r.gen \in 1..MaxGen /\ r.pw \in Passwords /\ r.fmt \in {"old", "current"}
  BY DEF Records
<1>3. r = [acct |-> r.acct, gen |-> r.gen, fmt |-> r.fmt, pw |-> r.pw]
  BY DEF Records
<1>4. r.acct \in Nat /\ r.gen \in Nat /\ r.pw \in Nat
  <2>1. r.gen \in Nat
    BY <1>1, <1>2
  <2>2. r.pw \in Nat
    <3>1. Passwords \subseteq Nat /\ r.pw \in Passwords
      BY <1>1, <1>2
    <3> QED BY <3>1, Zenon
  <2> QED BY <1>2, <2>1, <2>2
<1> QED BY <1>2, <1>3, <1>4 DEF Record

\* The record a step writes or remembers is well formed.
LEMMA Rewraps ==
  ASSUME NEW r \in Record, NEW p \in Nat
  PROVE  /\ Rewrapped(r) \in Record /\ Rewrapped(r).gen = r.gen + 1
         /\ [Rewrapped(r) EXCEPT !.pw = p] \in Record
<1>1. r.gen + 1 \in Nat
  BY DEF Record
<1>2. Rewrapped(r) \in Record /\ Rewrapped(r).gen = r.gen + 1
  BY <1>1 DEF Rewrapped, Record
<1>3. [Rewrapped(r) EXCEPT !.pw = p] \in Record
  BY <1>2 DEF Record
<1> QED BY <1>2, <1>3

\* Every step of a thread moves that thread alone, and takes and leaves the
\* gate and the state lock with the sections they protect.
LEMMA ThreadMoves ==
  ASSUME CoreAssumption, TypeOK, NEW t \in Threads, ThreadStep(t)
  PROVE  \E z : Moves(t, z) /\ (z = Idle \/ z.fl = th[t].fl)
<1> DEFINE y == th[t]
           Goal == \E z : Moves(t, z) /\ (z = Idle \/ z.fl = th[t].fl)
<1>1. /\ th \in [Threads -> ThreadState] /\ y \in ThreadState /\ y.rec \in Record
      /\ file \in Record /\ sessions + 1 \in Nat
  BY DEF TypeOK, ThreadState
<1>2. ASSUME Done(t),
             \/ gate' = gate /\ y.pc \notin GateHeld
             \/ gate' = NoOne /\ y.pc \in GateHeld,
             \/ guard' = guard /\ y.pc \notin GuardHeld
             \/ guard' = NoOne /\ y.pc \in GuardHeld
      PROVE  Goal
  <2>1. Moves(t, Idle)
    BY <1>2, IdleState DEF Done, Moves
  <2> QED BY <2>1
<1>3. ASSUME NEW c \in PCs, NEW r \in Record, NEW n \in Nat,
             \/ th' = [th EXCEPT ![t].pc = c]
             \/ th' = [th EXCEPT ![t].pc = c, ![t].rec = r]
             \/ th' = [th EXCEPT ![t].pc = c, ![t].acct = n],
             \/ gate' = gate /\ (c \in GateHeld <=> y.pc \in GateHeld)
             \/ gate = NoOne /\ gate' = t /\ c \in GateHeld,
             \/ guard' = guard /\ (c \in GuardHeld <=> y.pc \in GuardHeld)
             \/ guard = NoOne /\ guard' = t /\ c \in GuardHeld
      PROVE  Goal
  <2> DEFINE z1 == [y EXCEPT !.pc = c]
             z2 == [y EXCEPT !.pc = c, !.rec = r]
             z3 == [y EXCEPT !.pc = c, !.acct = n]
  <2>1. /\ z1 \in ThreadState /\ z1.pc = c /\ z1.fl = y.fl
        /\ z2 \in ThreadState /\ z2.pc = c /\ z2.fl = y.fl
        /\ z3 \in ThreadState /\ z3.pc = c /\ z3.fl = y.fl
    BY <1>1 DEF ThreadState, PCs
  <2>2. \E z \in {z1, z2, z3} : th' = [th EXCEPT ![t] = z]
    BY <1>1, <1>3
  <2>3. PICK z \in {z1, z2, z3} : th' = [th EXCEPT ![t] = z]
    BY <2>2
  <2>4. Moves(t, z) /\ z.fl = y.fl
    BY <1>3, <2>1, <2>3 DEF Moves
  <2> QED BY <2>4
<1>4. /\ GateHeld \subseteq PCs /\ GuardHeld \subseteq PCs
      /\ {"database", "record", "begin", "relock", "wipe"} \subseteq PCs
      /\ {"database", "record", "begin", "relock", "wipe"} \cap (GateHeld \cup GuardHeld) = {}
      /\ GateHeld \cap GuardHeld = {} /\ Operations \cap (GateHeld \cup GuardHeld) = {}
  BY DEF PCs, GateHeld, GuardHeld, Operations
<1>5. Rewrapped(y.rec) \in Record
  BY <1>1, Rewraps DEF CoreAssumption, Record
<1> USE DEF Go, Leave, Bounds
<1>6. CASE UnlockGate(t)
  <2>1. "verified" \in GateHeld /\ y.pc = "unlock" /\ "unlock" \in Operations
    BY <1>6 DEF UnlockGate, GateHeld, Operations
  <2> QED BY <1>1, <1>2, <1>3, <1>4, <1>6, <2>1 DEF UnlockGate
<1>7. CASE UnlockCheck(t)
  <2>1. y.pc \in GateHeld /\ y.pc \notin GuardHeld /\ guard' = guard
    BY <1>7 DEF UnlockCheck, GateHeld, GuardHeld
  <2>2. CASE Done(t) /\ gate' = NoOne
    BY <1>2, <2>1, <2>2
  <2>3. CASE th' = [th EXCEPT ![t].pc = "store"] /\ gate' = gate
    <3>1. "store" \in GateHeld
      BY DEF GateHeld
    <3> QED BY <1>1, <1>3, <1>4, <2>1, <2>3, <3>1
  <2> QED BY <1>7, <2>2, <2>3 DEF UnlockCheck
<1>8. CASE UnlockStore(t)
  <2>1. y.pc \in GateHeld /\ y.pc \notin GuardHeld /\ guard' = guard
    BY <1>8 DEF UnlockStore, GateHeld, GuardHeld
  <2>2. CASE Done(t) /\ gate' = NoOne
    BY <1>2, <2>1, <2>2
  <2>3. CASE (\E c \in {"migrate", "raise"} : th' = [th EXCEPT ![t].pc = c]) /\ gate' = gate
    <3>1. {"migrate", "raise"} \subseteq GateHeld
      BY DEF GateHeld
    <3> QED BY <1>1, <1>3, <1>4, <2>1, <2>3, <3>1
  <2> QED BY <1>8, <2>2, <2>3 DEF UnlockStore
<1>9. CASE UnlockMigrate(t) \/ UnlockRaise(t) \/ UnlockInstall(t)
  <2>1. y.pc \in GateHeld /\ y.pc \notin GuardHeld /\ guard' = guard
    BY <1>9 DEF UnlockMigrate, UnlockRaise, UnlockInstall, GateHeld, GuardHeld
  <2>2. CASE UnlockInstall(t)
    BY <1>2, <2>1, <2>2 DEF UnlockInstall
  <2>3. CASE UnlockMigrate(t)
    <3>1. "raise" \in GateHeld
      BY DEF GateHeld
    <3> QED BY <1>3, <1>4, <1>5, <2>1, <2>3, <3>1 DEF UnlockMigrate
  <2>4. CASE UnlockRaise(t)
    <3>1. "install" \in GateHeld
      BY DEF GateHeld
    <3> QED BY <1>1, <1>3, <1>4, <2>1, <2>4, <3>1 DEF UnlockRaise
  <2> QED BY <1>9, <2>2, <2>3, <2>4
<1>10. CASE \E rec \in ServerRecords : BlobOpen(t, rec)
  <2>1. PICK rec \in ServerRecords : BlobOpen(t, rec)
    BY <1>10
  <2>2. rec \in Record /\ Rewrapped(rec) \in Record
    <3>1. rec \in Record
      BY RecordsAreRecords DEF CoreAssumption
    <3> QED BY <3>1, Rewraps DEF Record
  <2>3. "persist" \in GuardHeld /\ y.pc = "blob" /\ "blob" \in Operations
    BY <2>1 DEF BlobOpen, GuardHeld, Operations
  <2> QED BY <1>1, <1>2, <1>3, <1>4, <2>1, <2>2, <2>3 DEF BlobOpen
<1>11. CASE BlobPersist(t) \/ BlobInstall(t) \/ ChangeWrite(t) \/ ChangeRaise(t)
  <2>1. {"persist", "accept", "rewrite", "secure"} \subseteq GuardHeld
    BY DEF GuardHeld
  <2>2. CASE BlobPersist(t)
    BY <1>1, <1>3, <1>4, <2>1, <2>2 DEF BlobPersist
  <2>3. CASE BlobInstall(t)
    <3>1. y.pc \in GuardHeld /\ y.pc \notin GateHeld /\ guard' = NoOne /\ gate' = gate /\ Done(t)
      BY <2>3 DEF BlobInstall, GateHeld, GuardHeld
    <3> QED BY <1>2, <3>1
  <2>4. CASE ChangeWrite(t)
    BY <1>1, <1>3, <1>4, <2>1, <2>4 DEF ChangeWrite
  <2>5. CASE ChangeRaise(t)
    <3>1. y.pc \in GuardHeld /\ y.pc \notin GateHeld /\ guard' = NoOne /\ gate' = gate /\ Done(t)
      BY <2>5 DEF ChangeRaise, GateHeld, GuardHeld
    <3> QED BY <1>2, <3>1
  <2> QED BY <1>11, <2>2, <2>3, <2>4, <2>5
<1>12. CASE ChangeRead(t)
  <2>1. "rewrite" \in GuardHeld /\ y.pc = "change" /\ "change" \in Operations
    BY <1>12 DEF ChangeRead, GuardHeld, Operations
  <2>2. CASE Done(t) /\ UNCHANGED guard
    BY <1>2, <1>4, <1>12, <2>1, <2>2 DEF ChangeRead
  <2>3. CASE /\ guard' = t
             /\ \E new \in Passwords \ {file.pw} :
                  th' = [th EXCEPT ![t].pc = "rewrite",
                           ![t].rec = [Rewrapped(file) EXCEPT !.pw = new]]
    <3>1. PICK new \in Passwords :
                  th' = [th EXCEPT ![t].pc = "rewrite",
                           ![t].rec = [Rewrapped(file) EXCEPT !.pw = new]]
      BY <2>3
    <3>2. [Rewrapped(file) EXCEPT !.pw = new] \in Record
      BY <1>1, Rewraps DEF CoreAssumption
    <3>3. gate' = gate /\ guard = NoOne
      BY <1>12 DEF ChangeRead
    <3> QED BY <1>1, <1>3, <1>4, <2>1, <2>3, <3>1, <3>2, <3>3
  <2> QED BY <1>12, <2>2, <2>3 DEF ChangeRead
<1>13. CASE CreateCheck(t) \/ CreateDb(t) \/ CreateFile(t) \/ CreateInstall(t)
  <2>1. "create" \in Operations
    BY DEF Operations
  <2>2. CASE CreateCheck(t)
    BY <1>1, <1>2, <1>3, <1>4, <2>1, <2>2 DEF CreateCheck
  <2>3. CASE CreateDb(t)
    BY <1>1, <1>2, <1>3, <1>4, <2>3 DEF CreateDb
  <2>4. CASE CreateFile(t)
    BY <1>1, <1>2, <1>3, <1>4, <2>4 DEF CreateFile
  <2>5. CASE CreateInstall(t)
    <3>1. y.pc \notin GateHeld /\ y.pc \notin GuardHeld /\ gate' = gate /\ guard' = guard
      BY <2>5 DEF CreateInstall, GateHeld, GuardHeld
    <3>2. Done(t)
      BY <2>5 DEF CreateInstall
    <3> QED BY <1>2, <3>1, <3>2
  <2> QED BY <1>13, <2>2, <2>3, <2>4, <2>5
<1>14. CASE \/ Lock(t) \/ SftpRegister(t)
            \/ ResetCheck(t) \/ ResetLock(t) \/ ResetWipe(t) \/ ResetUnlink(t)
  <2>1. {"lock", "sftp", "reset"} \subseteq Operations
    BY DEF Operations
  <2>2. CASE Lock(t)
    <3>1. y.pc \notin GateHeld /\ y.pc \notin GuardHeld /\ gate' = gate /\ guard' = guard
      BY <2>2 DEF Lock, GateHeld, GuardHeld
    <3>2. Done(t)
      BY <2>2 DEF Lock
    <3> QED BY <1>2, <3>1, <3>2
  <2>3. CASE SftpRegister(t)
    <3>1. y.pc \notin GateHeld /\ y.pc \notin GuardHeld /\ gate' = gate /\ guard' = guard
      BY <2>3 DEF SftpRegister, GateHeld, GuardHeld
    <3>2. Done(t)
      BY <2>3 DEF SftpRegister
    <3> QED BY <1>2, <3>1, <3>2
  <2>4. CASE ResetCheck(t) \/ ResetLock(t)
    <3>1. y.pc \notin GateHeld /\ y.pc \notin GuardHeld /\ gate' = gate /\ guard' = guard
      BY <2>4 DEF ResetCheck, ResetLock, GateHeld, GuardHeld
    <3>2. Done(t) \/ \E c \in {"relock", "wipe"} : th' = [th EXCEPT ![t].pc = c]
      BY <2>4 DEF ResetCheck, ResetLock
    <3> QED BY <1>1, <1>2, <1>3, <1>4, <3>1, <3>2
  <2>5. CASE ResetWipe(t)
    <3>1. /\ y.pc \notin GateHeld /\ y.pc \notin GuardHeld /\ guard' = guard /\ gate = NoOne
          /\ "unlink" \in GateHeld
      BY <2>5 DEF ResetWipe, GateFree, GateHeld, GuardHeld
    <3>2. CASE Done(t) /\ gate' = gate
      BY <1>2, <3>1, <3>2
    <3>3. CASE th' = [th EXCEPT ![t].pc = "unlink"] /\ gate' = t
      BY <1>1, <1>3, <1>4, <3>1, <3>3
    <3> QED BY <2>5, <3>2, <3>3 DEF ResetWipe
  <2>6. CASE ResetUnlink(t)
    <3>1. y.pc \in GateHeld /\ y.pc \notin GuardHeld /\ gate' = NoOne /\ guard' = guard /\ Done(t)
      BY <2>6 DEF ResetUnlink, GateHeld, GuardHeld
    <3> QED BY <1>2, <3>1
  <2> QED BY <1>14, <2>2, <2>3, <2>4, <2>5, <2>6
<1> QED BY <1>6, <1>7, <1>8, <1>9, <1>10, <1>11, <1>12, <1>13, <1>14 DEF ThreadStep

\* The part of TypeOK about what is on disk, in memory and counted.
DataOK ==
  /\ file \in Record /\ db \in [acct : Nat, floor : Nat]
  /\ open \in [acct : Nat, gen : Nat, no : Nat] /\ (open = Closed <=> open.no = 0)
  /\ epoch \in Nat /\ sftp \in SUBSET Nat /\ wanted \in Nat
  /\ ops \in Nat /\ crashes \in Nat /\ swaps \in Nat /\ sessions \in Nat /\ crossed \in BOOLEAN

\* What the database and a session are made of stays well formed.
LEMMA Makes ==
  ASSUME DataOK, NEW r \in Record, NEW n \in Nat
  PROVE  /\ OpenedDb(n) \in [acct : Nat, floor : Nat]
         /\ Raised(r.gen) \in [acct : Nat, floor : Nat]
         /\ Session(r, sessions + 1) \in [acct : Nat, gen : Nat, no : Nat]
         /\ Session(r, sessions + 1) # Closed /\ Session(r, sessions + 1).no # 0
         /\ NoDb \in [acct : Nat, floor : Nat]
<1>1. r.gen \in Nat /\ r.acct \in Nat /\ sessions + 1 \in Nat /\ sessions + 1 # 0
  BY DEF DataOK, Record
<1>2. NoDb \in [acct : Nat, floor : Nat]
  BY DEF NoDb
<1>3. OpenedDb(n) \in [acct : Nat, floor : Nat]
  BY <1>2 DEF DataOK, OpenedDb
<1>4. Raised(r.gen) \in [acct : Nat, floor : Nat]
  BY <1>1 DEF DataOK, Raised
<1>5. /\ Session(r, sessions + 1) \in [acct : Nat, gen : Nat, no : Nat]
      /\ Session(r, sessions + 1).no # 0
  BY <1>1 DEF Session
<1>6. Closed.no = 0
  BY DEF Closed
<1> QED BY <1>2, <1>3, <1>4, <1>5, <1>6

\* A step of a thread keeps what is on disk and in memory well formed.
LEMMA ThreadKeepsData ==
  ASSUME CoreAssumption, TypeOK, NEW t \in Threads, ThreadStep(t)
  PROVE  DataOK'
<1> DEFINE y == th[t]
<1>1. /\ DataOK /\ y \in ThreadState /\ y.rec \in Record /\ y.pw \in Nat /\ y.ep \in Nat
      /\ y.acct \in Nat /\ y.rec.acct \in Nat /\ y.rec.gen \in Nat /\ y.rec.pw \in Nat
  BY DEF TypeOK, DataOK, ThreadState, Record
<1>2. Rewrapped(y.rec) \in Record
  BY <1>1, Rewraps
<1>3. /\ Raised(y.rec.gen) \in [acct : Nat, floor : Nat]
      /\ OpenedDb(y.rec.acct) \in [acct : Nat, floor : Nat]
      /\ OpenedDb(y.acct) \in [acct : Nat, floor : Nat]
      /\ Session(y.rec, sessions + 1) \in [acct : Nat, gen : Nat, no : Nat]
      /\ Session(y.rec, sessions + 1) # Closed /\ Session(y.rec, sessions + 1).no # 0
      /\ NoDb \in [acct : Nat, floor : Nat] /\ sessions + 1 \in Nat /\ epoch + 1 \in Nat
  <2>1. sessions + 1 \in Nat /\ epoch + 1 \in Nat
    BY <1>1 DEF DataOK
  <2> QED BY <1>1, <2>1, Makes
<1>4. /\ Closed \in [acct : Nat, gen : Nat, no : Nat] /\ Closed.no = 0 /\ NoRecord \in Record
  BY IdleState DEF Closed
<1> USE DEF Bounds
<1>5. CASE UnlockGate(t) \/ UnlockCheck(t)
  BY <1>1, <1>5 DEF UnlockGate, UnlockCheck, DataOK
<1>6. CASE UnlockStore(t)
  BY <1>1, <1>3, <1>6 DEF UnlockStore, DataOK
<1>7. CASE UnlockMigrate(t)
  BY <1>1, <1>2, <1>7 DEF UnlockMigrate, DataOK
<1>8. CASE UnlockRaise(t)
  BY <1>1, <1>3, <1>8 DEF UnlockRaise, DataOK
<1>9. CASE UnlockInstall(t)
  BY <1>1, <1>3, <1>9 DEF UnlockInstall, DataOK
<1>10. CASE \E rec \in ServerRecords : BlobOpen(t, rec)
  <2>1. PICK rec \in ServerRecords : BlobOpen(t, rec)
    BY <1>10
  <2>2. rec \in Record
    BY RecordsAreRecords DEF CoreAssumption
  <2>3. OpenedDb(rec.acct) \in [acct : Nat, floor : Nat]
    <3>1. rec.acct \in Nat
      BY <2>2 DEF Record
    <3> QED BY <1>1, <2>2, <3>1, Makes
  <2> QED BY <1>1, <2>1, <2>3 DEF BlobOpen, DataOK
<1>11. CASE BlobPersist(t) \/ ChangeWrite(t)
  BY <1>1, <1>11 DEF BlobPersist, ChangeWrite, DataOK
<1>12. CASE BlobInstall(t)
  BY <1>1, <1>3, <1>12 DEF BlobInstall, DataOK
<1>13. CASE ChangeRead(t)
  BY <1>1, <1>13 DEF ChangeRead, DataOK
<1>14. CASE ChangeRaise(t)
  <2>1. db' \in [acct : Nat, floor : Nat]
    <3> DEFINE o == OpenedDb(y.rec.acct)
    <3>1. [o EXCEPT !.floor = IF y.rec.gen > @ THEN y.rec.gen ELSE @] \in [acct : Nat, floor : Nat]
      <4>1. o \in [acct : Nat, floor : Nat]
        BY <1>3
      <4> HIDE DEF o
      <4> QED BY <1>1, <4>1
    <3> QED BY <1>1, <3>1, <1>14 DEF ChangeRaise, DataOK
  <2> QED BY <1>1, <2>1, <1>14 DEF ChangeRaise, DataOK
<1>15. CASE CreateCheck(t)
  BY <1>1, <1>3, <1>15 DEF CreateCheck, DataOK
<1>16. CASE CreateDb(t)
  BY <1>1, <1>3, <1>16 DEF CreateDb, DataOK
<1>17. CASE CreateFile(t)
  <2>1. [acct |-> y.acct, gen |-> 1, fmt |-> "current", pw |-> y.pw] \in Record
    BY <1>1 DEF Record
  <2> QED BY <1>1, <1>3, <2>1, <1>17 DEF CreateFile, DataOK
<1>18. CASE CreateInstall(t)
  <2> DEFINE s == [acct |-> y.acct, gen |-> 1, no |-> sessions + 1]
  <2>1. s \in [acct : Nat, gen : Nat, no : Nat] /\ s.no # 0
    BY <1>1, <1>3 DEF DataOK
  <2>2. s # Closed
    BY <1>4, <2>1
  <2>3. open' = s
    BY <1>18 DEF CreateInstall
  <2> HIDE DEF s
  <2> QED BY <1>1, <1>3, <2>1, <2>2, <2>3, <1>18 DEF CreateInstall, DataOK
<1>19. CASE Lock(t) \/ ResetCheck(t) \/ ResetLock(t)
  BY <1>1, <1>3, <1>4, <1>19 DEF Lock, ResetCheck, ResetLock, DataOK
<1>20. CASE SftpRegister(t)
  BY <1>1, <1>20 DEF SftpRegister, DataOK
<1>21. CASE ResetWipe(t) \/ ResetUnlink(t)
  BY <1>1, <1>3, <1>4, <1>21, IdleState DEF ResetWipe, ResetUnlink, DataOK
<1> QED BY <1>5, <1>6, <1>7, <1>8, <1>9, <1>10, <1>11, <1>12, <1>13, <1>14, <1>15, <1>16,
           <1>17, <1>18, <1>19, <1>20, <1>21 DEF ThreadStep

\* The first state is well formed.
LEMMA InitTypes ==
  ASSUME CoreAssumption, Init
  PROVE  TypeOK
<1>1. FirstRecord \in Record
  BY RecordsAreRecords, IdleState DEF CoreAssumption
<1>2. DataOK
  <2>1. /\ FirstRecord.acct \in Nat /\ FirstRecord.gen \in Nat /\ FirstRecord.pw \in Nat
    BY <1>1 DEF Record
  <2>2. db \in [acct : Nat, floor : Nat]
    BY <2>1 DEF Init, NoDb
  <2>3. open \in [acct : Nat, gen : Nat, no : Nat] /\ (open = Closed <=> open.no = 0)
    BY DEF Init, Closed
  <2> QED BY <1>1, <2>1, <2>2, <2>3 DEF Init, DataOK
<1>3. LocksOK
  BY IdleState DEF Init, LocksOK, CoreAssumption
<1> QED BY <1>2, <1>3 DEF TypeOK, LocksOK, DataOK

LEMMA BeginTypes ==
  ASSUME CoreAssumption, TypeOK, NEW t \in Threads, NEW op \in Operations, NEW pw \in Passwords,
         Begin(t, op, pw)
  PROVE  TypeOK'
<1> DEFINE z == [Idle EXCEPT !.pc = op, !.ep = epoch, !.pw = pw, !.fl = db.floor]
<1>1. db.floor \in Nat /\ epoch \in Nat /\ pw \in Nat /\ ops + 1 \in Nat
  <2>1. db.floor \in Nat /\ epoch \in Nat /\ ops + 1 \in Nat
    BY DEF TypeOK
  <2>2. pw \in Nat
    BY DEF CoreAssumption
  <2> QED BY <2>1, <2>2
<1>2. z \in ThreadState /\ z.pc = op
  BY <1>1, IdleState DEF ThreadState
<1>3. op \notin GateHeld /\ op \notin GuardHeld
  BY DEF Operations, GateHeld, GuardHeld
<1>4. th[t].pc = "idle" /\ gate' = gate /\ guard' = guard /\ th' = [th EXCEPT ![t] = z]
  BY DEF Begin
<1>5. Moves(t, z)
  <2> HIDE DEF z
  <2> QED BY <1>2, <1>3, <1>4 DEF Moves, GateHeld, GuardHeld
<1>6. LocksOK'
  BY <1>5, MovesKeepLocks
<1>7. DataOK'
  BY <1>1 DEF Begin, TypeOK, DataOK
<1> QED BY <1>6, <1>7 DEF TypeOK, LocksOK, DataOK

LEMMA CrashTypes ==
  ASSUME CoreAssumption, TypeOK, Crash
  PROVE  TypeOK'
<1>1. LocksOK'
  BY IdleState DEF Crash, LocksOK, CoreAssumption
<1>2. Closed \in [acct : Nat, gen : Nat, no : Nat] /\ Closed.no = 0
  BY DEF Closed
<1>3. DataOK'
  BY <1>2 DEF Crash, DataOK, TypeOK
<1> QED BY <1>1, <1>3 DEF TypeOK, LocksOK, DataOK

LEMMA SwapTypes ==
  ASSUME CoreAssumption, TypeOK, NEW rec \in ServerRecords, Swap(rec)
  PROVE  TypeOK'
<1>1. rec \in Record
  BY RecordsAreRecords DEF CoreAssumption
<1>2. LocksOK' /\ DataOK'
  BY <1>1 DEF Swap, LocksOK, DataOK, TypeOK
<1> QED BY <1>2 DEF TypeOK, LocksOK, DataOK

LEMMA StepTypes ==
  ASSUME CoreAssumption, TypeOK, [Next]_vars
  PROVE  TypeOK'
<1>1. CASE UNCHANGED vars
  BY <1>1 DEF TypeOK, vars
<1>2. ASSUME NEW t \in Threads, ThreadStep(t) PROVE TypeOK'
  BY <1>2, ThreadMoves, MovesKeepLocks, ThreadKeepsData DEF TypeOK, LocksOK, DataOK
<1> QED BY <1>1, <1>2, BeginTypes, CrashTypes, SwapTypes DEF Next

(* Records, database and session are well formed in every state, and the   *)
(* unlock gate and the state lock are held exactly inside their sections.  *)
THEOREM CoreTypes ==
  ASSUME CoreAssumption
  PROVE  Spec => []TypeOK
BY InitTypes, StepTypes, PTL DEF Spec

(***************************************************************************)
(* A lock is not undone                                                    *)
(***************************************************************************)
\* Who is moved by a step that installs a session has taken that step.
LEMMA MovedActs ==
  ASSUME CoreAssumption, TypeOK, [Next]_vars, NEW t \in Threads,
         th'[t] # th[t], open' # open, open' # Closed
  PROVE  ThreadStep(t)
<1>1. ~UNCHANGED vars /\ ~Crash
  BY DEF vars, Crash
<1>2. \A u \in Threads, op \in Operations, pw \in Passwords : ~Begin(u, op, pw)
  BY DEF Begin
<1>3. \A rec \in ServerRecords : ~Swap(rec)
  BY DEF Swap
<1>4. PICK u \in Threads : ThreadStep(u)
  BY <1>1, <1>2, <1>3 DEF Next
<1>5. PICK z : Moves(u, z)
  BY <1>4, ThreadMoves
<1>6. u = t
  BY <1>5 DEF Moves, TypeOK
<1> QED BY <1>4, <1>6

LEMMA UnlockLoses ==
  ASSUME CoreAssumption, TypeOK, [Next]_vars
  PROVE  LockWinsStep
<1>1. SUFFICES ASSUME NEW t \in Threads, Installs(t, {"install"})
               PROVE  epoch = th[t].ep
  BY DEF LockWinsStep
<1>2. th[t].pc = "install" /\ th'[t] # th[t] /\ open' # open /\ open' # Closed
  BY <1>1 DEF Installs
<1>3. ThreadStep(t)
  BY <1>2, MovedActs
<1>4. UnlockInstall(t)
  BY <1>2, <1>3 DEF ThreadStep, UnlockGate, UnlockCheck, UnlockStore, UnlockMigrate, UnlockRaise,
     BlobOpen, BlobPersist, BlobInstall, ChangeRead, ChangeWrite, ChangeRaise, CreateCheck,
     CreateDb, CreateFile, CreateInstall, Lock, SftpRegister, ResetCheck, ResetLock, ResetWipe,
     ResetUnlink
<1> QED BY <1>2, <1>4 DEF UnlockInstall, MayInstall

(* A lock wins over every unlock that began before it, whatever else runs: *)
(* account creation and reset, kills and restored backups included.        *)
THEOREM LockAlwaysWins ==
  ASSUME CoreAssumption
  PROVE  Spec => LockWins
BY InitTypes, StepTypes, UnlockLoses, PTL DEF Spec, LockWins

(***************************************************************************)
(* With an account that stays: LockHolds                                   *)
(***************************************************************************)
Proving == {"migrate", "raise", "install", "persist", "accept"}
Lasting == {"create", "database", "record", "begin", "reset", "relock", "wipe", "unlink"}

\* What a thread that began under floor fl may hold while the floor is f.
Floored(x, f) ==
  /\ x.fl <= f
  /\ x.pc \in Proving => x.rec.gen >= x.fl
  /\ x.pc \notin Lasting

FloorInv == \A t \in Threads : Floored(th[t], db.floor)

LEMMA IdleFloored == ASSUME NEW f \in Nat PROVE Floored(Idle, f)
BY DEF Floored, Idle, Proving, Lasting

\* A thread keeps under the floor what it has shown of its record.
LEMMA ThreadFloors ==
  ASSUME CoreAssumption, TypeOK, FloorInv, NEW t \in Threads, ThreadStep(t)
  PROVE  Floored(th'[t], db'.floor) /\ db'.floor >= db.floor
<1> DEFINE y == th[t]
<1>1. /\ y \in ThreadState /\ y.rec.gen \in Nat /\ y.fl \in Nat /\ db.floor \in Nat
      /\ db \in [acct : Nat, floor : Nat] /\ th \in [Threads -> ThreadState] /\ y.rec \in Record
  BY DEF TypeOK, ThreadState, Record
<1>2. /\ y.fl <= db.floor /\ y.pc \notin Lasting
      /\ y.pc \in Proving => y.rec.gen >= y.fl
  BY DEF FloorInv, Floored
<1>3. \A a : OpenedDb(a).floor = db.floor
  BY DEF OpenedDb, NoDb
<1>4. ASSUME Done(t), db'.floor >= db.floor, db'.floor \in Nat
      PROVE  Floored(th'[t], db'.floor) /\ db'.floor >= db.floor
  BY <1>1, <1>4, IdleFloored DEF Done
<1>5. ASSUME NEW c, NEW r \in Record, th'[t].pc = c, th'[t].fl = y.fl, th'[t].rec = r,
             db'.floor >= db.floor, db'.floor \in Nat, c \notin Lasting,
             c \in Proving => r.gen >= y.fl
      PROVE  Floored(th'[t], db'.floor) /\ db'.floor >= db.floor
  <2>1. y.fl <= db'.floor
    BY <1>1, <1>2, <1>5
  <2> QED BY <1>5, <2>1 DEF Floored
<1>6. \A n \in Nat : Raised(n).floor >= db.floor /\ Raised(n).floor \in Nat
  BY <1>1 DEF Raised
<1>7. /\ {"verified", "store", "rewrite", "secure"} \cap (Proving \cup Lasting) = {}
      /\ Proving \cap Lasting = {}
  BY DEF Proving, Lasting
<1>8. ASSUME NEW c, Go(t, c) PROVE th'[t].pc = c /\ th'[t].fl = y.fl /\ th'[t].rec = y.rec
  BY <1>1, <1>8 DEF Go, ThreadState
<1>9. ASSUME NEW c, NEW r, th' = [th EXCEPT ![t].pc = c, ![t].rec = r]
      PROVE  th'[t].pc = c /\ th'[t].fl = y.fl /\ th'[t].rec = r
  BY <1>1, <1>9 DEF ThreadState
<1> USE DEF Leave, Bounds
<1>10. CASE UnlockGate(t)
  <2>1. db' = db /\ (Done(t) \/ th' = [th EXCEPT ![t].pc = "verified", ![t].rec = file])
    BY <1>10 DEF UnlockGate
  <2>2. file \in Record
    BY DEF TypeOK
  <2>3. db'.floor >= db.floor /\ db'.floor \in Nat
    BY <1>1, <2>1
  <2>4. CASE th' = [th EXCEPT ![t].pc = "verified", ![t].rec = file]
    BY <1>5, <1>7, <1>9, <2>2, <2>3, <2>4
  <2> QED BY <1>4, <2>1, <2>3, <2>4
<1>11. CASE UnlockCheck(t)
  <2>1. db' = db /\ (Done(t) \/ Go(t, "store"))
    BY <1>11 DEF UnlockCheck
  <2> QED BY <1>1, <1>4, <1>5, <1>7, <1>8, <2>1
<1>12. CASE UnlockStore(t)
  <2>1. db'.floor = db.floor
    BY <1>3, <1>12 DEF UnlockStore
  <2>2. CASE Done(t)
    BY <1>1, <1>4, <2>1, <2>2
  <2>3. CASE AboveFloor(y.rec) /\ \E c \in {"migrate", "raise"} : Go(t, c)
    <3>1. y.rec.gen >= y.fl
      BY <1>1, <1>2, <1>3, <2>3 DEF AboveFloor
    <3>2. PICK c \in {"migrate", "raise"} : Go(t, c)
      BY <2>3
    <3>3. c \notin Lasting
      BY <3>2 DEF Lasting
    <3>4. th'[t].pc = c /\ th'[t].fl = y.fl /\ th'[t].rec = y.rec
      BY <1>8, <3>2
    <3> QED BY <1>1, <1>5, <2>1, <3>1, <3>3, <3>4
  <2> QED BY <1>12, <2>2, <2>3 DEF UnlockStore
<1>13. CASE UnlockMigrate(t)
  <2>1. /\ db' = db /\ y.pc \in Proving /\ "raise" \notin Lasting
        /\ th' = [th EXCEPT ![t].pc = "raise", ![t].rec = Rewrapped(y.rec)]
    BY <1>13 DEF UnlockMigrate, Proving, Lasting
  <2>2. Rewrapped(y.rec) \in Record /\ Rewrapped(y.rec).gen >= y.fl
    <3>1. Rewrapped(y.rec) \in Record /\ Rewrapped(y.rec).gen = y.rec.gen + 1
      BY <1>1, Rewraps
    <3> QED BY <1>1, <1>2, <2>1, <3>1
  <2>3. th'[t].pc = "raise" /\ th'[t].fl = y.fl /\ th'[t].rec = Rewrapped(y.rec)
    BY <1>9, <2>1
  <2> QED BY <1>1, <1>5, <2>1, <2>2, <2>3
<1>14. CASE UnlockRaise(t)
  <2>1. db' = Raised(y.rec.gen) /\ y.pc \in Proving /\ "install" \notin Lasting /\ Go(t, "install")
    BY <1>14 DEF UnlockRaise, Proving, Lasting
  <2>2. th'[t].pc = "install" /\ th'[t].fl = y.fl /\ th'[t].rec = y.rec
    BY <1>8, <2>1
  <2> QED BY <1>1, <1>2, <1>5, <1>6, <2>1, <2>2
<1>15. CASE UnlockInstall(t)
  BY <1>1, <1>4, <1>15 DEF UnlockInstall
<1>16. CASE \E rec \in ServerRecords : BlobOpen(t, rec)
  <2>1. PICK rec \in ServerRecords : BlobOpen(t, rec)
    BY <1>16
  <2>2. rec \in Record /\ Rewrapped(rec) \in Record /\ rec.gen \in Nat
        /\ Rewrapped(rec).gen = rec.gen + 1
    <3>1. rec \in Record
      BY RecordsAreRecords DEF CoreAssumption
    <3> QED BY <3>1, Rewraps DEF Record
  <2>3. db'.floor = db.floor
    BY <1>3, <2>1 DEF BlobOpen
  <2>4. CASE Done(t)
    BY <1>1, <1>4, <2>3, <2>4
  <2>5. CASE /\ AboveFloor(rec)
             /\ \E r \in {rec, Rewrapped(rec)} : th' = [th EXCEPT ![t].pc = "persist", ![t].rec = r]
    <3>1. PICK r \in {rec, Rewrapped(rec)} : th' = [th EXCEPT ![t].pc = "persist", ![t].rec = r]
      BY <2>5
    <3>2. rec.gen >= y.fl
      BY <1>1, <1>2, <1>3, <2>2, <2>5 DEF AboveFloor
    <3>3. r \in Record /\ r.gen >= y.fl
      BY <1>1, <2>2, <3>1, <3>2
    <3>4. th'[t].pc = "persist" /\ th'[t].fl = y.fl /\ th'[t].rec = r
      BY <1>9, <3>1
    <3>5. "persist" \notin Lasting
      BY DEF Lasting
    <3> QED BY <1>1, <1>5, <2>3, <3>3, <3>4, <3>5
  <2> QED BY <2>1, <2>4, <2>5 DEF BlobOpen
<1>17. CASE BlobPersist(t)
  <2>1. db' = db /\ y.pc \in Proving /\ "accept" \notin Lasting /\ Go(t, "accept")
    BY <1>17 DEF BlobPersist, Proving, Lasting
  <2>2. th'[t].pc = "accept" /\ th'[t].fl = y.fl /\ th'[t].rec = y.rec
    BY <1>8, <2>1
  <2> QED BY <1>1, <1>2, <1>5, <2>1, <2>2
<1>18. CASE BlobInstall(t)
  <2>1. db' = Raised(y.rec.gen) /\ Done(t)
    BY <1>18 DEF BlobInstall
  <2> QED BY <1>1, <1>4, <1>6, <2>1
<1>19. CASE ChangeRead(t)
  <2>1. db' = db
    BY <1>19 DEF ChangeRead
  <2>2. CASE Done(t)
    BY <1>1, <1>4, <2>1, <2>2
  <2>3. CASE \E new \in Passwords \ {file.pw} :
               th' = [th EXCEPT ![t].pc = "rewrite",
                        ![t].rec = [Rewrapped(file) EXCEPT !.pw = new]]
    <3>1. PICK new \in Passwords :
                  th' = [th EXCEPT ![t].pc = "rewrite",
                           ![t].rec = [Rewrapped(file) EXCEPT !.pw = new]]
      BY <2>3
    <3> DEFINE r == [Rewrapped(file) EXCEPT !.pw = new]
    <3>2. r \in Record
      BY Rewraps DEF CoreAssumption, TypeOK
    <3> HIDE DEF r
    <3>3. th' = [th EXCEPT ![t].pc = "rewrite", ![t].rec = r]
      BY <3>1 DEF r
    <3>4. th'[t].pc = "rewrite" /\ th'[t].fl = y.fl /\ th'[t].rec = r
      BY <1>9, <3>3
    <3> QED BY <1>1, <1>5, <1>7, <2>1, <3>2, <3>4
  <2> QED BY <1>19, <2>2, <2>3 DEF ChangeRead
<1>20. CASE ChangeWrite(t)
  <2>1. db' = db /\ Go(t, "secure")
    BY <1>20 DEF ChangeWrite
  <2>2. th'[t].pc = "secure" /\ th'[t].fl = y.fl /\ th'[t].rec = y.rec
    BY <1>8, <2>1
  <2> QED BY <1>1, <1>5, <1>7, <2>1, <2>2
<1>21. CASE ChangeRaise(t)
  <2>1. OpenedDb(y.rec.acct) \in [acct : Nat, floor : Nat]
    BY <1>1 DEF OpenedDb, NoDb, Record
  <2>2. db'.floor >= db.floor /\ db'.floor \in Nat
    BY <1>1, <1>3, <1>21, <2>1 DEF ChangeRaise
  <2>3. Done(t)
    BY <1>21 DEF ChangeRaise
  <2> QED BY <1>4, <2>2, <2>3
<1>22. CASE Lock(t) \/ SftpRegister(t)
  BY <1>1, <1>4, <1>22 DEF Lock, SftpRegister
<1>23. ~(CreateCheck(t) \/ CreateDb(t) \/ CreateFile(t) \/ CreateInstall(t)
         \/ ResetCheck(t) \/ ResetLock(t) \/ ResetWipe(t) \/ ResetUnlink(t))
  BY <1>2 DEF CreateCheck, CreateDb, CreateFile, CreateInstall, ResetCheck, ResetLock, ResetWipe,
              ResetUnlink, Lasting
<1> QED BY <1>10, <1>11, <1>12, <1>13, <1>14, <1>15, <1>16, <1>17, <1>18, <1>19, <1>20,
           <1>21, <1>22, <1>23 DEF ThreadStep

\* A higher floor changes nothing for who began under a lower one.
LEMMA FloorRises ==
  ASSUME NEW x \in ThreadState, NEW f \in Nat, NEW g \in Nat, Floored(x, f), f <= g
  PROVE  Floored(x, g)
<1>1. x.fl \in Nat
  BY DEF ThreadState
<1> QED BY <1>1 DEF Floored

\* What LockHolds rests on: no account is created or reset.
Kept == Ops \cap {"create", "reset"} = {}

LEMMA FloorStep ==
  ASSUME CoreAssumption, Kept, TypeOK, FloorInv, [Next]_vars
  PROVE  FloorInv'
<1>1. /\ db.floor \in Nat /\ th \in [Threads -> ThreadState]
      /\ \A u \in Threads : th[u] \in ThreadState /\ Floored(th[u], db.floor)
  BY DEF TypeOK, FloorInv
<1>2. CASE UNCHANGED vars
  BY <1>2 DEF FloorInv, vars
<1>3. ASSUME NEW t \in Threads, ThreadStep(t) PROVE FloorInv'
  <2>1. Floored(th'[t], db'.floor) /\ db'.floor >= db.floor
    BY <1>3, ThreadFloors
  <2>2. db'.floor \in Nat
    BY <1>3, ThreadKeepsData DEF DataOK
  <2>3. PICK z : Moves(t, z)
    BY <1>3, ThreadMoves
  <2>4. \A u \in Threads : u # t => th'[u] = th[u]
    BY <1>1, <2>3 DEF Moves
  <2>5. ASSUME NEW u \in Threads, u # t PROVE Floored(th'[u], db'.floor)
    BY <1>1, <2>1, <2>2, <2>4, <2>5, FloorRises
  <2> QED BY <2>1, <2>5 DEF FloorInv
<1>4. ASSUME NEW t \in Threads, NEW op \in Operations, NEW pw \in Passwords, Begin(t, op, pw)
      PROVE  FloorInv'
  <2> DEFINE z == [Idle EXCEPT !.pc = op, !.ep = epoch, !.pw = pw, !.fl = db.floor]
  <2>1. z.pc = op /\ z.fl = db.floor
    BY DEF Idle
  <2>2. op \notin Lasting /\ op \notin Proving
    BY <1>4 DEF Begin, Kept, CoreAssumption, Operations, Lasting, Proving
  <2>3. Floored(z, db.floor)
    BY <1>1, <2>1, <2>2 DEF Floored
  <2>4. th' = [th EXCEPT ![t] = z] /\ db' = db
    BY <1>4 DEF Begin
  <2> HIDE DEF z
  <2> QED BY <1>1, <2>3, <2>4 DEF FloorInv
<1>5. CASE Crash
  <2>1. db' = db /\ \A u \in Threads : th'[u] = Idle
    BY <1>5 DEF Crash
  <2> QED BY <1>1, <2>1, IdleFloored DEF FloorInv
<1>6. ASSUME NEW rec \in ServerRecords, Swap(rec) PROVE FloorInv'
  BY <1>6 DEF Swap, FloorInv
<1> QED BY <1>2, <1>3, <1>4, <1>5, <1>6 DEF Next

LEMMA FloorInit == ASSUME CoreAssumption, Init PROVE FloorInv
<1>1. db.floor \in Nat
  BY InitTypes DEF TypeOK
<1> QED BY <1>1, IdleFloored DEF Init, FloorInv

LEMMA KeepsSession ==
  ASSUME CoreAssumption, TypeOK, FloorInv, [Next]_vars
  PROVE  SessionKeptStep
<1>1. SUFFICES ASSUME open # Closed, open' # Closed, open' # open
               PROVE  \E t \in Threads : th[t].pc = "accept"
  BY DEF SessionKeptStep
<1>2. ~UNCHANGED vars /\ ~Crash
  BY <1>1 DEF vars, Crash
<1>3. \A u \in Threads, op \in Operations, pw \in Passwords : ~Begin(u, op, pw)
  BY <1>1 DEF Begin
<1>4. \A rec \in ServerRecords : ~Swap(rec)
  BY <1>1 DEF Swap
<1>5. PICK u \in Threads : ThreadStep(u)
  BY <1>2, <1>3, <1>4 DEF Next
<1>6. th[u].pc # "begin"
  BY DEF FloorInv, Floored, Lasting
<1>7. BlobInstall(u)
  BY <1>1, <1>5, <1>6 DEF ThreadStep, UnlockGate, UnlockCheck, UnlockStore, UnlockMigrate,
     UnlockRaise, UnlockInstall, MayInstall, BlobOpen, BlobPersist, ChangeRead, ChangeWrite,
     ChangeRaise, CreateCheck, CreateDb, CreateFile, CreateInstall, Lock, SftpRegister,
     ResetCheck, ResetLock, ResetWipe, ResetUnlink
<1> QED BY <1>7 DEF BlobInstall

LEMMA RefusesStale == ASSUME FloorInv PROVE StaleRefusedStep
BY DEF FloorInv, Floored, StaleRefusedStep, Installs, Proving

(* On a device whose account stays, with any number of threads unlocking,  *)
(* changing the password, locking and opening SFTP sessions, with kills    *)
(* and restored backups: a lock is not undone, an open session is replaced *)
(* only by unlock_from_server_blob, and who begins after the floor rose    *)
(* opens no older record.                                                  *)
THEOREM LocksHold ==
  ASSUME CoreAssumption, Kept
  PROVE  Spec => LockHolds
<1> DEFINE Inv == TypeOK /\ FloorInv
<1>1. Init => Inv
  BY InitTypes, FloorInit
<1>2. Inv /\ [Next]_vars => Inv'
  BY StepTypes, FloorStep
<1>3. Inv /\ [Next]_vars => LockWinsStep /\ SessionKeptStep /\ StaleRefusedStep
  BY UnlockLoses, KeepsSession, RefusesStale
<1> QED BY <1>1, <1>2, <1>3, PTL DEF Spec, LockHolds, LockWins, SessionKept, StaleRefused

(***************************************************************************)
(* The record and the database: KeysetSound                                *)
(***************************************************************************)
(* What KeysetSound rests on: the record is written only by account        *)
(* creation and by the migration of an unlock, and removed by a reset.     *)
Alone == Ops \cap {"blob", "change"} = {} /\ MaxSwap = 0

\* The record a thread verified is the record on disk as long as it has the gate; the
\* floor is never above the record, and there is none between the two removals of a
\* reset; nothing here needs the state lock for the record.
DiskInv ==
  /\ \A t \in Threads : th[t].pc \in Unlocking => file = th[t].rec /\ file # NoRecord
  /\ \A t \in Threads : th[t].pc = "unlink" => db.floor = 0
  /\ file = NoRecord => db.floor = 0
  /\ file # NoRecord => file.gen >= db.floor
  /\ \A t \in Threads : th[t].pc \notin GuardHeld \cup {"blob", "change"}

LEMMA NotNoRecord ==
  ASSUME NEW r
  PROVE  r.fmt = "current" => r # NoRecord
BY DEF NoRecord

\* What a step of a thread may do to the disk.
LEMMA ThreadDisk ==
  ASSUME CoreAssumption, TypeOK, DiskInv, NEW t \in Threads, ThreadStep(t)
  PROVE  /\ \/ file' = file
            \/ UnlockMigrate(t)
            \/ file = NoRecord /\ file'.gen = 1 /\ file' # NoRecord /\ gate' = gate
               /\ db' = db /\ th[t].pc = "record"
            \/ th[t].pc = "unlink" /\ file' = NoRecord /\ db' = db
         /\ \/ db'.floor = db.floor
            \/ UnlockRaise(t)
            \/ db' = NoDb
<1>1. th[t].pc \notin GuardHeld \cup {"blob", "change"}
  BY DEF DiskInv
<1>2. ~((\E rec \in ServerRecords : BlobOpen(t, rec)) \/ BlobPersist(t) \/ BlobInstall(t)
        \/ ChangeRead(t) \/ ChangeWrite(t) \/ ChangeRaise(t))
  BY <1>1 DEF BlobOpen, BlobPersist, BlobInstall, ChangeRead, ChangeWrite, ChangeRaise, GuardHeld
<1>3. \A a : OpenedDb(a).floor = db.floor
  BY DEF OpenedDb, NoDb
<1> USE DEF Bounds
<1>4. CASE \/ UnlockGate(t) \/ UnlockCheck(t) \/ UnlockInstall(t) \/ Lock(t) \/ SftpRegister(t)
           \/ ResetCheck(t) \/ ResetLock(t) \/ CreateCheck(t) \/ CreateInstall(t) \/ UnlockRaise(t)
  BY <1>4 DEF UnlockGate, UnlockCheck, UnlockInstall, Lock, SftpRegister, ResetCheck, ResetLock,
              CreateCheck, CreateInstall, UnlockRaise
<1>5. CASE UnlockStore(t) \/ CreateDb(t)
  BY <1>3, <1>5 DEF UnlockStore, CreateDb
<1>6. CASE UnlockMigrate(t)
  BY <1>6 DEF UnlockMigrate
<1>7. CASE CreateFile(t)
  BY <1>7, NotNoRecord DEF CreateFile
<1>8. CASE ResetWipe(t) \/ ResetUnlink(t)
  BY <1>8 DEF ResetWipe, ResetUnlink
<1> QED BY <1>2, <1>4, <1>5, <1>6, <1>7, <1>8 DEF ThreadStep

\* Where a thread arrives inside the gate or outside every lock it needs no more than
\* it had.
LEMMA ThreadPlaces ==
  ASSUME CoreAssumption, TypeOK, DiskInv, NEW t \in Threads, ThreadStep(t)
  PROVE  /\ th'[t].pc \notin GuardHeld \cup {"blob", "change"}
         /\ th'[t].pc \in Unlocking => file' = th'[t].rec /\ file' # NoRecord
         /\ th'[t].pc = "unlink" => db' = NoDb
<1> DEFINE y == th[t]
<1>1. /\ th \in [Threads -> ThreadState] /\ y \in ThreadState /\ y.rec \in Record
      /\ y.pc \notin GuardHeld \cup {"blob", "change"}
      /\ y.pc \in Unlocking => file = y.rec /\ file # NoRecord
  BY DEF TypeOK, ThreadState, DiskInv
<1>2. ~((\E rec \in ServerRecords : BlobOpen(t, rec)) \/ BlobPersist(t) \/ BlobInstall(t)
        \/ ChangeRead(t) \/ ChangeWrite(t) \/ ChangeRaise(t))
  BY <1>1 DEF BlobOpen, BlobPersist, BlobInstall, ChangeRead, ChangeWrite, ChangeRaise, GuardHeld
<1>3. ASSUME Done(t)
      PROVE  /\ th'[t].pc \notin Unlocking \cup {"unlink"}
             /\ th'[t].pc \notin GuardHeld \cup {"blob", "change"}
  BY <1>1, <1>3, IdleState DEF Done, GateHeld, Unlocking
<1>4. ASSUME NEW c, Go(t, c) PROVE th'[t].pc = c /\ th'[t].rec = y.rec
  BY <1>1, <1>4 DEF Go, ThreadState
<1>5. ASSUME NEW c, NEW r, th' = [th EXCEPT ![t].pc = c, ![t].rec = r]
      PROVE  th'[t].pc = c /\ th'[t].rec = r
  BY <1>1, <1>5 DEF ThreadState
<1>6. /\ (Unlocking \cup {"database", "record", "begin", "relock", "wipe", "unlink"})
           \cap (GuardHeld \cup {"blob", "change"}) = {}
      /\ {"database", "record", "begin", "relock", "wipe"} \cap (Unlocking \cup {"unlink"}) = {}
      /\ "unlink" \notin Unlocking
  BY DEF Unlocking, GuardHeld
<1> USE DEF Bounds, Leave
<1>7. CASE UnlockGate(t)
  <2>1. "verified" \in Unlocking
    BY DEF Unlocking
  <2>2. CASE Done(t)
    BY <1>3, <2>2
  <2>3. CASE Verifies(file, y.pw) /\ th' = [th EXCEPT ![t].pc = "verified", ![t].rec = file]
    <3>1. file' = file
      BY <1>7 DEF UnlockGate
    <3> QED BY <1>5, <1>6, <2>1, <2>3, <3>1 DEF Verifies
  <2> QED BY <1>7, <2>2, <2>3 DEF UnlockGate
<1>8. CASE UnlockCheck(t) \/ UnlockStore(t) \/ UnlockRaise(t)
  <2>1. {"verified", "store", "migrate", "raise", "install"} \subseteq Unlocking
    BY DEF Unlocking
  <2>2. file' = file /\ y.pc \in Unlocking
    BY <1>8, <2>1 DEF UnlockCheck, UnlockStore, UnlockRaise
  <2>3. CASE Done(t)
    BY <1>3, <2>3
  <2>4. CASE \E c \in Unlocking : Go(t, c)
    BY <1>1, <1>4, <1>6, <2>2, <2>4
  <2> QED BY <1>8, <2>1, <2>3, <2>4 DEF UnlockCheck, UnlockStore, UnlockRaise
<1>9. CASE UnlockMigrate(t)
  <2>1. /\ "raise" \in Unlocking /\ file' = Rewrapped(y.rec)
        /\ th' = [th EXCEPT ![t].pc = "raise", ![t].rec = Rewrapped(y.rec)]
    BY <1>9 DEF UnlockMigrate, Unlocking
  <2>2. Rewrapped(y.rec) # NoRecord
    <3>1. Rewrapped(y.rec).fmt = "current"
      BY <1>1 DEF Rewrapped, Record
    <3> QED BY <3>1, NotNoRecord
  <2> QED BY <1>5, <1>6, <2>1, <2>2
<1>10. CASE UnlockInstall(t) \/ Lock(t) \/ SftpRegister(t) \/ CreateInstall(t) \/ ResetUnlink(t)
  BY <1>3, <1>10 DEF UnlockInstall, Lock, SftpRegister, CreateInstall, ResetUnlink
<1>11. CASE CreateCheck(t)
  <2>1. CASE Done(t)
    BY <1>3, <2>1
  <2>2. CASE th' = [th EXCEPT ![t].pc = "database", ![t].acct = sessions + 1]
    <3>1. th'[t].pc = "database"
      BY <1>1, <2>2 DEF ThreadState
    <3> QED BY <1>6, <3>1
  <2> QED BY <1>11, <2>1, <2>2 DEF CreateCheck
<1>12. CASE CreateDb(t) \/ CreateFile(t) \/ ResetCheck(t) \/ ResetLock(t)
  <2>1. CASE Done(t)
    BY <1>3, <2>1
  <2>2. CASE \E c \in {"record", "begin", "relock", "wipe"} : Go(t, c)
    BY <1>4, <1>6, <2>2
  <2> QED BY <1>12, <2>1, <2>2 DEF CreateDb, CreateFile, ResetCheck, ResetLock
<1>13. CASE ResetWipe(t)
  <2>1. CASE Done(t)
    BY <1>3, <2>1
  <2>2. CASE Go(t, "unlink") /\ db' = NoDb
    BY <1>4, <1>6, <2>2
  <2> QED BY <1>13, <2>1, <2>2 DEF ResetWipe
<1> QED BY <1>2, <1>7, <1>8, <1>9, <1>10, <1>11, <1>12, <1>13 DEF ThreadStep

LEMMA DiskStep ==
  ASSUME CoreAssumption, Alone, TypeOK, DiskInv, [Next]_vars
  PROVE  DiskInv'
<1>1. CASE UNCHANGED vars
  BY <1>1 DEF DiskInv, vars
<1>2. ASSUME NEW t \in Threads, ThreadStep(t) PROVE DiskInv'
  <2>1. PICK z : Moves(t, z)
    BY <1>2, ThreadMoves
  <2>2. \A u \in Threads : u # t => th'[u] = th[u]
    BY <2>1 DEF Moves, TypeOK
  <2>3. /\ th'[t].pc \notin GuardHeld \cup {"blob", "change"}
        /\ th'[t].pc \in Unlocking => file' = th'[t].rec /\ file' # NoRecord
        /\ th'[t].pc = "unlink" => db' = NoDb
    BY <1>2, ThreadPlaces
  <2>4. \A u \in Threads : th'[u].pc \notin GuardHeld \cup {"blob", "change"}
    BY <2>2, <2>3 DEF DiskInv
  <2>5. /\ file \in Record /\ file.gen \in Nat /\ db.floor \in Nat /\ NoOne \notin Threads
        /\ \A u \in Threads : gate = u <=> th[u].pc \in Unlocking \cup {"unlink"}
    BY DEF TypeOK, Record, CoreAssumption, GateHeld, Unlocking
  <2>6. /\ \/ file' = file
           \/ UnlockMigrate(t)
           \/ file = NoRecord /\ file'.gen = 1 /\ file' # NoRecord /\ gate' = gate
              /\ db' = db /\ th[t].pc = "record"
           \/ th[t].pc = "unlink" /\ file' = NoRecord /\ db' = db
        /\ \/ db'.floor = db.floor
           \/ UnlockRaise(t)
           \/ db' = NoDb
    BY <1>2, ThreadDisk
  <2>7. \A u \in Threads : th'[u].pc \in Unlocking => file' = th'[u].rec /\ file' # NoRecord
    <3>1. CASE file' = file
      BY <2>2, <2>3, <3>1 DEF DiskInv
    <3>2. CASE UnlockMigrate(t)
      <4>1. gate = t
        BY <2>5, <3>2 DEF UnlockMigrate, Unlocking
      <4> QED BY <2>2, <2>3, <2>5, <4>1
    <3>3. CASE file = NoRecord
      BY <2>2, <2>3, <3>3 DEF DiskInv
    <3>4. CASE th[t].pc = "unlink"
      <4>1. \A u \in Threads : th[u].pc \in Unlocking => u = t
        BY <2>5, <3>4
      <4> QED BY <2>2, <2>3, <3>4, <4>1 DEF Unlocking
    <3> QED BY <2>6, <3>1, <3>2, <3>3, <3>4
  <2>8. NoDb.floor = 0
    BY DEF NoDb
  <2>9. \A u \in Threads : th'[u].pc = "unlink" => db'.floor = 0
    <3>1. SUFFICES ASSUME NEW u \in Threads, th'[u].pc = "unlink" PROVE db'.floor = 0
      OBVIOUS
    <3>2. CASE u = t
      BY <2>3, <2>8, <3>1, <3>2
    <3>3. CASE u # t
      <4>1. th[u].pc = "unlink" /\ db.floor = 0
        BY <2>2, <3>1, <3>3 DEF DiskInv
      <4>2. ~UnlockRaise(t)
        BY <2>5, <3>3, <4>1 DEF UnlockRaise, Unlocking
      <4> QED BY <2>6, <2>8, <4>1, <4>2
    <3> QED BY <3>2, <3>3
  <2>10. CASE UnlockMigrate(t)
    <3>1. file = th[t].rec /\ file # NoRecord
      BY <2>10 DEF UnlockMigrate, Unlocking, DiskInv
    <3>2. db' = db /\ file' = Rewrapped(file)
      BY <2>10, <3>1 DEF UnlockMigrate
    <3>3. file'.gen = file.gen + 1
      BY <2>5, <3>2 DEF Rewrapped, Record
    <3>4. file' # NoRecord
      <4>1. file'.fmt = "current"
        BY <2>5, <3>2 DEF Rewrapped, Record
      <4> QED BY <4>1, NotNoRecord
    <3>5. file'.gen >= db'.floor
      BY <2>5, <3>1, <3>2, <3>3 DEF DiskInv
    <3> QED BY <2>4, <2>7, <2>9, <3>4, <3>5 DEF DiskInv
  <2>11. CASE UnlockRaise(t)
    <3>1. file = th[t].rec /\ file # NoRecord /\ file' = file /\ db' = Raised(file.gen)
      BY <2>11 DEF UnlockRaise, Unlocking, DiskInv
    <3>2. file.gen >= Raised(file.gen).floor
      <4>1. db \in [acct : Nat, floor : Nat] /\ file.gen >= db.floor
        BY <3>1 DEF TypeOK, DiskInv
      <4> QED BY <2>5, <4>1 DEF Raised
    <3> QED BY <2>4, <2>7, <2>9, <3>1, <3>2 DEF DiskInv
  <2>12. CASE file' = file /\ (db'.floor = db.floor \/ db' = NoDb)
    BY <2>4, <2>5, <2>7, <2>8, <2>12, <2>9 DEF DiskInv
  <2>13. CASE file = NoRecord /\ file'.gen = 1 /\ file' # NoRecord /\ db' = db
    <3>1. file'.gen >= db'.floor
      BY <2>5, <2>13 DEF DiskInv
    <3> QED BY <2>4, <2>7, <2>9, <2>13, <3>1 DEF DiskInv
  <2>14. CASE th[t].pc = "unlink" /\ file' = NoRecord /\ db' = db
    BY <2>4, <2>7, <2>14, <2>9 DEF DiskInv
  <2> QED BY <2>6, <2>10, <2>11, <2>12, <2>13, <2>14
<1>3. ASSUME NEW t \in Threads, NEW op \in Operations, NEW pw \in Passwords, Begin(t, op, pw)
      PROVE  DiskInv'
  <2>1. th'[t].pc = op /\ \A u \in Threads : u # t => th'[u] = th[u]
    BY <1>3 DEF Begin, TypeOK, Idle
  <2>2. op \notin Unlocking \cup {"unlink"} /\ op \notin GuardHeld \cup {"blob", "change"}
    <3>1. op \in Ops /\ op \notin {"blob", "change"}
      BY <1>3 DEF Begin, Alone
    <3> QED BY <3>1 DEF Operations, Unlocking, GuardHeld
  <2>3. file' = file /\ db' = db
    BY <1>3 DEF Begin
  <2> QED BY <2>1, <2>2, <2>3 DEF DiskInv
<1>4. CASE Crash
  <2>1. file' = file /\ db' = db /\ \A u \in Threads : th'[u] = Idle
    BY <1>4 DEF Crash
  <2> QED BY <2>1, IdleState DEF DiskInv, GateHeld, Unlocking
<1>5. ASSUME NEW rec \in ServerRecords, Swap(rec) PROVE FALSE
  BY <1>5 DEF Swap, Alone, TypeOK
<1> QED BY <1>1, <1>2, <1>3, <1>4, <1>5 DEF Next

(* What makes NoOrphanDb inductive: the same is true between the two       *)
(* removals of a reset, while the record is still there.                   *)
OrphanInv == db # NoDb /\ (file = NoRecord \/ Emptying) /\ crashes = 0 /\ ~crossed
               => \E t \in Threads : th[t].pc = "record"

LEMMA DiskInit == ASSUME CoreAssumption, Init PROVE DiskInv /\ OrphanInv /\ SftpOfThisEpoch
<1>1. \A t \in Threads : th[t] = Idle
  BY DEF Init
<1>2. FirstRecord.gen \in Nat
  BY RecordsAreRecords, IdleState DEF CoreAssumption, Record
<1>3. file = NoRecord => db = NoDb
  BY DEF Init
<1>4. file # NoRecord => file.gen = db.floor
  BY DEF Init
<1>5. NoDb.floor = 0
  BY DEF NoDb
<1>6. DiskInv
  <2>1. file # NoRecord => file.gen >= db.floor
    BY <1>2, <1>4 DEF Init
  <2> QED BY <1>1, <1>3, <1>5, <2>1, IdleState DEF DiskInv, GateHeld, Unlocking
<1>7. ~Emptying
  BY <1>1 DEF Emptying, Idle
<1> QED BY <1>3, <1>6, <1>7 DEF OrphanInv, SftpOfThisEpoch, Init

\* Only creating the account makes a database without a record, and who made it is
\* there until the record is written or the database gone.
LEMMA OrphanStep ==
  ASSUME CoreAssumption, Alone, TypeOK, DiskInv, OrphanInv, [Next]_vars
  PROVE  OrphanInv'
<1>1. SUFFICES ASSUME db' # NoDb, file' = NoRecord \/ Emptying', crashes' = 0, ~crossed'
               PROVE  \E u \in Threads : th'[u].pc = "record"
  BY DEF OrphanInv
<1>2. CASE UNCHANGED vars
  BY <1>1, <1>2 DEF OrphanInv, Emptying, vars
<1>3. ASSUME NEW t \in Threads, ThreadStep(t)
      PROVE  \E u \in Threads : th'[u].pc = "record"
  <2>1. PICK z : Moves(t, z)
    BY <1>3, ThreadMoves
  <2>2. \A u \in Threads : u # t => th'[u] = th[u]
    BY <2>1 DEF Moves, TypeOK
  <2>3. th \in [Threads -> ThreadState] /\ th[t].pc \notin GuardHeld \cup {"blob", "change"}
    BY DEF TypeOK, DiskInv
  <2>4. th[t].pc \in Unlocking => file # NoRecord /\ \A u \in Threads : th[u].pc # "unlink"
    BY DEF DiskInv, TypeOK, GateHeld, Unlocking
  <2>5. Emptying' /\ ~Emptying => db' = NoDb
    <3>1. SUFFICES ASSUME Emptying', ~Emptying PROVE db' = NoDb
      OBVIOUS
    <3>2. th'[t].pc = "unlink"
      BY <2>2, <3>1 DEF Emptying
    <3> QED BY <1>3, <3>2, ThreadPlaces
  <2>6. Emptying' => Emptying
    BY <1>1, <2>5
  <2> USE DEF Bounds
  <2>7. CASE CreateDb(t)
    <3>1. th' = [th EXCEPT ![t].pc = "record"]
      BY <1>1, <2>7 DEF CreateDb, Go
    <3>2. th'[t].pc = "record"
      BY <2>3, <3>1 DEF ThreadState
    <3> QED BY <3>2
  <2>8. CASE CreateFile(t)
    <3>1. \/ file' # NoRecord /\ crossed' = (crossed \/ Emptying)
          \/ db' = NoDb
      BY <2>8, NotNoRecord DEF CreateFile
    <3>2. ~Emptying
      BY <1>1, <3>1, Zenon
    <3> QED BY <1>1, <2>6, <3>1, <3>2
  <2>9. CASE /\ file' = file \/ Emptying
             /\ db' = db /\ crashes' = crashes /\ crossed' = crossed /\ th[t].pc # "record"
    <3>1. PICK u \in Threads : th[u].pc = "record"
      BY <1>1, <2>6, <2>9 DEF OrphanInv
    <3> QED BY <2>2, <2>9, <3>1
  <2>10. ASSUME \/ UnlockGate(t) \/ UnlockCheck(t) \/ UnlockInstall(t) \/ Lock(t) \/ SftpRegister(t)
                \/ ResetCheck(t) \/ ResetLock(t) \/ CreateCheck(t) \/ CreateInstall(t)
         PROVE  /\ file' = file /\ db' = db /\ crashes' = crashes /\ crossed' = crossed
                /\ th[t].pc # "record"
    BY <2>10 DEF UnlockGate, UnlockCheck, UnlockInstall, Lock, SftpRegister, ResetCheck, ResetLock,
                 CreateCheck, CreateInstall
  <2>11. CASE UnlockStore(t) \/ UnlockRaise(t)
    <3>1. file' = file /\ th[t].pc \in Unlocking
      BY <2>11 DEF UnlockStore, UnlockRaise, Unlocking
    <3>2. file' # NoRecord /\ ~Emptying
      BY <2>4, <3>1 DEF Emptying
    <3> QED BY <1>1, <2>6, <3>2
  <2>12. CASE UnlockMigrate(t)
    <3>1. th'[t].pc = "raise" /\ th[t].pc \in Unlocking
      BY <2>3, <2>12 DEF UnlockMigrate, ThreadState, Unlocking
    <3>2. file' # NoRecord
      BY <1>3, <3>1, ThreadPlaces DEF Unlocking
    <3>3. ~Emptying
      BY <2>4, <3>1 DEF Emptying
    <3> QED BY <1>1, <2>6, <3>2, <3>3
  <2>13. CASE ResetWipe(t)
    <3>1. db' = db \/ db' = NoDb
      BY <2>13 DEF ResetWipe
    <3>2. file' = file /\ crashes' = crashes /\ crossed' = crossed /\ th[t].pc # "record"
      BY <2>13 DEF ResetWipe
    <3> QED BY <1>1, <2>9, <3>1, <3>2
  <2>14. CASE ResetUnlink(t)
    <3>1. Emptying
      BY <2>14 DEF ResetUnlink, Emptying
    <3>2. db' = db /\ crashes' = crashes /\ crossed' = crossed /\ th[t].pc # "record"
      BY <2>14 DEF ResetUnlink
    <3> QED BY <2>9, <3>1, <3>2
  <2>15. ~((\E rec \in ServerRecords : BlobOpen(t, rec)) \/ BlobPersist(t) \/ BlobInstall(t)
        \/ ChangeRead(t) \/ ChangeWrite(t) \/ ChangeRaise(t))
    BY <2>3 DEF BlobOpen, BlobPersist, BlobInstall, ChangeRead, ChangeWrite, ChangeRaise, GuardHeld
  <2> QED BY <1>3, <2>7, <2>8, <2>9, <2>10, <2>11, <2>12, <2>13, <2>14, <2>15 DEF ThreadStep
<1>4. ASSUME NEW t \in Threads, NEW op \in Operations, NEW pw \in Passwords, Begin(t, op, pw)
      PROVE  \E u \in Threads : th'[u].pc = "record"
  <2>1. /\ th[t].pc # "record" /\ file' = file /\ db' = db /\ crashes' = crashes
        /\ crossed' = crossed
    BY <1>4 DEF Begin
  <2>2. /\ \A u \in Threads : u # t => th'[u] = th[u]
        /\ th'[t].pc # "unlink"
    BY <1>4 DEF Begin, TypeOK, Idle, Operations
  <2>3. Emptying' => Emptying
    BY <2>2 DEF Emptying
  <2>4. PICK u \in Threads : th[u].pc = "record"
    BY <1>1, <2>1, <2>3 DEF OrphanInv
  <2> QED BY <2>1, <2>2, <2>4
<1>5. ~Crash
  BY <1>1 DEF Crash, TypeOK
<1>6. ASSUME NEW rec \in ServerRecords, Swap(rec) PROVE FALSE
  BY <1>6 DEF Swap, Alone, TypeOK
<1> QED BY <1>2, <1>3, <1>4, <1>5, <1>6 DEF Next

\* Sessions are registered in the epoch they were asked for in, and go with it.
LEMMA SftpStep ==
  ASSUME TypeOK, SftpOfThisEpoch, [Next]_vars
  PROVE  SftpOfThisEpoch'
<1> DEFINE Kind == \/ sftp' = sftp /\ epoch' = epoch
                   \/ sftp' = {}
                   \/ \E e \in {epoch} : epoch' = epoch /\ sftp' = sftp \cup {e}
<1>1. ASSUME NEW t \in Threads, ThreadStep(t) PROVE Kind
  <2> USE DEF Bounds
  <2>1. CASE UnlockGate(t) \/ UnlockCheck(t) \/ UnlockStore(t) \/ UnlockMigrate(t)
             \/ UnlockRaise(t) \/ UnlockInstall(t)
    BY <2>1 DEF UnlockGate, UnlockCheck, UnlockStore, UnlockMigrate, UnlockRaise, UnlockInstall
  <2>2. CASE (\E rec \in ServerRecords : BlobOpen(t, rec)) \/ BlobPersist(t) \/ BlobInstall(t)
             \/ ChangeRead(t) \/ ChangeWrite(t) \/ ChangeRaise(t)
    BY <2>2 DEF BlobOpen, BlobPersist, BlobInstall, ChangeRead, ChangeWrite, ChangeRaise
  <2>3. CASE CreateCheck(t) \/ CreateDb(t) \/ CreateFile(t) \/ CreateInstall(t)
    BY <2>3 DEF CreateCheck, CreateDb, CreateFile, CreateInstall
  <2>4. CASE Lock(t) \/ ResetCheck(t) \/ ResetLock(t) \/ ResetWipe(t) \/ ResetUnlink(t)
    BY <2>4 DEF Lock, ResetCheck, ResetLock, ResetWipe, ResetUnlink
  <2>5. CASE SftpRegister(t)
    BY <2>5 DEF SftpRegister, MayRegister
  <2> HIDE DEF Kind
  <2> QED BY <1>1, <2>1, <2>2, <2>3, <2>4, <2>5 DEF ThreadStep
<1>2. ASSUME NEW t \in Threads, NEW op \in Operations, NEW pw \in Passwords, Begin(t, op, pw)
      PROVE  Kind
  BY <1>2 DEF Begin, Bounds
<1>3. Crash \/ (\E rec \in ServerRecords : Swap(rec)) \/ UNCHANGED vars => Kind
  BY DEF Crash, Swap, vars, Bounds
<1>4. Kind
  <2> HIDE DEF Kind
  <2> QED BY <1>1, <1>2, <1>3 DEF Next
<1> QED BY <1>4 DEF SftpOfThisEpoch

(* No SFTP session outlives a lock, whatever else the instance does.       *)
THEOREM SftpEndsWithLock ==
  ASSUME CoreAssumption
  PROVE  Spec => []SftpOfThisEpoch
BY InitTypes, StepTypes, DiskInit, SftpStep, PTL DEF Spec

(* Accounts are created, migrated, unlocked and reset by any number of     *)
(* threads, and killed anywhere: the record on disk is never below the     *)
(* floor, so that it still opens; a reset leaves no database behind.       *)
THEOREM KeysetStaysSound ==
  ASSUME CoreAssumption, Alone
  PROVE  Spec => []KeysetSound
<1> DEFINE Inv == TypeOK /\ DiskInv /\ OrphanInv /\ SftpOfThisEpoch
<1>1. Init => Inv
  BY InitTypes, DiskInit
<1>2. Inv /\ [Next]_vars => Inv'
  BY StepTypes, DiskStep, OrphanStep, SftpStep
<1>3. Inv => KeysetSound
  BY DEF KeysetSound, NeverBricked, NoOrphanDb, DiskInv, OrphanInv
<1> QED BY <1>1, <1>2, <1>3, PTL DEF Spec
=============================================================================

------------------------------ MODULE CoreLock ------------------------------
(***************************************************************************)
(* The instance of one device: the keyset record and the database on disk, *)
(* and the session the core holds while it is unlocked (rust-core/crates/  *)
(* ffi with keychain).  Threads create the account, unlock, unlock from a  *)
(* record of the server, change the password, lock, open SFTP sessions and *)
(* reset; the process may be killed between any two of their steps.        *)
(*                                                                         *)
(* unlock holds the unlock gate but takes the state lock only twice and    *)
(* briefly; the other keyset operations hold the state lock throughout and *)
(* not the gate; create_account holds neither.                             *)
(***************************************************************************)
EXTENDS Naturals, FiniteSets

CONSTANTS Threads,
          Ops,        \* what threads do: a subset of the operations below
          Passwords,
          FirstRecord, \* the record on disk at the start, or NoRecord
          ServerRecords, \* older copies a server or a backup may still hold
          MaxOps, MaxCrash, MaxSwap, MaxGen  \* bounds

Operations == {"create", "unlock", "blob", "change", "lock", "sftp", "reset"}
NoOne == "nobody"
NoRecord == [acct |-> 0, gen |-> 0, fmt |-> "none", pw |-> 0]
Records == [acct : {1}, gen : 1..MaxGen, fmt : {"old", "current"}, pw : Passwords]

\* What every instance of this module satisfies.
CoreAssumption ==
  /\ Ops \subseteq Operations
  /\ Passwords \subseteq Nat \ {0}
  /\ FirstRecord \in Records \cup {NoRecord}
  /\ ServerRecords \subseteq Records
  /\ {MaxOps, MaxCrash, MaxSwap, MaxGen} \subseteq Nat
  /\ NoOne \notin Threads

NoDb == [acct |-> 0, floor |-> 0]
Closed == [acct |-> 0, gen |-> 0, no |-> 0]

VARIABLES file,   \* the keyset record on disk
          db,     \* the database on disk: whose it is, and the generation floor
          open,   \* the session in memory (CoreState), or Closed
          epoch,  \* how often lock was called
          gate, guard, \* holders of the unlock gate and of the state lock
          sftp,   \* registered SFTP sessions not yet closed: the epoch each began in
          th,     \* the threads
          ops, crashes, swaps, sessions, \* bounds and the number of sessions so far
          crossed, \* history: an account was created between the two removals of a reset
          wanted  \* history: the password of the last change that was answered

vars == <<file, db, open, epoch, gate, guard, sftp, th, ops, crashes, swaps, sessions, crossed, wanted>>

Idle == [pc |-> "idle", ep |-> 0, pw |-> 0, rec |-> NoRecord, fl |-> 0, acct |-> 0]

Init ==
  /\ file = FirstRecord
  /\ db = IF FirstRecord = NoRecord THEN NoDb
          ELSE [acct |-> FirstRecord.acct, floor |-> FirstRecord.gen]
  /\ open = Closed /\ epoch = 0 /\ gate = NoOne /\ guard = NoOne /\ sftp = {}
  /\ th = [t \in Threads |-> Idle]
  /\ ops = 0 /\ crashes = 0 /\ swaps = 0 /\ sessions = 0 /\ crossed = FALSE
  /\ wanted = FirstRecord.pw

Bounds == <<ops, crashes, swaps, crossed>>
Go(t, pc) == th' = [th EXCEPT ![t].pc = pc]
Done(t) == th' = [th EXCEPT ![t] = Idle]
Session(rec, n) == [acct |-> rec.acct, gen |-> rec.gen, no |-> n]

(* A call begins; unlock and open_sftp read the lock epoch first.          *)
Begin(t, op, pw) ==
  /\ op \in Ops /\ th[t].pc = "idle" /\ ops < MaxOps
  /\ ops' = ops + 1
  /\ th' = [th EXCEPT ![t] = [Idle EXCEPT !.pc = op, !.ep = epoch, !.pw = pw, !.fl = db.floor]]
  /\ UNCHANGED <<file, db, open, epoch, gate, guard, sftp, crashes, swaps, sessions, crossed, wanted>>

(***************************************************************************)
(* unlock (unlock_unless_locked_since)                                     *)
(***************************************************************************)
(* The record opens with its password, in its own or the current scheme.   *)
Verifies(rec, pw) == rec # NoRecord /\ rec.pw = pw

UnlockGate(t) ==
  /\ th[t].pc = "unlock" /\ gate = NoOne
  /\ IF Verifies(file, th[t].pw)
     THEN /\ gate' = t
          /\ th' = [th EXCEPT ![t].pc = "verified", ![t].rec = file]
     ELSE Done(t) /\ UNCHANGED gate
  /\ UNCHANGED <<file, db, open, epoch, guard, sftp, Bounds, sessions, wanted>>

Leave(t) == Done(t) /\ gate' = NoOne

(* The first look at the state: a lock since, or a session already open.   *)
UnlockCheck(t) ==
  /\ th[t].pc = "verified" /\ guard = NoOne
  /\ IF epoch # th[t].ep \/ open # Closed
     THEN Leave(t)
     ELSE Go(t, "store") /\ UNCHANGED gate
  /\ UNCHANGED <<file, db, open, epoch, guard, sftp, Bounds, sessions, wanted>>

(* Opening the database creates it when it is missing; keys of another     *)
(* account do not open it.                                                 *)
OpenedDb(acct) == IF db = NoDb THEN [acct |-> acct, floor |-> 0] ELSE db
Opens(acct) == OpenedDb(acct).acct = acct

(* keyset_generation_above_floor                                           *)
AboveFloor(rec) == rec.gen >= OpenedDb(rec.acct).floor

UnlockStore(t) ==
  /\ th[t].pc = "store"
  /\ db' = OpenedDb(th[t].rec.acct)
  /\ IF Opens(th[t].rec.acct) /\ AboveFloor(th[t].rec)
     THEN /\ Go(t, IF th[t].rec.fmt = "old" THEN "migrate" ELSE "raise")
          /\ UNCHANGED gate
     ELSE Leave(t)
  /\ UNCHANGED <<file, open, epoch, guard, sftp, Bounds, sessions, wanted>>

(* rewrap_to_current: the same secrets and password, one generation on.    *)
Rewrapped(rec) == [rec EXCEPT !.gen = rec.gen + 1, !.fmt = "current"]

MutantUnlockMigrate(t) ==
  /\ th[t].pc = "migrate"
  /\ db' = [db EXCEPT !.floor = th[t].rec.gen + 1]
  /\ th' = [th EXCEPT ![t].pc = "raise", ![t].rec = Rewrapped(th[t].rec)]
  /\ UNCHANGED <<file, open, epoch, gate, guard, sftp, Bounds, sessions, wanted>>

(* The re-wrapped record is on disk before the floor rises.                *)
UnlockMigrate(t) ==
  /\ th[t].pc = "migrate"
  /\ file' = Rewrapped(th[t].rec)
  /\ th' = [th EXCEPT ![t].pc = "raise", ![t].rec = Rewrapped(th[t].rec)]
  /\ UNCHANGED <<db, open, epoch, gate, guard, sftp, Bounds, sessions, wanted>>

Raised(floor) == [db EXCEPT !.floor = IF floor > @ THEN floor ELSE @]

UnlockRaise(t) ==
  /\ th[t].pc = "raise"
  /\ db' = Raised(th[t].rec.gen)
  /\ Go(t, "install")
  /\ UNCHANGED <<file, open, epoch, gate, guard, sftp, Bounds, sessions, wanted>>

MutantMayInstall(t) == open = Closed

(* The second look, together with the install.                             *)
MayInstall(t) == epoch = th[t].ep /\ open = Closed

UnlockInstall(t) ==
  /\ th[t].pc = "install" /\ guard = NoOne
  /\ IF MayInstall(t)
     THEN open' = Session(th[t].rec, sessions + 1) /\ sessions' = sessions + 1
     ELSE UNCHANGED <<open, sessions>>
  /\ Leave(t)
  /\ UNCHANGED <<file, db, epoch, guard, sftp, Bounds, wanted>>

(***************************************************************************)
(* unlock_from_server_blob, under the state lock                           *)
(***************************************************************************)
BlobOpen(t, rec) ==
  /\ th[t].pc = "blob" /\ guard = NoOne
  /\ Verifies(rec, th[t].pw) /\ Opens(rec.acct)
  /\ db' = OpenedDb(rec.acct)
  /\ IF AboveFloor(rec)
     THEN /\ guard' = t
          /\ th' = [th EXCEPT ![t].pc = "persist",
                              ![t].rec = IF rec.fmt = "old" THEN Rewrapped(rec) ELSE rec]
     ELSE Done(t) /\ UNCHANGED guard
  /\ UNCHANGED <<file, open, epoch, gate, sftp, Bounds, sessions, wanted>>

BlobPersist(t) ==
  /\ th[t].pc = "persist"
  /\ file' = th[t].rec
  /\ Go(t, "accept")
  /\ UNCHANGED <<db, open, epoch, gate, guard, sftp, Bounds, sessions, wanted>>

(* The floor, and the session: it replaces one that was open.              *)
BlobInstall(t) ==
  /\ th[t].pc = "accept"
  /\ db' = Raised(th[t].rec.gen)
  /\ open' = Session(th[t].rec, sessions + 1) /\ sessions' = sessions + 1
  /\ guard' = NoOne
  /\ Done(t)
  /\ UNCHANGED <<file, epoch, gate, sftp, Bounds, wanted>>

(***************************************************************************)
(* change_password, under the state lock                                   *)
(***************************************************************************)
ChangeRead(t) ==
  /\ th[t].pc = "change" /\ guard = NoOne
  /\ IF ~Verifies(file, th[t].pw) \/ file.gen >= MaxGen
     THEN Done(t) /\ UNCHANGED guard
     ELSE /\ guard' = t
          /\ \E new \in Passwords \ {file.pw} :
               th' = [th EXCEPT ![t].pc = "rewrite",
                        ![t].rec = [Rewrapped(file) EXCEPT !.pw = new]]
  /\ UNCHANGED <<file, db, open, epoch, gate, sftp, Bounds, sessions, wanted>>

ChangeWrite(t) ==
  /\ th[t].pc = "rewrite"
  /\ file' = th[t].rec
  /\ Go(t, "secure")
  /\ UNCHANGED <<db, open, epoch, gate, guard, sftp, Bounds, sessions, wanted>>

ChangeRaise(t) ==
  /\ th[t].pc = "secure"
  /\ db' = IF Opens(th[t].rec.acct)
           THEN [OpenedDb(th[t].rec.acct) EXCEPT
                   !.floor = IF th[t].rec.gen > @ THEN th[t].rec.gen ELSE @]
           ELSE db
  /\ wanted' = th[t].rec.pw
  /\ guard' = NoOne
  /\ Done(t)
  /\ UNCHANGED <<file, open, epoch, gate, sftp, Bounds, sessions>>

(***************************************************************************)
(* create_account: check, database, keyset file (created exclusively)      *)
(***************************************************************************)
CreateCheck(t) ==
  /\ th[t].pc = "create"
  /\ IF file # NoRecord \/ db # NoDb
     THEN Done(t) /\ UNCHANGED sessions
     ELSE /\ sessions' = sessions + 1
          /\ th' = [th EXCEPT ![t].pc = "database", ![t].acct = sessions + 1]
  /\ UNCHANGED <<file, db, open, epoch, gate, guard, sftp, Bounds, wanted>>

(* Who finds a database its keys do not open removes it again.             *)
CreateDb(t) ==
  /\ th[t].pc = "database"
  /\ IF Opens(th[t].acct)
     THEN db' = OpenedDb(th[t].acct) /\ Go(t, "record")
     ELSE db' = NoDb /\ Done(t)
  /\ UNCHANGED <<file, open, epoch, gate, guard, sftp, Bounds, sessions, wanted>>

(* A reset has removed the database and not yet the record.                *)
Emptying == \E u \in Threads : th[u].pc = "unlink"

CreateFile(t) ==
  /\ th[t].pc = "record"
  /\ IF file = NoRecord
     THEN /\ file' = [acct |-> th[t].acct, gen |-> 1, fmt |-> "current", pw |-> th[t].pw]
          /\ Go(t, "begin")
          /\ crossed' = (crossed \/ Emptying)
          /\ UNCHANGED db
     ELSE db' = NoDb /\ Done(t) /\ UNCHANGED <<file, crossed>>
  /\ UNCHANGED <<open, epoch, gate, guard, sftp, ops, crashes, swaps, sessions, wanted>>

CreateInstall(t) ==
  /\ th[t].pc = "begin" /\ guard = NoOne
  /\ open' = [acct |-> th[t].acct, gen |-> 1, no |-> sessions + 1]
  /\ sessions' = sessions + 1
  /\ wanted' = th[t].pw
  /\ Done(t)
  /\ UNCHANGED <<file, db, epoch, gate, guard, sftp, Bounds>>

(***************************************************************************)
(* lock, open_sftp, reset_instance                                         *)
(***************************************************************************)
(* The epoch, the state and the list of SFTP sessions change together; the *)
(* sessions handed over are closed afterwards.                             *)
Lock(t) ==
  /\ th[t].pc = "lock" /\ guard = NoOne
  /\ epoch' = epoch + 1
  /\ open' = Closed
  /\ sftp' = {}
  /\ Done(t)
  /\ UNCHANGED <<file, db, gate, guard, Bounds, sessions, wanted>>

MayRegister(t) == open # Closed /\ epoch = th[t].ep

(* open_sftp: the connection was made meanwhile; it is kept only if no     *)
(* lock came since the call began.                                         *)
SftpRegister(t) ==
  /\ th[t].pc = "sftp" /\ guard = NoOne
  /\ sftp' = IF MayRegister(t) THEN sftp \cup {th[t].ep} ELSE sftp
  /\ Done(t)
  /\ UNCHANGED <<file, db, open, epoch, gate, guard, Bounds, sessions, wanted>>

(* reset_instance: refused while open ...                                  *)
ResetCheck(t) ==
  /\ th[t].pc = "reset" /\ guard = NoOne
  /\ IF open # Closed THEN Done(t) ELSE Go(t, "relock")
  /\ UNCHANGED <<file, db, open, epoch, gate, guard, sftp, Bounds, sessions, wanted>>

(* ... then a lock, which also ends a session opened since ...             *)
ResetLock(t) ==
  /\ th[t].pc = "relock" /\ guard = NoOne
  /\ epoch' = epoch + 1 /\ open' = Closed /\ sftp' = {}
  /\ Go(t, "wipe")
  /\ UNCHANGED <<file, db, gate, guard, Bounds, sessions, wanted>>

GateFree == gate = NoOne

(* ... then, while no unlock runs, the files go unless one got through:    *)
(* first the database ...                                                  *)
ResetWipe(t) ==
  /\ th[t].pc = "wipe" /\ GateFree /\ guard = NoOne
  /\ IF open # Closed THEN Done(t) /\ UNCHANGED <<db, gate>>
     ELSE db' = NoDb /\ gate' = t /\ Go(t, "unlink")
  /\ UNCHANGED <<file, open, epoch, guard, sftp, Bounds, sessions, wanted>>

(* ... and then the record.                                                *)
ResetUnlink(t) ==
  /\ th[t].pc = "unlink"
  /\ file' = NoRecord
  /\ Leave(t)
  /\ UNCHANGED <<db, open, epoch, guard, sftp, Bounds, sessions, wanted>>

(***************************************************************************)
(* The environment                                                         *)
(***************************************************************************)
Crash ==
  /\ crashes < MaxCrash
  /\ crashes' = crashes + 1
  /\ open' = Closed /\ epoch' = 0 /\ gate' = NoOne /\ guard' = NoOne /\ sftp' = {}
  /\ th' = [t \in Threads |-> Idle]
  /\ UNCHANGED <<file, db, ops, swaps, sessions, crossed, wanted>>

(* An older record comes back on disk, with a backup for example.          *)
Swap(rec) ==
  /\ swaps < MaxSwap /\ file # NoRecord
  /\ swaps' = swaps + 1
  /\ file' = rec
  /\ UNCHANGED <<db, open, epoch, gate, guard, sftp, th, ops, crashes, sessions, crossed, wanted>>

ThreadStep(t) ==
  \/ UnlockGate(t) \/ UnlockCheck(t) \/ UnlockStore(t) \/ UnlockMigrate(t) \/ UnlockRaise(t)
  \/ UnlockInstall(t)
  \/ (\E rec \in ServerRecords : BlobOpen(t, rec)) \/ BlobPersist(t) \/ BlobInstall(t)
  \/ ChangeRead(t) \/ ChangeWrite(t) \/ ChangeRaise(t)
  \/ CreateCheck(t) \/ CreateDb(t) \/ CreateFile(t) \/ CreateInstall(t)
  \/ Lock(t) \/ SftpRegister(t)
  \/ ResetCheck(t) \/ ResetLock(t) \/ ResetWipe(t) \/ ResetUnlink(t)

Next ==
  \/ \E t \in Threads : ThreadStep(t) \/ \E op \in Operations, pw \in Passwords : Begin(t, op, pw)
  \/ Crash
  \/ \E rec \in ServerRecords : Swap(rec)

Spec == Init /\ [][Next]_vars

-----------------------------------------------------------------------------
(* Where a thread has the unlock gate, for an unlock or a reset, and where *)
(* it has the state lock.                                                  *)
Unlocking == {"verified", "store", "migrate", "raise", "install"}
GateHeld == {"verified", "store", "migrate", "raise", "install", "unlink"}
GuardHeld == {"persist", "accept", "rewrite", "secure"}

Record == [acct : Nat, gen : Nat, fmt : {"none", "old", "current"}, pw : Nat]
ThreadState ==
  [pc : Operations \cup GateHeld \cup GuardHeld
         \cup {"idle", "database", "record", "begin", "relock", "wipe"},
   ep : Nat, pw : Nat, rec : Record, fl : Nat, acct : Nat]

(* Records, database and session are well formed, and who has the gate or  *)
(* the state lock is inside the section it protects.                       *)
TypeOK ==
  /\ file \in Record /\ db \in [acct : Nat, floor : Nat]
  /\ open \in [acct : Nat, gen : Nat, no : Nat] /\ (open = Closed <=> open.no = 0)
  /\ epoch \in Nat /\ sftp \in SUBSET Nat /\ wanted \in Nat
  /\ ops \in Nat /\ crashes \in Nat /\ swaps \in Nat /\ sessions \in Nat /\ crossed \in BOOLEAN
  /\ th \in [Threads -> ThreadState]
  /\ gate \in Threads \cup {NoOne} /\ guard \in Threads \cup {NoOne}
  /\ \A t \in Threads : gate = t <=> th[t].pc \in GateHeld
  /\ \A t \in Threads : guard = t <=> th[t].pc \in GuardHeld

Installs(t, pcs) == th[t].pc \in pcs /\ th'[t].pc = "idle" /\ open' # open /\ open' # Closed

\* What LockWins says of one step.
LockWinsStep ==
  \A t \in Threads : Installs(t, {"install"}) => epoch = th[t].ep

(* A lock wins over every unlock that began before it: while the keys were *)
(* derived nothing is installed, also if another unlock opened since.      *)
LockWins == [][LockWinsStep]_vars

\* What SessionKept says of one step.
SessionKeptStep ==
  open # Closed /\ open' # Closed /\ open' # open
    => \E t \in Threads : th[t].pc = "accept"

(* Only unlock_from_server_blob replaces an open session: a typed password *)
(* and a late biometric answer keep the one that is there.                 *)
SessionKept == [][SessionKeptStep]_vars

(* The record on disk is never below the floor, however an operation is    *)
(* cut short: it can still be opened (write the record, then raise).       *)
NeverBricked == file # NoRecord /\ db # NoDb => file.gen >= db.floor

\* What StaleRefused says of one step.
StaleRefusedStep ==
  \A t \in Threads : Installs(t, {"install", "accept"}) => th[t].rec.gen >= th[t].fl

(* After the floor has risen no call that begins later opens the instance  *)
(* with an older record, neither from disk nor from the server.            *)
StaleRefused == [][StaleRefusedStep]_vars

(* No SFTP session outlives the lock that came after it was asked for.     *)
SftpOfThisEpoch == \A e \in sftp : e = epoch

(* A reset leaves nothing behind: a database without a keyset record is    *)
(* there only while an account is being created, after a kill then, or if  *)
(* the record of a new account fell between the two removals of a reset.   *)
NoOrphanDb == db # NoDb /\ file = NoRecord /\ crashes = 0 /\ ~crossed
                => \E t \in Threads : th[t].pc = "record"

(* The record and the database stay usable together, whatever is killed,   *)
(* and no SFTP session outlives a lock.                                    *)
KeysetSound == NeverBricked /\ NoOrphanDb /\ SftpOfThisEpoch

(* A lock is not undone, a session not replaced, an old record refused.    *)
LockHolds == LockWins /\ SessionKept /\ StaleRefused
=============================================================================

--------------------------- MODULE BiometricUnlock ---------------------------
(***************************************************************************)
(* Unlocking the desktop with Touch ID or Windows Hello                    *)
(* (client/src-tauri/src/biometric.rs, its adapters macos.rs and           *)
(* windows.rs, and the commands of commands.rs and keychain.rs that end an *)
(* attempt or change the keyset).                                          *)
(*                                                                         *)
(* Every command is a job of the blocking pool, and no lock is held across *)
(* a prompt, a platform call or the core, so the jobs interleave between   *)
(* any two of their steps.  The core's own unlock (CoreLock) is two steps  *)
(* here: the credentials are checked inside the unlock gate, and the       *)
(* session is installed under the state lock unless a lock came since.     *)
(***************************************************************************)
EXTENDS Naturals

CONSTANTS
  Attempts,    \* unlock screens that ask for a prompt, once each
  Cancels,     \* presses of "use the password instead"
  Typers,      \* unlocks with a typed password (unlock, keychain_unlock)
  Lockers,     \* locks
  Resets,      \* resets of the instance
  Enables,     \* turnings-on of biometric unlock
  Installs,    \* commands that re-wrap or replace the keyset
  Disables,    \* turnings-off of biometric unlock
  Faults,      \* BOOLEAN: the file system and the platform's store may fail
  Jobs         \* bound: the jobs that are asked for

Actors == UNION {Attempts, Cancels, Typers, Lockers, Resets, Enables, Installs, Disables}
Unlockers == Attempts \cup Typers
Nobody == "nobody"
\* What sealed a blob or made a device secret: an enable of this run or one before it.
Seals == Enables \cup {"earlier"}
\* A device secret: on macOS a random Keychain item, on Windows the signature of a stored
\* challenge under the Hello credential; each part named by the enable that made it.
NoSecret == <<"none", "none">>
NoBlob == [by |-> "none", pw |-> 0, secret |-> NoSecret]

\* A job is of one kind, and no job has the name of what is not one.
ASSUME BiometricAssumption ==
  /\ Faults \in BOOLEAN /\ Jobs \subseteq Actors
  /\ Nobody \notin Actors /\ {"earlier", "none"} \cap Actors = {}
  /\ Attempts \cap UNION {Cancels, Typers, Lockers, Resets, Enables, Installs, Disables} = {}
  /\ Cancels \cap UNION {Typers, Lockers, Resets, Enables, Installs, Disables} = {}
  /\ Typers \cap UNION {Lockers, Resets, Enables, Installs, Disables} = {}
  /\ Lockers \cap UNION {Resets, Enables, Installs, Disables} = {}
  /\ Resets \cap UNION {Enables, Installs, Disables} = {}
  /\ Enables \cap UNION {Installs, Disables} = {} /\ Installs \cap Disables = {}

VARIABLES
  platform,   \* whose adapter is built in: "macos" or "windows"
  curId,      \* UnlockAttempts.current: the attempt that may still unlock
  curDismiss, \* and whose prompt its dismisser takes down
  open,       \* the core holds an unlocked session
  epoch,      \* the core's lock epoch
  rec,        \* the keyset record on disk, by its digest (0: none)
  pw,         \* the password it is wrapped with (0: none)
  made,       \* how many records were ever written
  key,        \* the OS keychain remembers the Secret Key
  gate,       \* who is inside the core's unlock gate
  blob,       \* biometric-unlock.bin: who sealed it, the password, the secret it opens under
  item,       \* the Keychain item or the Hello credential: who made it
  challenge,  \* Windows: the stored challenge
  pc,         \* actor -> where its job is
  id,         \* actor -> the attempt it stands for
  began,      \* actor -> the lock epoch when its unlock began
  hand,       \* actor -> the prompt whose dismisser it has taken
  job,        \* actor -> what it found on the way
  dismissed,  \* the attempts whose dismisser was called
  after,      \* history: actor -> the attempts its lock comes after
  doomed,     \* history: attempts a later lock must keep from unlocking
  spared      \* history: actor -> the seal its failed wipe left on disk

attemptVars == <<curId, curDismiss>>
coreVars == <<open, epoch, rec, pw, made, key, gate>>
storeVars == <<platform, blob, item, challenge, spared>>
vars == <<curId, curDismiss, open, epoch, rec, pw, made, key, gate, platform, blob, item,
          challenge, pc, id, began, hand, job, dismissed, after, doomed, spared>>

NoJob == [kind |-> "none", seal |-> NoBlob, got |-> "none", secret |-> NoSecret,
          before |-> 0, ok |-> FALSE, out |-> "none"]
Parts == Seals \cup {"none"}
Blobs == [by : Parts, pw : Nat, secret : Parts \X Parts]
Places ==
  {"idle", "done", "report", "begin", "begun", "asked", "read", "probe", "show", "waiting", "release",
   "wanted?", "locked?", "act", "unlock", "installs", "dismiss", "lock", "refuse", "remove",
   "forget key", "wipe blob", "wipe secret", "verify", "create", "add", "sign", "write", "compare",
   "install", "rewritten?", "stored?"}
Gots == {"none", "cancelled", "failed", "invalidated", "unsupported", "secret", "present"}
Outs == {"none", "ok", "error", "told", "nokey", "cancelled", "invalidated", "superseded", "unlocked"}
Finds == [kind : {"none", "password", "presence"}, seal : Blobs, secret : Parts \X Parts, before : Nat,
          got : Gots, ok : BOOLEAN, out : Outs]

\* Biometric unlock is on or off, the vault open or not, with a password or without.
Init ==
  /\ curId = 0 /\ curDismiss = Nobody /\ platform \in {"macos", "windows"}
  /\ open \in BOOLEAN /\ epoch = 0 /\ rec = 1 /\ made = 1 /\ key \in BOOLEAN /\ gate = Nobody
  /\ pw \in {0, 1} /\ item \in {"none"} \cup (IF pw = 1 THEN {"earlier"} ELSE {})
  /\ challenge = IF platform = "windows" THEN item ELSE "none"
  /\ blob = IF item = "none" THEN NoBlob ELSE [by |-> "earlier", pw |-> 1, secret |-> <<item, challenge>>]
  /\ pc = [x \in Actors |-> "idle"] /\ id = [x \in Actors |-> 0]
  /\ began = [x \in Actors |-> 0] /\ hand = [x \in Actors |-> Nobody]
  /\ job = [x \in Actors |-> NoJob] /\ after = [x \in Actors |-> {}] /\ dismissed = {} /\ doomed = {}
  /\ spared = [x \in Actors |-> "none"]

\* A command is asked for: a job nobody has begun.
Asked(x) == x \in Jobs /\ pc[x] = "idle"
Goto(x, where) == pc' = [pc EXCEPT ![x] = where]
Note(x, j) == job' = [job EXCEPT ![x] = j]
Done(x, out) == Goto(x, "done") /\ Note(x, [job[x] EXCEPT !.out = out])

----------------------------------------------------------------------------
\* UnlockAttempts: the numbering of attempts.

\* The attempts that were named and have not come to an outcome.
InFlight == {a \in Attempts : pc[a] \notin {"idle", "report", "done"}}

\* end: the attempt is over, and its dismisser is for the caller to run.
End(x) == /\ curId' = curId + 1 /\ curDismiss' = Nobody
          /\ hand' = [hand EXCEPT ![x] = curDismiss]

\* The dismisser taken is run: on macOS this ends the wait, on Windows it asks to.
Dismiss(x) == /\ dismissed' = IF hand[x] = Nobody THEN dismissed ELSE dismissed \cup {hand[x]}
              /\ hand' = [hand EXCEPT ![x] = Nobody]

\* biometric_begin: supersede, and the new number goes to the screen.
biometric_begin(a) ==
  /\ Asked(a) /\ End(a)
  /\ id' = [id EXCEPT ![a] = curId + 1] /\ Goto(a, "begin")
  /\ UNCHANGED <<coreVars, storeVars, began, job, dismissed, doomed, after>>

\* The prompt of the attempt before is taken down before the number is answered.
Begun(a) ==
  /\ pc[a] = "begin" /\ Dismiss(a) /\ Goto(a, "begun")
  /\ UNCHANGED <<attemptVars, coreVars, storeVars, id, began, job, doomed, after>>

\* biometric_cancel: ends that attempt only.
biometric_cancel(x, a) ==
  /\ Asked(x) /\ pc[a] \notin {"idle", "begin"}
  /\ IF curId = id[a] THEN End(x) ELSE UNCHANGED <<curId, curDismiss, hand>>
  /\ Goto(x, "dismiss")
  /\ UNCHANGED <<coreVars, storeVars, id, began, job, dismissed, doomed, after>>

DismissLast(x) ==
  /\ x \in Cancels \cup Lockers /\ pc[x] = "dismiss" /\ Dismiss(x) /\ Done(x, "ok")
  /\ UNCHANGED <<attemptVars, coreVars, storeVars, id, began, doomed, after>>

----------------------------------------------------------------------------
\* Locks and resets.

\* A mutant: the lock locks the core and leaves the attempt the current one.
MutLocking(x) ==
  /\ x \in Lockers /\ Asked(x) /\ Goto(x, "lock") /\ after' = [after EXCEPT ![x] = InFlight]
  /\ UNCHANGED <<attemptVars, coreVars, storeVars, id, began, hand, job, dismissed, doomed>>

\* locking: the attempt is over first; the lock remembers whom it came after.
locking(x) ==
  /\ x \in Lockers /\ Asked(x) /\ End(x) /\ Goto(x, "lock")
  /\ after' = [after EXCEPT ![x] = InFlight]
  /\ UNCHANGED <<coreVars, storeVars, id, began, job, dismissed, doomed>>

\* The lock epoch is read when the prompt's job starts.
Started == {a \in InFlight : pc[a] \notin {"begin", "begun"}}

\* Core::lock, under the state lock.
CoreLocks(x) == /\ open' = FALSE /\ epoch' = epoch + 1
                /\ doomed' = doomed \cup Started \cup (after[x] \cap InFlight)

LockCore(x) ==
  /\ x \in Lockers /\ pc[x] = "lock" /\ CoreLocks(x) /\ Goto(x, "dismiss")
  /\ UNCHANGED <<attemptVars, storeVars, rec, pw, made, key, gate, id, began, hand, job, dismissed, after>>

\* reset_instance: supersede, refuse an open instance, lock, remove the files
\* while no unlock runs, forget the Secret Key and what was sealed.
reset_instance(x) ==
  /\ Asked(x) /\ End(x) /\ Goto(x, "dismiss")
  /\ after' = [after EXCEPT ![x] = InFlight]
  /\ UNCHANGED <<coreVars, storeVars, id, began, job, dismissed, doomed>>

ResetDismiss(x) ==
  /\ pc[x] = "dismiss" /\ Dismiss(x) /\ Goto(x, "refuse")
  /\ UNCHANGED <<attemptVars, coreVars, storeVars, id, began, job, doomed, after>>

ResetRefuses(x) ==
  /\ \/ pc[x] = "refuse" /\ open /\ Done(x, "error")
     \/ pc[x] = "refuse" /\ ~open /\ Goto(x, "lock") /\ UNCHANGED job
  /\ UNCHANGED <<attemptVars, coreVars, storeVars, id, began, hand, dismissed, doomed, after>>

ResetLocks(x) ==
  /\ pc[x] = "lock" /\ CoreLocks(x) /\ Goto(x, "remove")
  /\ UNCHANGED <<attemptVars, storeVars, rec, pw, made, key, gate, id, began, hand, job, dismissed, after>>

\* An unlock that got through before the files could go keeps the instance.
ResetRemoves(x) ==
  /\ pc[x] = "remove" /\ gate = Nobody
  /\ IF open THEN Done(x, "error") /\ UNCHANGED <<rec, pw>>
             ELSE rec' = 0 /\ pw' = 0 /\ Goto(x, "forget key") /\ UNCHANGED job
  /\ UNCHANGED <<attemptVars, storeVars, open, epoch, made, key, gate, id, began, hand, dismissed, doomed, after>>

\* keychain_delete_secret_key: best effort.
ResetForgets(x) ==
  /\ pc[x] = "forget key" /\ key' \in (IF Faults THEN {FALSE, key} ELSE {FALSE})
  /\ Goto(x, "wipe blob")
  /\ UNCHANGED <<attemptVars, storeVars, open, epoch, rec, pw, made, gate, id, began, hand, job, dismissed, doomed, after>>

----------------------------------------------------------------------------
\* Forgetting: the blob first, then the device secret, each even if the other fails.

\* remove_file: a missing file is not an error.
ForgetBlob(x) ==
  /\ pc[x] = "wipe blob" /\ Goto(x, "wipe secret")
  /\ \/ blob' = NoBlob /\ Note(x, [job[x] EXCEPT !.ok = TRUE]) /\ UNCHANGED spared
     \/ /\ Faults /\ blob # NoBlob
        /\ spared' = [spared EXCEPT ![x] = blob.by] /\ Note(x, [job[x] EXCEPT !.ok = FALSE])
        /\ UNCHANGED blob
  /\ UNCHANGED <<attemptVars, coreVars, platform, item, challenge, id, began, hand, dismissed, doomed, after>>

\* What the caller of forget_with answers.
Forgotten(x, ok) ==
  CASE x \in Attempts -> IF ok THEN "invalidated" ELSE "error"
    [] x \in Enables -> "error"
    [] x \in Installs /\ ~ok /\ blob # NoBlob -> "told"
    [] x \in Disables /\ ~ok -> "error"
    [] OTHER -> "ok"

\* DeviceSecretStore::delete. On Windows each half is tried even if the other fails.
TouchIdDeletes(ok) == /\ item' = IF ok THEN "none" ELSE item
                      /\ UNCHANGED challenge
HelloDeletes(ok) == IF ok THEN item' = "none" /\ challenge' = "none"
                    ELSE /\ item' \in {"none", item} /\ challenge' \in {"none", challenge}
                         /\ <<item', challenge'>> # NoSecret
ForgetSecret(x) ==
  /\ pc[x] = "wipe secret"
  /\ \E ok \in (IF Faults THEN BOOLEAN ELSE {TRUE}) :
       /\ IF platform = "macos" THEN TouchIdDeletes(ok) ELSE HelloDeletes(ok)
       /\ Note(x, [job[x] EXCEPT !.out = Forgotten(x, ok /\ job[x].ok)])
  /\ Goto(x, IF x \in Attempts THEN "report" ELSE "done")
  /\ UNCHANGED <<attemptVars, coreVars, platform, blob, spared, id, began, hand, dismissed, doomed, after>>

\* biometric_disable.
biometric_disable(x) ==
  /\ Asked(x) /\ Goto(x, "wipe blob")
  /\ UNCHANGED <<attemptVars, coreVars, storeVars, id, began, hand, job, dismissed, doomed, after>>

\* The platform drops the secret: the enrolled fingers changed, Hello was reset.
Reenrol ==
  /\ item # "none" /\ Faults /\ item' = "none"
  /\ UNCHANGED <<attemptVars, coreVars, platform, blob, challenge, spared, pc, id, began, hand, job, dismissed, doomed, after>>

----------------------------------------------------------------------------
\* stored_secret_key_hex_now: a keychain that cannot be read is an error.
KeychainAnswers == (IF key THEN {"key"} ELSE {"none"}) \cup (IF Faults THEN {"error"} ELSE {})

\* Turning it on: seal_password.

\* The digest of the record is read before the password is checked.
biometric_enable(x) ==
  /\ Asked(x)
  /\ \E found \in KeychainAnswers :
       IF found = "key" THEN Goto(x, "verify") /\ Note(x, [job[x] EXCEPT !.before = rec])
                        ELSE Done(x, "error")
  /\ UNCHANGED <<attemptVars, coreVars, storeVars, id, began, hand, dismissed, doomed, after>>

\* Core::verify_unlock_password: only while unlocked, against the record on disk.
verify_unlock_password(x) ==
  /\ pc[x] = "verify"
  /\ IF open /\ rec # 0 /\ pw # 0
       THEN /\ Goto(x, "create") /\ Note(x, [job[x] EXCEPT !.seal = [NoBlob EXCEPT !.by = x, !.pw = pw]])
       ELSE Done(x, "error")
  /\ UNCHANGED <<attemptVars, coreVars, storeVars, id, began, hand, dismissed, doomed, after>>

Cleanup(x) == Goto(x, "wipe blob") /\ UNCHANGED <<item, challenge, job>>

\* TouchId::create drops the old item before it stores the new one; an item another
\* enable has just added is an error.
TouchIdCreates(x) ==
  /\ platform = "macos"
  /\ \/ pc[x] = "create" /\ item' = "none" /\ Goto(x, "add") /\ UNCHANGED <<challenge, job>>
     \/ pc[x] = "create" /\ Faults /\ Cleanup(x)
     \/ /\ pc[x] = "add" /\ item = "none" /\ item' = x /\ Goto(x, "write")
        /\ Note(x, [job[x] EXCEPT !.seal.secret = <<x, "none">>]) /\ UNCHANGED challenge
     \/ pc[x] = "add" /\ (Faults \/ item # "none") /\ Cleanup(x)
  /\ UNCHANGED <<attemptVars, coreVars, platform, blob, spared, id, began, hand, dismissed, doomed, after>>

\* WindowsHello::create: a prompt for the credential, which replaces an earlier one, the
\* challenge, and a second prompt for the signature.
HelloCreates(x) ==
  /\ platform = "windows"
  /\ \/ pc[x] = "create" /\ item' = x /\ Goto(x, "add") /\ UNCHANGED <<challenge, job>>
     \/ pc[x] = "add" /\ challenge' = x /\ Goto(x, "sign") /\ UNCHANGED <<item, job>>
     \/ /\ pc[x] = "sign" /\ item # "none" /\ Goto(x, "write")
        /\ Note(x, [job[x] EXCEPT !.seal.secret = <<item, x>>]) /\ UNCHANGED <<item, challenge>>
     \/ pc[x] \in {"create", "add", "sign"} /\ (Faults \/ item = "none") /\ Cleanup(x)
  /\ UNCHANGED <<attemptVars, coreVars, platform, blob, spared, id, began, hand, dismissed, doomed, after>>

\* write_blob: the old file or the new one, never half of one.
write_blob(x) ==
  /\ pc[x] = "write"
  /\ \/ blob' = job[x].seal /\ Goto(x, "compare")
     \/ Faults /\ UNCHANGED blob /\ Goto(x, "wipe blob")
  /\ UNCHANGED <<attemptVars, coreVars, platform, item, challenge, spared, id, began, hand, job, dismissed, doomed, after>>

\* The second digest: an install in between wipes what was written.
\* A mutant: it is not compared.
MutSameRecord(x) == job[x].before # 0
SameRecord(x) == job[x].before # 0 /\ rec = job[x].before
CompareDigest(x) ==
  /\ pc[x] = "compare"
  /\ IF SameRecord(x) THEN Done(x, "ok") ELSE Goto(x, "wipe blob") /\ UNCHANGED job
  /\ UNCHANGED <<attemptVars, coreVars, storeVars, id, began, hand, dismissed, doomed, after>>

----------------------------------------------------------------------------
\* installing_keyset: create, change_password, pull, recovery, pairing.

InstallBegins(x) ==
  /\ Asked(x) /\ Goto(x, "install") /\ Note(x, [job[x] EXCEPT !.before = rec])
  /\ UNCHANGED <<attemptVars, coreVars, storeVars, id, began, hand, dismissed, doomed, after>>

\* The core writes the new record before its last fallible steps.
InstallWrites(x) ==
  /\ pc[x] = "install"
  /\ rec' = made + 1 /\ made' = made + 1 /\ pw' \in {0, made + 1}
  /\ \E ok \in (IF Faults THEN BOOLEAN ELSE {TRUE}) : Note(x, [job[x] EXCEPT !.ok = ok])
  /\ Goto(x, "rewritten?")
  /\ UNCHANGED <<attemptVars, storeVars, open, epoch, key, gate, id, began, hand, dismissed, doomed, after>>

InstallFails(x) ==
  /\ pc[x] = "install" /\ Faults /\ Goto(x, "rewritten?")
  /\ UNCHANGED <<attemptVars, coreVars, storeVars, id, began, hand, job, dismissed, doomed, after>>

\* wipe_around_install: an error does not mean the old record still stands.
Rewritten(x) == job[x].ok \/ rec # job[x].before
wipe_around_install(x) ==
  /\ pc[x] = "rewritten?"
  /\ IF Rewritten(x) THEN Goto(x, "stored?") /\ UNCHANGED job ELSE Done(x, "error")
  /\ UNCHANGED <<attemptVars, coreVars, storeVars, id, began, hand, dismissed, doomed, after>>

\* Without a blob the platform is not asked at all.
forget_after_keyset_change(x) ==
  /\ pc[x] = "stored?"
  /\ IF blob = NoBlob THEN Done(x, "ok") ELSE Goto(x, "wipe blob") /\ UNCHANGED job
  /\ UNCHANGED <<attemptVars, coreVars, storeVars, id, began, hand, dismissed, doomed, after>>

----------------------------------------------------------------------------
\* The unlock of an attempt.

\* The number was taken before; the lock epoch is read now.
biometric_unlock(a, kind) ==
  /\ pc[a] = "begun" /\ began' = [began EXCEPT ![a] = epoch]
  /\ Goto(a, "asked") /\ Note(a, [job[a] EXCEPT !.kind = kind])
  /\ UNCHANGED <<attemptVars, coreVars, storeVars, id, hand, dismissed, doomed, after>>

\* attempt_outcome: an attempt that is over shows no prompt.
attempt_outcome(a) ==
  /\ pc[a] = "asked"
  /\ IF curId = id[a] THEN Goto(a, "read") /\ UNCHANGED job
     ELSE Goto(a, "report") /\ Note(a, [job[a] EXCEPT !.out = "superseded"])
  /\ UNCHANGED <<attemptVars, coreVars, storeVars, id, began, hand, dismissed, doomed, after>>

Report(a, out) == Goto(a, "report") /\ Note(a, [job[a] EXCEPT !.out = out])

\* What is sealed is read, and the Secret Key asked for, before the prompt.
ReadSealed(a) ==
  /\ pc[a] = "read"
  /\ IF job[a].kind = "password" /\ blob = NoBlob THEN Report(a, "error")
     ELSE \E found \in KeychainAnswers :
            CASE found = "key" -> Goto(a, "probe") /\ Note(a, [job[a] EXCEPT !.seal = blob])
              [] found = "none" -> Report(a, "nokey")
              [] OTHER -> Report(a, "error")
  /\ UNCHANGED <<attemptVars, coreVars, storeVars, id, began, hand, dismissed, doomed, after>>

Answered(a, got) == Goto(a, "wanted?") /\ Note(a, [job[a] EXCEPT !.got = got])

\* What the adapter finds before it prompts: "present" goes on to the prompt.
TouchIdState == (IF item = "none" THEN {"invalidated"} ELSE {"present"})
                \cup (IF Faults THEN {"unsupported"} ELSE {})
HelloState == (IF item = "none" \/ challenge = "none" THEN {"invalidated"} ELSE {"present"})
              \cup (IF Faults THEN {"unsupported", "failed"} ELSE {})
Probe(a) ==
  /\ pc[a] = "probe"
  /\ \E found \in (CASE job[a].kind = "presence" -> {"present"}
                      [] platform = "macos" -> TouchIdState
                      [] OTHER -> HelloState) :
       IF found # "present" THEN Answered(a, found)
       ELSE Goto(a, "show") /\ Note(a, [job[a] EXCEPT !.secret = <<"none", challenge>>])
  /\ UNCHANGED <<attemptVars, coreVars, storeVars, id, began, hand, dismissed, doomed, after>>

\* Prompt::wait: an attempt that is over has its own dismisser called at once.
showing(a) ==
  /\ pc[a] = "show" /\ Goto(a, "waiting")
  /\ IF curId = id[a] THEN curDismiss' = a /\ UNCHANGED dismissed
     ELSE dismissed' = dismissed \cup {a} /\ UNCHANGED curDismiss
  /\ UNCHANGED <<curId, coreVars, storeVars, id, began, hand, job, doomed, after>>

\* An invalidated LAContext refuses to evaluate; a cancelled Hello dialog may still be answered.
MayMatch(a) == platform = "windows" \/ a \notin dismissed
answered(a) ==
  /\ pc[a] = "waiting"
  /\ curDismiss' = IF curId = id[a] THEN Nobody ELSE curDismiss
  /\ \/ \E got \in {"cancelled", "failed"} : Answered(a, got)
     \/ MayMatch(a) /\ Goto(a, "release") /\ UNCHANGED job
  /\ UNCHANGED <<curId, coreVars, storeVars, id, began, hand, dismissed, doomed, after>>

\* What a matched prompt releases: the secret, if it is still there.
ReadSecret(a) ==
  /\ pc[a] = "release"
  /\ IF job[a].kind = "presence" THEN Answered(a, "present")
     ELSE IF item = "none" THEN Answered(a, "invalidated")
     ELSE Goto(a, "wanted?") /\ Note(a, [job[a] EXCEPT !.got = "secret", !.secret = <<item, @[2]>>])
  /\ UNCHANGED <<attemptVars, coreVars, storeVars, id, began, hand, dismissed, doomed, after>>

\* The answer counts only for the attempt still waited for ...
StillWanted(a) ==
  /\ pc[a] = "wanted?"
  /\ IF curId = id[a] THEN Goto(a, "locked?") /\ UNCHANGED job ELSE Report(a, "superseded")
  /\ UNCHANGED <<attemptVars, coreVars, storeVars, id, began, hand, dismissed, doomed, after>>

\* ... and while the vault is locked.
StillLocked(a) ==
  /\ pc[a] = "locked?"
  /\ IF open THEN Report(a, "superseded") ELSE Goto(a, "act") /\ UNCHANGED job
  /\ UNCHANGED <<attemptVars, coreVars, storeVars, id, began, hand, dismissed, doomed, after>>

\* What the answer leads to: material is wiped only when it is explicitly dead.
Dead(a) == /\ job[a].kind = "password"
           /\ \/ job[a].got = "invalidated"
              \/ job[a].got = "secret" /\ job[a].seal.secret # job[a].secret
Act(a) ==
  /\ pc[a] = "act"
  /\ \/ job[a].got \in {"cancelled", "unsupported"} /\ Report(a, "cancelled")
     \/ job[a].got = "failed" /\ Report(a, "error")
     \/ Dead(a) /\ Goto(a, "wipe blob") /\ UNCHANGED job
     \/ /\ ~Dead(a) /\ job[a].got \in {"secret", "present"}
        /\ Goto(a, "unlock") /\ UNCHANGED job
  /\ UNCHANGED <<attemptVars, coreVars, storeVars, id, began, hand, dismissed, doomed, after>>

\* unlock, keychain_unlock: the typed path ends the attempt, then asks the core.
TypedUnlock(x) ==
  /\ Asked(x) /\ End(x) /\ Goto(x, "dismiss")
  /\ UNCHANGED <<coreVars, storeVars, id, began, job, dismissed, doomed, after>>
TypedBegins(x) ==
  /\ pc[x] = "dismiss" /\ Dismiss(x) /\ Goto(x, "unlock")
  /\ began' = [began EXCEPT ![x] = epoch]
  /\ UNCHANGED <<attemptVars, coreVars, storeVars, id, job, doomed, after>>

Ends(x, out) == Note(x, [job[x] EXCEPT !.out = out])
                /\ Goto(x, IF x \in Attempts THEN "report" ELSE "done")

\* Core::unlock_unless_locked_since, inside the gate: the credentials first.
Opens(x) == x \in Typers \/ (IF job[x].kind = "presence" THEN pw = 0 ELSE pw = job[x].seal.pw)
CoreVerifies(x) ==
  /\ x \in Unlockers /\ pc[x] = "unlock" /\ gate = Nobody
  /\ \/ rec # 0 /\ Opens(x) /\ gate' = x /\ Goto(x, "installs") /\ UNCHANGED job
     \/ (rec = 0 \/ x \in Typers) /\ Ends(x, "error") /\ UNCHANGED gate
     \/ rec # 0 /\ ~Opens(x) /\ job[x].kind = "presence" /\ Ends(x, "nokey") /\ UNCHANGED gate
     \/ rec # 0 /\ ~Opens(x) /\ job[x].kind # "presence" /\ Goto(x, "wipe blob") /\ UNCHANGED <<job, gate>>
  /\ UNCHANGED <<attemptVars, storeVars, open, epoch, rec, pw, made, key, id, began, hand, dismissed, doomed, after>>

\* A lock since the unlock began wins.
CoreInstalls(x) ==
  /\ pc[x] = "installs" /\ gate' = Nobody
  /\ IF epoch # began[x] THEN Ends(x, "superseded") /\ UNCHANGED open
     ELSE open' = TRUE /\ Ends(x, "unlocked")
  /\ UNCHANGED <<attemptVars, storeVars, epoch, rec, pw, made, key, id, began, hand, dismissed, doomed, after>>

\* reported: an attempt that is over says only that, unless it did unlock.
reported(a) ==
  /\ pc[a] = "report"
  /\ Done(a, IF job[a].out = "unlocked" \/ curId = id[a] THEN job[a].out ELSE "superseded")
  /\ UNCHANGED <<attemptVars, coreVars, storeVars, id, began, hand, dismissed, doomed, after>>

----------------------------------------------------------------------------
AttemptStep(a) ==
  \/ biometric_begin(a) \/ Begun(a)
  \/ \E kind \in {"password", "presence"} : biometric_unlock(a, kind)
  \/ attempt_outcome(a) \/ ReadSealed(a) \/ Probe(a) \/ showing(a) \/ answered(a) \/ ReadSecret(a)
  \/ StillWanted(a) \/ StillLocked(a) \/ Act(a) \/ reported(a)
UnlockStep(x) == CoreVerifies(x) \/ CoreInstalls(x)
ResetStep(x) ==
  \/ reset_instance(x) \/ ResetDismiss(x) \/ ResetRefuses(x)
  \/ ResetLocks(x) \/ ResetRemoves(x) \/ ResetForgets(x)
EnableStep(x) ==
  \/ biometric_enable(x) \/ verify_unlock_password(x) \/ TouchIdCreates(x) \/ HelloCreates(x)
  \/ write_blob(x) \/ CompareDigest(x)
InstallStep(x) ==
  \/ InstallBegins(x) \/ InstallWrites(x) \/ InstallFails(x)
  \/ wipe_around_install(x) \/ forget_after_keyset_change(x)

Next ==
  \/ \E a \in Attempts : AttemptStep(a)
  \/ \E x \in Unlockers : UnlockStep(x)
  \/ \E x \in Cancels, a \in Attempts : biometric_cancel(x, a)
  \/ \E x \in Cancels \cup Lockers : DismissLast(x)
  \/ \E x \in Lockers : locking(x) \/ LockCore(x)
  \/ \E x \in Resets : ResetStep(x)
  \/ \E x \in Typers : TypedUnlock(x) \/ TypedBegins(x)
  \/ \E x \in Enables : EnableStep(x)
  \/ \E x \in Installs : InstallStep(x)
  \/ \E x \in Disables : biometric_disable(x)
  \/ \E x \in Actors : ForgetBlob(x) \/ ForgetSecret(x)
  \/ Reenrol

Spec == Init /\ [][Next]_vars

----------------------------------------------------------------------------
TypeOK ==
  /\ curId \in Nat /\ platform \in {"macos", "windows"} /\ curDismiss \in Attempts \cup {Nobody}
  /\ open \in BOOLEAN /\ epoch \in Nat /\ rec \in Nat /\ pw \in Nat /\ made \in Nat /\ key \in BOOLEAN
  /\ gate \in Unlockers \cup {Nobody}
  /\ blob \in Blobs /\ item \in Parts /\ challenge \in Parts
  /\ pc \in [Actors -> Places] /\ job \in [Actors -> Finds]
  /\ id \in [Actors -> Nat] /\ began \in [Actors -> Nat] /\ hand \in [Actors -> Attempts \cup {Nobody}]
  /\ after \in [Actors -> SUBSET Attempts]
  /\ dismissed \subseteq Attempts /\ doomed \subseteq Attempts
  /\ spared \in [Actors -> Parts]

\* Once every job has ended, a password sealed for a keyset that is gone is on disk only
\* if a wipe of that very file failed: an install that races the enable is noticed by one
\* of the two (seal_password, wipe_around_install).
NoStaleSeal ==
  (blob # NoBlob /\ blob.pw # pw /\ \A x \in Actors : pc[x] \in {"idle", "done"})
    => \E x \in Actors : spared[x] = blob.by

\* A lock wins over an attempt: one that the lock came after never opens the vault,
\* wherever its prompt, its checks and its key derivation stand (the number is taken
\* before the lock epoch is read, the lock ends the number before it bumps the epoch).
LockBeatsPrompt == \A a \in Attempts : job[a].out = "unlocked" => a \notin doomed

\* The prompt of an attempt that is over does not stay up with nobody to take it down:
\* its dismisser was called, or is in the hand of whoever ended the attempt.
PromptReachable ==
  \A a \in Attempts : (pc[a] = "waiting" /\ curId # id[a])
                        => a \in dismissed \/ \E x \in Actors : hand[x] = a

\* What holds of the attempts, whatever interleaves.
AttemptsSound == LockBeatsPrompt /\ PromptReachable
=============================================================================

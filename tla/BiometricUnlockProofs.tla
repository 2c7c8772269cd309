----------------------- MODULE BiometricUnlockProofs ------------------------
(***************************************************************************)
(* Proofs about BiometricUnlock: for any number of prompts, locks, resets, *)
(* enables, installs and typed unlocks, with or without failures, a lock   *)
(* beats every attempt it came after, no prompt stays up that nobody can   *)
(* take down, and a password sealed for a keyset that is gone stays on     *)
(* disk only if a wipe of that very file failed.                           *)
(***************************************************************************)
EXTENDS BiometricUnlock, TLAPS

(***************************************************************************)
(* The inductive invariant.                                                *)
(***************************************************************************)
\* Numbers of attempts and lock epochs are never ahead of the present ones, and two
\* attempts have two numbers.
NumInv ==
  /\ \A a \in Attempts : id[a] <= curId /\ began[a] <= epoch
  /\ \A a, b \in Attempts : a # b /\ pc[a] # "idle" /\ pc[b] # "idle" => id[a] # id[b]

\* Why a doomed attempt cannot unlock any more: it is over, or it read the lock epoch
\* before a lock, or it has still to find its number superseded.
Overtaken(a) ==
  \/ pc[a] \in {"report", "done"}
  \/ pc[a] \notin {"idle", "begin", "begun"} /\ began[a] < epoch
  \/ pc[a] \in {"begin", "begun", "asked"} /\ id[a] < curId
DoomInv ==
  /\ \A a \in Attempts : job[a].out = "unlocked" => pc[a] \in {"report", "done"} /\ a \notin doomed
  /\ \A a \in doomed : Overtaken(a)
  /\ \A x \in Actors : \A a \in after[x] : pc[a] # "idle" /\ id[a] < curId

\* The dismisser of the prompt that is up is with the current attempt, in somebody's
\* hand or was called; a job that has not begun has nothing in its hand.
PromptInv ==
  /\ \A a \in Attempts : pc[a] = "waiting" =>
       IF curId = id[a] THEN curDismiss = a ELSE a \in dismissed \/ \E x \in Actors : hand[x] = a
  /\ \A x \in Actors : pc[x] = "idle" => hand[x] = Nobody

\* An enable past its check of the password: unless the record changed since its digest
\* was read, what it seals is the password of today.
SealKnown(x) == job[x].before # 0 /\ rec = job[x].before => job[x].seal.pw = pw
EnableInv ==
  /\ rec <= made /\ \A x \in Actors : job[x].before <= made
  /\ \A x \in Enables : pc[x] \in {"create", "add", "sign", "write"} => SealKnown(x)

\* The jobs that have still to wipe what is stale, or to find that they must.
Covers(x) ==
  \/ pc[x] = "wipe blob"
  \/ x \in Installs /\ (pc[x] = "stored?" \/ (pc[x] = "rewritten?" /\ Rewritten(x)))
  \/ x \in Enables /\ pc[x] = "compare" /\ ~SameRecord(x)
  \/ x \in Resets /\ pc[x] = "forget key"
StaleInv ==
  blob # NoBlob /\ blob.pw # pw =>
    (\E x \in Actors : spared[x] = blob.by) \/ (\E x \in Actors : Covers(x))

IInv == TypeOK /\ NumInv /\ DoomInv /\ PromptInv /\ EnableInv /\ StaleInv

(***************************************************************************)
(* Jobs that only move.  x goes on to q with j noted; what the part of the *)
(* invariant speaks of is otherwise left alone.                            *)
(***************************************************************************)
Moves(x, q, j) == pc' = [pc EXCEPT ![x] = q] /\ job' = [job EXCEPT ![x] = j]

LEMMA Moved ==
  ASSUME TypeOK, NEW x \in Actors, NEW q \in Places, NEW j \in Finds, Moves(x, q, j)
  PROVE  /\ pc' \in [Actors -> Places] /\ job' \in [Actors -> Finds]
         /\ pc'[x] = q /\ job'[x] = j
         /\ \A y \in Actors : y # x => pc'[y] = pc[y] /\ job'[y] = job[y]
BY DEF TypeOK, Moves

LEMMA Kinds ==
  /\ Attempts \subseteq Actors /\ Cancels \subseteq Actors /\ Typers \subseteq Actors
  /\ Lockers \subseteq Actors /\ Resets \subseteq Actors /\ Enables \subseteq Actors
  /\ Installs \subseteq Actors /\ Disables \subseteq Actors
  /\ Nobody \notin Actors
  /\ \A x \in Attempts : x \notin Cancels /\ x \notin Typers /\ x \notin Lockers /\ x \notin Resets
                         /\ x \notin Enables /\ x \notin Installs /\ x \notin Disables
  /\ \A x \in Resets : x \notin Enables /\ x \notin Installs /\ x \notin Disables
                       /\ x \notin Cancels /\ x \notin Typers /\ x \notin Lockers
  /\ \A x \in Enables : x \notin Installs /\ x \notin Disables
                        /\ x \notin Cancels /\ x \notin Typers /\ x \notin Lockers
  /\ \A x \in Installs : x \notin Disables /\ x \notin Cancels /\ x \notin Typers /\ x \notin Lockers
BY BiometricAssumption DEF Actors

LEMMA NumKept ==
  ASSUME TypeOK, NumInv, NEW x \in Actors, NEW q \in Places, NEW j \in Finds, Moves(x, q, j),
         q # "idle", x \in Attempts => pc[x] # "idle",
         UNCHANGED <<id, began>>, curId' \in Nat, epoch' \in Nat, curId <= curId', epoch <= epoch'
  PROVE  NumInv'
<1>1. \A a \in Attempts : id[a] \in Nat /\ began[a] \in Nat
  BY Kinds DEF TypeOK
<1>2. \A a \in Attempts : id'[a] <= curId' /\ began'[a] <= epoch'
  BY <1>1 DEF NumInv, TypeOK
<1>3. \A a \in Attempts : pc'[a] # "idle" => pc[a] # "idle"
  BY Moved, Kinds
<1> QED
  BY <1>2, <1>3 DEF NumInv

LEMMA DoomKept ==
  ASSUME TypeOK, DoomInv, NEW x \in Actors, NEW q \in Places, NEW j \in Finds, Moves(x, q, j),
         q # "idle", UNCHANGED <<id, began, doomed, after, epoch>>, curId' \in Nat, curId <= curId',
         x \in Attempts => /\ pc[x] \notin {"idle", "begin", "begun", "asked"}
                           /\ q \notin {"begin", "begun", "asked"}
                           /\ pc[x] \in {"report", "done"} => q \in {"report", "done"}
                           /\ j.out = "unlocked" => q \in {"report", "done"} /\ x \notin doomed
  PROVE  DoomInv'
<1> USE Kinds
<1>1. \A a \in Attempts : job'[a].out = "unlocked" => pc'[a] \in {"report", "done"} /\ a \notin doomed'
  BY Moved DEF DoomInv
<1>2. ASSUME NEW a \in doomed' PROVE Overtaken(a)'
  <2>1. a \in Attempts /\ a \in doomed /\ Overtaken(a) /\ id[a] \in Nat
    BY DEF TypeOK, DoomInv
  <2>2. CASE a = x
    BY <2>1, <2>2, Moved DEF Overtaken
  <2>3. CASE a # x
    BY <2>1, <2>3, Moved DEF Overtaken, TypeOK
  <2> QED
    BY <2>2, <2>3
<1>3. ASSUME NEW y \in Actors, NEW a \in after'[y] PROVE pc'[a] # "idle" /\ id'[a] < curId'
  <2>1. a \in Attempts /\ pc[a] # "idle" /\ id[a] < curId /\ id[a] \in Nat
    BY DEF TypeOK, DoomInv
  <2> QED
    BY <2>1, Moved DEF TypeOK
<1> QED
  BY <1>1, <1>2, <1>3 DEF DoomInv

LEMMA PromptKept ==
  ASSUME TypeOK, PromptInv, NEW x \in Actors, NEW q \in Places, NEW j \in Finds, Moves(x, q, j),
         q \notin {"idle", "waiting"}, UNCHANGED <<id, curId, curDismiss, hand, dismissed>>
  PROVE  PromptInv'
<1> USE Kinds
<1>1. \A a \in Attempts : pc'[a] = "waiting" => pc[a] = "waiting"
  BY Moved
<1>2. \A y \in Actors : pc'[y] = "idle" => pc[y] = "idle"
  BY Moved
<1> QED
  BY <1>1, <1>2 DEF PromptInv

LEMMA EnableKept ==
  ASSUME TypeOK, EnableInv, NEW x \in Actors, NEW q \in Places, NEW j \in Finds, Moves(x, q, j),
         UNCHANGED <<rec, made, pw>>, j.before <= made,
         x \in Enables /\ q \in {"create", "add", "sign", "write"}
           => (j.before # 0 /\ rec = j.before => j.seal.pw = pw)
  PROVE  EnableInv'
<1> USE Kinds
<1>1. \A y \in Actors : job'[y].before <= made'
  BY Moved DEF EnableInv
<1>2. ASSUME NEW y \in Enables, pc'[y] \in {"create", "add", "sign", "write"} PROVE SealKnown(y)'
  BY <1>2, Moved DEF EnableInv, SealKnown
<1> QED
  BY <1>1, <1>2 DEF EnableInv

LEMMA StaleKept ==
  ASSUME TypeOK, StaleInv, NEW x \in Actors, NEW q \in Places, NEW j \in Finds, Moves(x, q, j),
         UNCHANGED <<rec, pw, blob, spared>>, Covers(x) => Covers(x)' \/ blob = NoBlob
  PROVE  StaleInv'
<1>1. SUFFICES ASSUME blob # NoBlob, blob.pw # pw, \A y \in Actors : spared[y] # blob.by
               PROVE  \E y \in Actors : Covers(y)'
  BY DEF StaleInv
<1>2. PICK y \in Actors : Covers(y)
  BY <1>1 DEF StaleInv
<1>3. CASE y = x
  BY <1>1, <1>2, <1>3
<1>4. CASE y # x
  BY <1>2, <1>4, Moved DEF Covers, Rewritten, SameRecord
<1> QED
  BY <1>3, <1>4

\* What no part of the invariant but the types speaks of.
Odds == /\ open \in BOOLEAN /\ key \in BOOLEAN /\ gate \in Unlockers \cup {Nobody}
        /\ item \in Parts /\ challenge \in Parts

\* A job that moves and does nothing else the invariant speaks of.
LEMMA PlainStep ==
  ASSUME IInv, NEW x \in Actors, NEW q \in Places, NEW j \in Finds, Moves(x, q, j), Odds',
         q \notin {"idle", "waiting"}, j.before \in {job[x].before, rec},
         UNCHANGED <<curId, curDismiss, epoch, rec, pw, made, platform, blob, spared,
                     id, began, hand, dismissed, doomed, after>>,
         x \in Attempts => /\ pc[x] \notin {"idle", "begin", "begun", "asked"}
                           /\ q \notin {"begin", "begun", "asked"}
                           /\ pc[x] \in {"report", "done"} => q \in {"report", "done"}
                           /\ j.out = "unlocked" => q \in {"report", "done"} /\ x \notin doomed,
         x \in Enables /\ q \in {"create", "add", "sign", "write"}
           => (j.before # 0 /\ rec = j.before => j.seal.pw = pw),
         Covers(x) => Covers(x)' \/ blob = NoBlob
  PROVE  IInv'
<1>1. TypeOK'
  BY Moved DEF IInv, TypeOK, Odds
<1>2. NumInv'
  BY NumKept DEF IInv, TypeOK
<1>3. DoomInv'
  BY DoomKept DEF IInv, TypeOK
<1>4. PromptInv'
  BY PromptKept DEF IInv
<1>5. EnableInv'
  BY EnableKept DEF IInv, EnableInv
<1>6. StaleInv'
  BY StaleKept DEF IInv
<1> QED
  BY <1>1, <1>2, <1>3, <1>4, <1>5, <1>6 DEF IInv

(***************************************************************************)
(* What a job notes.                                                       *)
(***************************************************************************)
LEMMA NotedOut ==
  ASSUME NEW j \in Finds, NEW o \in Outs
  PROVE  /\ [j EXCEPT !.out = o] \in Finds /\ [j EXCEPT !.out = o].out = o
         /\ [j EXCEPT !.out = o].before = j.before
BY DEF Finds

LEMMA NotedGot ==
  ASSUME NEW j \in Finds, NEW g \in Gots
  PROVE  /\ [j EXCEPT !.got = g] \in Finds /\ [j EXCEPT !.got = g].out = j.out
         /\ [j EXCEPT !.got = g].before = j.before
BY DEF Finds

LEMMA NotedSecret ==
  ASSUME NEW j \in Finds, NEW s \in Parts \X Parts
  PROVE  /\ [j EXCEPT !.secret = s] \in Finds /\ [j EXCEPT !.secret = s].out = j.out
         /\ [j EXCEPT !.secret = s].before = j.before
BY DEF Finds

LEMMA NotedRelease ==
  ASSUME NEW j \in Finds, NEW p \in Parts
  PROVE  LET k == [j EXCEPT !.got = "secret", !.secret = <<p, @[2]>>] IN
         k \in Finds /\ k.out = j.out /\ k.before = j.before
<1> DEFINE s == <<p, j.secret[2]>>
           k == [j EXCEPT !.got = "secret", !.secret = s]
<1>1. s \in Parts \X Parts
  BY DEF Finds
<1> HIDE DEF s
<1>2. k \in Finds /\ k.out = j.out /\ k.before = j.before
  BY <1>1 DEF Finds, Gots
<1> QED
  BY <1>2 DEF s

LEMMA NotedSeal ==
  ASSUME NEW j \in Finds, NEW s \in Blobs
  PROVE  /\ [j EXCEPT !.seal = s] \in Finds /\ [j EXCEPT !.seal = s].out = j.out
         /\ [j EXCEPT !.seal = s].before = j.before /\ [j EXCEPT !.seal = s].seal = s
BY DEF Finds

LEMMA NotedBefore ==
  ASSUME NEW j \in Finds, NEW n \in Nat
  PROVE  /\ [j EXCEPT !.before = n] \in Finds /\ [j EXCEPT !.before = n].before = n
         /\ [j EXCEPT !.before = n].out = j.out /\ [j EXCEPT !.before = n].seal = j.seal
BY DEF Finds

LEMMA NotedKind ==
  ASSUME NEW j \in Finds, NEW k \in {"password", "presence"}
  PROVE  /\ [j EXCEPT !.kind = k] \in Finds /\ [j EXCEPT !.kind = k].out = j.out
         /\ [j EXCEPT !.kind = k].before = j.before
BY DEF Finds

LEMMA NotedOk ==
  ASSUME NEW j \in Finds, NEW k \in BOOLEAN
  PROVE  /\ [j EXCEPT !.ok = k] \in Finds /\ [j EXCEPT !.ok = k].out = j.out
         /\ [j EXCEPT !.ok = k].before = j.before
BY DEF Finds

LEMMA NothingNoted ==
  ASSUME TypeOK, NEW x \in Actors
  PROVE  job[x] \in Finds /\ (UNCHANGED job => job' = [job EXCEPT ![x] = job[x]])
BY DEF TypeOK

(***************************************************************************)
(* The steps of an attempt that only move.                                 *)
(***************************************************************************)
LEMMA AttemptMoves ==
  ASSUME IInv, NEW a \in Attempts, NEW q \in Places, NEW j \in Finds, Moves(a, q, j),
         q \in {"report", "probe", "show", "wanted?", "locked?", "act", "unlock", "wipe blob", "installs"},
         pc[a] \in {"read", "probe", "release", "wanted?", "locked?", "act", "unlock", "wipe secret"},
         j.before = job[a].before, j.out # "unlocked", Odds',
         UNCHANGED <<attemptVars, epoch, rec, pw, made, platform, blob, spared,
                     id, began, hand, dismissed, doomed, after>>
  PROVE  IInv'
<1>1. ~Covers(a) /\ a \notin Enables /\ a \in Actors
  BY Kinds DEF Covers
<1> QED
  BY <1>1, PlainStep DEF attemptVars

LEMMA CoreOdds ==
  ASSUME IInv, UNCHANGED <<coreVars, item, challenge>>
  PROVE  Odds'
BY DEF IInv, TypeOK, Odds, coreVars

LEMMA ReadStep ==
  ASSUME IInv, NEW a \in Attempts, ReadSealed(a)
  PROVE  IInv'
<1> USE Kinds
<1>1. job[a] \in Finds /\ pc[a] = "read" /\ TypeOK /\ job[a].out # "unlocked" /\ blob \in Blobs
  BY NothingNoted DEF ReadSealed, IInv, DoomInv, TypeOK
<1>2. Odds' /\ UNCHANGED <<attemptVars, epoch, rec, pw, made, platform, blob, spared,
                     id, began, hand, dismissed, doomed, after>>
  BY CoreOdds DEF ReadSealed, coreVars, storeVars
<1>3. ASSUME NEW o \in {"error", "nokey"}, Report(a, o) PROVE IInv'
  <2> DEFINE k == [job[a] EXCEPT !.out = o]
  <2>0. o \in Outs /\ o # "unlocked"
    BY <1>3 DEF Outs
  <2>1. k \in Finds /\ k.out # "unlocked" /\ k.before = job[a].before
    BY <1>1, <2>0, NotedOut
  <2>2. Moves(a, "report", k) /\ "report" \in Places
    BY <1>3 DEF Report, Moves, Goto, Note, Places
  <2> HIDE DEF k
  <2> QED
    BY <1>1, <1>2, <2>1, <2>2, AttemptMoves
<1>4. ASSUME Goto(a, "probe"), Note(a, [job[a] EXCEPT !.seal = blob]) PROVE IInv'
  <2> DEFINE k == [job[a] EXCEPT !.seal = blob]
  <2>1. k \in Finds /\ k.out # "unlocked" /\ k.before = job[a].before
    BY <1>1, NotedSeal
  <2>2. Moves(a, "probe", k) /\ "probe" \in Places
    BY <1>4 DEF Moves, Goto, Note, Places
  <2> HIDE DEF k
  <2> QED
    BY <1>1, <1>2, <2>1, <2>2, AttemptMoves
<1> QED
  BY <1>3, <1>4 DEF ReadSealed

LEMMA AnsweredStep ==
  ASSUME IInv, NEW a \in Attempts, NEW g \in Gots, Answered(a, g), pc[a] \in {"probe", "release"}, Odds',
         UNCHANGED <<attemptVars, epoch, rec, pw, made, platform, blob, spared,
                     id, began, hand, dismissed, doomed, after>>
  PROVE  IInv'
<1>1. job[a] \in Finds /\ job[a].out # "unlocked"
  BY NothingNoted, Kinds DEF IInv, DoomInv
<1> DEFINE k == [job[a] EXCEPT !.got = g]
<1>2. k \in Finds /\ k.out # "unlocked" /\ k.before = job[a].before
  BY <1>1, NotedGot
<1>3. Moves(a, "wanted?", k) /\ "wanted?" \in Places
  BY DEF Answered, Moves, Goto, Note, Places
<1> HIDE DEF k
<1> QED
  BY <1>1, <1>2, <1>3, AttemptMoves

LEMMA ProbeStep ==
  ASSUME IInv, NEW a \in Attempts, Probe(a)
  PROVE  IInv'
<1> USE Kinds
<1>1. job[a] \in Finds /\ pc[a] = "probe" /\ job[a].out # "unlocked" /\ <<"none", challenge>> \in Parts \X Parts
  BY NothingNoted DEF Probe, IInv, DoomInv, TypeOK, Parts
<1>2. Odds' /\ UNCHANGED <<attemptVars, epoch, rec, pw, made, platform, blob, spared,
                     id, began, hand, dismissed, doomed, after>>
  BY CoreOdds DEF Probe, coreVars, storeVars
<1>3. ASSUME NEW g \in {"invalidated", "unsupported", "failed"}, Answered(a, g) PROVE IInv'
  BY <1>1, <1>2, <1>3, AnsweredStep DEF Gots
<1>4. ASSUME Goto(a, "show"), Note(a, [job[a] EXCEPT !.secret = <<"none", challenge>>]) PROVE IInv'
  <2> DEFINE k == [job[a] EXCEPT !.secret = <<"none", challenge>>]
  <2>1. k \in Finds /\ k.out # "unlocked" /\ k.before = job[a].before
    BY <1>1, NotedSecret
  <2>2. Moves(a, "show", k) /\ "show" \in Places
    BY <1>4 DEF Moves, Goto, Note, Places
  <2> HIDE DEF k
  <2> QED
    BY <1>1, <1>2, <2>1, <2>2, AttemptMoves
<1>5. ASSUME NEW f \in (CASE job[a].kind = "presence" -> {"present"}
                          [] platform = "macos" -> TouchIdState
                          [] OTHER -> HelloState)
      PROVE  f \in {"present", "invalidated", "unsupported", "failed"}
  BY <1>5 DEF TouchIdState, HelloState
<1> QED
  BY <1>3, <1>4, <1>5 DEF Probe

LEMMA ReleaseStep ==
  ASSUME IInv, NEW a \in Attempts, ReadSecret(a)
  PROVE  IInv'
<1> USE Kinds
<1>1. job[a] \in Finds /\ pc[a] = "release" /\ job[a].out # "unlocked" /\ item \in Parts
  BY NothingNoted DEF ReadSecret, IInv, DoomInv, TypeOK
<1>2. Odds' /\ UNCHANGED <<attemptVars, epoch, rec, pw, made, platform, blob, spared,
                     id, began, hand, dismissed, doomed, after>>
  BY CoreOdds DEF ReadSecret, coreVars, storeVars
<1>3. ASSUME NEW g \in {"invalidated", "present"}, Answered(a, g) PROVE IInv'
  BY <1>1, <1>2, <1>3, AnsweredStep DEF Gots
<1>4. ASSUME Goto(a, "wanted?"),
             Note(a, [job[a] EXCEPT !.got = "secret", !.secret = <<item, @[2]>>])
      PROVE  IInv'
  <2> DEFINE k == [job[a] EXCEPT !.got = "secret", !.secret = <<item, @[2]>>]
  <2>1. k \in Finds /\ k.out = job[a].out /\ k.before = job[a].before
    BY <1>1, NotedRelease
  <2>2. Moves(a, "wanted?", k)
    BY <1>4 DEF Moves, Goto, Note
  <2> HIDE DEF k
  <2> QED
    BY <1>1, <1>2, <2>1, <2>2, AttemptMoves DEF Places
<1> QED
  BY <1>3, <1>4 DEF ReadSecret

LEMMA CheckSteps ==
  ASSUME IInv, NEW a \in Attempts, StillWanted(a) \/ StillLocked(a) \/ Act(a)
  PROVE  IInv'
<1> USE Kinds
<1>1. job[a] \in Finds /\ pc[a] \in {"wanted?", "locked?", "act"} /\ job[a].out # "unlocked"
      /\ (UNCHANGED job => job' = [job EXCEPT ![a] = job[a]])
  BY NothingNoted DEF StillWanted, StillLocked, Act, IInv, DoomInv
<1>2. Odds' /\ UNCHANGED <<attemptVars, epoch, rec, pw, made, platform, blob, spared,
                     id, began, hand, dismissed, doomed, after>>
  BY CoreOdds DEF StillWanted, StillLocked, Act, coreVars, storeVars
<1>3. ASSUME NEW o \in {"superseded", "cancelled", "error"}, Report(a, o) PROVE IInv'
  <2> DEFINE k == [job[a] EXCEPT !.out = o]
  <2>0. o \in Outs /\ o # "unlocked"
    BY <1>3 DEF Outs
  <2>1. k \in Finds /\ k.out # "unlocked" /\ k.before = job[a].before
    BY <1>1, <2>0, NotedOut
  <2>2. Moves(a, "report", k) /\ "report" \in Places
    BY <1>3 DEF Report, Moves, Goto, Note, Places
  <2> HIDE DEF k
  <2> QED
    BY <1>1, <1>2, <2>1, <2>2, AttemptMoves
<1>4. ASSUME NEW q \in {"locked?", "act", "wipe blob", "unlock"}, Goto(a, q), UNCHANGED job PROVE IInv'
  <2>1. Moves(a, q, job[a]) /\ q \in Places
    BY <1>1, <1>4 DEF Moves, Goto, Places
  <2> QED
    BY <1>1, <1>2, <2>1, AttemptMoves
<1> QED
  BY <1>3, <1>4 DEF StillWanted, StillLocked, Act

LEMMA ReportedStep ==
  ASSUME IInv, NEW a \in Attempts, reported(a)
  PROVE  IInv'
<1> USE Kinds
<1> DEFINE o == IF job[a].out = "unlocked" \/ curId = id[a] THEN job[a].out ELSE "superseded"
<1>1. job[a] \in Finds /\ pc[a] = "report" /\ o \in Outs /\ (o = "unlocked" => a \notin doomed)
  BY NothingNoted DEF reported, IInv, DoomInv, Finds, Outs
<1>2. Odds' /\ UNCHANGED <<attemptVars, epoch, rec, pw, made, platform, blob, spared,
                     id, began, hand, dismissed, doomed, after>>
  BY CoreOdds DEF reported, coreVars, storeVars
<1>3. Moves(a, "done", [job[a] EXCEPT !.out = o]) /\ ~Covers(a)
  BY <1>1 DEF reported, Done, Goto, Note, Moves, Covers
<1> HIDE DEF o
<1> QED
  BY <1>1, <1>2, <1>3, PlainStep, NotedOut DEF attemptVars, Places

(***************************************************************************)
(* Other steps that only move.                                             *)
(***************************************************************************)
LEMMA OtherMoves ==
  ASSUME IInv, NEW x \in Actors \ Attempts, NEW q \in Places, NEW j \in Finds, Moves(x, q, j), Odds',
         q \notin {"idle", "waiting"}, j.before \in {job[x].before, rec},
         UNCHANGED <<attemptVars, epoch, rec, pw, made, platform, blob, spared,
                     id, began, hand, dismissed, doomed, after>>,
         x \in Enables /\ q \in {"create", "add", "sign", "write"}
           => (j.before # 0 /\ rec = j.before => j.seal.pw = pw),
         Covers(x) => Covers(x)' \/ blob = NoBlob
  PROVE  IInv'
BY PlainStep DEF attemptVars

LEMMA DisableStep ==
  ASSUME IInv, NEW x \in Disables, biometric_disable(x)
  PROVE  IInv'
<1>1. x \in Actors \ Attempts /\ x \notin Enables /\ pc[x] = "idle" /\ ~Covers(x)
  BY Kinds DEF biometric_disable, Asked, Covers
<1>2. job[x] \in Finds /\ Moves(x, "wipe blob", job[x]) /\ "wipe blob" \in Places
  BY <1>1, NothingNoted DEF biometric_disable, IInv, Moves, Goto, Places
<1>3. Odds' /\ UNCHANGED <<attemptVars, epoch, rec, pw, made, platform, blob, spared,
                     id, began, hand, dismissed, doomed, after>>
  BY CoreOdds DEF biometric_disable, coreVars, storeVars
<1> QED
  BY <1>1, <1>2, <1>3, OtherMoves

LEMMA DoneMoves ==
  ASSUME IInv, NEW x \in Actors \ Attempts, NEW o \in Outs, Done(x, o), Odds', ~Covers(x),
         UNCHANGED <<attemptVars, epoch, rec, pw, made, platform, blob, spared,
                     id, began, hand, dismissed, doomed, after>>
  PROVE  IInv'
<1> DEFINE k == [job[x] EXCEPT !.out = o]
<1>1. k \in Finds /\ k.before = job[x].before
  BY NothingNoted, NotedOut DEF IInv
<1>2. Moves(x, "done", k) /\ "done" \in Places
  BY DEF Done, Goto, Note, Moves, Places
<1> HIDE DEF k
<1> QED
  BY <1>1, <1>2, OtherMoves

LEMMA EnableBegins ==
  ASSUME IInv, NEW x \in Enables, biometric_enable(x)
  PROVE  IInv'
<1>1. x \in Actors \ Attempts /\ pc[x] = "idle" /\ ~Covers(x)
  BY Kinds DEF biometric_enable, Asked, Covers
<1>2. Odds' /\ UNCHANGED <<attemptVars, epoch, rec, pw, made, platform, blob, spared,
                     id, began, hand, dismissed, doomed, after>>
  BY CoreOdds DEF biometric_enable, coreVars, storeVars
<1>3. CASE Goto(x, "verify") /\ Note(x, [job[x] EXCEPT !.before = rec])
  <2> DEFINE k == [job[x] EXCEPT !.before = rec]
  <2>1. k \in Finds /\ k.before = rec
    BY <1>1, NothingNoted, NotedBefore DEF IInv, TypeOK
  <2>2. Moves(x, "verify", k) /\ "verify" \in Places
    BY <1>3 DEF Goto, Note, Moves, Places
  <2> HIDE DEF k
  <2> QED
    BY <1>1, <1>2, <2>1, <2>2, OtherMoves
<1>4. CASE Done(x, "error")
  BY <1>1, <1>2, <1>4, DoneMoves DEF Outs
<1> QED
  BY <1>3, <1>4 DEF biometric_enable

LEMMA VerifyStep ==
  ASSUME IInv, NEW x \in Enables, verify_unlock_password(x)
  PROVE  IInv'
<1>1. x \in Actors \ Attempts /\ pc[x] = "verify" /\ ~Covers(x)
  BY Kinds DEF verify_unlock_password, Covers
<1>2. Odds' /\ UNCHANGED <<attemptVars, epoch, rec, pw, made, platform, blob, spared,
                     id, began, hand, dismissed, doomed, after>>
  BY CoreOdds DEF verify_unlock_password, coreVars, storeVars
<1> DEFINE s == [NoBlob EXCEPT !.by = x, !.pw = pw]
           k == [job[x] EXCEPT !.seal = s]
<1>3. CASE Goto(x, "create") /\ Note(x, k)
  <2>1. s \in Blobs /\ s.pw = pw
    BY DEF NoBlob, Blobs, Parts, Seals, NoSecret, IInv, TypeOK
  <2> HIDE DEF s
  <2>2. k \in Finds /\ k.before = job[x].before /\ k.seal.pw = pw
    BY <1>1, <2>1, NothingNoted, NotedSeal DEF IInv
  <2>3. Moves(x, "create", k) /\ "create" \in Places
    BY <1>3 DEF Goto, Note, Moves, Places
  <2> HIDE DEF k
  <2> QED
    BY <1>1, <1>2, <2>2, <2>3, OtherMoves
<1>4. CASE Done(x, "error")
  BY <1>1, <1>2, <1>4, DoneMoves DEF Outs
<1> QED
  BY <1>3, <1>4 DEF verify_unlock_password

LEMMA NotedDeviceSecret ==
  ASSUME NEW j \in Finds, NEW s \in Parts \X Parts
  PROVE  LET k == [j EXCEPT !.seal.secret = s] IN
         k \in Finds /\ k.before = j.before /\ k.seal.pw = j.seal.pw
<1> DEFINE t == [j.seal EXCEPT !.secret = s]
           k == [j EXCEPT !.seal = t]
<1>1. t \in Blobs /\ t.pw = j.seal.pw
  BY DEF Finds, Blobs
<1> HIDE DEF t
<1>2. k \in Finds /\ k.before = j.before /\ k.seal.pw = j.seal.pw
  BY <1>1, NotedSeal
<1> QED
  BY <1>2 DEF t

LEMMA CreateSteps ==
  ASSUME IInv, NEW x \in Enables, TouchIdCreates(x) \/ HelloCreates(x)
  PROVE  IInv'
<1>1. x \in Actors \ Attempts /\ pc[x] \in {"create", "add", "sign"} /\ ~Covers(x)
  BY Kinds DEF TouchIdCreates, HelloCreates, Cleanup, Covers
<1>2. job[x] \in Finds /\ (UNCHANGED job => job' = [job EXCEPT ![x] = job[x]])
  BY <1>1, NothingNoted DEF IInv
<1>3. job[x].before # 0 /\ rec = job[x].before => job[x].seal.pw = pw
  BY <1>1 DEF IInv, EnableInv, SealKnown
<1>4. item' \in Parts /\ challenge' \in Parts
  BY DEF TouchIdCreates, HelloCreates, Cleanup, IInv, TypeOK, Parts, Seals
<1>5. Odds' /\ UNCHANGED <<attemptVars, epoch, rec, pw, made, platform, blob, spared,
                     id, began, hand, dismissed, doomed, after>>
  BY <1>4 DEF TouchIdCreates, HelloCreates, coreVars, storeVars, Odds, IInv, TypeOK
<1>6. ASSUME NEW q \in {"add", "sign", "wipe blob"}, Goto(x, q), UNCHANGED job PROVE IInv'
  <2>1. Moves(x, q, job[x]) /\ q \in Places
    BY <1>2, <1>6 DEF Moves, Goto, Places
  <2> QED
    BY <1>1, <1>2, <1>3, <1>5, <2>1, OtherMoves
<1>7. ASSUME NEW s \in Parts \X Parts, Goto(x, "write"), Note(x, [job[x] EXCEPT !.seal.secret = s])
      PROVE  IInv'
  <2> DEFINE k == [job[x] EXCEPT !.seal.secret = s]
  <2>1. k \in Finds /\ k.before = job[x].before /\ k.seal.pw = job[x].seal.pw
    BY <1>2, NotedDeviceSecret
  <2>2. Moves(x, "write", k) /\ "write" \in Places
    BY <1>7 DEF Moves, Goto, Note, Places
  <2> HIDE DEF k
  <2> QED
    BY <1>1, <1>3, <1>5, <2>1, <2>2, OtherMoves
<1>8. <<x, "none">> \in Parts \X Parts /\ <<item, x>> \in Parts \X Parts
  BY DEF Parts, Seals, IInv, TypeOK
<1>9. CASE TouchIdCreates(x)
  BY <1>6, <1>7, <1>8, <1>9 DEF TouchIdCreates, Cleanup
<1>10. CASE HelloCreates(x)
  BY <1>6, <1>7, <1>8, <1>10 DEF HelloCreates, Cleanup
<1> QED
  BY <1>9, <1>10

LEMMA CompareStep ==
  ASSUME IInv, NEW x \in Enables, CompareDigest(x)
  PROVE  IInv'
<1>1. x \in Actors \ Attempts /\ pc[x] = "compare" /\ x \notin Installs /\ x \notin Resets
  BY Kinds DEF CompareDigest
<1>2. Odds' /\ UNCHANGED <<attemptVars, epoch, rec, pw, made, platform, blob, spared,
                     id, began, hand, dismissed, doomed, after>>
  BY CoreOdds DEF CompareDigest, coreVars, storeVars
<1>3. CASE SameRecord(x)
  <2>1. ~Covers(x) /\ Done(x, "ok")
    BY <1>1, <1>3 DEF Covers, CompareDigest
  <2> QED
    BY <1>1, <1>2, <2>1, DoneMoves DEF Outs
<1>4. CASE ~SameRecord(x)
  <2>1. job[x] \in Finds /\ Moves(x, "wipe blob", job[x]) /\ "wipe blob" \in Places
    BY <1>1, <1>4, NothingNoted DEF CompareDigest, Moves, Goto, Places, IInv
  <2>2. Covers(x)'
    BY <1>1, <2>1, Moved DEF Covers, IInv
  <2> QED
    BY <1>1, <1>2, <2>1, <2>2, OtherMoves
<1> QED
  BY <1>3, <1>4

LEMMA InstallMoves ==
  ASSUME IInv, NEW x \in Installs, InstallBegins(x) \/ InstallFails(x)
  PROVE  IInv'
<1>1. x \in Actors \ Attempts /\ x \notin Enables /\ ~Covers(x) /\ job[x] \in Finds /\ rec \in Nat
  BY Kinds, NothingNoted DEF InstallBegins, InstallFails, Asked, Covers, IInv, TypeOK
<1>2. Odds' /\ UNCHANGED <<attemptVars, epoch, rec, pw, made, platform, blob, spared,
                     id, began, hand, dismissed, doomed, after>>
  BY CoreOdds DEF InstallBegins, InstallFails, coreVars, storeVars
<1>3. CASE InstallBegins(x)
  <2> DEFINE k == [job[x] EXCEPT !.before = rec]
  <2>1. k \in Finds /\ k.before = rec
    BY <1>1, NotedBefore
  <2>2. Moves(x, "install", k) /\ "install" \in Places
    BY <1>3 DEF InstallBegins, Goto, Note, Moves, Places
  <2> HIDE DEF k
  <2> QED
    BY <1>1, <1>2, <2>1, <2>2, OtherMoves
<1>4. CASE InstallFails(x)
  <2>1. Moves(x, "rewritten?", job[x]) /\ "rewritten?" \in Places
    BY <1>1, <1>4, NothingNoted DEF InstallFails, Moves, Goto, Places, IInv
  <2> QED
    BY <1>1, <1>2, <2>1, OtherMoves
<1> QED
  BY <1>3, <1>4

LEMMA InstallChecks ==
  ASSUME IInv, NEW x \in Installs, wipe_around_install(x) \/ forget_after_keyset_change(x)
  PROVE  IInv'
<1>1. x \in Actors \ Attempts /\ x \notin Enables /\ x \notin Resets /\ job[x] \in Finds
  BY Kinds, NothingNoted DEF IInv
<1>2. Odds' /\ UNCHANGED <<attemptVars, epoch, rec, pw, made, platform, blob, spared,
                     id, began, hand, dismissed, doomed, after>>
  BY CoreOdds DEF wipe_around_install, forget_after_keyset_change, coreVars, storeVars
<1>3. ASSUME NEW q \in {"stored?", "wipe blob"}, Goto(x, q), UNCHANGED job PROVE IInv'
  <2>1. Moves(x, q, job[x]) /\ q \in Places
    BY <1>1, <1>3, NothingNoted DEF Moves, Goto, Places, IInv
  <2>2. Covers(x)'
    BY <1>1, <1>3, <2>1, Moved DEF Covers, IInv
  <2> QED
    BY <1>1, <1>2, <1>3, <2>1, <2>2, OtherMoves
<1>4. ASSUME pc[x] = "rewritten?", ~Rewritten(x), Done(x, "error") PROVE IInv'
  <2>1. ~Covers(x)
    BY <1>1, <1>4 DEF Covers
  <2> QED
    BY <1>1, <1>2, <1>4, <2>1, DoneMoves DEF Outs
<1>5. ASSUME blob = NoBlob, Done(x, "ok") PROVE IInv'
  <2> DEFINE k == [job[x] EXCEPT !.out = "ok"]
  <2>1. k \in Finds /\ k.before = job[x].before
    BY <1>1, NotedOut DEF Outs
  <2>2. Moves(x, "done", k) /\ "done" \in Places
    BY <1>5 DEF Done, Goto, Note, Moves, Places
  <2> HIDE DEF k
  <2> QED
    BY <1>1, <1>2, <1>5, <2>1, <2>2, OtherMoves
<1>6. CASE wipe_around_install(x)
  BY <1>3, <1>4, <1>6 DEF wipe_around_install
<1>7. CASE forget_after_keyset_change(x)
  BY <1>3, <1>5, <1>7 DEF forget_after_keyset_change
<1> QED
  BY <1>6, <1>7

LEMMA RefuseStep ==
  ASSUME IInv, NEW x \in Resets, ResetRefuses(x)
  PROVE  IInv'
<1>1. x \in Actors \ Attempts /\ x \notin Enables /\ job[x] \in Finds /\ ~Covers(x)
  BY Kinds, NothingNoted DEF IInv, ResetRefuses, Covers
<1>2. Odds' /\ UNCHANGED <<attemptVars, epoch, rec, pw, made, platform, blob, spared,
                     id, began, hand, dismissed, doomed, after>>
  BY CoreOdds DEF ResetRefuses, coreVars, storeVars
<1>3. CASE Done(x, "error")
  BY <1>1, <1>2, <1>3, DoneMoves DEF Outs
<1>4. CASE Goto(x, "lock") /\ UNCHANGED job
  <2>1. Moves(x, "lock", job[x]) /\ "lock" \in Places
    BY <1>1, <1>4, NothingNoted DEF Moves, Goto, Places, IInv
  <2> QED
    BY <1>1, <1>2, <2>1, OtherMoves
<1> QED
  BY <1>3, <1>4 DEF ResetRefuses

LEMMA ForgetKeyStep ==
  ASSUME IInv, NEW x \in Resets, ResetForgets(x)
  PROVE  IInv'
<1>1. x \in Actors \ Attempts /\ x \notin Enables /\ job[x] \in Finds
  BY Kinds, NothingNoted DEF IInv
<1>2. key' \in BOOLEAN
  BY DEF ResetForgets, IInv, TypeOK
<1>3. Odds' /\ UNCHANGED <<attemptVars, epoch, rec, pw, made, platform, blob, spared,
                     id, began, hand, dismissed, doomed, after>>
  BY <1>2 DEF ResetForgets, storeVars, Odds, IInv, TypeOK
<1>4. Moves(x, "wipe blob", job[x]) /\ "wipe blob" \in Places
  BY <1>1, NothingNoted DEF ResetForgets, Moves, Goto, Places, IInv
<1>5. Covers(x)'
  BY <1>1, <1>4, Moved DEF Covers, IInv
<1> QED
  BY <1>1, <1>3, <1>4, <1>5, OtherMoves

(***************************************************************************)
(* The core's unlock, and what forgetting does.                            *)
(***************************************************************************)
LEMMA UnlockMoves ==
  ASSUME IInv, NEW x \in Unlockers, NEW q \in Places, NEW j \in Finds, Moves(x, q, j), Odds',
         pc[x] \in {"unlock", "installs"}, q \in {"installs", "wipe blob", "report", "done"},
         j.before = job[x].before,
         x \in Attempts /\ j.out = "unlocked" => q = "report" /\ x \notin doomed,
         UNCHANGED <<attemptVars, epoch, rec, pw, made, platform, blob, spared,
                     id, began, hand, dismissed, doomed, after>>
  PROVE  IInv'
<1>1. ~Covers(x) /\ x \notin Enables /\ x \in Actors
  BY Kinds DEF Covers, Unlockers
<1> QED
  BY <1>1, PlainStep DEF attemptVars

LEMMA EndsMoves ==
  ASSUME IInv, NEW x \in Unlockers, NEW o \in Outs, Ends(x, o), Odds', pc[x] \in {"unlock", "installs"},
         x \in Attempts /\ o = "unlocked" => x \notin doomed,
         UNCHANGED <<attemptVars, epoch, rec, pw, made, platform, blob, spared,
                     id, began, hand, dismissed, doomed, after>>
  PROVE  IInv'
<1> DEFINE k == [job[x] EXCEPT !.out = o]
           q == IF x \in Attempts THEN "report" ELSE "done"
<1>1. k \in Finds /\ k.before = job[x].before /\ k.out = o
  BY NothingNoted, NotedOut, Kinds DEF IInv, Unlockers
<1>2. Moves(x, q, k) /\ q \in Places /\ q \in {"report", "done"} /\ (x \in Attempts => q = "report")
  BY DEF Ends, Goto, Note, Moves, Places
<1> HIDE DEF k, q
<1> QED
  BY <1>1, <1>2, UnlockMoves

LEMMA VerifiesStep ==
  ASSUME IInv, NEW x \in Unlockers, CoreVerifies(x)
  PROVE  IInv'
<1>1. x \in Actors /\ pc[x] = "unlock" /\ job[x] \in Finds /\ (x \in Attempts => job[x].out # "unlocked")
  BY Kinds, NothingNoted DEF CoreVerifies, IInv, DoomInv, Unlockers
<1>2. gate' \in Unlockers \cup {Nobody}
  BY DEF CoreVerifies, IInv, TypeOK
<1>3. Odds' /\ UNCHANGED <<attemptVars, epoch, rec, pw, made, platform, blob, spared,
                     id, began, hand, dismissed, doomed, after>>
  BY <1>2 DEF CoreVerifies, storeVars, Odds, IInv, TypeOK
<1>4. ASSUME NEW q \in {"installs", "wipe blob"}, Goto(x, q), UNCHANGED job PROVE IInv'
  <2>1. Moves(x, q, job[x]) /\ q \in Places
    BY <1>1, <1>4, NothingNoted DEF Moves, Goto, Places, IInv
  <2> QED
    BY <1>1, <1>3, <2>1, UnlockMoves
<1>5. ASSUME NEW o \in {"error", "nokey"}, Ends(x, o) PROVE IInv'
  <2>1. o \in Outs /\ o # "unlocked"
    BY <1>5 DEF Outs
  <2> QED
    BY <1>1, <1>3, <1>5, <2>1, EndsMoves
<1> QED
  BY <1>4, <1>5 DEF CoreVerifies

LEMMA InstallsStep ==
  ASSUME IInv, NEW x \in Unlockers, CoreInstalls(x)
  PROVE  IInv'
<1>1. x \in Actors /\ pc[x] = "installs"
  BY Kinds DEF CoreInstalls, Unlockers
<1>2. open' \in BOOLEAN /\ gate' \in Unlockers \cup {Nobody}
  BY DEF CoreInstalls, IInv, TypeOK
<1>3. Odds' /\ UNCHANGED <<attemptVars, epoch, rec, pw, made, platform, blob, spared,
                     id, began, hand, dismissed, doomed, after>>
  BY <1>2 DEF CoreInstalls, storeVars, Odds, IInv, TypeOK
<1>4. CASE epoch # began[x]
  BY <1>1, <1>3, <1>4, EndsMoves DEF CoreInstalls, Outs
<1>5. CASE epoch = began[x]
  <2>1. x \in Attempts => x \notin doomed
    BY <1>1, <1>5 DEF IInv, DoomInv, Overtaken, TypeOK
  <2>2. Ends(x, "unlocked") /\ "unlocked" \in Outs
    BY <1>5 DEF CoreInstalls, Outs
  <2> QED
    BY <1>1, <1>3, <2>1, <2>2, EndsMoves
<1> QED
  BY <1>4, <1>5

LEMMA NumbersStay ==
  ASSUME IInv, UNCHANGED <<curId, epoch>>
  PROVE  curId' \in Nat /\ epoch' \in Nat /\ curId <= curId' /\ epoch <= epoch'
<1>1. curId \in Nat /\ epoch \in Nat
  BY DEF IInv, TypeOK
<1> QED
  BY <1>1

LEMMA ForgetSecretStep ==
  ASSUME IInv, NEW x \in Actors, ForgetSecret(x)
  PROVE  IInv'
<1>1. pc[x] = "wipe secret" /\ ~Covers(x)
  BY DEF ForgetSecret, Covers
<1>2. item' \in Parts /\ challenge' \in Parts
  BY DEF ForgetSecret, TouchIdDeletes, HelloDeletes, IInv, TypeOK, Parts
<1>3. Odds' /\ UNCHANGED <<attemptVars, epoch, rec, pw, made, platform, blob, spared,
                     id, began, hand, dismissed, doomed, after>>
  BY <1>2 DEF ForgetSecret, coreVars, Odds, IInv, TypeOK
<1>4. PICK ok \in BOOLEAN : Note(x, [job[x] EXCEPT !.out = Forgotten(x, ok /\ job[x].ok)])
  BY DEF ForgetSecret
<1> DEFINE o == Forgotten(x, ok /\ job[x].ok)
           k == [job[x] EXCEPT !.out = o]
           q == IF x \in Attempts THEN "report" ELSE "done"
<1>5. o \in {"invalidated", "error", "told", "ok"}
  BY DEF Forgotten
<1>6. o \in Outs /\ o # "unlocked"
  BY <1>5 DEF Outs
<1> HIDE DEF o
<1>7. k \in Finds /\ k.before = job[x].before /\ k.out = o
  BY <1>6, NothingNoted, NotedOut DEF IInv
<1>8. job' = [job EXCEPT ![x] = k]
  BY <1>4 DEF Note, o
<1>9. Moves(x, q, k) /\ q \in Places /\ q \in {"report", "done"}
  BY <1>8 DEF ForgetSecret, Goto, Moves, Places
<1> HIDE DEF k, q
<1>10. CASE x \in Attempts
  <2>1. q = "report"
    BY <1>10 DEF q
  <2> QED
    BY <1>1, <1>3, <1>6, <1>7, <1>9, <1>10, <2>1, AttemptMoves
<1>11. CASE x \notin Attempts
  BY <1>1, <1>3, <1>6, <1>7, <1>9, <1>11, OtherMoves
<1> QED
  BY <1>10, <1>11

LEMMA ForgetBlobStep ==
  ASSUME IInv, NEW x \in Actors, ForgetBlob(x)
  PROVE  IInv'
<1> USE Kinds
<1>1. pc[x] = "wipe blob" /\ job[x] \in Finds
  BY NothingNoted DEF ForgetBlob, IInv
<1>2. PICK ok \in BOOLEAN : job' = [job EXCEPT ![x] = [job[x] EXCEPT !.ok = ok]]
  BY DEF ForgetBlob, Note
<1> DEFINE k == [job[x] EXCEPT !.ok = ok]
<1>3. k \in Finds /\ k.before = job[x].before /\ k.out = job[x].out
  BY <1>1, NotedOk
<1>4. Moves(x, "wipe secret", k) /\ "wipe secret" \in Places
  BY <1>2 DEF ForgetBlob, Goto, Moves, Places
<1> HIDE DEF k
<1>5. UNCHANGED <<curId, curDismiss, open, epoch, rec, pw, made, key, gate, platform, item, challenge,
                  id, began, hand, dismissed, doomed, after>>
  BY DEF ForgetBlob, attemptVars, coreVars
<1>6. blob' \in Blobs /\ spared' \in [Actors -> Parts]
  <2>1. blob \in Blobs /\ spared \in [Actors -> Parts] /\ NoBlob \in Blobs /\ blob.by \in Parts
    BY DEF IInv, TypeOK, Blobs, NoBlob, NoSecret, Parts
  <2> QED
    BY <2>1 DEF ForgetBlob
<1>7. TypeOK'
  BY <1>3, <1>4, <1>5, <1>6, Moved DEF IInv, TypeOK
<1>13. curId' \in Nat /\ epoch' \in Nat /\ curId <= curId' /\ epoch <= epoch'
  BY <1>5, NumbersStay
<1>8. NumInv'
  BY <1>1, <1>3, <1>4, <1>5, <1>13, NumKept DEF IInv
<1>9. DoomInv'
  <2>1. x \in Attempts => k.out # "unlocked"
    BY <1>1, <1>3 DEF IInv, DoomInv
  <2> QED
    BY <1>1, <1>3, <1>4, <1>5, <1>13, <2>1, DoomKept DEF IInv
<1>10. PromptInv'
  BY <1>3, <1>4, <1>5, PromptKept DEF IInv
<1>11. EnableInv'
  BY <1>3, <1>4, <1>5, EnableKept DEF IInv, EnableInv
<1>12. StaleInv'
  <2>1. CASE blob' = NoBlob
    BY <2>1 DEF StaleInv
  <2>2. CASE blob' = blob /\ spared' = [spared EXCEPT ![x] = blob.by]
    <3>1. spared'[x] = blob'.by
      BY <2>2 DEF IInv, TypeOK
    <3> QED
      BY <3>1 DEF StaleInv
  <2> QED
    BY <2>1, <2>2 DEF ForgetBlob
<1> QED
  BY <1>7, <1>8, <1>9, <1>10, <1>11, <1>12 DEF IInv

(***************************************************************************)
(* The record and the blob.                                                *)
(***************************************************************************)
LEMMA WriteBlobStep ==
  ASSUME IInv, NEW x \in Enables, write_blob(x)
  PROVE  IInv'
<1> USE Kinds
<1>1. x \in Actors /\ x \notin Attempts /\ pc[x] = "write" /\ job[x] \in Finds
  BY NothingNoted DEF write_blob, IInv
<1>2. UNCHANGED <<curId, curDismiss, open, epoch, rec, pw, made, key, gate, platform, item, challenge,
                  spared, id, began, hand, dismissed, doomed, after>>
  BY DEF write_blob, attemptVars, coreVars
<1>3. PICK q \in {"compare", "wipe blob"} :
        Moves(x, q, job[x]) /\ q \in Places /\ (q = "compare" => blob' = job[x].seal) /\ (q # "compare" => blob' = blob)
  BY <1>1, NothingNoted DEF write_blob, Goto, Moves, Places, IInv
<1>4. TypeOK'
  <2>1. blob' \in Blobs
    BY <1>1, <1>3 DEF Finds, IInv, TypeOK
  <2> QED
    BY <1>1, <1>2, <1>3, <2>1, Moved DEF IInv, TypeOK
<1>5. curId' \in Nat /\ epoch' \in Nat /\ curId <= curId' /\ epoch <= epoch'
  BY <1>2, NumbersStay
<1>6. NumInv'
  BY <1>1, <1>2, <1>3, <1>5, NumKept DEF IInv
<1>7. DoomInv'
  BY <1>1, <1>2, <1>3, <1>5, DoomKept DEF IInv
<1>8. PromptInv'
  BY <1>1, <1>2, <1>3, PromptKept DEF IInv
<1>9. EnableInv'
  BY <1>1, <1>2, <1>3, EnableKept DEF IInv, EnableInv
<1>10. StaleInv'
  <2>1. CASE q = "wipe blob"
    BY <1>1, <1>3, <2>1, Moved DEF IInv, StaleInv, Covers
  <2>2. CASE q = "compare"
    <3>1. SUFFICES ASSUME job[x].seal.pw # pw PROVE Covers(x)'
      BY <1>1, <1>2, <1>3, <2>2 DEF StaleInv
    <3>2. ~SameRecord(x)
      BY <1>1, <3>1 DEF IInv, EnableInv, SealKnown, SameRecord
    <3>3. pc'[x] = "compare" /\ job'[x] = job[x]
      BY <1>1, <1>3, <2>2, Moved DEF IInv
    <3> QED
      BY <1>2, <3>2, <3>3 DEF Covers, SameRecord
  <2> QED
    BY <1>3, <2>1, <2>2
<1> QED
  BY <1>4, <1>6, <1>7, <1>8, <1>9, <1>10 DEF IInv

LEMMA InstallWritesStep ==
  ASSUME IInv, NEW x \in Installs, InstallWrites(x)
  PROVE  IInv'
<1> USE Kinds
<1>1. x \in Actors /\ x \notin Attempts /\ x \notin Enables /\ pc[x] = "install" /\ job[x] \in Finds
  BY NothingNoted DEF InstallWrites, IInv
<1>2. UNCHANGED <<curId, curDismiss, open, epoch, key, gate, platform, blob, item, challenge,
                  spared, id, began, hand, dismissed, doomed, after>>
  BY DEF InstallWrites, attemptVars, storeVars
<1>3. PICK ok \in BOOLEAN : job' = [job EXCEPT ![x] = [job[x] EXCEPT !.ok = ok]]
  BY DEF InstallWrites, Note
<1> DEFINE k == [job[x] EXCEPT !.ok = ok]
<1>4. k \in Finds /\ k.before = job[x].before
  BY <1>1, NotedOk
<1>5. Moves(x, "rewritten?", k) /\ "rewritten?" \in Places
  BY <1>3 DEF InstallWrites, Goto, Moves, Places
<1> HIDE DEF k
<1>6. made \in Nat /\ rec' = made + 1 /\ made' = made + 1 /\ pw' \in Nat
  BY DEF InstallWrites, IInv, TypeOK
<1>7. TypeOK'
  BY <1>1, <1>2, <1>4, <1>5, <1>6, Moved DEF IInv, TypeOK
<1>8. curId' \in Nat /\ epoch' \in Nat /\ curId <= curId' /\ epoch <= epoch'
  BY <1>2, NumbersStay
<1>9. NumInv'
  BY <1>1, <1>2, <1>4, <1>5, <1>8, NumKept DEF IInv
<1>10. DoomInv'
  BY <1>1, <1>2, <1>4, <1>5, <1>8, DoomKept DEF IInv
<1>11. PromptInv'
  BY <1>1, <1>2, <1>4, <1>5, PromptKept DEF IInv
<1>12. \A y \in Actors : job'[y].before \in Nat /\ job'[y].before <= made
  <2>1. ASSUME NEW y \in Actors PROVE job'[y].before = job[y].before
    BY <1>1, <1>4, <1>5, Moved DEF IInv
  <2>2. \A y \in Actors : job[y].before \in Nat
    BY DEF IInv, TypeOK, Finds
  <2> QED
    BY <2>1, <2>2 DEF IInv, EnableInv
<1>13. EnableInv'
  BY <1>6, <1>12 DEF EnableInv, SealKnown
<1>14. Covers(x)'
  <2>1. pc'[x] = "rewritten?" /\ rec' # job'[x].before
    BY <1>1, <1>4, <1>5, <1>6, <1>12, Moved DEF IInv
  <2> QED
    BY <2>1 DEF Covers, Rewritten
<1>15. StaleInv'
  BY <1>1, <1>14 DEF StaleInv
<1> QED
  BY <1>7, <1>9, <1>10, <1>11, <1>13, <1>15 DEF IInv

LEMMA RemoveStep ==
  ASSUME IInv, NEW x \in Resets, ResetRemoves(x)
  PROVE  IInv'
<1> USE Kinds
<1>1. x \in Actors /\ x \notin Attempts /\ x \notin Enables /\ pc[x] = "remove" /\ job[x] \in Finds /\ ~Covers(x)
  BY NothingNoted DEF ResetRemoves, IInv, Covers
<1>2. UNCHANGED <<curId, curDismiss, open, epoch, made, key, gate, platform, blob, item, challenge,
                  spared, id, began, hand, dismissed, doomed, after>>
  BY DEF ResetRemoves, attemptVars, storeVars
<1>3. CASE open
  <2>1. Done(x, "error") /\ UNCHANGED <<rec, pw>> /\ "error" \in Outs
    BY <1>3 DEF ResetRemoves, Outs
  <2>2. Odds'
    BY <1>2 DEF IInv, TypeOK, Odds
  <2> QED
    BY <1>1, <1>2, <2>1, <2>2, DoneMoves DEF attemptVars
<1>4. CASE ~open
  <2>1. rec' = 0 /\ pw' = 0 /\ Moves(x, "forget key", job[x]) /\ "forget key" \in Places
    BY <1>1, <1>4, NothingNoted DEF ResetRemoves, Goto, Moves, Places, IInv
  <2>2. TypeOK'
    BY <1>1, <1>2, <2>1, Moved DEF IInv, TypeOK
  <2>3. curId' \in Nat /\ epoch' \in Nat /\ curId <= curId' /\ epoch <= epoch'
    BY <1>2, NumbersStay
  <2>4. NumInv'
    BY <1>1, <1>2, <2>1, <2>3, NumKept DEF IInv
  <2>5. DoomInv'
    BY <1>1, <1>2, <2>1, <2>3, DoomKept DEF IInv
  <2>6. PromptInv'
    BY <1>1, <1>2, <2>1, PromptKept DEF IInv
  <2>7. EnableInv'
    <3>1. \A y \in Actors : job'[y] = job[y]
      BY <1>1, <2>1, Moved DEF IInv
    <3>2. made \in Nat
      BY DEF IInv, TypeOK
    <3>3. rec' <= made' /\ \A y \in Actors : job'[y].before <= made'
      <4>0. rec' = 0 /\ made' = made
        BY <1>2, <2>1
      <4>1. rec' <= made'
        BY <3>2, <4>0
      <4>2. \A y \in Actors : job[y].before <= made
        BY DEF IInv, EnableInv
      <4> QED
        BY <1>2, <3>1, <4>1, <4>2
    <3>4. \A y \in Enables : SealKnown(y)'
      BY <2>1 DEF SealKnown
    <3> QED
      BY <3>3, <3>4 DEF EnableInv
  <2>8. Covers(x)'
    BY <1>1, <2>1, Moved DEF Covers, IInv
  <2>9. StaleInv'
    BY <1>1, <2>8 DEF StaleInv
  <2> QED
    BY <2>2, <2>4, <2>5, <2>6, <2>7, <2>9 DEF IInv
<1> QED
  BY <1>3, <1>4

LEMMA ReenrolStep ==
  ASSUME IInv, Reenrol
  PROVE  IInv'
<1>1. UNCHANGED <<curId, curDismiss, open, epoch, rec, pw, made, key, gate, platform, blob, challenge,
                  spared, pc, job, id, began, hand, dismissed, doomed, after>> /\ item' = "none"
  BY DEF Reenrol, attemptVars, coreVars
<1>2. TypeOK'
  BY <1>1 DEF IInv, TypeOK, Parts
<1>3. NumInv' /\ DoomInv' /\ PromptInv' /\ EnableInv' /\ StaleInv'
  BY <1>1 DEF IInv, NumInv, DoomInv, Overtaken, PromptInv, EnableInv, SealKnown, StaleInv, Covers,
              Rewritten, SameRecord
<1> QED
  BY <1>2, <1>3 DEF IInv

(***************************************************************************)
(* Numbers, prompts and locks.                                             *)
(***************************************************************************)
\* What happens to the record and the blob while a job only moves beside them.
LEMMA StoreKept ==
  ASSUME IInv, NEW x \in Actors, NEW q \in Places, NEW j \in Finds, Moves(x, q, j),
         UNCHANGED <<rec, made, pw, blob, spared>>, j.before = job[x].before,
         q \notin {"create", "add", "sign", "write"},
         pc[x] \notin {"wipe blob", "stored?", "rewritten?", "compare", "forget key"}
  PROVE  EnableInv' /\ StaleInv'
<1>1. EnableInv'
  BY EnableKept DEF IInv, EnableInv
<1>2. ~Covers(x)
  BY DEF Covers
<1>3. StaleInv'
  BY <1>2, StaleKept DEF IInv
<1> QED
  BY <1>1, <1>3

\* End: the number goes up, and the dismisser of the prompt that is up goes to x.
LEMMA EndKeepsPrompts ==
  ASSUME IInv, NEW x \in Actors, NEW q \in Places, NEW j \in Finds, Moves(x, q, j),
         q \notin {"idle", "waiting"}, pc[x] = "idle", End(x),
         \A a \in Attempts : a # x => id'[a] = id[a], UNCHANGED dismissed
  PROVE  PromptInv'
<1> USE Kinds
<1>1. /\ curId \in Nat /\ hand \in [Actors -> Attempts \cup {Nobody}]
      /\ hand[x] = Nobody /\ \A a \in Attempts : id[a] \in Nat /\ id[a] <= curId
  BY DEF IInv, TypeOK, PromptInv, NumInv
<1>2. curId' = curId + 1 /\ hand'[x] = curDismiss /\ \A y \in Actors : y # x => hand'[y] = hand[y]
  BY <1>1 DEF End
<1>3. ASSUME NEW a \in Attempts, pc'[a] = "waiting"
      PROVE  curId' # id'[a] /\ (a \in dismissed' \/ \E y \in Actors : hand'[y] = a)
  <2>1. a # x /\ pc[a] = "waiting"
    BY <1>3, Moved DEF IInv
  <2>2. curId' # id'[a]
    BY <1>1, <1>2, <2>1
  <2>3. CASE curId = id[a]
    BY <1>2, <2>1, <2>3 DEF IInv, PromptInv
  <2>4. CASE curId # id[a]
    <3>1. a \in dismissed \/ \E y \in Actors : hand[y] = a
      BY <2>1, <2>4 DEF IInv, PromptInv
    <3>2. a # Nobody
      OBVIOUS
    <3> QED
      BY <1>1, <1>2, <2>2, <3>1, <3>2
  <2> QED
    BY <2>2, <2>3, <2>4
<1>4. \A y \in Actors : pc'[y] = "idle" => hand'[y] = Nobody
  BY <1>2, Moved DEF IInv, PromptInv
<1> QED
  BY <1>3, <1>4 DEF PromptInv

\* Dismiss: what x holds is called.
LEMMA DismissKeepsPrompts ==
  ASSUME IInv, NEW x \in Actors, NEW q \in Places, NEW j \in Finds, Moves(x, q, j),
         q \notin {"idle", "waiting"}, Dismiss(x), UNCHANGED <<id, curId, curDismiss>>
  PROVE  PromptInv' /\ dismissed' \subseteq Attempts /\ hand' \in [Actors -> Attempts \cup {Nobody}]
<1> USE Kinds
<1>1. hand \in [Actors -> Attempts \cup {Nobody}] /\ dismissed \subseteq Attempts
  BY DEF IInv, TypeOK
<1>2. /\ hand' \in [Actors -> Attempts \cup {Nobody}] /\ hand'[x] = Nobody
      /\ \A y \in Actors : y # x => hand'[y] = hand[y]
      /\ dismissed' \subseteq Attempts /\ dismissed \subseteq dismissed'
      /\ (hand[x] # Nobody => hand[x] \in dismissed')
  BY <1>1 DEF Dismiss
<1>3. ASSUME NEW a \in Attempts, pc'[a] = "waiting"
      PROVE  IF curId' = id'[a] THEN curDismiss' = a ELSE a \in dismissed' \/ \E y \in Actors : hand'[y] = a
  <2>1. pc[a] = "waiting" /\ a # Nobody
    BY <1>3, Moved DEF IInv
  <2>2. CASE curId = id[a]
    BY <2>1, <2>2 DEF IInv, PromptInv
  <2>3. CASE curId # id[a]
    <3>1. a \in dismissed \/ \E y \in Actors : hand[y] = a
      BY <2>1, <2>3 DEF IInv, PromptInv
    <3> QED
      BY <1>2, <2>1, <2>3, <3>1
  <2> QED
    BY <2>2, <2>3
<1>4. \A y \in Actors : pc'[y] = "idle" => hand'[y] = Nobody
  BY <1>2, Moved DEF IInv, PromptInv
<1> QED
  BY <1>2, <1>3, <1>4 DEF PromptInv

LEMMA EndNumbers ==
  ASSUME IInv, NEW x \in Actors, End(x)
  PROVE  /\ curId' \in Nat /\ curId' = curId + 1 /\ curId <= curId' /\ curDismiss' \in Attempts \cup {Nobody}
         /\ hand' \in [Actors -> Attempts \cup {Nobody}]
<1>1. curId \in Nat /\ curDismiss \in Attempts \cup {Nobody} /\ hand \in [Actors -> Attempts \cup {Nobody}]
  BY DEF IInv, TypeOK
<1> QED
  BY <1>1 DEF End

LEMMA BeginStep ==
  ASSUME IInv, NEW a \in Attempts, biometric_begin(a)
  PROVE  IInv'
<1> USE Kinds
<1>1. a \in Actors /\ pc[a] = "idle" /\ job[a] \in Finds /\ Moves(a, "begin", job[a]) /\ "begin" \in Places
  BY NothingNoted DEF biometric_begin, Asked, Moves, Goto, Places, IInv
<1>2. /\ End(a) /\ id' = [id EXCEPT ![a] = curId + 1]
      /\ UNCHANGED <<open, epoch, rec, pw, made, key, gate, platform, blob, item, challenge,
                     spared, began, dismissed, doomed, after>>
  BY DEF biometric_begin, coreVars, storeVars
<1>3. /\ curId \in Nat /\ epoch \in Nat /\ id \in [Actors -> Nat] /\ id' \in [Actors -> Nat]
      /\ id'[a] = curId + 1 /\ \A b \in Actors : b # a => id'[b] = id[b]
  BY <1>2 DEF IInv, TypeOK
<1>4. TypeOK'
  BY <1>1, <1>2, <1>3, EndNumbers, Moved DEF IInv, TypeOK
<1>5. NumInv'
  <2>1. curId' = curId + 1
    BY <1>2, EndNumbers
  <2>2. \A b \in Attempts : id[b] \in Nat /\ id[b] <= curId /\ began[b] <= epoch
    BY <1>3 DEF IInv, NumInv
  <2>3. \A b \in Attempts : id'[b] <= curId' /\ began'[b] <= epoch'
    BY <1>2, <1>3, <2>1, <2>2
  <2>4. \A b \in Attempts : b # a => id'[b] # id'[a] /\ pc'[b] = pc[b]
    BY <1>1, <1>3, <2>2, Moved DEF IInv
  <2> QED
    BY <1>3, <2>3, <2>4 DEF IInv, NumInv
<1>6. DoomInv'
  <2>1. job[a].out # "unlocked" /\ a \notin doomed
    BY <1>1 DEF IInv, DoomInv, Overtaken
  <2>2. \A b \in Attempts : job'[b].out = "unlocked" => pc'[b] \in {"report", "done"} /\ b \notin doomed'
    BY <1>1, <1>2, <2>1, Moved DEF IInv, DoomInv
  <2>3. ASSUME NEW b \in doomed' PROVE Overtaken(b)'
    <3>1. b \in Attempts /\ b # a /\ Overtaken(b) /\ id[b] \in Nat
      BY <1>2, <1>3, <2>1 DEF IInv, DoomInv, TypeOK
    <3>2. pc'[b] = pc[b] /\ id'[b] = id[b] /\ began'[b] = began[b]
      BY <1>1, <1>2, <1>3, <3>1, Moved DEF IInv
    <3> QED
      BY <1>2, <1>3, <3>1, <3>2, EndNumbers DEF Overtaken
  <2>4. ASSUME NEW y \in Actors, NEW b \in after'[y] PROVE pc'[b] # "idle" /\ id'[b] < curId'
    <3>1. b \in Attempts /\ pc[b] # "idle" /\ id[b] < curId /\ id[b] \in Nat
      BY <1>2, <1>3, <2>4 DEF IInv, DoomInv, TypeOK
    <3> QED
      BY <1>1, <1>2, <1>3, <3>1, EndNumbers, Moved DEF IInv
  <2> QED
    BY <2>2, <2>3, <2>4 DEF DoomInv
<1>7. PromptInv'
  BY <1>1, <1>2, <1>3, EndKeepsPrompts
<1>8. EnableInv' /\ StaleInv'
  BY <1>1, <1>2, StoreKept
<1> QED
  BY <1>4, <1>5, <1>6, <1>7, <1>8 DEF IInv

\* The other jobs that end the attempt as they begin: a cancel of the current attempt,
\* a lock, a reset, a typed unlock.  A lock and a reset note whom they come after.
LEMMA EndingStep ==
  ASSUME IInv, NEW x \in Actors \ Attempts, NEW q \in {"dismiss", "lock"}, pc[x] = "idle", End(x), Goto(x, q),
         UNCHANGED <<coreVars, storeVars, id, began, job, dismissed, doomed>>,
         after' \in {after, [after EXCEPT ![x] = InFlight]}
  PROVE  IInv'
<1> USE Kinds
<1>1. job[x] \in Finds /\ Moves(x, q, job[x]) /\ q \in Places
  BY NothingNoted DEF Moves, Goto, Places, IInv
<1>2. UNCHANGED <<open, epoch, rec, pw, made, key, gate, platform, blob, item, challenge, spared>>
  BY DEF coreVars, storeVars
<1>3. curId \in Nat /\ id \in [Actors -> Nat] /\ epoch \in Nat /\ curId' = curId + 1
  BY EndNumbers DEF IInv, TypeOK
<1>4. after' \in [Actors -> SUBSET Attempts]
  BY DEF InFlight, IInv, TypeOK
<1>5. TypeOK'
  BY <1>1, <1>2, <1>4, EndNumbers, Moved DEF IInv, TypeOK
<1>6. NumInv'
  BY <1>1, <1>2, <1>3, EndNumbers, NumKept DEF IInv
<1>7. DoomInv'
  <2>1. \A b \in Attempts : pc'[b] = pc[b] /\ job'[b] = job[b] /\ id[b] \in Nat
    BY <1>1, <1>3, Moved DEF IInv
  <2>2. \A b \in Attempts : job'[b].out = "unlocked" => pc'[b] \in {"report", "done"} /\ b \notin doomed'
    BY <2>1 DEF IInv, DoomInv
  <2>3. ASSUME NEW b \in doomed' PROVE Overtaken(b)'
    <3>1. b \in Attempts /\ Overtaken(b)
      BY DEF IInv, DoomInv, TypeOK
    <3> QED
      BY <1>2, <1>3, <2>1, <3>1 DEF Overtaken
  <2>4. ASSUME NEW y \in Actors, NEW b \in after'[y] PROVE pc'[b] # "idle" /\ id'[b] < curId'
    <3>1. b \in Attempts /\ pc[b] # "idle" /\ id[b] <= curId
      <4>1. CASE b \in after[y]
        BY <1>3, <4>1 DEF IInv, DoomInv, TypeOK
      <4>2. CASE b \in InFlight
        BY <4>2 DEF InFlight, IInv, NumInv
      <4>3. after \in [Actors -> SUBSET Attempts]
        BY DEF IInv, TypeOK
      <4> QED
        BY <2>4, <4>1, <4>2, <4>3
    <3> QED
      BY <1>3, <2>1, <3>1
  <2> QED
    BY <2>2, <2>3, <2>4 DEF DoomInv
<1>8. PromptInv'
  BY <1>1, EndKeepsPrompts
<1>9. EnableInv' /\ StaleInv'
  BY <1>1, <1>2, StoreKept
<1> QED
  BY <1>5, <1>6, <1>7, <1>8, <1>9 DEF IInv

LEMMA EndSteps ==
  /\ \A x \in Lockers : IInv /\ locking(x) => IInv'
  /\ \A x \in Resets : IInv /\ reset_instance(x) => IInv'
  /\ \A x \in Typers : IInv /\ TypedUnlock(x) => IInv'
<1> USE Kinds
<1>1. ASSUME NEW x \in Lockers, IInv, locking(x) PROVE IInv'
  BY <1>1, EndingStep DEF locking, Asked
<1>2. ASSUME NEW x \in Resets, IInv, reset_instance(x) PROVE IInv'
  BY <1>2, EndingStep DEF reset_instance, Asked
<1>3. ASSUME NEW x \in Typers, IInv, TypedUnlock(x) PROVE IInv'
  BY <1>3, EndingStep DEF TypedUnlock, Asked
<1> QED
  BY <1>1, <1>2, <1>3

LEMMA CancelStep ==
  ASSUME IInv, NEW x \in Cancels, NEW a \in Attempts, biometric_cancel(x, a)
  PROVE  IInv'
<1> USE Kinds
<1>1. x \in Actors \ Attempts /\ x \notin Enables /\ pc[x] = "idle" /\ ~Covers(x)
  BY DEF biometric_cancel, Asked, Covers
<1>2. CASE End(x)
  BY <1>1, <1>2, EndingStep DEF biometric_cancel
<1>3. CASE UNCHANGED <<curId, curDismiss, hand>>
  <2>1. job[x] \in Finds /\ Moves(x, "dismiss", job[x]) /\ "dismiss" \in Places
    BY <1>1, NothingNoted DEF biometric_cancel, Moves, Goto, Places, IInv
  <2>2. Odds' /\ UNCHANGED <<attemptVars, epoch, rec, pw, made, platform, blob, spared,
                     id, began, hand, dismissed, doomed, after>>
    BY <1>3, CoreOdds DEF biometric_cancel, coreVars, storeVars, attemptVars
  <2> QED
    BY <1>1, <2>1, <2>2, OtherMoves
<1> QED
  BY <1>2, <1>3 DEF biometric_cancel

\* The jobs that run a dismisser: a begun attempt, a cancel or a lock at its end, a reset
\* and a typed unlock, which reads the lock epoch in the same step.
LEMMA DismissStep ==
  ASSUME IInv, NEW x \in Actors, NEW q \in {"begun", "done", "refuse", "unlock"}, NEW j \in Finds,
         Moves(x, q, j), Dismiss(x), j.before = job[x].before,
         pc[x] \in {"begin", "dismiss"}, x \in Attempts => pc[x] = "begin" /\ q = "begun" /\ j = job[x],
         began' \in [Actors -> Nat], \A a \in Attempts : began'[a] = began[a],
         UNCHANGED <<attemptVars, coreVars, storeVars, id, doomed, after>>
  PROVE  IInv'
<1> USE Kinds
<1>1. q \in Places
  BY DEF Places
<1>2. UNCHANGED <<curId, curDismiss, open, epoch, rec, pw, made, key, gate, platform, blob, item, challenge, spared>>
  BY DEF coreVars, storeVars, attemptVars
<1>3. PromptInv' /\ dismissed' \subseteq Attempts /\ hand' \in [Actors -> Attempts \cup {Nobody}]
  BY <1>1, <1>2, DismissKeepsPrompts
<1>4. TypeOK'
  BY <1>1, <1>2, <1>3, Moved DEF IInv, TypeOK
<1>5. \A a \in Attempts : pc'[a] # "idle" <=> pc[a] # "idle"
  BY <1>1, Moved DEF IInv
<1>6. NumInv'
  BY <1>2, <1>5 DEF IInv, NumInv
<1>7. DoomInv'
  <2>1. ASSUME NEW a \in Attempts
        PROVE  job'[a].out = job[a].out /\ (pc'[a] = pc[a] \/ (pc[a] = "begin" /\ pc'[a] = "begun"))
    <3>1. CASE a = x
      BY <1>1, <3>1, Moved DEF IInv
    <3>2. CASE a # x
      BY <1>1, <3>2, Moved DEF IInv
    <3> QED
      BY <3>1, <3>2
  <2>2. \A a \in Attempts : job'[a].out = "unlocked" => pc'[a] \in {"report", "done"} /\ a \notin doomed'
    BY <2>1 DEF IInv, DoomInv
  <2>3. ASSUME NEW a \in doomed' PROVE Overtaken(a)'
    <3>1. a \in Attempts /\ Overtaken(a)
      BY DEF IInv, DoomInv, TypeOK
    <3> QED
      BY <1>2, <2>1, <3>1 DEF Overtaken
  <2>4. \A y \in Actors : \A a \in after'[y] : a \in Attempts /\ pc'[a] # "idle" /\ id'[a] < curId'
    BY <1>2, <1>5 DEF IInv, DoomInv, TypeOK
  <2> QED
    BY <2>2, <2>3, <2>4 DEF DoomInv
<1>8. EnableInv' /\ StaleInv'
  BY <1>1, <1>2, StoreKept
<1> QED
  BY <1>3, <1>4, <1>6, <1>7, <1>8 DEF IInv

LEMMA DismissSteps ==
  /\ \A a \in Attempts : IInv /\ Begun(a) => IInv'
  /\ \A x \in Cancels \cup Lockers : IInv /\ DismissLast(x) => IInv'
  /\ \A x \in Resets : IInv /\ ResetDismiss(x) => IInv'
  /\ \A x \in Typers : IInv /\ TypedBegins(x) => IInv'
<1> USE Kinds
<1>1. ASSUME IInv PROVE began \in [Actors -> Nat] /\ epoch \in Nat
  BY <1>1 DEF IInv, TypeOK
<1>2. ASSUME NEW a \in Attempts, IInv, Begun(a) PROVE IInv'
  <2>1. a \in Actors /\ job[a] \in Finds /\ Moves(a, "begun", job[a])
    BY <1>2, NothingNoted DEF Begun, Moves, Goto, IInv
  <2>2. /\ pc[a] = "begin" /\ Dismiss(a)
        /\ UNCHANGED <<attemptVars, coreVars, storeVars, id, began, doomed, after>>
    BY <1>2 DEF Begun
  <2> QED
    BY <1>1, <1>2, <2>1, <2>2, DismissStep
<1>3. ASSUME NEW x \in Cancels \cup Lockers, IInv, DismissLast(x) PROVE IInv'
  <2> DEFINE k == [job[x] EXCEPT !.out = "ok"]
  <2>1. x \in Actors /\ x \notin Attempts
    OBVIOUS
  <2>2. k \in Finds /\ k.before = job[x].before
    BY <1>3, <2>1, NothingNoted, NotedOut DEF IInv, Outs
  <2>3. Moves(x, "done", k)
    BY <1>3 DEF DismissLast, Done, Goto, Note, Moves
  <2>4. /\ pc[x] = "dismiss" /\ Dismiss(x)
        /\ UNCHANGED <<attemptVars, coreVars, storeVars, id, began, doomed, after>>
    BY <1>3 DEF DismissLast
  <2> HIDE DEF k
  <2> QED
    BY <1>1, <1>3, <2>1, <2>2, <2>3, <2>4, DismissStep
<1>4. ASSUME NEW x \in Resets, IInv, ResetDismiss(x) PROVE IInv'
  <2>1. x \in Actors /\ x \notin Attempts /\ job[x] \in Finds /\ Moves(x, "refuse", job[x])
    BY <1>4, NothingNoted DEF ResetDismiss, Moves, Goto, IInv
  <2>2. /\ pc[x] = "dismiss" /\ Dismiss(x)
        /\ UNCHANGED <<attemptVars, coreVars, storeVars, id, began, doomed, after>>
    BY <1>4 DEF ResetDismiss
  <2> QED
    BY <1>1, <1>4, <2>1, <2>2, DismissStep
<1>5. ASSUME NEW x \in Typers, IInv, TypedBegins(x) PROVE IInv'
  <2>1. x \in Actors /\ x \notin Attempts /\ job[x] \in Finds /\ Moves(x, "unlock", job[x])
    BY <1>5, NothingNoted DEF TypedBegins, Moves, Goto, IInv
  <2>2. /\ pc[x] = "dismiss" /\ Dismiss(x)
        /\ UNCHANGED <<attemptVars, coreVars, storeVars, id, doomed, after>>
    BY <1>5 DEF TypedBegins
  <2>3. began' \in [Actors -> Nat] /\ \A a \in Attempts : began'[a] = began[a]
    BY <1>1, <1>5, <2>1 DEF TypedBegins
  <2> QED
    BY <1>5, <2>1, <2>2, <2>3, DismissStep
<1> QED
  BY <1>2, <1>3, <1>4, <1>5

\* Core::lock, by a lock and by a reset: whoever has read the epoch is too late, and so is
\* whoever the lock came after, whose number is superseded.
LEMMA LockStep ==
  ASSUME IInv, NEW x \in Actors \ Attempts, NEW q \in {"dismiss", "remove"}, pc[x] = "lock", CoreLocks(x), Goto(x, q),
         UNCHANGED <<attemptVars, storeVars, rec, pw, made, key, gate, id, began, hand, job, dismissed, after>>
  PROVE  IInv'
<1> USE Kinds
<1>1. job[x] \in Finds /\ Moves(x, q, job[x]) /\ q \in Places
  BY NothingNoted DEF Moves, Goto, Places, IInv
<1>2. UNCHANGED <<curId, curDismiss, platform, blob, item, challenge, spared>>
  BY DEF attemptVars, storeVars
<1>3. /\ curId \in Nat /\ epoch \in Nat /\ id \in [Actors -> Nat] /\ began \in [Actors -> Nat]
      /\ doomed \subseteq Attempts
  BY DEF IInv, TypeOK
<1>4. open' = FALSE /\ epoch' = epoch + 1 /\ doomed' = doomed \cup Started \cup (after[x] \cap InFlight)
  BY DEF CoreLocks
<1>5. doomed' \subseteq Attempts
  BY <1>3, <1>4 DEF Started, InFlight
<1>12. open' \in BOOLEAN
  <2>1. open' = FALSE
    BY <1>4
  <2> QED
    BY <2>1
<1>13. epoch' \in Nat
  <2>1. epoch \in Nat /\ epoch' = epoch + 1
    BY <1>3, <1>4
  <2> QED
    BY <2>1
<1>6. TypeOK'
  BY <1>1, <1>2, <1>5, <1>12, <1>13, Moved DEF IInv, TypeOK
<1>7. NumInv'
  BY <1>1, <1>2, <1>3, <1>4, NumKept DEF IInv
<1>8. \A a \in Attempts : pc'[a] = pc[a] /\ job'[a] = job[a]
  BY <1>1, Moved DEF IInv
<1>9. DoomInv'
  <2>1. \A a \in Attempts : job[a].out = "unlocked" => a \notin InFlight
    BY DEF IInv, DoomInv, InFlight
  <2>2. \A a \in Attempts : job'[a].out = "unlocked" => pc'[a] \in {"report", "done"} /\ a \notin doomed'
    BY <1>4, <1>8, <2>1 DEF IInv, DoomInv, Started
  <2>3. ASSUME NEW a \in doomed' PROVE Overtaken(a)'
    <3>1. a \in Attempts /\ pc'[a] = pc[a] /\ id'[a] = id[a] /\ began'[a] = began[a]
      BY <1>5, <1>8
    <3>2. began[a] <= epoch /\ began[a] \in Nat
      BY <1>3, <3>1 DEF IInv, NumInv
    <3>3. CASE a \in doomed
      <4>1. Overtaken(a)
        BY <3>3 DEF IInv, DoomInv
      <4> QED
        BY <1>2, <1>3, <1>4, <3>1, <3>2, <4>1 DEF Overtaken
    <3>4. CASE a \in Started
      BY <1>3, <1>4, <3>1, <3>2, <3>4 DEF Overtaken, Started, InFlight
    <3>5. CASE a \in after[x] \cap InFlight
      <4>1. id[a] < curId /\ pc[a] \notin {"idle", "report", "done"}
        BY <3>5 DEF IInv, DoomInv, InFlight
      <4>2. CASE pc[a] \in {"begin", "begun"}
        BY <1>2, <3>1, <4>1, <4>2 DEF Overtaken
      <4>3. CASE pc[a] \notin {"begin", "begun"}
        BY <1>3, <1>4, <3>1, <3>2, <4>1, <4>3 DEF Overtaken
      <4> QED
        BY <4>2, <4>3
    <3> QED
      BY <1>4, <2>3, <3>3, <3>4, <3>5
  <2>4. ASSUME NEW y \in Actors, NEW a \in after'[y] PROVE pc'[a] # "idle" /\ id'[a] < curId'
    <3>1. a \in Attempts /\ pc[a] # "idle" /\ id[a] < curId
      BY <2>4 DEF IInv, DoomInv, TypeOK
    <3> QED
      BY <1>2, <1>8, <3>1
  <2> QED
    BY <2>2, <2>3, <2>4 DEF DoomInv
<1>10. PromptInv'
  BY <1>1, <1>2, PromptKept DEF IInv
<1>11. EnableInv' /\ StaleInv'
  BY <1>1, <1>2, StoreKept
<1> QED
  BY <1>6, <1>7, <1>9, <1>10, <1>11 DEF IInv

LEMMA LockSteps ==
  /\ \A x \in Lockers : IInv /\ LockCore(x) => IInv'
  /\ \A x \in Resets : IInv /\ ResetLocks(x) => IInv'
<1> USE Kinds
<1>1. ASSUME NEW x \in Lockers, IInv, LockCore(x) PROVE IInv'
  BY <1>1, LockStep DEF LockCore
<1>2. ASSUME NEW x \in Resets, IInv, ResetLocks(x) PROVE IInv'
  BY <1>2, LockStep DEF ResetLocks
<1> QED
  BY <1>1, <1>2

\* The job of a prompt starts: the lock epoch is read, and the number is checked after it.
LEMMA AskStep ==
  ASSUME IInv, NEW a \in Attempts, NEW kind \in {"password", "presence"}, biometric_unlock(a, kind)
  PROVE  IInv'
<1> USE Kinds
<1> DEFINE k == [job[a] EXCEPT !.kind = kind]
<1>1. a \in Actors /\ pc[a] = "begun" /\ k \in Finds /\ k.before = job[a].before /\ k.out = job[a].out
  BY NothingNoted, NotedKind DEF biometric_unlock, IInv
<1>2. Moves(a, "asked", k) /\ "asked" \in Places
  BY DEF biometric_unlock, Goto, Note, Moves, Places
<1> HIDE DEF k
<1>3. UNCHANGED <<curId, curDismiss, open, epoch, rec, pw, made, key, gate, platform, blob, item, challenge,
                  spared, id, hand, dismissed, doomed, after>>
  BY DEF biometric_unlock, attemptVars, coreVars, storeVars
<1>4. /\ epoch \in Nat /\ began \in [Actors -> Nat] /\ began' \in [Actors -> Nat] /\ began'[a] = epoch
      /\ \A b \in Actors : b # a => began'[b] = began[b]
  BY DEF biometric_unlock, IInv, TypeOK
<1>5. TypeOK'
  BY <1>1, <1>2, <1>3, <1>4, Moved DEF IInv, TypeOK
<1>6. \A b \in Attempts : b # a => pc'[b] = pc[b] /\ job'[b] = job[b]
  BY <1>1, <1>2, Moved DEF IInv
<1>7. pc'[a] = "asked" /\ job'[a] = k
  BY <1>1, <1>2, Moved DEF IInv
<1>8. NumInv'
  <2>1. \A b \in Attempts : began'[b] <= epoch'
    BY <1>3, <1>4 DEF IInv, NumInv
  <2>2. \A b \in Attempts : pc'[b] # "idle" => pc[b] # "idle"
    BY <1>1, <1>6
  <2> QED
    BY <1>3, <2>1, <2>2 DEF IInv, NumInv
<1>9. DoomInv'
  <2>1. job[a].out # "unlocked"
    BY <1>1 DEF IInv, DoomInv
  <2>2. \A b \in Attempts : job'[b].out = "unlocked" => pc'[b] \in {"report", "done"} /\ b \notin doomed'
    BY <1>1, <1>3, <1>6, <1>7, <2>1 DEF IInv, DoomInv
  <2>3. ASSUME NEW b \in doomed' PROVE Overtaken(b)'
    <3>1. b \in Attempts /\ Overtaken(b)
      BY <1>3, <2>3 DEF IInv, DoomInv, TypeOK
    <3>2. CASE b = a
      BY <1>1, <1>3, <1>7, <3>1, <3>2 DEF Overtaken
    <3>3. CASE b # a
      BY <1>3, <1>4, <1>6, <3>1, <3>3 DEF Overtaken
    <3> QED
      BY <3>2, <3>3
  <2>4. ASSUME NEW y \in Actors, NEW b \in after'[y] PROVE pc'[b] # "idle" /\ id'[b] < curId'
    <3>1. b \in Attempts /\ pc[b] # "idle" /\ id[b] < curId
      BY <1>3, <2>4 DEF IInv, DoomInv, TypeOK
    <3> QED
      BY <1>3, <1>6, <1>7, <3>1
  <2> QED
    BY <2>2, <2>3, <2>4 DEF DoomInv
<1>10. PromptInv'
  BY <1>1, <1>2, <1>3, PromptKept DEF IInv
<1>11. EnableInv' /\ StaleInv'
  BY <1>1, <1>2, <1>3, StoreKept
<1> QED
  BY <1>5, <1>8, <1>9, <1>10, <1>11 DEF IInv

LEMMA OutcomeStep ==
  ASSUME IInv, NEW a \in Attempts, attempt_outcome(a)
  PROVE  IInv'
<1> USE Kinds
<1>1. a \in Actors /\ pc[a] = "asked" /\ job[a] \in Finds /\ job[a].out # "unlocked"
  BY NothingNoted DEF attempt_outcome, IInv, DoomInv
<1>2. UNCHANGED <<curId, curDismiss, open, epoch, rec, pw, made, key, gate, platform, blob, item, challenge,
                  spared, id, began, hand, dismissed, doomed, after>>
  BY DEF attempt_outcome, attemptVars, coreVars, storeVars
<1>3. PICK q \in {"read", "report"}, j \in Finds :
        /\ Moves(a, q, j) /\ q \in Places /\ j.before = job[a].before /\ j.out # "unlocked"
        /\ (q = "read" => curId = id[a])
  <2>1. CASE curId = id[a]
    BY <1>1, <2>1, NothingNoted DEF attempt_outcome, Goto, Moves, Places, IInv
  <2>2. CASE curId # id[a]
    <3> DEFINE k == [job[a] EXCEPT !.out = "superseded"]
    <3>0. "superseded" \in Outs /\ "superseded" # "unlocked"
      BY DEF Outs
    <3>1. k \in Finds /\ k.before = job[a].before /\ k.out # "unlocked"
      BY <1>1, <3>0, NotedOut
    <3>2. Moves(a, "report", k) /\ "report" \in Places
      BY <2>2 DEF attempt_outcome, Goto, Note, Moves, Places
    <3> HIDE DEF k
    <3> QED
      BY <3>1, <3>2
  <2> QED
    BY <2>1, <2>2
<1>4. TypeOK'
  BY <1>1, <1>2, <1>3, Moved DEF IInv, TypeOK
<1>5. NumInv'
  BY <1>1, <1>2, <1>3, NumbersStay, NumKept DEF IInv
<1>6. \A b \in Attempts : b # a => pc'[b] = pc[b] /\ job'[b] = job[b]
  BY <1>1, <1>3, Moved DEF IInv
<1>7. pc'[a] = q /\ job'[a] = j
  BY <1>1, <1>3, Moved DEF IInv
<1>8. DoomInv'
  <2>1. \A b \in Attempts : job'[b].out = "unlocked" => pc'[b] \in {"report", "done"} /\ b \notin doomed'
    BY <1>2, <1>3, <1>6, <1>7 DEF IInv, DoomInv
  <2>2. ASSUME NEW b \in doomed' PROVE Overtaken(b)'
    <3>1. b \in Attempts /\ Overtaken(b) /\ id[b] \in Nat /\ curId \in Nat
      BY <1>2, <2>2 DEF IInv, DoomInv, TypeOK
    <3>2. CASE b = a
      BY <1>1, <1>2, <1>3, <1>7, <3>1, <3>2 DEF Overtaken
    <3>3. CASE b # a
      BY <1>2, <1>6, <3>1, <3>3 DEF Overtaken
    <3> QED
      BY <3>2, <3>3
  <2>3. ASSUME NEW y \in Actors, NEW b \in after'[y] PROVE pc'[b] # "idle" /\ id'[b] < curId'
    <3>1. b \in Attempts /\ pc[b] # "idle" /\ id[b] < curId
      BY <1>2, <2>3 DEF IInv, DoomInv, TypeOK
    <3> QED
      BY <1>2, <1>3, <1>6, <1>7, <3>1
  <2> QED
    BY <2>1, <2>2, <2>3 DEF DoomInv
<1>9. PromptInv'
  BY <1>1, <1>2, <1>3, PromptKept DEF IInv
<1>10. EnableInv' /\ StaleInv'
  BY <1>1, <1>2, <1>3, StoreKept
<1> QED
  BY <1>4, <1>5, <1>8, <1>9, <1>10 DEF IInv

LEMMA ShowStep ==
  ASSUME IInv, NEW a \in Attempts, showing(a)
  PROVE  IInv'
<1> USE Kinds
<1>1. a \in Actors /\ pc[a] = "show" /\ job[a] \in Finds /\ job[a].out # "unlocked"
  BY NothingNoted DEF showing, IInv, DoomInv
<1>2. Moves(a, "waiting", job[a]) /\ "waiting" \in Places
  BY <1>1, NothingNoted DEF showing, Goto, Moves, Places, IInv
<1>3. UNCHANGED <<curId, open, epoch, rec, pw, made, key, gate, platform, blob, item, challenge,
                  spared, id, began, hand, doomed, after>>
  BY DEF showing, coreVars, storeVars
<1>4. IF curId = id[a] THEN curDismiss' = a /\ dismissed' = dismissed
      ELSE dismissed' = dismissed \cup {a} /\ curDismiss' = curDismiss
  BY DEF showing
<1>5. curDismiss' \in Attempts \cup {Nobody} /\ dismissed' \subseteq Attempts
  BY <1>4 DEF IInv, TypeOK
<1>6. TypeOK'
  BY <1>1, <1>2, <1>3, <1>5, Moved DEF IInv, TypeOK
<1>7. NumInv'
  BY <1>1, <1>2, <1>3, NumbersStay, NumKept DEF IInv
<1>8. DoomInv'
  BY <1>1, <1>2, <1>3, NumbersStay, DoomKept DEF IInv
<1>9. PromptInv'
  <2>1. ASSUME NEW b \in Attempts, pc'[b] = "waiting"
        PROVE  IF curId' = id'[b] THEN curDismiss' = b ELSE b \in dismissed' \/ \E x \in Actors : hand'[x] = b
    <3>1. CASE b = a
      BY <1>3, <1>4, <3>1
    <3>2. CASE b # a
      <4>1. pc[b] = "waiting" /\ id[a] # id[b]
        BY <1>1, <1>2, <2>1, <3>2, Moved DEF IInv, NumInv
      <4>2. IF curId = id[b] THEN curDismiss = b ELSE b \in dismissed \/ \E x \in Actors : hand[x] = b
        BY <4>1 DEF IInv, PromptInv
      <4> QED
        BY <1>3, <1>4, <4>1, <4>2
    <3> QED
      BY <3>1, <3>2
  <2>2. \A x \in Actors : pc'[x] = "idle" => hand'[x] = Nobody
    BY <1>1, <1>2, <1>3, Moved DEF IInv, PromptInv
  <2> QED
    BY <2>1, <2>2 DEF PromptInv
<1>10. EnableInv' /\ StaleInv'
  BY <1>1, <1>2, <1>3, StoreKept
<1> QED
  BY <1>6, <1>7, <1>8, <1>9, <1>10 DEF IInv

LEMMA AnswerStep ==
  ASSUME IInv, NEW a \in Attempts, answered(a)
  PROVE  IInv'
<1> USE Kinds
<1>1. a \in Actors /\ pc[a] = "waiting" /\ job[a] \in Finds /\ job[a].out # "unlocked"
  BY NothingNoted DEF answered, IInv, DoomInv
<1>2. UNCHANGED <<curId, open, epoch, rec, pw, made, key, gate, platform, blob, item, challenge,
                  spared, id, began, hand, dismissed, doomed, after>>
  BY DEF answered, coreVars, storeVars
<1>3. PICK q \in {"wanted?", "release"}, j \in Finds :
        Moves(a, q, j) /\ q \in Places /\ j.before = job[a].before /\ j.out # "unlocked"
  <2>1. ASSUME NEW g \in {"cancelled", "failed"}, Answered(a, g)
        PROVE  \E q \in {"wanted?", "release"}, j \in Finds :
                 Moves(a, q, j) /\ q \in Places /\ j.before = job[a].before /\ j.out # "unlocked"
    <3> DEFINE k == [job[a] EXCEPT !.got = g]
    <3>0. g \in Gots
      BY <2>1 DEF Gots
    <3>1. k \in Finds /\ k.before = job[a].before /\ k.out # "unlocked"
      BY <1>1, <3>0, NotedGot
    <3>2. Moves(a, "wanted?", k) /\ "wanted?" \in Places
      BY <2>1 DEF Answered, Goto, Note, Moves, Places
    <3> HIDE DEF k
    <3> QED
      BY <3>1, <3>2
  <2>2. CASE Goto(a, "release") /\ UNCHANGED job
    BY <1>1, <2>2, NothingNoted DEF Goto, Moves, Places, IInv
  <2> QED
    BY <2>1, <2>2 DEF answered
<1>4. curDismiss' = IF curId = id[a] THEN Nobody ELSE curDismiss
  BY DEF answered
<1>5. TypeOK'
  <2>1. curDismiss' \in Attempts \cup {Nobody}
    BY <1>4 DEF IInv, TypeOK
  <2> QED
    BY <1>1, <1>2, <1>3, <2>1, Moved DEF IInv, TypeOK
<1>6. NumInv'
  BY <1>1, <1>2, <1>3, NumbersStay, NumKept DEF IInv
<1>7. DoomInv'
  BY <1>1, <1>2, <1>3, NumbersStay, DoomKept DEF IInv
<1>8. PromptInv'
  <2>1. ASSUME NEW b \in Attempts, pc'[b] = "waiting"
        PROVE  IF curId' = id'[b] THEN curDismiss' = b ELSE b \in dismissed' \/ \E x \in Actors : hand'[x] = b
    <3>1. b # a /\ pc[b] = "waiting"
      BY <1>1, <1>3, <2>1, Moved DEF IInv
    <3>2. id[a] # id[b]
      BY <1>1, <3>1 DEF IInv, NumInv
    <3>3. IF curId = id[b] THEN curDismiss = b ELSE b \in dismissed \/ \E x \in Actors : hand[x] = b
      BY <3>1 DEF IInv, PromptInv
    <3> QED
      BY <1>2, <1>4, <3>2, <3>3
  <2>2. \A x \in Actors : pc'[x] = "idle" => hand'[x] = Nobody
    BY <1>1, <1>2, <1>3, Moved DEF IInv, PromptInv
  <2> QED
    BY <2>1, <2>2 DEF PromptInv
<1>9. EnableInv' /\ StaleInv'
  BY <1>1, <1>2, <1>3, StoreKept
<1> QED
  BY <1>5, <1>6, <1>7, <1>8, <1>9 DEF IInv

(***************************************************************************)
(* The theorems.                                                           *)
(***************************************************************************)
LEMMA Start == Init => IInv
<1> USE Kinds
<1>1. SUFFICES ASSUME Init PROVE IInv
  OBVIOUS
<1>2. NoJob \in Finds /\ NoBlob \in Blobs /\ NoJob.before = 0 /\ NoJob.out = "none"
  BY DEF NoJob, NoBlob, Finds, Blobs, Gots, Outs, Parts, NoSecret
<1>3. item \in Parts /\ challenge \in Parts /\ pw \in Nat /\ rec = 1 /\ made = 1
  BY <1>1 DEF Init, Parts, Seals
<1>4. blob \in Blobs /\ (blob # NoBlob => blob.pw = pw)
  BY <1>1, <1>2, <1>3 DEF Init, Blobs
<1>5. pc \in [Actors -> Places] /\ job \in [Actors -> Finds] /\ spared \in [Actors -> Parts]
  BY <1>1, <1>2 DEF Init, Places, Parts
<1>6. TypeOK
  BY <1>1, <1>3, <1>4, <1>5 DEF Init, TypeOK
<1>7. NumInv /\ DoomInv /\ PromptInv
  BY <1>1, <1>2 DEF Init, NumInv, DoomInv, PromptInv
<1>8. EnableInv
  BY <1>1, <1>2, <1>3 DEF Init, EnableInv
<1>9. StaleInv
  BY <1>4 DEF StaleInv
<1> QED
  BY <1>6, <1>7, <1>8, <1>9 DEF IInv

LEMMA Step == IInv /\ [Next]_vars => IInv'
<1> SUFFICES ASSUME IInv, [Next]_vars PROVE IInv'
  OBVIOUS
<1>1. ASSUME NEW a \in Attempts, AttemptStep(a) PROVE IInv'
  BY <1>1, BeginStep, DismissSteps, AskStep, OutcomeStep, ReadStep, ProbeStep, ShowStep, AnswerStep,
     ReleaseStep, CheckSteps, ReportedStep DEF AttemptStep
<1>2. ASSUME NEW x \in Unlockers, UnlockStep(x) PROVE IInv'
  BY <1>2, VerifiesStep, InstallsStep DEF UnlockStep
<1>3. ASSUME NEW x \in Cancels, NEW a \in Attempts, biometric_cancel(x, a) PROVE IInv'
  BY <1>3, CancelStep
<1>4. ASSUME NEW x \in Cancels \cup Lockers, DismissLast(x) PROVE IInv'
  BY <1>4, DismissSteps
<1>5. ASSUME NEW x \in Lockers, locking(x) \/ LockCore(x) PROVE IInv'
  BY <1>5, EndSteps, LockSteps
<1>6. ASSUME NEW x \in Resets, ResetStep(x) PROVE IInv'
  BY <1>6, EndSteps, DismissSteps, RefuseStep, LockSteps, RemoveStep, ForgetKeyStep DEF ResetStep
<1>7. ASSUME NEW x \in Typers, TypedUnlock(x) \/ TypedBegins(x) PROVE IInv'
  BY <1>7, EndSteps, DismissSteps
<1>8. ASSUME NEW x \in Enables, EnableStep(x) PROVE IInv'
  BY <1>8, EnableBegins, VerifyStep, CreateSteps, WriteBlobStep, CompareStep DEF EnableStep
<1>9. ASSUME NEW x \in Installs, InstallStep(x) PROVE IInv'
  BY <1>9, InstallMoves, InstallWritesStep, InstallChecks DEF InstallStep
<1>10. ASSUME NEW x \in Disables, biometric_disable(x) PROVE IInv'
  BY <1>10, DisableStep
<1>11. ASSUME NEW x \in Actors, ForgetBlob(x) \/ ForgetSecret(x) PROVE IInv'
  BY <1>11, ForgetBlobStep, ForgetSecretStep
<1>12. CASE Reenrol
  BY <1>12, ReenrolStep
<1>13. CASE UNCHANGED vars
  <2>1. UNCHANGED <<curId, curDismiss, open, epoch, rec, pw, made, key, gate, platform, blob, item, challenge,
                    pc, id, began, hand, job, dismissed, after, doomed, spared>>
    BY <1>13 DEF vars
  <2> QED
    BY <2>1 DEF IInv, TypeOK, NumInv, DoomInv, Overtaken, PromptInv, EnableInv, SealKnown, StaleInv, Covers,
                Rewritten, SameRecord
<1> QED
  BY <1>1, <1>2, <1>3, <1>4, <1>5, <1>6, <1>7, <1>8, <1>9, <1>10, <1>11, <1>12, <1>13 DEF Next

LEMMA Sound == IInv => NoStaleSeal /\ AttemptsSound
<1> SUFFICES ASSUME IInv PROVE NoStaleSeal /\ AttemptsSound
  OBVIOUS
<1>1. ASSUME \A x \in Actors : pc[x] \in {"idle", "done"} PROVE \A x \in Actors : ~Covers(x)
  BY <1>1 DEF Covers
<1>2. NoStaleSeal
  BY <1>1 DEF NoStaleSeal, IInv, StaleInv
<1>3. LockBeatsPrompt
  BY DEF LockBeatsPrompt, IInv, DoomInv
<1>4. PromptReachable
  BY DEF PromptReachable, IInv, PromptInv
<1> QED
  BY <1>2, <1>3, <1>4 DEF AttemptsSound

LEMMA Invariant == Spec => []IInv
<1>1. Init => IInv
  BY Start
<1>2. IInv /\ [Next]_vars => IInv'
  BY Step
<1> QED
  BY <1>1, <1>2, PTL DEF Spec

\* The attempts, the core, the record, what is sealed and every job are well formed in
\* every state (biometric.rs: UnlockAttempts, the blob and the device secret).
THEOREM BiometricTypes == Spec => []TypeOK
<1>1. IInv => TypeOK
  BY DEF IInv
<1> QED
  BY <1>1, Invariant, PTL

\* A lock beats every attempt it came after, and the prompt of an attempt that is over can
\* be taken down, for any number of attempts, cancels, locks, resets and typed unlocks
\* (UnlockAttempts::begin, end and showing; Core::unlock_unless_locked_since).
THEOREM AttemptsAreSound == Spec => []AttemptsSound
<1>1. IInv => AttemptsSound
  BY Sound
<1> QED
  BY <1>1, Invariant, PTL

\* When every job has ended, a password sealed for a keyset that is gone is on disk only if
\* a wipe of that very file failed, for any number of enables, installs and resets
\* (seal_password, wipe_around_install, forget_after_keyset_change).
THEOREM NothingStaleStaysSealed == Spec => []NoStaleSeal
<1>1. IInv => NoStaleSeal
  BY Sound
<1> QED
  BY <1>1, Invariant, PTL
=============================================================================

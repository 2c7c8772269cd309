----------------------------- MODULE Recordings -----------------------------
(***************************************************************************)
(* Live shells and what is kept of them: a remote shell and its reader     *)
(* task (ssh-transport/src/client.rs), a shell of this machine with its    *)
(* reader and waiter threads (local-pty/src/lib.rs), the recording sink    *)
(* between them and the view (ffi/src/lib.rs), the desktop's registry of   *)
(* sessions with its lock command, and the command line's way out.         *)
(*                                                                         *)
(* Output is counted in chunks; a chunk may end in half a character.       *)
(* The calls on a session hold a reference to it, and the last reference   *)
(* that goes closes it.                                                    *)
(***************************************************************************)
EXTENDS Naturals, Sequences, FiniteSets

CONSTANTS
  Sessions,    \* sessions that may be opened, all of them recorded
  Kind,        \* function: session -> "plain" (remote) or "local"
  Callers,     \* blocking threads that run the commands of the view
  Uses,        \* commands beside open that are used: "write", "close", "lock", "exit"
  Chunks,      \* what a read brings: "whole", "half"
  Lingers,     \* may a process outlive the shell with the pty open: subset of BOOLEAN
  Timeouts,    \* do the timeouts of the local shell run out: BOOLEAN
  PutFails,    \* may the write to the vault fail: subset of BOOLEAN
  RecordingMax,\* RECORDING_MAX_BYTES, in chunks
  MaxOut,      \* bound: chunks a session prints
  MaxLocks     \* bound: how often the app is locked

\* What every instance of this module satisfies.
RecordingsAssumption ==
  /\ Kind \in [Sessions -> {"plain", "local"}]
  /\ Lingers \subseteq BOOLEAN /\ PutFails \subseteq BOOLEAN /\ Timeouts \in BOOLEAN
  /\ RecordingMax \in Nat /\ MaxOut \in Nat /\ MaxLocks \in Nat

VARIABLES
  core,    \* is the core unlocked
  reg,     \* the sessions in the app's registry
  ses,     \* session -> its shell, threads and recording
  act,     \* caller or "locker" -> the command it runs
  cut,     \* history: running local sessions the lock found in the registry
  locks,   \* how often the app was locked
  exit     \* the command line: "run", "waits", "gone", "gone early"

vars == <<core, reg, ses, act, cut, locks, exit>>

Actors == Callers \cup {"locker"}
Idle == [pc |-> "idle", s |-> "none", left |-> {}]

Fresh ==
  [st |-> "new", queue |-> <<>>, printed |-> 0, ended |-> FALSE, lingers |-> FALSE,
   stop |-> FALSE, reader |-> "no", notified |-> FALSE, waiter |-> "no", reaped |-> FALSE,
   closing |-> FALSE, strayKill |-> FALSE,
   body |-> 0, partial |-> FALSE, truncated |-> FALSE, shown |-> 0, late |-> 0, closes |-> 0,
   saver |-> "no", pending |-> FALSE, saved |-> "no", kept |-> 0]

Init ==
  /\ core = TRUE /\ reg = {} /\ ses = [s \in Sessions |-> Fresh]
  /\ act = [a \in Actors |-> Idle] /\ cut = {} /\ locks = 0 /\ exit = "run"

Local(s) == Kind[s] = "local"
Holds(a, s) == act[a].s = s /\ act[a].pc \in {"insert", "write", "close", "check", "kill", "wait"}
HeldElsewhere(a, s) == s \in reg \/ \E b \in Actors \ {a} : Holds(b, s)

----------------------------------------------------------------------------
\* The recorder.

\* append_event: past the limit a note takes the place of everything further.
append_event(r, n) ==
  IF r.body + n > RecordingMax THEN [r EXCEPT !.truncated = TRUE]
  ELSE [r EXCEPT !.body = @ + n]

\* split_utf8: a character cut by a read waits for its other half.
record(r, chunk) ==
  IF r.truncated THEN r
  ELSE IF chunk = "half" /\ ~r.partial THEN [r EXCEPT !.partial = TRUE]
  ELSE append_event([r EXCEPT !.partial = FALSE], IF r.partial THEN 2 ELSE 1)

\* A mutant: what waits for its other half is left behind.
MutFinish(r) == r

\* finish: what is left of a cut character is written as it is.
finish(r) ==
  IF r.partial /\ ~r.truncated THEN append_event([r EXCEPT !.partial = FALSE], 1) ELSE r

\* RecordingSink::on_data: recorded, then shown.
on_data(r, chunk) ==
  LET g == record(r, chunk)
  IN  [g EXCEPT !.shown = @ + 1, !.late = IF r.closes > 0 THEN @ + 1 ELSE @]

\* RecordingSaver::save: dropped when the core is locked by then, or the vault refuses.
save(r, fails) ==
  LET f == finish(r)
      in_vault == core /\ ~fails
  IN  [f EXCEPT !.saved = IF in_vault THEN "kept" ELSE "lost", !.kept = f.body]

----------------------------------------------------------------------------
\* Opening.

\* A detached write is counted from the moment the session opens.
Opened(s) ==
  IF Local(s)
    THEN [ses[s] EXCEPT !.st = "up", !.reader = "read", !.waiter = "wait"]
    ELSE [ses[s] EXCEPT !.st = "up", !.reader = "read", !.pending = TRUE]

\* A remote shell is logged into with what the vault holds.
OpenSession(a, s) ==
  /\ exit = "run" /\ act[a] = Idle /\ a # "locker" /\ ses[s].st = "new"
  /\ Local(s) \/ core
  /\ \/ /\ ses' = [ses EXCEPT ![s] = Opened(s)]
        /\ act' = [act EXCEPT ![a] = [Idle EXCEPT !.pc = "insert", !.s = s]]
     \/ /\ ses' = [ses EXCEPT ![s].st = "failed"]
        /\ UNCHANGED act
  /\ UNCHANGED <<core, reg, cut, locks, exit>>

\* session_open: what opened goes into the registry, locked or not by now.
Insert(a) ==
  /\ act[a].pc = "insert"
  /\ reg' = reg \cup {act[a].s}
  /\ act' = [act EXCEPT ![a] = Idle]
  /\ UNCHANGED <<core, ses, cut, locks, exit>>

----------------------------------------------------------------------------
\* The remote side, or the shell's process.

Prints(s, chunk) ==
  /\ ses[s].st = "up" /\ ses[s].reader # "gone" /\ ses[s].printed < MaxOut
  /\ ~ses[s].ended \/ ses[s].lingers
  /\ ses' = [ses EXCEPT ![s].queue = Append(@, chunk), ![s].printed = @ + 1]
  /\ UNCHANGED <<core, reg, act, cut, locks, exit>>

Ends(s, lingers) ==
  /\ ses[s].st = "up" /\ ~ses[s].ended
  /\ lingers => Local(s)
  /\ ses' = [ses EXCEPT ![s].ended = TRUE, ![s].lingers = lingers]
  /\ UNCHANGED <<core, reg, act, cut, locks, exit>>

\* The process that kept the pty open lets go of it.
LetsGo(s) ==
  /\ ses[s].lingers
  /\ ses' = [ses EXCEPT ![s].lingers = FALSE]
  /\ UNCHANGED <<core, reg, act, cut, locks, exit>>

----------------------------------------------------------------------------
\* The reader task of a remote shell.

ReadPlain(s) ==
  /\ ~Local(s) /\ ses[s].reader = "read" /\ ses[s].queue # <<>>
  /\ ses' = [ses EXCEPT ![s] = [on_data(@, Head(@.queue)) EXCEPT !.queue = Tail(@)]]
  /\ UNCHANGED <<core, reg, act, cut, locks, exit>>

\* A mutant: dropping the handle aborts the reader.
MutClosePlain(s) ==
  /\ ~Local(s) /\ ses[s].reader = "read" /\ ses[s].queue = <<>>
  /\ ses[s].ended \/ ses[s].stop
  /\ ses' = [ses EXCEPT ![s].reader = "gone",
                        ![s].closes = IF ses[s].ended THEN @ + 1 ELSE @,
                        ![s].saver = IF ses[s].ended THEN "save" ELSE @]
  /\ UNCHANGED <<core, reg, act, cut, locks, exit>>

\* What waits in the channel first, then the stop; the recording goes to a thread.
ClosePlain(s) ==
  /\ ~Local(s) /\ ses[s].reader = "read" /\ ses[s].queue = <<>>
  /\ ses[s].ended \/ ses[s].stop
  /\ ses' = [ses EXCEPT ![s].reader = "gone", ![s].closes = @ + 1, ![s].saver = "save"]
  /\ UNCHANGED <<core, reg, act, cut, locks, exit>>

SaveDetached(s, fails) ==
  /\ ses[s].saver = "save"
  /\ ses' = [ses EXCEPT ![s] = [save(@, fails) EXCEPT !.saver = "done", !.pending = FALSE]]
  /\ UNCHANGED <<core, reg, act, cut, locks, exit>>

----------------------------------------------------------------------------
\* The reader and the waiter of a local shell.

\* A chunk is read, and the close looked for.
ReadLocal(s) ==
  /\ Local(s) /\ ses[s].reader = "read" /\ ses[s].queue # <<>>
  /\ ses' = [ses EXCEPT ![s].reader = IF ses[s].notified THEN "gone" ELSE "gives"]
  /\ UNCHANGED <<core, reg, act, cut, locks, exit>>

GiveLocal(s) ==
  /\ ses[s].reader = "gives"
  /\ ses' = [ses EXCEPT ![s] = [on_data(@, Head(@.queue)) EXCEPT !.queue = Tail(@), !.reader = "read"]]
  /\ UNCHANGED <<core, reg, act, cut, locks, exit>>

EndOfFile(s) ==
  /\ Local(s) /\ ses[s].reader = "read" /\ ses[s].queue = <<>>
  /\ ses[s].ended /\ ~ses[s].lingers
  /\ ses' = [ses EXCEPT ![s].reader = "gone"]
  /\ UNCHANGED <<core, reg, act, cut, locks, exit>>

\* child.wait returns: the process id is free for another process.
Reap(s) ==
  /\ ses[s].waiter = "wait" /\ ses[s].ended
  /\ ses' = [ses EXCEPT ![s].waiter = "reaped"]
  /\ UNCHANGED <<core, reg, act, cut, locks, exit>>

StoreReaped(s) ==
  /\ ses[s].waiter = "reaped"
  /\ ses' = [ses EXCEPT ![s].waiter = "drain", ![s].reaped = TRUE]
  /\ UNCHANGED <<core, reg, act, cut, locks, exit>>

\* The reader ran dry, or DRAIN_TIMEOUT is over.
Drained(s) == ses[s].reader = "gone" \/ Timeouts

\* on_close: the view first, the recording on this thread after it.
ReportClose(s) ==
  /\ ses[s].waiter = "drain" /\ Drained(s)
  /\ ses' = [ses EXCEPT ![s].notified = TRUE, ![s].closes = @ + 1, ![s].waiter = "save"]
  /\ UNCHANGED <<core, reg, act, cut, locks, exit>>

SaveInline(s, fails) ==
  /\ ses[s].waiter = "save"
  /\ ses' = [ses EXCEPT ![s] = [save(@, fails) EXCEPT !.waiter = "done"]]
  /\ UNCHANGED <<core, reg, act, cut, locks, exit>>

----------------------------------------------------------------------------
\* Commands.  A reference is given back at the end of each; the last one closes.

\* What an actor does after its work on a session: the locker has others to drop.
Onward(a) ==
  IF act[a].left = {} THEN (IF a = "locker" THEN [Idle EXCEPT !.pc = "core"] ELSE Idle)
  ELSE [act[a] EXCEPT !.pc = "drop", !.s = CHOOSE s \in act[a].left : TRUE,
                      !.left = @ \ {CHOOSE s \in act[a].left : TRUE}]

\* The reference of a goes: to the next piece of work, or to the drop of the session.
Release(a) ==
  IF HeldElsewhere(a, act[a].s) THEN Onward(a) ELSE [act[a] EXCEPT !.pc = "drop"]

Write(a, s) ==
  /\ "write" \in Uses /\ exit = "run" /\ act[a] = Idle /\ a # "locker" /\ s \in reg
  /\ act' = [act EXCEPT ![a] = [Idle EXCEPT !.pc = "write", !.s = s]]
  /\ UNCHANGED <<core, reg, ses, cut, locks, exit>>

\* Input is taken when the other side takes it.
Written(a) ==
  /\ act[a].pc = "write"
  /\ act' = [act EXCEPT ![a] = Release(a)]
  /\ UNCHANGED <<core, reg, ses, cut, locks, exit>>

session_close(a, s) ==
  /\ "close" \in Uses /\ exit = "run" /\ act[a] = Idle /\ a # "locker" /\ s \in reg
  /\ reg' = reg \ {s}
  /\ act' = [act EXCEPT ![a] = [Idle EXCEPT !.pc = "close", !.s = s]]
  /\ UNCHANGED <<core, ses, cut, locks, exit>>

\* ShellHandle::close, or its drop: the reader is asked to finish.
ClosesPlain(a) ==
  LET s == act[a].s
  IN  /\ act[a].pc \in {"close", "drop"} /\ ~Local(s)
      /\ ses' = [ses EXCEPT ![s].stop = TRUE]
      /\ act' = [act EXCEPT ![a] = IF @.pc = "close" THEN Release(a) ELSE Onward(a)]
      /\ UNCHANGED <<core, reg, cut, locks, exit>>

\* LocalPty::close, once: the second call (the drop after a close) returns at once.
ClosesLocal(a) ==
  LET s == act[a].s
  IN  /\ act[a].pc \in {"close", "drop"} /\ Local(s)
      /\ IF ses[s].closing
           THEN /\ act' = [act EXCEPT ![a] = IF @.pc = "close" THEN Release(a) ELSE Onward(a)]
                /\ UNCHANGED ses
           ELSE /\ act' = [act EXCEPT ![a].pc = "check"]
                /\ ses' = [ses EXCEPT ![s].closing = TRUE]
      /\ UNCHANGED <<core, reg, cut, locks, exit>>

\* A shell that was waited for is not signalled.
LooksReaped(a) ==
  /\ act[a].pc = "check"
  /\ act' = [act EXCEPT ![a].pc = IF ses[act[a].s].reaped THEN "wait" ELSE "kill"]
  /\ UNCHANGED <<core, reg, ses, cut, locks, exit>>

Kill(a) ==
  LET s == act[a].s
  IN  /\ act[a].pc = "kill"
      /\ ses' = [ses EXCEPT ![s].stop = TRUE,
                            ![s].strayKill = @ \/ ses[s].waiter # "wait"]
      /\ act' = [act EXCEPT ![a].pc = "wait"]
      /\ UNCHANGED <<core, reg, cut, locks, exit>>

\* The waiter thread ended, or CLOSE_TIMEOUT is over.
Waited(a) ==
  /\ act[a].pc = "wait"
  /\ ses[act[a].s].waiter = "done" \/ Timeouts
  /\ act' = [act EXCEPT ![a] = Release(a)]
  /\ UNCHANGED <<core, reg, ses, cut, locks, exit>>

----------------------------------------------------------------------------
\* Locking, unlocking, and the command line's way out.

\* sessions.clear: a session no call holds is dropped here, one after the other.
LockClears ==
  /\ "lock" \in Uses /\ act["locker"] = Idle /\ locks < MaxLocks /\ core /\ exit = "run"
  /\ locks' = locks + 1
  /\ reg' = {}
  /\ cut' = {s \in reg : Local(s) /\ ses[s].saved = "no"}
  /\ LET mine == {s \in reg : \A a \in Callers : ~Holds(a, s)}
     IN  act' = [act EXCEPT !["locker"] =
                   IF mine = {} THEN [Idle EXCEPT !.pc = "core"]
                   ELSE [pc |-> "drop", s |-> CHOOSE s \in mine : TRUE,
                         left |-> mine \ {CHOOSE s \in mine : TRUE}]]
  /\ UNCHANGED <<core, ses, exit>>

LockCore ==
  /\ act["locker"].pc = "core"
  /\ core' = FALSE
  /\ act' = [act EXCEPT !["locker"] = Idle]
  /\ UNCHANGED <<reg, ses, cut, locks, exit>>

Unlock ==
  /\ ~core
  /\ core' = TRUE /\ cut' = {}
  /\ UNCHANGED <<reg, ses, act, locks, exit>>

\* The shell of the command line ended, or its user hung up and a thread closes it.
WaitForRecordings ==
  /\ "exit" \in Uses /\ exit = "run" /\ reg # {}
  /\ exit' = "waits"
  /\ ses' = [s \in Sessions |->
               IF s \in reg /\ ses[s].closes = 0 THEN [ses[s] EXCEPT !.stop = TRUE] ELSE ses[s]]
  /\ UNCHANGED <<core, reg, act, cut, locks>>

\* wait_idle: the count of pending writes fell to zero, or the grace is over.
Exit ==
  /\ exit = "waits"
  /\ \/ (\A s \in Sessions : ~ses[s].pending) /\ exit' = "gone"
     \/ Timeouts /\ exit' = "gone early"
  /\ UNCHANGED <<core, reg, ses, act, cut, locks>>

----------------------------------------------------------------------------
Thread(s) ==
  \/ ReadPlain(s) \/ ClosePlain(s) \/ ReadLocal(s) \/ GiveLocal(s) \/ EndOfFile(s)
  \/ Reap(s) \/ StoreReaped(s) \/ ReportClose(s)
  \/ \E f \in PutFails : SaveDetached(s, f) \/ SaveInline(s, f)
Work(a) ==
  Insert(a) \/ Written(a) \/ ClosesPlain(a) \/ ClosesLocal(a) \/ LooksReaped(a) \/ Kill(a) \/ Waited(a)

Next ==
  /\ exit \in {"run", "waits"}
  /\ \/ \E s \in Sessions : Thread(s) \/ LetsGo(s)
     \/ \E s \in Sessions, c \in Chunks : Prints(s, c)
     \/ \E s \in Sessions, l \in Lingers : Ends(s, l)
     \/ \E a \in Actors : Work(a)
     \/ \E a \in Callers, s \in Sessions : OpenSession(a, s) \/ Write(a, s) \/ session_close(a, s)
     \/ LockClears \/ LockCore \/ Unlock \/ WaitForRecordings \/ Exit

\* The threads and the commands go on; a shell that was killed dies.
Fairness ==
  /\ \A s \in Sessions : WF_vars(Thread(s)) /\ WF_vars(ses[s].stop /\ Ends(s, FALSE))
  /\ \A a \in Actors : WF_vars(Work(a))
  /\ WF_vars(LockCore)

Spec == Init /\ [][Next]_vars
FairSpec == Spec /\ Fairness

----------------------------------------------------------------------------
TypeOK ==
  /\ core \in BOOLEAN /\ reg \subseteq Sessions /\ cut \subseteq Sessions /\ locks \in 0 .. MaxLocks
  /\ exit \in {"run", "waits", "gone", "gone early"}
  /\ \A s \in Sessions :
       /\ ses[s].st \in {"new", "up", "failed"} /\ ses[s].reader \in {"no", "read", "gives", "gone"}
       /\ ses[s].waiter \in {"no", "wait", "reaped", "drain", "save", "done"}
       /\ ses[s].saver \in {"no", "save", "done"} /\ ses[s].saved \in {"no", "kept", "lost"}
       /\ ses[s].body \in 0 .. RecordingMax /\ ses[s].shown \in 0 .. MaxOut
  /\ \A a \in Actors :
       act[a].pc \in {"idle", "insert", "write", "close", "drop", "check", "kill", "wait", "core"}

\* A recording that was kept and not cut off at the limit holds everything the view was
\* shown up to the close, a half character at the end included (RecordingSink).
RecordingWhole ==
  \A s \in Sessions :
    ses[s].saved = "kept" /\ ~ses[s].truncated => ses[s].kept + ses[s].late >= ses[s].shown

\* A remote shell is shown and recorded to its last word, whichever way it ends: what came
\* before the close is not left in the channel (open_shell's biased select).  A local one
\* too, unless something keeps its pty open past the drain timeout.
NothingLeftUnread ==
  \A s \in Sessions :
    ses[s].closes > 0 /\ (Local(s) => ~Timeouts) => ses[s].shown = ses[s].printed

\* The recordings of the local shells the lock ended are in the vault before it is locked
\* (close is synchronous and the write inline).
LocalSurvivesLock ==
  ~core => \A s \in cut : ses[s].saved = "kept"

\* A command line that was told its recordings are written has lost none.
ExitAfterSaved ==
  exit = "gone" => \A s \in Sessions : ses[s].st = "up" /\ ~Local(s) => ses[s].saved # "no"

\* Once it is closed or dropped, a session's recording is written or given up, and its close
\* is reported.
ClosedIsRecorded ==
  \A s \in Sessions : (ses[s].stop /\ ses[s].st = "up") ~> (ses[s].saved # "no" /\ ses[s].closes = 1)
=============================================================================

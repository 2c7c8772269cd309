---------------------------- MODULE PasswordFill ----------------------------
(***************************************************************************)
(* Typing a session's saved login password at a prompt                     *)
(* (ffi/src/password_fill.rs; SshSession in ffi/src/lib.rs; the offer bar  *)
(* of the terminal view).                                                  *)
(*                                                                         *)
(* The reader of the session's output, idle timers, the user's keystrokes  *)
(* and fills each change the guard's state under its lock and then hand    *)
(* output and events on under two further locks, each taken before the     *)
(* one before is released.  What the remote side prints is free.           *)
(***************************************************************************)
EXTENDS Naturals, Sequences, FiniteSets, SequencesExt

CONSTANTS
  Chunks,      \* what one read of the output may bring: sequences of tokens
  Kinds,       \* tokens that are a prompt the password may answer
  Secrets,     \* function: a saved password -> its characters, as tokens
  Inputs,      \* what the user may type: "enter", "text", "focus"
  Fillers,     \* calls of fill_login_password
  Timers,      \* idle timers that run at a time
  HoldMax,     \* HOLD_MAX, in tokens
  MaxFed,      \* bound: tokens of output
  MaxInputs    \* bound: writes by the user

\* What every instance of this module satisfies.
FillAssumption ==
  /\ HoldMax \in Nat /\ MaxFed \in Nat /\ MaxInputs \in Nat
  /\ \A s \in DOMAIN Secrets : Len(Secrets[s]) > 0

Actors == {"reader", "user"} \cup Timers \cup Fillers
None == [on |-> FALSE]

VARIABLES
  tail,      \* the last line of the output: "", a prompt, or "other"
  current,   \* the prompt instance that is waiting, or None
  lastFill,  \* the last fill, or None
  echo,      \* the mask after a fill, or None
  rejected,  \* passwords the remote rejected
  gen,       \* counts chunks (hold_gen)
  nextId,    \* the id of the next offer
  saved,     \* the password in the vault, or "locked"
  job,       \* actor -> where it is and what it hands on
  timers,    \* generations idle timers were set for
  ui,        \* the offer bar: newest id seen, the offer shown (0: none)
  fed,       \* how many tokens of output came
  ended,     \* how far the end of the output got: "no", "ends", "closed"
  shown,     \* history: the tokens handed on, in order
  typed,     \* history: the fills written: offer and password
  told,      \* history: passwords reported as rejected
  kills,     \* how often a line kill (Ctrl-U) was handed to the session
  inputs     \* how often the user typed

vars == <<tail, current, lastFill, echo, rejected, gen, nextId, saved, job, timers, ui,
          fed, ended, shown, typed, told, kills, inputs>>
guard == <<tail, current, lastFill, echo, rejected, gen, nextId>>

Idle == [pc |-> "idle", out |-> <<>>, ev |-> <<>>]

\* The state lock is held by who waits for the next lock.
StateFree == \A a \in Actors : job[a].pc \notin {"leave", "leave by key"}

\* A mutant: the output's place is not waited for.
OutFree == \A a \in Actors : job[a].pc # "out"
EmitFree == \A a \in Actors : job[a].pc # "emit"

Live(id) == current.on /\ current.offerable /\ ~current.consumed /\ current.id = id

Token(t, n) == [t |-> t, n |-> n]
Plain(data) == [i \in DOMAIN data |-> data[i].t]

----------------------------------------------------------------------------
\* Recognising a prompt.

\* The last line after one more token: a prompt must stand on a line of its own.
LineAfter(line, t) ==
  IF t = "nl" THEN ""
  ELSE IF t \in Kinds /\ line = "" THEN t ELSE "other"

\* push_tail: what is drawn elsewhere on the screen leaves the tail alone.
push_tail(line, out) ==
  IF out # <<>> /\ \A i \in DOMAIN out : out[i].t = "elsewhere"
    THEN line ELSE FoldLeft(LineAfter, line, Plain(out))

classify_tail(line) == IF line \in Kinds THEN line ELSE "none"

\* The guard's state as one record, for the functions that pass it on.
G0 == [tail |-> tail, current |-> current, lastFill |-> lastFill, echo |-> echo,
       rejected |-> rejected, nextId |-> nextId, ev |-> <<>>]
SetGuard(g) ==
  /\ tail' = g.tail /\ current' = g.current /\ lastFill' = g.lastFill /\ echo' = g.echo
  /\ rejected' = g.rejected /\ nextId' = g.nextId

Withdrawn(id) == [type |-> "withdrawn", id |-> id]
Offered(id) == [type |-> "offered", id |-> id]
Reported(type) == [type |-> type, id |-> 0]

\* The prompt a fill just answered came straight back with nothing but Enter.
Refused(g, kind) ==
  g.lastFill.on /\ g.lastFill.kind = kind /\ g.lastFill.typed # "other" /\ g.lastFill.recent

\* A new prompt: offered, unless it is the rejection of the last fill.
open_instance(g, kind) ==
  LET instance(id, ok) == [on |-> TRUE, id |-> id, kind |-> kind, offerable |-> ok, consumed |-> FALSE]
  IN  IF Refused(g, kind)
        THEN [g EXCEPT !.current = instance(0, FALSE),
                       !.ev = IF g.lastFill.rejected THEN @ ELSE Append(@, Reported("rejected")),
                       !.rejected = IF g.lastFill.rejected THEN @ ELSE @ \cup {g.lastFill.secret},
                       !.lastFill.rejected = TRUE]
        ELSE [g EXCEPT !.current = instance(g.nextId, TRUE),
                       !.ev = Append(@, Offered(g.nextId)), !.nextId = @ + 1]

transition(g, next) ==
  IF \/ ~g.current.on /\ next = "none"
     \/ g.current.on /\ g.current.kind = next
    THEN g
    ELSE LET gone == g.current.on /\ g.current.offerable /\ ~g.current.consumed
             h == IF gone THEN [g EXCEPT !.ev = Append(@, Withdrawn(g.current.id))] ELSE g
         IN  IF next = "none" THEN [h EXCEPT !.current = None] ELSE open_instance(h, next)

\* Output about to be shown: a line that was left ends the prompt on it.
observe(g, out) ==
  LET h == [g EXCEPT !.tail = push_tail(@, out)]
      left == IF \E i \in DOMAIN out : out[i].t = "nl" THEN transition(h, "none") ELSE h
  IN  transition(left, classify_tail(h.tail))

----------------------------------------------------------------------------
\* The mask.

\* attempt: the secret's characters in order, line breaks between them passed over.
attempt(data, start, secret) ==
  LET walk[p \in (1 .. Len(data) + 1) \X (0 .. Len(secret))] ==
        IF p[2] = Len(secret) THEN [is |-> "full", end |-> p[1] - 1]
        ELSE IF p[1] > Len(data) THEN [is |-> "partial", end |-> 0]
        ELSE IF data[p[1]].t = secret[p[2] + 1] THEN walk[<<p[1] + 1, p[2] + 1>>]
        ELSE IF p[2] > 0 /\ data[p[1]].t = "nl" THEN walk[<<p[1] + 1, p[2]>>]
        ELSE [is |-> "miss", end |-> 0]
  IN  walk[<<start, 0>>]

\* The characters of an occurrence become stars; what stands between them stays.
Stars(data) == [i \in DOMAIN data |-> IF data[i].t = "nl" THEN data[i] ELSE Token("*", data[i].n)]

MayHold(m, n) == ~m.over /\ n <= HoldMax

\* A mutant: an occurrence that two reads share is not seen.
MutFeed(m, data) == [out |-> data, held |-> <<>>, echoed |-> FALSE, mark |-> m.mark]

\* feed: occurrences are masked, a possible start at the end is held back.
feed(m, data) ==
  LET scan[i \in 1 .. Len(data) + 1] ==
        IF i > Len(data) THEN [out |-> <<>>, held |-> <<>>, echoed |-> FALSE, mark |-> m.mark]
        ELSE LET a == attempt(data, i, Secrets[m.secret])
             IN  CASE a.is = "full" ->
                        LET r == scan[a.end + 1]
                        IN  [r EXCEPT !.out = Stars(SubSeq(data, i, a.end)) \o @,
                                      !.echoed = @ \/ ~m.input]
                   [] a.is = "partial" /\ MayHold(m, Len(data) - i + 1) ->
                        [out |-> <<>>, held |-> SubSeq(data, i, Len(data)), echoed |-> FALSE,
                         mark |-> m.mark]
                   [] OTHER ->
                        LET r == scan[i + 1]
                        IN  [r EXCEPT !.out = <<data[i]>> \o @,
                                      !.mark = IF a.is = "partial" /\ data[i].n > @ THEN data[i].n ELSE @]
  IN  scan[1]

----------------------------------------------------------------------------
\* The reader.

\* A rejection among the events is about the last fill.
Told(ev) == IF \E i \in DOMAIN ev : ev[i].type = "rejected" THEN told \cup {lastFill.secret} ELSE told

\* on_output: one read of the output.
OnOutput(chunk) ==
  LET data == [i \in DOMAIN chunk |-> Token(chunk[i], fed + i)]
      f == IF echo.on THEN feed(echo, echo.held \o data)
           ELSE [out |-> data, held |-> <<>>, echoed |-> FALSE, mark |-> 0]
      g == [G0 EXCEPT !.ev = IF f.echoed THEN <<Reported("echoed")>> ELSE <<>>,
                      !.echo = IF ~echo.on \/ echo.over THEN None
                               ELSE [@ EXCEPT !.held = f.held, !.mark = f.mark]]
      h == observe(g, f.out)
  IN  /\ ended = "no" /\ job["reader"].pc = "idle" /\ StateFree
      /\ fed + Len(chunk) <= MaxFed
      /\ SetGuard(h)
      /\ gen' = gen + 1
      /\ fed' = fed + Len(chunk)
      /\ timers' = IF h.echo.on /\ h.echo.held # <<>> THEN timers \cup {gen + 1} ELSE timers
      /\ told' = Told(h.ev)
      /\ job' = [job EXCEPT !["reader"] = [pc |-> "leave", out |-> f.out, ev |-> h.ev]]
      /\ UNCHANGED <<saved, ui, ended, shown, typed, kills, inputs>>

\* FillSink::on_close: what the mask held goes out before the close does.
OnClose ==
  /\ ended = "no" /\ job["reader"].pc = "idle" /\ StateFree
  /\ echo' = None
  /\ ended' = "ends"
  /\ job' = [job EXCEPT !["reader"] =
               [pc |-> "leave", out |-> IF echo.on THEN echo.held ELSE <<>>, ev |-> <<>>]]
  /\ UNCHANGED <<tail, current, lastFill, rejected, gen, nextId, saved, timers, ui, fed, shown,
                 typed, told, kills, inputs>>

\* The close itself is handed on.
Closed ==
  /\ ended = "ends" /\ job["reader"].pc = "idle"
  /\ ended' = "closed"
  /\ UNCHANGED <<guard, saved, job, timers, ui, fed, shown, typed, told, kills, inputs>>

\* A timer has something to do when no chunk came since it was set.
Due(g) == gen = g

\* flush_idle: what was held back and nothing followed is output after all.
FlushIdle(t, g) ==
  LET out == IF echo.on THEN echo.held ELSE <<>>
      h == IF out = <<>> THEN G0
           ELSE observe([G0 EXCEPT !.echo.held = <<>>, !.echo.mark = fed], out)
  IN  /\ g \in timers /\ job[t].pc = "idle" /\ StateFree
      /\ timers' = timers \ {g}
      /\ IF Due(g)
           THEN SetGuard(h) /\ job' = [job EXCEPT ![t] = [pc |-> "leave", out |-> out, ev |-> h.ev]]
           ELSE UNCHANGED <<tail, current, lastFill, echo, rejected, nextId, job>>
      /\ told' = IF Due(g) THEN Told(h.ev) ELSE told
      /\ UNCHANGED <<gen, saved, ui, fed, ended, shown, typed, kills, inputs>>

----------------------------------------------------------------------------
\* release: the state is let go once the output's place is taken, and the output
\* once the events' place is.

ToOut(a) ==
  /\ job[a].pc = "leave" /\ OutFree
  /\ job' = [job EXCEPT ![a].pc = "out"]
  /\ UNCHANGED <<guard, saved, timers, ui, fed, ended, shown, typed, told, kills, inputs>>

ToEmit(a) ==
  /\ job[a].pc = "out" /\ EmitFree
  /\ shown' = shown \o job[a].out
  /\ job' = [job EXCEPT ![a].pc = "emit"]
  /\ UNCHANGED <<guard, saved, timers, ui, fed, ended, typed, told, kills, inputs>>

\* Keystrokes produce no output and go straight to the events.
KeyToEmit(a) ==
  /\ job[a].pc = "leave by key" /\ EmitFree
  /\ job' = [job EXCEPT ![a].pc = "emit"]
  /\ UNCHANGED <<guard, saved, timers, ui, fed, ended, shown, typed, told, kills, inputs>>

\* The offer bar: an offer older than the newest id it has seen is dropped.
onFill(u, e) ==
  CASE e.type = "offered" -> IF e.id <= u.seen THEN u ELSE [seen |-> e.id, offer |-> e.id]
    [] e.type = "withdrawn" -> [seen |-> IF e.id > u.seen THEN e.id ELSE u.seen,
                                offer |-> IF u.offer = e.id THEN 0 ELSE u.offer]
    [] OTHER -> [u EXCEPT !.offer = 0]

\* deliver: the events reach the bar in their order; an echoed password first kills the line
\* it stands on.  What the remote side makes of the byte is its own affair.
Deliver(a) ==
  /\ job[a].pc = "emit"
  /\ ui' = FoldLeft(onFill, ui, job[a].ev)
  /\ kills' = kills + Len(SelectSeq(job[a].ev, LAMBDA e : e.type = "echoed"))
  /\ job' = [job EXCEPT ![a] =
       IF a \in Fillers
         THEN [@ EXCEPT !.pc = IF job[a].won THEN "write" ELSE "idle", !.out = <<>>, !.ev = <<>>]
       ELSE IF a = "user" THEN [@ EXCEPT !.pc = "write", !.ev = <<>>]
       ELSE Idle]
  /\ UNCHANGED <<guard, saved, timers, fed, ended, shown, typed, told, inputs>>

----------------------------------------------------------------------------
\* The user.

\* A live offer is spent by a keystroke.
Spend(g) ==
  IF g.current.on /\ g.current.offerable /\ ~g.current.consumed
    THEN [g EXCEPT !.current.consumed = TRUE, !.ev = Append(@, Withdrawn(g.current.id))] ELSE g

\* SshSession::write, before the write: note_input.  A focus report is not a key.
NoteInput(what) ==
  LET m == IF echo.on THEN [echo EXCEPT !.input = TRUE] ELSE echo
      l == IF lastFill.on
             THEN [lastFill EXCEPT !.typed = IF @ = "other" \/ what = "text" THEN "other" ELSE "enter"]
             ELSE lastFill
      g == Spend([G0 EXCEPT !.echo = m, !.lastFill = l])
  IN  /\ job["user"].pc = "idle" /\ inputs < MaxInputs
      /\ inputs' = inputs + 1
      /\ IF what = "focus"
           THEN /\ job' = [job EXCEPT !["user"] = [pc |-> "write", out |-> <<>>, ev |-> <<>>, what |-> what]]
                /\ UNCHANGED <<tail, current, lastFill, echo, rejected, nextId>>
           ELSE /\ StateFree
                /\ SetGuard(g)
                /\ job' = [job EXCEPT !["user"] =
                             [pc |-> "leave by key", out |-> <<>>, ev |-> g.ev, what |-> what]]
      /\ UNCHANGED <<gen, saved, timers, ui, fed, ended, shown, typed, told, kills>>

\* SshSession::write, the write.
UserWrites ==
  /\ job["user"].pc = "write"
  /\ job' = [job EXCEPT !["user"] = Idle]
  /\ UNCHANGED <<guard, saved, timers, ui, fed, ended, shown, typed, told, kills, inputs>>

----------------------------------------------------------------------------
\* A fill.

\* The user accepts the offer shown; the bar goes, the call checks the offer.
Accept(f) ==
  /\ job[f].pc = "idle" /\ ui.offer # 0 /\ StateFree
  /\ ui' = [ui EXCEPT !.offer = 0]
  /\ job' = [job EXCEPT ![f] =
       IF Live(ui.offer)
         THEN [pc |-> "read", out |-> <<>>, ev |-> <<>>, id |-> ui.offer, secret |-> "none", won |-> FALSE]
         ELSE Idle]
  /\ UNCHANGED <<guard, saved, timers, fed, ended, shown, typed, told, kills, inputs>>

\* The same call a second time: a double click, another window.
Again(f) ==
  /\ job[f].pc = "idle" /\ StateFree
  /\ \E e \in Fillers \ {f} :
       /\ job[e].pc \in {"read", "claim", "leave", "out", "emit", "write"}
       /\ job' = [job EXCEPT ![f] =
            IF Live(job[e].id)
              THEN [pc |-> "read", out |-> <<>>, ev |-> <<>>, id |-> job[e].id, secret |-> "none", won |-> FALSE]
              ELSE Idle]
  /\ UNCHANGED <<guard, saved, timers, ui, fed, ended, shown, typed, told, kills, inputs>>

\* The password is read from the vault, which may be locked by then.
ReadSecret(f) ==
  /\ job[f].pc = "read"
  /\ job' = [job EXCEPT ![f] = IF saved = "locked" THEN Idle
                               ELSE [@ EXCEPT !.pc = "claim", !.secret = saved]]
  /\ UNCHANGED <<guard, saved, timers, ui, fed, ended, shown, typed, told, kills, inputs>>

\* The offer is still live and the password is not one that was rejected.
MayClaim(id, secret) == Live(id) /\ secret \notin rejected

\* claim: the offer is taken and the mask is armed in one step; what an older mask
\* held goes out.
Claim(f) ==
  LET id == job[f].id
      s == job[f].secret
  IN  /\ job[f].pc = "claim" /\ StateFree
      /\ IF MayClaim(id, s)
           THEN /\ current' = [current EXCEPT !.consumed = TRUE]
                /\ echo' = [on |-> TRUE, secret |-> s, input |-> FALSE, over |-> FALSE,
                            held |-> <<>>, mark |-> fed]
                /\ lastFill' = [on |-> TRUE, kind |-> current.kind, secret |-> s,
                                typed |-> "nothing", recent |-> TRUE, rejected |-> FALSE]
                /\ job' = [job EXCEPT ![f] =
                     [@ EXCEPT !.pc = "leave", !.out = IF echo.on THEN echo.held ELSE <<>>,
                               !.ev = <<Withdrawn(id)>>, !.won = TRUE]]
           ELSE /\ job' = [job EXCEPT ![f].pc = "leave"]
                /\ UNCHANGED <<current, echo, lastFill>>
      /\ UNCHANGED <<tail, rejected, gen, nextId, saved, timers, ui, fed, ended, shown, typed, told,
                     kills, inputs>>

\* write_secret: the password goes to the session, without Enter.
FillWrites(f) ==
  /\ f \in Fillers /\ job[f].pc = "write"
  /\ typed' = Append(typed, [id |-> job[f].id, secret |-> job[f].secret])
  /\ job' = [job EXCEPT ![f] = Idle]
  /\ UNCHANGED <<guard, saved, timers, ui, fed, ended, shown, told, kills, inputs>>

\* abort_fill: the write failed; nothing was typed.
AbortFill(f) ==
  /\ f \in Fillers /\ job[f].pc = "write" /\ StateFree
  /\ echo' = None
  /\ lastFill' = None
  /\ job' = [job EXCEPT ![f] = [@ EXCEPT !.pc = "leave", !.won = FALSE, !.ev = <<>>,
                                         !.out = IF echo.on THEN echo.held ELSE <<>>]]
  /\ UNCHANGED <<tail, current, rejected, gen, nextId, saved, timers, ui, fed, ended, shown,
                 typed, told, kills, inputs>>

----------------------------------------------------------------------------
\* Time, and the vault.

\* REJECT_WINDOW is over.
RejectWindow ==
  /\ lastFill.on /\ lastFill.recent
  /\ lastFill' = [lastFill EXCEPT !.recent = FALSE]
  /\ UNCHANGED <<tail, current, echo, rejected, gen, nextId, saved, job, timers, ui, fed, ended,
                 shown, typed, told, kills, inputs>>

\* ECHO_WINDOW, or ECHO_AFTER_INPUT after the user typed, is over.
EchoWindow ==
  /\ echo.on /\ ~echo.over
  /\ echo' = [echo EXCEPT !.over = TRUE]
  /\ UNCHANGED <<tail, current, lastFill, rejected, gen, nextId, saved, job, timers, ui, fed,
                 ended, shown, typed, told, kills, inputs>>

\* The saved password is changed, the core is locked or unlocked.
Saved(s) ==
  /\ saved # s
  /\ saved' = s
  /\ UNCHANGED <<guard, job, timers, ui, fed, ended, shown, typed, told, kills, inputs>>

----------------------------------------------------------------------------

Init ==
  /\ tail = "" /\ current = None /\ lastFill = None /\ echo = None /\ rejected = {}
  /\ gen = 0 /\ nextId = 1
  /\ saved \in DOMAIN Secrets
  /\ job = [a \in Actors |-> Idle]
  /\ timers = {}
  /\ ui = [seen |-> 0, offer |-> 0]
  /\ fed = 0 /\ ended = "no"
  /\ shown = <<>> /\ typed = <<>> /\ told = {} /\ kills = 0 /\ inputs = 0

Release(a) == ToOut(a) \/ ToEmit(a) \/ KeyToEmit(a) \/ Deliver(a)
Timer == \E t \in Timers, g \in timers : FlushIdle(t, g)

Next ==
  \/ \E chunk \in Chunks : OnOutput(chunk)
  \/ OnClose \/ Closed
  \/ Timer
  \/ \E a \in Actors : Release(a)
  \/ \E what \in Inputs : NoteInput(what)
  \/ UserWrites
  \/ \E f \in Fillers : \/ Accept(f) \/ Again(f) \/ ReadSecret(f) \/ Claim(f)
                        \/ FillWrites(f) \/ AbortFill(f)
  \/ RejectWindow \/ EchoWindow
  \/ \E s \in DOMAIN Secrets \cup {"locked"} : Saved(s)

Spec == Init /\ [][Next]_vars

----------------------------------------------------------------------------
\* Properties.

\* Type invariant.
TypeOK ==
  /\ tail \in Kinds \cup {"", "other"}
  /\ current.on => current.kind \in Kinds /\ current.id < nextId
  /\ lastFill.on => lastFill.typed \in {"nothing", "enter", "other"}
  /\ echo.on => Len(echo.held) <= HoldMax
  /\ rejected \subseteq DOMAIN Secrets
  /\ \A g \in timers : g <= gen
  /\ ui.offer <= ui.seen /\ ui.seen < nextId
  /\ Len(shown) <= fed /\ kills \in 0 .. fed

\* Output is handed on in the order it came, none of it twice and none of it lost,
\* whatever was held back, flushed by a timer, by a fill or by the close.
OutputInOrder ==
  /\ \A i \in DOMAIN shown : shown[i].n = i
  /\ ended = "closed" => Len(shown) = fed

\* While the mask is armed the password is not on the screen: what came since the
\* fill, or since the last time held output was let go, does not spell it.
EchoMasked ==
  echo.on =>
    LET since == SelectSeq(shown, LAMBDA x : x.n > echo.mark)
    IN  \A i \in DOMAIN since : attempt(since, i, Secrets[echo.secret]).is # "full"

\* One prompt is answered at most once, however many fills name it.
TypedOnce == \A i, j \in DOMAIN typed : typed[i].id = typed[j].id => i = j

\* What RejectedNotTyped says of one step.
RejectedNotTypedStep ==
  \A f \in Fillers : (job[f].pc = "claim" /\ job'[f].pc = "leave" /\ job'[f].won)
     => job[f].secret \notin told

\* A password that was reported rejected is not typed by a fill that began after.
RejectedNotTyped == [][RejectedNotTypedStep]_vars

\* When nothing is under way, an offer on the screen is the live one.
UiShowsLive ==
  (\A a \in Actors : job[a].pc \notin {"leave", "leave by key", "out", "emit"})
    => (ui.offer # 0 => Live(ui.offer))

\* What is held back is shown sooner or later.
HeldShown == (echo.on /\ echo.held # <<>>) ~> ~(echo.on /\ echo.held # <<>>)

=============================================================================

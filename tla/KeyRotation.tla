----------------------------- MODULE KeyRotation -----------------------------
(***************************************************************************)
(* The staged rotation of one SSH key (rust-core/crates/ffi,               *)
(* key_rotation.rs and key_rotation_plan.rs) as `unissh keys rotation` and *)
(* the app's dialog drive it: a candidate key is put beside the original,  *)
(* a driver takes every machine through deploy, verify, remove, confirm,   *)
(* and a finish writes the candidate into the original item.  Machines are *)
(* what sshd makes of the lines in authorized_keys.  A key is a number.    *)
(***************************************************************************)
EXTENDS Naturals, Sequences, FiniteSets, SequencesExt

CONSTANTS Machines,  \* the logins user@host:port
          Fleets,    \* the saved hosts a vault may hold, own vault first
          Strays,    \* what the machines may accept besides a plain line
          Unpinned,  \* machines whose host key is not pinned
          Workers,   \* the threads of one round
          MaxKey,    \* bound on keys
          MaxRuns,   \* bound on drivers
          MaxFaults, \* bound on failed logins, lost results, crashes and synced changes
          Syncs,     \* the items another device may change
          Dialog     \* TRUE: the app's dialog, FALSE: the command line

\* What every instance of this module satisfies.
RotationAssumption ==
  /\ {MaxKey, MaxRuns, MaxFaults} \subseteq Nat
  /\ Dialog \in BOOLEAN /\ Syncs \subseteq {"item", "candidate"} /\ Unpinned \subseteq Machines

DeployStep == 1
VerifyStep == 2
RemoveStep == 3
ConfirmStep == 4
NoRef == "inline"
NoProxy == "direct"
OldKey == 1          \* what the item holds at first; 0 is no key

VARIABLES fleet,    \* the hosts: [uid, vault, end, auth, jumps, proxy]
          mach,     \* machine -> [lines, options, other, mfa]
          item,     \* the key in the rotated item
          cand,     \* the key in the candidate item
          link,     \* the candidate recorded on this device, by fingerprint
          cert,     \* the key the attached certificate certifies
          plan,     \* the targets; hosts do not change during a rotation
          keys,     \* RotationKeys of the driver, and whether it resumes
          run,      \* RotationRun: [st, verified, cancelled, last]
          driving, queue, wk,   \* drive, its round and the worker threads
          cmd,      \* where the user's command stands
          named,    \* hosts the last confirmation named as locked out, or that were already
          given,    \* hosts cut off since with no name given: by an abandoned rotation, whose
                    \* warning speaks of any machine, or by another device
          fresh, runs, faults   \* keys made, drivers made, faults so far

stored == <<item, cand, link, cert>>
driver == <<keys, run, driving, queue, wk>>
bounds == <<fresh, runs, faults>>
told == <<named, given>>
frozen == <<fleet, plan>>
vars == <<fleet, mach, item, cand, link, cert, plan, keys, run, driving, queue, wk,
          cmd, named, given, fresh, runs, faults>>

(***************************************************************************)
(* The plan: which machines have to learn the new key                      *)
(***************************************************************************)
(* The vault's own hosts, and those of other vaults that log in with the   *)
(* key through the user's own identity ("bound").                          *)
PlanHosts ==
  LET used == SelectSeq(fleet, LAMBDA h : h.vault = "own" \/ h.auth = "bound")
  IN  [i \in DOMAIN used |-> IF used[i].auth = "bound" THEN [used[i] EXCEPT !.auth = "key"]
                             ELSE used[i]]

PlanFails == \E h \in ToSet(fleet) : /\ h.vault = "other" /\ h.auth = "bound"
                                     /\ \E j \in ToSet(h.jumps) : j.ref # NoRef

Profiles(u) == {h \in ToSet(PlanHosts) : h.uid = u}
RefProfile(j) == CHOOSE h \in Profiles(j.ref) : TRUE

HopUsesKey(j) == IF j.ref # NoRef THEN \E h \in Profiles(j.ref) : h.auth = "key"
                 ELSE j.key

HopEndpoint(j) == IF Profiles(j.ref) # {} THEN RefProfile(j).end
                  ELSE IF j.ref # NoRef THEN j.ref ELSE j.end

FirstDialProxy(h) ==
  IF h.proxy # NoProxy \/ h.jumps = <<>> \/ Profiles(Head(h.jumps).ref) = {} THEN h.proxy
  ELSE RefProfile(Head(h.jumps)).proxy

(* A login and the way to it: two routes to one machine are two targets.   *)
TargetId(end, jumps, proxy) ==
  <<end, [i \in DOMAIN jumps |-> HopEndpoint(jumps[i])], proxy>>

HopTargetId(jumps, proxy, i) ==
  TargetId(HopEndpoint(jumps[i]), SubSeq(jumps, 1, i - 1), proxy)

Target(h, end, jumps, login) ==
  [id |-> TargetId(end, jumps, FirstDialProxy(h)), end |-> end, jumps |-> jumps,
   proxy |-> FirstDialProxy(h), host |-> IF login THEN h.uid ELSE "hop"]

HopTargets(h) ==
  LET hops == SelectSeq([i \in DOMAIN h.jumps |-> i], LAMBDA i : HopUsesKey(h.jumps[i]))
  IN  [n \in DOMAIN hops |->
         Target(h, HopEndpoint(h.jumps[hops[n]]), SubSeq(h.jumps, 1, hops[n] - 1), FALSE)]

plan_rotation ==
  LET hosts == PlanHosts
      logins == SelectSeq(hosts, LAMBDA h : h.auth = "key")
      all == [i \in DOMAIN logins |-> Target(logins[i], logins[i].end, logins[i].jumps, TRUE)]
             \o FlattenSeq([i \in DOMAIN hosts |-> HopTargets(hosts[i])])
  IN  FoldLeft(LAMBDA ts, t : IF \E x \in ToSet(ts) : x.id = t.id THEN ts ELSE Append(ts, t),
               <<>>, all)

At(id) == CHOOSE t \in DOMAIN plan : plan[t].id = id

(* For every jump of target t: 0, or the target it is when it uses the key. *)
HopTarget(t, i) ==
  IF HopUsesKey(plan[t].jumps[i]) THEN At(HopTargetId(plan[t].jumps, plan[t].proxy, i)) ELSE 0

key_hops(t) == {HopTarget(t, i) : i \in DOMAIN plan[t].jumps} \ {0}

(* Hosts that follow target t: they use the key only for their jump hops.  *)
DependentsOf(t) ==
  {h.uid : h \in {g \in ToSet(PlanHosts) :
     /\ g.auth # "key"
     /\ \E i \in DOMAIN g.jumps :
          HopUsesKey(g.jumps[i]) /\ plan[t].id = HopTargetId(g.jumps, FirstDialProxy(g), i)}}

unpinned(t) == \E m \in Unpinned :
  m = plan[t].end \/ \E j \in ToSet(plan[t].jumps) : HopEndpoint(j) = m

MissingRef == \E t \in ToSet(plan) : \E j \in ToSet(t.jumps) : j.ref # NoRef /\ Profiles(j.ref) = {}

(***************************************************************************)
(* The machines                                                            *)
(***************************************************************************)
Accepts(m, k) == k # 0 /\ k \in mach[m].lines \cup mach[m].options \cup mach[m].other

HasLine(m, k) == k \in mach[m].lines

Appended(m, k) == [mach EXCEPT ![m].lines = @ \cup {k}]

(* The remove script refuses unless the key that stays is there, drops the *)
(* plain lines and then looks for the old key once more.                   *)
Removed(m, old, keep) ==
  IF HasLine(m, keep) THEN [mach EXCEPT ![m].lines = @ \ {old}] ELSE mach

RemovePasses(m, old, keep) == HasLine(m, keep) /\ old \notin mach[m].options

NoKeys == [old |-> 0, cand |-> 0, resumed |-> FALSE]
NoRun == [st |-> <<>>, verified |-> {}, cancelled |-> FALSE, last |-> 0]
Asleep == [pc |-> "idle", t |-> 0, step |-> 0, as |-> 0, verified |-> {}, got |-> "none",
           route |-> FALSE]

Init ==
  /\ fleet \in Fleets
  /\ mach \in [Machines -> {[lines |-> IF s.file THEN {OldKey} ELSE {},
                             options |-> IF s.options THEN {OldKey} ELSE {},
                             other |-> IF s.other THEN {OldKey} ELSE {},
                             mfa |-> s.mfa] : s \in Strays}]
  /\ item = OldKey /\ cand = 0 /\ link = 0 /\ cert = OldKey
  /\ plan = plan_rotation /\ keys = NoKeys /\ run = NoRun
  /\ driving = FALSE /\ queue = <<>> /\ wk = [w \in Workers |-> Asleep]
  /\ cmd = "none" /\ named = {} /\ given = {} /\ fresh = OldKey /\ runs = 0 /\ faults = 0

(***************************************************************************)
(* RotationRun                                                             *)
(***************************************************************************)
InRun(r, t) == r.st[t][1] # "out"
HopsInRun(r, t) == {h \in key_hops(t) : InRun(r, h)}
Early(r, t) == r.st[t][1] \in {"pending", "running"} /\ r.st[t][2] \in {DeployStep, VerifyStep}

(* start: the targets of the scope wait for the first step.                *)
Started(only, first, last) ==
  [st |-> [t \in DOMAIN plan |-> IF t \in only THEN <<"pending", first>> ELSE <<"out", 0>>],
   verified |-> {}, cancelled |-> FALSE, last |-> last]

MayStart(r, t) ==
  LET s == r.st[t][2]
  IN  /\ ~r.cancelled /\ r.st[t][1] = "pending" /\ s <= r.last
      /\ s = RemoveStep => /\ \A u \in DOMAIN plan : ~Early(r, u)
                       /\ t \in r.verified
                       /\ \A u \in DOMAIN plan : r.st[u][1] = "running" => t \notin HopsInRun(r, u)
      /\ s \in {DeployStep, VerifyStep} =>
           /\ \A u \in DOMAIN plan : r.st[u] # <<"running", RemoveStep>>
           /\ \A h \in HopsInRun(r, t) : ~Early(r, h)

startable(r) == SelectSeq([t \in DOMAIN plan |-> t], LAMBDA t : MayStart(r, t))

stopped_at(after) == IF after = RemoveStep THEN <<"unconfirmed", 0>> ELSE <<"kept", after>>

Recorded(r, t, step, passed) ==
  [r EXCEPT
     !.verified = IF passed /\ step = VerifyStep THEN @ \cup {t} ELSE @,
     !.st[t] = IF passed /\ step = ConfirmStep THEN <<"switched", 0>>
               ELSE IF ~passed /\ (step = ConfirmStep \/ ~r.cancelled) THEN <<"failed", step>>
               ELSE IF r.cancelled THEN stopped_at(IF passed THEN step ELSE step - 1)
               ELSE <<"pending", step + 1>>]

Cancelled(r) ==
  [r EXCEPT !.cancelled = TRUE,
            !.st = [t \in DOMAIN @ |-> IF @[t][1] = "pending" THEN stopped_at(@[t][2] - 1)
                                       ELSE @[t]]]

MutantLockedOut(r) == {t \in DOMAIN plan : t \notin r.verified}

(* finish_outlook: targets where the new key was not seen to work, or not  *)
(* on a hop in front of them.                                              *)
locked_out(r) ==
  {t \in DOMAIN plan : t \notin r.verified \/ \E h \in key_hops(t) : h \notin r.verified}

with_followers(ts) == {plan[t].host : t \in ts} \cup UNION {DependentsOf(t) : t \in ts}

(***************************************************************************)
(* The staged candidate and the commands                                   *)
(***************************************************************************)
LiveLink == link # 0 /\ cand = link
PlanReady == ~PlanFails /\ ~MissingRef

(* begin: a new key as the candidate item, then the link.  A candidate     *)
(* that is there already, from here or from another device, refuses it.    *)
begin_key_rotation ==
  /\ cmd = "none" /\ PlanReady /\ plan # <<>>
  /\ cand = 0 /\ fresh < MaxKey
  /\ fresh' = fresh + 1 /\ cand' = fresh + 1
  /\ \/ /\ link' = fresh + 1
        /\ cmd' = IF Dialog THEN "begun" ELSE "none"
        /\ faults' = faults
     \/ /\ faults < MaxFaults /\ faults' = faults + 1   \* killed between the two writes
        /\ UNCHANGED <<link, cmd>>
  /\ UNCHANGED <<frozen, mach, item, cert, driver, told, runs>>

(* A dead link is dropped whenever the rotations are listed.               *)
list_key_rotations ==
  /\ cmd = "none" /\ link # 0 /\ ~LiveLink
  /\ link' = 0
  /\ UNCHANGED <<frozen, mach, item, cand, cert, driver, cmd, told, bounds>>

Pinned == {t \in DOMAIN plan : ~unpinned(t)}

(* --host names targets; the hops in front of them come along.             *)
select(t) ==
  CHOOSE S \in SUBSET DOMAIN plan :
    LET Closed(T) == t \in T /\ \A u \in T : key_hops(u) \subseteq T
    IN  Closed(S) /\ \A T \in SUBSET DOMAIN plan : Closed(T) => S \subseteq T

Drive(only, first, last, resumed) ==
  /\ runs < MaxRuns /\ runs' = runs + 1
  /\ keys' = [old |-> item, cand |-> cand, resumed |-> resumed]
  /\ run' = Started(only, first, last)
  /\ driving' = TRUE
  /\ UNCHANGED <<frozen, mach, stored, queue, wk, told, fresh, faults>>

CanRun == LiveLink /\ item # cand /\ PlanReady

(* unissh keys rotation run: deploy and verify, on some machines or all.   *)
RunCommand ==
  /\ ~Dialog /\ cmd = "none" /\ CanRun /\ plan # <<>>
  /\ cmd' = "run"
  /\ \/ Drive(Pinned, DeployStep, VerifyStep, TRUE)
     \/ \E t \in DOMAIN plan :
          select(t) \subseteq Pinned /\ Drive(select(t), DeployStep, VerifyStep, TRUE)

(* unissh keys rotation finish: every machine is verified again first.     *)
FinishCommand ==
  /\ ~Dialog /\ cmd = "none" /\ CanRun
  /\ cmd' = "check"
  /\ Drive(Pinned, VerifyStep, VerifyStep, TRUE)

(* The dialog runs all four steps.                                         *)
DialogRun ==
  /\ Dialog /\ cmd \in {"none", "begun"} /\ CanRun
  /\ cmd' = "dialog"
  /\ Drive(Pinned, DeployStep, ConfirmStep, cmd = "none")

(***************************************************************************)
(* The driver                                                              *)
(***************************************************************************)
AllAsleep == \A w \in Workers : wk[w].pc = "idle"

RoundBegin ==
  /\ driving /\ queue = <<>> /\ AllAsleep
  /\ queue' = startable(run)
  /\ driving' = (queue' # <<>>)
  /\ UNCHANGED <<frozen, mach, stored, keys, run, wk, cmd, told, bounds>>

HopKey(rec, h) == IF h \in rec.verified THEN cand ELSE item

RouteOpen(rec) == \A h \in key_hops(rec.t) : Accepts(plan[h].end, HopKey(rec, h))

(* A worker takes a step off the round and begins it, if it still may.     *)
Take(w) ==
  /\ wk[w].pc = "idle" /\ queue # <<>>
  /\ queue' = Tail(queue)
  /\ LET t == Head(queue)
         step == run.st[t][2]
         rec == [Asleep EXCEPT !.pc = "connect", !.t = t, !.step = step,
                               !.as = IF step = DeployStep /\ keys.resumed THEN VerifyStep ELSE step,
                               !.verified = run.verified]
     IN  IF MayStart(run, t)
         THEN /\ run' = [run EXCEPT !.st[t] = <<"running", step>>]
              /\ wk' = [wk EXCEPT ![w] = [rec EXCEPT !.route = RouteOpen(rec)]]
         ELSE UNCHANGED <<run, wk>>
  /\ UNCHANGED <<frozen, mach, stored, keys, driving, cmd, told, bounds>>

(* What run_step makes of an answer: another login, or the outcome.        *)
Settled(rec, got) ==
  LET Ends(ok) == [rec EXCEPT !.pc = "record", !.got = IF ok THEN "pass" ELSE "fail"]
      Again(as) == [rec EXCEPT !.pc = "connect", !.as = as]
  IN  CASE rec.step = VerifyStep -> Ends(got \in {"ran", "more"})
        [] rec.step = RemoveStep /\ rec.as = RemoveStep ->
             IF got = "more" THEN Again(ConfirmStep) ELSE Ends(got = "ran")
        [] rec.as = ConfirmStep -> Ends(got = "refused")
        [] rec.step = DeployStep /\ rec.as = VerifyStep ->
             IF got \in {"ran", "more"} THEN Ends(TRUE) ELSE Again(DeployStep)
        [] OTHER -> Ends(got = "ran")

LoginKey(as) == IF as \in {DeployStep, ConfirmStep} THEN item ELSE cand

(* The answers of the machine to a login.  Only a deploy may prompt, and   *)
(* the user may answer.                                                    *)
Answers(rec) ==
  LET m == plan[rec.t].end
      k == LoginKey(rec.as)
  IN  CASE k = 0 -> {"unknown"}
        [] rec.as = DeployStep ->
             IF Accepts(m, k) /\ ~mach[m].mfa THEN {"shell"} ELSE {"shell", "unknown"}
        [] rec.as # DeployStep /\ k # 0 ->
             {IF ~Accepts(m, k) THEN "refused" ELSE IF mach[m].mfa THEN "more" ELSE "shell"}

(* The connect of step_connect; a hop that refuses its key may still be    *)
(* passed by a prompt.                                                     *)
Connect(w) ==
  /\ wk[w].pc = "connect"
  /\ \/ \E got \in Answers(wk[w]) :
          /\ wk' = [wk EXCEPT ![w] = IF got = "shell" THEN [@ EXCEPT !.pc = "exec"]
                                     ELSE Settled(@, got)]
          /\ faults' = faults
     \/ /\ RouteOpen(wk[w]) => faults < MaxFaults
        /\ faults' = IF RouteOpen(wk[w]) THEN faults + 1 ELSE faults
        /\ wk' = [wk EXCEPT ![w] = Settled(@, "unknown")]
  /\ UNCHANGED <<frozen, mach, stored, keys, run, driving, queue, cmd, told, fresh, runs>>

(* The command on the machine; its result may be lost, before or after.    *)
Exec(w) ==
  LET rec == wk[w]
      m == plan[rec.t].end
      removes == rec.step = RemoveStep /\ rec.as = RemoveStep
      effect == IF rec.step = DeployStep THEN Appended(m, keys.cand)
                ELSE IF removes THEN Removed(m, keys.old, keys.cand) ELSE mach
      ran == removes => RemovePasses(m, keys.old, keys.cand)
  IN  /\ rec.pc = "exec"
      /\ \/ /\ mach' = effect
            /\ wk' = [wk EXCEPT ![w] = Settled(@, IF ran THEN "ran" ELSE "failed")]
            /\ faults' = faults
         \/ /\ faults < MaxFaults /\ faults' = faults + 1
            /\ mach' \in {mach, effect}
            /\ wk' = [wk EXCEPT ![w] = Settled(@, "unknown")]
      /\ UNCHANGED <<frozen, stored, keys, run, driving, queue, cmd, told, fresh, runs>>

Record(w) ==
  /\ wk[w].pc = "record"
  /\ run' = Recorded(run, wk[w].t, wk[w].step, wk[w].got = "pass")
  /\ wk' = [wk EXCEPT ![w] = Asleep]
  /\ UNCHANGED <<frozen, mach, stored, keys, driving, queue, cmd, told, bounds>>

(* Stop of the dialog, or a signal that the command line's watcher sees:   *)
(* nothing new starts, steps in flight still land.                         *)
Stop ==
  /\ driving /\ ~run.cancelled
  /\ run' = Cancelled(run)
  /\ UNCHANGED <<frozen, mach, stored, keys, driving, queue, wk, cmd, told, bounds>>

Retry(t) ==
  /\ Dialog /\ cmd = "dialog" /\ ~driving /\ ~run.cancelled
  /\ run.st[t][1] = "failed" /\ runs < MaxRuns
  /\ runs' = runs + 1
  /\ run' = [run EXCEPT !.st[t] = <<"pending", @[2]>>]
  /\ driving' = TRUE
  /\ UNCHANGED <<frozen, mach, stored, keys, queue, wk, cmd, told, fresh, faults>>

(***************************************************************************)
(* Ending a command                                                        *)
(***************************************************************************)
NeedsKey(h) ==
  {HopEndpoint(j) : j \in {i \in ToSet(h.jumps) : HopUsesKey(i)}}
    \cup (IF h.auth \in {"key", "bound"} THEN {h.end} ELSE {})

(* Hosts that no key of the vault opens.                                   *)
LostWith(i, c) == {h.uid : h \in {g \in ToSet(fleet) : \E m \in NeedsKey(g) :
                                    ~Accepts(m, i) /\ ~Accepts(m, c)}}
Lost == LostWith(item, cand)

Forget ==
  /\ run' = NoRun /\ driving' = FALSE /\ queue' = <<>> /\ keys' = NoKeys
  /\ wk' = [w \in Workers |-> Asleep]

(* The command is over: a run ended, a question answered with no, a signal *)
(* seen, the dialog closed.                                                *)
EndCommand ==
  /\ cmd \in {"run", "check", "finish", "dialog", "begun"} /\ ~driving
  /\ cmd' = "none" /\ Forget
  /\ UNCHANGED <<frozen, mach, stored, told, bounds>>

(* finish of the command line: the outlook is shown and confirmed, then    *)
(* the run goes on to remove and confirm.                                  *)
ConfirmRemoves ==
  /\ cmd = "check" /\ ~driving /\ ~run.cancelled
  /\ named' = with_followers(locked_out(run)) \cup Lost /\ given' = {}
  /\ run' = [run EXCEPT !.last = ConfirmStep]
  /\ driving' = TRUE
  /\ cmd' = "finish"
  /\ UNCHANGED <<frozen, mach, stored, keys, queue, wk, bounds>>

CommitAfterRemoves ==
  /\ cmd = "finish" /\ ~driving /\ ~run.cancelled
  /\ cmd' = "put"
  /\ UNCHANGED <<frozen, mach, stored, driver, told, bounds>>

(* The dialog offers to finish once the run has settled, stopped or not.   *)
ConfirmFinish ==
  /\ Dialog /\ cmd = "dialog" /\ ~driving
  /\ named' = with_followers(locked_out(run)) \cup Lost /\ given' = {}
  /\ cmd' = "put"
  /\ UNCHANGED <<frozen, mach, stored, driver, bounds>>

(* An earlier finish was cut short after its first write: it is completed. *)
CompleteFinish ==
  /\ cmd = "none" /\ LiveLink /\ item = cand
  /\ cmd' = "put"
  /\ UNCHANGED <<frozen, mach, stored, driver, told, bounds>>

(* finish_key_rotation: four writes, and only for the candidate recorded   *)
(* on this device that still holds the key it was made with.               *)
FinishPut ==
  /\ cmd = "put"
  /\ IF LiveLink THEN item' = cand /\ cmd' = "cert" /\ UNCHANGED driver
     ELSE item' = item /\ cmd' = "none" /\ Forget
  /\ UNCHANGED <<frozen, mach, cand, link, cert, told, bounds>>

FinishCert ==
  /\ cmd = "cert"
  /\ cert' = 0 /\ cmd' = "tomb"
  /\ UNCHANGED <<frozen, mach, item, cand, link, driver, told, bounds>>

FinishTomb ==
  /\ cmd = "tomb"
  /\ cand' = 0 /\ cmd' = "unlink"
  /\ UNCHANGED <<frozen, mach, item, link, cert, driver, told, bounds>>

Unlink ==
  /\ cmd = "unlink"
  /\ link' = 0 /\ cmd' = "none" /\ Forget
  /\ UNCHANGED <<frozen, mach, item, cand, cert, told, bounds>>

PartlyFinished == LiveLink /\ cand = item

(* abandon deletes the candidate.  Its warning names no host: it says that *)
(* any machine where the old key was removed is locked out.                *)
abandon_key_rotation ==
  /\ cmd = "none" /\ cand # 0 /\ ~PartlyFinished
  /\ cand' = 0 /\ cmd' = "unlink"
  /\ given' = given \cup LostWith(item, 0)
  /\ UNCHANGED <<frozen, mach, item, link, cert, driver, named, bounds>>

(***************************************************************************)
(* Crashes, failed writes, and what another device does to the vault       *)
(***************************************************************************)
Crash ==
  /\ faults < MaxFaults /\ faults' = faults + 1
  /\ cmd # "none"
  /\ cmd' = "none" /\ Forget
  /\ UNCHANGED <<frozen, mach, stored, told, fresh, runs>>

(* A remove that has logged in cannot be called back when the candidate is *)
(* deleted on another device: the hosts that need its machine.             *)
RemovedInFlight ==
  {h.uid : h \in {g \in ToSet(fleet) : \E w \in Workers :
     wk[w].pc = "exec" /\ wk[w].step = RemoveStep /\ plan[wk[w].t].end \in NeedsKey(g)}}

(* Another device deletes or replaces the candidate, or replaces the key;  *)
(* a pull applies it, never while a finish holds the core's lock.          *)
CoreFree == cmd \notin {"cert", "tomb", "unlink"}

SyncCandidate ==
  /\ "candidate" \in Syncs /\ CoreFree /\ faults < MaxFaults /\ faults' = faults + 1
  /\ \/ cand # 0 /\ cand' = 0 /\ fresh' = fresh
     \/ fresh < MaxKey /\ fresh' = fresh + 1 /\ cand' = fresh + 1
  /\ given' = given \cup LostWith(item, cand') \cup RemovedInFlight
  /\ UNCHANGED <<frozen, mach, item, link, cert, driver, cmd, named, runs>>

SyncItem ==
  /\ "item" \in Syncs /\ CoreFree /\ faults < MaxFaults /\ faults' = faults + 1
  /\ fresh < MaxKey /\ fresh' = fresh + 1 /\ item' = fresh + 1
  /\ given' = given \cup LostWith(item', cand)
  /\ UNCHANGED <<frozen, mach, cand, link, cert, driver, cmd, named, runs>>

Next ==
  \/ begin_key_rotation \/ list_key_rotations \/ abandon_key_rotation
  \/ RunCommand \/ FinishCommand \/ DialogRun
  \/ RoundBegin \/ Stop
  \/ \E w \in Workers : Take(w) \/ Connect(w) \/ Exec(w) \/ Record(w)
  \/ \E t \in DOMAIN run.st : Retry(t)
  \/ EndCommand \/ ConfirmRemoves \/ CommitAfterRemoves \/ ConfirmFinish \/ CompleteFinish
  \/ FinishPut \/ FinishCert \/ FinishTomb \/ Unlink
  \/ Crash \/ SyncCandidate \/ SyncItem

Spec == Init /\ [][Next]_vars

(* The driver and its worker threads run on; users and networks may not.   *)
FairSpec ==
  /\ Spec /\ WF_vars(RoundBegin)
  /\ \A w \in Workers : WF_vars(Take(w)) /\ WF_vars(Connect(w)) /\ WF_vars(Exec(w))
                        /\ WF_vars(Record(w))

(***************************************************************************)
(* Properties                                                              *)
(***************************************************************************)
Kinds == {"out", "pending", "running", "failed", "switched", "kept", "unconfirmed"}

(* Keys are ones that were made, targets in a run are targets of the plan. *)
TypeOK ==
  /\ {item, cand, link, cert} \subseteq 0..fresh /\ item # 0
  /\ \A m \in Machines : mach[m].lines \subseteq 1..fresh
  /\ \A t \in DOMAIN run.st : run.st[t][1] \in Kinds /\ run.st[t][2] \in 0..4
  /\ DOMAIN run.st \in {{}, DOMAIN plan} /\ run.verified \subseteq DOMAIN run.st
  /\ ToSet(queue) \subseteq DOMAIN run.st /\ driving \in BOOLEAN
  /\ \A w \in Workers : wk[w].pc \in {"idle", "connect", "exec", "record"}
  /\ cmd \in {"none", "begun", "run", "check", "finish", "dialog", "put", "cert", "tomb", "unlink"}

(* Rotating never silently locks the user out: every host of the vault     *)
(* that needs the key, for its login or for a jump hop, can be opened with *)
(* the key item or with the candidate, unless a confirmation named it, or  *)
(* what cut it off was not this rotation's own steps: the user gave the    *)
(* rotation up after a warning that names no host (abandon), or another    *)
(* device deleted the candidate or replaced a key.                         *)
NoSilentLockout ==
  \A h \in ToSet(fleet) : h.vault = "own" /\ h.uid \in Lost => h.uid \in named \cup given

(* A target is called switched only when its machine refuses the old key,  *)
(* whichever way the old key was let in.                                   *)
SwitchedRefusesOld ==
  \A t \in DOMAIN run.st : run.st[t][1] = "switched" => ~Accepts(plan[t].end, keys.old)

(* A certificate for a key the item no longer holds is only ever left by a *)
(* finish that can still be completed from this device.                    *)
StaleCertRecoverable == cert \in {0, item} \/ (LiveLink /\ cand = item)

(* Every drive ends, however its steps fail and whenever it is stopped.    *)
DriveEnds == driving ~> ~driving

==============================================================================

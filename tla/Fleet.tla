------------------------------- MODULE Fleet --------------------------------
(***************************************************************************)
(* One command on many hosts.  Core::ssh_exec_group and ssh_exec_by_tags   *)
(* (ffi/src/lib.rs) expand a group or select by tags, log in to the hosts  *)
(* one after another and run the command on those that let them in, so     *)
(* many at once; sftp_put_multi lays out a file the same way; `unissh run` *)
(* (cli/src/fleet.rs) plans its own rows and calls the core once per host  *)
(* from a pool of threads (cli/src/pool.rs).                               *)
(*                                                                         *)
(* The groups and the hosts are read under the state lock in separate      *)
(* steps: items change, and the account is locked, between any two of      *)
(* them.  The connections belong to the call alone, so a lock cuts none of *)
(* them: the command still goes to the hosts that were logged in to        *)
(* before it.  A person acts on one group; who is bound to a personal host *)
(* is HostBook's and is fixed here.                                        *)
(***************************************************************************)
EXTENDS Naturals, Sequences, FiniteSets, SequencesExt

CONSTANTS
  Graphs,           \* what the groups list at the start: functions group -> members
  Logins,           \* how the hosts log in: functions host -> "key", "prompt", "personal"
  Bound,            \* personal hosts an identity is bound to
  Tagged,           \* hosts the tags match
  Root,             \* the group acted on
  Lists,            \* member lists a group may be saved with
  By,               \* how hosts are picked: "group" or "tags"
  Caller,           \* "exec", "put" or "cli"
  GROUP_MAX_DEPTH,
  Limit,            \* max_concurrency, or the width of the CLI's pool
  Timed,            \* is there a per-host deadline: BOOLEAN
  MaxEdits,         \* bound: groups saved, groups and hosts deleted
  MaxLocks          \* bound: times the account is locked

\* What every instance of this module satisfies.
FleetAssumption ==
  /\ By \in {"group", "tags"} /\ Caller \in {"exec", "put", "cli"} /\ Timed \in BOOLEAN
  /\ Limit \in Nat /\ GROUP_MAX_DEPTH \in Nat /\ MaxEdits \in Nat /\ MaxLocks \in Nat

VARIABLES
  groups,    \* saved groups: id -> member ids
  profiles,  \* saved hosts: id -> how they log in
  unlocked,
  step,      \* where the call is
  seen,      \* [groups, profiles]: what the call has read
  todo,      \* hosts still to resolve, in order
  plans,     \* group: <<id, status>> of each member
  rows,      \* CLI: <<id, outcome>> of each picked host
  task,      \* the targets: [p: host, at: phase, out: outcome]
  free,      \* permits of the semaphore
  results,   \* <<id, outcome>> in the order they are reported
  exit,      \* CLI: its exit code, -1 before it ends
  sent,      \* history: host -> times the command was sent to it
  edits, locks

vars == <<groups, profiles, unlocked, step, seen, todo, plans, rows, task, free, results,
          exit, sent, edits, locks>>
store == <<groups, profiles, unlocked, edits, locks>>

Cli == Caller = "cli"
Nothing == [x \in {} |-> <<>>]
Hosts == UNION {DOMAIN l : l \in Logins}

\* No call has been made; the account is unlocked.
Init ==
  /\ groups \in Graphs /\ profiles \in Logins /\ unlocked = TRUE
  /\ step = "idle" /\ seen = [groups |-> Nothing, profiles |-> Nothing]
  /\ todo = <<>> /\ plans = <<>> /\ rows = <<>> /\ task = <<>>
  /\ free = Limit /\ results = <<>> /\ exit = -1
  /\ sent = [p \in Hosts |-> 0] /\ edits = 0 /\ locks = 0

-----------------------------------------------------------------------------
(* The vault around the call.                                              *)

\* put_group: a group may not list itself; nothing keeps two groups from listing each
\* other.
save_group(g, members) ==
  /\ unlocked /\ edits < MaxEdits
  /\ \A i \in DOMAIN members : members[i] # g
  /\ groups' = [x \in DOMAIN groups \cup {g} |-> IF x = g THEN members ELSE groups[x]]
  /\ edits' = edits + 1 /\ UNCHANGED <<profiles, unlocked, locks>>

\* Who lists a deleted group goes on listing it.
delete_group(g) ==
  /\ unlocked /\ edits < MaxEdits
  /\ groups' = [x \in DOMAIN groups \ {g} |-> groups[x]]
  /\ edits' = edits + 1 /\ UNCHANGED <<profiles, unlocked, locks>>

delete_connection(p) ==
  /\ unlocked /\ edits < MaxEdits
  /\ profiles' = [x \in DOMAIN profiles \ {p} |-> profiles[x]]
  /\ edits' = edits + 1 /\ UNCHANGED <<groups, unlocked, locks>>

Lock ==
  /\ unlocked /\ locks < MaxLocks
  /\ unlocked' = FALSE /\ locks' = locks + 1 /\ UNCHANGED <<groups, profiles, edits>>

Unlock ==
  /\ ~unlocked /\ unlocked' = TRUE /\ UNCHANGED <<groups, profiles, edits, locks>>

Around ==
  /\ \/ \E g \in DOMAIN groups : delete_group(g) \/ \E l \in Lists : save_group(g, l)
     \/ \E p \in DOMAIN profiles : delete_connection(p)
     \/ Lock \/ Unlock
  /\ UNCHANGED <<step, seen, todo, plans, rows, task, free, results, exit, sent>>

-----------------------------------------------------------------------------
(* Which hosts: a group is expanded, or tags are matched.                  *)

\* Flattener: what it found, and what it has been at.
Start(root) == [result |-> <<>>, visited |-> {root}, issues |-> <<>>]

\* A mistake the code does not make: a host that two groups list is taken twice.
MutTakeHost(f, m) == [f EXCEPT !.result = Append(@, m)]

\* One host of a group: each is taken once.
TakeHost(f, m) ==
  IF \E i \in DOMAIN f.result : f.result[i] = m THEN f ELSE [f EXCEPT !.result = Append(@, m)]

Issue(f, id, status) == [f EXCEPT !.issues = Append(@, <<id, status>>)]

\* Flattener::walk.  A group that was come to before is not entered again, whether it
\* is the way here (a cycle) or a second way to the same group.
RECURSIVE walk(_, _, _, _, _)
walk(listed, known, f, gid, depth) ==
  LET member(g, m) ==
        CASE m \in DOMAIN listed /\ m \notin g.visited
               -> walk(listed, known, [g EXCEPT !.visited = @ \cup {m}], m, depth + 1)
          [] m \in DOMAIN listed /\ m \in g.visited -> Issue(g, m, "CycleSkipped")
          [] m \notin DOMAIN listed /\ m \in known -> TakeHost(g, m)
          [] OTHER -> Issue(g, m, "Dangling")
  IN IF depth > GROUP_MAX_DEPTH THEN Issue(f, gid, "CycleSkipped")
     ELSE FoldLeft(member, f, listed[gid])

flatten_group_members(listed, known, root) == walk(listed, known, Start(root), root, 0)

\* tags_match is external to the model: it gives Tagged.  Hosts come in the order of
\* their ids.
SelectByTags == SetToSeq(DOMAIN profiles \cap Tagged)

\* The call ends with an error before any host is reached.
Refuse == step' = "refused"

Begin ==
  /\ step = "idle"
  /\ step' = CASE Cli -> "load" [] ~Cli /\ By = "group" -> "groups" [] OTHER -> "profiles"
  /\ UNCHANGED <<store, seen, todo, plans, rows, task, free, results, exit, sent>>

\* hosts::load of the command line, before it looks at what was asked for; with tags,
\* the rows are the hosts it found.
Load ==
  /\ step = "load"
  /\ IF ~unlocked \/ (By = "tags" /\ SelectByTags = <<>>)
     THEN Refuse /\ UNCHANGED <<seen, todo>>
     ELSE /\ seen' = [seen EXCEPT !.profiles = profiles]
          /\ step' = (IF By = "tags" THEN "plan" ELSE "groups")
          /\ todo' = (IF By = "tags" THEN SelectByTags ELSE <<>>)
  /\ UNCHANGED <<store, plans, rows, task, free, results, exit, sent>>

\* resolve_group reads the groups, then the hosts.
ReadGroups ==
  /\ step = "groups"
  /\ IF unlocked /\ Root \in DOMAIN groups
     THEN seen' = [seen EXCEPT !.groups = groups] /\ step' = "profiles"
     ELSE Refuse /\ UNCHANGED seen
  /\ UNCHANGED <<store, todo, plans, rows, task, free, results, exit, sent>>

ReadProfiles ==
  /\ step = "profiles"
  /\ IF ~unlocked THEN Refuse /\ UNCHANGED <<seen, todo>>
     ELSE /\ seen' = [seen EXCEPT !.profiles = profiles]
          /\ todo' = (IF By = "tags" THEN SelectByTags
                      ELSE flatten_group_members(seen.groups, DOMAIN profiles, Root).result)
          /\ step' = "resolve"
  /\ UNCHANGED <<store, plans, rows, task, free, results, exit, sent>>

\* How a host resolves.  The binding of a personal host is looked up under the state
\* lock; any failure there counts as unbound.
StatusOf(p) ==
  CASE seen.profiles[p] = "prompt" -> "PromptPassword"
    [] seen.profiles[p] = "personal" /\ ~(unlocked /\ p \in Bound) -> "Personal"
    [] OTHER -> "Ok"

Target(p) == [p |-> p, at |-> "queued", out |-> "none"]

\* One host of resolve_group or select_targets_by_tags.  The core's own run takes its
\* targets from here; the command line only the ids (dry_run_group).
ResolveOne ==
  /\ step = "resolve" /\ todo # <<>>
  /\ LET p == Head(todo) IN
     /\ plans' = (IF By = "group" THEN Append(plans, <<p, StatusOf(p)>>) ELSE plans)
     /\ task' = (IF ~Cli /\ StatusOf(p) = "Ok" THEN Append(task, Target(p)) ELSE task)
  /\ todo' = Tail(todo)
  /\ UNCHANGED <<store, step, seen, rows, free, results, exit, sent>>

\* The members that are no host follow in the plan.  The command line picks the hosts of
\* the plan (no host is saved meanwhile, so each is among those it loaded), and stops
\* when there are none; the core goes on when it is unlocked.
Resolved ==
  /\ step = "resolve" /\ todo = <<>>
  /\ plans' = (IF By = "tags" THEN plans
               ELSE plans \o flatten_group_members(seen.groups, DOMAIN seen.profiles, Root).issues)
  /\ IF Cli THEN /\ todo' = [i \in DOMAIN plans |-> plans[i][1]]
                 /\ IF plans = <<>> THEN Refuse ELSE step' = "plan"
     ELSE /\ UNCHANGED todo /\ IF unlocked THEN step' = "connect" ELSE Refuse
  /\ UNCHANGED <<store, seen, rows, task, free, results, exit, sent>>

-----------------------------------------------------------------------------
(* The command line's own plan: every picked host has a row.               *)

\* fleet::plan: the host is read again (Core::resolve_connection).
PlannedAs(p) ==
  CASE ~unlocked \/ p \notin DOMAIN profiles -> "unresolved"
    [] unlocked /\ p \in DOMAIN profiles /\ profiles[p] = "prompt" -> "skipped"
    [] unlocked /\ p \in DOMAIN profiles /\ profiles[p] = "personal" /\ p \notin Bound -> "unresolved"
    [] OTHER -> "planned"

PlanOne ==
  /\ step = "plan" /\ todo # <<>>
  /\ LET p == Head(todo) IN
     /\ rows' = Append(rows, <<p, PlannedAs(p)>>)
     /\ task' = (IF PlannedAs(p) = "planned" THEN Append(task, Target(p)) ELSE task)
  /\ todo' = Tail(todo)
  /\ UNCHANGED <<store, step, seen, plans, free, results, exit, sent>>

\* Every row is Outcome::ok: planned, or run with status 0.
exit_of(all) ==
  IF \A i \in DOMAIN all : all[i][2] \in {"planned", "zero"} THEN 0 ELSE 1

\* fleet::run: a dry run ends with the plan.
Planned ==
  /\ step = "plan" /\ todo = <<>>
  /\ \/ step' = "connect" /\ UNCHANGED exit
     \/ step' = "dry" /\ exit' = exit_of(rows)
  /\ UNCHANGED <<store, seen, todo, plans, rows, task, free, results, sent>>

-----------------------------------------------------------------------------
(* Logging in and running.                                                 *)

At(phases) == {i \in DOMAIN task : task[i].at \in phases}
Busy == At({"dialing", "up", "running", "leaving"})

\* pool::each: at least one thread, at most one per target.
Width == LET most == IF Len(task) = 0 THEN 1 ELSE Len(task)
             least == IF Limit = 0 THEN 1 ELSE Limit
         IN IF least < most THEN least ELSE most

\* A target's result is known; the command line files it in the row of its host.
Report(i, out) ==
  /\ results' = Append(results, <<task[i].p, out>>)
  /\ rows' = [r \in DOMAIN rows |-> IF Cli /\ rows[r][1] = task[i].p THEN <<task[i].p, out>> ELSE rows[r]]

\* connect_with_options reads the credential under the state lock.  The core logs in to
\* one target after another; the pool's threads take the targets in order.
Dial(i) ==
  /\ step = "connect" /\ i \in At({"queued"}) /\ \A j \in At({"queued"}) : i <= j
  /\ IF Cli THEN Cardinality(Busy) < Width ELSE At({"dialing"}) = {}
  /\ IF unlocked
     THEN task' = [task EXCEPT ![i].at = "dialing"] /\ UNCHANGED <<results, rows>>
     ELSE task' = [task EXCEPT ![i].at = "over", ![i].out = "refused"] /\ Report(i, "refused")
  /\ UNCHANGED <<store, step, seen, todo, plans, free, exit, sent>>

\* The login ends.  A lock in the middle of it may take the host key store away, or come
\* too late for that.
Dialed(i, ok) ==
  /\ i \in At({"dialing"})
  /\ IF ok THEN task' = [task EXCEPT ![i].at = "up"] /\ UNCHANGED <<results, rows>>
     ELSE task' = [task EXCEPT ![i].at = "over", ![i].out = "refused"] /\ Report(i, "refused")
  /\ UNCHANGED <<store, step, seen, todo, plans, free, exit, sent>>

\* Every target has been tried: the core spawns a task per connection.
Spawn ==
  /\ step = "connect" /\ ~Cli /\ At({"queued", "dialing"}) = {}
  /\ step' = "run" /\ UNCHANGED <<store, seen, todo, plans, rows, task, free, results, exit, sent>>

\* A task sends the command, or opens SFTP to write, with a permit when there is a
\* limit; the command line's calls have one target and no semaphore.
Permits == ~Cli /\ Limit > 0
Send(i) ==
  /\ i \in At({"up"}) /\ (Cli \/ step = "run")
  /\ Permits => free > 0
  /\ free' = (IF Permits THEN free - 1 ELSE free)
  /\ task' = [task EXCEPT ![i].at = "running"]
  /\ sent' = [sent EXCEPT ![task[i].p] = @ + 1]
  /\ UNCHANGED <<store, step, seen, todo, plans, rows, results, exit>>

\* The command's status, an error of the connection, or the deadline.
Outcomes == {"zero", "nonzero", "error"} \cup (IF Timed THEN {"timeout"} ELSE {})
Finish(i, out) ==
  /\ i \in At({"running"})
  /\ task' = [task EXCEPT ![i].at = "leaving", ![i].out = out]
  /\ UNCHANGED <<store, step, seen, todo, plans, rows, free, results, exit, sent>>

\* The host is disconnected, then the permit is dropped and the task joined.
Leave(i) ==
  /\ i \in At({"leaving"})
  /\ task' = [task EXCEPT ![i].at = "over"]
  /\ free' = (IF Permits THEN free + 1 ELSE free)
  /\ Report(i, task[i].out)
  /\ UNCHANGED <<store, step, seen, todo, plans, exit, sent>>

\* ssh_exec_group adds the members that could not be run; the command line exits.
Return ==
  /\ step = (IF Cli THEN "connect" ELSE "run") /\ At({"over"}) = DOMAIN task
  /\ step' = "back"
  /\ results' = (IF Cli \/ By = "tags" THEN results
                 ELSE results \o SelectSeq(plans, LAMBDA e : e[2] # "Ok"))
  /\ exit' = (IF Cli THEN exit_of(rows) ELSE exit)
  /\ UNCHANGED <<store, seen, todo, plans, rows, task, free, sent>>

-----------------------------------------------------------------------------
Next ==
  \/ Around
  \/ Begin \/ Load \/ ReadGroups \/ ReadProfiles \/ ResolveOne \/ Resolved
  \/ PlanOne \/ Planned \/ Spawn \/ Return
  \/ \E i \in DOMAIN task :
       \/ Dial(i) \/ Send(i) \/ Leave(i)
       \/ \E ok \in BOOLEAN : Dialed(i, ok)
       \/ \E out \in Outcomes : Finish(i, out)

Spec == Init /\ [][Next]_vars

-----------------------------------------------------------------------------
(* What a run promises.                                                    *)

\* The phases and counts of a call.
TypeOK ==
  /\ step \in {"idle", "load", "groups", "profiles", "resolve", "plan", "dry", "connect", "run",
               "back", "refused"}
  /\ free \in 0 .. Limit /\ exit \in -1 .. 1 /\ sent \in [Hosts -> Nat]
  /\ \A i \in DOMAIN task :
       task[i] \in [p : Hosts, at : {"queued", "dialing", "up", "running", "leaving", "over"},
                    out : {"none", "refused", "zero", "nonzero", "error", "timeout"}]

\* Group g lists h.
Holds(g, h) == \E i \in DOMAIN seen.groups[g] : seen.groups[g][i] = h

\* The groups that hang under Root in the groups that were read, in so many steps.
Below[n \in Nat] ==
  IF n = 0 THEN {Root}
  ELSE LET above == Below[n - 1]
       IN above \cup {g \in DOMAIN seen.groups :
            \E h \in above : Holds(h, g)}
UnderRoot == Below[Cardinality(DOMAIN seen.groups)]
\* Some way down from Root, through no group twice, is longer than the limit.
TooDeep ==
  \E way \in [0 .. GROUP_MAX_DEPTH + 1 -> UnderRoot] :
    /\ way[0] = Root /\ IsInjective(way)
    /\ \A i \in 0 .. GROUP_MAX_DEPTH : Holds(way[i], way[i + 1])
HostsUnder ==
  {p \in DOMAIN seen.profiles \ DOMAIN seen.groups :
     \E g \in UnderRoot : Holds(g, p)}

Ids(s) == {s[i][1] : i \in DOMAIN s}
Told(s, p) == Cardinality({i \in DOMAIN s : s[i][1] = p})

\* The expansion of a group is the hosts under it, each once, over whatever cycles and
\* diamonds the saved groups make; a host is left out only where groups nest beyond the
\* depth limit, and
\* then a group is reported as skipped.  A member that is gone is reported.
GroupIsWhole ==
  step = "resolve" /\ By = "group" =>
    LET flat == flatten_group_members(seen.groups, DOMAIN seen.profiles, Root)
    IN /\ \A i, j \in DOMAIN flat.result : flat.result[i] = flat.result[j] => i = j
       /\ Range(flat.result) \subseteq HostsUnder
       /\ HostsUnder \ Range(flat.result) # {}
            => /\ TooDeep
               /\ \E i \in DOMAIN flat.issues : flat.issues[i][2] = "CycleSkipped"

\* A run of the core that returns has said of every target, and of every member of the
\* group it could not make a target of, what became of it, once; a command line's row is
\* never left at "planned".
EveryHostAnswered ==
  step = "back" =>
    /\ \A i \in DOMAIN task : Told(results, task[i].p) = 1
    /\ ~Cli /\ By = "group" => Ids(plans) \subseteq Ids(results)
    /\ ~Cli /\ By = "group" /\ ~TooDeep => HostsUnder \subseteq Ids(results)
    /\ Cli => \A r \in DOMAIN rows : rows[r][2] # "planned"

\* The command goes to a host at most once, only to one that was picked and whose login
\* needs no one to type, and what is reported agrees with what was sent: a refused,
\* skipped or unresolved host was sent nothing.
SentAsSaid ==
  \A p \in Hosts :
    /\ sent[p] <= 1
    /\ sent[p] = 1 =>
         /\ p \in (IF By = "group" THEN HostsUnder ELSE Tagged)
         /\ seen.profiles[p] # "prompt" /\ (seen.profiles[p] = "personal" => p \in Bound)
    /\ \A i \in DOMAIN results : results[i][1] = p =>
         (sent[p] = 1 <=> results[i][2] \in {"zero", "nonzero", "error", "timeout"})

\* No more commands run at once than asked for, and a call that returns has given every
\* permit back, whichever way its tasks ended.
WithinLimit ==
  /\ Limit > 0 => Cardinality(At({"running", "leaving"})) <= Limit
  /\ step = "back" => free = Limit

\* `unissh run` exits with 0 only when every picked host ran the command with status 0,
\* or would run it.
ExitTells ==
  exit = 0 =>
    \/ step = "dry" /\ \A p \in Hosts : sent[p] = 0
    \/ step = "back" /\ \A r \in DOMAIN rows : sent[rows[r][1]] = 1 /\ rows[r][2] = "zero"

=============================================================================

-------------------------- MODULE AutomationBroker --------------------------
(***************************************************************************)
(* The broker that lets an integration (an MCP client) open sessions and   *)
(* run commands under a grant the person gave it (automation lib.rs,       *)
(* access.rs, approval.rs, limits.rs), over connections of the core        *)
(* (ffi automation.rs).  The integration's requests, the native window,    *)
(* the sweeper, the session and worker threads, the core locking and its   *)
(* data changing all interleave; a step is what happens under the state    *)
(* lock, or under the admission lock where the code holds that one.        *)
(*                                                                         *)
(* Time is a set of facts that become true: a grant past its time (past),  *)
(* an approval past its two minutes (lapsed), a command past its timeout   *)
(* (due).  Every grant names one target, so conflicts of a request key are *)
(* left out: they change nothing.                                          *)
(***************************************************************************)
EXTENDS Naturals, FiniteSets, FiniteSetsExt

CONSTANTS Owners,       \* integrations
          Keys,         \* request keys
          Modes,        \* approval modes the person chooses among
          Capacity,     \* BrokerLimits.max_connections
          MaxConns, MaxActive, Retained, RetainedSess, \* GrantLimits
          RetainedTotal, \* BrokerLimits.retained_commands
          MaxSess, MaxRuns, MaxRevs, MaxEps, MaxEpoch \* bounds

\* What every instance of this module satisfies.
BrokerAssumption ==
  /\ Modes \subseteq {"manual", "trusted"}
  /\ {Capacity, MaxConns, MaxActive, Retained, RetainedSess, RetainedTotal,
      MaxSess, MaxRuns, MaxRevs, MaxEps, MaxEpoch} \subseteq Nat
  /\ MaxRevs # 0 /\ IsFiniteSet(Owners)

Sess == 1 .. MaxSess
Runs == 1 .. MaxRuns
None == [ep |-> 0]

VARIABLES rev, revs,   \* the executor's revision, 0 while the core is locked; revisions used up
          suspended, epoch, \* the broker's suspended flag and revocation epoch
          accessRev,   \* access_revision: the revision saved consents were restored for
          saved,       \* the saved consents
          grants, eps, \* live grants, epochs used up
          ticket,      \* the revisions a grant form was shown with
          sess, run,   \* records of sessions and commands, with their threads
          open,        \* connections to hosts: <<"s", id>> or <<"r", id>>
          closers,     \* threads closing a connection that was taken out of its session
          past, lapsed, due, \* what time has overtaken
          allowed, execs \* history: runs a person allowed, runs sent to a host

core == <<rev, revs>>
access == <<suspended, epoch, accessRev, saved, grants, eps, ticket>>
time == <<past, lapsed, due>>
vars == <<core, access, sess, run, open, closers, time, allowed, execs>>

NoSess == [st |-> "none", o |-> 0, ep |-> 0, rev |-> 0, key |-> 0, stop |-> FALSE,
           has |-> FALSE, pc |-> "idle"]
NoRun == [st |-> "none", here |-> FALSE, o |-> 0, ep |-> 0, rev |-> 0, mode |-> "manual",
          key |-> 0, s |-> 0, stop |-> FALSE, fin |-> 0, worker |-> FALSE, pc |-> "idle"]

Init ==
  /\ rev = 1 /\ revs = 1 /\ suspended = FALSE /\ epoch = 0 /\ accessRev = 0
  /\ saved = [o \in Owners |-> None] /\ grants = [o \in Owners |-> None] /\ eps = 0
  /\ ticket = [o \in Owners |-> [gen |-> 0, rev |-> 0]]
  /\ sess = [s \in Sess |-> NoSess] /\ run = [r \in Runs |-> NoRun]
  /\ open = {} /\ closers = {} /\ past = {} /\ lapsed = {} /\ due = {}
  /\ allowed = {} /\ execs = {}

Live(o) == grants[o] # None
Here(s) == sess[s].st \notin {"none", "gone"}
Unfinished(r) == run[r].here /\ run[r].fin = 0
Holds(r) == run[r].pc \in {"record", "connect", "check", "loop", "close", "publish", "refused"}
ConnOf(r) == IF run[r].s # 0 THEN <<"s", run[r].s>> ELSE <<"r", r>>

(* Slots are held by the connecting thread, by the session's record, by a  *)
(* run over the session and by whoever closes the connection.              *)
SessSlots == {s \in Sess : sess[s].pc # "idle" \/ sess[s].has \/ s \in closers
                           \/ \E r \in Runs : Holds(r) /\ run[r].s = s}
RunSlots == {r \in Runs : Holds(r) /\ run[r].s = 0}
Used(ep) == Cardinality({s \in SessSlots : ep \in {0, sess[s].ep}})
            + Cardinality({r \in RunSlots : ep \in {0, run[r].ep}})
SlotFree(ep) == Used(0) < Capacity /\ Used(ep) < MaxConns

(* ConnectionPolicy::check, with the connection itself alive.              *)
Valid(c) ==
  LET x == IF c[1] = "s" THEN sess[c[2]] ELSE run[c[2]] IN
  /\ c \in open /\ ~x.stop /\ rev = x.rev /\ x.ep \notin past
  /\ c[1] = "r" => c[2] \notin due

Finished == Cardinality({r \in Runs : run[r].fin > 0})
Finish(x, st) == [x EXCEPT !.st = st, !.fin = Finished + 1]

(***************************************************************************)
(* Grants: the native window                                               *)
(***************************************************************************)

(* revoke_inner: the owner's records leave the maps, their flags are set,  *)
(* connections are closed by threads of their own.                         *)
Revoked(os) ==
  /\ sess' = [s \in Sess |-> IF Here(s) /\ sess[s].o \in os
                             THEN [sess[s] EXCEPT !.st = "gone", !.stop = TRUE, !.has = FALSE]
                             ELSE sess[s]]
  /\ run' = [r \in Runs |-> IF run[r].here /\ run[r].o \in os
                            THEN [run[r] EXCEPT !.here = FALSE, !.stop = TRUE] ELSE run[r]]
  /\ closers' = closers \cup {s \in Sess : sess[s].has /\ sess[s].o \in os}
NoGrantsOf(os) == [o \in Owners |-> IF o \in os THEN None ELSE grants[o]]

GrantTicket(o) ==
  /\ rev # 0
  /\ ticket' = [ticket EXCEPT ![o] = [gen |-> epoch, rev |-> rev]]
  /\ ticket' # ticket
  /\ UNCHANGED <<core, suspended, epoch, accessRev, saved, grants, eps, sess, run, open, closers, time, allowed, execs>>

(* What grant_with_limits rechecks under the admission lock; saving the    *)
(* consent needs the core unlocked.                                        *)
TicketStands(o) == ticket[o] = [gen |-> epoch, rev |-> rev] /\ rev # 0 /\ ~suspended

Grant(o, mode) ==
  /\ TicketStands(o) /\ eps < MaxEps
  /\ eps' = eps + 1
  /\ saved' = [saved EXCEPT ![o] = [ep |-> 1, mode |-> mode, late |-> FALSE]]
  /\ grants' = [grants EXCEPT ![o] = [ep |-> eps + 1, rev |-> rev, mode |-> mode]]
  /\ Revoked({o})
  /\ UNCHANGED <<core, suspended, epoch, accessRev, ticket, open, time, allowed, execs>>

Revoke(os) ==
  /\ epoch < MaxEpoch /\ epoch' = epoch + 1
  /\ grants' = NoGrantsOf(os) /\ Revoked(os)
  /\ UNCHANGED <<core, suspended, accessRev, saved, eps, ticket, open, time, allowed, execs>>

(* Forgetting what is saved may fail after the live grant is gone.         *)
ForgetAccess(os) ==
  /\ epoch < MaxEpoch /\ epoch' = epoch + 1
  /\ grants' = NoGrantsOf(os) /\ Revoked(os)
  /\ \/ rev # 0 /\ saved' = [o \in Owners |-> IF o \in os THEN None ELSE saved[o]]
     \/ UNCHANGED saved
  /\ UNCHANGED <<core, suspended, accessRev, eps, ticket, open, time, allowed, execs>>

Suspend ==
  /\ epoch < MaxEpoch /\ epoch' = epoch + 1
  /\ suspended' = TRUE /\ accessRev' = 0
  /\ grants' = NoGrantsOf(Owners) /\ Revoked(Owners)
  /\ UNCHANGED <<core, saved, eps, ticket, open, time, allowed, execs>>

(* resume; a resume that races a later suspend is AgentAccess's subject.   *)
Resume ==
  /\ suspended /\ suspended' = FALSE /\ accessRev' = 0
  /\ UNCHANGED <<core, epoch, saved, grants, eps, ticket, sess, run, open, closers, time, allowed, execs>>

(***************************************************************************)
(* The sweeper                                                             *)
(***************************************************************************)
(* revoke_expired looks again under the admission lock.                    *)
RevokeExpired(o) ==
  /\ Live(o) /\ (grants[o].ep \in past \/ grants[o].rev # rev)
  /\ epoch' = epoch + 1
  /\ grants' = NoGrantsOf({o}) /\ Revoked({o})
  /\ UNCHANGED <<core, suspended, accessRev, saved, eps, ticket, open, time, allowed, execs>>

Restorable == ~suspended /\ rev # 0 /\ accessRev # rev

(* restore_access: the consents whose targets still resolve become grants  *)
(* again, none of which replaces a grant already there.                    *)
RestoreAccess(os) ==
  /\ Restorable /\ eps + Cardinality(os) <= MaxEps
  /\ \A o \in os : saved[o] # None /\ ~saved[o].late /\ ~Live(o)
  /\ \E f \in [os -> 1 .. Cardinality(os)] :
       /\ \A a, b \in os : f[a] = f[b] => a = b
       /\ grants' = [o \in Owners |-> IF o \in os
                     THEN [ep |-> eps + f[o], rev |-> rev, mode |-> saved[o].mode]
                     ELSE grants[o]]
  /\ eps' = eps + Cardinality(os) /\ accessRev' = rev
  /\ UNCHANGED <<core, suspended, epoch, saved, ticket, sess, run, open, closers, time, allowed, execs>>

SweepApproval(r) ==
  /\ run[r].here /\ run[r].st = "awaiting_approval" /\ r \in lapsed
  /\ run' = [run EXCEPT ![r] = Finish(@, "denied")]
  /\ UNCHANGED <<core, access, sess, open, closers, time, allowed, execs>>

CloseRecord(s) ==
  /\ sess' = [sess EXCEPT ![s].st = "closed", ![s].stop = TRUE, ![s].has = FALSE]
  /\ closers' = IF sess[s].has THEN closers \cup {s} ELSE closers

(* Ready, with no command under way: five minutes without one may pass.    *)
Idle(s) == sess[s].st = "ready" /\ ~\E r \in Runs : Unfinished(r) /\ run[r].s = s

SweepSession(s) ==
  /\ Idle(s) \/ (sess[s].has /\ ~Valid(<<"s", s>>))
  /\ CloseRecord(s)
  /\ UNCHANGED <<core, access, run, open, time, allowed, execs>>

(***************************************************************************)
(* Requests of an integration.  The revision is read before the state lock *)
(* is taken, and a grant's revision was current when the grant was made: a *)
(* request that read it then comes through whatever the revision is now.   *)
(***************************************************************************)
Granted(o) == Live(o) /\ grants[o].ep \notin past

(* admit_session: the oldest closed records make room.                     *)
AdmitSession(o, drop) ==
  LET mine == {s \in Sess : Here(s) /\ sess[s].o = o}
      closed == {s \in mine : sess[s].st = "closed"}
      excess == Cardinality(mine) + 1 - Min({RetainedSess, Cardinality(mine) + 1}) IN
  /\ Cardinality(closed) >= excess
  /\ drop = {s \in closed : Cardinality({q \in closed : q < s}) < excess}

OpenSession(o, k, s) ==
  /\ Granted(o) /\ sess[s].st = "none" /\ \A q \in Sess : q < s => sess[q].st # "none"
  /\ ~\E q \in Sess : Here(q) /\ sess[q].o = o /\ sess[q].ep = grants[o].ep /\ sess[q].key = k
  /\ Cardinality({q \in Sess : sess[q].o = o /\ sess[q].st \in {"connecting", "ready"}}) < MaxConns
  /\ SlotFree(grants[o].ep)
  /\ \E drop \in SUBSET Sess :
       /\ AdmitSession(o, drop)
       /\ sess' = [q \in Sess |->
            IF q = s THEN [NoSess EXCEPT !.st = "connecting", !.o = o, !.ep = grants[o].ep,
                                         !.rev = grants[o].rev, !.key = k, !.pc = "connect"]
            ELSE IF q \in drop THEN [sess[q] EXCEPT !.st = "gone"] ELSE sess[q]]
  /\ UNCHANGED <<core, access, run, open, closers, time, allowed, execs>>

CloseSession(s) ==
  /\ Here(s) /\ Granted(sess[s].o)
  /\ CloseRecord(s)
  /\ run' = [r \in Runs |->
       IF run[r].here /\ run[r].s = s /\ run[r].o = sess[s].o
       THEN LET x == [run[r] EXCEPT !.stop = TRUE] IN
            IF x.st \in {"awaiting_approval", "queued"} THEN Finish(x, "cancelled") ELSE x
       ELSE run[r]]
  /\ UNCHANGED <<core, access, open, time, allowed, execs>>

Evictable == {r \in Runs : run[r].here /\ run[r].fin > 0 /\ ~run[r].worker}
Excess(n, limit) == n + 1 - Min({limit, n + 1})

(* admit_run: the oldest finished records make room, the owner's first.    *)
AdmitRun(o, drop) ==
  LET here == {r \in Runs : run[r].here}
      mine == {r \in here : run[r].o = o}
      own == Excess(Cardinality(mine), Retained)
      dropped == Max({own, Excess(Cardinality(here), RetainedTotal)})
      before(q, r) == \/ q \in mine /\ r \notin mine
                      \/ (q \in mine <=> r \in mine) /\ run[q].fin < run[r].fin IN
  /\ Cardinality(Evictable \cap mine) >= own /\ Cardinality(Evictable) >= dropped
  /\ drop = {r \in Evictable : Cardinality({q \in Evictable : before(q, r)}) < dropped}

(* RunCommand, over the session s or, with 0, over a connection of its own.*)
RunCommand(o, k, s, r) ==
  /\ Granted(o) /\ run[r].st = "none" /\ \A q \in Runs : q < r => run[q].st # "none"
  /\ ~\E q \in Runs : run[q].here /\ run[q].o = o /\ run[q].ep = grants[o].ep /\ run[q].key = k
  /\ s # 0 => /\ sess[s].st = "ready" /\ sess[s].o = o
              /\ ~\E q \in Runs : Unfinished(q) /\ run[q].s = s
  /\ Cardinality({q \in Runs : Unfinished(q) /\ run[q].o = o}) < MaxActive
  /\ \E drop \in SUBSET Runs :
       /\ AdmitRun(o, drop)
       /\ run' = [q \in Runs |->
            IF q = r THEN [NoRun EXCEPT !.here = TRUE, !.o = o, !.ep = grants[o].ep, !.s = s,
                             !.rev = grants[o].rev, !.mode = grants[o].mode, !.key = k,
                             !.st = IF grants[o].mode = "manual" THEN "awaiting_approval" ELSE "queued"]
            ELSE IF q \in drop THEN [run[q] EXCEPT !.here = FALSE] ELSE run[q]]
  /\ UNCHANGED <<core, access, sess, open, closers, time, allowed, execs>>

CancelCommand(r) ==
  /\ Unfinished(r) /\ Granted(run[r].o)
  /\ run' = [run EXCEPT ![r] =
       LET x == [@ EXCEPT !.stop = TRUE] IN
       IF x.st \in {"awaiting_approval", "queued"} THEN Finish(x, "cancelled")
       ELSE [x EXCEPT !.st = "cancelling"]]
  /\ UNCHANGED <<core, access, sess, open, closers, time, allowed, execs>>

(***************************************************************************)
(* start_run and the worker's thread                                       *)
(***************************************************************************)
Startable(r, mode) ==
  /\ run[r].here /\ ~run[r].stop /\ r \notin lapsed
  /\ run[r].st = (IF mode = "manual" THEN "awaiting_approval" ELSE "queued")

(* What authorises a start: the grant the run was accepted under, and a    *)
(* ready session or slots for a connection of its own.                     *)
Authorised(r, mode) ==
  /\ Live(run[r].o) /\ grants[run[r].o].ep = run[r].ep /\ run[r].ep \notin past
  /\ grants[run[r].o].mode = mode
  /\ IF run[r].s # 0
     THEN LET q == sess[run[r].s] IN q.st = "ready" /\ ~q.stop /\ q.has
     ELSE SlotFree(run[r].ep)

Started(r) ==
  run' = [run EXCEPT ![r].st = IF run[r].s = 0 THEN "connecting" ELSE "running",
                     ![r].worker = TRUE, ![r].pc = "record"]

(* approve and deny of the native window                                   *)
Approve(r) ==
  /\ Startable(r, "manual") /\ Authorised(r, "manual")
  /\ Started(r) /\ allowed' = allowed \cup {r}
  /\ UNCHANGED <<core, access, sess, open, closers, time, execs>>

Deny(r) ==
  /\ Startable(r, "manual")
  /\ run' = [run EXCEPT ![r] = Finish(@, "denied")]
  /\ UNCHANGED <<core, access, sess, open, closers, time, allowed, execs>>

(* approval_unavailable: nobody can be asked.                              *)
ApprovalUnavailable(r) ==
  /\ Startable(r, "manual")
  /\ run' = [run EXCEPT ![r] = Finish(@, "failed")]
  /\ UNCHANGED <<core, access, sess, open, closers, time, allowed, execs>>

(* A trusted command starts at once, or fails.                             *)
StartTrusted(r) ==
  /\ run[r].st = "queued" /\ Unfinished(r)
  /\ IF Startable(r, "trusted") /\ Authorised(r, "trusted") THEN Started(r)
     ELSE run' = [run EXCEPT ![r] = Finish(@, "failed")]
  /\ UNCHANGED <<core, access, sess, open, closers, time, allowed, execs>>

(* The recording comes first; without one where one is due, no command.    *)
Record(r) ==
  /\ run[r].pc = "record"
  /\ \/ run' = [run EXCEPT ![r].pc = IF run[r].s = 0 THEN "connect" ELSE "check"]
     \/ run' = [run EXCEPT ![r] = [(IF @.here THEN Finish(@, "failed") ELSE @)
                                    EXCEPT !.worker = FALSE, !.pc = "end"]]
  /\ UNCHANGED <<core, access, sess, open, closers, time, allowed, execs>>

(* A connection comes up only if its policy still holds at the end; when   *)
(* it does not come up the flag is set.                                    *)
ConnectRun(r) ==
  /\ run[r].pc = "connect"
  /\ \/ /\ ~run[r].stop /\ rev = run[r].rev /\ run[r].ep \notin past /\ r \notin due
        /\ open' = open \cup {<<"r", r>>}
        /\ run' = [run EXCEPT ![r].pc = "check"]
     \/ run' = [run EXCEPT ![r].pc = "refused", ![r].stop = TRUE] /\ UNCHANGED open
  /\ UNCHANGED <<core, access, sess, closers, time, allowed, execs>>

MutantMayExec(r) == run[r].ep \notin past /\ r \notin due
MayExec(r) == ~run[r].stop /\ run[r].ep \notin past /\ r \notin due

(* Under the admission lock and the core's: the flag and the deadline      *)
(* again, then the connection's policy, then the command goes out.  When   *)
(* its outcome stays unknown the connection is not used again.             *)
Exec(r) ==
  /\ run[r].pc = "check"
  /\ IF ~MayExec(r) THEN run' = [run EXCEPT ![r].pc = "close"] /\ UNCHANGED <<sess, execs>>
     ELSE LET x == IF run[r].here THEN [run[r] EXCEPT !.st = "running"] ELSE run[r] IN
       IF ~Valid(ConnOf(r))
       THEN run' = [run EXCEPT ![r] = [x EXCEPT !.pc = "close"]] /\ UNCHANGED <<sess, execs>>
       ELSE /\ execs' = execs \cup {r}
            /\ \/ run' = [run EXCEPT ![r] = [x EXCEPT !.pc = "loop"]] /\ UNCHANGED sess
               \/ /\ run' = [run EXCEPT ![r] = [x EXCEPT !.pc = "close", !.stop = @ \/ run[r].s = 0]]
                  /\ sess' = IF run[r].s = 0 THEN sess ELSE [sess EXCEPT ![run[r].s].stop = TRUE]
  /\ UNCHANGED <<core, access, open, closers, time, allowed>>

(* RunSink::exited, from the connection's own task.                        *)
Exited(r, st) ==
  /\ r \in execs /\ run[r].pc \in {"loop", "close", "publish"}
  /\ Unfinished(r) /\ ~run[r].stop
  /\ run' = [run EXCEPT ![r] = Finish(@, st)]
  /\ UNCHANGED <<core, access, sess, open, closers, time, allowed, execs>>

(* The worker's loop ends when the command has to stop or has finished.    *)
EndLoop(r) ==
  /\ run[r].pc = "loop"
  /\ ~MayExec(r) \/ ~Valid(ConnOf(r)) \/ ~Unfinished(r)
  /\ run' = [run EXCEPT ![r].pc = "close"]
  /\ UNCHANGED <<core, access, sess, open, closers, time, allowed, execs>>

(* A connection of its own is closed, which sets the flag it shares.       *)
CloseImplicit(r) ==
  /\ run[r].pc = "close"
  /\ open' = open \ {<<"r", r>>}
  /\ run' = [run EXCEPT ![r].pc = "publish", ![r].stop = @ \/ run[r].s = 0]
  /\ UNCHANGED <<core, access, sess, closers, time, allowed, execs>>

MutantPublishRun(r) ==
  /\ run[r].pc \in {"publish", "refused"}
  /\ run' = [run EXCEPT ![r] =
       [(IF Unfinished(r) /\ @.stop THEN Finish(@, "cancelled") ELSE @)
         EXCEPT !.worker = FALSE, !.pc = "end"]]
  /\ UNCHANGED <<core, access, sess, open, closers, time, allowed, execs>>

(* A command that failed to connect counts as cancelled only when somebody *)
(* asked for that.                                                         *)
PublishRun(r) ==
  /\ run[r].pc \in {"publish", "refused"}
  /\ run' = [run EXCEPT ![r] =
       [(IF ~Unfinished(r) THEN @
         ELSE Finish(@, IF @.stop /\ (@.pc = "publish" \/ @.st = "cancelling")
                        THEN "cancelled" ELSE "failed"))
         EXCEPT !.worker = FALSE, !.pc = "end"]]
  /\ UNCHANGED <<core, access, sess, open, closers, time, allowed, execs>>

(***************************************************************************)
(* The thread of a session, and the threads that close connections         *)
(***************************************************************************)
ConnectSession(s) ==
  /\ sess[s].pc = "connect"
  /\ \/ /\ ~sess[s].stop /\ rev = sess[s].rev /\ sess[s].ep \notin past
        /\ open' = open \cup {<<"s", s>>}
        /\ sess' = [sess EXCEPT ![s].pc = "up"]
     \/ sess' = [sess EXCEPT ![s].pc = "down", ![s].stop = TRUE] /\ UNCHANGED open
  /\ UNCHANGED <<core, access, run, closers, time, allowed, execs>>

MutantPublishSession(s) ==
  /\ sess[s].pc \in {"up", "down"}
  /\ sess' = [sess EXCEPT ![s] =
       IF @.pc = "up" THEN [@ EXCEPT !.st = "ready", !.has = TRUE, !.pc = "idle"]
       ELSE [@ EXCEPT !.st = "closed", !.pc = "idle"]]
  /\ UNCHANGED <<core, access, run, open, closers, time, allowed, execs>>

(* The session may have been closed or dropped while it was connecting:    *)
(* then the thread itself closes the connection.                           *)
PublishSession(s) ==
  /\ sess[s].pc \in {"up", "down"}
  /\ sess' = [sess EXCEPT ![s] =
       IF @.pc = "up"
       THEN IF @.st # "connecting" THEN [@ EXCEPT !.pc = "close"]
            ELSE IF @.stop THEN [@ EXCEPT !.st = "closed", !.pc = "close"]
            ELSE [@ EXCEPT !.st = "ready", !.has = TRUE, !.pc = "idle"]
       ELSE [@ EXCEPT !.st = IF sess[s].st = "connecting" THEN "closed" ELSE sess[s].st, !.pc = "idle"]]
  /\ UNCHANGED <<core, access, run, open, closers, time, allowed, execs>>

CloseConnection(s) ==
  /\ sess[s].pc = "close" \/ s \in closers
  /\ open' = open \ {<<"s", s>>} /\ closers' = closers \ {s}
  /\ sess' = [sess EXCEPT ![s].stop = TRUE, ![s].pc = IF @ = "close" THEN "idle" ELSE @]
  /\ UNCHANGED <<core, access, run, time, allowed, execs>>

(* The core's own watch over a connection ends one whose policy is broken; *)
(* the host may end one at any time.                                       *)
Disconnect(c) ==
  /\ c \in open /\ open' = open \ {c}
  /\ UNCHANGED <<core, access, sess, run, closers, time, allowed, execs>>

WatchConnection(c) ==
  /\ c \in open /\ ~Valid(c)
  /\ open' = open \ {c}
  /\ IF c[1] = "s" THEN sess' = [sess EXCEPT ![c[2]].stop = TRUE] /\ UNCHANGED run
     ELSE run' = [run EXCEPT ![c[2]].stop = TRUE] /\ UNCHANGED sess
  /\ UNCHANGED <<core, access, closers, time, allowed, execs>>

(***************************************************************************)
(* The core and the clock                                                  *)
(***************************************************************************)
CoreChange ==
  /\ \/ rev # 0 /\ rev' = 0 /\ UNCHANGED revs
     \/ revs < MaxRevs /\ revs' = revs + 1 /\ rev' = revs + 1
  /\ UNCHANGED <<access, sess, run, open, closers, time, allowed, execs>>

GrantTimeUp(o) ==
  /\ saved[o] # None /\ ~saved[o].late
  /\ saved' = [saved EXCEPT ![o].late = TRUE]
  /\ past' = past \cup ({grants[o].ep} \ {0})
  /\ UNCHANGED <<core, suspended, epoch, accessRev, grants, eps, ticket, sess, run, open, closers, lapsed, due, allowed, execs>>

ApprovalTimeUp(r) ==
  /\ run[r].st = "awaiting_approval" /\ r \notin lapsed /\ lapsed' = lapsed \cup {r}
  /\ UNCHANGED <<core, access, sess, run, open, closers, past, due, allowed, execs>>

CommandTimeUp(r) ==
  /\ Holds(r) /\ r \notin due /\ due' = due \cup {r}
  /\ UNCHANGED <<core, access, sess, run, open, closers, past, lapsed, allowed, execs>>

Worker(r) ==
  \/ Record(r) \/ ConnectRun(r) \/ Exec(r) \/ EndLoop(r) \/ CloseImplicit(r) \/ PublishRun(r)

Next ==
  \/ \E o \in Owners : \/ GrantTicket(o) \/ (\E m \in Modes : Grant(o, m)) \/ Revoke({o})
                        \/ ForgetAccess({o}) \/ RevokeExpired(o) \/ GrantTimeUp(o)
  \/ ForgetAccess(Owners) \/ Suspend \/ Resume \/ CoreChange
  \/ \E os \in SUBSET Owners : RestoreAccess(os)
  \/ \E o \in Owners, k \in Keys : \/ \E s \in Sess : OpenSession(o, k, s)
                                   \/ \E s \in Sess \cup {0}, r \in Runs : RunCommand(o, k, s, r)
  \/ \E s \in Sess : \/ CloseSession(s) \/ SweepSession(s) \/ ConnectSession(s)
                      \/ PublishSession(s) \/ CloseConnection(s)
  \/ \E r \in Runs : \/ CancelCommand(r) \/ Approve(r) \/ Deny(r) \/ ApprovalUnavailable(r)
                      \/ StartTrusted(r) \/ SweepApproval(r) \/ Worker(r)
                      \/ Exited(r, "completed") \/ Exited(r, "failed")
                      \/ ApprovalTimeUp(r) \/ CommandTimeUp(r)
  \/ \E c \in open : Disconnect(c) \/ WatchConnection(c)

Spec == Init /\ [][Next]_vars

(* Threads that were started run; connecting ends; the sweeper comes round *)
(* every 100 ms; the clock goes on.                                        *)
Fairness ==
  /\ \A r \in Runs : WF_vars(Worker(r)) /\ WF_vars(StartTrusted(r)) /\ WF_vars(SweepApproval(r))
                     /\ WF_vars(ApprovalTimeUp(r)) /\ WF_vars(CommandTimeUp(r))
  /\ \A s \in Sess : WF_vars(ConnectSession(s)) /\ WF_vars(PublishSession(s))
                     /\ WF_vars(CloseConnection(s)) /\ WF_vars(SweepSession(s))
FairSpec == Spec /\ Fairness

(***************************************************************************)
(* Properties                                                              *)
(***************************************************************************)
(* What is recorded agrees with itself: a ready session has its connection *)
(* handle or lost it to a close, a finished command has a final state, a   *)
(* worker's mark is there while its thread is.                             *)
TypeOK ==
  /\ rev \in 0 .. MaxRevs /\ suspended \in BOOLEAN /\ epoch \in Nat
  /\ \A s \in Sess : sess[s].has => sess[s].st = "ready"
  /\ \A r \in Runs : /\ run[r].fin > 0 <=> run[r].st \in {"completed", "failed", "cancelled", "denied"}
                     /\ run[r].here /\ Holds(r) => run[r].worker
  /\ open \subseteq ({"s"} \X Sess) \cup ({"r"} \X Runs)

\* What ExecAuthorised says of one step.
ExecAuthorisedStep ==
  \A r \in Runs : r \in execs' \ execs =>
    /\ ~suspended /\ Live(run[r].o) /\ grants[run[r].o].ep = run[r].ep
    /\ run[r].ep \notin past /\ rev # 0 /\ rev = run[r].rev /\ ~run[r].stop
    /\ grants[run[r].o].mode = "manual" => r \in allowed

(* A command reaches a host once, while the grant it was accepted under is *)
(* live and in time, not cancelled, with the core unlocked on the revision *)
(* the person granted, and, where the mode asks for it, after a person     *)
(* allowed this very command.  (start_run, exec_with_input, the admission  *)
(* lock.)                                                                  *)
ExecAuthorised == [][ExecAuthorisedStep]_vars

(* While access is suspended nothing of it is left in the broker, whatever *)
(* grant form, restore or request was under way (suspend, restore_access,  *)
(* grant_with_limits).                                                     *)
SuspendedHolds ==
  suspended => /\ \A o \in Owners : ~Live(o)
               /\ \A s \in Sess : ~Here(s)
               /\ \A r \in Runs : ~run[r].here /\ (Holds(r) => run[r].stop)

(* Whatever is live belongs to the grant that is live: no session or       *)
(* command of a replaced or revoked grant stays usable (revoke_inner).     *)
NothingFromBefore ==
  /\ \A s \in Sess : Here(s) => Live(sess[s].o) /\ grants[sess[s].o].ep = sess[s].ep
  /\ \A r \in Runs : run[r].here => Live(run[r].o) /\ grants[run[r].o].ep = run[r].ep
  /\ \A s \in Sess : sess[s].st = "ready" => sess[s].pc = "idle"

(* A live grant always has the person's saved consent behind it: forgetting*)
(* cannot be undone by a restore (forget_access, restore_access).          *)
Consented == \A o \in Owners : Live(o) => saved[o] # None /\ saved[o].mode = grants[o].mode

(* No more connections to hosts than slots, in all and per grant, also     *)
(* while connections of a revoked grant are still being closed (Limiter).  *)
ConnectionsBounded ==
  /\ Cardinality(open) <= Capacity
  /\ \A e \in 1 .. eps : Cardinality({c \in open :
       e = (IF c[1] = "s" THEN sess[c[2]].ep ELSE run[c[2]].ep)}) <= MaxConns

\* What FinalStays says of one step.
FinalStaysStep ==
  \A r \in Runs : run[r].fin > 0 => run'[r].fin = run[r].fin /\ run'[r].st = run[r].st

(* What a client was told about the end of a command stays so (finish).    *)
FinalStays == [][FinalStaysStep]_vars

(* A command's record is not dropped for room while its thread is at work  *)
(* (State::evictable): the limits would then count less than there is.     *)
RecordOutlivesWork == \A r \in Runs : Holds(r) => run[r].here \/ run[r].stop

\* What ClosedTellsCommand says of one step.
ClosedTellsCommandStep ==
  \A r \in Runs : LET s == run[r].s IN
    s # 0 /\ Unfinished(r) /\ ~run[r].stop /\ sess[s].st = "ready" /\ Valid(<<"s", s>>)
    /\ sess'[s].st = "closed" => run'[r].stop

(* A session that still works is not closed under a command without the    *)
(* command being cancelled: idleness is judged by commands under way, also *)
(* ones that have not reached the host yet (sweep, CloseSession).          *)
ClosedTellsCommand == [][ClosedTellsCommandStep]_vars

(* Every accepted command ends, whether somebody answers, cancels, revokes *)
(* or the host never does (sweep, the worker's deadline).                  *)
EveryRunEnds == \A r \in Runs : (run[r].here ~> (run[r].fin > 0 \/ ~run[r].here))
                                /\ (Holds(r) ~> run[r].pc = "end")

(* Every connection that left its session is closed (revoke_inner, the     *)
(* session's thread).                                                      *)
DroppedCloses == \A s \in Sess : (sess[s].st = "gone") ~> (<<"s", s>> \notin open)

=============================================================================

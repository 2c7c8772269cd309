---------------------------- MODULE ServerSpaces ----------------------------
(***************************************************************************)
(* Spaces, their members, invites and the queue of pending vault grants    *)
(* and revocations (server/src/modules: spaces, instance, identity, oidc,  *)
(* pending, admin, and the repositories under store/).                     *)
(*                                                                         *)
(* A handler is a request in one of the server's worker slots.  Its reads  *)
(* and its transactions are separate steps, so another handler may commit  *)
(* between a check and the statement it guards.  A transaction is one step *)
(* (writers are serialised).  An account is created by its first join,     *)
(* claim or single sign-on.  What the vault administrators' devices do     *)
(* with the queue is taken from what GET /v1/pending and grants/publish    *)
(* exchange with them.                                                     *)
(***************************************************************************)
EXTENDS Naturals, FiniteSets, FiniteSetsExt

CONSTANTS
  Accounts,      \* identities that may sign up, by claim, invite or sign-on
  Founders,      \* the ones that try to claim the instance
  Sso,           \* the ones that sign in through the identity provider
  Spaces,        \* space ids
  Vaults,        \* vault ids
  SpaceWide,     \* the vaults claimed with access_policy = 'space_wide'
  Invites,       \* invite ids
  Slots,         \* requests served at a time
  Kinds,         \* the operations the clients use in this instance
  MaxRequests,   \* bound: requests that take effect or fail, in all
  MaxCrashes,    \* bound: server restarts
  NoOne          \* no account

\* What every instance of this module satisfies.
SpacesAssumption ==
  /\ NoOne \notin Accounts
  /\ Founders \subseteq Accounts
  /\ Sso \subseteq Accounts
  /\ SpaceWide \subseteq Vaults
  /\ MaxRequests \in Nat
  /\ MaxCrashes \in Nat

VARIABLES
  owner,     \* instance.owner_account_id: the account that claimed the instance
  status,    \* account -> "none", "active" or "disabled"
  opened,    \* the spaces that exist
  edge,      \* space -> account -> "none", "member" or "admin" (space_members)
  bySso,     \* space -> the accounts whose edge has source = 'oidc'
  home,      \* vault -> its space, NoOne before it is claimed
  holders,   \* vault -> accounts with a live grant at the latest epoch
  epoch,     \* vault -> latest epoch
  invite,    \* invite -> its row
  pend,      \* vault -> account -> how many pending actions of each sort
  req,       \* slot -> the request it serves
  spent,     \* requests so far
  crashes,   \* restarts so far
  joins,     \* history: account -> invites it redeemed
  evicted,   \* history: <<account, vault>>, removed while holding the vault
  owed,      \* history: <<account, vault>>, a member let in under the policy
  stale,     \* history: a removal deleted an admin it had read as no admin
  late       \* history: a publication was settled after a newer one

vars == <<owner, status, opened, edge, bySso, home, holders, epoch, invite, pend, req,
          spent, crashes, joins, evicted, owed, stale,
          late>>

Roles == {"member", "admin"}
Edge == {"none"} \cup Roles
Idle == [op |-> "idle"]

\* Rows of pending_actions: grants by policy, grants by invite, revocations.
NoWork == [policy |-> 0, invited |-> 0, revoke |-> 0]
NoInvite == [state |-> "absent"]

Members(s) == {a \in Accounts : edge[s][a] # "none"}
is_space_admin(s, a) == edge[s][a] = "admin"
Admins(s) == {a \in Accounts : is_space_admin(s, a)}
VaultsOf(s) == {v \in Vaults : home[v] = s}

\* The space-wide vaults of a space.
space_wide_vaults(s) == VaultsOf(s) \cap SpaceWide

\* A vault an account may hand out through an invite: its space's admin.
can_admin_vault(a, v) == home[v] \in Spaces /\ is_space_admin(home[v], a)

\* Vaults of the space in which the account can still read the latest epoch.
vaults_with_live_grant_in_space(a, s) == {v \in VaultsOf(s) : a \in holders[v]}
vaults_with_live_grant(a) == {v \in Vaults : a \in holders[v]}

----------------------------------------------------------------------------
\* The queue.

\* One more pending action of a sort for an account, for every vault of vs.
pending_enqueue(p, vs, a, sort) ==
  [v \in Vaults |->
     IF v \in vs THEN [p[v] EXCEPT ![a][sort] = @ + 1] ELSE p[v]]

\* The vaults of the space for which a member still needs a grant queued.
\* Vaults it can read and vaults with a grant on the way are passed over.
enqueue_space_wide_grants(p, s, a) ==
  LET due == {v \in space_wide_vaults(s) :
                /\ a \notin holders[v]
                /\ p[v][a].policy + p[v][a].invited = 0}
  IN  pending_enqueue(p, due, a, "policy")

\* Grants published to the listed accounts close their grant actions.
pending_mark_grants_done(p, v, listed) ==
  [p EXCEPT ![v] = [a \in Accounts |->
     IF a \in listed THEN [@[a] EXCEPT !.policy = 0, !.invited = 0] ELSE @[a]]]

\* A mutant: a rotation closes every revocation of the vault.
MutMarkEveryRevoke(p, v, listed) ==
  [p EXCEPT ![v] = [a \in Accounts |-> [@[a] EXCEPT !.revoke = 0]]]

\* A rotation closes the revocations of the accounts it leaves out.
pending_mark_revokes_done(p, v, listed) ==
  [p EXCEPT ![v] = [a \in Accounts |->
     IF a \in listed THEN @[a] ELSE [@[a] EXCEPT !.revoke = 0]]]

----------------------------------------------------------------------------
\* Serving requests.

\* A client's request reaches a free slot.
Take(q, r) ==
  /\ req[q].op = "idle"
  /\ r.op \in Kinds
  /\ spent < MaxRequests
  /\ spent' = spent + 1
  /\ req' = [req EXCEPT ![q] = r]

Goto(q, r) == req' = [req EXCEPT ![q] = r] /\ UNCHANGED spent
Answer(q) == Goto(q, Idle)

\* An account whose requests are authenticated.
Signed(a) == status[a] = "active"

Quiet == UNCHANGED <<owner, status, opened, home, holders, epoch, invite, crashes, joins>>

\* History: an account's edge is gone although it can read vaults of the space.
Drop(a, s) == evicted \cup {<<a, v>> : v \in vaults_with_live_grant_in_space(a, s)}
Rejoin(a, s) == evicted \ {<<a, v>> : v \in VaultsOf(s)}
Owe(a, s) == owed \cup {<<a, v>> : v \in space_wide_vaults(s)}
Forget(a, s) == owed \ {<<a, v>> : v \in VaultsOf(s)}

----------------------------------------------------------------------------
\* Claiming the instance.

\* claim, before its transaction: unclaimed, the right setup code.
ClaimCheck(q, a) ==
  /\ owner = NoOne
  /\ Take(q, [op |-> "claim", by |-> a])
  /\ Quiet
  /\ UNCHANGED <<edge, bySso, pend, evicted, owed, stale, late>>

\* claim_instance_cas: claimed = 0 and the setup code is still the one checked.
claim_instance_cas == owner = NoOne

\* claim's transaction: the owner, its account and a first space it administers.
ClaimCommit(q) ==
  /\ req[q].op = "claim"
  /\ Answer(q)
  /\ LET a == req[q].by IN
     IF claim_instance_cas /\ status[a] = "none"
       THEN \E s \in Spaces \ opened :
              /\ owner' = a
              /\ opened' = opened \cup {s}
              /\ status' = [status EXCEPT ![a] = "active"]
              /\ edge' = [edge EXCEPT ![s][a] = "admin"]
       ELSE UNCHANGED <<owner, status, opened, edge>>
  /\ UNCHANGED <<bySso, home, holders, epoch, invite, pend, crashes, joins, evicted,
                 owed, stale, late>>

\* spaces_create: the instance owner opens a further space and administers it.
spaces_create(q, s) ==
  /\ req[q].op = "idle" /\ "create" \in Kinds /\ spent < MaxRequests
  /\ owner # NoOne /\ Signed(owner)
  /\ s \notin opened
  /\ opened' = opened \cup {s}
  /\ edge' = [edge EXCEPT ![s][owner] = "admin"]
  /\ spent' = spent + 1
  /\ UNCHANGED <<owner, status, bySso, home, holders, epoch, invite, pend, req,
                 crashes, joins, evicted, owed, stale, late>>

\* Claiming a vault for a space: any member may, and is its first holder.
vault_claim(q, a, v, s) ==
  /\ req[q].op = "idle" /\ spent < MaxRequests
  /\ Signed(a) /\ edge[s][a] # "none" /\ home[v] = NoOne
  /\ home' = [home EXCEPT ![v] = s]
  /\ holders' = [holders EXCEPT ![v] = {a}]
  /\ epoch' = [epoch EXCEPT ![v] = 1]
  /\ spent' = spent + 1
  /\ UNCHANGED <<owner, status, opened, edge, bySso, invite, pend, req, crashes,
                 joins, evicted, owed, stale, late>>

----------------------------------------------------------------------------
\* Members of a space.

\* members_add, before its transaction.
AddCheck(q, by, s, a, role) ==
  /\ Signed(by) /\ is_space_admin(s, by)
  /\ status[a] # "none"
  /\ edge[s][a] = "none"
  /\ Take(q, [op |-> "add", by |-> by, s |-> s, a |-> a, role |-> role])
  /\ Quiet
  /\ UNCHANGED <<edge, bySso, pend, evicted, owed, stale, late>>

\* members_add's transaction: the edge (an edge made meanwhile stays as it is)
\* and the grants the space's policy owes the member.
AddCommit(q) ==
  /\ req[q].op = "add"
  /\ Answer(q)
  /\ LET r == req[q] IN
     /\ edge' = [edge EXCEPT ![r.s][r.a] = IF @ = "none" THEN r.role ELSE @]
     /\ bySso' = IF edge[r.s][r.a] = "none"
                   THEN [bySso EXCEPT ![r.s] = @ \ {r.a}] ELSE bySso
     /\ pend' = enqueue_space_wide_grants(pend, r.s, r.a)
     /\ evicted' = Rejoin(r.a, r.s)
     /\ owed' = Owe(r.a, r.s)
  /\ Quiet
  /\ UNCHANGED <<stale, late>>

\* Nobody but the instance owner lowers the owner's edge.
guard_instance_owner_eviction(target, actor) == target # owner \/ actor = target

\* members_remove, before the deletion: the checks, then the target's role.
RemoveCheck(q, by, s, a) ==
  /\ Signed(by) /\ is_space_admin(s, by)
  /\ guard_instance_owner_eviction(a, by)
  /\ Take(q, [op |-> "remove", by |-> by, s |-> s, a |-> a, cur |-> edge[s][a]])
  /\ Quiet
  /\ UNCHANGED <<edge, bySso, pend, evicted, owed, stale, late>>

\* Whether the deletion finds its row.  Of a target that was an admin when its
\* role was read it deletes an admin's edge that is not the last one; of any
\* other target it deletes whatever edge there is.
MayDelete(s, a, cur) ==
  IF cur = "admin"
    THEN is_space_admin(s, a) /\ Cardinality(Admins(s)) > 1
    ELSE edge[s][a] # "none"

\* members_remove, the deletion.  An admin's deletion without a row is refused;
\* otherwise the request goes on to the vaults, also when there was no edge.
RemoveDelete(q) ==
  /\ req[q].op = "remove"
  /\ LET r == req[q]
         hit == MayDelete(r.s, r.a, r.cur)
     IN
     /\ IF hit
          THEN /\ edge' = [edge EXCEPT ![r.s][r.a] = "none"]
               /\ bySso' = [bySso EXCEPT ![r.s] = @ \ {r.a}]
               /\ evicted' = Drop(r.a, r.s)
               /\ owed' = Forget(r.a, r.s)
               /\ stale' = (stale \/ (r.cur # "admin" /\ is_space_admin(r.s, r.a)))
          ELSE UNCHANGED <<edge, bySso, evicted, owed, stale>>
     /\ IF hit \/ r.cur # "admin"
          THEN Goto(q, [op |-> "removed", s |-> r.s, a |-> r.a])
          ELSE Answer(q)
  /\ Quiet
  /\ UNCHANGED <<pend, late>>

\* members_remove, the read of the vaults the account can still open.
RemoveList(q) ==
  /\ req[q].op = "removed"
  /\ LET r == req[q] IN
     Goto(q, [op |-> "revoking", s |-> r.s, a |-> r.a,
              vs |-> vaults_with_live_grant_in_space(r.a, r.s)])
  /\ Quiet
  /\ UNCHANGED <<edge, bySso, pend, evicted, owed, stale, late>>

\* members_remove and account_status, the transaction that queues the revocations.
RevokeEnqueue(q) ==
  /\ req[q].op = "revoking"
  /\ pend' = pending_enqueue(pend, req[q].vs, req[q].a, "revoke")
  /\ Answer(q)
  /\ Quiet
  /\ UNCHANGED <<edge, bySso, evicted, owed, stale, late>>

\* members_set_role, before its transaction.
RoleCheck(q, by, s, a, role) ==
  /\ Signed(by) /\ is_space_admin(s, by)
  /\ role # "admin" => guard_instance_owner_eviction(a, by)
  /\ Take(q, [op |-> "role", by |-> by, s |-> s, a |-> a, role |-> role,
              cur |-> edge[s][a]])
  /\ Quiet
  /\ UNCHANGED <<edge, bySso, pend, evicted, owed, stale, late>>

\* Whether members_set_role's UPDATE finds its row: a demotion does not touch
\* the last admin.
MayUpdate(s, a, role) ==
  /\ edge[s][a] # "none"
  /\ role = "admin" \/ edge[s][a] # "admin" \/ Cardinality(Admins(s)) > 1

\* members_set_role's transaction.  A demotion that changed nothing, of a target
\* read as admin, is refused; otherwise a target read as member is owed grants.
RoleCommit(q) ==
  /\ req[q].op = "role"
  /\ Answer(q)
  /\ LET r == req[q]
         hit == MayUpdate(r.s, r.a, r.role)
     IN
     /\ edge' = IF hit THEN [edge EXCEPT ![r.s][r.a] = r.role] ELSE edge
     /\ pend' = IF (hit \/ r.role = "admin" \/ r.cur # "admin") /\ r.cur # "none"
                  THEN enqueue_space_wide_grants(pend, r.s, r.a) ELSE pend
  /\ Quiet
  /\ UNCHANGED <<bySso, evicted, owed, stale, late>>

\* account_status, the owner disables an account: its row, then the vaults it
\* can still open are read, then queued.  The claim owner cannot be disabled.
Disable(q, a) ==
  /\ owner # NoOne /\ Signed(owner)
  /\ status[a] = "active" /\ a # owner
  /\ "disable" \in Kinds
  /\ req[q].op = "idle" /\ spent < MaxRequests
  /\ spent' = spent + 1
  /\ status' = [status EXCEPT ![a] = "disabled"]
  /\ req' = [req EXCEPT ![q] = [op |-> "disabled", a |-> a]]
  /\ evicted' = evicted \cup {<<a, v>> : v \in vaults_with_live_grant(a)}
  /\ owed' = {e \in owed : e[1] # a}
  /\ UNCHANGED <<owner, opened, edge, bySso, home, holders, epoch, invite, pend,
                 crashes, joins, stale, late>>

\* account_status, the other way: nothing but the status is restored.
Enable(q, a) ==
  /\ owner # NoOne /\ Signed(owner)
  /\ status[a] = "disabled"
  /\ "disable" \in Kinds
  /\ req[q].op = "idle" /\ spent < MaxRequests
  /\ spent' = spent + 1
  /\ status' = [status EXCEPT ![a] = "active"]
  /\ UNCHANGED <<owner, opened, edge, bySso, home, holders, epoch, invite, pend, req,
                 crashes, joins, evicted, owed, stale, late>>

DisableList(q) ==
  /\ req[q].op = "disabled"
  /\ Goto(q, [op |-> "revoking", s |-> NoOne, a |-> req[q].a,
              vs |-> vaults_with_live_grant(req[q].a)])
  /\ Quiet
  /\ UNCHANGED <<edge, bySso, pend, evicted, owed, stale, late>>

----------------------------------------------------------------------------
\* Invites.

\* invite_issue_v2: an admin of every space it names, and of every vault.
InviteCheck(q, by, i, es, vs) ==
  /\ Signed(by)
  /\ invite[i].state = "absent"
  /\ \E s \in Spaces : es[s] # "none"
  /\ \A s \in Spaces : es[s] # "none" => is_space_admin(s, by)
  /\ \A v \in vs : can_admin_vault(by, v)
  /\ \A p \in Slots : req[p].op = "invite" => req[p].i # i
  /\ Take(q, [op |-> "invite", by |-> by, i |-> i, es |-> es, vs |-> vs])
  /\ Quiet
  /\ UNCHANGED <<edge, bySso, pend, evicted, owed, stale, late>>

create_invite_v2(q) ==
  /\ req[q].op = "invite"
  /\ Answer(q)
  /\ invite' = [invite EXCEPT ![req[q].i] =
       [state |-> "pending", es |-> req[q].es, vs |-> req[q].vs]]
  /\ UNCHANGED <<owner, status, opened, edge, bySso, home, holders, epoch, pend,
                 crashes, joins, evicted, owed, stale, late>>

\* invite_revoke_v2, its checks: the owner, or an admin of all the invite names.
InviteRevokeCheck(q, by, i) ==
  /\ Signed(by)
  /\ invite[i].state # "absent"
  /\ \/ by = owner
     \/ /\ \A s \in Spaces : invite[i].es[s] # "none" => is_space_admin(s, by)
        /\ \A v \in invite[i].vs : can_admin_vault(by, v)
  /\ Take(q, [op |-> "uninvite", i |-> i])
  /\ Quiet
  /\ UNCHANGED <<edge, bySso, pend, evicted, owed, stale, late>>

\* revoke_invite_v2 changes a pending invite only; else the caller hears of it.
revoke_invite_v2(q) ==
  /\ req[q].op = "uninvite"
  /\ Answer(q)
  /\ invite' = IF invite[req[q].i].state = "pending"
                 THEN [invite EXCEPT ![req[q].i].state = "revoked"] ELSE invite
  /\ UNCHANGED <<owner, status, opened, edge, bySso, home, holders, epoch, pend,
                 crashes, joins, evicted, owed, stale, late>>

\* An invite's time passes: no row changes, but no redemption finds it any more.
InviteExpires(i) ==
  /\ invite[i].state = "pending"
  /\ invite' = [invite EXCEPT ![i].state = "expired"]
  /\ UNCHANGED <<owner, status, opened, edge, bySso, home, holders, epoch, pend, req,
                 spent, crashes, joins, evicted, owed, stale, late>>

\* join, before its transaction: who the key belongs to, if to anybody.
JoinCheck(q, a, i) ==
  /\ invite[i].state # "absent"
  /\ status[a] # "disabled"
  /\ Take(q, [op |-> "join", a |-> a, i |-> i, fresh |-> status[a] = "none"])
  /\ Quiet
  /\ UNCHANGED <<edge, bySso, pend, evicted, owed, stale, late>>

redeem_invite_v2_cas(i) == invite[i].state = "pending"

\* join's transaction: the invite, the account, its edges (existing ones stay),
\* a grant per vault intent and one per space-wide vault of a joined space.  It
\* rolls back when the key got its account meanwhile (ed25519_pub is unique).
JoinCommit(q) ==
  /\ req[q].op = "join"
  /\ Answer(q)
  /\ LET r == req[q]
         row == invite[r.i]
         into == {s \in Spaces : row.es[s] # "none"}
         wide == UNION {space_wide_vaults(s) : s \in into}
     IN
     IF redeem_invite_v2_cas(r.i) /\ (r.fresh => status[r.a] = "none")
       THEN /\ invite' = [invite EXCEPT ![r.i].state = "redeemed"]
            /\ status' = IF r.fresh THEN [status EXCEPT ![r.a] = "active"] ELSE status
            /\ edge' = [s \in Spaces |->
                 IF s \in into /\ edge[s][r.a] = "none"
                   THEN [edge[s] EXCEPT ![r.a] = row.es[s]] ELSE edge[s]]
            /\ pend' = pending_enqueue(pending_enqueue(pend, row.vs, r.a, "invited"),
                                       wide, r.a, "policy")
            /\ joins' = [joins EXCEPT ![r.a] = @ + 1]
            /\ evicted' = {e \in evicted : e[1] # r.a \/ home[e[2]] \notin into}
            /\ owed' = owed \cup {<<r.a, v>> : v \in wide}
       ELSE UNCHANGED <<invite, status, edge, pend, joins, evicted, owed>>
  /\ UNCHANGED <<owner, opened, bySso, home, holders, epoch, crashes, stale, late>>

----------------------------------------------------------------------------
\* Single sign-on.

\* space_member_upsert_oidc touches a row of its own source, or makes one.
space_member_upsert_oidc(s, a) == edge[s][a] = "none" \/ a \in bySso[s]

\* An ended edge takes its source along.
delete_oidc_member(s, a) == bySso[s] \ {a}

\* oidc_callback's transaction, for a token whose groups map to the roles of es:
\* the account, the edges of its groups, and the end of the ones it lost.
oidc_callback(q, a, es) ==
  /\ a \in Sso /\ "oidc" \in Kinds
  /\ req[q].op = "idle" /\ spent < MaxRequests
  /\ status[a] # "disabled"
  /\ \A s \in Spaces : es[s] # "none" => s \in opened
  /\ spent' = spent + 1
  /\ status' = [status EXCEPT ![a] = "active"]
  /\ LET puts(s) == es[s] # "none" /\ space_member_upsert_oidc(s, a)
         ends(s) == es[s] = "none" /\ a \in bySso[s]
     IN
     /\ edge' = [s \in Spaces |->
          IF puts(s) THEN [edge[s] EXCEPT ![a] = es[s]]
          ELSE IF ends(s) THEN [edge[s] EXCEPT ![a] = "none"] ELSE edge[s]]
     /\ bySso' = [s \in Spaces |->
          IF puts(s) /\ edge[s][a] = "none" THEN bySso[s] \cup {a}
          ELSE IF ends(s) THEN delete_oidc_member(s, a) ELSE bySso[s]]
  /\ UNCHANGED <<owner, opened, home, holders, epoch, invite, pend, req, crashes,
                 joins, evicted, owed, stale, late>>

----------------------------------------------------------------------------
\* The vault administrator's device and grants/publish.

\* The device reads the queue and decides on a new set of holders: it serves the
\* grants and, when it rotates, leaves out the accounts to be revoked.  The
\* publisher must be a member of the vault's space and hold the vault.
PublishCheck(q, by, v, rotate) ==
  /\ home[v] \in Spaces
  /\ Signed(by) /\ by \in holders[v] /\ edge[home[v]][by] # "none"
  /\ LET asked == {a \in Accounts : pend[v][a].policy + pend[v][a].invited > 0}
         out == IF rotate THEN {a \in Accounts : pend[v][a].revoke > 0} ELSE {}
     IN
     /\ asked \cup out # {}
     /\ rotate => out # {}
     /\ Take(q, [op |-> "publish", v |-> v, at |-> epoch[v], rotate |-> rotate,
                 keep |-> ((holders[v] \ out) \cup (asked \ out)) \cup {by}])
  /\ Quiet
  /\ UNCHANGED <<edge, bySso, pend, evicted, owed, stale, late>>

\* grants_publish: the new epoch and its holders, unless another came first.
PublishCommit(q) ==
  /\ req[q].op = "publish"
  /\ LET r == req[q] IN
     IF epoch[r.v] = r.at
       THEN /\ epoch' = [epoch EXCEPT ![r.v] = @ + 1]
            /\ holders' = [holders EXCEPT ![r.v] = r.keep]
            /\ evicted' = {e \in evicted : e[2] # r.v \/ e[1] \in r.keep}
            /\ Goto(q, [r EXCEPT !.op = "published"])
       ELSE /\ Answer(q)
            /\ UNCHANGED <<epoch, holders, evicted>>
  /\ UNCHANGED <<owner, status, opened, edge, bySso, home, invite, pend, crashes, joins,
                 owed, stale, late>>

\* The follow-up transaction of grants/publish: what the publication settled.
PublishMark(q) ==
  /\ req[q].op = "published"
  /\ LET r == req[q]
         granted == pending_mark_grants_done(pend, r.v, r.keep)
     IN  /\ pend' = IF r.rotate
                      THEN pending_mark_revokes_done(granted, r.v, r.keep) ELSE granted
         /\ late' = (late \/ epoch[r.v] # r.at + 1)
  /\ Answer(q)
  /\ Quiet
  /\ UNCHANGED <<edge, bySso, evicted, owed, stale>>

\* The server is restarted: requests in flight end where they are.
Crash ==
  /\ crashes < MaxCrashes
  /\ \E q \in Slots : req[q] # Idle
  /\ crashes' = crashes + 1
  /\ req' = [q \in Slots |-> Idle]
  /\ UNCHANGED <<owner, status, opened, edge, bySso, home, holders, epoch, invite, pend,
                 spent, joins, evicted, owed, stale, late>>

----------------------------------------------------------------------------

EdgeMaps == [Spaces -> Edge]

Init ==
  /\ owner = NoOne
  /\ status = [a \in Accounts |-> "none"]
  /\ opened = {}
  /\ edge = [s \in Spaces |-> [a \in Accounts |-> "none"]]
  /\ bySso = [s \in Spaces |-> {}]
  /\ home = [v \in Vaults |-> NoOne]
  /\ holders = [v \in Vaults |-> {}]
  /\ epoch = [v \in Vaults |-> 0]
  /\ invite = [i \in Invites |-> NoInvite]
  /\ pend = [v \in Vaults |-> [a \in Accounts |-> NoWork]]
  /\ req = [q \in Slots |-> Idle]
  /\ spent = 0
  /\ crashes = 0
  /\ joins = [a \in Accounts |-> 0]
  /\ evicted = {}
  /\ owed = {}
  /\ stale = FALSE
  /\ late = FALSE

Begin(q) ==
  \/ \E a \in Founders : ClaimCheck(q, a)
  \/ \E s \in Spaces : spaces_create(q, s)
  \/ \E a \in Accounts, v \in Vaults, s \in Spaces : vault_claim(q, a, v, s)
  \/ \E by, a \in Accounts, s \in Spaces :
       \/ \E role \in Roles : AddCheck(q, by, s, a, role)
       \/ RemoveCheck(q, by, s, a)
       \/ \E role \in Roles : RoleCheck(q, by, s, a, role)
  \/ \E a \in Accounts : Disable(q, a) \/ Enable(q, a)
  \/ \E by \in Accounts, i \in Invites :
       \/ \E es \in EdgeMaps, vs \in SUBSET Vaults : InviteCheck(q, by, i, es, vs)
       \/ InviteRevokeCheck(q, by, i)
       \/ JoinCheck(q, by, i)
  \/ \E a \in Accounts, es \in EdgeMaps : oidc_callback(q, a, es)
  \/ \E by \in Accounts, v \in Vaults, rotate \in BOOLEAN : PublishCheck(q, by, v, rotate)

Continue(q) ==
  \/ ClaimCommit(q)
  \/ AddCommit(q)
  \/ RemoveDelete(q)
  \/ RemoveList(q)
  \/ RevokeEnqueue(q)
  \/ RoleCommit(q)
  \/ DisableList(q)
  \/ create_invite_v2(q)
  \/ revoke_invite_v2(q)
  \/ JoinCommit(q)
  \/ PublishCommit(q)
  \/ PublishMark(q)

Next ==
  \/ \E q \in Slots : Begin(q) \/ Continue(q)
  \/ \E i \in Invites : InviteExpires(i)
  \/ Crash

Spec == Init /\ [][Next]_vars

----------------------------------------------------------------------------
\* Properties.

\* Type invariant of the tables and of the requests in flight.
TypeOK ==
  /\ owner \in Accounts \cup {NoOne}
  /\ status \in [Accounts -> {"none", "active", "disabled"}]
  /\ edge \in [Spaces -> [Accounts -> Edge]]
  /\ \A s \in Spaces : bySso[s] \subseteq Members(s)
  /\ \A s \in Spaces \ opened : Members(s) = {} /\ VaultsOf(s) = {}
  /\ home \in [Vaults -> Spaces \cup {NoOne}]
  /\ holders \in [Vaults -> SUBSET Accounts]
  /\ epoch \in [Vaults -> 0..MaxRequests]
  /\ \A v \in Vaults, a \in Accounts, k \in DOMAIN NoWork : pend[v][a][k] \in 0..MaxRequests
  /\ \A q \in Slots : req[q].op \in Kinds \cup
       {"idle", "removed", "revoking", "disabled", "published"}

\* Anti-orphan (spaces.rs 314-319): a space never loses its last admin.
SpaceHasAdmin == \A s \in opened : Admins(s) # {}

\* The conditional statements of members_remove and members_set_role keep an admin
\* in every space whatever two requests do to each other, with one exception:
\* a removal that read its target as no admin and deletes it when it is one.
OrphanOnlyByStaleRole == stale \/ SpaceHasAdmin

\* What ClaimedOnce says of one step.
ClaimedOnceStep ==
  owner # NoOne => owner' = owner

\* The instance is claimed once, however many claims pass the first check.
ClaimedOnce == [][ClaimedOnceStep]_vars

\* An invite lets one joiner in: what was redeemed accounts for every join, with
\* several joins, the invite's revocation and its expiry all in flight.
InviteOnce ==
  MapThenSumSet(LAMBDA a : joins[a], Accounts)
    = Cardinality({i \in Invites : invite[i].state = "redeemed"})

\* What ManualKept says of one step.
ManualKeptStep ==
  \A s \in Spaces, a \in Accounts :
    (edge[s][a] # "none" /\ a \notin bySso[s] /\ edge'[s][a] # edge[s][a])
      => \E q \in Slots : /\ req[q] # req'[q]
                          /\ req[q].op \in {"remove", "role"}
                          /\ req[q].a = a

\* An edge given by hand is changed by a removal or a role change of that
\* account, never by what an identity provider says of it.
ManualKept == [][ManualKeptStep]_vars

\* An account removed from a space, or disabled, while it could read a vault has
\* a revocation queued for that vault once the request is over, until a rotation
\* leaves it out or it is a member again.
RevokeQueued ==
  \A e \in evicted :
    \/ pend[e[2]][e[1]].revoke > 0
    \/ \E q \in Slots : /\ req[q].op \in {"removed", "revoking", "disabled"}
                        /\ req[q].a = e[1]

\* With no restart in between, the one way to lose a revocation is a publication
\* that is settled after a newer one: its old list of members closes the new row.
RevokeLostOnlyLate == late \/ RevokeQueued

\* Direct adds and role changes never pile up grants: what policy has queued for
\* one account and vault is at most one, and one more per invite it redeemed.
NoPiledGrants ==
  \A v \in Vaults, a \in Accounts : pend[v][a].policy <= 1 + joins[a]

\* A member let in while a vault was space-wide can read the vault, or has the
\* grant queued: no publication closes a grant it did not serve.
MembersServed ==
  \A e \in owed : \/ e[1] \in holders[e[2]]
                  \/ pend[e[2]][e[1]].policy + pend[e[2]][e[1]].invited > 0

=============================================================================

----------------------------- MODULE ServerSync -----------------------------
(***************************************************************************)
(* The server's half of sync: the append-only object log with its          *)
(* instance-wide sequence, the tables derived from it, the idempotent push *)
(* transaction, grants/publish with its re-emission, and the paged delta.  *)
(*                                                                         *)
(* Concurrency.  Every HTTP handler is a process.  A request is accepted   *)
(* (write_accept) outside any transaction, then takes the row lock of the  *)
(* instance row (alloc_seqs), writes into a private view of the database,  *)
(* and commits or rolls back.  A delta page is two separate reads, the     *)
(* plan and the rows, with no transaction around them.                     *)
(*                                                                         *)
(* One vault is modelled: the derived tables are keyed by vault and no     *)
(* statement touches two of them.  Account rows are the part of the stream *)
(* outside the vault.  An object keeps the open columns the server reads.  *)
(***************************************************************************)
EXTENDS Integers, FiniteSets, Sequences

CONSTANTS
  Member,         \* account keys (Ed25519): authors, pushers and readers
  NoOne,          \* no key: the owner of an unclaimed vault or instance
  InstanceOwner,  \* key of the account owning the instance, or NoOne
  Item,           \* item ids
  Key,            \* idempotency keys
  NoKey,          \* a request without an Idempotency-Key
  Reader,         \* the members whose pulls are followed
  Handler,        \* handler tasks running at the same time
  NoHandler,      \* nobody holds the instance row lock
  Request,        \* the requests the clients may send
  Validate,       \* config: validate_signatures
  PageLimit,      \* rows of a delta page
  IdemTTL,        \* how long an idempotency record is kept
  MaxSend,        \* bound: how often one request may reach the server
  MaxBump,        \* bound: seq-bumps by the operator
  MaxNow,         \* bound: the clock
  MaxSeq          \* bound: the sequence numbers liveness is checked for

Role == {"none", "viewer", "editor", "admin"}
Tag  == {"vault", "item", "manifest", "grant", "audit", "keyset", "account"}

\* The open columns of an object.  id is the item of an item, the recipient
\* of a grant; roles is the member set of a manifest; notAfter = 0: no expiry.
Object == [tag : Tag, author : Member, id : Item \cup Member \cup {NoOne},
           ver : Nat, epoch : Nat, tomb : BOOLEAN,
           roles : [Member -> Role], notAfter : Nat]

Requests == [kind : {"push", "publish"}, who : Member, key : Key \cup {NoKey},
             objs : Seq(Object), revoke : Nat]

ASSUME NoOneAssumption   == NoOne \notin Member /\ InstanceOwner \in Member \cup {NoOne}
ASSUME ReaderAssumption  == Reader \subseteq Member
ASSUME HandlerAssumption == NoHandler \notin Handler
ASSUME KeyAssumption     == NoKey \notin Key
ASSUME RequestAssumption == Request \subseteq Requests
ASSUME BoundAssumption   ==
  /\ Validate \in BOOLEAN /\ PageLimit \in Nat \ {0} /\ IdemTTL \in Nat
  /\ MaxSend \in Nat /\ MaxBump \in Nat /\ MaxNow \in Nat /\ MaxSeq \in Nat

VARIABLES
  db,        \* committed: nextSeq, objects, vault, manifests, grants
  idem,      \* committed table idempotency_keys: key -> request and result
  now,       \* the clock
  lock,      \* who holds the row lock of the instance row
  h,         \* h[p]: the state of handler p
  rd,        \* rd[d]: the pull of device d
  sent,      \* sent[r]: how often request r reached the server
  bumps,     \* seq-bumps done
  delivered, \* history: the sequence numbers device d was handed
  hidden,    \* history: those that were committed but not visible to d
  replies,   \* history: the successful push replies
  cleaned    \* history: the keys whose idempotency record expired

history == <<delivered, hidden, replies, cleaned>>
vars == <<db, idem, now, lock, h, rd, sent, bumps, history>>
-----------------------------------------------------------------------------
(* The database.                                                           *)

EmptyDB ==
  [nextSeq |-> 0, objects |-> << >>,
   vault |-> [owner |-> NoOne, ver |-> 0, epoch |-> 0, tomb |-> FALSE],
   manifests |-> << >>, grants |-> << >>]

Larger(a, b) == IF a >= b THEN a ELSE b

\* f with k mapped to v, whether or not k was in its domain.
Put(f, k, v) == [x \in DOMAIN f \cup {k} |-> IF x = k THEN v ELSE f[x]]

\* MAX(key_epoch) over the manifests: the epoch e is it.
IsLatestEpoch(D, e) == e \in DOMAIN D.manifests /\ \A f \in DOMAIN D.manifests : f <= e

\* A grant row lets its member read: not revoked, not past its deadline.
Active(g, t) == ~g.revoked /\ (g.notAfter = 0 \/ g.notAfter > t)

\* DELTA_VISIBLE: who may see a row of the log.
Visible(D, d, s, t) ==
  LET o == D.objects[s] IN
  \/ o.tag \in {"audit", "keyset"}
  \/ o.tag = "account" /\ o.author = d
  \/ /\ o.tag \in {"vault", "item", "manifest", "grant"}
     /\ \/ D.vault.owner = d
        \/ \E e \in DOMAIN D.manifests :
             /\ IsLatestEpoch(D, e)
             /\ <<d, e>> \in DOMAIN D.grants
             /\ Active(D.grants[<<d, e>>], t)

\* The role an author has at the epoch a record carries; the owner, or
\* anyone while the vault does not exist, is an admin outside the manifest.
AuthorRole(D, e, a) ==
  IF e \in DOMAIN D.manifests /\ D.manifests[e].roles[a] # "none"
  THEN D.manifests[e].roles[a]
  ELSE IF D.vault.owner \in {a, NoOne} THEN "admin" ELSE "none"

\* The claim rule: a vault record by anyone but the owner fails the push.
ClaimConflict(D, o) == o.tag = "vault" /\ D.vault.owner \notin {NoOne, o.author}

MaterializeVault(v, o) ==
  IF v.owner = NoOne
  THEN [owner |-> o.author, ver |-> o.ver, epoch |-> o.epoch, tomb |-> o.tomb]
  ELSE [v EXCEPT !.ver   = Larger(v.ver, o.ver),
                 !.epoch = Larger(v.epoch, o.epoch),
                 !.tomb  = IF o.ver > v.ver THEN o.tomb ELSE v.tomb]

\* Mutant: ON CONFLICT DO UPDATE.
MutantMaterializeManifest(M, o) == Put(M, o.epoch, [author |-> o.author, roles |-> o.roles])
MaterializeManifest(M, o) ==
  IF o.epoch \in DOMAIN M THEN M
  ELSE Put(M, o.epoch, [author |-> o.author, roles |-> o.roles])

\* Mutant: the upsert writes revoked = 0.
MutantMaterializeGrant(G, o) ==
  Put(G, <<o.id, o.epoch>>, [revoked |-> FALSE, notAfter |-> o.notAfter])
\* An upsert that keeps a revocation.
MaterializeGrant(G, o) ==
  LET k == <<o.id, o.epoch>> IN
  Put(G, k, [revoked  |-> k \in DOMAIN G /\ G[k].revoked,
             notAfter |-> o.notAfter])

\* Mutant: obj_version <= the new one, which takes the new row with it.
MutantSuperseded(rows, o, s) ==
  /\ o.tag = "account" /\ rows[s].tag = "account"
  /\ rows[s].author = o.author /\ rows[s].ver <= o.ver
\* Account states older than a newly pushed one of the same author are pruned.
Superseded(rows, o, s) ==
  /\ o.tag = "account" /\ rows[s].tag = "account"
  /\ rows[s].author = o.author /\ rows[s].ver < o.ver

\* Mutant: the base of the allocation is one too high.
MutantInsertInto(D, o) ==
  [D EXCEPT !.nextSeq = @ + 1, !.objects = Put(@, D.nextSeq + 2, o)]
\* insert_object and materialize: the next sequence number gets the object.
InsertInto(D, o) ==
  LET s    == D.nextSeq + 1
      rows == Put(D.objects, s, o)
  IN [nextSeq   |-> s,
      objects   |-> [t \in {u \in DOMAIN rows : ~Superseded(rows, o, u)} |-> rows[t]],
      vault     |-> IF o.tag = "vault" THEN MaterializeVault(D.vault, o) ELSE D.vault,
      manifests |-> IF o.tag = "manifest" THEN MaterializeManifest(D.manifests, o)
                    ELSE D.manifests,
      grants    |-> IF o.tag = "grant" THEN MaterializeGrant(D.grants, o) ELSE D.grants]

\* The rows grants_publish appends again: per subject the row with the highest
\* sequence number, the vault record, older manifests and undeleted items.
SameSubject(a, b) ==
  /\ a.tag = b.tag
  /\ a.tag = "manifest" => a.epoch = b.epoch
  /\ a.tag = "item" => a.id = b.id
ReemitRows(D, e) ==
  {s \in DOMAIN D.objects :
     LET o == D.objects[s] IN
     /\ \/ o.tag = "vault"
        \/ o.tag = "manifest" /\ o.epoch < e
        \/ o.tag = "item" /\ ~o.tomb
     /\ \A t \in DOMAIN D.objects : SameSubject(D.objects[t], o) => t <= s}

\* ORDER BY vault, manifests, items, then server_seq.
Class(o) == CASE o.tag = "vault" -> 0 [] o.tag = "manifest" -> 1 [] OTHER -> 2
EmittedBefore(D, s, t) ==
  LET cs == Class(D.objects[s])  ct == Class(D.objects[t]) IN
  cs < ct \/ (cs = ct /\ s <= t)

\* UPDATE membership_grants SET revoked = 1 for one epoch.
RevokeEpoch(G, e) ==
  [k \in DOMAIN G |-> IF k[2] = e THEN [G[k] EXCEPT !.revoked = TRUE] ELSE G[k]]
-----------------------------------------------------------------------------
(* Handlers.                                                               *)

\* Where a handler stands: its request and arrival time, its view of the
\* database in the transaction, the base of its sequence numbers, the objects
\* still to insert and the rows still to emit again.
Handling(pc, req, at, tx, base, todo, reemit) ==
  [pc |-> pc, req |-> req, at |-> at, tx |-> tx, base |-> base, todo |-> todo,
   reemit |-> reemit]
Idle == Handling("idle", NoKey, 0, EmptyDB, 0, << >>, {})
InTx(p) == h[p].pc \in {"open", "reemit"}

\* Rows a device could not see when they were committed, or ceased to see.
Observe(D, t) ==
  hidden' = [d \in Reader |->
               hidden[d] \cup {s \in DOMAIN D.objects : ~Visible(D, d, s, t)}]

\* write_accept and the unconditional checks of the push handler, on the
\* state committed when the request is examined.
ObjectAccepted(D, who, o) ==
  CASE o.tag \in {"vault", "item"} ->
         Validate => AuthorRole(D, o.epoch, o.author) \in {"editor", "admin"}
    [] o.tag \in {"manifest", "grant"} -> AuthorRole(D, o.epoch, o.author) = "admin"
    [] o.tag = "audit" -> \/ InstanceOwner = o.author
                          \/ InstanceOwner = NoOne /\ ~Validate
    [] o.tag = "account" -> o.author = who
    [] o.tag = "keyset" -> TRUE

PushAccepted(D, r) == \A i \in DOMAIN r.objs : ObjectAccepted(D, r.who, r.objs[i])

\* The checks of the grants/publish handler: a manifest, then grants only,
\* published by an admin who may touch the vault.
PublishAccepted(D, r) ==
  /\ r.objs # << >> /\ r.objs[1].tag = "manifest"
  /\ \A i \in DOMAIN r.objs : i > 1 => r.objs[i].tag = "grant"
  /\ r.revoke # r.objs[1].epoch
  /\ D.vault.owner \in {NoOne, r.who}
  /\ AuthorRole(D, r.objs[1].epoch, r.objs[1].author) = "admin"

\* A request arrives and passes its checks (a refused one changes nothing).
Receive(p, r) ==
  /\ h[p].pc = "idle"
  /\ sent[r] < MaxSend
  /\ \/ r.kind = "push" /\ PushAccepted(db, r)
     \/ r.kind = "publish" /\ PublishAccepted(db, r)
  /\ h' = [h EXCEPT ![p] = Handling(IF r.kind = "push" THEN "lookup" ELSE "begin",
                                    r, now, EmptyDB, 0, << >>, {})]
  /\ sent' = [sent EXCEPT ![r] = @ + 1]
  /\ UNCHANGED <<db, idem, now, lock, rd, bumps, history>>

\* idem_result: the stored answer for the same principal and body, else 409.
IdemReply(r) ==
  LET rec == idem[r.key] IN
  IF rec.who = r.who /\ rec.objs = r.objs
  THEN replies \cup {[key |-> r.key, who |-> r.who, objs |-> r.objs, base |-> rec.base]}
  ELSE replies

\* The fast path: the key is already recorded.
LookupHit(p) ==
  /\ h[p].pc = "lookup"
  /\ h[p].req.key \in DOMAIN idem
  /\ replies' = IdemReply(h[p].req)
  /\ h' = [h EXCEPT ![p] = Idle]
  /\ UNCHANGED <<db, idem, now, lock, rd, sent, bumps, delivered, hidden, cleaned>>

LookupMiss(p) ==
  /\ h[p].pc = "lookup"
  /\ h[p].req.key \notin DOMAIN idem
  /\ h' = [h EXCEPT ![p] = Handling("begin", h[p].req, h[p].at, EmptyDB, 0, << >>, {})]
  /\ UNCHANGED <<db, idem, now, lock, rd, sent, bumps, history>>

\* Mutant: next_seq is read and written back later, without the row lock.
MutantAllocSeqs(p) ==
  /\ h[p].pc = "begin"
  /\ lock' = p
  /\ h' = [h EXCEPT ![p] = Handling("open", h[p].req, h[p].at, db, db.nextSeq,
                                    h[p].req.objs, {})]
  /\ UNCHANGED <<db, idem, now, rd, sent, bumps, history>>

\* alloc_seqs: the row lock is taken, the sequence continues the committed one.
AllocSeqs(p) ==
  /\ h[p].pc = "begin"
  /\ lock = NoHandler
  /\ lock' = p
  /\ h' = [h EXCEPT ![p] = Handling("open", h[p].req, h[p].at, db, db.nextSeq,
                                    h[p].req.objs, {})]
  /\ UNCHANGED <<db, idem, now, rd, sent, bumps, history>>

InsertObject(p) ==
  /\ h[p].pc = "open" /\ h[p].todo # << >>
  /\ ~ClaimConflict(h[p].tx, Head(h[p].todo))
  /\ h' = [h EXCEPT ![p] =
             Handling("open", h[p].req, h[p].at, InsertInto(h[p].tx, Head(h[p].todo)),
                      h[p].base, Tail(h[p].todo), {})]
  /\ UNCHANGED <<db, idem, now, lock, rd, sent, bumps, history>>

\* The transaction ends without an effect: a vault claimed by another author,
\* or a failure of the process, the database or the connection.
Rollback(p) ==
  /\ InTx(p)
  /\ h' = [h EXCEPT ![p] = Idle]
  /\ lock' = NoHandler
  /\ UNCHANGED <<db, idem, now, rd, sent, bumps, history>>

\* The unique key of idempotency_keys decides between two pushes with one key.
LoseKeyRace(p) ==
  /\ h[p].pc = "open" /\ h[p].todo = << >> /\ h[p].req.kind = "push"
  /\ h[p].req.key \in DOMAIN idem
  /\ replies' = IdemReply(h[p].req)
  /\ h' = [h EXCEPT ![p] = Idle]
  /\ lock' = NoHandler
  /\ UNCHANGED <<db, idem, now, rd, sent, bumps, delivered, hidden, cleaned>>

\* Mutant: the outcome of the insert into idempotency_keys is ignored.
MutantCommitPush(p) ==
  LET r == h[p].req IN
  /\ h[p].pc = "open" /\ h[p].todo = << >> /\ r.kind = "push"
  /\ db' = h[p].tx
  /\ idem' = IF r.key \in DOMAIN idem \cup {NoKey} THEN idem
             ELSE Put(idem, r.key, [who |-> r.who, objs |-> r.objs,
                                    base |-> h[p].base, created |-> h[p].at])
  /\ replies' = replies \cup {[key |-> r.key, who |-> r.who, objs |-> r.objs,
                               base |-> h[p].base]}
  /\ Observe(h[p].tx, now)
  /\ h' = [h EXCEPT ![p] = Idle]
  /\ lock' = NoHandler
  /\ UNCHANGED <<now, rd, sent, bumps, delivered, cleaned>>

CommitPush(p) ==
  LET r == h[p].req IN
  /\ h[p].pc = "open" /\ h[p].todo = << >> /\ r.kind = "push"
  /\ r.key \notin DOMAIN idem
  /\ db' = h[p].tx
  /\ idem' = IF r.key = NoKey THEN idem
             ELSE Put(idem, r.key, [who |-> r.who, objs |-> r.objs,
                                    base |-> h[p].base, created |-> h[p].at])
  /\ replies' = replies \cup {[key |-> r.key, who |-> r.who, objs |-> r.objs,
                               base |-> h[p].base]}
  /\ Observe(h[p].tx, now)
  /\ h' = [h EXCEPT ![p] = Idle]
  /\ lock' = NoHandler
  /\ UNCHANGED <<now, rd, sent, bumps, delivered, cleaned>>

\* grants_publish, second part: the current vault set goes out again on fresh
\* sequence numbers, for a member whose cursor is already past it.
BeginReemit(p) ==
  /\ h[p].pc = "open" /\ h[p].todo = << >> /\ h[p].req.kind = "publish"
  /\ h' = [h EXCEPT ![p] =
             Handling("reemit", h[p].req, h[p].at, h[p].tx, h[p].base, << >>,
                      ReemitRows(h[p].tx, h[p].req.objs[1].epoch))]
  /\ UNCHANGED <<db, idem, now, lock, rd, sent, bumps, history>>

ReemitObject(p) ==
  /\ h[p].pc = "reemit"
  /\ \E s \in h[p].reemit :
       /\ \A t \in h[p].reemit : EmittedBefore(h[p].tx, s, t)
       /\ h' = [h EXCEPT ![p] =
                  Handling("reemit", h[p].req, h[p].at, InsertInto(h[p].tx, h[p].tx.objects[s]),
                           h[p].base, << >>, h[p].reemit \ {s})]
  /\ UNCHANGED <<db, idem, now, lock, rd, sent, bumps, history>>

\* grants_publish, last: the old epoch is read-denied, and all of it commits.
CommitPublish(p) ==
  LET r == h[p].req
      D == IF r.revoke = 0 THEN h[p].tx
           ELSE [h[p].tx EXCEPT !.grants = RevokeEpoch(@, r.revoke)]
  IN
  /\ h[p].pc = "reemit" /\ h[p].reemit = {}
  /\ db' = D
  /\ Observe(D, now)
  /\ h' = [h EXCEPT ![p] = Idle]
  /\ lock' = NoHandler
  /\ UNCHANGED <<idem, now, rd, sent, bumps, delivered, replies, cleaned>>
-----------------------------------------------------------------------------
(* The operator, the clock and the cleanup job.                            *)

\* seq-bump raises next_seq; the statement needs the instance row.
SeqBump ==
  /\ bumps < MaxBump
  /\ lock = NoHandler
  /\ db' = [db EXCEPT !.nextSeq = @ + 1]
  /\ bumps' = bumps + 1
  /\ UNCHANGED <<idem, now, lock, h, rd, sent, history>>

Tick ==
  /\ now < MaxNow
  /\ now' = now + 1
  /\ Observe(db, now + 1)
  /\ UNCHANGED <<db, idem, lock, h, rd, sent, bumps, delivered, replies, cleaned>>

\* cleanup_expired: the idempotency records that outlived their TTL go.
CleanupExpired ==
  LET dead == {k \in DOMAIN idem : idem[k].created + IdemTTL < now} IN
  /\ dead # {}
  /\ idem' = [k \in DOMAIN idem \ dead |-> idem[k]]
  /\ cleaned' = cleaned \cup dead
  /\ UNCHANGED <<db, now, lock, h, rd, sent, bumps, delivered, hidden, replies>>

\* claim_vault inserts the vault row outside the instance lock.  An open
\* transaction reads it from then on; one that already inserted the row makes
\* the claim wait and fail.
ClaimVault(m) ==
  LET row == [owner |-> m, ver |-> 0, epoch |-> 0, tomb |-> FALSE]
      D   == [db EXCEPT !.vault = row]
  IN
  /\ db.vault.owner = NoOne
  /\ \A p \in Handler : h[p].tx.vault.owner = NoOne
  /\ db' = D
  /\ h' = [p \in Handler |-> IF InTx(p) THEN [h[p] EXCEPT !.tx = [@ EXCEPT !.vault = row]]
                             ELSE h[p]]
  /\ Observe(D, now)
  /\ UNCHANGED <<idem, now, lock, rd, sent, bumps, delivered, replies, cleaned>>
-----------------------------------------------------------------------------
(* Readers: GET /v1/sync/delta and the client's cursor.                    *)

\* cursor: the client's stored cursor; cur: where the transport stands; then
\* the plan of the page under way: last row, row count, whether more follow,
\* and the time the request arrived.
Resting(cursor, cur) ==
  [cursor |-> cursor, cur |-> cur, upto |-> 0, count |-> 0, more |-> FALSE, at |-> 0]

VisibleAfter(d, c, t) == {s \in DOMAIN db.objects : s > c /\ Visible(db, d, s, t)}

\* The first n rows of V in sequence order, or all of V if it has fewer.
IsFirst(P, V, n) ==
  /\ P \subseteq V
  /\ \A s \in P, t \in V \ P : s < t
  /\ \/ Cardinality(P) = n
     \/ P = V /\ Cardinality(P) <= n

IsLast(s, P) == s \in P /\ \A t \in P : t <= s

\* First read: the sizes.  A page is cut at PageLimit rows and at a byte
\* budget that never cuts the first row: any length up to the limit.
PlanPage(d) ==
  LET V == VisibleAfter(d, rd[d].cur, now) IN
  /\ rd[d].count = 0
  /\ \E n \in 1..PageLimit, P \in (SUBSET V) \ {{}} :
       /\ IsFirst(P, V, n)
       /\ \E last \in P :
            /\ IsLast(last, P)
            /\ rd' = [rd EXCEPT ![d] =
                 [cursor |-> rd[d].cursor, cur |-> rd[d].cur, upto |-> last,
                  count |-> Cardinality(P), more |-> P # V, at |-> now]]
  /\ UNCHANGED <<db, idem, now, lock, h, sent, bumps, history>>

\* next_cursor of a page that was planned up to rd[d].upto and returned P.
IsNextCursor(c, P, d) ==
  IF Cardinality(P) < rd[d].count THEN c = rd[d].upto ELSE IsLast(c, P)

\* The rows of the planned range at the second read: visibility is evaluated
\* again, for the time of the request.
InRange(d) == {s \in VisibleAfter(d, rd[d].cur, rd[d].at) : s <= rd[d].upto}

\* delta_page, second read, and the client's use of it.  A page with rows moves
\* the stored cursor to the last of them; on a page without rows the transport
\* walks on from next_cursor while more follow.
ReadPage(d) ==
  /\ rd[d].count > 0
  /\ \E P \in SUBSET InRange(d), next \in 1..rd[d].upto :
       /\ IsFirst(P, InRange(d), rd[d].count)
       /\ IsNextCursor(next, P, d)
       /\ delivered' = [delivered EXCEPT ![d] = @ \cup P]
       /\ \E last \in P \cup {rd[d].cursor} :
            /\ IsLast(last, P \cup {rd[d].cursor})
            /\ rd' = [rd EXCEPT ![d] =
                 Resting(last, IF P = {} /\ (rd[d].more \/ next < rd[d].upto)
                               THEN next ELSE last)]
  /\ UNCHANGED <<db, idem, now, lock, h, sent, bumps, hidden, replies, cleaned>>

\* Mutant: the cursor was stored before the page arrived.
MutantEndPull(d) ==
  /\ rd[d].count > 0
  /\ rd' = [rd EXCEPT ![d] = Resting(rd[d].upto, rd[d].upto)]
  /\ UNCHANGED <<db, idem, now, lock, h, sent, bumps, history>>

\* The page is lost, or the walk ends: the pull resumes from the stored cursor.
EndPull(d) ==
  /\ rd[d].count > 0 \/ rd[d].cur # rd[d].cursor
  /\ rd' = [rd EXCEPT ![d] = Resting(rd[d].cursor, rd[d].cursor)]
  /\ UNCHANGED <<db, idem, now, lock, h, sent, bumps, history>>
-----------------------------------------------------------------------------
Init ==
  /\ db = EmptyDB /\ idem = << >> /\ now = 0 /\ lock = NoHandler
  /\ h = [p \in Handler |-> Idle]
  /\ rd = [d \in Reader |-> Resting(0, 0)]
  /\ sent = [r \in Request |-> 0] /\ bumps = 0
  /\ delivered = [d \in Reader |-> {}] /\ hidden = [d \in Reader |-> {}]
  /\ replies = {} /\ cleaned = {}

HandlerStep(p) ==
  \/ LookupHit(p) \/ LookupMiss(p) \/ AllocSeqs(p) \/ InsertObject(p)
  \/ LoseKeyRace(p) \/ CommitPush(p) \/ BeginReemit(p) \/ ReemitObject(p)
  \/ CommitPublish(p)

Next ==
  \/ \E p \in Handler : \E r \in Request : Receive(p, r)
  \/ \E p \in Handler : HandlerStep(p) \/ Rollback(p)
  \/ \E d \in Reader : PlanPage(d) \/ ReadPage(d) \/ EndPull(d)
  \/ \E m \in Member : ClaimVault(m)
  \/ SeqBump \/ Tick \/ CleanupExpired

Spec == Init /\ [][Next]_vars
-----------------------------------------------------------------------------
(* Properties.                                                             *)

\* A database has the shape the schema gives it, its rows are numbered within
\* the assigned sequence, and its derived tables carry legal values.
IsDB(D) ==
  /\ D = [nextSeq |-> D.nextSeq, objects |-> D.objects, vault |-> D.vault,
          manifests |-> D.manifests, grants |-> D.grants]
  /\ D.nextSeq \in Nat
  /\ DOMAIN D.objects \subseteq 1..D.nextSeq
  /\ \A s \in DOMAIN D.objects : D.objects[s] \in Object
  /\ D.vault \in [owner : Member \cup {NoOne}, ver : Nat, epoch : Nat, tomb : BOOLEAN]
  /\ \A e \in DOMAIN D.manifests :
       e \in Nat /\ D.manifests[e] \in [author : Member, roles : [Member -> Role]]
  /\ \A k \in DOMAIN D.grants : D.grants[k] \in [revoked : BOOLEAN, notAfter : Nat]

HandlerState(x) ==
  /\ x = Handling(x.pc, x.req, x.at, x.tx, x.base, x.todo, x.reemit)
  /\ x.pc \in {"idle", "lookup", "begin", "open", "reemit"}
  /\ x.pc # "idle" => x.req \in Request
  /\ x.at \in Nat /\ IsDB(x.tx) /\ x.base \in Nat
  /\ x.todo \in Seq(Object)
  /\ x.pc # "reemit" => x.reemit = {}
  /\ \A s \in x.reemit : s \in DOMAIN x.tx.objects /\ x.tx.objects[s].tag # "account"

ReaderState == [cursor : Nat, cur : Nat, upto : Nat, count : Nat, more : BOOLEAN, at : Nat]

\* Type invariant: every table, transaction, handler and reader is well formed.
TypeOK ==
  /\ IsDB(db)
  /\ \A k \in DOMAIN idem : k \in Key /\ idem[k].base \in Nat /\ idem[k].created \in Nat
  /\ now \in Nat /\ bumps \in Nat
  /\ lock \in Handler \cup {NoHandler}
  /\ DOMAIN h = Handler /\ \A p \in Handler : HandlerState(h[p])
  /\ rd \in [Reader -> ReaderState]
  /\ sent \in [Request -> Nat]
  /\ delivered \in [Reader -> SUBSET Nat] /\ hidden \in [Reader -> SUBSET Nat]
  /\ cleaned \subseteq Key

\* No row is skipped: a row of the log at or before a device's stored cursor
\* was handed to that device, or was hidden from it at some time since it was
\* committed.  It rests on rows becoming visible in sequence order (the row
\* lock of alloc_seqs spans the whole transaction), on the two-read page of
\* delta_page and on the client moving its cursor to the last row received.
NoSkippedRow ==
  \A d \in Reader, s \in DOMAIN db.objects :
    s <= rd[d].cursor => s \in delivered[d] \cup hidden[d]

\* What PageComplete says of one step.
PageCompleteStep ==
  \A d \in Reader : rd'[d].cursor # rd[d].cursor =>
    \A s \in DOMAIN db.objects :
      rd[d].cur < s /\ s <= rd'[d].cursor /\ Visible(db, d, s, rd[d].at)
        => s \in delivered'[d]

\* A page is complete: when a device's cursor moves, every row up to the new
\* cursor that the request could see at the second read was handed over, the
\* rows that only became visible between the two reads of delta_page included.
PageComplete == [][PageCompleteStep]_vars

\* Replays agree: as long as its idempotency record was never expired, a key
\* is answered with one result, for one principal and one body, however often,
\* in whatever order and however concurrently the push reaches the server.
ReplayStable ==
  \A a, b \in replies : a.key = b.key /\ a.key \notin cleaned \cup {NoKey} => a = b

\* What a push acknowledged stays in the log at the sequence numbers it was
\* told, except an account state that a newer one of its author replaced.
AckedDurable ==
  \A a \in replies : \A i \in DOMAIN a.objs :
    LET s == a.base + i  o == a.objs[i] IN
    \/ s \in DOMAIN db.objects /\ db.objects[s] = o
    \/ /\ o.tag = "account"
       /\ \E t \in DOMAIN db.objects : /\ db.objects[t].tag = "account"
                                       /\ db.objects[t].author = o.author
                                       /\ db.objects[t].ver > o.ver

Rows(tag) == {s \in DOMAIN db.objects : db.objects[s].tag = tag}

\* The vaults row is the snapshot of the log: the highest version and epoch of
\* any vault record, and the tombstone of the record that first reached that
\* version; a late delete with an old version never tombstones a live vault.
SnapshotLatest ==
  \A s \in Rows("vault") :
    LET o == db.objects[s] IN
    /\ db.vault.owner = o.author
    /\ o.ver <= db.vault.ver /\ o.epoch <= db.vault.epoch
    /\ o.ver = db.vault.ver =>
         \E t \in Rows("vault") : /\ t <= s
                                  /\ db.objects[t].ver = o.ver
                                  /\ db.objects[t].tomb = db.vault.tomb

\* One manifest per epoch, the first in the sequence: a second manifest of an
\* epoch stays in the log but never decides who reads or writes.
ManifestFirstWins ==
  /\ DOMAIN db.manifests = {db.objects[s].epoch : s \in Rows("manifest")}
  /\ \A e \in DOMAIN db.manifests :
       \E s \in Rows("manifest") :
         /\ db.objects[s].epoch = e
         /\ \A t \in Rows("manifest") : db.objects[t].epoch = e => s <= t
         /\ db.manifests[e] = [author |-> db.objects[s].author,
                               roles |-> db.objects[s].roles]

\* What RevokedForever says of one step.
RevokedForeverStep ==
  \A k \in DOMAIN db.grants :
    db.grants[k].revoked => k \in DOMAIN db'.grants /\ db'.grants[k].revoked

\* A revocation is permanent: no push, publish, re-emission or cleanup gives a
\* member back the read access of an epoch that was revoked.
RevokedForever == [][RevokedForeverStep]_vars

\* A device is a member through the grant of the latest epoch, and has pulled
\* everything it may see.
CaughtUp(d) ==
  /\ rd[d].count = 0 /\ VisibleAfter(d, rd[d].cursor, now) = {}
  /\ \E e \in DOMAIN db.manifests : /\ IsLatestEpoch(db, e) /\ <<d, e>> \in DOMAIN db.grants
                                    /\ Active(db.grants[<<d, e>>], now)

\* Re-emission gives a new member the CURRENT vault set: once caught up it was
\* handed every live item at the highest version in the log, although its
\* cursor had passed that row before it was granted.  It holds as long as the
\* versions of an item reach the server in order.
ReemitCurrent ==
  \A d \in Reader : CaughtUp(d) =>
    \A s \in Rows("item") :
      LET o == db.objects[s] IN
      /\ ~o.tomb
      /\ \A t \in Rows("item") : db.objects[t].id = o.id => db.objects[t].ver <= o.ver
      => \E t \in delivered[d] : /\ t \in Rows("item")
                                 /\ db.objects[t].id = o.id /\ db.objects[t].ver = o.ver
-----------------------------------------------------------------------------
(* Fairness: a client keeps polling, and not every page is lost.           *)
FairSpec ==
  /\ Spec
  /\ \A d \in Reader : WF_vars(PlanPage(d)) /\ SF_vars(ReadPage(d))

\* Every row a device may read reaches it, or was hidden from it or compacted:
\* an empty page, a shrunk page or a lost page never ends the pull for good.
CatchesUp ==
  \A d \in Reader : \A s \in 1..MaxSeq :
    (s \in DOMAIN db.objects /\ Visible(db, d, s, now))
      ~> (s \in delivered[d] \cup hidden[d] \/ s \notin DOMAIN db.objects)
=============================================================================

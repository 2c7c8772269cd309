-------------------------- MODULE ServerSyncProofs --------------------------
(***************************************************************************)
(* Proofs about ServerSync, for every set of members, handlers, readers    *)
(* and requests and every page size.                                       *)
(*                                                                         *)
(* The main result is NoSkippedRow.  It is not inductive: that a committed *)
(* row never appears behind a cursor needs the lock discipline of          *)
(* alloc_seqs (LockInv), that a page never passes a row it did not return  *)
(* needs the bounds on the two-read page (CursorInv) and the history of    *)
(* what was hidden (HiddenInv), and the walk over empty pages moves the    *)
(* transport's position ahead of the stored cursor (WalkInv).              *)
(*                                                                         *)
(* Then, from the same invariant: revocations and replies are stable,      *)
(* what was acknowledged stays (TxInv, AnswerInv), pages are complete, and *)
(* manifests and the vaults row follow from the log (ManifestInv,          *)
(* SnapshotInv).                                                           *)
(***************************************************************************)
EXTENDS ServerSync, FiniteSetTheorems, TLAPS

\* Whoever has an open transaction holds the row lock; its view of the log
\* has, below the committed sequence, only committed rows.
LockInv ==
  \A p \in Handler :
    /\ InTx(p) => lock = p
    /\ InTx(p) => db.nextSeq <= h[p].tx.nextSeq
    /\ InTx(p) => \A s \in DOMAIN h[p].tx.objects :
                    s <= db.nextSeq => s \in DOMAIN db.objects

\* A reader never stands beyond the committed sequence.
CursorInv ==
  \A d \in Reader :
    /\ rd[d].cursor <= rd[d].cur /\ rd[d].cur <= db.nextSeq
    /\ rd[d].upto <= db.nextSeq /\ rd[d].at <= now
    /\ rd[d].count > 0 => rd[d].cur <= rd[d].upto

\* The history of hidden rows is complete.
HiddenInv ==
  \A d \in Reader : \A s \in DOMAIN db.objects :
    ~Visible(db, d, s, now) => s \in hidden[d]

\* NoSkippedRow at the position of the transport.
WalkInv ==
  \A d \in Reader : \A s \in DOMAIN db.objects :
    s <= rd[d].cur => s \in delivered[d] \cup hidden[d]

IInv == TypeOK /\ LockInv /\ CursorInv /\ HiddenInv /\ WalkInv

-----------------------------------------------------------------------------
(* The operators of the database.                                          *)

VaultRow == [owner : Member \cup {NoOne}, ver : Nat, epoch : Nat, tomb : BOOLEAN]
GrantRow == [revoked : BOOLEAN, notAfter : Nat]

\* Materializing a vault record gives a legal vaults row (materialize_vault).
LEMMA VaultRowType ==
  ASSUME NEW v \in VaultRow, NEW o \in Object
  PROVE  MaterializeVault(v, o) \in VaultRow
BY DEF VaultRow, Object, MaterializeVault, Larger

\* Materializing a grant gives a legal grant row and touches no other
\* (the ACL upsert of materialize).
LEMMA GrantRowType ==
  ASSUME NEW G, \A k \in DOMAIN G : G[k] \in GrantRow, NEW o \in Object
  PROVE  \A k \in DOMAIN MaterializeGrant(G, o) : MaterializeGrant(G, o)[k] \in GrantRow
BY DEF GrantRow, Object, MaterializeGrant, Put

\* Materializing a manifest, first one of its epoch or not, gives legal rows
\* (ON CONFLICT DO NOTHING of materialize).
LEMMA ManifestRowType ==
  ASSUME NEW M, NEW o \in Object,
         \A e \in DOMAIN M : e \in Nat /\ M[e] \in [author : Member, roles : [Member -> Role]]
  PROVE  \A e \in DOMAIN MaterializeManifest(M, o) :
           /\ e \in Nat
           /\ MaterializeManifest(M, o)[e] \in [author : Member, roles : [Member -> Role]]
BY DEF Object, MaterializeManifest, Put

\* The rows after an insertion: the new number is nextSeq + 1, every other row
\* was there before, and only an account state removes rows.
LEMMA InsertRows ==
  ASSUME NEW D, IsDB(D), NEW o \in Object
  PROVE  /\ InsertInto(D, o).nextSeq = D.nextSeq + 1
         /\ DOMAIN InsertInto(D, o).objects \subseteq DOMAIN D.objects \cup {D.nextSeq + 1}
         /\ \A s \in DOMAIN InsertInto(D, o).objects :
              InsertInto(D, o).objects[s] = IF s = D.nextSeq + 1 THEN o ELSE D.objects[s]
         /\ o.tag # "account" =>
              DOMAIN InsertInto(D, o).objects = DOMAIN D.objects \cup {D.nextSeq + 1}
<1> DEFINE s == D.nextSeq + 1
           rows == Put(D.objects, s, o)
           kept == {u \in DOMAIN rows : ~Superseded(rows, o, u)}
<1>1. InsertInto(D, o).nextSeq = s
  BY DEF InsertInto
<1>2. InsertInto(D, o).objects = [t \in kept |-> rows[t]]
  BY DEF InsertInto
<1>3. DOMAIN rows = DOMAIN D.objects \cup {s}
  BY DEF Put
<1>4. \A t \in DOMAIN rows : rows[t] = IF t = s THEN o ELSE D.objects[t]
  BY DEF Put
<1>5. o.tag # "account" => kept = DOMAIN rows
  BY DEF Superseded
<1> QED
  BY <1>1, <1>2, <1>3, <1>4, <1>5

\* insert_object and materialize keep the database well formed.
LEMMA InsertIsDB ==
  ASSUME NEW D, IsDB(D), NEW o \in Object
  PROVE  IsDB(InsertInto(D, o))
<1> DEFINE I == InsertInto(D, o)
<1>1. I = [nextSeq |-> I.nextSeq, objects |-> I.objects, vault |-> I.vault,
           manifests |-> I.manifests, grants |-> I.grants]
  BY DEF InsertInto
<1>2. /\ I.nextSeq = D.nextSeq + 1 /\ D.nextSeq \in Nat
      /\ DOMAIN I.objects \subseteq DOMAIN D.objects \cup {D.nextSeq + 1}
      /\ \A s \in DOMAIN I.objects : I.objects[s] = IF s = D.nextSeq + 1 THEN o ELSE D.objects[s]
      /\ DOMAIN D.objects \subseteq 1..D.nextSeq
      /\ \A s \in DOMAIN D.objects : D.objects[s] \in Object
  BY InsertRows DEF IsDB
<1>3. I.nextSeq \in Nat /\ DOMAIN I.objects \subseteq 1..I.nextSeq
  BY <1>2
<1>4. \A s \in DOMAIN I.objects : I.objects[s] \in Object
  BY <1>2
<1>5. I.vault \in VaultRow
  BY VaultRowType DEF InsertInto, IsDB, VaultRow
<1>6. \A e \in DOMAIN I.manifests :
        e \in Nat /\ I.manifests[e] \in [author : Member, roles : [Member -> Role]]
  BY ManifestRowType DEF InsertInto, IsDB
<1>7. \A k \in DOMAIN I.grants : I.grants[k] \in GrantRow
  BY GrantRowType DEF InsertInto, IsDB, GrantRow
<1> QED
  BY <1>1, <1>3, <1>4, <1>5, <1>6, <1>7 DEF IsDB, VaultRow, GrantRow

\* Time only takes visibility away (not_after): what a later moment may see,
\* an earlier one could.
LEMMA VisibleEarlier ==
  ASSUME NEW D, IsDB(D), NEW d, NEW s, NEW t \in Nat, NEW u \in Nat, u <= t,
         Visible(D, d, s, t)
  PROVE  Visible(D, d, s, u)
<1>1. \A k \in DOMAIN D.grants : Active(D.grants[k], t) => Active(D.grants[k], u)
  BY DEF IsDB, Active
<1> QED
  BY <1>1 DEF Visible

\* An empty database is well formed.
LEMMA EmptyIsDB == IsDB(EmptyDB)
BY NoOneAssumption DEF IsDB, EmptyDB
-----------------------------------------------------------------------------
(* Type correctness.                                                       *)

\* The part of TypeOK that speaks of the handlers.
HandlersOK == DOMAIN h = Handler /\ \A p \in Handler : HandlerState(h[p])

\* The fields of a handler state are its arguments.
LEMMA HandlingFields ==
  ASSUME NEW c, NEW r, NEW t, NEW D, NEW n, NEW q, NEW R
  PROVE  LET x == Handling(c, r, t, D, n, q, R) IN
         /\ x.pc = c /\ x.req = r /\ x.at = t /\ x.tx = D /\ x.base = n
         /\ x.todo = q /\ x.reemit = R
BY DEF Handling

\* A record built by Handling from legal parts is a legal handler state.
LEMMA HandlingState ==
  ASSUME NEW c \in {"idle", "lookup", "begin", "open", "reemit"},
         NEW r, c # "idle" => r \in Request,
         NEW t \in Nat, NEW D, IsDB(D), NEW n \in Nat, NEW q \in Seq(Object),
         NEW R, c # "reemit" => R = {},
         \A s \in R : s \in DOMAIN D.objects /\ D.objects[s].tag # "account"
  PROVE  HandlerState(Handling(c, r, t, D, n, q, R))
<1> DEFINE x == Handling(c, r, t, D, n, q, R)
<1>1. /\ x.pc = c /\ x.req = r /\ x.at = t /\ x.tx = D /\ x.base = n
      /\ x.todo = q /\ x.reemit = R
  BY HandlingFields
<1>2. x = Handling(x.pc, x.req, x.at, x.tx, x.base, x.todo, x.reemit)
  BY <1>1
<1> HIDE DEF x
<1> QED BY <1>1, <1>2 DEF HandlerState

\* The empty list is a list of objects.
LEMMA EmptyTodo == << >> \in Seq(Object)
OBVIOUS

\* An idle handler is a legal handler state.
LEMMA IdleState == HandlerState(Idle)
BY EmptyIsDB, EmptyTodo, HandlingState DEF Idle

\* An action that moves one handler to a legal state keeps all of them legal.
LEMMA OneHandlerMoves ==
  ASSUME HandlersOK, NEW p \in Handler, NEW x, HandlerState(x), h' = [h EXCEPT ![p] = x]
  PROVE  HandlersOK'
BY DEF HandlersOK, HandlerState

\* Accepting a request leaves every handler legal (push and grants/publish).
LEMMA ReceiveHandlers ==
  ASSUME TypeOK, NEW p \in Handler, NEW r \in Request, Receive(p, r)
  PROVE  HandlersOK'
<1> DEFINE x == Handling(IF r.kind = "push" THEN "lookup" ELSE "begin",
                         r, now, EmptyDB, 0, << >>, {})
<1>1. HandlerState(x)
  BY EmptyIsDB, EmptyTodo, HandlingState DEF TypeOK
<1> QED
  BY <1>1, OneHandlerMoves DEF Receive, TypeOK, HandlersOK

\* A miss in the idempotency table leaves every handler legal.
LEMMA LookupMissHandlers ==
  ASSUME TypeOK, NEW p \in Handler, LookupMiss(p)
  PROVE  HandlersOK'
<1>1. h[p].req \in Request /\ h[p].at \in Nat
  BY DEF TypeOK, HandlerState, LookupMiss
<1>2. HandlerState(Handling("begin", h[p].req, h[p].at, EmptyDB, 0, << >>, {}))
  BY <1>1, EmptyIsDB, EmptyTodo, HandlingState
<1> QED
  BY <1>2, OneHandlerMoves DEF LookupMiss, TypeOK, HandlersOK

\* Opening a transaction on the committed database leaves every handler legal.
LEMMA AllocSeqsHandlers ==
  ASSUME TypeOK, NEW p \in Handler, AllocSeqs(p)
  PROVE  HandlersOK'
<1>1. h[p].req \in Request /\ h[p].at \in Nat /\ IsDB(db) /\ db.nextSeq \in Nat
  BY DEF TypeOK, HandlerState, AllocSeqs, IsDB
<1>2. h[p].req.objs \in Seq(Object)
  BY <1>1, RequestAssumption DEF Requests
<1>3. HandlerState(Handling("open", h[p].req, h[p].at, db, db.nextSeq, h[p].req.objs, {}))
  BY <1>1, <1>2, HandlingState
<1> QED
  BY <1>3, OneHandlerMoves DEF AllocSeqs, TypeOK, HandlersOK

\* Inserting the next object (insert_object) leaves every handler legal.
LEMMA InsertObjectHandlers ==
  ASSUME TypeOK, NEW p \in Handler, InsertObject(p)
  PROVE  HandlersOK'
<1> DEFINE o == Head(h[p].todo)
<1>1. /\ h[p].req \in Request /\ h[p].at \in Nat /\ IsDB(h[p].tx) /\ h[p].base \in Nat
      /\ h[p].todo \in Seq(Object) /\ h[p].todo # << >>
  BY DEF TypeOK, HandlerState, InsertObject
<1>2. o \in Object /\ Tail(h[p].todo) \in Seq(Object)
  BY <1>1
<1>3. IsDB(InsertInto(h[p].tx, o))
  BY <1>1, <1>2, InsertIsDB
<1>4. HandlerState(Handling("open", h[p].req, h[p].at, InsertInto(h[p].tx, o), h[p].base,
                            Tail(h[p].todo), {}))
  BY <1>1, <1>2, <1>3, HandlingState
<1> QED
  BY <1>4, OneHandlerMoves DEF InsertObject, TypeOK, HandlersOK

\* Selecting the rows to re-emit leaves every handler legal: the rows are in
\* the log and none of them is an account state.
LEMMA BeginReemitHandlers ==
  ASSUME TypeOK, NEW p \in Handler, BeginReemit(p)
  PROVE  HandlersOK'
<1> DEFINE R == ReemitRows(h[p].tx, h[p].req.objs[1].epoch)
<1>1. h[p].req \in Request /\ h[p].at \in Nat /\ IsDB(h[p].tx) /\ h[p].base \in Nat
  BY DEF TypeOK, HandlerState, BeginReemit
<1>2. \A s \in R : s \in DOMAIN h[p].tx.objects /\ h[p].tx.objects[s].tag # "account"
  BY DEF ReemitRows
<1>4. HandlerState(Handling("reemit", h[p].req, h[p].at, h[p].tx, h[p].base, << >>, R))
  <2> HIDE DEF R
  <2> QED BY <1>1, <1>2, EmptyTodo, HandlingState
<1> QED
  BY <1>4, OneHandlerMoves DEF BeginReemit, TypeOK, HandlersOK

\* A re-emitted row is no account state, so no row that is still to be
\* re-emitted is compacted by the insertion.
LEMMA ReemitObjectHandlers ==
  ASSUME TypeOK, NEW p \in Handler, ReemitObject(p)
  PROVE  HandlersOK'
<1>1. PICK s \in h[p].reemit :
        h' = [h EXCEPT ![p] =
                Handling("reemit", h[p].req, h[p].at, InsertInto(h[p].tx, h[p].tx.objects[s]),
                         h[p].base, << >>, h[p].reemit \ {s})]
  BY DEF ReemitObject
<1> DEFINE o == h[p].tx.objects[s]
           I == InsertInto(h[p].tx, o)
<1>2. /\ h[p].req \in Request /\ h[p].at \in Nat /\ IsDB(h[p].tx) /\ h[p].base \in Nat
      /\ \A t \in h[p].reemit : t \in DOMAIN h[p].tx.objects /\ h[p].tx.objects[t].tag # "account"
  BY DEF TypeOK, HandlerState, ReemitObject
<1>3. o \in Object /\ o.tag # "account"
  BY <1>2 DEF IsDB
<1>4. /\ IsDB(I)
      /\ DOMAIN I.objects = DOMAIN h[p].tx.objects \cup {h[p].tx.nextSeq + 1}
      /\ \A t \in DOMAIN I.objects :
           I.objects[t] = IF t = h[p].tx.nextSeq + 1 THEN o ELSE h[p].tx.objects[t]
  BY <1>2, <1>3, InsertIsDB, InsertRows
<1>5. \A t \in h[p].reemit \ {s} : t \in DOMAIN I.objects /\ I.objects[t].tag # "account"
  <2> HIDE DEF I
  <2> QED BY <1>2, <1>3, <1>4
<1>6. HandlerState(Handling("reemit", h[p].req, h[p].at, I, h[p].base, << >>,
                            h[p].reemit \ {s}))
  <2> HIDE DEF I
  <2> QED BY <1>2, <1>4, <1>5, EmptyTodo, HandlingState
<1> QED
  BY <1>1, <1>6, OneHandlerMoves DEF TypeOK, HandlersOK

\* What a device could not see is a set of sequence numbers.
LEMMA ObserveType ==
  ASSUME NEW D, IsDB(D), NEW t, hidden \in [Reader -> SUBSET Nat], Observe(D, t)
  PROVE  hidden' \in [Reader -> SUBSET Nat]
<1>1. DOMAIN D.objects \subseteq Nat
  BY DEF IsDB
<1> QED
  BY <1>1 DEF Observe

\* Setting the vaults row or the grants keeps a database well formed.
LEMMA SetVaultIsDB ==
  ASSUME NEW D, IsDB(D), NEW row \in VaultRow
  PROVE  IsDB([D EXCEPT !.vault = row])
BY DEF IsDB, VaultRow

\* Revoking an epoch keeps a database well formed (the UPDATE of grants_publish).
LEMMA RevokeIsDB ==
  ASSUME NEW D, IsDB(D), NEW e
  PROVE  IsDB([D EXCEPT !.grants = RevokeEpoch(@, e)])
<1> DEFINE G == RevokeEpoch(D.grants, e)
<1>1. \A k \in DOMAIN G : G[k] \in [revoked : BOOLEAN, notAfter : Nat]
  BY DEF RevokeEpoch, IsDB
<1> HIDE DEF G
<1>2. IsDB([D EXCEPT !.grants = G])
  BY <1>1 DEF IsDB
<1> QED
  BY <1>2 DEF G

\* An empty server is well typed (ensure_instance).
LEMMA TypeInit == Init => TypeOK
<1> SUFFICES ASSUME Init PROVE TypeOK
  OBVIOUS
<1>1. IsDB(db)
  BY EmptyIsDB DEF Init
<1>2. DOMAIN h = Handler /\ \A p \in Handler : HandlerState(h[p])
  BY IdleState DEF Init
<1>3. rd \in [Reader -> ReaderState]
  BY DEF Init, Resting, ReaderState
<1>4. \A k \in DOMAIN idem : k \in Key /\ idem[k].base \in Nat /\ idem[k].created \in Nat
  BY DEF Init
<1> QED
  BY <1>1, <1>2, <1>3, <1>4 DEF Init, TypeOK

\* The actions that only move a handler.
LEMMA TypeHandler ==
  ASSUME TypeOK, NEW p \in Handler,
         \/ LookupHit(p) \/ LookupMiss(p) \/ AllocSeqs(p) \/ InsertObject(p)
         \/ LoseKeyRace(p) \/ BeginReemit(p) \/ ReemitObject(p) \/ Rollback(p)
  PROVE  TypeOK'
<1>1. HandlersOK'
  <2>1. CASE LookupMiss(p)
    BY <2>1, LookupMissHandlers
  <2>2. CASE AllocSeqs(p)
    BY <2>2, AllocSeqsHandlers
  <2>3. CASE InsertObject(p)
    BY <2>3, InsertObjectHandlers
  <2>4. CASE BeginReemit(p)
    BY <2>4, BeginReemitHandlers
  <2>5. CASE ReemitObject(p)
    BY <2>5, ReemitObjectHandlers
  <2>6. CASE LookupHit(p) \/ LoseKeyRace(p) \/ Rollback(p)
    BY <2>6, IdleState, OneHandlerMoves
       DEF LookupHit, LoseKeyRace, Rollback, TypeOK, HandlersOK
  <2> QED BY <2>1, <2>2, <2>3, <2>4, <2>5, <2>6
<1>2. lock' \in Handler \cup {NoHandler}
  BY DEF TypeOK, LookupHit, LookupMiss, AllocSeqs, InsertObject, LoseKeyRace,
         BeginReemit, ReemitObject, Rollback
<1>3. UNCHANGED <<db, idem, now, rd, sent, bumps, delivered, hidden, cleaned>>
  BY DEF LookupHit, LookupMiss, AllocSeqs, InsertObject, LoseKeyRace,
         BeginReemit, ReemitObject, Rollback, history
<1> QED
  BY <1>1, <1>2, <1>3 DEF TypeOK, HandlersOK, IsDB

\* Receiving a request keeps the type invariant.
LEMMA TypeReceive ==
  ASSUME TypeOK, NEW p \in Handler, NEW r \in Request, Receive(p, r)
  PROVE  TypeOK'
<1>1. HandlersOK'
  BY ReceiveHandlers
<1>2. sent' \in [Request -> Nat]
  BY DEF Receive, TypeOK
<1>3. UNCHANGED <<db, idem, now, lock, rd, bumps, delivered, hidden, cleaned>>
  BY DEF Receive, history
<1> QED
  BY <1>1, <1>2, <1>3 DEF TypeOK, HandlersOK, IsDB

\* The commit of a push, idempotency record included, keeps the type invariant.
LEMMA TypeCommitPush ==
  ASSUME TypeOK, NEW p \in Handler, CommitPush(p)
  PROVE  TypeOK'
<1>1. IsDB(h[p].tx) /\ h[p].base \in Nat /\ h[p].at \in Nat /\ h[p].req \in Requests
  BY RequestAssumption DEF TypeOK, HandlerState, CommitPush
<1>2. IsDB(db')
  BY <1>1 DEF CommitPush
<1>3. HandlersOK'
  BY IdleState, OneHandlerMoves DEF CommitPush, TypeOK, HandlersOK
<1>4. \A k \in DOMAIN idem' : k \in Key /\ idem'[k].base \in Nat /\ idem'[k].created \in Nat
  <2>1. h[p].req.key \in Key \cup {NoKey}
    BY <1>1 DEF Requests
  <2> QED BY <1>1, <2>1 DEF CommitPush, TypeOK, Put
<1>5. hidden' \in [Reader -> SUBSET Nat]
  BY <1>1, ObserveType DEF CommitPush, TypeOK
<1> QED
  BY <1>2, <1>3, <1>4, <1>5 DEF CommitPush, TypeOK, HandlersOK

\* The commit of a publish, revocation included, keeps the type invariant.
LEMMA TypeCommitPublish ==
  ASSUME TypeOK, NEW p \in Handler, CommitPublish(p)
  PROVE  TypeOK'
<1> DEFINE D == IF h[p].req.revoke = 0 THEN h[p].tx
                ELSE [h[p].tx EXCEPT !.grants = RevokeEpoch(@, h[p].req.revoke)]
<1>1. IsDB(h[p].tx)
  BY DEF TypeOK, HandlerState
<1>2. IsDB(D)
  BY <1>1, RevokeIsDB
<1>3. db' = D /\ Observe(D, now)
  BY DEF CommitPublish
<1> HIDE DEF D
<1>4. HandlersOK'
  BY IdleState, OneHandlerMoves DEF CommitPublish, TypeOK, HandlersOK
<1>5. hidden' \in [Reader -> SUBSET Nat]
  BY <1>2, <1>3, ObserveType DEF TypeOK
<1>6. IsDB(db')
  BY <1>2, <1>3
<1> QED
  BY <1>4, <1>5, <1>6 DEF CommitPublish, TypeOK, HandlersOK

\* seq-bump, the clock and cleanup_expired keep the type invariant.
LEMMA TypeOperator ==
  ASSUME TypeOK, SeqBump \/ Tick \/ CleanupExpired
  PROVE  TypeOK'
<1>1. CASE SeqBump
  <2>1. IsDB(db')
    BY <1>1 DEF SeqBump, TypeOK, IsDB
  <2> QED BY <1>1, <2>1 DEF SeqBump, TypeOK, history
<1>2. CASE Tick
  <2>1. hidden' \in [Reader -> SUBSET Nat]
    BY <1>2, ObserveType DEF Tick, TypeOK
  <2> QED BY <1>2, <2>1 DEF Tick, TypeOK
<1>3. CASE CleanupExpired
  BY <1>3 DEF CleanupExpired, TypeOK
<1> QED BY <1>1, <1>2, <1>3

\* claim_vault, seen by an open transaction too, keeps the type invariant.
LEMMA TypeClaim ==
  ASSUME TypeOK, NEW m \in Member, ClaimVault(m)
  PROVE  TypeOK'
<1> DEFINE row == [owner |-> m, ver |-> 0, epoch |-> 0, tomb |-> FALSE]
           D == [db EXCEPT !.vault = row]
<1>1. row \in VaultRow
  BY DEF VaultRow
<1>2. IsDB(D)
  BY <1>1, SetVaultIsDB DEF TypeOK
<1>3. db' = D /\ Observe(D, now)
  BY DEF ClaimVault
<1>4. ASSUME NEW p \in Handler
      PROVE  HandlerState(h'[p])
  <2>1. HandlerState(h[p])
    BY DEF TypeOK
  <2>2. CASE ~InTx(p)
    <3>1. h'[p] = h[p]
      BY <2>2 DEF ClaimVault
    <3> QED BY <2>1, <3>1
  <2>3. CASE InTx(p)
    <3> DEFINE E == [h[p].tx EXCEPT !.vault = row]
    <3>1. h'[p] = [h[p] EXCEPT !.tx = E]
      BY <2>3 DEF ClaimVault
    <3>2. IsDB(h[p].tx)
      BY <2>1 DEF HandlerState
    <3>3. IsDB(E)
      BY <1>1, <3>2, SetVaultIsDB
    <3>4. E.objects = h[p].tx.objects
      BY <3>2 DEF IsDB
    <3> HIDE DEF E
    <3>5. h'[p] = Handling(h[p].pc, h[p].req, h[p].at, E, h[p].base, h[p].todo, h[p].reemit)
      BY <2>1, <3>1 DEF HandlerState, Handling
    <3>6. /\ h[p].pc \in {"idle", "lookup", "begin", "open", "reemit"}
          /\ h[p].pc # "idle" => h[p].req \in Request
          /\ h[p].at \in Nat /\ h[p].base \in Nat /\ h[p].todo \in Seq(Object)
          /\ h[p].pc # "reemit" => h[p].reemit = {}
          /\ \A s \in h[p].reemit : s \in DOMAIN E.objects /\ E.objects[s].tag # "account"
      BY <2>1, <3>4 DEF HandlerState
    <3> QED BY <3>3, <3>5, <3>6, HandlingState
  <2> QED BY <2>2, <2>3
<1>5. DOMAIN h' = Handler
  BY DEF ClaimVault
<1> HIDE DEF D
<1>6. hidden' \in [Reader -> SUBSET Nat]
  BY <1>2, <1>3, ObserveType DEF TypeOK
<1> QED
  BY <1>2, <1>3, <1>4, <1>5, <1>6 DEF ClaimVault, TypeOK

\* Planning, reading and losing a page keep the type invariant (delta_page).
LEMMA TypeReader ==
  ASSUME TypeOK, NEW d \in Reader, PlanPage(d) \/ ReadPage(d) \/ EndPull(d)
  PROVE  TypeOK'
<1>1. DOMAIN db.objects \subseteq 1..db.nextSeq /\ db.nextSeq \in Nat
  BY DEF TypeOK, IsDB
<1>2. rd[d] \in ReaderState
  BY DEF TypeOK
<1>3. CASE PlanPage(d)
  <2> DEFINE V == VisibleAfter(d, rd[d].cur, now)
  <2>1. PICK P \in SUBSET V : \E last \in P :
          rd' = [rd EXCEPT ![d] = [cursor |-> rd[d].cursor, cur |-> rd[d].cur, upto |-> last,
                                   count |-> Cardinality(P), more |-> P # V, at |-> now]]
    BY <1>3 DEF PlanPage
  <2>1a. PICK last \in P :
          rd' = [rd EXCEPT ![d] = [cursor |-> rd[d].cursor, cur |-> rd[d].cur, upto |-> last,
                                   count |-> Cardinality(P), more |-> P # V, at |-> now]]
    BY <2>1
  <2>2. V \subseteq 1..db.nextSeq
    BY <1>1 DEF VisibleAfter
  <2>3. Cardinality(P) \in Nat
    <3>1. IsFiniteSet(1..db.nextSeq)
      BY <1>1, FS_Interval
    <3>2. IsFiniteSet(P)
      BY <2>2, <3>1, FS_Subset
    <3> QED BY <3>2, FS_CardinalityType
  <2>4. last \in Nat /\ now \in Nat
    BY <1>1, <2>2 DEF TypeOK
  <2> DEFINE x == [cursor |-> rd[d].cursor, cur |-> rd[d].cur, upto |-> last,
                   count |-> Cardinality(P), more |-> P # V, at |-> now]
  <2>5. x \in ReaderState
    <3> DEFINE c == Cardinality(P)
    <3> HIDE DEF c, V
    <3> QED BY <1>2, <2>3, <2>4 DEF ReaderState, c
  <2> HIDE DEF x
  <2>6. rd' \in [Reader -> ReaderState]
    BY <2>1a, <2>5 DEF TypeOK, x
  <2>7. UNCHANGED <<db, idem, now, lock, h, sent, bumps, delivered, hidden, cleaned>>
    BY <1>3 DEF PlanPage, history
  <2> QED BY <2>6, <2>7 DEF TypeOK, IsDB
<1>4. CASE ReadPage(d)
  <2>1. PICK P \in SUBSET InRange(d), next \in 1..rd[d].upto :
          /\ delivered' = [delivered EXCEPT ![d] = @ \cup P]
          /\ \E last \in P \cup {rd[d].cursor} :
               rd' = [rd EXCEPT ![d] =
                        Resting(last, IF P = {} /\ (rd[d].more \/ next < rd[d].upto)
                                      THEN next ELSE last)]
    BY <1>4 DEF ReadPage
  <2>1a. PICK last \in P \cup {rd[d].cursor} :
               rd' = [rd EXCEPT ![d] =
                        Resting(last, IF P = {} /\ (rd[d].more \/ next < rd[d].upto)
                                      THEN next ELSE last)]
    BY <2>1
  <2>2. P \subseteq Nat
    BY <1>1 DEF InRange, VisibleAfter
  <2>3. last \in Nat /\ next \in Nat
    BY <1>2, <2>2 DEF ReaderState
  <2>4. rd' \in [Reader -> ReaderState]
    BY <2>1a, <2>3 DEF TypeOK, ReaderState, Resting
  <2>5. delivered' \in [Reader -> SUBSET Nat]
    BY <2>1, <2>2 DEF TypeOK
  <2> QED BY <1>4, <2>4, <2>5 DEF ReadPage, TypeOK, IsDB
<1>5. CASE EndPull(d)
  <2>1. rd' \in [Reader -> ReaderState]
    BY <1>2, <1>5 DEF EndPull, TypeOK, ReaderState, Resting
  <2> QED BY <1>5, <2>1 DEF EndPull, TypeOK, history, IsDB
<1> QED BY <1>3, <1>4, <1>5

\* Every step keeps the type invariant.
LEMMA TypeNext == TypeOK /\ [Next]_vars => TypeOK'
<1> SUFFICES ASSUME TypeOK, [Next]_vars PROVE TypeOK'
  OBVIOUS
<1>1. ASSUME NEW p \in Handler, NEW r \in Request, Receive(p, r) PROVE TypeOK'
  BY <1>1, TypeReceive
<1>2. ASSUME NEW p \in Handler, HandlerStep(p) \/ Rollback(p) PROVE TypeOK'
  BY <1>2, TypeHandler, TypeCommitPush, TypeCommitPublish DEF HandlerStep
<1>3. ASSUME NEW d \in Reader, PlanPage(d) \/ ReadPage(d) \/ EndPull(d) PROVE TypeOK'
  BY <1>3, TypeReader
<1>4. ASSUME NEW m \in Member, ClaimVault(m) PROVE TypeOK'
  BY <1>4, TypeClaim
<1>5. CASE SeqBump \/ Tick \/ CleanupExpired
  BY <1>5, TypeOperator
<1>6. CASE UNCHANGED vars
  BY <1>6 DEF vars, history, TypeOK, IsDB
<1> QED
  BY <1>1, <1>2, <1>3, <1>4, <1>5, <1>6 DEF Next

\* Type correctness of the server: the tables, the open transactions and the
\* readers stay well formed; in particular every row of the log, committed or
\* not, is numbered within the sequence its database has assigned.
THEOREM TypeCorrect == Spec => []TypeOK
<1>1. Init => TypeOK
  BY TypeInit
<1>2. TypeOK /\ [Next]_vars => TypeOK'
  BY TypeNext
<1> QED
  BY <1>1, <1>2, PTL DEF Spec
-----------------------------------------------------------------------------
(* No row is skipped.                                                      *)

\* Nobody else is in a transaction with p, and nobody is while the lock is free.
LEMMA LockExcludes ==
  ASSUME LockInv, NEW p \in Handler, NEW q \in Handler, q # p, InTx(q)
  PROVE  lock # p /\ lock # NoHandler
BY HandlerAssumption DEF LockInv

\* Actions that leave the committed database, the clock and the readers alone
\* can only disturb the lock discipline.
LEMMA SkipHandler ==
  ASSUME IInv, NEW p \in Handler,
         \/ LookupHit(p) \/ LookupMiss(p) \/ AllocSeqs(p) \/ InsertObject(p)
         \/ LoseKeyRace(p) \/ BeginReemit(p) \/ ReemitObject(p) \/ Rollback(p)
  PROVE  LockInv' /\ CursorInv' /\ HiddenInv' /\ WalkInv'
<1>1. UNCHANGED <<db, now, rd, delivered, hidden>>
  BY DEF LookupHit, LookupMiss, AllocSeqs, InsertObject, LoseKeyRace,
         BeginReemit, ReemitObject, Rollback, history
<1>2. CursorInv' /\ HiddenInv' /\ WalkInv'
  BY <1>1 DEF IInv, CursorInv, HiddenInv, WalkInv
<1>3. DOMAIN h = Handler /\ HandlerState(h[p])
  BY DEF IInv, TypeOK
<1>4. \A q \in Handler : q # p => h'[q] = h[q]
  BY <1>3 DEF LookupHit, LookupMiss, AllocSeqs, InsertObject, LoseKeyRace,
              BeginReemit, ReemitObject, Rollback
<1>5. CASE LookupHit(p) \/ LookupMiss(p)
  <2>1. h'[p].pc \notin {"open", "reemit"} /\ lock' = lock
    BY <1>3, <1>5 DEF LookupHit, LookupMiss, Idle, Handling
  <2> QED BY <1>1, <1>2, <1>4, <2>1 DEF IInv, LockInv, InTx
<1>6. CASE LoseKeyRace(p) \/ Rollback(p)
  <2>1. h'[p].pc = "idle" /\ InTx(p)
    BY <1>3, <1>6 DEF LoseKeyRace, Rollback, Idle, Handling, InTx
  <2>2. lock = p
    BY <2>1 DEF IInv, LockInv
  <2>3. \A q \in Handler : ~InTx(q)'
    BY <1>4, <2>1, <2>2, LockExcludes DEF IInv, InTx
  <2> QED BY <1>2, <2>3 DEF LockInv
<1>7. CASE AllocSeqs(p)
  <2>1. lock = NoHandler /\ lock' = p
    BY <1>7 DEF AllocSeqs
  <2>2. h'[p].tx = db
    BY <1>3, <1>7 DEF AllocSeqs, Handling
  <2>3. \A q \in Handler : q # p => ~InTx(q)'
    BY <1>4, <2>1, LockExcludes DEF IInv, InTx
  <2>4. db.nextSeq \in Nat
    BY DEF IInv, TypeOK, IsDB
  <2> QED BY <1>1, <1>2, <2>1, <2>2, <2>3, <2>4 DEF LockInv
<1>8. CASE BeginReemit(p)
  <2>1. h'[p].tx = h[p].tx /\ InTx(p) /\ lock' = lock
    BY <1>3, <1>8 DEF BeginReemit, Handling, InTx
  <2> QED BY <1>1, <1>2, <1>4, <2>1 DEF IInv, LockInv, InTx
<1>9. CASE InsertObject(p) \/ ReemitObject(p)
  <2>1. PICK o \in Object : h'[p].tx = InsertInto(h[p].tx, o)
    <3>1. CASE InsertObject(p)
      <4>1. h'[p].tx = InsertInto(h[p].tx, Head(h[p].todo))
        BY <1>3, <3>1 DEF InsertObject, Handling
      <4>2. h[p].todo \in Seq(Object) /\ h[p].todo # << >>
        BY <1>3, <3>1 DEF InsertObject, HandlerState
      <4>3. Head(h[p].todo) \in Object
        BY <4>2
      <4> QED BY <4>1, <4>3
    <3>2. CASE ReemitObject(p)
      <4>1. PICK s \in h[p].reemit : h'[p].tx = InsertInto(h[p].tx, h[p].tx.objects[s])
        BY <1>3, <3>2 DEF ReemitObject, Handling
      <4>2. h[p].tx.objects[s] \in Object
        BY <1>3 DEF HandlerState, IsDB
      <4> QED BY <4>1, <4>2
    <3> QED BY <1>9, <3>1, <3>2
  <2>2. InTx(p) /\ lock' = lock
    BY <1>9 DEF InsertObject, ReemitObject, InTx
  <2>3. IsDB(h[p].tx)
    BY <1>3 DEF HandlerState
  <2>4. /\ h'[p].tx.nextSeq = h[p].tx.nextSeq + 1
        /\ DOMAIN h'[p].tx.objects \subseteq DOMAIN h[p].tx.objects \cup {h[p].tx.nextSeq + 1}
    BY <2>1, <2>3, InsertRows
  <2>5. h[p].tx.nextSeq \in Nat /\ db.nextSeq \in Nat
    BY <2>3 DEF IInv, TypeOK, IsDB
  <2>6. lock = p /\ db.nextSeq <= h[p].tx.nextSeq
        /\ \A s \in DOMAIN h[p].tx.objects : s <= db.nextSeq => s \in DOMAIN db.objects
    BY <2>2 DEF IInv, LockInv
  <2>7. /\ db.nextSeq <= h'[p].tx.nextSeq
        /\ \A s \in DOMAIN h'[p].tx.objects : s <= db.nextSeq => s \in DOMAIN db.objects
    BY <2>4, <2>5, <2>6
  <2>8. \A q \in Handler : q # p => ~InTx(q)'
    BY <1>4, <2>6, LockExcludes DEF IInv, InTx
  <2> QED BY <1>1, <1>2, <2>2, <2>6, <2>7, <2>8 DEF LockInv
<1> QED
  BY <1>5, <1>6, <1>7, <1>8, <1>9

\* A commit of a database D that extends the committed one: the rows behind
\* the old sequence number are old rows, the others are ahead of every cursor.
LEMMA SkipCommit ==
  ASSUME IInv, TypeOK', NEW p \in Handler, InTx(p), NEW D,
         D.objects = h[p].tx.objects, D.nextSeq = h[p].tx.nextSeq,
         db' = D, Observe(D, now), h' = [h EXCEPT ![p] = Idle], lock' = NoHandler,
         UNCHANGED <<now, rd, delivered>>
  PROVE  LockInv' /\ CursorInv' /\ HiddenInv' /\ WalkInv'
<1>1. DOMAIN h = Handler /\ lock = p /\ db.nextSeq <= D.nextSeq
      /\ \A s \in DOMAIN D.objects : s <= db.nextSeq => s \in DOMAIN db.objects
  BY DEF IInv, TypeOK, LockInv
<1>2. LockInv'
  <2>1. \A q \in Handler : ~InTx(q)'
    BY <1>1, LockExcludes DEF IInv, InTx, Idle, Handling
  <2> QED BY <2>1 DEF LockInv
<1>3. db.nextSeq \in Nat /\ D.nextSeq \in Nat /\ rd \in [Reader -> ReaderState]
  BY DEF IInv, TypeOK, IsDB
<1>4. CursorInv'
  BY <1>1, <1>3 DEF IInv, CursorInv, ReaderState
<1>5. HiddenInv'
  BY DEF HiddenInv, Observe
<1>6. WalkInv'
  <2> SUFFICES ASSUME NEW d \in Reader, NEW s \in DOMAIN D.objects, s <= rd[d].cur
               PROVE  s \in delivered[d] \cup hidden'[d]
    BY DEF WalkInv
  <2>1. s \in Nat /\ rd[d].cur \in Nat /\ rd[d].cur <= db.nextSeq
    BY <1>3 DEF IInv, TypeOK, IsDB, CursorInv, ReaderState
  <2>2. s \in DOMAIN db.objects
    BY <1>1, <1>3, <2>1
  <2>3. s \in delivered[d] \cup hidden[d]
    BY <2>2 DEF IInv, WalkInv
  <2> QED BY <2>3 DEF Observe
<1> QED
  BY <1>2, <1>4, <1>5, <1>6

\* Both commits keep the invariant: their transaction started from the
\* committed database and numbered its rows beyond the committed sequence.
LEMMA SkipCommits ==
  ASSUME IInv, TypeOK', NEW p \in Handler, CommitPush(p) \/ CommitPublish(p)
  PROVE  LockInv' /\ CursorInv' /\ HiddenInv' /\ WalkInv'
<1>1. CASE CommitPush(p)
  BY <1>1, SkipCommit DEF CommitPush, InTx
<1>2. CASE CommitPublish(p)
  <2> DEFINE D == IF h[p].req.revoke = 0 THEN h[p].tx
                  ELSE [h[p].tx EXCEPT !.grants = RevokeEpoch(@, h[p].req.revoke)]
  <2>1. IsDB(h[p].tx)
    BY DEF IInv, TypeOK, HandlerState
  <2>2. D.objects = h[p].tx.objects /\ D.nextSeq = h[p].tx.nextSeq
    BY <2>1 DEF IsDB
  <2>3. db' = D /\ Observe(D, now)
    BY <1>2 DEF CommitPublish
  <2> HIDE DEF D
  <2> QED BY <1>2, <2>2, <2>3, SkipCommit DEF CommitPublish, InTx
<1> QED BY <1>1, <1>2

\* Receiving a request keeps the invariant.
LEMMA SkipReceive ==
  ASSUME IInv, NEW p \in Handler, NEW r \in Request, Receive(p, r)
  PROVE  LockInv' /\ CursorInv' /\ HiddenInv' /\ WalkInv'
<1>1. UNCHANGED <<db, now, lock, rd, delivered, hidden>>
  BY DEF Receive, history
<1>2. \A q \in Handler : q # p => h'[q] = h[q]
  BY DEF IInv, TypeOK, Receive
<1>3. ~InTx(p)'
  BY DEF IInv, TypeOK, Receive, InTx, Handling
<1> QED
  BY <1>1, <1>2, <1>3 DEF IInv, LockInv, CursorInv, HiddenInv, WalkInv, InTx

\* seq-bump, the clock and cleanup_expired keep the invariant.
LEMMA SkipOperator ==
  ASSUME IInv, SeqBump \/ Tick \/ CleanupExpired
  PROVE  LockInv' /\ CursorInv' /\ HiddenInv' /\ WalkInv'
<1>1. IsDB(db) /\ db.nextSeq \in Nat /\ now \in Nat /\ rd \in [Reader -> ReaderState]
  BY DEF IInv, TypeOK, IsDB
<1>2. CASE SeqBump
  <2>1. /\ db'.nextSeq = db.nextSeq + 1 /\ db'.objects = db.objects
        /\ db'.vault = db.vault /\ db'.manifests = db.manifests /\ db'.grants = db.grants
    BY <1>1, <1>2 DEF SeqBump, IsDB
  <2>2. UNCHANGED <<now, lock, h, rd, delivered, hidden>> /\ lock = NoHandler
    BY <1>2 DEF SeqBump, history
  <2>3. \A q \in Handler : ~InTx(q)
    BY <2>2, HandlerAssumption DEF IInv, LockInv
  <2>4. LockInv'
    BY <2>2, <2>3 DEF LockInv, InTx
  <2>5. CursorInv'
    BY <1>1, <2>1, <2>2 DEF IInv, CursorInv, ReaderState
  <2>6. HiddenInv'
    BY <2>1, <2>2 DEF IInv, HiddenInv, Visible, IsLatestEpoch
  <2>7. WalkInv'
    BY <2>1, <2>2 DEF IInv, WalkInv
  <2> QED BY <2>4, <2>5, <2>6, <2>7
<1>3. CASE Tick
  <2>1. UNCHANGED <<db, lock, h, rd, delivered>> /\ now' = now + 1 /\ Observe(db, now + 1)
    BY <1>3 DEF Tick
  <2>2. LockInv'
    BY <2>1 DEF IInv, LockInv, InTx
  <2>3. CursorInv'
    BY <1>1, <2>1 DEF IInv, CursorInv, ReaderState
  <2>4. HiddenInv'
    BY <2>1 DEF HiddenInv, Observe
  <2>5. WalkInv'
    BY <2>1 DEF IInv, WalkInv, Observe
  <2> QED BY <2>2, <2>3, <2>4, <2>5
<1>4. CASE CleanupExpired
  BY <1>4 DEF CleanupExpired, IInv, LockInv, CursorInv, HiddenInv, WalkInv, InTx
<1> QED BY <1>2, <1>3, <1>4

\* claim_vault keeps the invariant: it adds no row to the log.
LEMMA SkipClaim ==
  ASSUME IInv, NEW m \in Member, ClaimVault(m)
  PROVE  LockInv' /\ CursorInv' /\ HiddenInv' /\ WalkInv'
<1> DEFINE row == [owner |-> m, ver |-> 0, epoch |-> 0, tomb |-> FALSE]
           D == [db EXCEPT !.vault = row]
<1>1. db' = D /\ Observe(D, now) /\ UNCHANGED <<now, lock, rd, delivered>>
  BY DEF ClaimVault
<1>2. D.objects = db.objects /\ D.nextSeq = db.nextSeq
  BY DEF IInv, TypeOK, IsDB
<1> HIDE DEF D
<1>3. ASSUME NEW q \in Handler
      PROVE  /\ InTx(q)' <=> InTx(q)
             /\ h'[q].tx.objects = h[q].tx.objects /\ h'[q].tx.nextSeq = h[q].tx.nextSeq
  <2>1. HandlerState(h[q])
    BY DEF IInv, TypeOK
  <2>2. CASE InTx(q)
    <3> DEFINE E == [h[q].tx EXCEPT !.vault = row]
    <3>1. h'[q] = [h[q] EXCEPT !.tx = E]
      BY <2>2 DEF ClaimVault
    <3>2. E.objects = h[q].tx.objects /\ E.nextSeq = h[q].tx.nextSeq
      BY <2>1 DEF HandlerState, IsDB
    <3> HIDE DEF E
    <3>3. h'[q].tx = E /\ h'[q].pc = h[q].pc
      BY <2>1, <3>1 DEF HandlerState, Handling
    <3> QED BY <3>2, <3>3 DEF InTx
  <2>3. CASE ~InTx(q)
    <3>1. h'[q] = h[q]
      BY <2>3 DEF ClaimVault
    <3> QED BY <3>1 DEF InTx
  <2> QED BY <2>2, <2>3
<1>4. LockInv'
  BY <1>1, <1>2, <1>3 DEF IInv, LockInv
<1>5. CursorInv'
  BY <1>1, <1>2 DEF IInv, CursorInv
<1>6. HiddenInv'
  BY <1>1 DEF HiddenInv, Observe
<1>7. WalkInv'
  BY <1>1, <1>2 DEF IInv, WalkInv, Observe
<1> QED
  BY <1>4, <1>5, <1>6, <1>7

\* A row the request of the page under way cannot see is on record as hidden.
LEMMA UnseenIsHidden ==
  ASSUME IInv, NEW d \in Reader, NEW s \in DOMAIN db.objects, ~Visible(db, d, s, rd[d].at)
  PROVE  s \in hidden[d]
<1>1. IsDB(db) /\ now \in Nat /\ rd[d].at \in Nat /\ rd[d].at <= now
  BY DEF IInv, TypeOK, CursorInv, ReaderState
<1>2. ~Visible(db, d, s, now)
  BY <1>1, VisibleEarlier
<1> QED
  BY <1>2 DEF IInv, HiddenInv

\* The second read of delta_page: whatever lies between the old and the new
\* position was returned, or could not be seen.
LEMMA ReadPageCovers ==
  ASSUME IInv, NEW d \in Reader, NEW P \in SUBSET InRange(d), NEW next \in 1..rd[d].upto,
         rd[d].count > 0, IsFirst(P, InRange(d), rd[d].count), IsNextCursor(next, P, d),
         NEW last \in P \cup {rd[d].cursor}, IsLast(last, P \cup {rd[d].cursor}),
         NEW c, c = IF P = {} /\ (rd[d].more \/ next < rd[d].upto) THEN next ELSE last
  PROVE  /\ c \in Nat /\ last \in Nat /\ last <= c /\ c <= db.nextSeq
         /\ \A s \in DOMAIN db.objects :
              s <= c => s \in delivered[d] \cup P \cup hidden[d]
<1>1. /\ rd[d].cursor \in Nat /\ rd[d].cur \in Nat /\ rd[d].upto \in Nat /\ rd[d].count \in Nat
      /\ rd[d].cursor <= rd[d].cur /\ rd[d].cur <= db.nextSeq
      /\ rd[d].cur <= rd[d].upto /\ rd[d].upto <= db.nextSeq
  BY DEF IInv, TypeOK, CursorInv, ReaderState
<1>2. DOMAIN db.objects \subseteq Nat /\ db.nextSeq \in Nat
  BY DEF IInv, TypeOK, IsDB
<1>3. \A s \in InRange(d) : s \in Nat /\ rd[d].cur < s /\ s <= rd[d].upto
  BY <1>2 DEF InRange, VisibleAfter
<1>4. \A s \in DOMAIN db.objects :
        s <= rd[d].cur => s \in delivered[d] \cup hidden[d]
  BY DEF IInv, WalkInv
<1>5. \A s \in DOMAIN db.objects :
        rd[d].cur < s /\ s <= rd[d].upto => s \in InRange(d) \cup hidden[d]
  BY <1>2, UnseenIsHidden DEF InRange, VisibleAfter
<1>6. CASE P = {}
  <2>1. Cardinality({}) = 0
    BY FS_EmptySet
  <2>2. InRange(d) = {}
    BY <1>1, <1>6, <2>1 DEF IsFirst
  <2>3. next = rd[d].upto /\ last = rd[d].cursor
    BY <1>1, <1>6, <2>1 DEF IsNextCursor
  <2>4. c \in {rd[d].upto, rd[d].cursor}
    BY <2>3
  <2> QED BY <1>1, <1>2, <1>4, <1>5, <2>2, <2>3, <2>4
<1>7. CASE P # {}
  <2>1. c = last /\ last \in Nat /\ \A s \in P : s <= last
    BY <1>1, <1>3, <1>7 DEF IsLast
  <2>2. last \in P
    <3>1. PICK s \in P : TRUE
      BY <1>7
    <3> QED BY <1>1, <1>3, <2>1, <3>1
  <2>3. last <= rd[d].upto
    BY <1>3, <2>2
  <2>4. \A s \in InRange(d) : s <= last => s \in P
    <3> SUFFICES ASSUME NEW s \in InRange(d), s <= last, s \notin P
                 PROVE  FALSE
      OBVIOUS
    <3>1. last < s
      BY <2>2 DEF IsFirst
    <3>2. s \in Nat /\ last \in Nat
      BY <1>3, <2>1
    <3> QED BY <3>1, <3>2
  <2> QED BY <1>1, <1>2, <1>4, <1>5, <2>1, <2>3, <2>4
<1> QED BY <1>6, <1>7

\* A device that plans, reads or loses a page keeps the invariant.
LEMMA SkipReader ==
  ASSUME IInv, NEW d \in Reader, PlanPage(d) \/ ReadPage(d) \/ EndPull(d)
  PROVE  LockInv' /\ CursorInv' /\ HiddenInv' /\ WalkInv'
<1>1. UNCHANGED <<db, now, lock, h, hidden>>
  BY DEF PlanPage, ReadPage, EndPull, history
<1>2. LockInv' /\ HiddenInv'
  BY <1>1 DEF IInv, LockInv, HiddenInv, InTx
<1>3. /\ rd \in [Reader -> ReaderState] /\ delivered \in [Reader -> SUBSET Nat]
      /\ DOMAIN db.objects \subseteq 1..db.nextSeq /\ db.nextSeq \in Nat /\ now \in Nat
  BY DEF IInv, TypeOK, IsDB
<1>4. CASE PlanPage(d)
  <2>1. PICK P \in SUBSET VisibleAfter(d, rd[d].cur, now) : \E last \in P :
          rd' = [rd EXCEPT ![d] =
                   [cursor |-> rd[d].cursor, cur |-> rd[d].cur, upto |-> last,
                    count |-> Cardinality(P), more |-> P # VisibleAfter(d, rd[d].cur, now),
                    at |-> now]]
    BY <1>4 DEF PlanPage
  <2>2. PICK last \in P :
          rd' = [rd EXCEPT ![d] =
                   [cursor |-> rd[d].cursor, cur |-> rd[d].cur, upto |-> last,
                    count |-> Cardinality(P), more |-> P # VisibleAfter(d, rd[d].cur, now),
                    at |-> now]]
    BY <2>1
  <2>3. last \in 1..db.nextSeq /\ rd[d].cur < last
    BY <1>3 DEF VisibleAfter
  <2>4. /\ rd'[d].cursor = rd[d].cursor /\ rd'[d].cur = rd[d].cur
        /\ rd'[d].upto = last /\ rd'[d].at = now
        /\ \A e \in Reader : e # d => rd'[e] = rd[e]
    BY <1>3, <2>2
  <2>5. CursorInv'
    BY <1>1, <1>3, <2>3, <2>4 DEF IInv, CursorInv, ReaderState
  <2>6. WalkInv'
    <3>1. \A e \in Reader : rd'[e].cur = rd[e].cur
      BY <2>4
    <3>2. UNCHANGED <<db, delivered, hidden>>
      BY <1>4 DEF PlanPage, history
    <3> QED BY <3>1, <3>2 DEF IInv, WalkInv
  <2> QED BY <1>2, <2>5, <2>6
<1>5. CASE ReadPage(d)
  <2>1. PICK P \in SUBSET InRange(d), next \in 1..rd[d].upto :
          /\ IsFirst(P, InRange(d), rd[d].count)
          /\ IsNextCursor(next, P, d)
          /\ delivered' = [delivered EXCEPT ![d] = @ \cup P]
          /\ \E last \in P \cup {rd[d].cursor} :
               /\ IsLast(last, P \cup {rd[d].cursor})
               /\ rd' = [rd EXCEPT ![d] =
                    Resting(last, IF P = {} /\ (rd[d].more \/ next < rd[d].upto)
                                  THEN next ELSE last)]
    BY <1>5 DEF ReadPage
  <2>2. PICK last \in P \cup {rd[d].cursor} :
               /\ IsLast(last, P \cup {rd[d].cursor})
               /\ rd' = [rd EXCEPT ![d] =
                    Resting(last, IF P = {} /\ (rd[d].more \/ next < rd[d].upto)
                                  THEN next ELSE last)]
    BY <2>1
  <2> DEFINE c == IF P = {} /\ (rd[d].more \/ next < rd[d].upto) THEN next ELSE last
  <2>3. rd[d].count > 0
    BY <1>5 DEF ReadPage
  <2>4. /\ c \in Nat /\ last \in Nat /\ last <= c /\ c <= db.nextSeq
        /\ \A s \in DOMAIN db.objects : s <= c => s \in delivered[d] \cup P \cup hidden[d]
    BY <2>1, <2>2, <2>3, ReadPageCovers
  <2>5. rd' = [rd EXCEPT ![d] = Resting(last, c)]
    BY <2>2
  <2> HIDE DEF c
  <2>6. /\ rd'[d].cursor = last /\ rd'[d].cur = c /\ rd'[d].upto = 0
        /\ rd'[d].count = 0 /\ rd'[d].at = 0
        /\ \A e \in Reader : e # d => rd'[e] = rd[e]
    BY <1>3, <2>5 DEF Resting
  <2>7. delivered'[d] = delivered[d] \cup P /\ \A e \in Reader : e # d => delivered'[e] = delivered[e]
    BY <1>3, <2>1
  <2>8. CursorInv'
    BY <1>1, <1>3, <2>4, <2>6 DEF IInv, CursorInv, ReaderState
  <2>9. WalkInv'
    BY <1>1, <2>4, <2>6, <2>7 DEF IInv, WalkInv
  <2> QED BY <1>2, <2>8, <2>9
<1>6. CASE EndPull(d)
  <2>1. /\ rd'[d].cursor = rd[d].cursor /\ rd'[d].cur = rd[d].cursor /\ rd'[d].upto = 0
        /\ rd'[d].count = 0 /\ rd'[d].at = 0
        /\ \A e \in Reader : e # d => rd'[e] = rd[e]
    BY <1>3, <1>6 DEF EndPull, Resting
  <2>2. UNCHANGED <<db, delivered, hidden>>
    BY <1>6 DEF EndPull, history
  <2>3. CursorInv'
    BY <1>1, <1>3, <2>1 DEF IInv, CursorInv, ReaderState
  <2>4. WalkInv'
    <3> SUFFICES ASSUME NEW e \in Reader, NEW s \in DOMAIN db.objects, s <= rd'[e].cur
                 PROVE  s \in delivered[e] \cup hidden[e]
      BY <2>2 DEF WalkInv
    <3>1. s \in Nat /\ rd[e].cursor \in Nat /\ rd[e].cur \in Nat /\ rd[e].cursor <= rd[e].cur
      BY <1>3 DEF IInv, CursorInv, ReaderState
    <3>2. s <= rd[e].cur
      BY <2>1, <3>1
    <3> QED BY <3>2 DEF IInv, WalkInv
  <2> QED BY <1>2, <2>3, <2>4
<1> QED BY <1>4, <1>5, <1>6

\* The invariant holds of an empty server and devices with cursor 0.
LEMMA SkipInit == Init => IInv
<1> SUFFICES ASSUME Init PROVE IInv
  OBVIOUS
<1>1. TypeOK
  BY TypeInit
<1>2. LockInv
  BY DEF Init, LockInv, InTx, Idle, Handling
<1>3. CursorInv
  BY DEF Init, CursorInv, Resting, EmptyDB
<1>4. HiddenInv /\ WalkInv
  BY DEF Init, HiddenInv, WalkInv, EmptyDB
<1> QED BY <1>1, <1>2, <1>3, <1>4 DEF IInv

\* Every step keeps the inductive invariant of NothingSkipped.
LEMMA SkipNext == IInv /\ [Next]_vars => IInv'
<1> SUFFICES ASSUME IInv, [Next]_vars PROVE IInv'
  OBVIOUS
<1> DEFINE Rest == LockInv' /\ CursorInv' /\ HiddenInv' /\ WalkInv'
<1>1. TypeOK'
  BY TypeNext DEF IInv
<1>2. ASSUME NEW p \in Handler, NEW r \in Request, Receive(p, r) PROVE Rest
  BY <1>2, SkipReceive
<1>3. ASSUME NEW p \in Handler, HandlerStep(p) \/ Rollback(p) PROVE Rest
  BY <1>1, <1>3, SkipHandler, SkipCommits DEF HandlerStep
<1>4. ASSUME NEW d \in Reader, PlanPage(d) \/ ReadPage(d) \/ EndPull(d) PROVE Rest
  BY <1>4, SkipReader
<1>5. ASSUME NEW m \in Member, ClaimVault(m) PROVE Rest
  BY <1>5, SkipClaim
<1>6. ASSUME SeqBump \/ Tick \/ CleanupExpired PROVE Rest
  BY <1>6, SkipOperator
<1>7. ASSUME UNCHANGED vars PROVE Rest
  BY <1>7 DEF vars, history, IInv, LockInv, CursorInv, HiddenInv, WalkInv, InTx
<1> QED
  BY <1>1, <1>2, <1>3, <1>4, <1>5, <1>6, <1>7 DEF Next, IInv

\* No row of the log is skipped by any device, for any number of handlers,
\* readers and requests, any page limit, any interleaving of transactions with
\* the two reads of a page, any lost page, membership change and expiry.
THEOREM NothingSkipped == Spec => []NoSkippedRow
<1>1. IInv => NoSkippedRow
  <2> SUFFICES ASSUME IInv, NEW d \in Reader, NEW s \in DOMAIN db.objects, s <= rd[d].cursor
               PROVE  s \in delivered[d] \cup hidden[d]
    BY DEF NoSkippedRow
  <2>1. s \in Nat /\ rd[d].cursor \in Nat /\ rd[d].cur \in Nat /\ rd[d].cursor <= rd[d].cur
    BY DEF IInv, TypeOK, IsDB, CursorInv, ReaderState
  <2>2. s <= rd[d].cur
    BY <2>1
  <2> QED BY <2>2 DEF IInv, WalkInv
<1>2. Init => IInv
  BY SkipInit
<1>3. IInv /\ [Next]_vars => IInv'
  BY SkipNext
<1> QED
  BY <1>1, <1>2, <1>3, PTL DEF Spec
-----------------------------------------------------------------------------
(* A revocation is permanent.                                              *)

KeepsRevoked(G, H) ==
  \A k \in DOMAIN G : G[k].revoked => k \in DOMAIN H /\ H[k].revoked

\* An open transaction has kept every committed revocation.
RevokeInv ==
  \A p \in Handler : InTx(p) => KeepsRevoked(db.grants, h[p].tx.grants)

\* The grant upsert of materialize and the read-deny of grants_publish never
\* clear a revocation.
LEMMA InsertKeepsRevoked ==
  ASSUME NEW G, NEW D, NEW o, KeepsRevoked(G, D.grants)
  PROVE  KeepsRevoked(G, InsertInto(D, o).grants)
<1>1. CASE o.tag = "grant"
  <2>1. InsertInto(D, o).grants = MaterializeGrant(D.grants, o)
    BY <1>1 DEF InsertInto
  <2>2. KeepsRevoked(D.grants, MaterializeGrant(D.grants, o))
    BY DEF KeepsRevoked, MaterializeGrant, Put
  <2> QED BY <2>1, <2>2 DEF KeepsRevoked
<1>2. CASE o.tag # "grant"
  <2>1. InsertInto(D, o).grants = D.grants
    BY <1>2 DEF InsertInto
  <2> QED BY <2>1
<1> QED BY <1>1, <1>2

\* Revoking an epoch clears no revocation.
LEMMA RevokeEpochKeepsRevoked ==
  ASSUME NEW G, NEW D, IsDB(D), NEW e, KeepsRevoked(G, D.grants)
  PROVE  KeepsRevoked(G, RevokeEpoch(D.grants, e))
BY DEF KeepsRevoked, RevokeEpoch, IsDB

\* A step inside a transaction keeps every revocation committed so far.
LEMMA RevokeHandler ==
  ASSUME IInv, RevokeInv, NEW p \in Handler,
         \/ LookupHit(p) \/ LookupMiss(p) \/ AllocSeqs(p) \/ InsertObject(p)
         \/ LoseKeyRace(p) \/ BeginReemit(p) \/ ReemitObject(p) \/ Rollback(p)
  PROVE  RevokeInv' /\ db' = db
<1>1. db' = db /\ DOMAIN h = Handler
  BY DEF IInv, TypeOK, LookupHit, LookupMiss, AllocSeqs, InsertObject, LoseKeyRace,
         BeginReemit, ReemitObject, Rollback
<1>2. \A q \in Handler : q # p => h'[q] = h[q]
  BY <1>1 DEF LookupHit, LookupMiss, AllocSeqs, InsertObject, LoseKeyRace,
              BeginReemit, ReemitObject, Rollback
<1>3. ASSUME InTx(p)' PROVE KeepsRevoked(db.grants, h'[p].tx.grants)
  <2>1. CASE LookupHit(p) \/ LookupMiss(p) \/ LoseKeyRace(p) \/ Rollback(p)
    BY <1>1, <1>3, <2>1 DEF LookupHit, LookupMiss, LoseKeyRace, Rollback, Idle, Handling, InTx
  <2>2. CASE AllocSeqs(p)
    <3>1. h'[p].tx = db
      BY <1>1, <2>2 DEF AllocSeqs, Handling
    <3> QED BY <3>1 DEF KeepsRevoked
  <2>3. CASE InsertObject(p)
    <3>1. h'[p].tx = InsertInto(h[p].tx, Head(h[p].todo)) /\ InTx(p)
      BY <1>1, <2>3 DEF InsertObject, Handling, InTx
    <3> QED BY <3>1, InsertKeepsRevoked DEF RevokeInv
  <2>4. CASE BeginReemit(p)
    <3>1. h'[p].tx = h[p].tx /\ InTx(p)
      BY <1>1, <2>4 DEF BeginReemit, Handling, InTx
    <3> QED BY <3>1 DEF RevokeInv
  <2>5. CASE ReemitObject(p)
    <3>1. InTx(p) /\ \E o : h'[p].tx = InsertInto(h[p].tx, o)
      BY <1>1, <2>5 DEF ReemitObject, Handling, InTx
    <3> QED BY <3>1, InsertKeepsRevoked DEF RevokeInv
  <2> QED BY <2>1, <2>2, <2>3, <2>4, <2>5
<1> QED
  BY <1>1, <1>2, <1>3 DEF RevokeInv, InTx

\* After a commit nobody is in a transaction.
LEMMA RevokeCommit ==
  ASSUME IInv, RevokeInv, NEW p \in Handler, CommitPush(p) \/ CommitPublish(p)
  PROVE  RevokeInv' /\ KeepsRevoked(db.grants, db'.grants)
<1>1. DOMAIN h = Handler /\ InTx(p) /\ IsDB(h[p].tx)
  BY DEF IInv, TypeOK, CommitPush, CommitPublish, InTx, HandlerState
<1>2. lock = p /\ KeepsRevoked(db.grants, h[p].tx.grants)
  BY <1>1 DEF IInv, LockInv, RevokeInv
<1>3. h' = [h EXCEPT ![p] = Idle]
  BY DEF CommitPush, CommitPublish
<1>4. \A q \in Handler : ~InTx(q)'
  BY <1>1, <1>2, <1>3, LockExcludes DEF IInv, InTx, Idle, Handling
<1>5. KeepsRevoked(db.grants, db'.grants)
  <2>1. CASE CommitPush(p)
    BY <1>2, <2>1 DEF CommitPush
  <2>2. CASE CommitPublish(p)
    <3>1. db'.grants \in {h[p].tx.grants, RevokeEpoch(h[p].tx.grants, h[p].req.revoke)}
      BY <1>1, <2>2 DEF CommitPublish, IsDB
    <3> QED BY <1>1, <1>2, <3>1, RevokeEpochKeepsRevoked
  <2> QED BY <2>1, <2>2
<1> QED
  BY <1>4, <1>5 DEF RevokeInv

\* Steps outside a transaction keep every revocation.
LEMMA RevokeOther ==
  ASSUME IInv, RevokeInv,
         \/ \E p \in Handler : \E r \in Request : Receive(p, r)
         \/ \E d \in Reader : PlanPage(d) \/ ReadPage(d) \/ EndPull(d)
         \/ SeqBump \/ Tick \/ CleanupExpired \/ UNCHANGED vars
  PROVE  RevokeInv' /\ KeepsRevoked(db.grants, db'.grants)
<1>1. db'.grants = db.grants
  <2>1. CASE SeqBump
    BY <2>1 DEF SeqBump, IInv, TypeOK, IsDB
  <2>2. CASE ~SeqBump
    BY <2>2 DEF Receive, PlanPage, ReadPage, EndPull, Tick, CleanupExpired, vars
  <2> QED BY <2>1, <2>2
<1>2. \A q \in Handler : InTx(q)' => InTx(q) /\ h'[q].tx = h[q].tx
  <2>1. CASE \E p \in Handler : \E r \in Request : Receive(p, r)
    BY <2>1 DEF Receive, Handling, InTx, IInv, TypeOK
  <2>2. CASE ~\E p \in Handler : \E r \in Request : Receive(p, r)
    <3>1. h' = h
      BY <2>2 DEF PlanPage, ReadPage, EndPull, SeqBump, Tick, CleanupExpired, vars
    <3> QED BY <3>1 DEF InTx
  <2> QED BY <2>1, <2>2
<1> QED
  BY <1>1, <1>2 DEF RevokeInv, KeepsRevoked

\* claim_vault keeps every revocation.
LEMMA RevokeClaim ==
  ASSUME IInv, RevokeInv, NEW m \in Member, ClaimVault(m)
  PROVE  RevokeInv' /\ KeepsRevoked(db.grants, db'.grants)
<1>1. db'.grants = db.grants
  BY DEF ClaimVault, IInv, TypeOK, IsDB
<1>2. ASSUME NEW q \in Handler, InTx(q)'
      PROVE  InTx(q) /\ h'[q].tx.grants = h[q].tx.grants
  <2>1. HandlerState(h[q])
    BY DEF IInv, TypeOK
  <2>2. CASE InTx(q)
    <3> DEFINE E == [h[q].tx EXCEPT !.vault = [owner |-> m, ver |-> 0, epoch |-> 0,
                                               tomb |-> FALSE]]
    <3>1. h'[q] = [h[q] EXCEPT !.tx = E]
      BY <2>2 DEF ClaimVault
    <3>2. E.grants = h[q].tx.grants
      BY <2>1 DEF HandlerState, IsDB
    <3> HIDE DEF E
    <3>3. h'[q].tx = E
      BY <2>1, <3>1 DEF HandlerState, Handling
    <3> QED BY <2>2, <3>2, <3>3
  <2>3. CASE ~InTx(q)
    <3>1. h'[q] = h[q]
      BY <2>3 DEF ClaimVault
    <3> QED BY <1>2, <2>3, <3>1 DEF InTx
  <2> QED BY <2>2, <2>3
<1> QED
  BY <1>1, <1>2 DEF RevokeInv, KeepsRevoked

\* Every step keeps every revocation, and the invariant that open transactions
\* carry the committed ones.
LEMMA RevokeNext ==
  ASSUME IInv, RevokeInv, [Next]_vars
  PROVE  RevokeInv' /\ KeepsRevoked(db.grants, db'.grants)
<1> DEFINE Goal == RevokeInv' /\ KeepsRevoked(db.grants, db'.grants)
<1>1. ASSUME NEW p \in Handler, HandlerStep(p) \/ Rollback(p) PROVE Goal
  <2>1. CASE CommitPush(p) \/ CommitPublish(p)
    BY <2>1, RevokeCommit
  <2>2. CASE ~(CommitPush(p) \/ CommitPublish(p))
    <3>1. RevokeInv' /\ db' = db
      BY <1>1, <2>2, RevokeHandler DEF HandlerStep
    <3> QED BY <3>1 DEF KeepsRevoked
  <2> QED BY <2>1, <2>2
<1>2. ASSUME NEW m \in Member, ClaimVault(m) PROVE Goal
  BY <1>2, RevokeClaim
<1> QED
  BY <1>1, <1>2, RevokeOther DEF Next

\* The revocation of an epoch's grants survives every later push, publish,
\* re-emission, claim, cleanup and rollback.
THEOREM RevocationPermanent == Spec => RevokedForever
<1>1. Init => IInv /\ RevokeInv
  <2>1. Init => RevokeInv
    BY DEF Init, RevokeInv, InTx, Idle, Handling
  <2> QED BY <2>1, SkipInit
<1>2. IInv /\ RevokeInv /\ [Next]_vars => IInv' /\ RevokeInv'
  BY SkipNext, RevokeNext
<1>3. IInv /\ RevokeInv /\ [Next]_vars => [RevokedForeverStep]_vars
  BY RevokeNext DEF KeepsRevoked, RevokedForeverStep
<1> QED
  BY <1>1, <1>2, <1>3, PTL DEF Spec, RevokedForever
-----------------------------------------------------------------------------
(* Replays agree.                                                          *)

\* The record of a key that never expired holds the answer every reply gave.
ReplayInv ==
  \A a \in replies : a.key \notin cleaned \cup {NoKey} =>
    /\ a.key \in DOMAIN idem
    /\ a = [key |-> a.key, who |-> idem[a.key].who, objs |-> idem[a.key].objs,
            base |-> idem[a.key].base]

\* Answering from the record keeps the replies in agreement with it.
LEMMA ReplayFromRecord ==
  ASSUME ReplayInv, NEW r, r.key \in DOMAIN idem, replies' = IdemReply(r),
         UNCHANGED <<idem, cleaned>>
  PROVE  ReplayInv'
<1> DEFINE a == [key |-> r.key, who |-> r.who, objs |-> r.objs, base |-> idem[r.key].base]
<1>1. CASE idem[r.key].who = r.who /\ idem[r.key].objs = r.objs
  <2>1. replies' = replies \cup {a}
    BY <1>1 DEF IdemReply
  <2>2. a.key = r.key /\ a = [key |-> r.key, who |-> idem[r.key].who,
                              objs |-> idem[r.key].objs, base |-> idem[r.key].base]
    BY <1>1
  <2> HIDE DEF a
  <2> QED BY <2>1, <2>2 DEF ReplayInv
<1>2. CASE ~(idem[r.key].who = r.who /\ idem[r.key].objs = r.objs)
  <2>1. replies' = replies
    BY <1>2 DEF IdemReply
  <2> QED BY <2>1 DEF ReplayInv
<1> QED BY <1>1, <1>2

\* The first commit under a key creates the record, and no live reply had it.
LEMMA ReplayCommit ==
  ASSUME ReplayInv, NEW p \in Handler, CommitPush(p)
  PROVE  ReplayInv'
<1> DEFINE r == h[p].req
           a == [key |-> r.key, who |-> r.who, objs |-> r.objs, base |-> h[p].base]
           rec == [who |-> r.who, objs |-> r.objs, base |-> h[p].base, created |-> h[p].at]
<1>1. /\ r.key \notin DOMAIN idem /\ replies' = replies \cup {a} /\ cleaned' = cleaned
      /\ idem' = IF r.key = NoKey THEN idem ELSE Put(idem, r.key, rec)
  BY DEF CommitPush
<1>2. a.key = r.key /\ rec.who = r.who /\ rec.objs = r.objs /\ rec.base = h[p].base
  OBVIOUS
<1>3. \A k \in DOMAIN idem : k \in DOMAIN idem' /\ idem'[k] = idem[k]
  BY <1>1 DEF Put
<1>4. r.key # NoKey => r.key \in DOMAIN idem' /\ idem'[r.key] = rec
  BY <1>1 DEF Put
<1>5. ASSUME NEW b \in replies', b.key \notin cleaned' \cup {NoKey}
      PROVE  /\ b.key \in DOMAIN idem'
             /\ b = [key |-> b.key, who |-> idem'[b.key].who, objs |-> idem'[b.key].objs,
                     base |-> idem'[b.key].base]
  <2>1. CASE b \in replies
    BY <1>1, <1>3, <1>5, <2>1 DEF ReplayInv
  <2>2. CASE b = a
    <3>1. b.key = r.key /\ r.key # NoKey
      BY <1>2, <1>5, <2>2
    <3>2. idem'[b.key] = rec /\ b.key \in DOMAIN idem'
      BY <1>4, <3>1
    <3> QED BY <1>2, <2>2, <3>1, <3>2
  <2> QED BY <1>1, <1>5, <2>1, <2>2
<1> QED
  BY <1>5 DEF ReplayInv

\* Every step keeps the replies in agreement with the idempotency records.
LEMMA ReplayNext ==
  ASSUME ReplayInv, [Next]_vars
  PROVE  ReplayInv'
<1>1. ASSUME NEW p \in Handler, LookupHit(p) \/ LoseKeyRace(p) PROVE ReplayInv'
  BY <1>1, ReplayFromRecord DEF LookupHit, LoseKeyRace
<1>2. ASSUME NEW p \in Handler, CommitPush(p) PROVE ReplayInv'
  BY <1>2, ReplayCommit
<1>3. CASE CleanupExpired
  <2> DEFINE dead == {k \in DOMAIN idem : idem[k].created + IdemTTL < now}
  <2>1. /\ idem' = [k \in DOMAIN idem \ dead |-> idem[k]]
        /\ cleaned' = cleaned \cup dead /\ replies' = replies
    BY <1>3 DEF CleanupExpired
  <2> HIDE DEF dead
  <2> QED BY <2>1 DEF ReplayInv
<1>4. ASSUME UNCHANGED <<idem, replies, cleaned>> PROVE ReplayInv'
  BY <1>4 DEF ReplayInv
<1>5. ASSUME NEW p \in Handler,
             \/ LookupMiss(p) \/ AllocSeqs(p) \/ InsertObject(p) \/ BeginReemit(p)
             \/ ReemitObject(p) \/ CommitPublish(p) \/ Rollback(p)
      PROVE  UNCHANGED <<idem, replies, cleaned>>
  BY <1>5 DEF LookupMiss, AllocSeqs, InsertObject, BeginReemit, ReemitObject,
              CommitPublish, Rollback, history
<1>6. ASSUME \/ \E p \in Handler : \E r \in Request : Receive(p, r)
             \/ \E d \in Reader : PlanPage(d) \/ ReadPage(d) \/ EndPull(d)
             \/ \E m \in Member : ClaimVault(m)
             \/ SeqBump \/ Tick \/ UNCHANGED vars
      PROVE  UNCHANGED <<idem, replies, cleaned>>
  BY <1>6 DEF Receive, PlanPage, ReadPage, EndPull, ClaimVault, SeqBump, Tick, vars, history
<1> QED
  BY <1>1, <1>2, <1>3, <1>4, <1>5, <1>6 DEF Next, HandlerStep

\* However often, in whatever order and however concurrently a push reaches the
\* server, a key that did not expire is answered with one result.
THEOREM ReplaysAgree == Spec => []ReplayStable
<1>1. Init => ReplayInv
  BY DEF Init, ReplayInv
<1>2. ReplayInv /\ [Next]_vars => ReplayInv'
  BY ReplayNext
<1>3. ReplayInv => ReplayStable
  BY DEF ReplayInv, ReplayStable
<1> QED
  BY <1>1, <1>2, <1>3, PTL DEF Spec
-----------------------------------------------------------------------------
(* What was acknowledged stays.                                            *)

\* Row s of a log holds o, or a newer account state of o's author replaced it.
Held(rows, s, o) ==
  \/ s \in DOMAIN rows /\ rows[s] = o
  \/ /\ o.tag = "account"
     /\ \E t \in DOMAIN rows : /\ rows[t].tag = "account" /\ rows[t].author = o.author
                               /\ rows[t].ver > o.ver

\* The first n objects of a push are held at the numbers after its base.
HeldUpTo(rows, base, objs, n) == \A i \in 1..n : Held(rows, base + i, objs[i])

\* An answer, given or recorded: the objects it is for are all in the log.
Answer(rows, a) ==
  a.base \in Nat /\ a.objs \in Seq(Object) /\ HeldUpTo(rows, a.base, a.objs, Len(a.objs))

\* A transaction keeps every row that a committed answer may rest on.
KeepsHeld(R, S) == \A s \in Nat, o \in Object : Held(R, s, o) => Held(S, s, o)

\* How far the insertions of a transaction have come: todo is the rest of the
\* request, the sequence stands at its last inserted object, and what was
\* inserted is held.
InsertedUpTo(D, base, objs, todo, n) ==
  /\ Len(objs) = n + Len(todo)
  /\ D.nextSeq = base + n
  /\ \A i \in 1..Len(todo) : todo[i] = objs[n + i]
  /\ HeldUpTo(D.objects, base, objs, n)
Progress(x) == \E n \in Nat : InsertedUpTo(x.tx, x.base, x.req.objs, x.todo, n)

TxInv ==
  \A p \in Handler :
    /\ InTx(p) => KeepsHeld(db.objects, h[p].tx.objects)
    /\ h[p].pc = "open" => Progress(h[p])

AnswerInv ==
  /\ \A a \in replies : Answer(db.objects, a)
  /\ \A k \in DOMAIN idem : Answer(db.objects, idem[k])

\* Inserting an object loses nothing that was held (a superseded account state
\* has the inserted one as its successor) and holds the new object.
LEMMA InsertHolds ==
  ASSUME NEW D, IsDB(D), NEW o \in Object
  PROVE  /\ KeepsHeld(D.objects, InsertInto(D, o).objects)
         /\ Held(InsertInto(D, o).objects, D.nextSeq + 1, o)
<1> DEFINE n == D.nextSeq + 1
           rows == Put(D.objects, n, o)
           S == InsertInto(D, o).objects
<1>1. S = [t \in {u \in DOMAIN rows : ~Superseded(rows, o, u)} |-> rows[t]]
  BY DEF InsertInto
<1>2. DOMAIN rows = DOMAIN D.objects \cup {n} /\ rows[n] = o
      /\ \A t \in DOMAIN D.objects : t # n => rows[t] = D.objects[t]
  BY DEF Put
<1>3. /\ n \notin DOMAIN D.objects /\ n \in Nat
      /\ \A t \in DOMAIN D.objects : D.objects[t] \in Object
  BY DEF IsDB
<1>4. o.ver \in Nat
  BY DEF Object
<1>5. n \in DOMAIN S /\ S[n] = o
  BY <1>1, <1>2, <1>4 DEF Superseded
<1>6. ASSUME NEW t \in DOMAIN D.objects
      PROVE  \/ t \in DOMAIN S /\ S[t] = D.objects[t]
             \/ /\ o.tag = "account" /\ D.objects[t].tag = "account"
                /\ D.objects[t].author = o.author /\ D.objects[t].ver < o.ver
  BY <1>1, <1>2, <1>3 DEF Superseded
<1> HIDE DEF S, rows
<1>7. ASSUME NEW s \in Nat, NEW x \in Object, Held(D.objects, s, x)
      PROVE  Held(S, s, x)
  <2>1. x.ver \in Nat
    BY DEF Object
  <2>2. CASE s \in DOMAIN D.objects /\ D.objects[s] = x
    BY <1>4, <1>5, <1>6, <2>1, <2>2 DEF Held
  <2>3. CASE x.tag = "account" /\ \E t \in DOMAIN D.objects :
               /\ D.objects[t].tag = "account" /\ D.objects[t].author = x.author
               /\ D.objects[t].ver > x.ver
    <3>1. PICK t \in DOMAIN D.objects :
               /\ D.objects[t].tag = "account" /\ D.objects[t].author = x.author
               /\ D.objects[t].ver > x.ver
      BY <2>3
    <3>2. D.objects[t].ver \in Nat
      BY <1>3 DEF Object
    <3>3. CASE t \in DOMAIN S /\ S[t] = D.objects[t]
      BY <2>3, <3>1, <3>3 DEF Held
    <3>4. CASE /\ o.tag = "account" /\ D.objects[t].tag = "account"
               /\ D.objects[t].author = o.author /\ D.objects[t].ver < o.ver
      <4>1. o.ver > x.ver
        BY <1>4, <2>1, <3>1, <3>2, <3>4
      <4> QED BY <1>5, <2>3, <3>1, <3>4, <4>1 DEF Held
    <3> QED BY <1>6, <3>3, <3>4
  <2> QED BY <1>7, <2>2, <2>3 DEF Held
<1>8. Held(S, n, o)
  BY <1>5 DEF Held
<1> QED BY <1>7, <1>8 DEF KeepsHeld, S

\* What a log keeps, it keeps of every prefix of a push and of every answer.
LEMMA KeepsPrefix ==
  ASSUME NEW R, NEW S, KeepsHeld(R, S), NEW b \in Nat, NEW q \in Seq(Object),
         NEW n \in Nat, n <= Len(q), HeldUpTo(R, b, q, n)
  PROVE  HeldUpTo(S, b, q, n)
<1> SUFFICES ASSUME NEW i \in 1..n PROVE Held(S, b + i, q[i])
  BY DEF HeldUpTo
<1>1. b + i \in Nat /\ q[i] \in Object
  OBVIOUS
<1> QED BY <1>1 DEF HeldUpTo, KeepsHeld

\* A right answer stays right in a log that keeps what is held.
LEMMA KeepsAnswer ==
  ASSUME NEW R, NEW S, KeepsHeld(R, S), NEW a, Answer(R, a)
  PROVE  Answer(S, a)
<1>1. a.base \in Nat /\ a.objs \in Seq(Object) /\ Len(a.objs) \in Nat
  BY DEF Answer
<1> QED BY <1>1, KeepsPrefix DEF Answer

\* insert_object extends what is inserted and held by one object.
LEMMA InsertedOneMore ==
  ASSUME NEW D, IsDB(D), NEW b \in Nat, NEW objs \in Seq(Object), NEW todo \in Seq(Object),
         NEW n \in Nat, InsertedUpTo(D, b, objs, todo, n), todo # << >>
  PROVE  InsertedUpTo(InsertInto(D, Head(todo)), b, objs, Tail(todo), n + 1)
<1> DEFINE o == Head(todo)
           I == InsertInto(D, o)
<1>1. /\ o = todo[1] /\ o \in Object /\ Len(todo) \in Nat /\ Len(todo) > 0
      /\ Len(Tail(todo)) = Len(todo) - 1
      /\ \A i \in 1..Len(Tail(todo)) : Tail(todo)[i] = todo[i + 1]
  OBVIOUS
<1>2. /\ Len(objs) = n + Len(todo) /\ D.nextSeq = b + n
      /\ \A i \in 1..Len(todo) : todo[i] = objs[n + i]
      /\ HeldUpTo(D.objects, b, objs, n)
  BY DEF InsertedUpTo
<1>3. /\ I.nextSeq = D.nextSeq + 1 /\ KeepsHeld(D.objects, I.objects)
      /\ Held(I.objects, D.nextSeq + 1, o)
  BY <1>1, InsertRows, InsertHolds
<1> HIDE DEF I, o
<1>4. Len(objs) = (n + 1) + Len(Tail(todo)) /\ I.nextSeq = b + (n + 1)
  BY <1>1, <1>2, <1>3
<1>5. ASSUME NEW i \in 1..Len(Tail(todo)) PROVE Tail(todo)[i] = objs[(n + 1) + i]
  <2>1. i + 1 \in 1..Len(todo) /\ n + (i + 1) = (n + 1) + i
    BY <1>1
  <2> QED BY <1>1, <1>2, <2>1
<1>6. HeldUpTo(I.objects, b, objs, n)
  BY <1>1, <1>2, <1>3, KeepsPrefix
<1>7. HeldUpTo(I.objects, b, objs, n + 1)
  <2> SUFFICES ASSUME NEW i \in 1..(n + 1) PROVE Held(I.objects, b + i, objs[i])
    BY DEF HeldUpTo
  <2>1. CASE i \in 1..n
    BY <1>6, <2>1 DEF HeldUpTo
  <2>2. CASE i = n + 1
    <3>1. o = objs[n + 1]
      BY <1>1, <1>2
    <3>2. D.nextSeq + 1 = b + (n + 1)
      BY <1>2
    <3> QED BY <1>3, <2>2, <3>1, <3>2
  <2> QED BY <2>1, <2>2
<1> QED BY <1>4, <1>5, <1>7 DEF InsertedUpTo, I, o

\* The same for a handler: the step of insert_object keeps its progress.
LEMMA InsertProgress ==
  ASSUME IInv, NEW p \in Handler, h[p].pc = "open", Progress(h[p]), h[p].todo # << >>,
         NEW x, x = Handling("open", h[p].req, h[p].at, InsertInto(h[p].tx, Head(h[p].todo)),
                             h[p].base, Tail(h[p].todo), {})
  PROVE  Progress(x)
<1>1. /\ IsDB(h[p].tx) /\ h[p].base \in Nat /\ h[p].todo \in Seq(Object)
      /\ h[p].req \in Request
  BY DEF IInv, TypeOK, HandlerState
<1>2. h[p].req.objs \in Seq(Object)
  BY <1>1, RequestAssumption DEF Requests
<1>3. PICK n \in Nat : InsertedUpTo(h[p].tx, h[p].base, h[p].req.objs, h[p].todo, n)
  BY DEF Progress
<1>4. InsertedUpTo(InsertInto(h[p].tx, Head(h[p].todo)), h[p].base, h[p].req.objs,
                   Tail(h[p].todo), n + 1)
  BY <1>1, <1>2, <1>3, InsertedOneMore
<1>5. /\ x.req = h[p].req /\ x.tx = InsertInto(h[p].tx, Head(h[p].todo))
      /\ x.base = h[p].base /\ x.todo = Tail(h[p].todo)
  BY HandlingFields
<1> QED BY <1>4, <1>5 DEF Progress

\* A step inside a transaction, or before it, keeps TxInv and the committed log.
LEMMA AckHandler ==
  ASSUME IInv, TxInv, NEW p \in Handler,
         \/ LookupHit(p) \/ LookupMiss(p) \/ AllocSeqs(p) \/ InsertObject(p)
         \/ LoseKeyRace(p) \/ BeginReemit(p) \/ ReemitObject(p) \/ Rollback(p)
  PROVE  TxInv' /\ db' = db
<1>1. db' = db /\ DOMAIN h = Handler /\ HandlerState(h[p])
  BY DEF IInv, TypeOK, LookupHit, LookupMiss, AllocSeqs, InsertObject, LoseKeyRace,
         BeginReemit, ReemitObject, Rollback
<1>2. \A q \in Handler : q # p => h'[q] = h[q]
  BY <1>1 DEF LookupHit, LookupMiss, AllocSeqs, InsertObject, LoseKeyRace,
              BeginReemit, ReemitObject, Rollback
<1>3. /\ InTx(p)' => KeepsHeld(db.objects, h'[p].tx.objects)
      /\ h'[p].pc = "open" => Progress(h'[p])
  <2>1. CASE LookupHit(p) \/ LookupMiss(p) \/ LoseKeyRace(p) \/ Rollback(p)
    BY <1>1, <2>1 DEF LookupHit, LookupMiss, LoseKeyRace, Rollback, Idle, Handling, InTx
  <2>2. CASE AllocSeqs(p)
    <3> DEFINE x == Handling("open", h[p].req, h[p].at, db, db.nextSeq, h[p].req.objs, {})
    <3>1. h'[p] = x
      BY <1>1, <2>2 DEF AllocSeqs
    <3>2. x.req = h[p].req /\ x.tx = db /\ x.base = db.nextSeq /\ x.todo = h[p].req.objs
      BY HandlingFields
    <3>3. h[p].req.objs \in Seq(Object) /\ db.nextSeq \in Nat
      BY <1>1, <2>2, RequestAssumption DEF AllocSeqs, HandlerState, Requests, IInv, TypeOK, IsDB
    <3> HIDE DEF x
    <3>4. InsertedUpTo(db, db.nextSeq, h[p].req.objs, h[p].req.objs, 0)
      BY <3>3 DEF InsertedUpTo, HeldUpTo
    <3>5. Progress(x)
      BY <3>2, <3>4 DEF Progress
    <3> QED BY <3>1, <3>2, <3>5 DEF KeepsHeld
  <2>3. CASE InsertObject(p)
    <3> DEFINE x == Handling("open", h[p].req, h[p].at, InsertInto(h[p].tx, Head(h[p].todo)),
                             h[p].base, Tail(h[p].todo), {})
    <3>1. h'[p] = x /\ h[p].pc = "open" /\ h[p].todo # << >> /\ InTx(p)
      BY <1>1, <2>3 DEF InsertObject, InTx
    <3>2. x.tx = InsertInto(h[p].tx, Head(h[p].todo))
      BY HandlingFields
    <3>3. Head(h[p].todo) \in Object /\ IsDB(h[p].tx)
      BY <1>1, <3>1 DEF HandlerState
    <3>4. KeepsHeld(h[p].tx.objects, x.tx.objects)
      BY <3>2, <3>3, InsertHolds
    <3>5. Progress(x)
      BY <3>1, InsertProgress DEF TxInv
    <3> HIDE DEF x
    <3> QED BY <3>1, <3>4, <3>5 DEF TxInv, KeepsHeld
  <2>4. CASE BeginReemit(p)
    <3>1. h'[p].tx = h[p].tx /\ InTx(p) /\ h'[p].pc = "reemit"
      BY <1>1, <2>4 DEF BeginReemit, Handling, InTx
    <3> QED BY <3>1 DEF TxInv
  <2>5. CASE ReemitObject(p)
    <3>1. PICK s \in h[p].reemit :
            InTx(p) /\ h'[p].pc = "reemit" /\ h'[p].tx = InsertInto(h[p].tx, h[p].tx.objects[s])
      BY <1>1, <2>5 DEF ReemitObject, Handling, InTx
    <3>2. h[p].tx.objects[s] \in Object /\ IsDB(h[p].tx)
      BY <1>1 DEF HandlerState, IsDB
    <3>3. KeepsHeld(h[p].tx.objects, h'[p].tx.objects)
      BY <3>1, <3>2, InsertHolds
    <3> QED BY <3>1, <3>3 DEF TxInv, KeepsHeld
  <2> QED BY <2>1, <2>2, <2>3, <2>4, <2>5
<1> QED
  BY <1>1, <1>2, <1>3 DEF TxInv, InTx

\* A commit publishes a log that keeps everything held, and ends the only
\* transaction there is.
LEMMA AckCommit ==
  ASSUME IInv, TxInv, NEW p \in Handler, CommitPush(p) \/ CommitPublish(p)
  PROVE  TxInv' /\ KeepsHeld(db.objects, db'.objects) /\ db'.objects = h[p].tx.objects
<1>1. DOMAIN h = Handler /\ InTx(p) /\ IsDB(h[p].tx)
  BY DEF IInv, TypeOK, CommitPush, CommitPublish, InTx, HandlerState
<1>2. lock = p /\ KeepsHeld(db.objects, h[p].tx.objects)
  BY <1>1 DEF IInv, LockInv, TxInv
<1>3. h' = [h EXCEPT ![p] = Idle]
  BY DEF CommitPush, CommitPublish
<1>4. \A q \in Handler : ~InTx(q)'
  BY <1>1, <1>2, <1>3, LockExcludes DEF IInv, InTx, Idle, Handling
<1>5. db'.objects = h[p].tx.objects
  BY <1>1 DEF CommitPush, CommitPublish, IsDB
<1> QED
  BY <1>2, <1>4, <1>5 DEF TxInv, InTx

\* Every other step leaves the rows alone, those of open transactions too.
LEMMA AckOther ==
  ASSUME IInv, TxInv,
         \/ \E p \in Handler : \E r \in Request : Receive(p, r)
         \/ \E d \in Reader : PlanPage(d) \/ ReadPage(d) \/ EndPull(d)
         \/ SeqBump \/ Tick \/ CleanupExpired \/ UNCHANGED vars
  PROVE  TxInv' /\ db'.objects = db.objects
<1>1. db'.objects = db.objects
  <2>1. CASE SeqBump
    BY <2>1 DEF SeqBump, IInv, TypeOK, IsDB
  <2>2. CASE ~SeqBump
    BY <2>2 DEF Receive, PlanPage, ReadPage, EndPull, Tick, CleanupExpired, vars
  <2> QED BY <2>1, <2>2
<1>2. \A q \in Handler : InTx(q)' => InTx(q) /\ h'[q] = h[q]
  <2>1. CASE \E p \in Handler : \E r \in Request : Receive(p, r)
    BY <2>1 DEF Receive, Handling, InTx, IInv, TypeOK
  <2>2. CASE ~\E p \in Handler : \E r \in Request : Receive(p, r)
    <3>1. h' = h
      BY <2>2 DEF PlanPage, ReadPage, EndPull, SeqBump, Tick, CleanupExpired, vars
    <3> QED BY <3>1 DEF InTx
  <2> QED BY <2>1, <2>2
<1> QED
  BY <1>1, <1>2 DEF TxInv, InTx

\* claim_vault writes the vaults row only, in the log and in open transactions.
LEMMA AckClaim ==
  ASSUME IInv, TxInv, NEW m \in Member, ClaimVault(m)
  PROVE  TxInv' /\ db'.objects = db.objects
<1>1. db'.objects = db.objects
  BY DEF ClaimVault, IInv, TypeOK, IsDB
<1>2. ASSUME NEW q \in Handler, InTx(q)'
      PROVE  /\ InTx(q) /\ h'[q].tx.objects = h[q].tx.objects
             /\ h'[q].tx.nextSeq = h[q].tx.nextSeq
             /\ h'[q].pc = h[q].pc /\ h'[q].req = h[q].req /\ h'[q].base = h[q].base
             /\ h'[q].todo = h[q].todo
  <2>1. HandlerState(h[q])
    BY DEF IInv, TypeOK
  <2>2. CASE InTx(q)
    <3> DEFINE E == [h[q].tx EXCEPT !.vault = [owner |-> m, ver |-> 0, epoch |-> 0,
                                               tomb |-> FALSE]]
    <3>1. h'[q] = [h[q] EXCEPT !.tx = E]
      BY <2>2 DEF ClaimVault
    <3>2. E.objects = h[q].tx.objects /\ E.nextSeq = h[q].tx.nextSeq
      BY <2>1 DEF HandlerState, IsDB
    <3> HIDE DEF E
    <3>3. /\ h'[q].tx = E /\ h'[q].pc = h[q].pc /\ h'[q].req = h[q].req
          /\ h'[q].base = h[q].base /\ h'[q].todo = h[q].todo
      BY <2>1, <3>1 DEF HandlerState, Handling
    <3> QED BY <2>2, <3>2, <3>3
  <2>3. CASE ~InTx(q)
    <3>1. h'[q] = h[q]
      BY <2>3 DEF ClaimVault
    <3> QED BY <1>2, <2>3, <3>1 DEF InTx
  <2> QED BY <2>2, <2>3
<1>3. \A q \in Handler : InTx(q)' => KeepsHeld(db'.objects, h'[q].tx.objects)
  BY <1>1, <1>2 DEF TxInv
<1>4. ASSUME NEW q \in Handler, h'[q].pc = "open" PROVE Progress(h'[q])
  <2>1. InTx(q)'
    BY <1>4 DEF InTx
  <2>2. Progress(h[q])
    BY <1>2, <1>4, <2>1 DEF TxInv
  <2>3. PICK n \in Nat : InsertedUpTo(h[q].tx, h[q].base, h[q].req.objs, h[q].todo, n)
    BY <2>2 DEF Progress
  <2>4. InsertedUpTo(h'[q].tx, h'[q].base, h'[q].req.objs, h'[q].todo, n)
    BY <1>2, <2>1, <2>3 DEF InsertedUpTo
  <2> QED BY <2>4 DEF Progress
<1> QED
  BY <1>1, <1>3, <1>4 DEF TxInv

\* Answers stay right when the log keeps what is held and every new answer, or
\* new record, is right.
LEMMA AnswersKept ==
  ASSUME AnswerInv, KeepsHeld(db.objects, db'.objects),
         \A a \in replies' : a \in replies \/ Answer(db'.objects, a),
         \A k \in DOMAIN idem' : \/ k \in DOMAIN idem /\ idem'[k] = idem[k]
                                 \/ Answer(db'.objects, idem'[k])
  PROVE  AnswerInv'
<1>1. \A a \in replies' : Answer(db'.objects, a)
  BY KeepsAnswer DEF AnswerInv
<1>2. \A k \in DOMAIN idem' : Answer(db'.objects, idem'[k])
  BY KeepsAnswer DEF AnswerInv
<1> QED BY <1>1, <1>2 DEF AnswerInv

\* A log keeps what it holds.
LEMMA SameHolds ==
  ASSUME NEW R
  PROVE  KeepsHeld(R, R)
BY DEF KeepsHeld

\* Answering from a record gives a right answer, since the record is one.
LEMMA AnswerFromRecord ==
  ASSUME AnswerInv, NEW r, r.key \in DOMAIN idem, replies' = IdemReply(r),
         UNCHANGED <<db, idem>>
  PROVE  AnswerInv'
<1> DEFINE a == [key |-> r.key, who |-> r.who, objs |-> r.objs, base |-> idem[r.key].base]
<1>1. CASE idem[r.key].who = r.who /\ idem[r.key].objs = r.objs
  <2>1. replies' = replies \cup {a}
    BY <1>1 DEF IdemReply
  <2>2. a.base = idem[r.key].base /\ a.objs = idem[r.key].objs
    BY <1>1
  <2> HIDE DEF a
  <2>3. Answer(db.objects, a)
    BY <2>2 DEF AnswerInv, Answer
  <2> QED BY <2>1, <2>3, SameHolds, AnswersKept
<1>2. CASE ~(idem[r.key].who = r.who /\ idem[r.key].objs = r.objs)
  <2>1. replies' = replies
    BY <1>2 DEF IdemReply
  <2> QED BY <2>1, SameHolds, AnswersKept
<1> QED BY <1>1, <1>2

\* The commit of a push answers with a base after which all of its objects are held.
LEMMA AnswerCommit ==
  ASSUME IInv, TxInv, AnswerInv, NEW p \in Handler, CommitPush(p)
  PROVE  AnswerInv'
<1> DEFINE r == h[p].req
           a == [key |-> r.key, who |-> r.who, objs |-> r.objs, base |-> h[p].base]
           rec == [who |-> r.who, objs |-> r.objs, base |-> h[p].base, created |-> h[p].at]
<1>1. /\ h[p].pc = "open" /\ h[p].todo = << >> /\ replies' = replies \cup {a}
      /\ idem' = IF r.key = NoKey THEN idem ELSE Put(idem, r.key, rec)
  BY DEF CommitPush
<1>2. KeepsHeld(db.objects, db'.objects) /\ db'.objects = h[p].tx.objects
  BY AckCommit
<1>3. HandlerState(h[p]) /\ h[p].base \in Nat /\ r \in Request
  BY <1>1 DEF IInv, TypeOK, HandlerState
<1>4. r.objs \in Seq(Object) /\ Len(r.objs) \in Nat
  BY <1>3, RequestAssumption DEF Requests
<1>5. HeldUpTo(db'.objects, h[p].base, r.objs, Len(r.objs))
  <2>1. Progress(h[p]) /\ Len(h[p].todo) = 0
    BY <1>1 DEF TxInv
  <2>2. PICK n \in Nat : InsertedUpTo(h[p].tx, h[p].base, r.objs, h[p].todo, n)
    BY <2>1 DEF Progress
  <2>3. n = Len(r.objs) /\ HeldUpTo(h[p].tx.objects, h[p].base, r.objs, n)
    BY <2>1, <2>2 DEF InsertedUpTo
  <2> QED BY <1>2, <2>3
<1>6. a.base = h[p].base /\ a.objs = r.objs /\ rec.base = h[p].base /\ rec.objs = r.objs
  OBVIOUS
<1> HIDE DEF a, rec, r
<1>7. Answer(db'.objects, a) /\ Answer(db'.objects, rec)
  BY <1>3, <1>4, <1>5, <1>6 DEF Answer
<1>8. \A k \in DOMAIN idem' : (k \in DOMAIN idem /\ idem'[k] = idem[k]) \/ idem'[k] = rec
  BY <1>1 DEF Put
<1> QED BY <1>1, <1>2, <1>7, <1>8, AnswersKept

\* Every step keeps the transactions in order and the answers right.
LEMMA AckNext ==
  ASSUME IInv, TxInv, AnswerInv, [Next]_vars
  PROVE  TxInv' /\ AnswerInv'
<1> DEFINE Goal == TxInv' /\ AnswerInv'
<1>1. ASSUME NEW p \in Handler, LookupHit(p) \/ LoseKeyRace(p) PROVE Goal
  <2>1. TxInv' /\ db' = db
    BY <1>1, AckHandler
  <2>2. AnswerInv'
    BY <1>1, <2>1, AnswerFromRecord DEF LookupHit, LoseKeyRace
  <2> QED BY <2>1, <2>2
<1>2. ASSUME NEW p \in Handler, CommitPush(p) PROVE Goal
  BY <1>2, AckCommit, AnswerCommit
<1>3. ASSUME NEW p \in Handler,
             \/ LookupMiss(p) \/ AllocSeqs(p) \/ InsertObject(p) \/ BeginReemit(p)
             \/ ReemitObject(p) \/ CommitPublish(p) \/ Rollback(p)
      PROVE  Goal
  <2>1. UNCHANGED <<idem, replies>>
    BY <1>3 DEF LookupMiss, AllocSeqs, InsertObject, BeginReemit, ReemitObject,
                CommitPublish, Rollback, history
  <2>2. TxInv' /\ KeepsHeld(db.objects, db'.objects)
    <3>1. CASE CommitPublish(p)
      BY <3>1, AckCommit
    <3>2. CASE ~CommitPublish(p)
      <4>1. TxInv' /\ db' = db
        BY <1>3, <3>2, AckHandler
      <4> QED BY <4>1, SameHolds
    <3> QED BY <3>1, <3>2
  <2> QED BY <2>1, <2>2, AnswersKept
<1>4. ASSUME \/ \E p \in Handler : \E r \in Request : Receive(p, r)
             \/ \E d \in Reader : PlanPage(d) \/ ReadPage(d) \/ EndPull(d)
             \/ SeqBump \/ Tick \/ CleanupExpired \/ UNCHANGED vars
      PROVE  Goal
  <2>1. TxInv' /\ db'.objects = db.objects
    BY <1>4, AckOther
  <2>2. replies' = replies
    BY <1>4 DEF Receive, PlanPage, ReadPage, EndPull, SeqBump, Tick, CleanupExpired,
                vars, history
  <2>3. \A k \in DOMAIN idem' : k \in DOMAIN idem /\ idem'[k] = idem[k]
    <3>1. CASE CleanupExpired
      <4> DEFINE dead == {k \in DOMAIN idem : idem[k].created + IdemTTL < now}
      <4>1. idem' = [k \in DOMAIN idem \ dead |-> idem[k]]
        BY <3>1 DEF CleanupExpired
      <4> HIDE DEF dead
      <4> QED BY <4>1
    <3>2. CASE ~CleanupExpired
      <4>1. idem' = idem
        BY <1>4, <3>2 DEF Receive, PlanPage, ReadPage, EndPull, SeqBump, Tick, vars
      <4> QED BY <4>1
    <3> QED BY <3>1, <3>2
  <2> QED BY <2>1, <2>2, <2>3, SameHolds, AnswersKept
<1>5. ASSUME NEW m \in Member, ClaimVault(m) PROVE Goal
  <2>1. TxInv' /\ db'.objects = db.objects
    BY <1>5, AckClaim
  <2>2. UNCHANGED <<idem, replies>>
    BY <1>5 DEF ClaimVault
  <2> QED BY <2>1, <2>2, SameHolds, AnswersKept
<1> QED
  BY <1>1, <1>2, <1>3, <1>4, <1>5 DEF Next, HandlerStep

\* What a push acknowledged, first hand or from the idempotency record, stays in
\* the log at the numbers it was told, or was replaced by a newer account state
\* of the same author, through every later transaction, rollback and compaction.
THEOREM AcknowledgedStays == Spec => []AckedDurable
<1>1. Init => IInv /\ TxInv /\ AnswerInv
  <2>1. Init => TxInv
    BY DEF Init, TxInv, InTx, Idle, Handling
  <2>2. Init => AnswerInv
    BY DEF Init, AnswerInv
  <2> QED BY <2>1, <2>2, SkipInit
<1>2. IInv /\ TxInv /\ AnswerInv /\ [Next]_vars => IInv' /\ TxInv' /\ AnswerInv'
  BY SkipNext, AckNext
<1>3. AnswerInv => AckedDurable
  <2> SUFFICES ASSUME AnswerInv, NEW a \in replies, NEW i \in DOMAIN a.objs
               PROVE  Held(db.objects, a.base + i, a.objs[i])
    BY DEF AckedDurable, Held
  <2>1. a.objs \in Seq(Object) /\ HeldUpTo(db.objects, a.base, a.objs, Len(a.objs))
    BY DEF AnswerInv, Answer
  <2> QED BY <2>1 DEF HeldUpTo
<1> QED
  BY <1>1, <1>2, <1>3, PTL DEF Spec
-----------------------------------------------------------------------------
(* A page is complete.                                                     *)

\* The second read returned every row up to its last one that the request
\* could see, so a cursor that moves passes none of them.
LEMMA PageStep ==
  ASSUME IInv, NEW d \in Reader, ReadPage(d), rd'[d].cursor # rd[d].cursor,
         NEW s \in DOMAIN db.objects, rd[d].cur < s, s <= rd'[d].cursor,
         Visible(db, d, s, rd[d].at)
  PROVE  s \in delivered'[d]
<1>1. PICK P \in SUBSET InRange(d) :
        /\ IsFirst(P, InRange(d), rd[d].count)
        /\ delivered' = [delivered EXCEPT ![d] = @ \cup P]
        /\ \E last \in P \cup {rd[d].cursor} : \E c :
             rd' = [rd EXCEPT ![d] = Resting(last, c)]
  BY DEF ReadPage
<1>2. PICK last \in P \cup {rd[d].cursor} : \E c : rd' = [rd EXCEPT ![d] = Resting(last, c)]
  BY <1>1
<1>3. rd \in [Reader -> ReaderState] /\ delivered \in [Reader -> SUBSET Nat]
      /\ DOMAIN db.objects \subseteq Nat
  BY DEF IInv, TypeOK, IsDB
<1>4. rd'[d].cursor = last
  BY <1>2, <1>3 DEF Resting
<1>5. last \in P
  BY <1>4
<1>6. \A t \in InRange(d) : t \in Nat /\ t <= rd[d].upto
  BY <1>3 DEF InRange, VisibleAfter
<1>7. s \in InRange(d)
  <2>1. s \in Nat /\ last \in Nat /\ last <= rd[d].upto /\ rd[d].upto \in Nat /\ s <= last
    BY <1>3, <1>4, <1>5, <1>6 DEF ReaderState
  <2> QED BY <2>1 DEF InRange, VisibleAfter
<1>8. s \in P
  <2> SUFFICES ASSUME s \notin P PROVE FALSE
    OBVIOUS
  <2>1. last < s
    BY <1>1, <1>5, <1>7 DEF IsFirst
  <2> QED BY <1>3, <1>4, <1>5, <1>6, <2>1
<1> QED BY <1>1, <1>3, <1>8

\* A reader's cursor moves only over rows that were all handed over: whatever
\* commits between the two reads of delta_page, at any page limit.
THEOREM PagesAreComplete == Spec => PageComplete
<1>1. ASSUME IInv, [Next]_vars PROVE PageCompleteStep
  <2> SUFFICES ASSUME NEW d \in Reader, rd'[d].cursor # rd[d].cursor,
                      NEW s \in DOMAIN db.objects, rd[d].cur < s, s <= rd'[d].cursor,
                      Visible(db, d, s, rd[d].at)
               PROVE  s \in delivered'[d]
    BY DEF PageCompleteStep
  <2>1. PICK e \in Reader : PlanPage(e) \/ ReadPage(e) \/ EndPull(e)
    <3>1. rd' # rd
      OBVIOUS
    <3> QED BY <1>1, <3>1 DEF Next, HandlerStep, Receive, LookupHit, LookupMiss, AllocSeqs,
                   InsertObject, LoseKeyRace, CommitPush, BeginReemit, ReemitObject,
                   CommitPublish, Rollback, ClaimVault, SeqBump, Tick, CleanupExpired, vars
  <2>2. rd \in [Reader -> ReaderState]
    BY <1>1 DEF IInv, TypeOK
  <2>3. e = d
    <3>1. \A x \in Reader : x # e => rd'[x] = rd[x]
      BY <2>1, <2>2 DEF PlanPage, ReadPage, EndPull
    <3> QED BY <3>1
  <2>4. ~EndPull(d) /\ ~PlanPage(d)
    BY <2>2 DEF EndPull, PlanPage, Resting
  <2> QED BY <1>1, <2>1, <2>3, <2>4, PageStep
<1>2. IInv /\ [Next]_vars => [PageCompleteStep]_vars
  BY <1>1
<1>3. Init => IInv
  BY SkipInit
<1>4. IInv /\ [Next]_vars => IInv'
  BY SkipNext
<1> QED
  BY <1>2, <1>3, <1>4, PTL DEF Spec, PageComplete
-----------------------------------------------------------------------------
(* The manifest of an epoch is the first in the log.                       *)

IsManifest(D, s, e) ==
  s \in DOMAIN D.objects /\ D.objects[s].tag = "manifest" /\ D.objects[s].epoch = e

\* Row s decided epoch e: no manifest of e precedes it, and the table has its content.
Decides(D, s, e) ==
  /\ IsManifest(D, s, e)
  /\ \A t \in DOMAIN D.objects : IsManifest(D, t, e) => s <= t
  /\ D.manifests[e] = [author |-> D.objects[s].author, roles |-> D.objects[s].roles]

\* ManifestFirstWins of any database.
FirstDecides(D) ==
  /\ \A s \in DOMAIN D.objects :
       D.objects[s].tag = "manifest" => D.objects[s].epoch \in DOMAIN D.manifests
  /\ \A e \in DOMAIN D.manifests : \E s \in DOMAIN D.objects : Decides(D, s, e)

ManifestInv ==
  FirstDecides(db) /\ \A p \in Handler : InTx(p) => FirstDecides(h[p].tx)

\* The rows after an insertion, exactly: the new one, and of the old ones all
\* but account states.
LEMMA InsertKeepsRows ==
  ASSUME NEW D, IsDB(D), NEW o \in Object
  PROVE  LET I == InsertInto(D, o) IN
         /\ D.nextSeq + 1 \in DOMAIN I.objects /\ I.objects[D.nextSeq + 1] = o
         /\ \A s \in DOMAIN D.objects : D.objects[s].tag # "account" =>
              s \in DOMAIN I.objects /\ I.objects[s] = D.objects[s]
<1> DEFINE n == D.nextSeq + 1
           rows == Put(D.objects, n, o)
           S == InsertInto(D, o).objects
<1>1. S = [t \in {u \in DOMAIN rows : ~Superseded(rows, o, u)} |-> rows[t]]
  BY DEF InsertInto
<1>2. DOMAIN rows = DOMAIN D.objects \cup {n} /\ rows[n] = o
      /\ \A t \in DOMAIN D.objects : t # n => rows[t] = D.objects[t]
  BY DEF Put
<1>3. n \notin DOMAIN D.objects /\ o.ver \in Nat
  BY DEF IsDB, Object
<1>4. n \in DOMAIN S /\ S[n] = o
  BY <1>1, <1>2, <1>3 DEF Superseded
<1>5. \A s \in DOMAIN D.objects : D.objects[s].tag # "account" =>
        s \in DOMAIN S /\ S[s] = D.objects[s]
  BY <1>1, <1>2, <1>3 DEF Superseded
<1> QED BY <1>4, <1>5

\* insert_object and materialize keep the first manifest of every epoch in force.
LEMMA InsertFirstDecides ==
  ASSUME NEW D, IsDB(D), NEW o \in Object, FirstDecides(D)
  PROVE  FirstDecides(InsertInto(D, o))
<1> DEFINE I == InsertInto(D, o)
           n == D.nextSeq + 1
<1>1. /\ n \in DOMAIN I.objects /\ I.objects[n] = o
      /\ \A s \in DOMAIN D.objects : D.objects[s].tag # "account" =>
           s \in DOMAIN I.objects /\ I.objects[s] = D.objects[s]
  BY InsertKeepsRows
<1>2. /\ DOMAIN I.objects \subseteq DOMAIN D.objects \cup {n}
      /\ \A s \in DOMAIN I.objects : I.objects[s] = IF s = n THEN o ELSE D.objects[s]
  BY InsertRows
<1>3. DOMAIN D.objects \subseteq 1..D.nextSeq /\ D.nextSeq \in Nat
  BY DEF IsDB
<1>4. I.manifests = IF o.tag = "manifest" THEN MaterializeManifest(D.manifests, o)
                    ELSE D.manifests
  BY DEF InsertInto
<1> HIDE DEF I
<1>5. \A e \in DOMAIN D.manifests : e \in DOMAIN I.manifests /\ I.manifests[e] = D.manifests[e]
  BY <1>4 DEF MaterializeManifest, Put
<1>6. \A s \in DOMAIN I.objects :
        I.objects[s].tag = "manifest" => I.objects[s].epoch \in DOMAIN I.manifests
  <2> SUFFICES ASSUME NEW s \in DOMAIN I.objects, I.objects[s].tag = "manifest"
               PROVE  I.objects[s].epoch \in DOMAIN I.manifests
    OBVIOUS
  <2>1. CASE s = n
    <3>1. I.objects[s] = o /\ I.manifests = MaterializeManifest(D.manifests, o)
      BY <1>1, <1>4, <2>1
    <3> QED BY <3>1 DEF MaterializeManifest, Put
  <2>2. CASE s # n
    <3>1. s \in DOMAIN D.objects /\ I.objects[s] = D.objects[s]
      BY <1>2, <2>2
    <3> QED BY <1>5, <3>1 DEF FirstDecides
  <2> QED BY <2>1, <2>2
<1>7. ASSUME NEW e \in DOMAIN D.manifests
      PROVE  \E s \in DOMAIN I.objects : Decides(I, s, e)
  <2>1. PICK s \in DOMAIN D.objects : Decides(D, s, e)
    BY DEF FirstDecides
  <2>2. s \in DOMAIN I.objects /\ I.objects[s] = D.objects[s] /\ s \in Nat /\ s <= n
    BY <1>1, <1>3, <2>1 DEF Decides, IsManifest
  <2>3. ASSUME NEW t \in DOMAIN I.objects, IsManifest(I, t, e) PROVE s <= t
    <3>1. CASE t = n
      BY <2>2, <3>1
    <3>2. CASE t # n
      <4>1. t \in DOMAIN D.objects /\ I.objects[t] = D.objects[t]
        BY <1>2, <3>2
      <4>2. IsManifest(D, t, e)
        BY <2>3, <4>1 DEF IsManifest
      <4> QED BY <2>1, <4>1, <4>2 DEF Decides
    <3> QED BY <3>1, <3>2
  <2>4. Decides(I, s, e)
    BY <1>5, <2>1, <2>2, <2>3 DEF Decides, IsManifest
  <2> QED BY <2>2, <2>4
<1>8. ASSUME NEW e \in DOMAIN I.manifests, e \notin DOMAIN D.manifests
      PROVE  Decides(I, n, e)
  <2>1. o.tag = "manifest" /\ o.epoch = e
    BY <1>4, <1>8 DEF MaterializeManifest, Put
  <2>2. I.manifests[e] = [author |-> o.author, roles |-> o.roles]
    BY <1>4, <1>8, <2>1 DEF MaterializeManifest, Put
  <2>3. ASSUME NEW t \in DOMAIN I.objects, IsManifest(I, t, e) PROVE n <= t
    <3>1. CASE t = n
      BY <1>3, <3>1
    <3>2. CASE t # n
      <4>1. t \in DOMAIN D.objects /\ I.objects[t] = D.objects[t]
        BY <1>2, <3>2
      <4>2. e \in DOMAIN D.manifests
        BY <2>3, <4>1 DEF IsManifest, FirstDecides
      <4> QED BY <1>8, <4>2
    <3> QED BY <3>1, <3>2
  <2> QED BY <1>1, <2>1, <2>2, <2>3 DEF Decides, IsManifest
<1>9. \A e \in DOMAIN I.manifests : \E s \in DOMAIN I.objects : Decides(I, s, e)
  BY <1>1, <1>7, <1>8
<1> QED BY <1>6, <1>9 DEF FirstDecides, I

\* Only the rows and the manifests matter.
LEMMA SameManifests ==
  ASSUME NEW D, NEW E, FirstDecides(D), E.objects = D.objects, E.manifests = D.manifests
  PROVE  FirstDecides(E)
BY DEF FirstDecides, Decides, IsManifest

\* A step inside a transaction keeps the first manifests in force.
LEMMA ManifestHandler ==
  ASSUME IInv, ManifestInv, NEW p \in Handler,
         \/ LookupHit(p) \/ LookupMiss(p) \/ AllocSeqs(p) \/ InsertObject(p)
         \/ LoseKeyRace(p) \/ BeginReemit(p) \/ ReemitObject(p) \/ Rollback(p)
  PROVE  ManifestInv'
<1>1. db' = db /\ DOMAIN h = Handler /\ HandlerState(h[p])
  BY DEF IInv, TypeOK, LookupHit, LookupMiss, AllocSeqs, InsertObject, LoseKeyRace,
         BeginReemit, ReemitObject, Rollback
<1>2. \A q \in Handler : q # p => h'[q] = h[q]
  BY <1>1 DEF LookupHit, LookupMiss, AllocSeqs, InsertObject, LoseKeyRace,
              BeginReemit, ReemitObject, Rollback
<1>3. ASSUME InTx(p)' PROVE FirstDecides(h'[p].tx)
  <2>1. CASE LookupHit(p) \/ LookupMiss(p) \/ LoseKeyRace(p) \/ Rollback(p)
    BY <1>1, <1>3, <2>1 DEF LookupHit, LookupMiss, LoseKeyRace, Rollback, Idle, Handling, InTx
  <2>2. CASE AllocSeqs(p)
    <3>1. h'[p].tx = db
      BY <1>1, <2>2 DEF AllocSeqs, Handling
    <3> QED BY <3>1 DEF ManifestInv
  <2>3. CASE InsertObject(p)
    <3>1. h'[p].tx = InsertInto(h[p].tx, Head(h[p].todo)) /\ InTx(p)
      BY <1>1, <2>3 DEF InsertObject, Handling, InTx
    <3>2. h[p].todo \in Seq(Object) /\ h[p].todo # << >> /\ IsDB(h[p].tx)
      BY <1>1, <2>3 DEF InsertObject, HandlerState
    <3>3. Head(h[p].todo) \in Object
      BY <3>2
    <3> QED BY <3>1, <3>2, <3>3, InsertFirstDecides DEF ManifestInv
  <2>4. CASE BeginReemit(p)
    <3>1. h'[p].tx = h[p].tx /\ InTx(p)
      BY <1>1, <2>4 DEF BeginReemit, Handling, InTx
    <3> QED BY <3>1 DEF ManifestInv
  <2>5. CASE ReemitObject(p)
    <3>1. PICK s \in h[p].reemit :
            InTx(p) /\ h'[p].tx = InsertInto(h[p].tx, h[p].tx.objects[s])
      BY <1>1, <2>5 DEF ReemitObject, Handling, InTx
    <3>2. h[p].tx.objects[s] \in Object /\ IsDB(h[p].tx)
      BY <1>1 DEF HandlerState, IsDB
    <3> QED BY <3>1, <3>2, InsertFirstDecides DEF ManifestInv
  <2> QED BY <2>1, <2>2, <2>3, <2>4, <2>5
<1> QED
  BY <1>1, <1>2, <1>3 DEF ManifestInv, InTx

\* A commit publishes the rows and manifests of the only open transaction.
LEMMA ManifestCommit ==
  ASSUME IInv, ManifestInv, NEW p \in Handler, CommitPush(p) \/ CommitPublish(p)
  PROVE  ManifestInv'
<1>1. DOMAIN h = Handler /\ InTx(p) /\ IsDB(h[p].tx)
  BY DEF IInv, TypeOK, CommitPush, CommitPublish, InTx, HandlerState
<1>2. lock = p /\ FirstDecides(h[p].tx) /\ h' = [h EXCEPT ![p] = Idle]
  BY <1>1 DEF IInv, LockInv, ManifestInv, CommitPush, CommitPublish
<1>3. \A q \in Handler : ~InTx(q)'
  BY <1>1, <1>2, LockExcludes DEF IInv, InTx, Idle, Handling
<1>4. db'.objects = h[p].tx.objects /\ db'.manifests = h[p].tx.manifests
  BY <1>1 DEF CommitPush, CommitPublish, IsDB
<1>5. FirstDecides(db')
  BY <1>2, <1>4, SameManifests
<1> QED
  BY <1>3, <1>5 DEF ManifestInv

\* Every other step leaves rows and manifests alone.
LEMMA ManifestOther ==
  ASSUME IInv, ManifestInv,
         \/ \E p \in Handler : \E r \in Request : Receive(p, r)
         \/ \E d \in Reader : PlanPage(d) \/ ReadPage(d) \/ EndPull(d)
         \/ \E m \in Member : ClaimVault(m)
         \/ SeqBump \/ Tick \/ CleanupExpired \/ UNCHANGED vars
  PROVE  ManifestInv'
<1>1. db'.objects = db.objects /\ db'.manifests = db.manifests
  <2>1. CASE SeqBump \/ \E m \in Member : ClaimVault(m)
    BY <2>1 DEF SeqBump, ClaimVault, IInv, TypeOK, IsDB
  <2>2. CASE ~(SeqBump \/ \E m \in Member : ClaimVault(m))
    BY <2>2 DEF Receive, PlanPage, ReadPage, EndPull, Tick, CleanupExpired, vars
  <2> QED BY <2>1, <2>2
<1>2. ASSUME NEW q \in Handler, InTx(q)'
      PROVE  InTx(q) /\ h'[q].tx.objects = h[q].tx.objects
             /\ h'[q].tx.manifests = h[q].tx.manifests
  <2>1. CASE \E p \in Handler : \E r \in Request : Receive(p, r)
    BY <1>2, <2>1 DEF Receive, Handling, InTx, IInv, TypeOK
  <2>2. CASE \E m \in Member : ClaimVault(m)
    <3>1. PICK m \in Member : ClaimVault(m)
      BY <2>2
    <3>2. HandlerState(h[q])
      BY DEF IInv, TypeOK
    <3>3. CASE InTx(q)
      <4> DEFINE E == [h[q].tx EXCEPT !.vault = [owner |-> m, ver |-> 0, epoch |-> 0,
                                                 tomb |-> FALSE]]
      <4>1. h'[q] = [h[q] EXCEPT !.tx = E]
        BY <3>1, <3>3 DEF ClaimVault
      <4>2. E.objects = h[q].tx.objects /\ E.manifests = h[q].tx.manifests
        BY <3>2 DEF HandlerState, IsDB
      <4> HIDE DEF E
      <4>3. h'[q].tx = E
        BY <3>2, <4>1 DEF HandlerState, Handling
      <4> QED BY <3>3, <4>2, <4>3
    <3>4. CASE ~InTx(q)
      <4>1. h'[q] = h[q]
        BY <3>1, <3>4 DEF ClaimVault
      <4> QED BY <1>2, <3>4, <4>1 DEF InTx
    <3> QED BY <3>3, <3>4
  <2>3. CASE ~(\/ \E p \in Handler : \E r \in Request : Receive(p, r)
               \/ \E m \in Member : ClaimVault(m))
    <3>1. h' = h
      BY <2>3 DEF PlanPage, ReadPage, EndPull, SeqBump, Tick, CleanupExpired, vars
    <3> QED BY <1>2, <3>1 DEF InTx
  <2> QED BY <2>1, <2>2, <2>3
<1>3. FirstDecides(db')
  BY <1>1, SameManifests DEF ManifestInv
<1>4. ASSUME NEW q \in Handler, InTx(q)' PROVE FirstDecides(h'[q].tx)
  BY <1>2, <1>4, SameManifests DEF ManifestInv
<1> QED
  BY <1>3, <1>4 DEF ManifestInv

\* Who may read or write at an epoch is decided by the first manifest of that
\* epoch in the log, and every epoch of the table has one: no later manifest,
\* re-emission or compaction changes it.
THEOREM FirstManifestDecides == Spec => []ManifestFirstWins
<1>1. Init => IInv /\ ManifestInv
  <2>1. Init => ManifestInv
    BY DEF Init, ManifestInv, FirstDecides, EmptyDB, InTx, Idle, Handling
  <2> QED BY <2>1, SkipInit
<1>2. IInv /\ ManifestInv /\ [Next]_vars => IInv' /\ ManifestInv'
  <2>1. IInv /\ ManifestInv /\ [Next]_vars => ManifestInv'
    BY ManifestHandler, ManifestCommit, ManifestOther DEF Next, HandlerStep
  <2> QED BY <2>1, SkipNext
<1>3. ManifestInv => ManifestFirstWins
  <2> SUFFICES ASSUME FirstDecides(db) PROVE ManifestFirstWins
    BY DEF ManifestInv
  <2>1. ASSUME NEW e \in DOMAIN db.manifests
        PROVE  \E s \in Rows("manifest") :
                 /\ db.objects[s].epoch = e
                 /\ \A t \in Rows("manifest") : db.objects[t].epoch = e => s <= t
                 /\ db.manifests[e] = [author |-> db.objects[s].author,
                                       roles |-> db.objects[s].roles]
    <3>1. PICK s \in DOMAIN db.objects : Decides(db, s, e)
      BY DEF FirstDecides
    <3> QED BY <3>1 DEF Decides, IsManifest, Rows
  <2>2. DOMAIN db.manifests = {db.objects[s].epoch : s \in Rows("manifest")}
    <3>1. \A e \in DOMAIN db.manifests : \E s \in Rows("manifest") : db.objects[s].epoch = e
      BY <2>1
    <3>2. \A s \in Rows("manifest") : db.objects[s].epoch \in DOMAIN db.manifests
      BY DEF FirstDecides, Rows
    <3> QED BY <3>1, <3>2
  <2> QED BY <2>1, <2>2 DEF ManifestFirstWins
<1> QED
  BY <1>1, <1>2, <1>3, PTL DEF Spec
-----------------------------------------------------------------------------
(* The vaults row is the snapshot of the log.                              *)

\* Clients number the records of a vault from 1 (create_with_target, next_version in
\* vault/src/vault.rs); the row claim_vault inserts has version 0.
VersionsFromOne ==
  \A r \in Request : \A i \in DOMAIN r.objs : r.objs[i].tag = "vault" => r.objs[i].ver > 0

\* Row t is a vault record that the snapshot is of.
Reaches(D, t) ==
  /\ t \in DOMAIN D.objects /\ D.objects[t].tag = "vault"
  /\ D.objects[t].ver = D.vault.ver /\ D.objects[t].tomb = D.vault.tomb

\* What the snapshot says of the vault record in row s.
Covers(D, s) ==
  /\ D.vault.owner = D.objects[s].author
  /\ 0 < D.objects[s].ver /\ D.objects[s].ver <= D.vault.ver
  /\ D.objects[s].epoch <= D.vault.epoch
  /\ D.objects[s].ver = D.vault.ver => \E t \in DOMAIN D.objects : t <= s /\ Reaches(D, t)

\* SnapshotLatest of any database, and a record behind every snapshot with a version.
SnapshotOf(D) ==
  /\ \A s \in DOMAIN D.objects : D.objects[s].tag = "vault" => Covers(D, s)
  /\ D.vault.owner # NoOne /\ D.vault.ver > 0 => \E t \in DOMAIN D.objects : Reaches(D, t)

SnapshotInv ==
  /\ SnapshotOf(db)
  /\ \A p \in Handler : InTx(p) => SnapshotOf(h[p].tx)
  /\ \A p \in Handler : h[p].pc = "open" =>
       \A i \in DOMAIN h[p].todo : h[p].todo[i].tag = "vault" => h[p].todo[i].ver > 0

\* An object that is no vault record leaves the snapshot and its records alone.
LEMMA InsertOtherSnapshot ==
  ASSUME NEW D, IsDB(D), NEW o \in Object, SnapshotOf(D), o.tag # "vault"
  PROVE  SnapshotOf(InsertInto(D, o))
<1> DEFINE I == InsertInto(D, o)
           n == D.nextSeq + 1
<1>1. /\ I.objects[n] = o
      /\ \A s \in DOMAIN D.objects : D.objects[s].tag # "account" =>
           s \in DOMAIN I.objects /\ I.objects[s] = D.objects[s]
  BY InsertKeepsRows
<1>2. /\ DOMAIN I.objects \subseteq DOMAIN D.objects \cup {n}
      /\ \A s \in DOMAIN I.objects : I.objects[s] = IF s = n THEN o ELSE D.objects[s]
  BY InsertRows
<1>3. I.vault = D.vault
  BY DEF InsertInto
<1> HIDE DEF I
<1>4. \A t \in DOMAIN D.objects : Reaches(D, t) => t \in DOMAIN I.objects /\ Reaches(I, t)
  BY <1>1, <1>3 DEF Reaches
<1>5. ASSUME NEW s \in DOMAIN I.objects, I.objects[s].tag = "vault"
      PROVE  s \in DOMAIN D.objects /\ I.objects[s] = D.objects[s]
  BY <1>2, <1>5
<1>6. ASSUME NEW s \in DOMAIN I.objects, I.objects[s].tag = "vault"
      PROVE  Covers(I, s)
  BY <1>3, <1>4, <1>5, <1>6 DEF SnapshotOf, Covers
<1>7. I.vault.owner # NoOne /\ I.vault.ver > 0 => \E t \in DOMAIN I.objects : Reaches(I, t)
  BY <1>3, <1>4 DEF SnapshotOf
<1> QED BY <1>6, <1>7 DEF SnapshotOf, I

\* materialize of a vault record: the row keeps the highest version and epoch
\* and the tombstone of the record that reached the version first.
LEMMA InsertVaultSnapshot ==
  ASSUME NEW D, IsDB(D), NEW o \in Object, SnapshotOf(D), o.tag = "vault", o.ver > 0,
         ~ClaimConflict(D, o)
  PROVE  SnapshotOf(InsertInto(D, o))
<1> DEFINE I == InsertInto(D, o)
           n == D.nextSeq + 1
           v == D.vault
           w == I.vault
<1>1. /\ n \in DOMAIN I.objects /\ I.objects[n] = o
      /\ \A s \in DOMAIN D.objects : D.objects[s].tag # "account" =>
           s \in DOMAIN I.objects /\ I.objects[s] = D.objects[s]
  BY InsertKeepsRows
<1>2. /\ DOMAIN I.objects \subseteq DOMAIN D.objects \cup {n}
      /\ \A s \in DOMAIN I.objects : I.objects[s] = IF s = n THEN o ELSE D.objects[s]
  BY InsertRows
<1>3. /\ DOMAIN D.objects \subseteq 1..D.nextSeq /\ D.nextSeq \in Nat
      /\ \A s \in DOMAIN D.objects : D.objects[s] \in Object
      /\ v \in VaultRow
  BY DEF IsDB, VaultRow
<1>4. w = MaterializeVault(v, o)
  BY DEF InsertInto
<1>5. o.ver \in Nat /\ o.epoch \in Nat /\ o.author \in Member
  BY DEF Object
<1> HIDE DEF I
<1>6. ASSUME v.owner = NoOne PROVE SnapshotOf(I)
  <2>1. \A s \in DOMAIN D.objects : D.objects[s].tag # "vault"
    BY <1>3, <1>6, NoOneAssumption DEF SnapshotOf, Covers, Object
  <2>2. w.owner = o.author /\ w.ver = o.ver /\ w.epoch = o.epoch /\ w.tomb = o.tomb
    BY <1>4, <1>6 DEF MaterializeVault
  <2>3. \A s \in DOMAIN I.objects : I.objects[s].tag = "vault" => s = n
    BY <1>2, <2>1
  <2>4. Reaches(I, n)
    BY <1>1, <2>2 DEF Reaches
  <2>5. n <= n
    BY <1>3
  <2>6. o.ver <= o.ver /\ o.epoch <= o.epoch /\ 0 < o.ver
    BY <1>5
  <2>7. Covers(I, n)
    BY <1>1, <2>2, <2>4, <2>5, <2>6 DEF Covers
  <2> QED BY <1>1, <2>3, <2>4, <2>7 DEF SnapshotOf
<1>7. ASSUME v.owner # NoOne PROVE SnapshotOf(I)
  <2>1. v.owner = o.author
    BY <1>7 DEF ClaimConflict
  <2>2. /\ w.owner = v.owner /\ w.ver = Larger(v.ver, o.ver) /\ w.epoch = Larger(v.epoch, o.epoch)
        /\ w.tomb = IF o.ver > v.ver THEN o.tomb ELSE v.tomb
    BY <1>3, <1>4, <1>7 DEF MaterializeVault, VaultRow
  <2>3. v.ver \in Nat /\ v.epoch \in Nat
    BY <1>3 DEF VaultRow
  <2>4. w.ver \in Nat /\ v.ver <= w.ver /\ o.ver <= w.ver /\ v.epoch <= w.epoch /\ o.epoch <= w.epoch
    BY <1>5, <2>2, <2>3 DEF Larger
  <2>5. CASE o.ver > v.ver
    <3>1. w.ver = o.ver /\ w.tomb = o.tomb
      BY <1>5, <2>2, <2>3, <2>5 DEF Larger
    <3>2. Reaches(I, n) /\ n <= n
      BY <1>1, <1>3, <3>1 DEF Reaches
    <3>3. ASSUME NEW s \in DOMAIN I.objects, I.objects[s].tag = "vault", s # n
          PROVE  Covers(I, s)
      <4>1. s \in DOMAIN D.objects /\ I.objects[s] = D.objects[s]
        BY <1>2, <3>3
      <4>2. D.objects[s].ver \in Nat /\ D.objects[s].epoch \in Nat
        BY <1>3, <4>1 DEF Object
      <4>3. /\ v.owner = D.objects[s].author /\ 0 < D.objects[s].ver
            /\ D.objects[s].ver <= v.ver /\ D.objects[s].epoch <= v.epoch
        BY <3>3, <4>1 DEF SnapshotOf, Covers
      <4>4. w.epoch \in Nat
        BY <1>5, <2>2, <2>3 DEF Larger
      <4>5. I.objects[s].ver < w.ver /\ I.objects[s].epoch <= w.epoch
        <5> HIDE DEF v, w
        <5> QED BY <1>5, <2>3, <2>4, <2>5, <3>1, <4>1, <4>2, <4>3, <4>4
      <4>6. I.objects[s].ver <= w.ver /\ I.objects[s].ver # w.ver
        <5> HIDE DEF v, w
        <5> QED BY <1>5, <3>1, <4>1, <4>2, <4>5
      <4> QED BY <2>2, <4>1, <4>3, <4>5, <4>6 DEF Covers
    <3>4. Covers(I, n)
      BY <1>1, <2>1, <2>2, <2>4, <3>2, <1>5 DEF Covers
    <3> QED BY <3>2, <3>3, <3>4, <1>1 DEF SnapshotOf
  <2>6. CASE ~(o.ver > v.ver)
    <3>1. w.ver = v.ver /\ w.tomb = v.tomb
      BY <1>5, <2>2, <2>3, <2>6 DEF Larger
    <3>2. \A t \in DOMAIN D.objects : Reaches(D, t) => t \in DOMAIN I.objects /\ Reaches(I, t)
      BY <1>1, <3>1 DEF Reaches
    <3>3. v.ver > 0
      BY <1>5, <2>3, <2>6
    <3>4. PICK t \in DOMAIN D.objects : Reaches(D, t)
      BY <1>7, <3>3 DEF SnapshotOf
    <3>5. t \in DOMAIN I.objects /\ Reaches(I, t) /\ t <= n
      BY <1>3, <3>2, <3>4
    <3>6. ASSUME NEW s \in DOMAIN I.objects, I.objects[s].tag = "vault", s # n
          PROVE  Covers(I, s)
      <4>1. s \in DOMAIN D.objects /\ I.objects[s] = D.objects[s]
        BY <1>2, <3>6
      <4>2. D.objects[s].ver \in Nat /\ D.objects[s].epoch \in Nat
        BY <1>3, <4>1 DEF Object
      <4>3. /\ v.owner = D.objects[s].author /\ 0 < D.objects[s].ver
            /\ D.objects[s].ver <= v.ver /\ D.objects[s].epoch <= v.epoch
            /\ D.objects[s].ver = v.ver => \E u \in DOMAIN D.objects : u <= s /\ Reaches(D, u)
        BY <3>6, <4>1 DEF SnapshotOf, Covers
      <4>4. I.objects[s].epoch <= w.epoch
        BY <2>3, <2>4, <4>1, <4>2, <4>3, <1>5, <2>2 DEF Larger
      <4>5. I.objects[s].ver = w.ver => \E u \in DOMAIN I.objects : u <= s /\ Reaches(I, u)
        BY <3>1, <3>2, <4>1, <4>3
      <4> QED BY <2>2, <3>1, <4>1, <4>3, <4>4, <4>5 DEF Covers
    <3>7. Covers(I, n)
      BY <1>1, <1>5, <2>1, <2>2, <2>4, <3>5 DEF Covers
    <3> QED BY <1>1, <3>5, <3>6, <3>7 DEF SnapshotOf
  <2> QED BY <2>5, <2>6
<1> QED BY <1>6, <1>7 DEF I

\* Only the rows and the vaults row matter.
LEMMA SameSnapshot ==
  ASSUME NEW D, NEW E, SnapshotOf(D), E.objects = D.objects, E.vault = D.vault
  PROVE  SnapshotOf(E)
BY DEF SnapshotOf, Covers, Reaches

\* A step inside a transaction keeps the snapshot: an insertion passed the claim
\* rule, and a re-emitted vault record is the owner's.
LEMMA SnapshotHandler ==
  ASSUME VersionsFromOne, IInv, SnapshotInv, NEW p \in Handler,
         \/ LookupHit(p) \/ LookupMiss(p) \/ AllocSeqs(p) \/ InsertObject(p)
         \/ LoseKeyRace(p) \/ BeginReemit(p) \/ ReemitObject(p) \/ Rollback(p)
  PROVE  SnapshotInv'
<1> DEFINE Numbered(q) == \A i \in DOMAIN q : q[i].tag = "vault" => q[i].ver > 0
<1>1. db' = db /\ DOMAIN h = Handler /\ HandlerState(h[p])
  BY DEF IInv, TypeOK, LookupHit, LookupMiss, AllocSeqs, InsertObject, LoseKeyRace,
         BeginReemit, ReemitObject, Rollback
<1>2. \A q \in Handler : q # p => h'[q] = h[q]
  BY <1>1 DEF LookupHit, LookupMiss, AllocSeqs, InsertObject, LoseKeyRace,
              BeginReemit, ReemitObject, Rollback
<1>3. (InTx(p)' => SnapshotOf(h'[p].tx)) /\ (h'[p].pc = "open" => Numbered(h'[p].todo))
  <2>1. CASE LookupHit(p) \/ LookupMiss(p) \/ LoseKeyRace(p) \/ Rollback(p)
    BY <1>1, <2>1 DEF LookupHit, LookupMiss, LoseKeyRace, Rollback, Idle, Handling, InTx
  <2>2. CASE AllocSeqs(p)
    <3>1. h'[p].tx = db /\ h'[p].todo = h[p].req.objs
      BY <1>1, <2>2 DEF AllocSeqs, Handling
    <3>2. h[p].req \in Request
      BY <1>1, <2>2 DEF AllocSeqs, HandlerState
    <3> QED BY <3>1, <3>2 DEF SnapshotInv, VersionsFromOne
  <2>3. CASE InsertObject(p)
    <3> DEFINE o == Head(h[p].todo)
    <3>1. /\ h'[p].tx = InsertInto(h[p].tx, o) /\ h'[p].todo = Tail(h[p].todo)
          /\ InTx(p) /\ h[p].pc = "open" /\ ~ClaimConflict(h[p].tx, o)
      BY <1>1, <2>3 DEF InsertObject, Handling, InTx
    <3>2. h[p].todo \in Seq(Object) /\ h[p].todo # << >> /\ IsDB(h[p].tx)
      BY <1>1, <2>3 DEF InsertObject, HandlerState
    <3>3. Numbered(h[p].todo) /\ SnapshotOf(h[p].tx)
      BY <3>1 DEF SnapshotInv
    <3>4. o \in Object /\ 1 \in DOMAIN h[p].todo /\ o = h[p].todo[1]
      BY <3>2
    <3>5. o.tag = "vault" => o.ver > 0
      BY <3>3, <3>4
    <3>6. \A i \in DOMAIN Tail(h[p].todo) :
            i + 1 \in DOMAIN h[p].todo /\ Tail(h[p].todo)[i] = h[p].todo[i + 1]
      BY <3>2
    <3>7. Numbered(h'[p].todo)
      BY <3>1, <3>3, <3>6
    <3> HIDE DEF o, Numbered
    <3>8. SnapshotOf(InsertInto(h[p].tx, o))
      BY <3>1, <3>2, <3>3, <3>4, <3>5, InsertOtherSnapshot, InsertVaultSnapshot
    <3> QED BY <3>1, <3>7, <3>8
  <2>4. CASE BeginReemit(p)
    <3>1. h'[p].tx = h[p].tx /\ InTx(p) /\ h'[p].pc = "reemit"
      BY <1>1, <2>4 DEF BeginReemit, Handling, InTx
    <3> QED BY <3>1 DEF SnapshotInv
  <2>5. CASE ReemitObject(p)
    <3>1. PICK s \in h[p].reemit :
            /\ InTx(p) /\ h'[p].pc = "reemit"
            /\ h'[p].tx = InsertInto(h[p].tx, h[p].tx.objects[s])
      BY <1>1, <2>5 DEF ReemitObject, Handling, InTx
    <3> DEFINE o == h[p].tx.objects[s]
    <3>2. s \in DOMAIN h[p].tx.objects /\ o \in Object /\ IsDB(h[p].tx) /\ SnapshotOf(h[p].tx)
      BY <1>1, <3>1 DEF HandlerState, IsDB, SnapshotInv
    <3>3. o.tag = "vault" => o.ver > 0 /\ ~ClaimConflict(h[p].tx, o)
      <4>1. o.ver \in Nat
        BY <3>2 DEF Object
      <4> QED BY <3>2, <4>1 DEF SnapshotOf, Covers, ClaimConflict
    <3> HIDE DEF o
    <3>4. SnapshotOf(InsertInto(h[p].tx, o))
      BY <3>2, <3>3, InsertOtherSnapshot, InsertVaultSnapshot
    <3> QED BY <3>1, <3>4 DEF o
  <2> QED BY <2>1, <2>2, <2>3, <2>4, <2>5
<1> QED
  BY <1>1, <1>2, <1>3 DEF SnapshotInv, InTx

\* A commit publishes the rows and the vaults row of the only open transaction.
LEMMA SnapshotCommit ==
  ASSUME IInv, SnapshotInv, NEW p \in Handler, CommitPush(p) \/ CommitPublish(p)
  PROVE  SnapshotInv'
<1>1. DOMAIN h = Handler /\ InTx(p) /\ IsDB(h[p].tx)
  BY DEF IInv, TypeOK, CommitPush, CommitPublish, InTx, HandlerState
<1>2. lock = p /\ SnapshotOf(h[p].tx) /\ h' = [h EXCEPT ![p] = Idle]
  BY <1>1 DEF IInv, LockInv, SnapshotInv, CommitPush, CommitPublish
<1>3. \A q \in Handler : ~InTx(q)'
  BY <1>1, <1>2, LockExcludes DEF IInv, InTx, Idle, Handling
<1>4. db'.objects = h[p].tx.objects /\ db'.vault = h[p].tx.vault
  BY <1>1 DEF CommitPush, CommitPublish, IsDB
<1>5. SnapshotOf(db')
  BY <1>2, <1>4, SameSnapshot
<1> QED
  BY <1>3, <1>5 DEF SnapshotInv, InTx

\* A claimed vault has no record yet, in the log or in an open transaction.
LEMMA ClaimSnapshot ==
  ASSUME NEW D, IsDB(D), SnapshotOf(D), D.vault.owner = NoOne, NEW E,
         E.objects = D.objects, E.vault.ver = 0
  PROVE  SnapshotOf(E)
<1>1. \A s \in DOMAIN D.objects : D.objects[s].author \in Member
  BY DEF IsDB, Object
<1>2. \A s \in DOMAIN D.objects : D.objects[s].tag # "vault"
  BY <1>1, NoOneAssumption DEF SnapshotOf, Covers
<1>3. ~(E.vault.ver > 0)
  OBVIOUS
<1> QED BY <1>2, <1>3 DEF SnapshotOf

\* claim_vault keeps the snapshot.
LEMMA SnapshotClaim ==
  ASSUME IInv, SnapshotInv, NEW m \in Member, ClaimVault(m)
  PROVE  SnapshotInv'
<1> DEFINE row == [owner |-> m, ver |-> 0, epoch |-> 0, tomb |-> FALSE]
<1>1. /\ db.vault.owner = NoOne /\ db' = [db EXCEPT !.vault = row]
      /\ \A p \in Handler : h[p].tx.vault.owner = NoOne
  BY DEF ClaimVault
<1>2. SnapshotOf(db')
  <2>1. IsDB(db) /\ db'.objects = db.objects /\ db'.vault.ver = 0
    BY <1>1 DEF IInv, TypeOK, IsDB
  <2> QED BY <1>1, <2>1, ClaimSnapshot DEF SnapshotInv
<1>3. ASSUME NEW q \in Handler, InTx(q)'
      PROVE  SnapshotOf(h'[q].tx) /\ h'[q].pc = h[q].pc /\ h'[q].todo = h[q].todo
  <2>1. HandlerState(h[q])
    BY DEF IInv, TypeOK
  <2>2. CASE InTx(q)
    <3> DEFINE E == [h[q].tx EXCEPT !.vault = row]
    <3>1. h'[q] = [h[q] EXCEPT !.tx = E]
      BY <2>2 DEF ClaimVault
    <3>2. E.objects = h[q].tx.objects /\ E.vault.ver = 0 /\ IsDB(h[q].tx)
      BY <2>1 DEF HandlerState, IsDB
    <3> HIDE DEF E
    <3>3. h'[q].tx = E /\ h'[q].pc = h[q].pc /\ h'[q].todo = h[q].todo
      BY <2>1, <3>1 DEF HandlerState, Handling
    <3>4. SnapshotOf(h[q].tx) /\ h[q].tx.vault.owner = NoOne
      BY <1>1, <2>2 DEF SnapshotInv
    <3>5. SnapshotOf(E)
      BY <3>2, <3>4, ClaimSnapshot
    <3> QED BY <3>3, <3>5
  <2>3. CASE ~InTx(q)
    <3>1. h'[q] = h[q]
      BY <2>3 DEF ClaimVault
    <3> QED BY <1>3, <2>3, <3>1 DEF InTx
  <2> QED BY <2>2, <2>3
<1>4. \A q \in Handler : h'[q].pc = "open" => h[q].pc = "open" /\ h'[q].todo = h[q].todo
  BY <1>3 DEF InTx
<1> QED
  BY <1>2, <1>3, <1>4 DEF SnapshotInv

\* Every other step leaves the rows and the vaults row alone.
LEMMA SnapshotOther ==
  ASSUME IInv, SnapshotInv,
         \/ \E p \in Handler : \E r \in Request : Receive(p, r)
         \/ \E d \in Reader : PlanPage(d) \/ ReadPage(d) \/ EndPull(d)
         \/ SeqBump \/ Tick \/ CleanupExpired \/ UNCHANGED vars
  PROVE  SnapshotInv'
<1>1. db'.objects = db.objects /\ db'.vault = db.vault
  <2>1. CASE SeqBump
    BY <2>1 DEF SeqBump, IInv, TypeOK, IsDB
  <2>2. CASE ~SeqBump
    BY <2>2 DEF Receive, PlanPage, ReadPage, EndPull, Tick, CleanupExpired, vars
  <2> QED BY <2>1, <2>2
<1>2. \A q \in Handler : InTx(q)' => InTx(q) /\ h'[q] = h[q]
  <2>1. CASE \E p \in Handler : \E r \in Request : Receive(p, r)
    BY <2>1 DEF Receive, Handling, InTx, IInv, TypeOK
  <2>2. CASE ~\E p \in Handler : \E r \in Request : Receive(p, r)
    <3>1. h' = h
      BY <2>2 DEF PlanPage, ReadPage, EndPull, SeqBump, Tick, CleanupExpired, vars
    <3> QED BY <3>1 DEF InTx
  <2> QED BY <2>1, <2>2
<1>3. SnapshotOf(db')
  BY <1>1, SameSnapshot DEF SnapshotInv
<1> QED
  BY <1>2, <1>3 DEF SnapshotInv, InTx

\* The vaults row, which the policy checks read, always has the owner, the
\* highest version and epoch and the right tombstone of the vault records in the
\* log, if clients number those from 1: a late record with an old version, a
\* re-emission or a claim never changes what it says.
THEOREM SnapshotIsLatest == VersionsFromOne => (Spec => []SnapshotLatest)
<1> SUFFICES ASSUME VersionsFromOne PROVE Spec => []SnapshotLatest
  OBVIOUS
<1>1. Init => IInv /\ SnapshotInv
  <2>1. Init => SnapshotInv
    BY DEF Init, SnapshotInv, SnapshotOf, EmptyDB, InTx, Idle, Handling
  <2> QED BY <2>1, SkipInit
<1>2. IInv /\ SnapshotInv /\ [Next]_vars => IInv' /\ SnapshotInv'
  <2>1. IInv /\ SnapshotInv /\ [Next]_vars => SnapshotInv'
    BY SnapshotHandler, SnapshotCommit, SnapshotClaim, SnapshotOther DEF Next, HandlerStep
  <2> QED BY <2>1, SkipNext
<1>3. SnapshotInv => SnapshotLatest
  <2> SUFFICES ASSUME SnapshotOf(db), NEW s \in Rows("vault")
               PROVE  /\ db.vault.owner = db.objects[s].author
                      /\ db.objects[s].ver <= db.vault.ver
                      /\ db.objects[s].epoch <= db.vault.epoch
                      /\ db.objects[s].ver = db.vault.ver =>
                           \E t \in Rows("vault") : /\ t <= s
                                                    /\ db.objects[t].ver = db.objects[s].ver
                                                    /\ db.objects[t].tomb = db.vault.tomb
    BY DEF SnapshotInv, SnapshotLatest
  <2> QED BY DEF SnapshotOf, Covers, Reaches, Rows
<1> QED
  BY <1>1, <1>2, <1>3, PTL DEF Spec
=============================================================================

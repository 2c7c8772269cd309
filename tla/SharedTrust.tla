---------------------------- MODULE SharedTrust ----------------------------
(***************************************************************************)
(* A vault a teammate shares with this account: the inspection of the      *)
(* membership objects the server serves, the owner the user confirms and   *)
(* the device pins, the paged pull that brings the vault in, and the       *)
(* ordinary sync that runs beside it with its own cursor.                  *)
(*                                                                         *)
(* The device relies on signatures, not on the server: what it is served   *)
(* may hold objects signed by others than the members of the epoch, lack   *)
(* objects, and differ between two requests.  The core's state lock makes  *)
(* each page's application one step; the requests between them are made    *)
(* with no lock.                                                           *)
(***************************************************************************)
EXTENDS Integers, Sequences, FiniteSets, SequencesExt

CONSTANTS
  Item,        \* item ids of the vault
  OneAtATime,  \* the command line: its sync lock is held by a sync and during a trust; the
               \* app has no such lock, its syncs and pulls overtake each other
  MayCut,      \* whether a sync may be cut off between two objects
  Compares,    \* the user compares the fingerprint shown with the owner's
  PageSize,    \* objects of a page
  MaxLog,      \* bound: objects the honest members write
  MaxStrays,   \* bound: objects that are added or left out
  MaxOps       \* bound: inspections, trusts and pulls the user starts

Actor == {"owner", "mate", "stranger", "me"}
Me == "me"
None == "none"
Epochs == 1..2
NoObject == [kind |-> "none"]

Roles(mate, me) == [a \in Actor |-> CASE a = "owner" -> "admin" [] a = "mate" -> mate
                                      [] a = "me" -> me [] OTHER -> "none"]

\* What a signed object says that a check reads.  roles: the member set of a
\* manifest; id: the item, or the recipient of a grant; ver: the version.
ManifestOf(e, a, roles) == [kind |-> "manifest", epoch |-> e, author |-> a, roles |-> roles]
GrantOf(e, a, who, role) == [kind |-> "grant", epoch |-> e, author |-> a, id |-> who, role |-> role]
RowOf(e, a, v) == [kind |-> "vault", epoch |-> e, author |-> a, ver |-> v]
ItemOf(e, a, i, v) == [kind |-> "item", epoch |-> e, author |-> a, id |-> i, ver |-> v]

\* What every instance of this module satisfies.
TrustAssumption ==
  /\ OneAtATime \in BOOLEAN /\ MayCut \in BOOLEAN /\ Compares \in BOOLEAN
  /\ PageSize \in Nat \ {0}
  /\ MaxLog \in Nat /\ MaxStrays \in Nat /\ MaxOps \in Nat

VARIABLES
  log,       \* what the server serves for the vault, in the order of its log
  true,      \* what the members really wrote, in order
  strays,    \* how often what is served was changed
  pin,       \* the pinned genesis owner, or None
  store,     \* the vault here: manifests, grants, row, items, floor
  cursor,    \* the pull cursor of the ordinary sync
  op,        \* the user's running operation
  shown,     \* the owner whose fingerprint is on the screen, or None
  confirmed, \* the owners the user confirmed
  fetched,   \* the last pull of the vault reported complete
  overtaken, \* history: a sync passed objects that pull's last page was read before
  ops

vars == <<log, true, strays, pin, store, cursor, op, shown, confirmed, fetched, overtaken, ops>>

Idle == [kind |-> "idle", at |-> 0, got |-> <<>>, page |-> <<>>, more |-> FALSE,
         expect |-> None]

Empty == [manifests |-> [e \in Epochs |-> NoObject], grants |-> {},
          row |-> NoObject, items |-> [i \in Item |-> NoObject], floor |-> 0]

---------------------------------------------------------------------------
(* The membership chain. *)

\* A genesis is signed by the owner it is checked against; every later
\* manifest by an admin of the one before it.
VerifyManifest(m, e, prev, owner) ==
  /\ m.kind = "manifest" /\ m.epoch = e
  /\ IF e = 1 THEN m.author = owner ELSE prev.roles[m.author] = "admin"

\* The first manifest of each epoch that verifies against the one before:
\* NoObject from the epoch on where none does.
Chain(cands, owner) ==
  LET First(e, prev) ==
        LET ok == SelectSeq(cands[e], LAMBDA m : VerifyManifest(m, e, prev, owner))
        IN IF ok = <<>> THEN NoObject ELSE Head(ok)
      c[e \in Epochs] ==
        IF e = 1 THEN First(1, NoObject)
        ELSE IF c[e - 1] = NoObject THEN NoObject ELSE First(e, c[e - 1])
  IN c

verify_chain_to_epoch(S, owner, e) ==
  LET stored == [k \in Epochs |-> IF S.manifests[k] = NoObject THEN <<>> ELSE <<S.manifests[k]>>]
  IN IF e \notin Epochs THEN NoObject ELSE Chain(stored, owner)[e]

VerifyGrant(g, members) ==
  /\ g.epoch = members.epoch
  /\ members.roles[g.author] = "admin"
  /\ members.roles[g.id] # "none" /\ members.roles[g.id] = g.role

\* The key in a grant opens with the secret of the account it was sealed to.
open_own_grant(grants, members) ==
  {g \in grants : g.id = Me /\ VerifyGrant(g, members)}

latest_epoch(S) ==
  IF \E e \in Epochs : S.manifests[e] # NoObject
  THEN CHOOSE e \in Epochs : /\ S.manifests[e] # NoObject
                             /\ \A k \in Epochs : k > e => S.manifests[k] = NoObject
  ELSE 0

Anchor(p) == IF p = None THEN Me ELSE p

\* verify_record_authority: a vault with no floor, no manifest and no pin is
\* its owner's alone; any other takes the writers of the record's epoch.
MembershipMode(S, p) == S.floor > 0 \/ latest_epoch(S) > 0 \/ p # None

MayWrite(S, p, o) ==
  IF ~MembershipMode(S, p) THEN o.author = Anchor(p)
  ELSE LET members == verify_chain_to_epoch(S, Anchor(p), o.epoch)
       IN /\ o.epoch >= S.floor /\ o.epoch >= latest_epoch(S)
          /\ members # NoObject
          /\ members.roles[o.author] \in {"editor", "admin"}

\* The vault opens for a member by its grant at the latest epoch.
CanOpen(S, p) ==
  LET members == verify_chain_to_epoch(S, Anchor(p), latest_epoch(S))
  IN /\ S.row # NoObject
     /\ members # NoObject
     /\ open_own_grant(S.grants, members) # {}

---------------------------------------------------------------------------
(* Verify-before-apply. *)

Newer(have, o) == have = NoObject \/ have.ver < o.ver

ApplyManifest(S, p, o) ==
  LET T == [S EXCEPT !.manifests[o.epoch] = o]
      ok == verify_chain_to_epoch(T, Anchor(p), o.epoch) # NoObject
  IN IF o.epoch < S.floor \/ ~ok \/ S.manifests[o.epoch] \notin {NoObject, o} THEN S
     ELSE [T EXCEPT !.floor = IF o.epoch > @ THEN o.epoch ELSE @]

ApplyGrant(S, p, o) ==
  LET members == verify_chain_to_epoch(S, Anchor(p), o.epoch)
  IN IF o.epoch >= S.floor /\ members # NoObject /\ VerifyGrant(o, members)
     THEN [S EXCEPT !.grants = {g \in @ : <<g.epoch, g.id>> # <<o.epoch, o.id>>} \cup {o}]
     ELSE S

ApplyRecord(S, p, o) ==
  IF o.epoch < S.floor \/ ~MayWrite(S, p, o) THEN S
  ELSE IF o.kind = "vault"
  THEN IF Newer(S.row, o) THEN [S EXCEPT !.row = o] ELSE S
  ELSE IF Newer(S.items[o.id], o) THEN [S EXCEPT !.items[o.id] = o] ELSE S

process_object(S, p, o) ==
  CASE o.kind = "manifest" -> ApplyManifest(S, p, o)
    [] o.kind = "grant" -> ApplyGrant(S, p, o)
    [] OTHER -> ApplyRecord(S, p, o)

apply_pulled_objects(S, p, objs) ==
  FoldLeft(LAMBDA T, o : process_object(T, p, o), S, objs)

---------------------------------------------------------------------------
(* The members and the server. *)

LastEpoch ==
  IF \E k \in DOMAIN true : true[k].kind = "manifest" /\ true[k].epoch = 2 THEN 2 ELSE 1

LastRoles == (CHOOSE m \in Range(true) : m.kind = "manifest" /\ m.epoch = LastEpoch).roles
LastVer(i) ==
  LET vs == {o.ver : o \in {x \in Range(true) : x.kind = "item" /\ x.id = i}}
  IN IF vs = {} THEN 0 ELSE CHOOSE v \in vs : \A w \in vs : w <= v

Append_(objs) == true' = true \o objs /\ log' = log \o objs
Mine == <<pin, store, cursor, op, shown, confirmed, fetched, overtaken, ops>>

\* The owner shares the vault: the genesis, the key for each member, the row.
Genesis(role) ==
  <<ManifestOf(1, "owner", Roles("editor", role)), GrantOf(1, "owner", "owner", "admin"),
    GrantOf(1, "owner", Me, role), RowOf(1, "owner", 1)>>

MemberWrites(a, i) ==
  /\ Len(true) < MaxLog
  /\ LastRoles[a] \in {"editor", "admin"}
  /\ Append_(<<ItemOf(LastEpoch, a, i, LastVer(i) + 1)>>)
  /\ UNCHANGED <<strays, Mine>>

\* The owner removes the mate, and rotates: the new manifest, the new grants,
\* the row, and every item again under the new epoch.
OwnerRotates(role) ==
  LET kept == SetToSeq({i \in Item : LastVer(i) > 0})
  IN /\ LastEpoch = 1 /\ Len(true) < MaxLog
     /\ Append_(<<ManifestOf(2, "owner", Roles("none", role))>>
                \o (IF role = "none" THEN <<>> ELSE <<GrantOf(2, "owner", Me, role)>>)
                \o <<RowOf(2, "owner", 2)>>
                \o [k \in DOMAIN kept |-> ItemOf(2, "owner", kept[k], LastVer(kept[k]) + 1)])
     /\ UNCHANGED <<strays, Mine>>

\* Objects others than the owner signed: somebody outside the vault, or the mate.
StrayObjects ==
  UNION {{ManifestOf(e, a, [Roles("none", "viewer") EXCEPT ![a] = "admin"]),
          GrantOf(e, a, Me, "viewer"),
          RowOf(e, a, 3)} \cup {ItemOf(e, a, i, 3) : i \in Item}
         : e \in Epochs, a \in {"mate", "stranger"}}

ServesOther ==
  /\ strays < MaxStrays
  /\ strays' = strays + 1
  /\ \/ \E o \in StrayObjects : log' \in {<<o>> \o log, Append(log, o)}
     \/ \E k \in DOMAIN log : log' = RemoveAt(log, k)
  /\ UNCHANGED <<true, Mine>>

---------------------------------------------------------------------------
(* The ordinary sync: the core's lock is held from its first page to its   *)
(* last, and the cursor passes what it rejects.  A page that cannot be read *)
(* ends it; what came before stays applied and passed.                      *)

\* The pull has its last page in hand, and the sync reads further.
Overtakes(upto) == op.kind = "pull" /\ op.page # <<>> /\ ~op.more /\ upto > op.at + Len(op.page)

sync_now ==
  /\ OneAtATime => op.kind \notin {"trust", "pull"}
  /\ \E upto \in cursor + 1 .. Len(log) :
       /\ MayCut \/ upto = Len(log)
       /\ store' = apply_pulled_objects(store, pin, SubSeq(log, cursor + 1, upto))
       /\ cursor' = upto
       /\ overtaken' = (overtaken \/ Overtakes(upto))
  /\ UNCHANGED <<log, true, strays, pin, op, shown, confirmed, fetched, ops>>

\* server_repull, its first half: the next sync reads everything again.  Only the app
\* offers it.
reset_pull_cursor ==
  /\ ~OneAtATime /\ ops < MaxOps /\ cursor > 0
  /\ ops' = ops + 1
  /\ cursor' = 0
  /\ UNCHANGED <<log, true, strays, pin, store, op, shown, confirmed, fetched, overtaken>>

---------------------------------------------------------------------------
(* Inspection and trust: every page is read before anything is decided. *)

vaults_not_here == store.row = NoObject

Start(kind, expect) ==
  /\ op.kind = "idle" /\ ops < MaxOps
  /\ ops' = ops + 1
  /\ op' = [Idle EXCEPT !.kind = kind, !.expect = expect]

StartInspect ==
  /\ vaults_not_here
  /\ Start("inspect", None)
  /\ UNCHANGED <<log, true, strays, pin, store, cursor, shown, confirmed, fetched, overtaken>>

\* The user types what the owner read out, or says yes to what is shown: with
\* a careful user only when it is the owner's.
StartTrust ==
  /\ \E o \in {"owner"} \cup (IF shown = None \/ (Compares /\ shown # "owner") THEN {} ELSE {shown}) :
       Start("trust", o) /\ confirmed' = confirmed \cup {o}
  /\ UNCHANGED <<log, true, strays, pin, store, cursor, shown, fetched, overtaken>>

vault_delta_page(at) == SubSeq(log, at + 1, IF at + PageSize > Len(log) THEN Len(log) ELSE at + PageSize)

ReadPage ==
  /\ op.kind \in {"inspect", "trust"}
  /\ op.at < Len(log)
  /\ op' = [op EXCEPT !.at = @ + Len(vault_delta_page(op.at)),
                      !.got = @ \o vault_delta_page(op.at)]
  /\ UNCHANGED <<log, true, strays, pin, store, cursor, shown, confirmed, fetched, overtaken, ops>>

\* A page that cannot be read ends the operation; what a pull applied stays.
PageFails ==
  /\ op.kind # "idle"
  /\ op' = Idle
  /\ UNCHANGED <<log, true, strays, pin, store, cursor, shown, confirmed, fetched, overtaken, ops>>

At(objs, e) == SelectSeq(objs, LAMBDA o : o.kind = "manifest" /\ o.epoch = e)

\* The one author of a genesis that verifies as its own; None: there is no
\* such manifest, or the server presents two creators.
genesis_author(objs) ==
  LET authors == {m.author : m \in Range(At(objs, 1))}
  IN IF Cardinality(authors) = 1 THEN CHOOSE a \in authors : TRUE ELSE None

\* None: the vault is refused (no creator, a gap, a chain that does not
\* verify, no grant to this account at the latest epoch).
inspect(objs) ==
  LET owner == genesis_author(objs)
      served == [e \in Epochs |-> At(objs, e)]
      last == IF At(objs, 2) # <<>> THEN 2 ELSE 1
      members == Chain(served, owner)[last]
      grants == {o \in Range(objs) : o.kind = "grant" /\ o.epoch = last}
  IN IF /\ owner # None /\ members # NoObject
        /\ open_own_grant(grants, members) # {}
     THEN [owner |-> owner, role |-> members.roles[Me], epoch |-> last]
     ELSE [owner |-> None, role |-> "none", epoch |-> 0]

Inspected ==
  /\ op.kind = "inspect" /\ op.at >= Len(log)
  /\ shown' = IF pin = None THEN inspect(op.got).owner ELSE None
  /\ op' = Idle
  /\ UNCHANGED <<log, true, strays, pin, store, cursor, confirmed, fetched, overtaken, ops>>

\* Mutants: whoever is found is pinned; a refusal clears the pin.
MutPinFound(owner, expect) == IF pin = None /\ owner # None THEN owner ELSE pin

\* pin_and_verify_vault_anchor, under the lock the comparison is made under.
PinAfter(owner, expect) == IF pin = None /\ owner # None /\ owner = expect THEN owner ELSE pin

Trusted ==
  /\ op.kind = "trust" /\ op.at >= Len(log)
  /\ pin' = PinAfter(inspect(op.got).owner, op.expect)
  /\ op' = IF pin' # None /\ pin' = inspect(op.got).owner THEN [Idle EXCEPT !.kind = "pull"] ELSE Idle
  /\ IF op'.kind = "pull" THEN fetched' = FALSE /\ overtaken' = FALSE ELSE UNCHANGED <<fetched, overtaken>>
  /\ UNCHANGED <<log, true, strays, store, cursor, shown, confirmed, ops>>

---------------------------------------------------------------------------
(* The pull of one vault: a page is requested, then applied under the lock *)
(* against what is stored by then; the cursor of sync does not move.       *)

StartPull ==
  /\ pin # None
  /\ Start("pull", None)
  /\ fetched' = FALSE /\ overtaken' = FALSE
  /\ UNCHANGED <<log, true, strays, pin, store, cursor, shown, confirmed>>

FetchPage ==
  /\ op.kind = "pull" /\ op.page = <<>> /\ op.at < Len(log)
  /\ op' = [op EXCEPT !.page = vault_delta_page(op.at), !.more = op.at + PageSize < Len(log)]
  /\ UNCHANGED <<log, true, strays, pin, store, cursor, shown, confirmed, fetched, overtaken, ops>>

\* A mutant: the first page completes the pull.
MutApplyFirst ==
  /\ op.kind = "pull" /\ op.page # <<>>
  /\ store' = apply_pulled_objects(store, pin, op.page)
  /\ op' = Idle /\ fetched' = TRUE
  /\ UNCHANGED <<log, true, strays, pin, cursor, shown, confirmed, overtaken, ops>>

\* The page that was the last when it was read completes the pull.
apply_pulled_vault ==
  /\ op.kind = "pull" /\ op.page # <<>>
  /\ store' = apply_pulled_objects(store, pin, op.page)
  /\ op' = IF op.more THEN [op EXCEPT !.page = <<>>, !.at = @ + Len(op.page)] ELSE Idle
  /\ fetched' = ~op.more
  /\ UNCHANGED <<log, true, strays, pin, cursor, shown, confirmed, overtaken, ops>>

Init ==
  /\ \E role \in {"viewer", "editor"} : true = Genesis(role)
  /\ log = true
  /\ strays = 0 /\ pin = None /\ store = Empty /\ cursor = 0
  /\ op = Idle /\ shown = None /\ confirmed = {} /\ fetched = FALSE
  /\ overtaken = FALSE /\ ops = 0

Next ==
  \/ \E a \in {"owner", "mate"}, i \in Item : MemberWrites(a, i)
  \/ \E role \in {"none", "viewer"} : OwnerRotates(role)
  \/ ServesOther
  \/ sync_now \/ reset_pull_cursor
  \/ StartInspect \/ StartTrust \/ ReadPage \/ PageFails \/ Inspected \/ Trusted
  \/ StartPull \/ FetchPage \/ apply_pulled_vault

Spec == Init /\ [][Next]_vars

---------------------------------------------------------------------------
(* Properties. *)

TypeOK ==
  /\ pin \in Actor \cup {None} /\ shown \in Actor \cup {None}
  /\ confirmed \subseteq Actor
  /\ op.kind \in {"idle", "inspect", "trust", "pull"}
  /\ cursor \in Nat /\ store.floor \in 0..2 /\ fetched \in BOOLEAN /\ overtaken \in BOOLEAN

\* An owner is pinned only as the user confirmed it, and a user who compares
\* the fingerprint never pins anyone but the owner, whatever the server
\* presents between the display, the comparison and the pin.
PinConfirmed ==
  /\ pin # None => pin \in confirmed
  /\ Compares => pin \in {None, "owner"}

\* What PinStays says of one step.
PinStaysStep == pin # None => pin' = pin

\* A pin never changes: a server that names another creator later changes
\* nothing here.
PinStays == [][PinStaysStep]_vars

\* With the owner pinned, nothing that is stored was written by someone the
\* owner did not let write.
OnlyMembersWrite ==
  pin = "owner" =>
    /\ \A o \in {store.items[i] : i \in Item} \cup {store.row} :
         o # NoObject => o.author \in {"owner", "mate"}
    /\ \A e \in Epochs : store.manifests[e] # NoObject => store.manifests[e].author = "owner"

\* What RemovedStaysOut says of one step.
RemovedStaysOutStep ==
  \A i \in Item :
    (/\ store.manifests[2] # NoObject /\ store.manifests[2].author = "owner"
     /\ store'.items[i] # store.items[i])
      => store'.items[i].author # "mate"

\* Once the owner's second manifest is here, no record of the removed mate comes
\* in any more, whenever it was written and however late it is served.
RemovedStaysOut == [][RemovedStaysOutStep]_vars

\* The members of the latest epoch here no longer include this account.
TakenOut(S) == S.manifests[2] # NoObject /\ S.manifests[2].roles[Me] = "none"

\* With nothing added or left out, the pull that reports complete leaves a vault that
\* opens and stays so through later syncs, unless the owner took this account out since,
\* or a sync was cut off inside a rotation: then the next one brings the key.
FetchedOpens ==
  (fetched /\ strays = 0 /\ op.kind = "idle")
    => \/ CanOpen(store, pin) \/ TakenOut(store)
       \/ \E k \in cursor + 1 .. Len(log) :
            log[k].kind = "grant" /\ log[k].id = Me /\ log[k].epoch = latest_epoch(store)

\* Every item among the first n objects served is in S, at that version or a later one.
Holds(S, n) ==
  \A k \in 1..n : log[k].kind = "item" =>
    S.items[log[k].id] # NoObject /\ S.items[log[k].id].ver >= log[k].ver

\* Nothing the server served falls between the pull and the sync: after a complete pull,
\* what the cursor of sync has passed is here.  Of the app, which has no lock around the
\* two, this is said of pulls no sync has overtaken; of the command line, whose lock
\* (home.rs: sync_lock) lets none, of all.
NothingMissed ==
  (fetched /\ strays = 0 /\ op.kind = "idle" /\ ~overtaken) => Holds(store, cursor)

\* What an overtaken pull and its sync both left out is not lost for good: at any time
\* after the pin, reading everything again (server_repull, or the pull once more) brings
\* every item, and a vault that opens unless this account was taken out.
RepullMends ==
  (pin = "owner" /\ strays = 0) =>
    LET S == apply_pulled_objects(store, pin, log)
    IN Holds(S, Len(log)) /\ (CanOpen(S, pin) \/ TakenOut(S))
============================================================================

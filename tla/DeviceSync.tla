----------------------------- MODULE DeviceSync -----------------------------
(***************************************************************************)
(* The devices' half of sync: the local database with its dirty flags, the *)
(* edits and membership changes of a vault, the push cut into requests     *)
(* that are halved when refused, and the pull that verifies an object      *)
(* before it applies it.                                                   *)
(*                                                                         *)
(* One vault, its owner and the members it is shared with, every account   *)
(* with one or more devices.  The server is what ServerSync shows it to    *)
(* be: a log whose rows appear in sequence order, the first manifest of an *)
(* epoch deciding who may read and write.                                  *)
(*                                                                         *)
(* A step is a request, or the longest run of statements on one device's   *)
(* database that no other process takes part in; where a process may be    *)
(* killed between two of them, that is a step of its own.                  *)
(*                                                                         *)
(* An object keeps what the code compares.  A signed record is identified  *)
(* by the device that wrote it and its version; key names the vault key it *)
(* is wrapped under.  Two manifests of one epoch with the same members are *)
(* the same manifest, and two deletions of an item with the same version   *)
(* the same tombstone (a deterministic signature over equal bytes).        *)
(***************************************************************************)
EXTENDS Integers, Sequences, FiniteSets, FiniteSetsExt, Functions

CONSTANTS
  DeviceSeq,   \* the devices, in the order their signatures compare
  MemberSeq,   \* the accounts, in key order
  ItemSeq,     \* item ids, in order
  AccountOf,   \* the account a device belongs to
  Owner,       \* the account that created the vault
  NoId,        \* no item and no member
  Big,         \* items whose records the server refuses as too large
  ServerMax,   \* objects the server takes in one request
  BatchMax,    \* PUSH_BATCH_MAX_OBJECTS
  PageMax,     \* rows of a delta page
  OneProcess,  \* an edit waits while the device syncs (the app's core mutex)
  MemberSets,  \* the member sets an owner may choose
  Ops,         \* bound: the kinds of operation users perform
  MaxWrite,    \* bound: what users do: edits, membership changes, vault pulls
  MaxEpoch,    \* bound: membership epochs
  MaxFault     \* bound: killed processes, lost requests and replies

Device == Range(DeviceSeq)
Member == Range(MemberSeq)
Item   == Range(ItemSeq)
Role   == {"none", "viewer", "editor", "admin"}
Writer == {"editor", "admin"}
Nobody == [m \in Member |-> "none"]

\* What every instance of this module satisfies.
DeviceAssumption ==
  /\ AccountOf \in [Device -> Member] /\ Owner \in Member
  /\ NoId \notin Item \cup Member /\ Item \cap Member = {}
  /\ Big \subseteq Item
  /\ MemberSets \subseteq {R \in [Member -> Role] : R[Owner] = "admin"}
  /\ ServerMax \in Nat \ {0} /\ BatchMax \in Nat \ {0} /\ PageMax \in Nat \ {0}
  /\ OneProcess \in BOOLEAN
  /\ Ops \subseteq {"item", "vault", "account", "member", "pull"}
  /\ MaxWrite \in Nat /\ MaxEpoch \in Nat /\ MaxFault \in Nat

VARIABLES
  st,       \* st[d]: the database of device d, and what its pulls reported
  sy,       \* sy[d]: the sync running on device d
  log,      \* the server's log; the index of a row is its server_seq
  lost,     \* request bodies the server accepted and whose answer was lost
  writes,   \* what users did so far
  faults,   \* kills, lost requests and lost replies so far
  torn      \* history: the rows an edit stored and was killed before marking

vars == <<st, sy, log, lost, writes, faults, torn>>
-----------------------------------------------------------------------------
(* Objects and rows.  A row is addressed by its slot, the primary key.     *)

Object(tag, id, ver, epoch, d, key, tomb, roles) ==
  [tag |-> tag, id |-> id, ver |-> ver, epoch |-> epoch, author |-> AccountOf[d],
   dev |-> d, key |-> key, tomb |-> tomb, roles |-> roles]

NoKey == <<>>

\* The signature of a manifest does not depend on the device.
ManifestObject(d, e, R) ==
  [Object("manifest", NoId, 0, e, d, NoKey, FALSE, R) EXCEPT !.dev = NoId]

\* An item record; a tombstone is empty.
ItemObject(d, i, ver, e, key, tomb) ==
  IF tomb THEN [Object("item", i, ver, e, d, NoKey, TRUE, Nobody) EXCEPT !.dev = NoId]
  ELSE Object("item", i, ver, e, d, key, FALSE, Nobody)

Slot(tag, id, epoch) == <<tag, id, epoch>>
VaultSlot == Slot("vault", NoId, 0)

SlotOf(o) == Slot(o.tag, o.id, IF o.tag \in {"manifest", "grant"} THEN o.epoch ELSE 0)

\* Mutant: the grants go before the manifests.
MutantPushOrder ==
  [n \in 1..(Len(MemberSeq) * MaxEpoch) |->
     Slot("grant", MemberSeq[((n - 1) \div MaxEpoch) + 1], ((n - 1) % MaxEpoch) + 1)]
  \o [e \in 1..MaxEpoch |-> Slot("manifest", NoId, e)]
  \o <<VaultSlot>>
  \o [n \in 1..Len(ItemSeq) |-> Slot("item", ItemSeq[n], 0)]
  \o [n \in 1..Len(MemberSeq) |-> Slot("account", MemberSeq[n], 0)]
\* The order a push sends rows in: the objects the items depend on (manifests,
\* the vault record, grants), the items, the account state.
PushOrder ==
  [e \in 1..MaxEpoch |-> Slot("manifest", NoId, e)]
  \o <<VaultSlot>>
  \o [n \in 1..(Len(MemberSeq) * MaxEpoch) |->
        Slot("grant", MemberSeq[((n - 1) \div MaxEpoch) + 1], ((n - 1) % MaxEpoch) + 1)]
  \o [n \in 1..Len(ItemSeq) |-> Slot("item", ItemSeq[n], 0)]
  \o [n \in 1..Len(MemberSeq) |-> Slot("account", MemberSeq[n], 0)]

\* The rows f with every object of O stored in its slot.
Store(f, O) ==
  [s \in DOMAIN f \cup {SlotOf(o) : o \in O} |->
     IF \E o \in O : SlotOf(o) = s THEN CHOOSE o \in O : SlotOf(o) = s ELSE f[s]]

Has(S, s) == s \in DOMAIN S.rows
Larger(x, y) == IF x >= y THEN x ELSE y

\* latest_membership_epoch, 0 when there is no manifest.
Latest(S) == Max({0} \cup {e \in 1..MaxEpoch : Has(S, Slot("manifest", NoId, e))})

Manifest(S, e) == S.rows[Slot("manifest", NoId, e)]

\* The genesis owner a device trusts: pinned when the user accepted the share,
\* its own account otherwise.
Anchor(d, S) == IF S.pinned THEN Owner ELSE AccountOf[d]

\* verify_chain_to_epoch: every epoch from 1 has a manifest, the first signed
\* by the anchor and each later one by an admin of the epoch before.
Verified(S, anchor, e) ==
  /\ e > 0
  /\ \A k \in 1..e :
       /\ Has(S, Slot("manifest", NoId, k))
       /\ IF k = 1 THEN Manifest(S, 1).author = anchor
          ELSE Manifest(S, k - 1).roles[Manifest(S, k).author] = "admin"

\* vault_is_membership_mode
Membership(S) == S.floor > 0 \/ Latest(S) > 0 \/ S.pinned

\* verify_record_authority
MayWrite(S, anchor, author, e) ==
  IF ~Membership(S) THEN author = anchor
  ELSE /\ e >= Larger(S.floor, Latest(S))
       /\ Verified(S, anchor, e)
       /\ Manifest(S, e).roles[author] \in Writer
-----------------------------------------------------------------------------
(* The server, as the devices see it: everything it decides follows from   *)
(* the log.                                                                *)

Rows(tag) == {s \in DOMAIN log : log[s].tag = tag}

\* The manifest of epoch e that the server goes by: the first in the log.
Deciding(e) ==
  CHOOSE s \in Rows("manifest") :
    /\ log[s].epoch = e
    /\ \A t \in Rows("manifest") : log[t].epoch = e => s <= t

ServerRole(author, e) ==
  IF (\E s \in Rows("manifest") : log[s].epoch = e)
     /\ log[Deciding(e)].roles[author] # "none"
  THEN log[Deciding(e)].roles[author]
  ELSE IF author = Owner THEN "admin" ELSE "none"

Accepted(d, o) ==
  CASE o.tag = "item" -> ServerRole(o.author, o.epoch) \in Writer
    [] o.tag = "vault" -> o.author = Owner /\ ServerRole(o.author, o.epoch) \in Writer
    [] o.tag \in {"manifest", "grant"} -> ServerRole(o.author, o.epoch) = "admin"
    [] o.tag = "account" -> o.author = AccountOf[d]

\* The owner, and the holders of a grant of the latest epoch, read the vault.
MayRead(m) ==
  \/ m = Owner
  \/ \E s \in Rows("manifest"), t \in Rows("grant") :
       /\ \A r \in Rows("manifest") : log[r].epoch <= log[s].epoch
       /\ log[t].epoch = log[s].epoch /\ log[t].id = m

VaultTags == {"vault", "item", "manifest", "grant"}

VisibleTo(d, s) ==
  \/ log[s].tag \in VaultTags /\ MayRead(AccountOf[d])
  \/ log[s].tag = "account" /\ log[s].author = AccountOf[d]

\* The rows d is sent from the position c on, in order.
Delta(d, c) == SelectSeq([n \in 1..Len(log) |-> n], LAMBDA s : s > c /\ VisibleTo(d, s))

\* The log with a request appended; an account state takes the place of the
\* older ones of its account.
Appended(part) ==
  LET new == log \o part IN
  [s \in DOMAIN new |->
     IF /\ new[s].tag = "account"
        /\ \E o \in Range(part) : o.tag = "account" /\ o.author = new[s].author /\ o.ver > new[s].ver
     THEN [new[s] EXCEPT !.tag = "gone"] ELSE new[s]]
-----------------------------------------------------------------------------
(* Edits.                                                                  *)

\* Vault::open: the vault record is live; a member's own grant of the latest
\* epoch verifies and its key opens the record.
Opened(d) ==
  LET S == st[d]  e == Latest(S)  g == Slot("grant", AccountOf[d], e) IN
  /\ Has(S, VaultSlot) /\ ~S.rows[VaultSlot].tomb
  /\ AccountOf[d] # Owner =>
       /\ S.pinned /\ Verified(S, Owner, e) /\ Has(S, g)
       /\ Manifest(S, e).roles[AccountOf[d]] # "none"
       /\ S.rows[g].key = S.rows[VaultSlot].key

\* The key an opened vault writes with, and the epoch it stamps on records.
VaultKey(d)   == st[d].rows[VaultSlot].key
StampEpoch(d) == Larger(st[d].rows[VaultSlot].epoch, Latest(st[d]))

\* require_writer
CanWrite(d) ==
  LET S == st[d]  e == Latest(S) IN
  IF e = 0 THEN AccountOf[d] = Owner
  ELSE Verified(S, Anchor(d, S), e) /\ Manifest(S, e).roles[AccountOf[d]] \in Writer

\* One process: the core mutex keeps an edit and a sync apart.
MayEdit(d) == OneProcess => sy[d].pc = "idle"

\* An edit stores the record o and then marks it for the push; killed between
\* the two statements, it leaves it unmarked.
Edit(d, o) ==
  /\ MayEdit(d) /\ writes < MaxWrite
  /\ writes' = writes + 1
  /\ \/ /\ st' = [st EXCEPT ![d].rows = Store(@, {o}), ![d].dirty = @ \cup {SlotOf(o)}]
        /\ UNCHANGED <<faults, torn>>
     \/ /\ faults < MaxFault /\ faults' = faults + 1
        /\ st' = [st EXCEPT ![d].rows = Store(@, {o})]
        /\ torn' = IF SlotOf(o) \in st[d].dirty THEN torn ELSE torn \cup {<<d, o>>}
  /\ UNCHANGED <<sy, log, lost>>

\* put_item, put_item_keep_history
PutItem(d, i) ==
  LET s == Slot("item", i, 0)
      ver == IF Has(st[d], s) THEN st[d].rows[s].ver + 1 ELSE 1
  IN
  /\ Opened(d) /\ CanWrite(d)
  /\ Edit(d, ItemObject(d, i, ver, StampEpoch(d), VaultKey(d), FALSE))

\* delete_item
DeleteItem(d, i) ==
  LET s == Slot("item", i, 0) IN
  /\ Opened(d) /\ CanWrite(d) /\ Has(st[d], s)
  /\ Edit(d, ItemObject(d, i, st[d].rows[s].ver + 1, StampEpoch(d), NoKey, TRUE))

VaultRecord(d, e, tomb) ==
  Object("vault", NoId, st[d].rows[VaultSlot].ver + 1, e, d, VaultKey(d), tomb, Nobody)

\* set_name re-seals the key at the epoch the vault stamps.
SetName(d) ==
  /\ Opened(d) /\ AccountOf[d] = Owner
  /\ Edit(d, VaultRecord(d, StampEpoch(d), FALSE))

\* set_cache_policy keeps the epoch the record has.
SetCachePolicy(d) ==
  /\ Opened(d) /\ AccountOf[d] = Owner
  /\ Edit(d, VaultRecord(d, st[d].rows[VaultSlot].epoch, FALSE))

\* Vault::delete stores and marks the tombstone in one transaction.
DeleteVault(d) ==
  /\ MayEdit(d) /\ writes < MaxWrite
  /\ Opened(d) /\ AccountOf[d] = Owner
  /\ st' = [st EXCEPT ![d].rows = Store(@, {VaultRecord(d, StampEpoch(d), TRUE)}),
                      ![d].dirty = @ \cup {VaultSlot}]
  /\ writes' = writes + 1
  /\ UNCHANGED <<sy, log, lost, faults, torn>>

\* verify_reanchor_authority, and the decryption a re-wrap needs.
Reanchors(d, o) ==
  LET S == st[d]  e == Latest(S) IN
  /\ ~o.tomb => o.key = VaultKey(d)
  /\ e > 0 => Manifest(S, e).roles[o.author] \in Writer
  /\ \/ o.epoch = 0 /\ o.author = Owner
     \/ o.epoch >= Larger(S.floor, e) /\ MayWrite(S, Owner, o.author, o.epoch)
     \/ /\ o.epoch < Larger(S.floor, e)
        /\ Verified(S, Owner, o.epoch) /\ Manifest(S, o.epoch).roles[o.author] \in Writer
        /\ e > 0

ItemsOf(S) == {S.rows[s] : s \in {t \in DOMAIN S.rows : t[1] = "item"}}

\* establish_or_extend_membership, add_member: what a new epoch consists of: the
\* manifest, a grant for every member, the vault record and every item re-issued.
Issued(d, e, R, key) ==
  {ManifestObject(d, e, R)}
  \cup {Object("grant", m, 0, e, d, key, FALSE, R) : m \in {n \in Member : R[n] # "none"}}
  \cup {[VaultRecord(d, e, FALSE) EXCEPT !.key = key]}
  \cup {ItemObject(d, o.id, o.ver + 1, e, key, o.tomb) : o \in ItemsOf(st[d])}

\* A new member, or another role for one, on top of the epoch before e.
AddsMember(S, e, R) ==
  \E m \in Member \ {Owner}, r \in Role \ {"none"} :
    R = [IF e = 1 THEN [Nobody EXCEPT ![Owner] = "admin"]
         ELSE Manifest(S, e - 1).roles EXCEPT ![m] = r]

\* The owner adds a member (the key stays) or calls rotate_vk (any member set, a
\* fresh key): the next epoch is stored and marked and the floor raised, all of it
\* in one transaction.
NewEpoch(d, R, fresh) ==
  LET S == st[d]
      e == Latest(S) + 1
      issued == Issued(d, e, R, IF fresh THEN <<d, e>> ELSE VaultKey(d))
  IN
  /\ MayEdit(d) /\ writes < MaxWrite /\ Opened(d) /\ AccountOf[d] = Owner
  /\ e <= MaxEpoch /\ e > S.floor
  /\ IF fresh THEN e > 1 ELSE AddsMember(S, e, R)
  /\ e > 1 => Verified(S, Owner, e - 1)
  /\ \A o \in ItemsOf(S) : Reanchors(d, o)
  /\ st' = [st EXCEPT ![d].rows = Store(@, issued), ![d].floor = e,
                      ![d].dirty = @ \cup {SlotOf(o) : o \in issued}]
  /\ writes' = writes + 1
  /\ UNCHANGED <<sy, log, lost, faults, torn>>

\* write_account_state
PutAccount(d) ==
  LET s == Slot("account", AccountOf[d], 0)
      ver == IF Has(st[d], s) THEN st[d].rows[s].ver + 1 ELSE 1
  IN
  /\ MayEdit(d) /\ writes < MaxWrite
  /\ st' = [st EXCEPT ![d].rows = Store(@,
       {Object("account", AccountOf[d], ver, 0, d, NoKey, FALSE, Nobody)})]
  /\ writes' = writes + 1
  /\ UNCHANGED <<sy, log, lost, faults, torn>>
-----------------------------------------------------------------------------
(* Push.                                                                   *)

NotSyncing ==
  [pc |-> "idle", queue |-> <<>>, snap |-> <<>>, parts |-> <<>>]

\* The pull follows the push, failed or not.
Pulling == [NotSyncing EXCEPT !.pc = "pull"]

\* <<slot, version>> of the dirty items.
Heads(S) == {<<s, S.rows[s].ver>> : s \in {t \in S.dirty : t[1] = "item"}}

\* queue and queue_account_wide: what is sent of slot s.
ToSend(d, S, s) ==
  /\ Has(S, s)
  /\ CASE s[1] = "item" ->
            /\ s \in S.dirty /\ <<s, S.rows[s].ver>> \notin S.left
            /\ MayWrite(S, Anchor(d, S), S.rows[s].author, S.rows[s].epoch)
       [] s[1] = "account" -> S.rows[s].ver > S.acctSent
       [] OTHER -> s \in S.dirty

\* sync_now begins: the queue is taken, everything but the items by value; a
\* remembered refusal is dropped when its item changed.  (A sync with nothing
\* to send and nothing to pull does nothing.)
StartSync(d) ==
  LET S == st[d]  Q == SelectSeq(PushOrder, LAMBDA s : ToSend(d, S, s)) IN
  /\ sy[d].pc = "idle" /\ (Q # <<>> \/ Delta(d, S.cursor) # <<>>)
  /\ sy' = [sy EXCEPT ![d] =
       [NotSyncing EXCEPT !.pc = "push", !.queue = Q,
          !.snap = [s \in {t \in Range(Q) : t[1] # "item"} |-> S.rows[s]]]]
  /\ st' = [st EXCEPT ![d].left = @ \cap Heads(S)]
  /\ UNCHANGED <<log, lost, writes, faults, torn>>

\* take_next: an item is read when its request is built.
Load(d, s) == IF s \in DOMAIN sy[d].snap THEN sy[d].snap[s] ELSE st[d].rows[s]

\* send: a request of at most BatchMax objects; the byte budget may cut it
\* before an item (nothing else is large), which is then already read.
BuildRequest(d) ==
  LET Y == sy[d] IN
  /\ Y.pc = "push" /\ Y.parts = <<>>
  /\ \E n \in 1..Min({BatchMax, Len(Y.queue)}) :
       /\ n \notin {BatchMax, Len(Y.queue)} => Y.queue[n + 1][1] = "item"
       /\ sy' = [sy EXCEPT
            ![d].parts = << [j \in 1..n |-> Load(d, Y.queue[j])] >>,
            ![d].queue = SubSeq(@, n + 1, Len(@)),
            ![d].snap = [s \in {Y.queue[j] : j \in (n + 1)..Len(Y.queue)}
                             \cap (DOMAIN @ \cup {Y.queue[j] : j \in {n + 1} \cap DOMAIN Y.queue})
                           |-> Load(d, s)]]
  /\ UNCHANGED <<st, log, lost, writes, faults, torn>>

Part(d) == Head(sy[d].parts)
Fits(part) == Len(part) <= ServerMax /\ \A o \in Range(part) : o.tag = "item" => o.id \notin Big
Taken(d, part) == Fits(part) /\ \A o \in Range(part) : Accepted(d, o)

\* send_request: the server takes the part, or replays the answer it recorded
\* under the hash of the part, unless that record has expired.
Deliver(d) ==
  /\ sy[d].pc = "push" /\ sy[d].parts # <<>> /\ Taken(d, Part(d))
  /\ \/ log' = Appended(Part(d))
     \/ Part(d) \in lost /\ UNCHANGED log
  /\ sy' = [sy EXCEPT ![d].pc = "settle"]
  /\ UNCHANGED <<st, lost, writes, faults, torn>>

\* A part the server refuses is halved ...
Halve(d) ==
  LET p == Part(d)  mid == Len(p) \div 2 IN
  /\ sy[d].pc = "push" /\ sy[d].parts # <<>> /\ ~Taken(d, p) /\ Len(p) > 1
  /\ sy' = [sy EXCEPT ![d].parts = <<SubSeq(p, 1, mid), SubSeq(p, mid + 1, Len(p))>> \o Tail(@)]
  /\ UNCHANGED <<st, log, lost, writes, faults, torn>>

\* Mutant: the item is passed over and not remembered.
MutantLeaveOut(d) ==
  /\ sy[d].pc = "push" /\ sy[d].parts # <<>> /\ ~Taken(d, Part(d)) /\ Len(Part(d)) = 1
  /\ Part(d)[1].tag = "item"
  /\ sy' = [sy EXCEPT ![d].parts = Tail(@)]
  /\ UNCHANGED <<st, log, lost, writes, faults, torn>>
\* ... until an item is alone: refuse and forbid leave it out and remember it.
LeaveOut(d) ==
  /\ sy[d].pc = "push" /\ sy[d].parts # <<>> /\ ~Taken(d, Part(d)) /\ Len(Part(d)) = 1
  /\ Part(d)[1].tag = "item"
  /\ st' = [st EXCEPT ![d].left = @ \cup {<<SlotOf(Part(d)[1]), Part(d)[1].ver>>}]
  /\ sy' = [sy EXCEPT ![d].parts = Tail(@)]
  /\ UNCHANGED <<log, lost, writes, faults, torn>>

\* An object that is no item is refused alone, or the request never reaches the
\* server: the push ends with an error and the pull follows.
FailPush(d) ==
  LET refused == ~Taken(d, Part(d)) /\ Len(Part(d)) = 1 /\ Part(d)[1].tag # "item" IN
  /\ sy[d].pc = "push" /\ sy[d].parts # <<>>
  /\ faults' = IF refused THEN faults ELSE faults + 1
  /\ faults' <= MaxFault
  /\ sy' = [sy EXCEPT ![d] = Pulling]
  /\ UNCHANGED <<st, log, lost, writes, torn>>

\* Mutant: the first accepted part settles all that was queued.
MutantSettle(d) ==
  /\ sy[d].pc = "settle"
  /\ st' = [st EXCEPT ![d].dirty =
       @ \ (Range(sy[d].queue) \cup {SlotOf(o) : o \in UNION {Range(p) : p \in Range(sy[d].parts)}})]
  /\ sy' = [sy EXCEPT ![d].pc = "push", ![d].parts = Tail(@)]
  /\ UNCHANGED <<log, lost, writes, faults, torn>>
\* settle: the accepted part is no longer dirty, whatever the row holds by now.
Settle(d) ==
  /\ sy[d].pc = "settle"
  /\ st' = [st EXCEPT
       ![d].dirty = @ \ {SlotOf(o) : o \in Range(Part(d))},
       ![d].acctSent = IF \E o \in Range(Part(d)) : o.tag = "account"
                       THEN (CHOOSE o \in Range(Part(d)) : o.tag = "account").ver ELSE @]
  /\ sy' = [sy EXCEPT ![d].pc = "push", ![d].parts = Tail(@)]
  /\ UNCHANGED <<log, lost, writes, faults, torn>>

\* The answer of an accepted request is lost: the push fails.
LoseReply(d) ==
  /\ sy[d].pc = "settle" /\ faults < MaxFault
  /\ sy' = [sy EXCEPT ![d] = Pulling]
  /\ lost' = lost \cup {Part(d)}
  /\ faults' = faults + 1
  /\ UNCHANGED <<st, log, writes, torn>>

\* forget_push_refusals
ForgetRefusals(d) ==
  /\ sy[d].pc = "idle" /\ st[d].left # {}
  /\ st' = [st EXCEPT ![d].left = {}]
  /\ UNCHANGED <<sy, log, lost, writes, faults, torn>>
-----------------------------------------------------------------------------
(* Pull: verify before apply.                                              *)

\* vault_content_eq, item_content_eq: the epoch is not compared.
SameContent(o, p) == [o EXCEPT !.epoch = 0] = [p EXCEPT !.epoch = 0]

\* Mutant: another record of the same version is skipped as stale.
MutantMerge(S, o) ==
  IF ~Has(S, SlotOf(o)) \/ S.rows[SlotOf(o)].ver < o.ver THEN "applied" ELSE "stale"
\* Last writer wins by version; another record of the same version is a
\* conflict and is not stored.
Merge(S, o) ==
  LET s == SlotOf(o) IN
  IF ~Has(S, s) \/ S.rows[s].ver < o.ver THEN "applied"
  ELSE IF S.rows[s].ver > o.ver THEN "stale"
  ELSE IF SameContent(S.rows[s], o) THEN "same" ELSE "conflict"

\* process_vault, process_item.
RecordVerdict(d, S, o) ==
  IF o.epoch < S.floor THEN "floor"
  ELSE IF ~MayWrite(S, Anchor(d, S), o.author, o.epoch) THEN "authority"
  ELSE Merge(S, o)

\* Mutant: without the check for equivocation.
MutantManifestVerdict(d, S, o) ==
  IF o.epoch < S.floor THEN "floor"
  ELSE IF Verified([S EXCEPT !.rows = Store(@, {o})], Anchor(d, S), o.epoch)
  THEN "applied" ELSE "authority"
\* process_manifest: a manifest of a known epoch is never replaced.
ManifestVerdict(d, S, o) ==
  IF o.epoch < S.floor THEN "floor"
  ELSE IF Has(S, SlotOf(o))
  THEN IF Manifest(S, o.epoch) # o THEN "conflict"
       ELSE IF o.epoch > S.floor /\ ~Verified(S, Anchor(d, S), o.epoch)
       THEN "authority" ELSE "same"
  ELSE IF Verified([S EXCEPT !.rows = Store(@, {o})], Anchor(d, S), o.epoch)
  THEN "applied" ELSE "authority"

\* process_grant: an admin of the epoch grants a member its role.
GrantVerdict(d, S, o) ==
  IF o.epoch < S.floor THEN "floor"
  ELSE IF /\ Verified(S, Anchor(d, S), o.epoch)
          /\ Manifest(S, o.epoch).roles[o.author] = "admin"
          /\ o.roles[o.id] # "none" /\ Manifest(S, o.epoch).roles[o.id] = o.roles[o.id]
  THEN "applied" ELSE "authority"

SigRank(d) == CHOOSE n \in DOMAIN DeviceSeq : DeviceSeq[n] = d

\* process_account_state: two states of one version are told apart by their
\* signatures, so that all devices keep the same one.
AccountVerdict(d, S, o) ==
  IF o.author # AccountOf[d] THEN "authority"
  ELSE IF /\ Has(S, SlotOf(o))
          /\ \/ o.ver < S.rows[SlotOf(o)].ver
             \/ /\ o.ver = S.rows[SlotOf(o)].ver
                /\ SigRank(o.dev) <= SigRank(S.rows[SlotOf(o)].dev)
  THEN "stale" ELSE "applied"

Verdict(d, S, o) ==
  CASE o.tag \in {"vault", "item"} -> RecordVerdict(d, S, o)
    [] o.tag = "manifest" -> ManifestVerdict(d, S, o)
    [] o.tag = "grant" -> GrantVerdict(d, S, o)
    [] o.tag = "account" -> AccountVerdict(d, S, o)

\* What became of an object that was not stored: gap when a manifest it rests
\* on is not there.
Refusal(S, o, v) ==
  LET dep == IF o.tag = "manifest" THEN o.epoch - 1 ELSE o.epoch IN
  [slot |-> SlotOf(o), pinned |-> S.pinned,
   gap |-> v = "authority" /\ \E k \in 1..dep : ~Has(S, Slot("manifest", NoId, k))]

\* process_object on an object, stopped after the given statement: it is stored,
\* then the floor is raised to an accepted manifest.
ProcessObject(d, S, o, stop) ==
  LET v == Verdict(d, S, o)
      raises == o.tag = "manifest" /\ v \in {"applied", "same"} /\ o.epoch > S.floor
  IN [S EXCEPT !.rows    = IF v = "applied" THEN Store(@, {o}) ELSE @,
               !.floor   = IF raises /\ stop # "stored" THEN o.epoch ELSE @,
               !.reports = IF v \in {"conflict", "floor", "authority"}
                           THEN @ \cup {Refusal(S, o, v)} ELSE @]

\* Mutant: the cursor waits at an object that was not stored.
MutantProcessRowWait(d, S, n) ==
  [ProcessObject(d, S, log[n], "done") EXCEPT
     !.cursor = IF Verdict(d, S, log[n]) \in {"conflict", "floor", "authority"} THEN @ ELSE n]
\* advance_cursor: the cursor passes the row, whatever became of the object.
ProcessRow(d, S, n) == [ProcessObject(d, S, log[n], "done") EXCEPT !.cursor = n]

\* The database after all the rows of a page, and after those of one vault,
\* fetched by its id, which leave the cursor alone.
ProcessPage(d, S, page) ==
  LET f[n \in 0..Len(page)] == IF n = 0 THEN S ELSE ProcessRow(d, f[n - 1], page[n])
  IN f[Len(page)]
ApplyPulledObjects(d, S, page) ==
  LET f[n \in 0..Len(page)] ==
        IF n = 0 THEN S ELSE ProcessObject(d, f[n - 1], log[page[n]], "done")
  IN f[Len(page)]

Page(d) == LET D == Delta(d, st[d].cursor) IN SubSeq(D, 1, Min({PageMax, Len(D)}))
VaultRows(d) == SelectSeq(Delta(d, 0), LAMBDA s : log[s].tag \in VaultTags)

\* A push without anything left to send has become the pull.
PullRuns(d) ==
  \/ sy[d].pc = "pull"
  \/ sy[d].pc = "push" /\ sy[d].parts = <<>> /\ sy[d].queue = <<>>

\* sync_pull: a page is fetched and applied.
PullPage(d) ==
  /\ PullRuns(d) /\ Page(d) # <<>>
  /\ st' = [st EXCEPT ![d] = ProcessPage(d, @, Page(d))]
  /\ sy' = [sy EXCEPT ![d] = Pulling]
  /\ UNCHANGED <<log, lost, writes, faults, torn>>

\* The sync ends: there is no further page, it cannot be fetched, or the sync
\* was a push only.
EndSync(d) ==
  /\ PullRuns(d)
  /\ sy' = [sy EXCEPT ![d] = NotSyncing]
  /\ UNCHANGED <<st, log, lost, writes, faults, torn>>

\* trust_shared_vault, then apply_pulled_objects: the vault is fetched whole; a
\* teammate's vault is pinned to its owner first.
PullVault(d) ==
  /\ sy[d].pc = "idle" /\ VaultRows(d) # <<>> /\ writes < MaxWrite
  /\ st' = [st EXCEPT ![d] =
       ApplyPulledObjects(d, [@ EXCEPT !.pinned = AccountOf[d] # Owner], VaultRows(d))]
  /\ writes' = writes + 1
  /\ UNCHANGED <<sy, log, lost, faults, torn>>

\* The process is killed while it applies a page: some rows are done, the next
\* one has come as far as some statement.
KillPull(d) ==
  /\ PullRuns(d) /\ Page(d) # <<>> /\ faults < MaxFault
  /\ \E n \in DOMAIN Page(d), stop \in {"stored", "raised"} :
       st' = [st EXCEPT ![d] = ProcessObject(d, ProcessPage(d, @, SubSeq(Page(d), 1, n - 1)),
                                             log[Page(d)[n]], stop)]
  /\ sy' = [sy EXCEPT ![d] = NotSyncing]
  /\ faults' = faults + 1
  /\ UNCHANGED <<log, lost, writes, torn>>

\* The process is killed while it pushes.
KillPush(d) ==
  /\ sy[d].pc \in {"push", "settle"} /\ faults < MaxFault
  /\ sy' = [sy EXCEPT ![d] = NotSyncing]
  /\ lost' = IF sy[d].pc = "settle" THEN lost \cup {Part(d)} ELSE lost
  /\ faults' = faults + 1
  /\ UNCHANGED <<st, log, writes, torn>>
-----------------------------------------------------------------------------
EmptyStore ==
  [rows |-> <<>>, dirty |-> {}, floor |-> 0, cursor |-> 0, pinned |-> FALSE,
   acctSent |-> 0, left |-> {}, reports |-> {}]

\* The vault was just created on the first device and bound to the server.
Init ==
  /\ st = [d \in Device |->
       IF d # DeviceSeq[1] THEN EmptyStore
       ELSE [EmptyStore EXCEPT
               !.rows = Store(<<>>, {Object("vault", NoId, 1, 0, d, <<d, 0>>, FALSE, Nobody)}),
               !.dirty = {VaultSlot}]]
  /\ sy = [d \in Device |-> NotSyncing]
  /\ log = <<>> /\ lost = {} /\ writes = 0 /\ faults = 0
  /\ torn = {}

UserStep(d) ==
  \/ "item" \in Ops /\ \E i \in Item : PutItem(d, i) \/ DeleteItem(d, i)
  \/ "vault" \in Ops /\ (SetName(d) \/ SetCachePolicy(d) \/ DeleteVault(d))
  \/ "account" \in Ops /\ PutAccount(d)
  \/ "member" \in Ops /\ \E R \in MemberSets, fresh \in BOOLEAN : NewEpoch(d, R, fresh)
  \/ "pull" \in Ops /\ PullVault(d)

PushStep(d) ==
  \/ StartSync(d) \/ BuildRequest(d) \/ Deliver(d) \/ Halve(d)
  \/ LeaveOut(d) \/ FailPush(d) \/ Settle(d) \/ LoseReply(d) \/ KillPush(d) \/ ForgetRefusals(d)

\* The steps a running push takes by itself.
Pushes(d) == BuildRequest(d) \/ Deliver(d) \/ Halve(d) \/ LeaveOut(d) \/ Settle(d)

PullStep(d) == PullPage(d) \/ EndSync(d) \/ KillPull(d)

Next == \E d \in Device : UserStep(d) \/ PushStep(d) \/ PullStep(d)

Spec == Init /\ [][Next]_vars

\* The app syncs again and again while there is something to sync, a running
\* push goes on, and not every fetch of a page fails.  (Kills and lost messages
\* are finitely many by MaxFault.)
FairSpec ==
  /\ Spec
  /\ \A d \in Device :
       /\ WF_vars(StartSync(d)) /\ WF_vars(EndSync(d)) /\ SF_vars(PullPage(d))
       /\ WF_vars(Pushes(d))
-----------------------------------------------------------------------------
(* Properties.                                                             *)

SlotSet == Range(PushOrder)
ObjectSet ==
  [tag : {"vault", "item", "manifest", "grant", "account", "gone"},
   id : Item \cup Member \cup {NoId}, ver : Nat, epoch : 0..MaxEpoch, author : Member,
   dev : Device \cup {NoId}, key : {NoKey} \cup Device \X (0..MaxEpoch), tomb : BOOLEAN,
   roles : [Member -> Role]]

\* Every row sits in its own slot, and what is dirty or queued exists.
TypeOK ==
  /\ \A d \in Device :
       LET S == st[d]  Y == sy[d] IN
       /\ DOMAIN S.rows \subseteq SlotSet
       /\ \A s \in DOMAIN S.rows : S.rows[s] \in ObjectSet /\ SlotOf(S.rows[s]) = s
       /\ S.dirty \subseteq DOMAIN S.rows
       /\ S.floor \in 0..MaxEpoch /\ S.cursor \in 0..Len(log)
       /\ Range(Y.queue) \subseteq DOMAIN S.rows /\ DOMAIN Y.snap \subseteq Range(Y.queue)
       /\ \A p \in Range(Y.parts) : p # <<>> /\ Range(p) \subseteq ObjectSet
  /\ Range(log) \subseteq ObjectSet
  /\ writes \in 0..MaxWrite /\ faults \in 0..MaxFault

\* The server holds o, or a later state of the account.
OnServer(o) ==
  \/ o \in Range(log)
  \/ \E n \in Rows("account") : o.tag = "account" /\ log[n].author = o.author /\ log[n].ver > o.ver

\* The dirty flags and the account cursor never claim more than the server has:
\* a row that no push will send is in the log, so no failure, halving, replay
\* or kill between accepting and settling loses a change.  (A kill between the
\* two statements of an edit does: torn.)
NothingUnsent ==
  \A d \in Device : \A s \in DOMAIN st[d].rows :
    LET o == st[d].rows[s] IN
    \/ IF o.tag = "account" THEN o.ver > st[d].acctSent ELSE s \in st[d].dirty
    \/ <<d, o>> \in torn \/ OnServer(o)

\* What TrustMonotone says of one step.
TrustMonotoneStep ==
  \A d \in Device :
    /\ st'[d].floor >= st[d].floor /\ st'[d].cursor >= st[d].cursor
    /\ \A s \in DOMAIN st[d].rows :
         /\ s \in DOMAIN st'[d].rows
         /\ st'[d].rows[s].ver >= st[d].rows[s].ver
         /\ s[1] = "manifest" => st'[d].rows[s] = st[d].rows[s]

\* What a device trusts only grows: no row vanishes or goes back to an older
\* version, no manifest changes once stored, neither the epoch floor nor the
\* cursor is lowered, whatever the pages contain and wherever a pull stops.
TrustMonotone == [][TrustMonotoneStep]_vars

\* Dependency order: whatever the cutting, the halving and the failures, a
\* record or grant of an epoch comes after the manifest of the epoch.
ManifestFirst ==
  \A n \in DOMAIN log :
    log[n].tag \in {"vault", "grant", "item"} /\ log[n].epoch > 0 =>
      \E k \in 1..(n - 1) : log[k].tag = "manifest" /\ log[k].epoch = log[n].epoch

\* Hence a device of the owner, which is sent every row, never refuses one for
\* want of a manifest: the cursor would pass it for ever.
OwnerNeverGaps ==
  \A d \in Device : AccountOf[d] = Owner => \A r \in st[d].reports : ~r.gap

\* Nothing is in flight: no sync, no edit, nothing to send, nothing to pull.
Quiet ==
  \A d \in Device :
    /\ sy[d].pc = "idle"
    /\ \A s \in SlotSet : ~ToSend(d, st[d], s)
    /\ Delta(d, st[d].cursor) = <<>>

\* d did not apply an object of slot s, and said so; or kept a change of its
\* own back (left out of the push, or torn).
Excused(d, s) ==
  \/ \E r \in st[d].reports : r.slot = s
  \/ s \in st[d].dirty
  \/ \E o \in {t[2] : t \in torn} : SlotOf(o) = s

\* No silent divergence: once everything is pushed and pulled, two devices of
\* the owner hold the same records and manifests, unless one of them reported
\* a conflict or a rejection.
SettledAgree ==
  Quiet =>
    \A d, f \in {x \in Device : AccountOf[x] = Owner} : \A s \in DOMAIN st[d].rows :
      \/ s[1] = "account" \/ Excused(d, s) \/ Excused(f, s)
      \/ s \in DOMAIN st[f].rows /\ SameContent(st[f].rows[s], st[d].rows[s])

\* A member who accepted the share can open the vault whenever the server lets
\* it read it and everything is pushed and pulled: the manifests, the record and
\* its grant fit together.
MemberOpens ==
  Quiet =>
    \A d \in Device :
      st[d].pinned /\ MayRead(AccountOf[d]) /\ ~st[d].rows[VaultSlot].tomb => Opened(d)

\* The epoch stamped on a record is the epoch of the key it is wrapped under:
\* an item opens with the key of a vault record of the same epoch.
KeyOfEpoch ==
  \A d, f \in Device : \A s \in DOMAIN st[d].rows :
    LET o == st[d].rows[s] IN
    s[1] = "item" /\ ~o.tomb /\ Has(st[f], VaultSlot) /\ st[f].rows[VaultSlot].epoch = o.epoch
      => o.key = st[f].rows[VaultSlot].key

\* Concurrent account states of one version end as the same state everywhere.
AccountConverges ==
  Quiet =>
    \A d, f \in Device : AccountOf[d] = AccountOf[f] =>
      LET s == Slot("account", AccountOf[d], 0) IN
      s \in DOMAIN st[d].rows =>
        s \in DOMAIN st[f].rows /\ st[f].rows[s] = st[d].rows[s]

\* An edited item reaches the server or is remembered as left out, although
\* another one of its request is too large and the push fails now and then.
Delivered ==
  \A d \in Device, i \in Item :
    LET s == Slot("item", i, 0) IN
    s \in st[d].dirty ~> (s \notin st[d].dirty \/ <<s, st[d].rows[s].ver>> \in st[d].left)

\* Once users stop, the devices come to rest: what a pull stores over a dirty
\* row, and an account state pulled, is sent back once and no more.
SettlesDown == <>[]Quiet
=============================================================================

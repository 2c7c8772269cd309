----------------------------- MODULE LocalVault -----------------------------
(***************************************************************************)
(* The items of one vault in a device's database: rows with a version that *)
(* only grows, a dirty flag the push lives by, and an archive of the past  *)
(* versions of a secret (rust-core/crates/vault/src/vault.rs,              *)
(* storage/src/store.rs, and the parts of sync/src/engine.rs that write    *)
(* rows).  A local edit stores the row and marks it dirty in two           *)
(* statements, under the core's lock: the process may die between them.    *)
(* Other devices write the same items through the server, which may take   *)
(* away this account's right to write; the user can then discard the edits *)
(* no push delivers.                                                       *)
(***************************************************************************)
EXTENDS Naturals, FiniteSets, Sequences, SequencesExt

CONSTANTS
    Items,        \* item ids
    Vals,         \* plaintexts
    HISTORY_RETAIN,
    MaxVer, MaxEpoch,    \* bounds on versions and key epochs
    RemoteDeletes,       \* BOOLEAN: other devices delete items and the vault
    Crashes,             \* BOOLEAN: the process may die inside an edit
    Diverges             \* BOOLEAN: two devices edit an item, neither having the other's edit

\* What every instance of this module satisfies.
RetainAssumption == HISTORY_RETAIN \in Nat \ {0} /\ MaxVer \in Nat /\ MaxEpoch \in Nat

VARIABLES
    row,      \* item -> [ver, val, tomb, mine, dirty, epoch]; ver 0: no row
    hist,     \* item -> the archive, oldest first: [ver, val, past]
    floor,    \* the key epoch of the vault on this device
    alive,    \* the vault is not tombstoned here
    server,   \* item -> the server's copy, same fields
    gone,     \* the vault is tombstoned on the server
    sepoch,   \* the key epoch other devices write under
    writer,   \* the server takes this account's writes
    half,     \* the item stored and not yet marked dirty (an edit under way), or None
    truth     \* ghost: what the item last was at each version on this device

vars == <<row, hist, floor, alive, server, gone, sepoch, writer, half, truth>>

None == "none"
NoVal == "empty"
NoRow == [ver |-> 0, val |-> NoVal, tomb |-> FALSE, mine |-> FALSE, dirty |-> FALSE, epoch |-> 0]

Init ==
    /\ row = [i \in Items |-> NoRow]
    /\ hist = [i \in Items |-> <<>>]
    /\ floor = 1
    /\ alive = TRUE
    /\ server = [i \in Items |-> NoRow]
    /\ gone = FALSE
    /\ sepoch = 1
    /\ writer = TRUE
    /\ half = None
    /\ truth = [i \in Items |-> [v \in 1..MaxVer |-> NoVal]]

----------------------------------------------------------------------------
(* Rows and archive. *)

Here(i) == row[i].ver > 0 /\ ~row[i].tomb
Open == alive /\ half = None

(* next_version. *)
next_version(i) == row[i].ver + 1

(* Vault::put_item's record, and tombstone_record's. *)
Record(i, val, tomb) == [ver |-> next_version(i), val |-> val, tomb |-> tomb, mine |-> TRUE,
                         dirty |-> row[i].dirty, epoch |-> floor]

(* require_writer, and the bounds. *)
MayEdit(i) == /\ Open /\ writer
              /\ next_version(i) <= MaxVer
              /\ Diverges \/ row[i].ver >= server[i].ver

Learn(t, i, r) == [t EXCEPT ![i][r.ver] = r.val]

(* insert_history: INSERT OR IGNORE, one row a version; trim_history keeps the
   last HISTORY_RETAIN inserted. *)
insert_history(h, r) ==
    IF \E k \in DOMAIN h : h[k].ver = r.ver THEN h
    ELSE Append(h, [ver |-> r.ver, val |-> r.val, past |-> FALSE])
(* Ghost: the secret the archive belongs to is deleted. *)
Outlived(h) == [k \in DOMAIN h |-> [h[k] EXCEPT !.past = TRUE]]
trim_history(h) == IF Len(h) <= HISTORY_RETAIN THEN h
                   ELSE SubSeq(h, Len(h) - HISTORY_RETAIN + 1, Len(h))

----------------------------------------------------------------------------
(* Local edits.  The row is stored in the first step, marked in the second. *)

(* Vault::put_item. *)
put_item(i, val) ==
    /\ MayEdit(i)
    /\ row' = [row EXCEPT ![i] = Record(i, val, FALSE)]
    /\ truth' = Learn(truth, i, row'[i])
    /\ half' = i
    /\ UNCHANGED <<hist, floor, alive, server, gone, sepoch, writer>>

\* The archive is taken after the row was replaced.
MutArchive(i, val) ==
    /\ MayEdit(i)
    /\ row' = [row EXCEPT ![i] = Record(i, val, FALSE)]
    /\ hist' = [hist EXCEPT ![i] = trim_history(IF Here(i) THEN insert_history(@, [row[i] EXCEPT !.val = val]) ELSE @)]
    /\ truth' = Learn(truth, i, row'[i])
    /\ half' = i
    /\ UNCHANGED <<floor, alive, server, gone, sepoch, writer>>

(* put_item_keep_history / archive_and_put: one transaction, then the mark. *)
put_item_keep_history(i, val) ==
    /\ MayEdit(i)
    /\ row' = [row EXCEPT ![i] = Record(i, val, FALSE)]
    /\ hist' = [hist EXCEPT ![i] = trim_history(IF Here(i) THEN insert_history(@, row[i]) ELSE @)]
    /\ truth' = Learn(truth, i, row'[i])
    /\ half' = i
    /\ UNCHANGED <<floor, alive, server, gone, sepoch, writer>>

(* delete_item / put_item_and_clear_history. *)
delete_item(i) ==
    /\ MayEdit(i) /\ row[i].ver > 0
    /\ row' = [row EXCEPT ![i] = Record(i, NoVal, TRUE)]
    /\ hist' = [hist EXCEPT ![i] = <<>>]
    /\ truth' = Learn(truth, i, row'[i])
    /\ half' = i
    /\ UNCHANGED <<floor, alive, server, gone, sepoch, writer>>

(* mark_item_dirty. *)
mark_item_dirty ==
    /\ half # None
    /\ row' = [row EXCEPT ![half].dirty = TRUE]
    /\ half' = None
    /\ UNCHANGED <<hist, floor, alive, server, gone, sepoch, writer, truth>>

(* rename_item: the copy, the tombstone and the archive in one transaction. *)
rename_item(old, new) ==
    /\ MayEdit(old) /\ MayEdit(new)
    /\ old # new /\ Here(old) /\ ~Here(new)
    /\ row' = [row EXCEPT ![new] = [Record(new, row[old].val, FALSE) EXCEPT !.dirty = TRUE],
                          ![old] = [Record(old, NoVal, TRUE) EXCEPT !.dirty = TRUE]]
    /\ hist' = [hist EXCEPT ![old] = <<>>]
    /\ truth' = Learn(Learn(truth, new, row'[new]), old, row'[old])
    /\ UNCHANGED <<floor, alive, server, gone, sepoch, writer, half>>

(* rotate_vk: every row, tombstones included, written again under the next
   epoch; the floor moves with them.  The archive stays under the old key. *)
rotate_vk ==
    /\ Open /\ writer /\ floor < MaxEpoch
    /\ \A i \in Items : MayEdit(i)
    /\ floor' = floor + 1
    /\ row' = [i \in Items |-> IF row[i].ver = 0 THEN row[i]
                 ELSE [row[i] EXCEPT !.ver = @ + 1, !.epoch = floor', !.mine = TRUE, !.dirty = TRUE]]
    /\ truth' = [i \in Items |-> [v \in 1..MaxVer |->
                    IF row[i].ver > 0 /\ v = row[i].ver + 1 THEN row[i].val ELSE truth[i][v]]]
    /\ UNCHANGED <<hist, alive, server, gone, sepoch, writer, half>>

(* Vault::delete: the vault's tombstone and every archive, in one transaction. *)
delete_vault ==
    /\ Open /\ writer
    /\ alive' = FALSE
    /\ hist' = [i \in Items |-> <<>>]
    /\ gone' = TRUE
    /\ UNCHANGED <<row, floor, server, sepoch, writer, half, truth>>

(* restore_deleted_cloud_vaults (purge_vault_data_keeping_trust): the tombstoned
   vault's rows go, and the server's copy is pulled from the start. *)
restore_deleted ==
    /\ ~alive /\ half = None
    /\ alive' = TRUE /\ gone' = FALSE
    /\ floor' = sepoch
    /\ row' = [i \in Items |-> IF server[i].epoch >= sepoch THEN server[i] ELSE NoRow]
    /\ hist' = [i \in Items |-> <<>>]
    /\ truth' = [i \in Items |-> [v \in 1..MaxVer |-> IF v = row'[i].ver THEN row'[i].val ELSE NoVal]]
    /\ UNCHANGED <<server, sepoch, writer, half>>

Crash ==
    /\ Crashes
    /\ half # None
    /\ half' = None
    /\ UNCHANGED <<row, hist, floor, alive, server, gone, sepoch, writer, truth>>

----------------------------------------------------------------------------
(* Push and pull. *)

Sent(r) == [r EXCEPT !.dirty = FALSE, !.mine = FALSE]

(* The server keeps a newer version and drops a stale one; an account that may
   not write is refused, and its rows stay dirty.  clear_dirty: the flag goes. *)
push(i) ==
    /\ Open
    /\ row[i].dirty /\ writer
    /\ server' = [server EXCEPT ![i] = IF row[i].ver > @.ver THEN Sent(row[i]) ELSE @]
    /\ row' = [row EXCEPT ![i].dirty = FALSE]
    /\ sepoch' = IF row[i].epoch > sepoch THEN row[i].epoch ELSE sepoch
    /\ UNCHANGED <<hist, floor, alive, gone, writer, half, truth>>

(* process_item up to put_lww: not below the epoch floor, and newer (an equal
   version with other content is a conflict and is left). *)
Applicable(i, s) == s.epoch >= floor /\ s.ver > row[i].ver

(* process_item: put_item keeps the dirty flag of the row it replaces. *)
pull(i) ==
    /\ Open
    /\ Applicable(i, server[i])
    /\ row' = [row EXCEPT ![i] = [server[i] EXCEPT !.dirty = row[i].dirty]]
    /\ hist' = [hist EXCEPT ![i] = IF server[i].tomb THEN Outlived(@) ELSE @]
    /\ truth' = Learn(truth, i, server[i])
    /\ floor' = IF server[i].epoch > floor THEN server[i].epoch ELSE floor
    /\ UNCHANGED <<alive, server, gone, sepoch, writer, half>>

(* process_vault: a tombstone another device wrote. *)
pull_vault ==
    /\ Open /\ gone
    /\ alive' = FALSE
    /\ UNCHANGED <<row, hist, floor, server, gone, sepoch, writer, half, truth>>

(* Another device writes an item, deletes one, deletes the vault; an admin
   takes away or gives back this account's role. *)
RemoteWrite(i, val) ==
    /\ ~gone
    /\ Diverges \/ row[i].ver <= server[i].ver
    /\ server[i].ver < MaxVer
    /\ server' = [server EXCEPT ![i] = [NoRow EXCEPT !.ver = server[i].ver + 1, !.val = val, !.epoch = sepoch]]
    /\ UNCHANGED <<row, hist, floor, alive, gone, sepoch, writer, half, truth>>

RemoteDelete(i) ==
    /\ RemoteDeletes /\ ~gone
    /\ server[i].ver > 0 /\ server[i].ver < MaxVer
    /\ server' = [server EXCEPT ![i] = [@ EXCEPT !.ver = @ + 1, !.val = NoVal, !.tomb = TRUE]]
    /\ UNCHANGED <<row, hist, floor, alive, gone, sepoch, writer, half, truth>>

RemoteDeleteVault ==
    /\ RemoteDeletes /\ ~gone
    /\ gone' = TRUE
    /\ UNCHANGED <<row, hist, floor, alive, server, sepoch, writer, half, truth>>

RoleChange ==
    /\ writer' = ~writer
    /\ UNCHANGED <<row, hist, floor, alive, server, gone, sepoch, half, truth>>

----------------------------------------------------------------------------
(* Discarding what no push delivers. *)

(* The edits the fresh push was refused, and other members' rows that are dirty. *)
Unpushable == {i \in Items : row[i].dirty}
Mine(i) == i \in Unpushable /\ row[i].mine

(* delete_item_history_above for an item the server holds, clear_item_history
   for one it does not. *)
HistoryAfter(i) == IF server[i].ver > 0
                   THEN SelectSeq(hist[i], LAMBDA h : h.ver <= server[i].ver)
                   ELSE <<>>

(* discard_unpushable: the account's edits go and the server's copy comes back,
   in one transaction; a copy the epoch floor refuses rolls everything back. *)
discard_unpushable ==
    /\ Open /\ ~writer /\ Unpushable # {}
    /\ \A i \in Items : Mine(i) /\ server[i].ver > 0 => server[i].epoch >= floor
    /\ row' = [i \in Items |->
          IF Mine(i) THEN server[i]
          ELSE [(IF Applicable(i, server[i]) THEN server[i] ELSE row[i]) EXCEPT !.dirty = FALSE]]
    /\ hist' = [i \in Items |-> IF row'[i].tomb \/ row'[i].ver = 0
                                THEN Outlived(IF Mine(i) THEN HistoryAfter(i) ELSE hist[i])
                                ELSE IF Mine(i) THEN HistoryAfter(i) ELSE hist[i]]
    /\ truth' = [i \in Items |-> [v \in 1..MaxVer |->
                    IF v = row'[i].ver THEN row'[i].val
                    ELSE IF Mine(i) /\ v > server[i].ver THEN NoVal ELSE truth[i][v]]]
    /\ UNCHANGED <<floor, alive, server, gone, sepoch, writer, half>>

----------------------------------------------------------------------------
(* list_item_versions and get_item_version: the live row first, then the archive. *)
list_item_versions(i) == (IF Here(i) THEN {row[i].ver} ELSE {}) \cup {hist[i][k].ver : k \in DOMAIN hist[i]}
get_item_version(i, v) ==
    IF Here(i) /\ row[i].ver = v THEN row[i].val
    ELSE hist[i][CHOOSE k \in DOMAIN hist[i] : hist[i][k].ver = v].val

(* check_stale_history: the archives of deleted or absent items. *)
check_stale_history == {i \in Items : hist[i] # <<>> /\ ~Here(i)}

Edit == \E i \in Items, val \in Vals : put_item(i, val) \/ put_item_keep_history(i, val)

Next == \/ Edit
        \/ \E i \in Items : delete_item(i) \/ push(i) \/ pull(i) \/ RemoteDelete(i)
        \/ \E i, j \in Items : rename_item(i, j)
        \/ \E i \in Items, val \in Vals : RemoteWrite(i, val)
        \/ mark_item_dirty \/ Crash
        \/ rotate_vk \/ delete_vault \/ restore_deleted
        \/ pull_vault \/ RemoteDeleteVault \/ RoleChange
        \/ discard_unpushable

Spec == Init /\ [][Next]_vars

----------------------------------------------------------------------------
TypeOK ==
    /\ \A i \in Items : /\ row[i].ver \in 0..MaxVer /\ row[i].val \in Vals \cup {NoVal}
                        /\ row[i].tomb => row[i].val = NoVal
                        /\ Len(hist[i]) <= HISTORY_RETAIN
    /\ half \in Items \cup {None}
    /\ floor \in 1..MaxEpoch

(* check_stale_history, and what it is for: an archived version belongs to the
   item's present life - "the old plaintext must not outlive the deletion of
   the secret" (store.rs:1451) - and a deleted vault keeps none. *)
HistoryPurged ==
    /\ check_stale_history = {}
    /\ \A i \in Items : \A k \in DOMAIN hist[i] : ~hist[i][k].past
    /\ ~alive => \A i \in Items : hist[i] = <<>>

(* What is revealed for a version is what the item was at that version, and a
   version of the archive never shadows a later one to be archived: discarded
   edits and the versions written after them never swap places, although the
   version numbers repeat. *)
HistoryTrue ==
    \A i \in Items :
        /\ \A v \in list_item_versions(i) : v <= row[i].ver /\ get_item_version(i, v) = truth[i][v]
        /\ \A k \in DOMAIN hist[i] : hist[i][k].val = truth[i][hist[i][k].ver]

(* Every live row is sealed under the vault's present key: after a rotation no
   item of the old epoch is let in, in whatever order rotations, pulls, edits
   and discards come. *)
ItemsOpen ==
    \A i \in Items : Here(i) => row[i].epoch = floor

(* What the device holds and the server does not is marked to be sent: "dirty=1
   is set by the vault layer on a LOCAL edit; sync_push sends only dirty=1"
   (schema.rs:209). *)
EditsMarked ==
    \A i \in Items : half # i /\ row[i].ver > server[i].ver => row[i].dirty

\* What VersionsGrow says of one step.
VersionsGrowStep ==
  \A i \in Items : row'[i].ver < row[i].ver => (~writer /\ row[i].dirty /\ row[i].mine) \/ ~alive

(* The version of a row falls only when the user discards the edit or restores
   the whole vault. *)
VersionsGrow == [][VersionsGrowStep]_vars
=============================================================================

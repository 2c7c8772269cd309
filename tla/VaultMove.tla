------------------------------ MODULE VaultMove ------------------------------
(***************************************************************************)
(* Moving a local vault to a server (rust-core/crates/ffi/src/lib.rs, the  *)
(* desktop's cloud/commands.rs, the server's claim): a command reserves an *)
(* id, claims it in a space, converts the vault - a re-keyed copy under    *)
(* the new id, everything that named the vault by its old id re-pointed,   *)
(* the old vault tombstoned, in ONE transaction - and pushes it once.      *)
(* Several commands run at a time, the app may die between any two steps,  *)
(* the server's answers may be lost, and sessions that captured the old id *)
(* end after the move.                                                     *)
(*                                                                         *)
(* A host has a uid: a stored one, or (legacy) the one derived from its    *)
(* vault's id and its item id.  Hops, bindings and pins name a host by     *)
(* <<vault id, uid>>.  The ghost fields gid (which host this is) and to    *)
(* (which host the reference was made for) say what a name means.          *)
(***************************************************************************)
EXTENDS Naturals, FiniteSets, Sequences, SequencesExt

CONSTANTS
    LocalIds,     \* ids of the device's local vaults
    Restored,     \* the id a backup is restored under, not in use at first
    Shared,       \* a cloud vault of the device this account may write
    Viewed,       \* a shared vault this account can only view
    Fresh,        \* what new_vault_id mints, one after the other
    Recorded,     \* the vaults recorded sessions are opened in
    Spaces, Primary,   \* the server's spaces; the link's own space
    Cmds,         \* commands under way at a time
    Hosts0, Binds0,    \* the device's hosts and bindings at first (sets of sets)
    MaxFaults,    \* lost answers, failed pushes and crashes
    MaxUser       \* deletions, bindings and backups by the user

\* What every instance of this module satisfies.
BoundsAssumption == MaxFaults \in Nat /\ MaxUser \in Nat

VARIABLES
    vault,     \* vault id -> its row, or NoRow
    hosts, binds,
    reserved,  \* <<space, source>> -> id kept for the next attempt, or NoId
    claims,    \* the server's vaults table: id -> the <<space, source>> it was claimed for
    moved,     \* old id -> new id (never removed)
    personal,  \* the account's Personal pointer
    lists,     \* what the device keeps by vault id
    cmd,       \* the commands under way
    session,   \* the vault id an open recorded session captured, or NoId
    saved,     \* what became of the last recording: <<captured id, where it went or NoId>>
    backup,    \* an exported vault: <<>> or <<label, hosts, bindings>>
    faults, used

vars == <<vault, hosts, binds, reserved, claims, moved, personal, lists, cmd,
          session, saved, backup, faults, used>>

NoId == "none"
NoSpace == "unbound"
Create == "create"      \* the source of a vault created in a space
FreshIds == {Fresh[i] : i \in DOMAIN Fresh}
Ids == LocalIds \cup FreshIds \cup {Restored, Shared, Viewed}
Lists == {"agent", "rotation", "mcp"}

NoRow == [target |-> "none", live |-> FALSE, tenant |-> NoSpace, dirty |-> FALSE]
LocalRow == [target |-> "local", live |-> TRUE, tenant |-> NoSpace, dirty |-> TRUE]
CloudRow(space) == [target |-> "cloud", live |-> TRUE, tenant |-> space, dirty |-> TRUE]
Idle == [pc |-> "idle", src |-> NoId, space |-> NoSpace, id |-> NoId]

Live(v) == vault[v].live
Exists(v) == vault[v].target # "none"
(* new_vault_id: an id nobody has seen (any order will do). *)
Taken == {v \in FreshIds : Exists(v)} \cup {reserved[k] : k \in DOMAIN reserved}
             \cup {cmd[c].id : c \in Cmds} \cup DOMAIN claims
Minted == {Fresh[i] : i \in {n \in DOMAIN Fresh : Fresh[n] \notin Taken
                                                 /\ \A m \in 1..(n - 1) : Fresh[m] \in Taken}}

(* legacy_profile_uid: derived from the vault's id and the item's. *)
legacy_profile_uid(v, item) == <<v, item>>

(* profile_uid_in: the uid a profile is read with. *)
profile_uid_in(h) == IF h.uid = <<>> THEN legacy_profile_uid(h.vault, h.item) ELSE h.uid

(* What <<vault, uid>> names on this device: the hosts it resolves to. *)
Resolve(ref) == {h \in hosts : Live(h.vault) /\ h.vault = ref[1] /\ profile_uid_in(h) = ref[2]}

Named(ref) == IF ref = <<>> THEN {} ELSE {h.gid : h \in Resolve(ref)}

----------------------------------------------------------------------------
(* The rewriting of references, for the move of `old` to `new`. *)

(* VaultMove::holds and repoint_pin: only a reference that names the old vault
   AND one of the hosts it holds. *)
holds(old, uids, ref) == ref # <<>> /\ ref[1] = old /\ ref[2] \in uids

repoint_pin(old, new, uids, pin) == IF holds(old, uids, pin) THEN <<new, pin[2]>> ELSE pin

(* moved_profile_uids: the uids of the hosts in the vault's copy. *)
moved_profile_uids(copy) == {profile_uid_in(h) : h \in copy}

\* A legacy profile is copied as it is: it gets another uid under the new id.
MutRehomeHost(old, new, uids, h, inMoved) ==
    [h EXCEPT !.vault = IF inMoved THEN new ELSE @,
              !.hop = IF holds(old, uids, @) THEN <<new, @[2]>> ELSE @]
(* rehome_reference, a connection profile: the legacy uid is pinned in the
   moved vault, a hop to one of its hosts re-pointed. *)
rehome_host(old, new, uids, h, inMoved) ==
    [h EXCEPT !.vault = IF inMoved THEN new ELSE @,
              !.uid = IF inMoved /\ @ = <<>> THEN legacy_profile_uid(old, h.item) ELSE @,
              !.hop = IF holds(old, uids, @) THEN <<new, @[2]>> ELSE @]

(* rehome_reference, a Personal-identity binding: re-keyed (its item id is the
   pair it names), its pinned way re-pointed. *)
rehome_binding(old, new, uids, b, inMoved) ==
    [b EXCEPT !.holder = IF inMoved THEN new ELSE @,
              !.target = IF holds(old, uids, @) THEN <<new, @[2]>> ELSE @,
              !.pin = repoint_pin(old, new, uids, @)]

(* The vaults rehome_references rewrites: the ones that open and that this
   account may write; a viewed vault is skipped. *)
Rewritable(v) == Live(v) /\ v # Viewed

----------------------------------------------------------------------------
Init ==
    /\ vault = [v \in Ids |-> CASE v \in LocalIds -> LocalRow
                                [] v \in {Shared, Viewed} -> [CloudRow(Primary) EXCEPT !.dirty = FALSE]
                                [] OTHER -> NoRow]
    /\ hosts \in Hosts0
    /\ binds \in Binds0
    /\ reserved = [k \in Spaces \X (LocalIds \cup {Restored, Create}) |-> NoId]
    /\ claims = <<>>
    /\ moved = <<>>
    /\ personal \in LocalIds
    /\ lists = [l \in Lists |-> LocalIds]
    /\ cmd = [c \in Cmds |-> Idle]
    /\ session = NoId
    /\ saved = <<>>
    /\ backup = <<>>
    /\ faults = 0
    /\ used = 0

----------------------------------------------------------------------------
(* Reserving and claiming an id. *)

Movable(v) == Live(v) /\ vault[v].target = "local"

(* server_move_vault_to_server / server_create_cloud_vault with no space:
   nothing is reserved or claimed, the vault is bound to the link's space. *)
StartPlain(c, src) ==
    /\ cmd[c].pc = "idle"
    /\ cmd' = [cmd EXCEPT ![c] = [pc |-> "convert", src |-> src, space |-> Primary, id |-> NoId]]
    /\ UNCHANGED <<vault, hosts, binds, reserved, claims, moved, personal, lists, session,
                   saved, backup, faults, used>>

(* reserve_cloud_vault_id: the id kept for this space and source, unless a vault
   has it already; otherwise a fresh one, kept. *)
reserve_cloud_vault_id(c, src, space) ==
    /\ cmd[c].pc = "idle"
    /\ src # Create => Movable(src)
    /\ LET kept == reserved[<<space, src>>]
           at(id) == [pc |-> "claim", src |-> src, space |-> space, id |-> id]
       IN  IF kept # NoId /\ ~Exists(kept)
           THEN cmd' = [cmd EXCEPT ![c] = at(kept)] /\ UNCHANGED reserved
           ELSE \E new \in Minted :
                    /\ reserved' = [reserved EXCEPT ![<<space, src>>] = new]
                    /\ cmd' = [cmd EXCEPT ![c] = at(new)]
    /\ UNCHANGED <<vault, hosts, binds, claims, moved, personal, lists, session, saved,
                   backup, faults, used>>

(* The server's claim: the first one places the id, a later one by the same
   owner answers "not newly".  The answer may be lost: the command fails. *)
claim(c, lost) ==
    /\ cmd[c].pc = "claim"
    /\ claims' = IF cmd[c].id \in DOMAIN claims THEN claims
                 ELSE [i \in DOMAIN claims \cup {cmd[c].id} |->
                          IF i = cmd[c].id THEN <<cmd[c].space, cmd[c].src>> ELSE claims[i]]
    /\ IF lost THEN /\ faults < MaxFaults
                    /\ faults' = faults + 1
                    /\ cmd' = [cmd EXCEPT ![c] = Idle]
       ELSE cmd' = [cmd EXCEPT ![c].pc = "convert"] /\ UNCHANGED faults
    /\ UNCHANGED <<vault, hosts, binds, reserved, moved, personal, lists, session, saved,
                   backup, used>>

(* release_reserved_vault_id: only when the slot still holds the id used. *)
release_reserved(space, src, used_id) ==
    reserved' = [reserved EXCEPT ![<<space, src>>] = IF @ = used_id THEN NoId ELSE @]

----------------------------------------------------------------------------
(* Creating and converting. *)

(* The command's new vault id: the reserved one unless a vault has it, or one
   minted now. *)
NewId(c) == IF cmd[c].id # NoId THEN {cmd[c].id} \ {v \in FreshIds : Exists(v)} ELSE Minted

(* create_cloud_vault_as: the empty vault, bound, its reservation used up. *)
create_cloud_vault_as(c) ==
    /\ cmd[c].pc = "convert" /\ cmd[c].src = Create
    /\ \E new \in NewId(c) :
          /\ vault' = [vault EXCEPT ![new] = CloudRow(cmd[c].space)]
          /\ release_reserved(cmd[c].space, Create, new)
    /\ cmd' = [cmd EXCEPT ![c] = Idle]
    /\ UNCHANGED <<hosts, binds, claims, moved, personal, lists, session, saved, backup,
                   faults, used>>

(* system_agent::rehome, key_rotation::rehome, automation::rehome_access. *)
rehome_lists(old, new) ==
    [l \in Lists |-> IF old \in lists[l] THEN (lists[l] \ {old}) \cup {new} ELSE lists[l]]

(* write_account_state: the Personal pointer follows the vault it named. *)
write_account_state(old, new) == IF personal = old THEN new ELSE personal

(* rehome_references: every other vault this account can write. *)
rehome_references(old, new, uids) ==
    [h |-> {IF Rewritable(h.vault) THEN rehome_host(old, new, uids, h, FALSE) ELSE h
               : h \in {x \in hosts : x.vault # old}},
     b |-> {IF Rewritable(b.holder) THEN rehome_binding(old, new, uids, b, FALSE) ELSE b
               : b \in {x \in binds : x.holder # old}}]

(* convert_vault_to_cloud: one transaction. *)
convert_vault_to_cloud(c) ==
    LET old == cmd[c].src
        copy == {h \in hosts : h.vault = old}
        uids == moved_profile_uids(copy)
    IN  /\ cmd[c].pc = "convert" /\ old # Create
        /\ Movable(old)
        /\ \E new \in NewId(c) :
              LET others == rehome_references(old, new, uids)
              IN  /\ vault' = [vault EXCEPT ![new] = CloudRow(cmd[c].space), ![old].live = FALSE]
                  /\ hosts' = others.h \cup {rehome_host(old, new, uids, h, TRUE) : h \in copy}
                  /\ binds' = others.b \cup {rehome_binding(old, new, uids, b, TRUE)
                                               : b \in {x \in binds : x.holder = old}}
                  /\ lists' = rehome_lists(old, new)
                  /\ moved' = [v \in DOMAIN moved \cup {old} |-> IF v = old THEN new ELSE moved[v]]
                  /\ release_reserved(cmd[c].space, old, new)
                  /\ personal' = write_account_state(old, new)
                  /\ cmd' = [cmd EXCEPT ![c] = [@ EXCEPT !.pc = "push", !.id = new]]
        /\ UNCHANGED <<claims, session, saved, backup, faults, used>>

(* The refusals: no such live local vault, or the id is taken. *)
Refused(c) ==
    /\ cmd[c].pc = "convert"
    /\ cmd[c].src # Create => (~Movable(cmd[c].src) \/ (cmd[c].id # NoId /\ Exists(cmd[c].id)))
    /\ cmd[c].src = Create => (cmd[c].id # NoId /\ Exists(cmd[c].id))
    /\ cmd' = [cmd EXCEPT ![c] = Idle]
    /\ UNCHANGED <<vault, hosts, binds, reserved, claims, moved, personal, lists, session,
                   saved, backup, faults, used>>

----------------------------------------------------------------------------
(* Uploading. *)

Pushed(space) == [v \in Ids |-> IF vault[v].target = "cloud" /\ vault[v].tenant = space
                                THEN [vault[v] EXCEPT !.dirty = FALSE] ELSE vault[v]]

(* The move's own push (FfiSyncMode::PushOnly) of the vault's space; a failed
   push undoes nothing. *)
FirstPush(c, ok) ==
    /\ cmd[c].pc = "push"
    /\ IF ok THEN vault' = Pushed(cmd[c].space) /\ UNCHANGED faults
       ELSE faults < MaxFaults /\ faults' = faults + 1 /\ UNCHANGED vault
    /\ cmd' = [cmd EXCEPT ![c] = Idle]
    /\ UNCHANGED <<hosts, binds, reserved, claims, moved, personal, lists, session, saved,
                   backup, used>>

(* server_sync_now: the ordinary sync, of the link's own space alone. *)
server_sync_now ==
    /\ vault' = Pushed(Primary)
    /\ vault' # vault
    /\ UNCHANGED <<hosts, binds, reserved, claims, moved, personal, lists, cmd, session,
                   saved, backup, faults, used>>

----------------------------------------------------------------------------
(* The user's other operations by vault id. *)

User == used < MaxUser /\ used' = used + 1

(* delete_vault: tombstoned, its shared keys forgotten. *)
delete_vault(v) ==
    /\ User
    /\ Live(v)
    /\ vault' = [vault EXCEPT ![v].live = FALSE, ![v].dirty = TRUE]
    /\ lists' = [lists EXCEPT !["agent"] = @ \ {v}]
    /\ UNCHANGED <<hosts, binds, reserved, claims, moved, personal, cmd, session, saved,
                   backup, faults>>

(* unbind_cloud_vault, and the sign-out's clear_cloud_vault_binding. *)
unbind_cloud_vault(v) ==
    /\ User
    /\ vault[v].target = "cloud" /\ vault[v].tenant # NoSpace
    /\ vault' = [vault EXCEPT ![v].tenant = NoSpace]
    /\ UNCHANGED <<hosts, binds, reserved, claims, moved, personal, lists, cmd, session,
                   saved, backup, faults>>

clear_cloud_vault_binding(space) ==
    /\ User
    /\ vault' = [v \in Ids |-> IF vault[v].target = "cloud" /\ vault[v].tenant = space
                               THEN [vault[v] EXCEPT !.tenant = NoSpace] ELSE vault[v]]
    /\ vault' # vault
    /\ UNCHANGED <<hosts, binds, reserved, claims, moved, personal, lists, cmd, session,
                   saved, backup, faults>>

(* bind_cloud_vault: to the link's space, everything in it to be sent again. *)
bind_cloud_vault(v) ==
    /\ User
    /\ vault[v].target = "cloud"
    /\ vault' = [vault EXCEPT ![v].tenant = Primary, ![v].dirty = TRUE]
    /\ UNCHANGED <<hosts, binds, reserved, claims, moved, personal, lists, cmd, session,
                   saved, backup, faults>>

bind_unbound_cloud_vaults ==
    /\ User
    /\ vault' = [v \in Ids |-> IF vault[v].target = "cloud" /\ vault[v].tenant = NoSpace
                               THEN [vault[v] EXCEPT !.tenant = Primary, !.dirty = TRUE] ELSE vault[v]]
    /\ vault' # vault
    /\ UNCHANGED <<hosts, binds, reserved, claims, moved, personal, lists, cmd, session,
                   saved, backup, faults>>

(* export_vault: the vault's items under the id it was asked by. *)
export_vault(v) ==
    /\ User
    /\ Live(v)
    /\ backup' = <<v, {h \in hosts : h.vault = v}, {b \in binds : b.holder = v}>>
    /\ UNCHANGED <<vault, hosts, binds, reserved, claims, moved, personal, lists, cmd, session,
                   saved, faults>>

(* The restored hosts are hosts of their own: a reference inside the backup to
   one of them means the restored one; any other keeps its meaning if its name
   still has one (the vault it names may have been moved since). *)
Copied(copy, g) == IF \E h \in copy : h.gid = g THEN <<g, "restored">> ELSE g
Meant(copy, ref, g) == IF \E h \in copy : h.gid = g THEN <<g, "restored">>
                       ELSE IF g \in Named(ref) THEN g ELSE <<"nothing">>

(* import_vault: a new local vault, its references to its own hosts re-pointed
   as a move re-points them; no other vault is touched. *)
import_vault ==
    /\ User
    /\ backup # <<>> /\ ~Exists(Restored)
    /\ LET old == backup[1]
           copy == backup[2]
           uids == moved_profile_uids(copy)
       IN  /\ vault' = [vault EXCEPT ![Restored] = LocalRow]
           /\ hosts' = hosts \cup {[rehome_host(old, Restored, uids, h, TRUE)
                                      EXCEPT !.gid = Copied(copy, @), !.to = Meant(copy, h.hop, @)] : h \in copy}
           /\ binds' = binds \cup {[rehome_binding(old, Restored, uids, b, TRUE)
                                      EXCEPT !.to = Meant(copy, b.target, @), !.pinTo = Meant(copy, b.pin, @)] : b \in backup[3]}
    /\ UNCHANGED <<reserved, claims, moved, personal, lists, cmd, session, saved, backup, faults>>

----------------------------------------------------------------------------
(* A recorded session captures its vault id when it opens and is saved when it
   ends. *)
OpenRecorded(v) ==
    /\ session = NoId
    /\ Live(v)
    /\ session' = v
    /\ UNCHANGED <<vault, hosts, binds, reserved, claims, moved, personal, lists, cmd, saved,
                   backup, faults, used>>

follow_vault_move(v) == IF v \in DOMAIN moved THEN moved[v] ELSE v

EndRecorded ==
    /\ session # NoId
    /\ LET at == follow_vault_move(session)
       IN  saved' = <<session, IF Live(at) THEN at ELSE NoId>>
    /\ session' = NoId
    /\ UNCHANGED <<vault, hosts, binds, reserved, claims, moved, personal, lists, cmd, backup,
                   faults, used>>

(* The app dies: the commands are gone, the database is not. *)
Crash ==
    /\ faults < MaxFaults
    /\ \E c \in Cmds : cmd[c].pc # "idle"
    /\ cmd' = [c \in Cmds |-> Idle]
    /\ session' = NoId
    /\ faults' = faults + 1
    /\ UNCHANGED <<vault, hosts, binds, reserved, claims, moved, personal, lists, saved, backup,
                   used>>

Step(c) == \/ \E ok \in BOOLEAN : FirstPush(c, ok)
           \/ \E lost \in BOOLEAN : claim(c, lost)
           \/ create_cloud_vault_as(c)
           \/ convert_vault_to_cloud(c)
           \/ Refused(c)

Begin(c) == \E src \in LocalIds \cup {Restored, Create} :
    \/ StartPlain(c, src)
    \/ src # Restored /\ \E space \in Spaces : reserve_cloud_vault_id(c, src, space)

UserStep == \/ \E v \in Ids : delete_vault(v) \/ unbind_cloud_vault(v) \/ bind_cloud_vault(v)
                              \/ export_vault(v)
            \/ \E s \in Spaces : clear_cloud_vault_binding(s)
            \/ bind_unbound_cloud_vaults
            \/ import_vault

Next == \/ \E c \in Cmds : Begin(c) \/ Step(c)
        \/ server_sync_now
        \/ UserStep
        \/ \E v \in Recorded : OpenRecorded(v)
        \/ EndRecorded
        \/ Crash

Spec == Init /\ [][Next]_vars

----------------------------------------------------------------------------
TypeOK ==
    /\ \A v \in Ids : /\ vault[v].target \in {"none", "local", "cloud"}
                      /\ vault[v].tenant \in Spaces \cup {NoSpace}
                      /\ vault[v].tenant # NoSpace => vault[v].target = "cloud"
    /\ DOMAIN claims \subseteq FreshIds
    /\ \A v \in DOMAIN moved : v \in LocalIds \cup {Restored} /\ moved[v] \in FreshIds
    /\ personal \in Ids
    /\ \A c \in Cmds : cmd[c].pc \in {"idle", "claim", "convert", "push"}

Theirs == <<"theirs">>   \* what another device's reference means
StillHere(g) == \E h \in hosts : h.gid = g /\ Live(h.vault)

(* A hop, a Personal-identity binding and a pinned way mean after any number of
   moves and restores what they meant when they were made: the host they were
   made for, as long as it is here, and never another one (a name that is
   another device's stays that device's).  References held in a vault this
   account can only view are not rewritten and may dangle, but never mean
   another host. *)
MeaningKept ==
    /\ \A h \in hosts : h.to = Theirs => h.hop[1] \in LocalIds
    /\ \A h \in hosts : Live(h.vault) =>
          Named(h.hop) \subseteq {h.to} /\ (h.vault # Viewed /\ StillHere(h.to) => Named(h.hop) = {h.to})
    /\ \A b \in binds : Live(b.holder) =>
          /\ Named(b.target) \subseteq {b.to} /\ Named(b.pin) \subseteq {b.pinTo}
          /\ b.holder # Viewed /\ StillHere(b.to) => Named(b.target) = {b.to}
          /\ b.holder # Viewed /\ StillHere(b.pinTo) => Named(b.pin) = {b.pinTo}

(* However many attempts are cut short, retried or run side by side, the server
   holds at most one claimed id without a vault for a space and a source: a
   retry claims the id of the attempt before it, so retries never fill a space
   with empty vaults. *)
OneClaim ==
    \A space \in Spaces, src \in LocalIds \cup {Create} :
        Cardinality({i \in DOMAIN claims : claims[i] = <<space, src>> /\ ~Exists(i)}) <= 1

(* What the device keeps by vault id (the keys shared with the system agent, a
   staged rotation's link, the MCP selection) and the account's Personal
   pointer never name a vault that was moved away. *)
ListsFollow ==
    /\ \A l \in Lists : lists[l] \cap DOMAIN moved = {}
    /\ personal \notin DOMAIN moved

(* A recording whose session was open across a move is kept: it is lost only
   when the vault it belongs to, at its new id, was deleted. *)
RecordingKept ==
    saved # <<>> /\ saved[2] = NoId =>
        LET at == IF saved[1] \in DOMAIN moved THEN moved[saved[1]] ELSE saved[1]
        IN  ~Live(at)

(* A vault bound to the link's own space is uploaded sooner or later, whatever
   became of its first push, unless it is unbound. *)
BoundUploaded ==
    \A v \in FreshIds : (vault[v].tenant = Primary /\ vault[v].dirty) ~>
                            (~vault[v].dirty \/ vault[v].tenant # Primary)

=============================================================================

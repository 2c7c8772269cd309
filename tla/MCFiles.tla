------------------------------ MODULE MCFiles -------------------------------
(***************************************************************************)
(* What is kept and what comes in from elsewhere: files over SFTP, with the*)
(* pool of channels of a session (SftpPool) and the transfers over one     *)
(* channel (SftpTransfer); the items of a vault and their history          *)
(* (LocalVault); and a vault another account shares (SharedTrust). A       *)
(* behaviour plays one scene.                                              *)
(***************************************************************************)
EXTENDS SftpPool, Integers, Sequences

VARIABLES scene,
          row, hist, floor, alive, server, gone, sepoch, writer, half, truth,
          log, true, strays, pin, store, cursor, op, shown, confirmed, fetched,
          overtaken, askings,
          source, history, dest, target, chan, late, leg, cancel, last, stage, used

poolVars == <<idle, created, max, generation, closed, shutdown, client, clientLock,
            reconnectLock, th, waiting, chans, ops, downs, flaws>>
vaultVars == <<row, hist, floor, alive, server, gone, sepoch, writer, half, truth>>
trustVars == <<log, true, strays, pin, store, cursor, op, shown, confirmed, fetched,
            overtaken, askings>>
transferVars == <<source, history, dest, target, chan, late, leg, cancel, last, stage,
            used>>
sceneVars == <<scene, poolVars, vaultVars, trustVars, transferVars>>

\* A part that is not played; SftpPool then stays in its first state.
Off == "off"
NoVault ==
  /\ row = Off /\ hist = Off /\ floor = Off /\ alive = Off /\ server = Off
  /\ gone = Off /\ sepoch = Off /\ writer = Off /\ half = Off /\ truth = Off
NoTrust ==
  /\ log = Off /\ true = Off /\ strays = Off /\ pin = Off /\ store = Off
  /\ cursor = Off /\ op = Off /\ shown = Off /\ confirmed = Off /\ fetched = Off
  /\ overtaken = Off /\ askings = Off
NoTransfer ==
  /\ source = Off /\ history = Off /\ dest = Off /\ target = Off /\ chan = Off
  /\ late = Off /\ leg = Off /\ cancel = Off /\ last = Off /\ stage = Off
  /\ used = Off

-----------------------------------------------------------------------------
(* The scenes.                                                             *)
\* Scene "pool", SftpPool with the constants of the configuration: a plain and a
\* cancellable operation and a reopen; the server grants one channel where the pool
\* would open two, one connection breaks, one open fails.

\* Downloads beside other calls on the channel, the file changing meanwhile.
Download == INSTANCE SftpTransfer WITH
  Chunk <- 2, Window <- 2, Lens <- {3, 8}, Kinds <- {"download", "call", "list"},
  Known <- BOOLEAN, Reorder <- TRUE, Resume <- FALSE, MaxEdits <- 1,
  MayCancel <- TRUE, MaxShort <- 1, MaxBad <- 1, MaxRuns <- 2
\* Uploads that are cancelled or fail and are tried again.
Upload == INSTANCE SftpTransfer WITH
  Chunk <- 2, Window <- 2, Lens <- {0, 5}, Kinds <- {"upload", "call"},
  Known <- {TRUE}, Reorder <- TRUE, Resume <- FALSE, MaxEdits <- 1, MayCancel <- TRUE,
  MaxShort <- 0, MaxBad <- 1, MaxRuns <- 3
\* Downloads a retry continues from the reported offset.
Resume == INSTANCE SftpTransfer WITH
  Chunk <- 2, Window <- 2, Lens <- 0..5, Kinds <- {"download"}, Known <- BOOLEAN,
  Reorder <- TRUE, Resume <- TRUE, MaxEdits <- 0, MayCancel <- TRUE, MaxShort <- 1,
  MaxBad <- 1, MaxRuns <- 3
\* The server serves an object that does not belong, or leaves one out, at any time.
Strays == INSTANCE SharedTrust WITH
  Item <- {"i1"}, OneAtATime <- FALSE, MayCut <- FALSE, Compares <- TRUE,
  PageSize <- 8, MaxLog <- 5, MaxStrays <- 1, MaxOps <- 2, ops <- askings
\* The server changes twice what it serves of the membership, while the user is shown
\* an owner and confirms one.
Creators == INSTANCE SharedTrust WITH
  Item <- {}, OneAtATime <- FALSE, MayCut <- FALSE, Compares <- TRUE, PageSize <- 8,
  MaxLog <- 4, MaxStrays <- 2, MaxOps <- 2, ops <- askings
\* The vault is accepted and pulled page by page, members writing meanwhile.
Accept == INSTANCE SharedTrust WITH
  Item <- {"i1", "i2"}, OneAtATime <- TRUE, MayCut <- TRUE, Compares <- TRUE,
  PageSize <- 4, MaxLog <- 6, MaxStrays <- 0, MaxOps <- 2, ops <- askings
\* The same in the app, whose syncs and pulls overtake each other and which can read
\* everything again.
Beside == INSTANCE SharedTrust WITH
  Item <- {"i1"}, OneAtATime <- FALSE, MayCut <- TRUE, Compares <- TRUE,
  PageSize <- 4, MaxLog <- 6, MaxStrays <- 0, MaxOps <- 2, ops <- askings
\* An item is edited, restored and pulled until its history is full; an edit may be
\* cut short.
History == INSTANCE LocalVault WITH
  Items <- {"a"}, Vals <- {"x", "y"}, HISTORY_RETAIN <- 2, MaxVer <- 6, MaxEpoch <- 1,
  RemoteDeletes <- FALSE, Diverges <- FALSE, Crashes <- TRUE
\* Two items trade places.
Rename == INSTANCE LocalVault WITH
  Items <- {"a", "b"}, Vals <- {"x", "y"}, HISTORY_RETAIN <- 1, MaxVer <- 3,
  MaxEpoch <- 1, RemoteDeletes <- FALSE, Diverges <- FALSE, Crashes <- FALSE
\* The vault key is rotated while other devices edit and delete.
Rotate == INSTANCE LocalVault WITH
  Items <- {"a", "b"}, Vals <- {"x"}, HISTORY_RETAIN <- 1, MaxVer <- 2, MaxEpoch <- 2,
  RemoteDeletes <- TRUE, Diverges <- TRUE, Crashes <- FALSE

ASSUME SceneAssumption ==
  /\ PoolAssumption /\ Download!SizesAssumption /\ Upload!SizesAssumption
  /\ Resume!SizesAssumption /\ Strays!TrustAssumption /\ Creators!TrustAssumption
  /\ Accept!TrustAssumption /\ Beside!TrustAssumption /\ History!RetainAssumption
  /\ Rename!RetainAssumption /\ Rotate!RetainAssumption

SceneInit ==
  \/ scene = "pool" /\ Init /\ NoVault /\ NoTrust /\ NoTransfer
  \/ scene = "download" /\ Download!Init /\ Init /\ NoVault /\ NoTrust
  \/ scene = "upload" /\ Upload!Init /\ Init /\ NoVault /\ NoTrust
  \/ scene = "resume" /\ Resume!Init /\ Init /\ NoVault /\ NoTrust
  \/ scene = "strays" /\ Strays!Init /\ Init /\ NoVault /\ NoTransfer
  \/ scene = "creators" /\ Creators!Init /\ Init /\ NoVault /\ NoTransfer
  \/ scene = "accept" /\ Accept!Init /\ Init /\ NoVault /\ NoTransfer
  \/ scene = "beside" /\ Beside!Init /\ Init /\ NoVault /\ NoTransfer
  \/ scene = "history" /\ History!Init /\ Init /\ NoTrust /\ NoTransfer
  \/ scene = "rename" /\ Rename!Init /\ Init /\ NoTrust /\ NoTransfer
  \/ scene = "rotate" /\ Rotate!Init /\ Init /\ NoTrust /\ NoTransfer

SceneNext ==
  \/ scene = "pool" /\ Next /\ UNCHANGED <<scene, vaultVars, trustVars, transferVars>>
  \/ scene = "download" /\ Download!Next /\ UNCHANGED <<scene, poolVars, vaultVars, trustVars>>
  \/ scene = "upload" /\ Upload!Next /\ UNCHANGED <<scene, poolVars, vaultVars, trustVars>>
  \/ scene = "resume" /\ Resume!Next /\ UNCHANGED <<scene, poolVars, vaultVars, trustVars>>
  \/ scene = "strays" /\ Strays!Next /\ UNCHANGED <<scene, poolVars, vaultVars, transferVars>>
  \/ scene = "creators" /\ Creators!Next /\ UNCHANGED <<scene, poolVars, vaultVars, transferVars>>
  \/ scene = "accept" /\ Accept!Next /\ UNCHANGED <<scene, poolVars, vaultVars, transferVars>>
  \/ scene = "beside" /\ Beside!Next /\ UNCHANGED <<scene, poolVars, vaultVars, transferVars>>
  \/ scene = "history" /\ History!Next /\ UNCHANGED <<scene, poolVars, trustVars, transferVars>>
  \/ scene = "rename" /\ Rename!Next /\ UNCHANGED <<scene, poolVars, trustVars, transferVars>>
  \/ scene = "rotate" /\ Rotate!Next /\ UNCHANGED <<scene, poolVars, trustVars, transferVars>>

SceneSpec == SceneInit /\ [][SceneNext]_sceneVars

-----------------------------------------------------------------------------
(* The properties: each in the scenes that are made for it.                *)

\* A channel that may be used again owes no reply but those of the operation that
\* holds it: the next operation never reads a stale one (sftp.rs, Sftp::poisoned).
InStep ==
  /\ scene = "download" => Download!InStep
  /\ scene = "upload" => Upload!InStep

\* What a caller published is, unit for unit, one contents the source really had:
\* replies out of order, short reads, a source that changes under the transfer and
\* writes of an abandoned channel never tear it. The exception is a source rewritten
\* during the transfer at the same size and within the grain of the time its stat
\* reports, which sftp.rs (path_stat: whole seconds, 0 when not reported) cannot see.
PublishedWhole ==
  /\ scene = "download" => Download!PublishedWhole
  /\ scene = "upload" => Upload!PublishedWhole
  /\ scene = "resume" => Resume!PublishedWhole

\* The staged file of a download is its prefix without a gap, whatever order the
\* replies came in, so that cancelling it preserves that prefix.
NoGap == scene = "download" => Download!NoGap

\* The chunks that wait for an earlier one stay within the window and the chunk that
\* was being asked for, however long the first reply is delayed.
ReorderBounded == scene = "download" => Download!ReorderBounded

\* A cancelled transfer can be resumed from the offset it last reported: the units
\* below it are written (sftp.rs, TransferOutcome::Cancelled).
Resumable == scene = "resume" => Resume!Resumable

\* A file is published only when it is whole and of one version; what a cancelled or
\* failed transfer leaves can be resumed; the channel stays in step and what is held
\* out of order stays bounded.
TransfersWhole ==
  /\ InStep
  /\ PublishedWhole
  /\ NoGap
  /\ ReorderBounded
  /\ Resumable

\* An owner is pinned only as the user confirmed it, and a user who compares the
\* fingerprint never pins anyone but the owner, whatever the server presents between
\* the display, the comparison and the pin.
PinConfirmed ==
  /\ scene = "strays" => Strays!PinConfirmed
  /\ scene = "creators" => Creators!PinConfirmed

\* With the owner pinned, nothing that is stored was written by someone the owner did
\* not let write.
OnlyMembersWrite == scene = "strays" => Strays!OnlyMembersWrite

\* Once the owner's second manifest is here, no record of the removed mate comes in
\* any more, whenever it was written and however late it is served.
RemovedStaysOut == [][scene = "strays" => Strays!RemovedStaysOutStep]_sceneVars

\* A pin never changes: a server that names another creator later changes nothing
\* here.
PinStays ==
  [][/\ scene = "strays" => Strays!PinStaysStep
     /\ scene = "creators" => Creators!PinStaysStep]_sceneVars

\* With nothing added or left out, the pull that reports complete leaves a vault that
\* opens and stays so through later syncs, unless the owner took this account out
\* since, or a sync was cut off inside a rotation: then the next one brings the key.
FetchedOpens ==
  /\ scene = "accept" => Accept!FetchedOpens
  /\ scene = "beside" => Beside!FetchedOpens

\* Nothing the server served falls between the pull and the sync: after a complete
\* pull, what the cursor of sync has passed is here. Of the app, which has no lock
\* around the two, this is said of pulls no sync has overtaken; of the command line,
\* whose lock (home.rs: sync_lock) lets none, of all.
NothingMissed ==
  /\ scene = "accept" => Accept!NothingMissed
  /\ scene = "beside" => Beside!NothingMissed

\* What an overtaken pull and its sync both left out is not lost for good: at any
\* time after the pin, reading everything again (server_repull, or the pull once
\* more) brings every item, and a vault that opens unless this account was taken out.
RepullMends ==
  /\ scene = "accept" => Accept!RepullMends
  /\ scene = "beside" => Beside!RepullMends

\* A creator is pinned only as the user confirmed it; a shared vault holds only what
\* its members wrote, takes nothing of a removed one, opens once it is fetched, lacks
\* nothing the sync has passed unless a sync of the app overtook the pull, and is
\* made whole by reading it again.
SharedSound ==
  /\ [](/\ PinConfirmed
       /\ OnlyMembersWrite
       /\ FetchedOpens
       /\ NothingMissed
       /\ RepullMends)
  /\ RemovedStaysOut
  /\ PinStays

\* check_stale_history, and what it is for: an archived version belongs to the item's
\* present life - "the old plaintext must not outlive the deletion of the secret"
\* (store.rs:1451) - and a deleted vault keeps none.
HistoryPurged ==
  /\ scene = "history" => History!HistoryPurged
  /\ scene = "rename" => Rename!HistoryPurged

\* What is revealed for a version is what the item was at that version, and a version
\* of the archive never shadows a later one to be archived: discarded edits and the
\* versions written after them never swap places, although the version numbers
\* repeat.
HistoryTrue ==
  /\ scene = "history" => History!HistoryTrue
  /\ scene = "rename" => Rename!HistoryTrue

\* Every live row is sealed under the vault's present key: after a rotation no item
\* of the old epoch is let in, in whatever order rotations, pulls, edits and discards
\* come.
ItemsOpen == scene = "rotate" => Rotate!ItemsOpen

\* What the device holds and the server does not is marked to be sent: "dirty=1 is
\* set by the vault layer on a LOCAL edit; sync_push sends only dirty=1"
\* (schema.rs:209).
EditsMarked == scene = "rotate" => Rotate!EditsMarked

\* The version of a row falls only when the user discards the edit or restores the
\* whole vault.
VersionsGrow ==
  [][/\ scene = "history" => History!VersionsGrowStep
     /\ scene = "rotate" => Rotate!VersionsGrowStep]_sceneVars

\* Items and their archive: a version number reveals what the item was at that
\* version, a deleted secret leaves none, rows open under the present key, unsent
\* edits stay marked and versions only grow.
ItemsKept ==
  /\ [](HistoryPurged /\ HistoryTrue /\ ItemsOpen /\ EditsMarked)
  /\ VersionsGrow
=============================================================================

# UniSSH: a TLA+ verification project

UniSSH is an SSH client that keeps hosts, keys and secrets in end-to-end
encrypted vaults. It is local-first: every device has a full encrypted database,
and an optional server stores and forwards signed objects it cannot read. Around
that core stand an SSH transport with a password filler and recordings, an agent
and an automation broker that act for the user, key rotation over hosts, and a
desktop application with links to servers.

This directory models the parts of that system whose state machines are hard to
test: what is done by several threads, processes, requests or devices at once,
what may be killed half-way, and what relies on answers that are late, lost or
wrong. Twenty-four modules model components, eleven MC modules instantiate them for
TLC, and the `*Proofs` modules hold theorems that TLAPS checks for every value of
the constants.

Source paths are relative to `src/`; `core/` stands for `rust-core/crates/`.
`PROJECT.json` maps definitions to the lines they model (the eight hundred that stand
for most of the code; a helper whose lines belong to a larger definition is found
under that one) and lists the hazards the properties are about.

## 1. Inventory

| Part | Where | State | Operations | Module |
|---|---|---|---|---|
| Server object log, delta, policy, grants/publish, seq-bump | `server/src/modules/sync.rs`, `policy.rs`, `store/sync_repo.rs`, `policy_repo.rs`, `instance_repo.rs` | the log with `server_seq`, the sequence, idempotency keys, policy tables | push, page, publish with re-emission and read-deny, claim, compaction, expiry | `ServerSync` |
| Client sync engine, membership chain, storage | `core/sync`, `core/vault`, `core/storage`, `core/cloud` | rows with dirty flags, epoch floor, cursors, pin, remembered refusals | edit, rotate, push in parts, pull, verify-before-apply | `DeviceSync` |
| Accepting a shared vault | `core/ffi/src/shared_vault.rs`, `core/cloud/src/shared.rs` | pin, fetched objects, cursor | inspect, confirm, pull page by page | `SharedTrust` |
| Vault items and history | `core/vault/src/vault.rs`, `core/storage/src/store.rs` | rows, archive, floor, dirty flags | put, delete, rename, restore, rotate, discard | `LocalVault` |
| Biometric unlock | `client/src-tauri/src/biometric.rs` | sealed password, attempt on the screen, epoch | prompt, dismiss, enable, rewrite, wipe | `BiometricUnlock` |
| Onboarding and recovery | `core/cloud/src/onboard.rs`, `recovery.rs`, `core/keychain/src/`, `server/src/modules/identity.rs`, `escrow.rs`, `relay.rs` | relay slots, keyset rows with escrow, record, database, floor, keychain | pair, push, arm, recover, import, change the password | `DeviceOnboarding` |
| Moving a vault to a server | `core/ffi/src/lib.rs`, `client/src-tauri/src/cloud/commands.rs` | vault ids, references, reservations, claims | move, resume, back up, restore | `VaultMove` |
| Hosts, bindings, groups | `core/ffi/src/host_save.rs`, `core/cli/src/host_edit.rs` | host records, password items, pins of personal logins | save, share, bind, delete, import | `HostBook` |
| Keyset, unlock, lock | `core/ffi/src/lib.rs`, `core/keychain` | keyset file, database, session, generation floor | create, unlock, change password, lock, reset, migrate | `CoreLock` |
| Server accounts, devices, sessions | `server/src/modules/identity.rs`, `admin.rs`, `store/identity_repo.rs` | challenges, sessions, devices, roles | log in, refresh, revoke, demote, janitor | `ServerSessions` |
| Spaces, invites, pending actions, sign-on | `server/src/modules/spaces.rs`, `pending.rs`, `oidc.rs`, `instance.rs` | edges, invites, queue of grants and revocations | add, remove, invite, join, reconcile, claim | `ServerSpaces` |
| Server audit log and sinks | `server/src/audit_sinks.rs`, `store/audit_repo.rs`, `modules/audit.rs` | entries with their hash chain, cursors of sinks, what a sink received | append, deliver in batches, retry, restart, list, export | `AuditLog` |
| Server links of the desktop | `client/src-tauri/src/cloud` | registry, cloud.json, tokens, keychain | link, sign in, refresh, sign out, unlink | `CloudLinks` |
| SSH connection and login | `core/ssh-transport/src/client.rs`, `core/ffi/src/lib.rs` | pins, the attempt under way | hop by hop: dial, check key, log in, pin | `SshConnect` |
| Password fill | `core/ffi/src/password_fill.rs` | prompt, offer, mask, held output | observe, offer, claim, mask, reject | `PasswordFill` |
| Live sessions, broadcasts, tunnels, streamed commands | `core/ffi/src/lib.rs`, `core/ssh-transport/src/client.rs`, `client/src-tauri/src/state.rs`, `core/cli/src/tunnel.rs` | tables of live objects, connections, forwards | open, write, reconnect, accept, close, drop, lock | `LiveObjects` |
| One command on many hosts | `core/ffi/src/lib.rs`, `core/cli/src/fleet.rs`, `pool.rs`, `hosts.rs` | groups and hosts as read, targets, permits, rows | expand, select, log in, run or upload, time out, report | `Fleet` |
| Sessions, recordings, local shells | `core/ffi/src/lib.rs`, `core/local-pty`, `core/ssh-transport` | readers, waiters, recording sink | read, write, close, drop, lock, exit | `Recordings` |
| SFTP channels | `core/ffi/src/lib.rs` | pool of channels over one connection | lease, give back, open, reopen, close | `SftpPool` |
| SFTP transfers | `core/ssh-transport/src/sftp.rs` | requests in flight, staged file | download, upload, cancel, resume, publish | `SftpTransfer` |
| SSH key rotation | `core/ffi/src/key_rotation_plan.rs`, `key_rotation.rs` | plan, keys of machines, candidate item | deploy, verify, remove, confirm, finish, abandon | `KeyRotation` |
| Signature approvals | `core/ffi/src/approvals.rs`, `client/src-tauri/src/observers.rs` | the line, prompts | ask, answer, withdraw, lock, revoke, close | `SignApprovals` |
| Automation broker | `core/automation` | grants, sessions, commands, approvals | grant, suspend, open, run, approve, time out | `AutomationBroker` |
| System agent and MCP listeners | `client/src-tauri/src/system_agent.rs`, `mcp.rs`, `system_lock.rs` | listeners, epochs, the gate | start, stop, lock, sleep, wake, switch | `AgentAccess` |

Not modelled: configuration and start-up; cryptographic primitives and byte layouts (covered by test vectors;
signatures are assumed unforgeable); the command line's presentation, the user
interfaces, the website and deployment. `PROJECT.json` lists every part.

### How the parts interact

An edit stores a signed record and marks it dirty (`LocalVault`). A sync pushes
the dirty rows in dependency order, cut into requests; the server checks the
author's role, allocates sequence numbers, appends, updates its policy tables and
answers; the engine clears the flags of what was accepted, then pulls pages of the
rows visible to the account, each object verified before it is stored
(`DeviceSync`, `ServerSync`). Who may read and write follows from manifests and
grants, which members publish when the server's queue of pending actions says so
(`ServerSpaces`). The server is trusted for order and availability only: what a
device takes from it rests on the pinned owner (`SharedTrust`). The core's state
lock separates the threads of one process; `CoreLock` is its life cycle, and the
lock that ends it must reach everything that acts for the user: signature
requests (`SignApprovals`), the broker (`AutomationBroker`), the listeners
(`AgentAccess`), logins under way (`SshConnect`), sessions (`Recordings`), tunnels and
other live objects (`LiveObjects`) and SFTP channels (`SftpPool`). A command on a fleet
(`Fleet`) keeps its connections to itself: a lock stops further logins, and the hosts
that were logged in to still get the command.

### What is hard, and what makes it correct

* *Order and visibility.* Concurrent pushes share one sequence, and a reader's
  cursor must never pass a row that becomes visible later; a refused object is
  never fetched again, so what verifies it must come first.
* *Retries and partial success.* One answer and one effect per request; flags
  claim neither too much nor, for ever, too little.
* *Trust never goes back.* Pins, epoch floors, generations, revocations and
  removed members, through crashes and stale copies.
* *A lock overtaken.* Work that began before a lock, a revocation, a suspension or
  a screen lock comes to its end after it.
* *Check and write apart.* Handlers of the server and commands of two processes
  decide on what they read before another commits.
* *Names that outlive what they name.* Moved vaults, deleted hosts, reused process
  ids, channels of a connection that was replaced.
* *Everything ends.* Drives, transfers, prompts, commands and recordings.

## 2. Modules

Every component module declares its bounds among its CONSTANTS (`Max...`) and
states what its constants must satisfy as a named assumption; one action models
one step of the code between two points where another actor can act: a statement
of SQL, what runs under one lock, a request, an await. History variables, kept for
properties only, are marked in the modules.

### `ServerSync`

State: `db` (the committed database), `idem`, `now`, `lock` (the row lock that
`alloc_seqs` takes on `instance` until the transaction ends), `h[p]` (a handler with
its uncommitted database `tx`), `rd[d]` (a device's cursor and the page it reads).
Actions: `Receive`, `LookupHit`/`LookupMiss`, `AllocSeqs`, `InsertObject`,
`Rollback`, `LoseKeyRace`, `CommitPush`, `BeginReemit`, `ReemitObject`,
`CommitPublish`; `PlanPage`, `ReadPage`, `EndPull`; `SeqBump`, `CleanupExpired`,
`ClaimVault`, `Tick`. One personal vault; an author is who signed; the byte budget
of a page is any page length up to `PageLimit`. Not modelled: the audit rows the
server appends itself, the `drained_at` shortcut, the delta of one vault.

### `DeviceSync`

State per device: `st[d]` (rows by primary key, `dirty`, `floor`, `cursor`,
`pinned`, `acctSent`, refusals `left`, `reports`) and `sy[d]` (the sync in
progress); `log` is the server, as `ServerSync` shows it to be: rows appear in
sequence order and the first manifest of an epoch decides. Actions: `PutItem`,
`DeleteItem`, `SetName`, `SetCachePolicy`, `DeleteVault`, `NewEpoch`, `PutAccount`;
`StartSync`, `BuildRequest`, `Deliver`, `Halve`, `LeaveOut`, `FailPush`, `Settle`,
`LoseReply`, `KillPush`, `ForgetRefusals`; `PullPage`, `KillPull`, `EndSync`,
`PullVault`. Only the owner's devices issue manifests, which is what the client
offers. A page is applied in one step, since the core mutex keeps every other sync
out; `KillPull` stops it after any statement. An edit is two statements.

### The others

Each begins with a comment that says what it models and where its steps are cut.
What they leave out: `SharedTrust` has two epochs and one mate; `LocalVault` one
vault whose server side is a row per item; `VaultMove` keeps of a host what names
it; `HostBook` one vault; `CoreLock` takes key derivation as a step that takes
time; `ServerSessions` identifies the two tokens of a pair by one number;
`ServerSpaces` takes what an administrator's device does from what
`GET /v1/pending` and `grants/publish` exchange with it; `CloudLinks` models the
servers' answers as far as token pairs and devices go (external);
`SshConnect` leaves the far side free to answer anything; `AuditLog` takes an entry
as its number and what its hash covers; `LiveObjects` counts what is relayed; a tunnel
dropped without close keeps its connection for the streams it still carries, because
their pump tasks hold the handle, and what is opened while a lock comes is entered in
its table after it; `Fleet` takes the bindings of personal hosts as given (they are
`HostBook`'s) and a tag query as the set it matches; `PasswordFill` takes a
prompt as a token and a password as two characters; `Recordings` counts output in
chunks; `SftpPool` takes what runs under the pool's mutex as one step;
`SftpTransfer` has one channel and files of a few units; `KeyRotation` takes a
machine as what sshd makes of the lines in authorized_keys (external);
`DeviceOnboarding` takes a key agreement as succeeding exactly when both sides saw
the same two messages; `BiometricUnlock` takes the keychain as a slot that may fail
(external); `AutomationBroker` takes time as facts that become true; `AgentAccess` numbers the
tasks that may start a listener.

## 3. Runs

An MC module plays several *scenes*: each is an instance of one component with
small constants, `scene` says which one a behaviour plays, and the variables of the
other components stay `"off"`. A property is checked in the scenes that are made
for it; one that has several parts names them, each with its own definition and
comment in the MC module. `MCServer` extends `ServerSync` and restricts one
instance by scene; six other MC modules extend one component (`BiometricUnlock`,
`ServerSessions`, `SftpPool`, `AutomationBroker`, `DeviceOnboarding`, `CoreLock`), which is
played with the constants of the configuration and whose properties are checked
under their own names, so that the proofs and the run speak of the same definitions.

**`server`** (`MCServer`): `TypeOK`, `NoSkippedRow`, `ReplayStable`,
`AckedDurable`, `DerivedFromLog`, `RevokedForever`, with two handlers and one reader.

| Scene | What happens | Bounds |
|---|---|---|
| idem | a push, its retry, the same key with another body and by another account, expiry of the key | each request twice, clock 1 |
| pull | pages of 1 or 2 rows over a log with compaction, rollback and rows the reader may not see | one seq-bump |
| share | a vault is shared, shared again, and the member removed; stale manifest and grant come late | each request once |

**`devices`** (`MCDevices`): `NoStaleSeal`, `AttemptsSound`, `ObjectsUsable`, `SettledSound`, `TrustMonotone`.

| Scene | Module | What happens | Bounds |
|---|---|---|---|
| prompts | BiometricUnlock | Two prompts, one after the other or at once, and a lock. |  |
| givingUp | BiometricUnlock | A prompt that is given up for the typed password, and a password change. |  |
| sealing | BiometricUnlock | Biometric unlock is turned on while the keyset is replaced or the instance reset, with failures. |  |
| dying | BiometricUnlock | A prompt whose secret dies, and turning it off. |  |
| rotate | DeviceSync | Two devices of the owner edit and change the members, a request or a process is lost. | ServerMax 9, BatchMax 4, PageMax 9, MaxFault 1, MaxEpoch 2, MaxWrite 2 |
| share | DeviceSync | The owner shares the vault, bob accepts, edits and is removed. | ServerMax 9, BatchMax 9, PageMax 9, MaxFault 0, MaxEpoch 2, MaxWrite 3 |

**`sync_ends`** (`MCSyncEnds`): `SyncEnds`.

| Scene | Module | What happens | Bounds |
|---|---|---|---|
| catchUp | ServerSync | b pulls while a shares the vault with it for a time. | PageLimit 2, IdemTTL 0, MaxSend 1, MaxBump 0, MaxNow 1, MaxSeq 6 |
| push | DeviceSync | One device pushes two items, one too large for the server, with a lost request or reply. | ServerMax 2, BatchMax 3, PageMax 1, MaxFault 1, MaxEpoch 0, MaxWrite 2 |
| converge | DeviceSync | Two devices of one account edit the same item and the account state. | ServerMax 9, BatchMax 9, PageMax 1, MaxFault 0, MaxEpoch 0, MaxWrite 2 |

**`accounts`** (`MCAccounts`): `UsedOnce`, `SessionsEndRight`, `AuditSound`, `SpacesSound`.

| Scene | Module | What happens | Bounds |
|---|---|---|---|
| login | ServerSessions | Logins, refreshes and revocations of two devices of one account, two requests at a time. | NonceTTL 1, PendingTTL 1, WebTTL 1, Retention 0, MaxSend 4, MaxPair 3, MaxNonce 2, MaxNow 2, AccessTTL 2, RefreshTTL 2 |
| demote | ServerSessions | Two owners promote, demote, disable and enable each other. | NonceTTL 1, PendingTTL 1, WebTTL 1, Retention 1, MaxSend 4, MaxPair 2, MaxNonce 2, MaxNow 1, AccessTTL 1, RefreshTTL 1 |
| janitor | ServerSessions | The janitor cleans up while sessions are used. | NonceTTL 1, PendingTTL 1, WebTTL 1, Retention 0, MaxSend 3, MaxPair 2, MaxNonce 2, MaxNow 4, AccessTTL 1, RefreshTTL 2 |
| members | ServerSpaces | Members and admins of a space come and go, two requests at a time. | MaxCrashes 0, MaxRequests 7 |
| queue | ServerSpaces | A removed member loses a vault of the space: its revocation is queued and settled by publications. | MaxCrashes 0, MaxRequests 8 |
| serve | ServerSpaces | New members are owed the keys of a vault open to the whole space; the server may restart. | MaxCrashes 1, MaxRequests 7 |
| door | ServerSpaces | Two founders claim the instance, invites are redeemed and withdrawn. | MaxCrashes 1, MaxRequests 6 |
| sso | ServerSpaces | Membership follows the groups of an identity provider beside edges set by hand. | MaxCrashes 0, MaxRequests 7 |
| hook | AuditLog | Two requests append to the audit log while a webhook is fed from it; posts and their answers get lost, the server restarts. | PageSize 2, MaxLog 3, MaxFaults 2, MaxCrashes 1 |
| datagrams | AuditLog | The same with a syslog collector over UDP, one entry being too long for a datagram. | PageSize 2, MaxLog 3, MaxFaults 2, MaxCrashes 1 |
| collector | AuditLog | The same over TCP. | PageSize 2, MaxLog 3, MaxFaults 2, MaxCrashes 1 |
| export | AuditLog | The log is listed and exported page by page while requests append. | PageSize 2, MaxLog 4, MaxFaults 1, MaxCrashes 1 |

**`ssh`** (`MCSsh`): `LiveSound`, `SessionsKept`, `CredentialsGuarded`, `PinsByConsent`, `FillSound`.

| Scene | Module | What happens | Bounds |
|---|---|---|---|
| login | SshConnect | Logins of every kind at one host, the core being locked and pins imported meanwhile. | MaxRounds 2, MaxLocks 2 |
| way | SshConnect | Two attempts at a time, through a jump host and for automation. | MaxRounds 1, MaxLocks 0 |
| trust | SshConnect | Two attempts at one host, possibly both the first; the user is shown a changed key and may trust it, or forget the host. | MaxRounds 1, MaxLocks 0 |
| echo | PasswordFill | A terminal that echoes a password, in chunks of every cut. | MaxInputs 1, HoldMax 2, MaxFed 4 |
| offers | PasswordFill | Two fills race for prompts that come and go. | MaxInputs 1, HoldMax 2, MaxFed 2 |
| reject | PasswordFill | A password is rejected and asked for again; another one is saved. | MaxInputs 1, HoldMax 2, MaxFed 5 |
| shells | Recordings | A local shell is written to, closed and locked, its recording may fail to be stored. | RecordingMax 2, MaxOut 2, MaxLocks 2 |
| lock | Recordings | Local shells while the app is locked. | RecordingMax 2, MaxOut 1, MaxLocks 2 |
| exit | Recordings | The command line exits while sessions end. | RecordingMax 3, MaxOut 1, MaxLocks 0 |
| again | LiveObjects | A session that reconnects is written to, reconnected and closed by two commands at a time, its link breaking, while the app is locked. | MaxConns 4, MaxCalls 4, MaxDrops 1, MaxLocks 1, MaxPumps 1, MaxOut 2 |
| cluster | LiveObjects | One input for two hosts, one of which may break off. | MaxConns 4, MaxCalls 4, MaxDrops 1, MaxLocks 1, MaxPumps 1, MaxOut 2 |
| tunnel | LiveObjects | A local forward with connections through it. | MaxConns 4, MaxCalls 4, MaxDrops 2, MaxLocks 1, MaxPumps 2, MaxOut 2 |
| backward | LiveObjects | A remote forward of a given port. | MaxConns 4, MaxCalls 4, MaxDrops 2, MaxLocks 1, MaxPumps 2, MaxOut 2 |
| stream | LiveObjects | A streamed command. | MaxConns 4, MaxCalls 4, MaxDrops 2, MaxLocks 1, MaxPumps 1, MaxOut 2 |
| cli | LiveObjects | The command line opens a local forward and a remote one, of a port the server chooses. | MaxConns 4, MaxCalls 4, MaxDrops 2, MaxLocks 0, MaxPumps 2, MaxOut 2 |

**`files`** (`MCFiles`): `PoolSound`, `TransfersWhole`, `LeasedCurrent`, `SharedSound`, `ItemsKept`.

| Scene | Module | What happens | Bounds |
|---|---|---|---|
| pool | SftpPool | A plain and a cancellable operation and a reopen; the server grants one channel where the pool would open two, one connection breaks, one open fails. | Parallelism 2, ServerMax 1, OpenRetryMax 1, MaxOps 3, MaxDown 1, MaxFlaw 1 |
| download | SftpTransfer | Downloads beside other calls on the channel, the file changing meanwhile. | Window 2, MaxEdits 1, MaxShort 1, MaxBad 1, MaxRuns 2 |
| upload | SftpTransfer | Uploads that are cancelled or fail and are tried again. | Window 2, MaxEdits 1, MaxShort 0, MaxBad 1, MaxRuns 3 |
| resume | SftpTransfer | Downloads a retry continues from the reported offset. | Window 2, MaxEdits 0, MaxShort 1, MaxBad 1, MaxRuns 3 |
| strays | SharedTrust | The server serves an object that does not belong, or leaves one out, at any time. | PageSize 8, MaxLog 5, MaxStrays 1, MaxOps 2 |
| creators | SharedTrust | The server changes twice what it serves of the membership, while the user is shown an owner and confirms one. | PageSize 8, MaxLog 4, MaxStrays 2, MaxOps 2 |
| accept | SharedTrust | The vault is accepted and pulled page by page, members writing meanwhile. | PageSize 4, MaxLog 6, MaxStrays 0, MaxOps 2 |
| beside | SharedTrust | The same in the app, whose syncs and pulls overtake each other and which can read everything again. | PageSize 4, MaxLog 6, MaxStrays 0, MaxOps 2 |
| history | LocalVault | An item is edited, restored and pulled until its history is full; an edit may be cut short. | HISTORY_RETAIN 2, MaxVer 6, MaxEpoch 1 |
| rename | LocalVault | Two items trade places. | HISTORY_RETAIN 1, MaxVer 3, MaxEpoch 1 |
| rotate | LocalVault | The vault key is rotated while other devices edit and delete. | HISTORY_RETAIN 1, MaxVer 2, MaxEpoch 2 |

**`agents`** (`MCAgents`): `RequestsCleared`, `ListenersClose`, `ExecAuthorised`, `BrokerSound`.

| Scene | Module | What happens | Bounds |
|---|---|---|---|
| exec | AutomationBroker | A command that needs approval, through revocation, suspension and locks. | Capacity 1, MaxConns 1, MaxActive 1, RetainedTotal 1, MaxSess 1, MaxRuns 1, MaxRevs 2, MaxEps 1, MaxEpoch 1 |
| line | SignApprovals | Two connections to the system agent and a forwarded one ask at the same time; the core is locked. | MaxForwarded 1, MaxIds 1, MaxLocks 1, MaxRevokes 0, MaxCloses 0, MaxOpens 0 |
| close | SignApprovals | A connection closes and another takes its place while requests wait and the listener is revoked. | MaxForwarded 1, MaxIds 2, MaxLocks 0, MaxRevokes 1, MaxCloses 1, MaxOpens 1 |
| slots | AutomationBroker | Two sessions and a command compete for one connection. | Capacity 1, MaxConns 1, MaxActive 2, RetainedTotal 2, MaxSess 2, MaxRuns 1, MaxRevs 1, MaxEps 2, MaxEpoch 0 |
| evict | AutomationBroker | Two commands where one record is retained. | Capacity 2, MaxConns 1, MaxActive 1, RetainedTotal 1, MaxSess 1, MaxRuns 2, MaxRevs 1, MaxEps 1, MaxEpoch 0 |
| consent | AutomationBroker | Consents of two integrations are given, saved, restored and withdrawn. | Capacity 1, MaxConns 1, MaxActive 1, RetainedTotal 1, MaxSess 0, MaxRuns 0, MaxRevs 2, MaxEps 2, MaxEpoch 1 |
| agent | AgentAccess | The system agent through a lock, signals of the system and a switch. | MaxLocks 1, MaxSignals 2, MaxSwitches 1 |
| mcp | AgentAccess | The MCP server likewise. | MaxLocks 1, MaxSignals 2, MaxSwitches 1 |

**`vaults`** (`MCVaults`): `OnboardingSound`, `MoveSound`, `FleetSound`, `HostsSound`.

| Scene | Module | What happens | Bounds |
|---|---|---|---|
| recovery | DeviceOnboarding | A new device recovers the account from the server while its password changes; a kill at any step. | RelayTTL 1, MaxNow 0, MaxGen 2, MaxPairings 0, MaxPushes 1, MaxCrashes 1 |
| meaning | VaultMove | A vault other vaults point into is moved. | MaxFaults 0, MaxUser 1 |
| bindings | VaultMove | Bindings, lists and recordings follow a vault that is moved. | MaxFaults 0, MaxUser 2 |
| claims | VaultMove | Two moves of one vault, with lost answers and crashes. | MaxFaults 1, MaxUser 0 |
| pins | HostBook | A personal login stays bound to the destination the member approved. | MaxSaves 3, MaxPulls 2 |
| linked | HostBook | What the form says of a linked identity. | MaxSaves 2, MaxPulls 1 |
| reused | HostBook | Hosts that share password items are edited and deleted. | MaxSaves 2, MaxPulls 0 |
| hops | HostBook | Hosts behind hosts. | MaxSaves 2, MaxPulls 1 |
| groups | HostBook | A host moves between groups. | MaxSaves 5, MaxPulls 0 |
| pair | DeviceOnboarding | Two devices join over one channel of a third, which may start over; a kill at any step. | RelayTTL 1, MaxNow 1, MaxGen 1, MaxPairings 2, MaxPushes 0, MaxCrashes 1 |
| arming | DeviceOnboarding | Two devices of one account push their records at the same time and arm the escrow. | RelayTTL 1, MaxNow 0, MaxGen 1, MaxPairings 0, MaxPushes 2, MaxCrashes 0 |
| foreign | DeviceOnboarding | A device of one account is given the record of another. | RelayTTL 1, MaxNow 0, MaxGen 2, MaxPairings 0, MaxPushes 1, MaxCrashes 0 |
| expand | Fleet | A command on a group, over cycles, diamonds and a nest that is too deep, while the groups and hosts change and the account is locked. | MaxEdits 1, MaxLocks 1 |
| crowd | Fleet | More hosts than permits, each of which may fail or run out of time. | MaxEdits 0, MaxLocks 1 |
| files | Fleet | A file laid out on the hosts that carry a tag. | MaxEdits 1, MaxLocks 1 |
| runner | Fleet | The command line runs a group on a pool of two threads, or shows what it would run. | MaxEdits 1, MaxLocks 1 |

**`desktop`** (`MCDesktop`): `LinksSound`, `RotationSafe`, `LockHolds`.

| Scene | Module | What happens | Bounds |
|---|---|---|---|
| unlock | CoreLock | Unlocking, locking and changing the password from several threads, over a stale or current record. | MaxOps 3, MaxCrash 1, MaxSwap 1, MaxGen 3 |
| identity | CloudLinks | Two commands link the same server. | MaxPairs 1, MaxDevs 3 |
| tokens | CloudLinks | Three calls find their access token expired, with requests that fail, answers that are lost and a keychain that refuses a token. | MaxPairs 2, MaxDevs 1 |
| dying | CloudLinks | The app dies while cloud.json is written. | MaxPairs 1, MaxDevs 3 |
| device | CloudLinks | Devices are enrolled, signed out and removed, one command at a time. | MaxPairs 3, MaxDevs 3 |
| cli | KeyRotation | A rotation from the command line over mixed fleets, run twice. | MaxKey 2, MaxRuns 2, MaxFaults 0 |
| again | KeyRotation | A rotation that is cut short once and taken up, or given up, again. | MaxKey 2, MaxRuns 2, MaxFaults 1 |
| dialog | KeyRotation | The dialog, with crashes, lost results and another device that changes the items. | MaxKey 3, MaxRuns 3, MaxFaults 2 |

**`work_ends`** (`MCWorkEnds`): `WorkEnds`.

| Scene | Module | What happens | Bounds |
|---|---|---|---|
| lease | SftpPool | Three threads share the channel the server grants; an open may fail, the link stays up. | Parallelism 2, ServerMax 1, OpenRetryMax 1, MaxOps 2, MaxDown 0, MaxFlaw 1 |
| signing | SignApprovals | Requests are overtaken by a lock and a revocation. | MaxForwarded 1, MaxIds 1, MaxLocks 1, MaxRevokes 1, MaxCloses 0, MaxOpens 0 |
| command | AutomationBroker | A session and a command that nobody may answer. | Capacity 1, MaxConns 1, MaxActive 1, RetainedTotal 1, MaxSess 1, MaxRuns 1, MaxRevs 1, MaxEps 1, MaxEpoch 0 |
| again | AgentAccess | The machine sleeps, wakes, and the vault is locked and unlocked. | MaxLocks 1, MaxSignals 1, MaxSwitches 0 |
| resume | AgentAccess | The machine sleeps and wakes twice, the screen is locked and unlocked. | MaxLocks 0, MaxSignals 4, MaxSwitches 0 |

**`desk_ends`** (`MCDeskEnds`): `KeysetSound`, `DeskEnds`.

| Scene | Module | What happens | Bounds |
|---|---|---|---|
| migrate | CoreLock | An account of the old format is migrated, reset and created again, with a crash anywhere. | MaxOps 4, MaxCrash 1, MaxSwap 0, MaxGen 3 |
| drive | KeyRotation | A rotation over a bastion and a host behind it, with a fault anywhere. | MaxKey 2, MaxRuns 2, MaxFaults 1 |
| hold | PasswordFill | Output that may be the echo of a password is held back. | HoldMax 3, MaxFed 3, MaxInputs 1 |
| closing | Recordings | A remote session and a local shell are closed or locked. | RecordingMax 1, MaxOut 1, MaxLocks 1 |
| upload | VaultMove | The first push of a moved vault fails. | MaxFaults 1, MaxUser 1 |
**`stale_key`** (`MCDevices`, violation): `KeyOfEpoch`, see section 6.

What the composed properties say:

| Property | Parts |
|---|---|
| `DerivedFromLog` | the policy snapshot is of the latest vault record (`SnapshotLatest`), the first manifest of an epoch decides (`ManifestFirstWins`), what grants/publish re-emits is current (`ReemitCurrent`), a page lacks no visible row of its range (`PageComplete`) |
| `ObjectsUsable` | no object is in the log before its manifest (`ManifestFirst`), the owner's devices never refuse for want of one (`OwnerNeverGaps`), what a member holds opens (`MemberOpens`) |
| `SyncEnds` | a pull reaches every row it may (`CatchesUp`), a push delivers what it does not leave out (`Delivered`), two devices stop answering each other (`StopsEchoing`) and agree on the account state (`AccountConverges`) |
| `SettledSound` | a row no push will send is in the log (`NothingUnsent`); two devices that pushed and pulled everything agree, or one reported a conflict (`SettledAgree`) |
| `AuditSound` | the chain verifies at any time (`ChainHolds`); a sink gets an entry before its cursor passes it (`HandedBeforePassed`) and without gaps (`ReceiverHasNoGap`); the status shown of a sink is never ahead of its saved cursor, and behind it only until the step is recorded (`ToldIsSaved`); listings and exports are whole (`ReadsWhole`); cursors go forward (`CursorForward`) |
| `LiveSound` | a session has one connection (`OneConnection`); closing leaves nothing behind (`NothingLeftBehind`); a lock leaves only what was opened while it came (`LockLeavesOnlyLate`); a remote forward carries what the server sends it (`RemoteCarries`); the exit is told after the output (`ExitAfterOutput`); a broadcast gives every host the same input (`SameInput`); the command line closes all its forwards (`RunClosesAll`) |
| `FleetSound` | a group expands to the hosts under it (`GroupIsWhole`); every host is answered for once (`EveryHostAnswered`); the command goes once to whom the report says (`SentAsSaid`); within the limit (`WithinLimit`); the exit code tells (`ExitTells`) |
| `UsedOnce` | a login challenge (`NonceOnce`) and a refresh token (`RefreshOnce`) are used once |
| `SessionsEndRight` | revoked stays out, a revoked row is frozen, the janitor keeps what lives |
| `SpacesSound` | the instance is claimed once and keeps an owner; a space loses its last admin only by the race of section 6; an invite lets one joiner in; sign-on leaves edges set by hand; members owed a key stay queued; a revocation is lost only to the late follow-up of section 6; grants do not pile up |
| `OnboardingSound` | keys are installed only from a seal made for that joiner (`PairingAgrees`), the record on disk opens the database beside it (`RecordOpens`), what escrow hands out opens with the password that fetched it (`FetchOpens`) |
| `AttemptsSound` | a prompt answered after a lock opens nothing (`LockBeatsPrompt`), a prompt on the screen can be dismissed (`PromptReachable`) |
| `CredentialsGuarded` | what is told of a key is what the server did (`KeyVerdicts`), a stored password answers one round (`PasswordKept`), secrets go to the pinned host (`SecretsToPinned`), no signature after a lock (`SignedWhileOpen`) |
| `PinsByConsent` | pins by first use or consent, never by automation; a pin is replaced without the user only by an attempt that had found none before the first was written, and never once every attempt under way has seen it (`PinOnlyByConsent`) |
| `FillSound` | output in order, echo masked, typed once, the offer on the screen is live, a rejected password not typed |
| `SessionsKept` | recordings whole, nothing left unread, a local shell survives the lock, exit after the recording is stored |
| `PoolSound` | the slots counted are the channels that exist; idle ones are usable |
| `TransfersWhole` | replies in step, published files whole unless the source was rewritten unseen (`PublishedWhole`, section 6), no gap, bounded reordering, resumable |
| `RequestsCleared` | one prompt at a time (`OneAtATime`); a lock, a revocation and a close clear the line, and a cancel sticks |
| `BrokerSound` | nothing lives while suspended or from an earlier grant; limits; records outlive work; consent; outcomes are final |
| `ListenersClose` | lock, screen lock and switch close the listeners, and no listener is out of reach of its stop |
| `ItemsKept` | true and purged history, rows open, edits marked, versions grow |
| `MoveSound` | references keep their meaning, lists and recordings follow, one claim |
| `SharedSound` | only members' records, removed members stay out, a fetched vault opens and nothing is missed between pull and sync, unless a sync of the app overtook the pull (`FetchedOpens`, `NothingMissed`), and then reading everything again mends it (`RepullMends`); the pin is the owner the user confirmed (`PinConfirmed`) and stays |
| `HostsSound` | approved destinations, ready links, usable hops, one group, passwords apart |
| `KeysetSound` | record and database fit, no orphan database, no SFTP session of an earlier unlock |
| `LockHolds` | a lock wins over an older unlock, a session is not replaced, stale records are refused |
| `LinksSound` | one link per identity (`OneLinkPerIdentity`); a spent refresh token is presented again only if its successor could not be stored (`NoTokenSpentTwice`); file and registry agree (`FileIsRegistry`); a link nobody removed holds a device its server knows (`LinkedDeviceLives`); one command at a time and no failed request, a server knows no device but the link's, those of duplicates dropped at a start and those of links removed without a session to revoke them by (`NoStrayDevice`) |
| `RotationSafe` | no silent lockout: a host lost to the rotation's own steps was named at a confirmation, one lost to giving up or to another device is the exception (`NoSilentLockout`); switched means refused (`SwitchedRefusesOld`, without faults); a stale certificate can be repaired |
| `WorkEnds`, `DeskEnds` | the liveness of operations, requests, commands, connections, listeners; of drives, held output, recordings, uploads |

**Bounds and why they are enough.** Two actors of a kind give every race on a lock,
a row or a key, because the code serialises pairs; a third is there where a queue
is concerned (`line`, `tokens`, `unlock`). One crash or lost message placed at
every point (`MaxCrash`, `MaxFault(s)`, `MaxDown`, `MaxCrashes` = 1) meets every
intermediate state; two where recovery itself may be interrupted (`dialog`). Counters
of what the user does (`MaxOps`, `MaxWrite`, `MaxRequests`, `MaxSaves`, `MaxUser`) are
as large as the shortest story a property needs plus one. Sizes are one above and
one below the limit they meet (`HISTORY_RETAIN`, `RecordingMax`, `HoldMax`,
`Window`, `PageLimit`). `MaxEpoch = 2` gives a first share and a rotation on top.
Every property fails under a seeded defect: the definitions named `Mut...` are
plausible bugs of the definition that follows them, and nothing else uses them.

**Symmetry** is used for handlers, request slots, keys and processes that no scene
tells apart, and in no run with liveness.

**Deadlock.** Users, clients and faults are bounded, so a run may stop
legitimately (`CHECK_DEADLOCK FALSE`); that what is pending is finished is stated by
the liveness properties.

**Fairness.** What is assumed is that a thread that can go on does, that timers
fire and deadlines pass, and that the app syncs now and then; nothing is assumed of
users, of remote sides or of other clients. Weak fairness suffices except for three
things that others may take away for a time: a page that is fetched again and
again arrives at some time (strong fairness of `ReadPage` and `PullPage`), and a
thread waiting for a channel gets one of those that keep coming back (strong fairness of
the pool's `ThreadStep`: the condition variable is notified on every return).


## 4. Proofs

Seven modules hold the proofs, one per component: `ServerSyncProofs`,
`SftpPoolProofs`, `CoreLockProofs`, `ServerSessionsProofs`, `AutomationBrokerProofs`,
`DeviceOnboardingProofs` and `BiometricUnlockProofs`. Each theorem holds for every value of the constants
that satisfies the named assumption of the component (types and non-zero bounds;
TLC evaluates them in the run whose module extends the component), and each speaks
of the very definition a run checks. They all have the same shape: an inductive
invariant `IInv`, a lemma per action that it is kept, `Init => IInv`,
`IInv /\ [Next]_vars => IInv'`, `IInv =>` the property, and a last step by `PTL`.
Every inductive invariant was also checked by TLC on the component's scenes (a
quantifier over all objects or numbers narrowed to those of the state).

**`ServerSyncProofs`** (any handlers, readers, members, items, keys, requests)

* `TypeCorrect`: `Spec => []TypeOK`. Every committed and uncommitted database is
  well formed; in particular its rows are numbered within the assigned sequence.
* `NothingSkipped`: `Spec => []NoSkippedRow`. `NoSkippedRow` is not inductive: it
  says nothing of transactions that will commit. The strengthening `IInv` adds
  `LockInv` (whoever is inside a transaction holds the lock, has a sequence not
  below the committed one, and up to the committed sequence has committed rows
  only), `CursorInv` (no cursor, walk or planned page is beyond the committed
  sequence), `HiddenInv` (a row a device cannot see now is recorded as hidden) and
  `WalkInv` (the property itself at the position the walk over pages has reached,
  which is ahead of the stored cursor). The key step is `ReadPage`
  (`ReadPageCovers`): the second read returns every row of the planned range that
  is still visible, so what the new cursor passes was handed over or hidden.
* `RevocationPermanent`: `Spec => RevokedForever`, with an invariant that an open
  transaction has kept every revocation that was committed before it began.
* `ReplaysAgree`: `Spec => []ReplayStable`, with an invariant that every answer
  given under an unexpired key is the one its record holds.
* `AcknowledgedStays`: `Spec => []AckedDurable`. The property speaks of the committed
  log only; a transaction that is about to replace that log is what can break it.
  `TxInv` says that everything the committed log holds is still held by an open
  transaction, and how far its insertions have come (`InsertedUpTo`: the rest of the
  request is in `todo`, the sequence stands at the last inserted object, the inserted
  prefix is held); `AnswerInv` says the property of the replies and of the idempotency
  records, since later replies are taken from those. `InsertHolds` is the step that
  matters: the account states an insertion prunes all have the inserted one as their
  successor, and it does not prune itself.
* `PagesAreComplete`: `Spec => PageComplete`, from `IInv` and what `IsFirst` says of
  the second read.
* `FirstManifestDecides`: `Spec => []ManifestFirstWins`, with `ManifestInv`: the same
  of the committed database and of every open transaction.
* `SnapshotIsLatest`: `VersionsFromOne => (Spec => []SnapshotLatest)`. The invariant
  `SnapshotInv` adds that a snapshot with a version has a record behind it. The
  hypothesis is needed: `claim_vault` inserts the row with version 0 and no tombstone,
  so a first vault record with version 0 and a tombstone would be in the log while the
  row stays live. Clients start at 1 (`create_with_target`); `materialize_vault` does not ask for it.
  The fourth part of `DerivedFromLog`, `ReemitCurrent`, holds only while the versions
  of an item arrive in order; it is checked on the scene `share` and not proved.

**`SftpPoolProofs`** (any callers, slots, connections)

* `PoolTypes`, `PoolIsSound` (`PoolSound`) and `LeasesAreCurrent` (`LeasedCurrent`).
  The count of open channels is a cardinality of three disjoint finite sets (idle,
  being opened, in use), so the invariant names them and keeps them finite and
  disjoint; what a late open or a return does to the count after a reconnect is the
  step that needs it.

**`CoreLockProofs`** (any threads, operations, crashes)

* `CoreTypes`, `LockAlwaysWins`, `LocksHold` (`LockHolds`), `SftpEndsWithLock`,
  `KeysetStaysSound` (`KeysetSound`). The invariant ties the two locks to the program
  counters (who is inside a section holds its lock), the epochs a thread has read to
  the present one, and record, database and floor to each other (`FloorInv`,
  `DiskInv`, and `OrphanInv`, which says `NoOrphanDb` also of the moment between the two
  removals of a reset). `LocksHold` is proved while the account stays (`Kept`: no creation or
  reset) and `KeysetStaysSound` while creation and the migration of an unlock are the
  only writers of the record (`Alone`); both are stated in the theorems. Outside them
  the code has the races of section 6, which the runs leave out as well.

**`ServerSessionsProofs`** (any accounts, devices, handlers)

* `SessionTypes`, `TokensUsedOnce` (`UsedOnce`), `SessionsEnd`
  (`SessionsEndRight`), `OwnerAlwaysRemains`. The parts of the invariant are
  `RowInv` (a session has its device and account), `NonceInv` (a challenge that a
  handler holds is consumed or still the one it read), `RotInv` (a token pair that
  was exchanged is no longer the stored one), `GoneInv` (what a handler checked
  before a revocation cannot be written after it) and `OwnInv` (the first owner).

**`AutomationBrokerProofs`** (finite set of owners, any integrations and limits)

* `BrokerTypes`, `ExecsAuthorised` (`ExecAuthorised`), `GrantsHold`,
  `OutcomesStay`, `ClosingIsTold`. The invariant says which grant, revision and
  deadline every record still rests on (`GrantInv`, `SessInv`, `RunInv`); what
  actions do to commands and working sessions is factored into two relations (`Moves`,
  `SessMoves`) that every action is shown to satisfy, so that each part is proved
  once for the relation.

**`DeviceOnboardingProofs`** (any devices, accounts, passwords, channels)

* `OnboardingTypes` and `OnboardingIsSound` (`OnboardingSound`). `RowsInv`: what a
  row carries as escrow is of the push that inserted it or nothing, although check,
  insert and arming are three statements. `HandInv`: a running request carries what
  was typed at its push. `SealInv`, `JoinInv`: every seal names one answer of one
  attempt, and the numbers still to be given are above all that exist, so that two
  joiners cannot hold the same seal. `DiskInv`: record, database, floor and keychain
  of a device agree with the stage its installation has reached, killed or not.
  Assumed (`OnboardingAssumption`): `Nobody` is no account, password or channel,
  bounds are natural, and at least one generation exists.

**`BiometricUnlockProofs`** (any attempts, cancels, locks, resets, enables, installs)

* `BiometricTypes`, `AttemptsAreSound` (`AttemptsSound`) and `NothingStaleStaysSealed`
  (`NoStaleSeal`). `NumInv`: an attempt's number and the epoch it read are never ahead
  of the present ones, and two attempts have two numbers. `DoomInv`: an attempt that a
  lock came after is over, read its epoch before the lock, or has still to find its
  number superseded (`Overtaken`). `PromptInv`: the dismisser of a prompt that is up is
  with the current attempt, in somebody's hand or called. `EnableInv`: an enable past
  its check of the password seals the password of today unless the record changed.
  `StaleInv`: while a stale seal is on disk somebody has still to wipe it (`Covers`) or
  failed to wipe that very file. Assumed (`BiometricAssumption`): a job is of one kind,
  and `Nobody` is no job.

Only model-checked: all other properties. Out of the prover's reach, and left to
TLC for good: liveness (`SyncEnds`, `WorkEnds`, `DeskEnds`) and what folds and
recursive functions compute (`PullPage` of `DeviceSync`, the pages of `SharedTrust`,
the mask of `PasswordFill`, the expansion of groups in `Fleet`).

## 5. What holds

The server's sequence discipline is sound: allocation under the row lock of the
whole transaction, the two-read page and the client's cursor rule together never
skip a row, with rollbacks, compaction, expiry and bumps in between. Idempotent
replay is right under races. The engine's settle-per-part discipline loses no
change in the app, where one mutex separates edits from syncs. A lock ends what
acts for the user: an unlock, a signature request, a command, a listener or a
channel that began before it does not come through after it. A shared vault rests
on the owner the user confirmed whatever the server serves between the display, the
confirmation and the pin. A key rotation names every host that finishing it would
lock out among those it plans for; giving it up warns without naming any.

## 6. Where the code and its documentation part

One disagreement has a run. `stale_key`: between the pull of a rotation's manifest
and of its vault record, a device of the owner stamps the new epoch on an item
wrapped under the old key (`core/vault/src/vault.rs:274`).

Others were met while modelling. The modules reproduce them, and the properties
above are stated so that they hold beside them: by the exception they name, or in
scenes with one process, one space or no crash.

* `server/src/store/policy_repo.rs:290`: re-emission picks the row with the highest
  sequence number, which after out-of-order pushes is not the current version.
* `core/storage/src/store.rs:1148`: settling clears the dirty flag by id; an edit a
  second command-line process makes while the older version is in flight is
  marked as sent.
* `core/sync/src/engine.rs:1374`: a request that ends between manifest and grant
  lets a member's cursor pass the manifest.
* `core/vault/src/vault.rs:484`: an edit killed between its two statements is never sent.
* `core/sync/src/engine.rs:668`, `:1232`: a tombstone that is pulled leaves the
  archive; after a discard a version number may reveal the discarded text.
* `core/ffi/src/lib.rs:7019`, `:1899`: an unlock that migrates may overwrite a
  concurrent change of the password; two creations share one database path.
* `core/ffi/src/approvals.rs:304`: a request whose turn has come is put to the
  approver just after a lock and withdrawn a moment later.
* `client/src-tauri/src/system_agent.rs:288`: enabling the agent across a sleep may
  save the setting and leave no listener.
* `core/ffi/src/key_rotation_plan.rs:999`, `:936`, `:1491`, `:1273`: a remove whose
  answer was lost is reported as kept; one machine over two routes is two targets;
  inline hops of other vaults are not named; a sync may replace the key under a confirm.
* `core/ssh-transport/src/sftp.rs:719`: the progress of an upload sums
  acknowledgements that may have a gap.
* `server/src/modules/spaces.rs:351`, `:362`, `:103`, `policy.rs:264`: a target promoted
  meanwhile is removed although it is the last admin; a restart between two
  transactions loses a revocation; a member added again is passed over; a late
  follow-up closes a newer revocation.
* `core/ssh-transport/src/client.rs:1344`: of two first connections with different
  keys the second pin silently wins. The scene `trust` has both, and
  `PinOnlyByConsent` names the exception.
* `core/ssh-transport/src/sftp.rs:769`: the check that a source did not change under a
  transfer compares its size and whole seconds of its time, or 0 where the server
  reports none; an edit of the same size within that second publishes a torn copy.
* `client/src-tauri/src/cloud/commands.rs:836`, `:965`, `:1016`: the command line takes a lock
  around a sync (`home.rs:235`), the app takes none, so a sync may overtake the pull of a
  vault that is being accepted and move the cursor past what the pull then leaves
  out. Reading everything again mends it (`server_repull`).
* `client/src-tauri/src/cloud/config.rs:491`, `:501`: when the answer to a refresh is lost or the
  keychain refuses the new token, the spent one stays in the keychain and the next
  rotation presents it, which ends the session; the comment there expects a sign-in
  after a restart only.
* `client/src-tauri/src/cloud/commands.rs:138`, `:158`, `config.rs:213`: a server keeps the
  device of a link that was signed out and then removed, of one of two commands
  that link the same server at a time, and of a duplicate link dropped at a start.
  With two such commands and a restart after them (`config.rs:660`: the older snapshot
  may be written last) the link that comes back may even hold the revoked device, so
  the scene `identity` ends without one.
* `core/cli/src/rotation.rs:243`: giving a rotation up warns of any machine where the old key
  was already removed, and names none.
* `client/src-tauri/src/commands.rs:218`, `:236`: a reset looks whether the core is open, then locks
  it, so that an unlock in between is locked and wiped; it removes the database and then
  the record, and an account whose record is created between the two is left as a
  database without one (`NoOrphanDb` names the exception).
* `core/ffi/src/lib.rs:10750`, `:10683`: the password is written after the check was
  released, so the prompt may have ended or a key been typed in between.
* `client/src-tauri/src/commands.rs:427`, `core/local-pty/src/lib.rs:346`, `:276`: a
  blocked write keeps a shell alive past the lock; output after the close callback;
  a reaped process id may be signalled.
* `client/src-tauri/src/cloud/commands.rs:560`, `:547`, `:1145`, `config.rs:660`, `:557`:
  refreshes by hand bypass the gate; a sign-in in flight outlives its link; a vault
  moved to another space waits for a sync nobody starts; two writers share one
  temporary file; the active link may name one that was removed.
* `core/ffi/src/host_save.rs:598`, `:404`, `:334`, `core/cli/src/host_edit.rs:1364`: a
  link in a second vault is reported ready while connects find the older pin; a
  redirect that was taken back may be pinned; two processes may share a password
  item or leave a host in two groups.
* `core/ffi/src/lib.rs:8067`: a group first met below the depth limit counts as visited, so
  its hosts are left out even when a shorter way leads to it, and a group listed twice
  is reported as a cycle.
* `server/src/store/identity_repo.rs:309`: a server killed between the insert of a
  keyset and the arming of its escrow leaves the latest keyset without one, and the
  same generation cannot be pushed again; the password typed at a push is not
  compared with the record.

Left out by the bounds of a scene: `SwitchedRefusesOld` and `NothingUnsent` are checked
without faults; in `work_ends` no connection is closed while a signature waits and no
link breaks while a channel is awaited (`agents` and `files` have both, for safety).

## 7. What is left

* Proofs for the remaining components, along section 4; the refinement of an
  abstract log by `ServerSync`.
* The recursive transfer of folders, the file operations of the automation broker, and
  the consistency report of the local storage.
* Proofs about `DeviceSync`: its page is a fold over the rows, about which the prover
  cannot reason by induction; it would have to be applied one object per step.

----------------------------- MODULE MCAccounts -----------------------------
(***************************************************************************)
(* What a server keeps beside its objects: devices and sessions            *)
(* (ServerSessions), spaces, members and invites (ServerSpaces), and the   *)
(* audit log with its sinks (AuditLog). A behaviour plays one scene.       *)
(***************************************************************************)
EXTENDS ServerSessions, Integers, Sequences, TLC

CONSTANTS alice, bob, d1, d2, o, ann, ben, cid, dan, s1, s2, v1, i1, i2, q1, q2, NoOne

VARIABLES scene,
          owner, status, opened, edge, bySso, home, holders, epoch, invite, pend, req,
          spent, crashes, joins, evicted, owed, stale, late,
          auditLog, instanceLock, writer, sinkTask, sinkCursor, told, link, handed,
          got, auditReader, auditCrashes, auditFaults

sessionVars == <<now, acct, dev, sess, nonce, pairs, h, sent, known, gone, minted,
            rotated>>
spaceVars == <<owner, status, opened, edge, bySso, home, holders, epoch, invite, pend,
            req, spent, crashes, joins, evicted, owed, stale, late>>
auditVars == <<auditLog, instanceLock, writer, sinkTask, sinkCursor, told, link,
            handed, got, auditReader, auditCrashes, auditFaults>>
sceneVars == <<scene, sessionVars, spaceVars, auditVars>>

\* A part that is not played; ServerSessions then stays in its first state.
Off == "off"
NoSpace ==
  /\ owner = Off /\ status = Off /\ opened = Off /\ edge = Off /\ bySso = Off
  /\ home = Off /\ holders = Off /\ epoch = Off /\ invite = Off /\ pend = Off
  /\ req = Off /\ spent = Off /\ crashes = Off /\ joins = Off /\ evicted = Off
  /\ owed = Off /\ stale = Off /\ late = Off
NoAudit ==
  /\ auditLog = Off /\ instanceLock = Off /\ writer = Off /\ sinkTask = Off
  /\ sinkCursor = Off /\ told = Off /\ link = Off /\ handed = Off /\ got = Off
  /\ auditReader = Off /\ auditCrashes = Off /\ auditFaults = Off

OneDevice == [x \in {alice} |-> d1]
MemberKinds == {"claim", "add", "remove", "role", "invite", "join"}

-----------------------------------------------------------------------------
(* The scenes.                                                             *)
\* Scene "login", ServerSessions with the constants of the configuration: logins,
\* refreshes and revocations of two devices of one account, two requests at a time.

\* Two owners promote, demote, disable and enable each other.
Demote == INSTANCE ServerSessions WITH
  Accounts <- {alice, bob}, ClaimOwner <- alice, Owners <- {alice, bob},
  Devices <- {d1, d2}, FirstDevice <- (alice :> d1 @@ bob :> d2),
  Handlers <- {"p1", "p2"}, NonceTTL <- 1, PendingTTL <- 1, WebTTL <- 1,
  Retention <- 1, Ops <- {"verify", "demote", "disable", "promote", "enable"},
  MaxSend <- 4, MaxPair <- 2, MaxNonce <- 2, MaxNow <- 1, AccessTTL <- 1,
  RefreshTTL <- 1
\* The janitor cleans up while sessions are used.
Janitor == INSTANCE ServerSessions WITH
  Accounts <- {alice}, ClaimOwner <- alice, Owners <- {alice}, Devices <- {d1, d2},
  FirstDevice <- [x \in {alice} |-> d1], Handlers <- {"p1", "p2"}, NonceTTL <- 1,
  PendingTTL <- 1, WebTTL <- 1, Retention <- 0,
  Ops <- {"verify", "refresh", "end", "enroll"}, MaxSend <- 3, MaxPair <- 2,
  MaxNonce <- 2, MaxNow <- 4, AccessTTL <- 1, RefreshTTL <- 2
\* Members and admins of a space come and go, two requests at a time.
Members == INSTANCE ServerSpaces WITH
  Accounts <- {o, ann, ben}, Founders <- {o}, Sso <- {}, Spaces <- {s1}, Vaults <- {},
  SpaceWide <- {}, Invites <- {i1, i2}, Slots <- {q1, q2}, MaxCrashes <- 0,
  Kinds <- MemberKinds, MaxRequests <- 7
\* A removed member loses a vault of the space: its revocation is queued and settled
\* by publications.
Queue == INSTANCE ServerSpaces WITH
  Accounts <- {o, ann}, Founders <- {o}, Sso <- {}, Spaces <- {s1}, Vaults <- {v1},
  SpaceWide <- {v1}, Invites <- {i1}, Slots <- {q1, q2}, MaxCrashes <- 0,
  Kinds <- MemberKinds \cup {"disable", "publish"}, MaxRequests <- 8
\* New members are owed the keys of a vault open to the whole space; the server may
\* restart.
Serve == INSTANCE ServerSpaces WITH
  Accounts <- {o, ann, ben}, Founders <- {o}, Sso <- {}, Spaces <- {s1},
  Vaults <- {v1}, SpaceWide <- {v1}, Invites <- {i1, i2}, Slots <- {q1, q2},
  MaxCrashes <- 1, Kinds <- {"claim", "join", "invite", "publish"}, MaxRequests <- 7
\* Two founders claim the instance, invites are redeemed and withdrawn.
Door == INSTANCE ServerSpaces WITH
  Accounts <- {o, cid, dan}, Founders <- {o, cid}, Sso <- {}, Spaces <- {s1, s2},
  Vaults <- {}, SpaceWide <- {}, Invites <- {i1, i2}, Slots <- {q1, q2},
  MaxCrashes <- 1, Kinds <- {"claim", "create", "invite", "uninvite", "join"},
  MaxRequests <- 6
\* Membership follows the groups of an identity provider beside edges set by hand.
Sso == INSTANCE ServerSpaces WITH
  Accounts <- {o, ann, ben}, Founders <- {o}, Sso <- {ann, ben}, Spaces <- {s1},
  Vaults <- {}, SpaceWide <- {}, Invites <- {}, Slots <- {q1, q2}, MaxCrashes <- 0,
  Kinds <- {"claim", "add", "remove", "role", "oidc"}, MaxRequests <- 7
\* Two requests append to the audit log while a webhook is fed from it; posts and
\* their answers get lost, the server restarts.
Hook == INSTANCE AuditLog WITH
  Writers <- {"p", "q"}, Sinks <- {"sink"}, TooLong <- {2}, Readers <- {},
  BatchSize <- 2, PageSize <- 2, MaxLog <- 3, MaxFaults <- 2, MaxCrashes <- 1,
  Transport <- [s \in {"sink"} |-> "webhook"], log <- auditLog, lock <- instanceLock,
  task <- sinkTask, cursor <- sinkCursor, reader <- auditReader,
  crashes <- auditCrashes, faults <- auditFaults
\* The same with a syslog collector over UDP, one entry being too long for a
\* datagram.
Datagrams == INSTANCE AuditLog WITH
  Writers <- {"p", "q"}, Sinks <- {"sink"}, TooLong <- {2}, Readers <- {},
  BatchSize <- 2, PageSize <- 2, MaxLog <- 3, MaxFaults <- 2, MaxCrashes <- 1,
  Transport <- [s \in {"sink"} |-> "udp"], log <- auditLog, lock <- instanceLock,
  task <- sinkTask, cursor <- sinkCursor, reader <- auditReader,
  crashes <- auditCrashes, faults <- auditFaults
\* The same over TCP.
Collector == INSTANCE AuditLog WITH
  Writers <- {"p", "q"}, Sinks <- {"sink"}, TooLong <- {2}, Readers <- {},
  BatchSize <- 2, PageSize <- 2, MaxLog <- 3, MaxFaults <- 2, MaxCrashes <- 1,
  Transport <- [s \in {"sink"} |-> "tcp"], log <- auditLog, lock <- instanceLock,
  task <- sinkTask, cursor <- sinkCursor, reader <- auditReader,
  crashes <- auditCrashes, faults <- auditFaults
\* The log is listed and exported page by page while requests append.
Export == INSTANCE AuditLog WITH
  Writers <- {"p", "q"}, Sinks <- {}, TooLong <- {2}, Readers <- {"r"},
  BatchSize <- 2, PageSize <- 2, MaxLog <- 4, MaxFaults <- 1, MaxCrashes <- 1,
  Transport <- <<>>, log <- auditLog, lock <- instanceLock, task <- sinkTask,
  cursor <- sinkCursor, reader <- auditReader, crashes <- auditCrashes,
  faults <- auditFaults

ASSUME SceneAssumption ==
  /\ SessionsAssumption /\ Demote!SessionsAssumption /\ Janitor!SessionsAssumption
  /\ Members!SpacesAssumption /\ Queue!SpacesAssumption /\ Serve!SpacesAssumption
  /\ Door!SpacesAssumption /\ Sso!SpacesAssumption /\ Hook!AuditAssumption
  /\ Datagrams!AuditAssumption /\ Collector!AuditAssumption
  /\ Export!AuditAssumption

SceneInit ==
  \/ scene = "login" /\ Init /\ NoSpace /\ NoAudit
  \/ scene = "demote" /\ Demote!Init /\ NoSpace /\ NoAudit
  \/ scene = "janitor" /\ Janitor!Init /\ NoSpace /\ NoAudit
  \/ scene = "members" /\ Members!Init /\ Init /\ NoAudit
  \/ scene = "queue" /\ Queue!Init /\ Init /\ NoAudit
  \/ scene = "serve" /\ Serve!Init /\ Init /\ NoAudit
  \/ scene = "door" /\ Door!Init /\ Init /\ NoAudit
  \/ scene = "sso" /\ Sso!Init /\ Init /\ NoAudit
  \/ scene = "hook" /\ Hook!Init /\ Init /\ NoSpace
  \/ scene = "datagrams" /\ Datagrams!Init /\ Init /\ NoSpace
  \/ scene = "collector" /\ Collector!Init /\ Init /\ NoSpace
  \/ scene = "export" /\ Export!Init /\ Init /\ NoSpace

SceneNext ==
  \/ scene = "login" /\ Next /\ UNCHANGED <<scene, spaceVars, auditVars>>
  \/ scene = "demote" /\ Demote!Next /\ UNCHANGED <<scene, spaceVars, auditVars>>
  \/ scene = "janitor" /\ Janitor!Next /\ UNCHANGED <<scene, spaceVars, auditVars>>
  \/ scene = "members" /\ Members!Next /\ UNCHANGED <<scene, sessionVars, auditVars>>
  \/ scene = "queue" /\ Queue!Next /\ UNCHANGED <<scene, sessionVars, auditVars>>
  \/ scene = "serve" /\ Serve!Next /\ UNCHANGED <<scene, sessionVars, auditVars>>
  \/ scene = "door" /\ Door!Next /\ UNCHANGED <<scene, sessionVars, auditVars>>
  \/ scene = "sso" /\ Sso!Next /\ UNCHANGED <<scene, sessionVars, auditVars>>
  \/ scene = "hook" /\ Hook!Next /\ UNCHANGED <<scene, sessionVars, spaceVars>>
  \/ scene = "datagrams" /\ Datagrams!Next /\ UNCHANGED <<scene, sessionVars, spaceVars>>
  \/ scene = "collector" /\ Collector!Next /\ UNCHANGED <<scene, sessionVars, spaceVars>>
  \/ scene = "export" /\ Export!Next /\ UNCHANGED <<scene, sessionVars, spaceVars>>

SceneSpec == SceneInit /\ [][SceneNext]_sceneVars

Symmetry == Permutations({ann, ben}) \cup Permutations({q1, q2})

-----------------------------------------------------------------------------
(* The properties: each in the scenes that are made for it.                *)

\* The chain verifies at any time, whatever requests append together, fail or are cut
\* off; and with any row but the last one missing it does not (audit_repo.rs:
\* append_audit_row reads number and hash under the lock it inserts under).
ChainHolds ==
  /\ scene = "hook" => Hook!ChainHolds
  /\ scene = "export" => Export!ChainHolds

\* At least once: a cursor has passed only what its sink handed over, through
\* failures of the sink, of the log, of the cursor's own write and restarts between
\* any two of them; a webhook's receiver really has it. Only UDP passes over what no
\* datagram can carry.
HandedBeforePassed ==
  /\ scene = "hook" => Hook!HandedBeforePassed
  /\ scene = "datagrams" => Datagrams!HandedBeforePassed
  /\ scene = "collector" => Collector!HandedBeforePassed

\* In order: before an entry goes out all earlier ones have, and the receiver of a
\* webhook, which drops the numbers it has seen, never has a gap.
ReceiverHasNoGap ==
  /\ scene = "hook" => Hook!ReceiverHasNoGap
  /\ scene = "datagrams" => Datagrams!ReceiverHasNoGap
  /\ scene = "collector" => Collector!ReceiverHasNoGap

\* The status of a sink never runs ahead of its saved cursor, and trails it only
\* until the step that saved it is recorded or the process ends (audit_sinks.rs:
\* step_recorded).
ToldIsSaved ==
  /\ scene = "hook" => Hook!ToldIsSaved
  /\ scene = "datagrams" => Datagrams!ToldIsSaved
  /\ scene = "collector" => Collector!ToldIsSaved

\* A finished export is the log from its first to its last number, each row once, and
\* a finished listing has whatever was there when it was begun, although rows are
\* appended between its pages.
ReadsWhole == scene = "export" => Export!ReadsWhole

\* The cursor of a sink never goes back (audit_sinks.rs: Delivery::step,
\* set_sink_cursor).
CursorForward ==
  [][/\ scene = "hook" => Hook!CursorForwardStep
     /\ scene = "datagrams" => Datagrams!CursorForwardStep
     /\ scene = "collector" => Collector!CursorForwardStep]_sceneVars

\* The chain of the audit log verifies at any time; a sink gets every entry in order
\* and at least once before its cursor passes it; what is listed or exported is
\* whole.
AuditSound ==
  /\ [](/\ ChainHolds
       /\ HandedBeforePassed
       /\ ReceiverHasNoGap
       /\ ToldIsSaved
       /\ ReadsWhole)
  /\ CursorForward

\* The instance always has an active owner: owners who demote or disable each other
\* at the same time cannot lock everyone out.
AnOwnerStays == scene = "demote" => Demote!OwnerRemains

\* The conditional statements of members_remove and members_set_role keep an admin in
\* every space whatever two requests do to each other, with one exception: a removal
\* that read its target as no admin and deletes it when it is one.
OrphanOnlyByStaleRole == scene = "members" => Members!OrphanOnlyByStaleRole

\* With no restart in between, the one way to lose a revocation is a publication that
\* is settled after a newer one: its old list of members closes the new row.
RevokeLostOnlyLate == scene = "queue" => Queue!RevokeLostOnlyLate

\* Direct adds and role changes never pile up grants: what policy has queued for one
\* account and vault is at most one, and one more per invite it redeemed.
NoPiledGrants == scene = "queue" => Queue!NoPiledGrants

\* A member let in while a vault was space-wide can read the vault, or has the grant
\* queued: no publication closes a grant it did not serve.
MembersServed == scene = "serve" => Serve!MembersServed

\* An invite lets one joiner in: what was redeemed accounts for every join, with
\* several joins, the invite's revocation and its expiry all in flight.
InviteOnce == scene = "door" => Door!InviteOnce

\* The instance is claimed once, however many claims pass the first check.
ClaimedOnce == [][scene = "door" => Door!ClaimedOnceStep]_sceneVars

\* An edge given by hand is changed by a removal or a role change of that account,
\* never by what an identity provider says of it.
ManualKept == [][scene = "sso" => Sso!ManualKeptStep]_sceneVars

\* The instance is claimed once and keeps an owner, a space keeps its admins, an
\* invite lets one joiner in, sign-on takes away no edge that was set by hand; and in
\* the queue whoever is owed a key stays queued until it is served, whoever lost
\* access stays queued until a publication leaves it out, and grants do not pile up.
SpacesSound ==
  /\ [](/\ AnOwnerStays
       /\ OrphanOnlyByStaleRole
       /\ InviteOnce
       /\ MembersServed
       /\ RevokeLostOnlyLate
       /\ NoPiledGrants)
  /\ ClaimedOnce
  /\ ManualKept
=============================================================================

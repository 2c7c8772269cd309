------------------------------ MODULE MCVaults ------------------------------
(***************************************************************************)
(* Vaults on a device and the account that opens them: how the account     *)
(* reaches a device (DeviceOnboarding), moving a vault to a server         *)
(* (VaultMove), the hosts and bindings kept in vaults (HostBook), and one  *)
(* command on many of them (Fleet). A behaviour plays one scene.           *)
(***************************************************************************)
EXTENDS DeviceOnboarding, Integers, Sequences, TLC

CONSTANTS m1, m2, h1, h2, h3, a1, a2, s1, s2, s3, s4, v1, p1, p2, alice, bob, d1, d2,
          d3, NoRef, NoOne

VARIABLES scene,
          vault, hosts, binds, reserved, claims, moved, personal, lists, cmd, session,
          saved, backup, faults, used,
          host, secret, group, bind, private, proc, typed, saves, pulls, approved,
          under, cut, said, logins, twice,
          groups, profiles, unlocked, step, seen, todo, plans, hostRows, task, free,
          results, exit, sentTo, edits, locks

moveVars == <<vault, hosts, binds, reserved, claims, moved, personal, lists, cmd,
            session, saved, backup, faults, used>>
onboardVars == <<now, chan, rows, hand, dev, pc, work, sealed, joined, sent, nextN,
            nextM, crashes>>
bookVars == <<host, secret, group, bind, private, proc, typed, saves, pulls, approved,
            under, cut, said, logins, twice>>
fleetVars == <<groups, profiles, unlocked, step, seen, todo, plans, hostRows, task,
            free, results, exit, sentTo, edits, locks>>
sceneVars == <<scene, moveVars, onboardVars, bookVars, fleetVars>>

\* A part that is not played; DeviceOnboarding then stays in its first state.
Off == "off"
NoMove ==
  /\ vault = Off /\ hosts = Off /\ binds = Off /\ reserved = Off /\ claims = Off
  /\ moved = Off /\ personal = Off /\ lists = Off /\ cmd = Off /\ session = Off
  /\ saved = Off /\ backup = Off /\ faults = Off /\ used = Off
NoBook ==
  /\ host = Off /\ secret = Off /\ group = Off /\ bind = Off /\ private = Off
  /\ proc = Off /\ typed = Off /\ saves = Off /\ pulls = Off /\ approved = Off
  /\ under = Off /\ cut = Off /\ said = Off /\ logins = Off /\ twice = Off
NoFleet ==
  /\ groups = Off /\ profiles = Off /\ unlocked = Off /\ step = Off /\ seen = Off
  /\ todo = Off /\ plans = Off /\ hostRows = Off /\ task = Off /\ free = Off
  /\ results = Off /\ exit = Off /\ sentTo = Off /\ edits = Off /\ locks = Off

\* Hosts of VaultMove: a bastion in the first local vault, with or without a stored
\* uid; a host behind it in the same vault, in the second one, in a shared vault and
\* in a viewed one; and a hop of another device's to a vault of the same name.
U(n) == <<"u", n>>
Host(v, item, uid, hop, gid, to) ==
  [vault |-> v, item |-> item, uid |-> uid, hop |-> hop, gid |-> gid, to |-> to]
MoveHosts ==
  {{Host("L1", "jump", u, <<>>, <<"jump">>, <<"none">>),
    Host(at, "web", U(2), <<"L1", IF u = <<>> THEN <<"L1", "jump">> ELSE u>>, <<"web">>, <<"jump">>),
    Host("S", "far", U(3), <<"L1", U(9)>>, <<"far">>, <<"theirs">>)}
     : u \in {<<>>, U(1)}, at \in {"L1", "L2", "S", "V"}}
Bastion == {{Host("L1", "jump", <<>>, <<>>, <<"jump">>, <<"none">>)}}
Bound ==
  {{[holder |-> holder, target |-> <<"L1", <<"L1", "jump">> >>, pin |-> <<"L1", <<"L1", "jump">> >>,
     to |-> <<"jump">>, pinTo |-> <<"jump">>]} : holder \in {"L1", "S"}}

\* The devices of DeviceOnboarding: the second one is new.
OneSignedIn == [x \in {d1, d2} |-> IF x = d1 THEN alice ELSE NoOne]

\* Groups of Fleet: two that list each other, a group listed twice, a nest deeper than
\* the limit with a shorter way into it, and a plain one with a member that is gone.
Cycle == "g" :> <<"a", "h", "b">> @@ "h" :> <<"b", "g", "i">> @@ "i" :> <<"h", "x">>
Diamond == "g" :> <<"h", "i", "h">> @@ "h" :> <<"j", "a">> @@ "i" :> <<"j", "a">> @@ "j" :> <<"b", "c">>
Nest == "g" :> <<"h", "i">> @@ "h" :> <<"i">> @@ "i" :> <<"j">> @@ "j" :> <<"c">>
Plain == "g" :> <<"a", "b", "h">> @@ "h" :> <<"c", "x">>
LogIn(b, c) == "a" :> "key" @@ "b" :> b @@ "c" :> c

\* Hosts of HostBook.
Saved(auth, pw, proxyPw, hop) ==
  [live |-> TRUE, addr |-> a1, auth |-> auth, pw |-> pw, proxyPw |-> proxyPw, hop |-> hop]
OnePersonal == h1 :> Saved("personal", NoRef, NoRef, NoRef)
WithBastion == h1 :> Saved("personal", NoRef, NoRef, NoRef) @@ h2 :> Saved("key", NoRef, NoRef, NoRef)
WithPasswords == h1 :> Saved("password", s1, s2, NoRef) @@ h2 :> Saved("password", s2, NoRef, NoRef)
  @@ h3 :> Saved("password", s3, NoRef, NoRef)
Behind == h1 :> Saved("key", NoRef, NoRef, h2) @@ h2 :> Saved("key", NoRef, NoRef, NoRef)

-----------------------------------------------------------------------------
(* The scenes.                                                             *)
\* A vault other vaults point into is moved.
Meaning == INSTANCE VaultMove WITH
  LocalIds <- {"L1", "L2"}, Restored <- "R", Shared <- "S", Viewed <- "V",
  Fresh <- <<"c1", "c2">>, Recorded <- {}, Spaces <- {"sp"}, Primary <- "sp",
  Cmds <- {m1}, Hosts0 <- MoveHosts, Binds0 <- {{}}, MaxFaults <- 0, MaxUser <- 1
\* Bindings, lists and recordings follow a vault that is moved.
Bindings == INSTANCE VaultMove WITH
  LocalIds <- {"L1"}, Restored <- "R", Shared <- "S", Viewed <- "V",
  Fresh <- <<"c1", "c2">>, Recorded <- {"L1"}, Spaces <- {"sp"}, Primary <- "sp",
  Cmds <- {m1}, Hosts0 <- Bastion, Binds0 <- Bound, MaxFaults <- 0, MaxUser <- 2
\* Two moves of one vault, with lost answers and crashes.
Claims == INSTANCE VaultMove WITH
  LocalIds <- {"L1"}, Restored <- "R", Shared <- "S", Viewed <- "V",
  Fresh <- <<"c1", "c2", "c3">>, Recorded <- {}, Spaces <- {"sp", "other"},
  Primary <- "sp", Cmds <- {m1, m2}, Hosts0 <- {{}}, Binds0 <- {{}}, MaxFaults <- 1,
  MaxUser <- 0
\* A personal login stays bound to the destination the member approved.
Pins == INSTANCE HostBook WITH
  None <- NoRef, Hosts <- {h1}, First <- OnePersonal, Addrs <- {a1, a2},
  Secrets <- {}, InIdentity <- {}, Groups <- {}, Holders <- <<v1>>, Procs <- {p1, p2},
  Apart <- FALSE, PutFails <- BOOLEAN, MaxSaves <- 3, MaxPulls <- 2,
  Edits <- {"label", "addr", "link", "move"}, Uses <- {"connect", "dialog"}
\* What the form says of a linked identity.
Linked == INSTANCE HostBook WITH
  None <- NoRef, Hosts <- {h1, h2}, First <- WithBastion, Addrs <- {a1, a2},
  Secrets <- {}, InIdentity <- {}, Groups <- {}, Holders <- <<v1>>, Procs <- {p1},
  Apart <- FALSE, PutFails <- BOOLEAN, MaxSaves <- 2, MaxPulls <- 1,
  Edits <- {"label", "addr", "hop", "link", "move", "auth"},
  Uses <- {"dialog", "share", "unbind"}
\* Hosts that share password items are edited and deleted.
Reused == INSTANCE HostBook WITH
  None <- NoRef, Hosts <- {h1, h2, h3}, First <- WithPasswords, Addrs <- {a1},
  Secrets <- {s1, s2, s3, s4}, InIdentity <- {s3}, Groups <- {}, Holders <- <<v1>>,
  Procs <- {p1, p2}, Apart <- FALSE, PutFails <- {FALSE}, MaxSaves <- 2,
  MaxPulls <- 0, Edits <- {"auth", "newpw", "item"}, Uses <- {"delete", "import"}
\* Hosts behind hosts.
Hops == INSTANCE HostBook WITH
  None <- NoRef, Hosts <- {h1, h2, h3}, First <- Behind, Addrs <- {a1}, Secrets <- {},
  InIdentity <- {}, Groups <- {}, Holders <- <<v1>>, Procs <- {p1, p2},
  Apart <- FALSE, PutFails <- {FALSE}, MaxSaves <- 2, MaxPulls <- 1,
  Edits <- {"auth", "hop"}, Uses <- {"new", "delete", "import"}
\* A host moves between groups.
Groups == INSTANCE HostBook WITH
  None <- NoRef, Hosts <- {h1, h2}, First <- Behind, Addrs <- {a1, a2}, Secrets <- {},
  InIdentity <- {}, Groups <- {"g1", "g2"}, Holders <- <<v1>>, Procs <- {p1},
  Apart <- FALSE, PutFails <- BOOLEAN, MaxSaves <- 5, MaxPulls <- 0,
  Edits <- {"group"}, Uses <- {"groups", "delete"}
\* Two devices join over one channel of a third, which may start over; a kill at any
\* step.
Pair == INSTANCE DeviceOnboarding WITH
  Accounts <- {alice}, Passwords <- {"p"}, Channels <- {"c1"}, Nobody <- NoOne,
  RelayTTL <- 1, MaxNow <- 1, MaxGen <- 1, MaxPairings <- 2, MaxPushes <- 0,
  MaxCrashes <- 1, Devices <- {d1, d2, d3},
  AccountOf <- [x \in {d1, d2, d3} |-> IF x = d1 THEN alice ELSE NoOne]
\* Two devices of one account push their records at the same time and arm the escrow.
Arming == INSTANCE DeviceOnboarding WITH
  Accounts <- {alice}, Passwords <- {"p", "q"}, Channels <- {}, Nobody <- NoOne,
  RelayTTL <- 1, MaxNow <- 0, MaxGen <- 1, MaxPairings <- 0, MaxPushes <- 2,
  MaxCrashes <- 0, Devices <- {d1, d2}, AccountOf <- [x \in {d1, d2} |-> alice]
\* Scene "recovery", DeviceOnboarding with the constants of the configuration: a new
\* device recovers the account from the server while its password changes; a kill at
\* any step.

\* A device of one account is given the record of another.
Foreign == INSTANCE DeviceOnboarding WITH
  Accounts <- {alice, bob}, Passwords <- {"p", "q"}, Channels <- {}, Nobody <- NoOne,
  RelayTTL <- 1, MaxNow <- 0, MaxGen <- 2, MaxPairings <- 0, MaxPushes <- 1,
  MaxCrashes <- 0, Devices <- {d1, d2}, AccountOf <- (d1 :> alice @@ d2 :> bob)
\* A command on a group, over cycles, diamonds and a nest that is too deep, while the
\* groups and hosts change and the account is locked.
Expand == INSTANCE Fleet WITH
  Graphs <- {Cycle, Diamond, Nest},
  Logins <- {LogIn("personal", "prompt"), LogIn("personal", "personal")},
  Bound <- {"b"}, Tagged <- {"a", "b", "c"}, Root <- "g",
  Lists <- {<<"a", "g">>, <<"h", "c">>}, By <- "group", Caller <- "exec",
  GROUP_MAX_DEPTH <- 2, Limit <- 1, Timed <- TRUE, MaxEdits <- 1, MaxLocks <- 1,
  rows <- hostRows, sent <- sentTo
\* More hosts than permits, each of which may fail or run out of time.
Crowd == INSTANCE Fleet WITH
  Graphs <- {Plain}, Logins <- {LogIn("key", k) : k \in {"key", "prompt"}},
  Bound <- {"b"}, Tagged <- {"a", "b", "c"}, Root <- "g", Lists <- {}, By <- "group",
  Caller <- "exec", GROUP_MAX_DEPTH <- 2, Limit <- 2, Timed <- TRUE, MaxEdits <- 0,
  MaxLocks <- 1, rows <- hostRows, sent <- sentTo
\* A file laid out on the hosts that carry a tag.
Files == INSTANCE Fleet WITH
  Graphs <- {Plain},
  Logins <- {LogIn("personal", "prompt"), LogIn("personal", "personal")},
  Bound <- {"b"}, Tagged <- {"a", "b", "c"}, Root <- "g", Lists <- {}, By <- "tags",
  Caller <- "put", GROUP_MAX_DEPTH <- 2, Limit <- 0, Timed <- TRUE, MaxEdits <- 1,
  MaxLocks <- 1, rows <- hostRows, sent <- sentTo
\* The command line runs a group on a pool of two threads, or shows what it would
\* run.
Runner == INSTANCE Fleet WITH
  Graphs <- {Plain},
  Logins <- {LogIn("personal", "prompt"), LogIn("personal", "personal")},
  Bound <- {"b"}, Tagged <- {"a", "b", "c"}, Root <- "g",
  Lists <- {<<"a", "g">>, <<"h", "c">>}, By <- "group", Caller <- "cli",
  GROUP_MAX_DEPTH <- 2, Limit <- 2, Timed <- TRUE, MaxEdits <- 1, MaxLocks <- 1,
  rows <- hostRows, sent <- sentTo

ASSUME SceneAssumption ==
  /\ Meaning!BoundsAssumption /\ Bindings!BoundsAssumption
  /\ Claims!BoundsAssumption /\ Pins!HostBookAssumption /\ Linked!HostBookAssumption
  /\ Reused!HostBookAssumption /\ Hops!HostBookAssumption
  /\ Groups!HostBookAssumption /\ Pair!OnboardingAssumption
  /\ Arming!OnboardingAssumption /\ OnboardingAssumption
  /\ Foreign!OnboardingAssumption /\ Expand!FleetAssumption /\ Crowd!FleetAssumption
  /\ Files!FleetAssumption /\ Runner!FleetAssumption

SceneInit ==
  \/ scene = "meaning" /\ Meaning!Init /\ Init /\ NoBook /\ NoFleet
  \/ scene = "bindings" /\ Bindings!Init /\ Init /\ NoBook /\ NoFleet
  \/ scene = "claims" /\ Claims!Init /\ Init /\ NoBook /\ NoFleet
  \/ scene = "pins" /\ Pins!Init /\ NoMove /\ Init /\ NoFleet
  \/ scene = "linked" /\ Linked!Init /\ NoMove /\ Init /\ NoFleet
  \/ scene = "reused" /\ Reused!Init /\ NoMove /\ Init /\ NoFleet
  \/ scene = "hops" /\ Hops!Init /\ NoMove /\ Init /\ NoFleet
  \/ scene = "groups" /\ Groups!Init /\ NoMove /\ Init /\ NoFleet
  \/ scene = "pair" /\ Pair!Init /\ NoMove /\ NoBook /\ NoFleet
  \/ scene = "arming" /\ Arming!Init /\ NoMove /\ NoBook /\ NoFleet
  \/ scene = "recovery" /\ Init /\ NoMove /\ NoBook /\ NoFleet
  \/ scene = "foreign" /\ Foreign!Init /\ NoMove /\ NoBook /\ NoFleet
  \/ scene = "expand" /\ Expand!Init /\ NoMove /\ Init /\ NoBook
  \/ scene = "crowd" /\ Crowd!Init /\ NoMove /\ Init /\ NoBook
  \/ scene = "files" /\ Files!Init /\ NoMove /\ Init /\ NoBook
  \/ scene = "runner" /\ Runner!Init /\ NoMove /\ Init /\ NoBook

SceneNext ==
  \/ scene = "meaning" /\ Meaning!Next /\ UNCHANGED <<scene, onboardVars, bookVars, fleetVars>>
  \/ scene = "bindings" /\ Bindings!Next /\ UNCHANGED <<scene, onboardVars, bookVars, fleetVars>>
  \/ scene = "claims" /\ Claims!Next /\ UNCHANGED <<scene, onboardVars, bookVars, fleetVars>>
  \/ scene = "pins" /\ Pins!Next /\ UNCHANGED <<scene, moveVars, onboardVars, fleetVars>>
  \/ scene = "linked" /\ Linked!Next /\ UNCHANGED <<scene, moveVars, onboardVars, fleetVars>>
  \/ scene = "reused" /\ Reused!Next /\ UNCHANGED <<scene, moveVars, onboardVars, fleetVars>>
  \/ scene = "hops" /\ Hops!Next /\ UNCHANGED <<scene, moveVars, onboardVars, fleetVars>>
  \/ scene = "groups" /\ Groups!Next /\ UNCHANGED <<scene, moveVars, onboardVars, fleetVars>>
  \/ scene = "pair" /\ Pair!Next /\ UNCHANGED <<scene, moveVars, bookVars, fleetVars>>
  \/ scene = "arming" /\ Arming!Next /\ UNCHANGED <<scene, moveVars, bookVars, fleetVars>>
  \/ scene = "recovery" /\ Next /\ UNCHANGED <<scene, moveVars, bookVars, fleetVars>>
  \/ scene = "foreign" /\ Foreign!Next /\ UNCHANGED <<scene, moveVars, bookVars, fleetVars>>
  \/ scene = "expand" /\ Expand!Next /\ UNCHANGED <<scene, moveVars, onboardVars, bookVars>>
  \/ scene = "crowd" /\ Crowd!Next /\ UNCHANGED <<scene, moveVars, onboardVars, bookVars>>
  \/ scene = "files" /\ Files!Next /\ UNCHANGED <<scene, moveVars, onboardVars, bookVars>>
  \/ scene = "runner" /\ Runner!Next /\ UNCHANGED <<scene, moveVars, onboardVars, bookVars>>

SceneSpec == SceneInit /\ [][SceneNext]_sceneVars

-----------------------------------------------------------------------------
(* The properties: each in the scenes that are made for it.                *)

\* The expansion of a group is the hosts under it, each once, over whatever cycles
\* and diamonds the saved groups make; a host is left out only where groups nest
\* beyond the depth limit, and then a group is reported as skipped. A member that is
\* gone is reported.
GroupIsWhole == scene = "expand" => Expand!GroupIsWhole

\* A run of the core that returns has said of every target, and of every member of
\* the group it could not make a target of, what became of it, once; a command line's
\* row is never left at "planned".
EveryHostAnswered ==
  /\ scene = "expand" => Expand!EveryHostAnswered
  /\ scene = "crowd" => Crowd!EveryHostAnswered
  /\ scene = "files" => Files!EveryHostAnswered
  /\ scene = "runner" => Runner!EveryHostAnswered

\* The command goes to a host at most once, only to one that was picked and whose
\* login needs no one to type, and what is reported agrees with what was sent: a
\* refused, skipped or unresolved host was sent nothing.
SentAsSaid ==
  /\ scene = "expand" => Expand!SentAsSaid
  /\ scene = "crowd" => Crowd!SentAsSaid
  /\ scene = "files" => Files!SentAsSaid
  /\ scene = "runner" => Runner!SentAsSaid

\* No more commands run at once than asked for, and a call that returns has given
\* every permit back, whichever way its tasks ended.
WithinLimit ==
  /\ scene = "crowd" => Crowd!WithinLimit
  /\ scene = "expand" => Expand!WithinLimit

\* `unissh run` exits with 0 only when every picked host ran the command with status
\* 0, or would run it.
ExitTells == scene = "runner" => Runner!ExitTells

\* A hop, a Personal-identity binding and a pinned way mean after any number of moves
\* and restores what they meant when they were made: the host they were made for, as
\* long as it is here, and never another one (a name that is another device's stays
\* that device's). References held in a vault this account can only view are not
\* rewritten and may dangle, but never mean another host.
MeaningKept ==
  /\ scene = "meaning" => Meaning!MeaningKept
  /\ scene = "bindings" => Bindings!MeaningKept

\* What the device keeps by vault id (the keys shared with the system agent, a staged
\* rotation's link, the MCP selection) and the account's Personal pointer never name
\* a vault that was moved away.
ListsFollow == scene = "bindings" => Bindings!ListsFollow

\* A recording whose session was open across a move is kept: it is lost only when the
\* vault it belongs to, at its new id, was deleted.
RecordingKept == scene = "bindings" => Bindings!RecordingKept

\* However many attempts are cut short, retried or run side by side, the server holds
\* at most one claimed id without a vault for a space and a source: a retry claims
\* the id of the attempt before it, so retries never fill a space with empty vaults.
OneClaim == scene = "claims" => Claims!OneClaim

\* An identity is used only where the member typed, linked or confirmed that the host
\* points, however the changes of team members come in between (pin_identity keeps a
\* pin that was left behind). Saves from a form the host had changed under are the
\* exception.
LoginsApproved == scene = "pins" => Pins!LoginsApproved

\* A save that says an identity is linked to the host means that a connect matches
\* it.
LinkedMeansReady == scene = "linked" => Linked!LinkedMeansReady

\* A password typed for one host changes nothing another host, a proxy or an identity
\* logs in with (own_password_item).
PasswordsApart == [][scene = "reused" => Reused!PasswordsApartStep]_sceneVars

\* A jump reference names another saved host that logs in with something a hop can
\* use, unless a deletion or a team member's change took it away (check_hops and the
\* dependents).
HopsUsable == scene = "hops" => Hops!HopsUsable

\* A host is in one group at most when no group command is under way, unless one said
\* otherwise.
OneGroup == scene = "groups" => Groups!OneGroup

\* After a move every reference means the host it meant, lists and recordings follow,
\* and a vault is claimed once.
MoveSound ==
  /\ MeaningKept
  /\ ListsFollow
  /\ RecordingKept
  /\ OneClaim

\* Hosts: a personal login goes where its owner approved, what the form shows as
\* linked is ready, hops lead somewhere, a host is in one group and a password item
\* that others use is not changed under them.
HostsSound ==
  /\ [](LoginsApproved /\ LinkedMeansReady /\ HopsUsable /\ OneGroup)
  /\ PasswordsApart

\* One command on many hosts: a group is expanded to the hosts under it, every host
\* is answered for once, the command goes once to the hosts it says and to no other,
\* no more run at once than asked for, and the exit code tells.
FleetSound ==
  /\ GroupIsWhole
  /\ EveryHostAnswered
  /\ SentAsSaid
  /\ WithinLimit
  /\ ExitTells
=============================================================================

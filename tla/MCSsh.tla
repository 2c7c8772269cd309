------------------------------- MODULE MCSsh --------------------------------
(***************************************************************************)
(* SSH: connecting (SshConnect), filling saved passwords into a terminal   *)
(* (PasswordFill), the recordings of sessions (Recordings), and what stays *)
(* open: reconnecting sessions, broadcasts, tunnels and streamed commands  *)
(* (LiveObjects). A behaviour plays one scene.                             *)
(***************************************************************************)
EXTENDS Integers, Sequences, TLC

CONSTANTS c1, c2, jump, host, k1, k2, NoKey, f1, f2, t1, r1, r2

VARIABLES scene,
          pin, open, locks, conn, shown, ever, sent,
          tail, current, lastFill, echo, rejected, gen, nextId, saved, job, timers,
          ui, fed, ended, fillShown, typed, told, kills, inputs,
          core, reg, ses, act, cut, recLocks, exit,
          liveOpen, liveLocks, liveLocker, connsUp, connsMade, objects, liveCall,
          castInput, liveCalls, linkDrops, cli

connectVars == <<pin, open, locks, conn, shown, ever, sent>>
fillVars == <<tail, current, lastFill, echo, rejected, gen, nextId, saved, job,
            timers, ui, fed, ended, fillShown, typed, told, kills, inputs>>
recVars == <<core, reg, ses, act, cut, recLocks, exit>>
liveVars == <<liveOpen, liveLocks, liveLocker, connsUp, connsMade, objects, liveCall,
            castInput, liveCalls, linkDrops, cli>>
vars == <<scene, connectVars, fillVars, recVars, liveVars>>

\* A part that is not played.
Off == "off"
NoConnect ==
  /\ pin = Off /\ open = Off /\ locks = Off /\ conn = Off /\ shown = Off
  /\ ever = Off /\ sent = Off
NoFill ==
  /\ tail = Off /\ current = Off /\ lastFill = Off /\ echo = Off /\ rejected = Off
  /\ gen = Off /\ nextId = Off /\ saved = Off /\ job = Off /\ timers = Off
  /\ ui = Off /\ fed = Off /\ ended = Off /\ fillShown = Off /\ typed = Off
  /\ told = Off /\ kills = Off /\ inputs = Off
NoRec ==
  /\ core = Off /\ reg = Off /\ ses = Off /\ act = Off /\ cut = Off
  /\ recLocks = Off /\ exit = Off
NoLive ==
  /\ liveOpen = Off /\ liveLocks = Off /\ liveLocker = Off /\ connsUp = Off
  /\ connsMade = Off /\ objects = Off /\ liveCall = Off /\ castInput = Off
  /\ liveCalls = Off /\ linkDrops = Off /\ cli = Off

\* Plans of a login: the way, how each host is logged in to, certificate, keys only,
\* automation's policy, questions asked, proxy.
Plan(path, auth, cert, keyOnly, policy, asks) ==
  [path |-> path, auth |-> auth, cert |-> cert, keyOnly |-> keyOnly,
   policy |-> policy, asks |-> asks, proxy |-> "none", creds |-> FALSE]
Through(p, kind, creds) == [p EXCEPT !.proxy = kind, !.creds = creds]

\* Logins of every kind at one host.
LoginPlans ==
  {p \in {Plan(<<host>>, <<how>>, cert, keyOnly, policy, asks) :
            how \in {"key", "password", "system"},
            cert \in BOOLEAN, keyOnly \in BOOLEAN, policy \in BOOLEAN, asks \in BOOLEAN} :
     /\ p.keyOnly => p.auth # <<"password">>
     /\ p.cert => p.auth = <<"key">>}
    \cup {Through(Plan(<<host>>, <<"key">>, FALSE, FALSE, FALSE, FALSE), w[1], w[2]) :
            w \in {<<"http", TRUE>>, <<"socks4", FALSE>>, <<"socks5", TRUE>>, <<"socks5", FALSE>>}}

\* A person's way through a jump host, beside automation that goes to the target.
MixedPlans == {Plan(<<jump, host>>, <<"key", "password">>, FALSE, FALSE, FALSE, FALSE),
               Plan(<<host>>, <<"key">>, FALSE, FALSE, TRUE, FALSE)}

\* Passwords of two characters.
OneSecret == [p |-> <<"a", "b">>]
TwoSecrets == [p |-> <<"a", "b">>, q |-> <<"c", "d">>]

-----------------------------------------------------------------------------
(* The scenes.                                                             *)
\* Logins of every kind at one host, the core being locked and pins imported
\* meanwhile.
Login == INSTANCE SshConnect WITH
  Conns <- {c1}, Hosts <- {host}, Keys <- {k1, k2}, UserOps <- {"forget", "import"},
  MaxRounds <- 2, MaxLocks <- 2, Plans <- LoginPlans
\* Two attempts at a time, through a jump host and for automation.
Way == INSTANCE SshConnect WITH
  Conns <- {c1, c2}, Hosts <- {jump, host}, Keys <- {k1, k2}, UserOps <- {},
  MaxRounds <- 1, MaxLocks <- 0, Plans <- MixedPlans
\* Two attempts at one host, possibly both the first; the user is shown a changed key
\* and may trust it, or forget the host.
Trust == INSTANCE SshConnect WITH
  Conns <- {c1, c2}, Hosts <- {host}, Keys <- {k1, k2},
  UserOps <- {"trust", "forget"}, MaxRounds <- 1, MaxLocks <- 0,
  Plans <- {Plan(<<host>>, <<"key">>, FALSE, FALSE, FALSE, FALSE)}
\* A terminal that echoes a password, in chunks of every cut.
Echo == INSTANCE PasswordFill WITH
  Kinds <- {"sudo", "generic"}, Secrets <- OneSecret, Fillers <- {f1}, Timers <- {t1},
  MaxInputs <- 1,
  Chunks <- {<<"sudo">>, <<"a">>, <<"nl">>, <<"b", "a">>, <<"a", "b">>},
  Inputs <- {"enter"}, HoldMax <- 2, MaxFed <- 4, shown <- fillShown
\* Two fills race for prompts that come and go.
Offers == INSTANCE PasswordFill WITH
  Kinds <- {"sudo", "generic"}, Secrets <- OneSecret, Fillers <- {f1, f2},
  Timers <- {t1}, MaxInputs <- 1,
  Chunks <- {<<"sudo">>, <<"nl">>, <<"nl", "sudo">>, <<"elsewhere">>},
  Inputs <- {"text", "enter", "focus"}, HoldMax <- 2, MaxFed <- 2, shown <- fillShown
\* A password is rejected and asked for again; another one is saved.
Reject == INSTANCE PasswordFill WITH
  Kinds <- {"sudo", "generic"}, Secrets <- TwoSecrets, Fillers <- {f1},
  Timers <- {t1}, MaxInputs <- 1,
  Chunks <- {<<"sudo">>, <<"nl", "sudo">>, <<"nl", "generic">>}, Inputs <- {"enter"},
  HoldMax <- 2, MaxFed <- 5, shown <- fillShown
\* A local shell is written to, closed and locked, its recording may fail to be
\* stored.
Shells == INSTANCE Recordings WITH
  Sessions <- {r1}, Kind <- (r1 :> "local"), Callers <- {c1, c2},
  Chunks <- {"whole", "half"}, Lingers <- BOOLEAN, Timeouts <- FALSE,
  PutFails <- BOOLEAN, RecordingMax <- 2, MaxOut <- 2, MaxLocks <- 2,
  Uses <- {"write", "close", "lock"}, locks <- recLocks
\* Local shells while the app is locked.
Lock == INSTANCE Recordings WITH
  Sessions <- {r1, r2}, Kind <- (r1 :> "local" @@ r2 :> "local"), Callers <- {c1},
  Chunks <- {"whole"}, Lingers <- BOOLEAN, Timeouts <- FALSE, PutFails <- {FALSE},
  RecordingMax <- 2, MaxOut <- 1, MaxLocks <- 2, Uses <- {"lock"}, locks <- recLocks
\* The command line exits while sessions end.
Exit == INSTANCE Recordings WITH
  Sessions <- {r1, r2}, Kind <- (r1 :> "plain" @@ r2 :> "plain"), Callers <- {c1, c2},
  Chunks <- {"whole", "half"}, Lingers <- {FALSE}, Timeouts <- TRUE,
  PutFails <- BOOLEAN, RecordingMax <- 3, MaxOut <- 1, MaxLocks <- 0,
  Uses <- {"exit", "close", "write"}, locks <- recLocks
\* A session that reconnects is written to, reconnected and closed by two commands at
\* a time, its link breaking, while the app is locked.
Again == INSTANCE LiveObjects WITH
  Objects <- {"x"}, Threads <- {"p", "q"}, Width <- 2, Asked <- 0, Script <- <<>>,
  max_retries <- 1, MaxConns <- 4, MaxCalls <- 4, MaxDrops <- 1, MaxLocks <- 1,
  MaxPumps <- 1, MaxOut <- 2, Kind <- [x \in {"x"} |-> "shell"], open <- liveOpen,
  locks <- liveLocks, locker <- liveLocker, up <- connsUp, made <- connsMade,
  obj <- objects, call <- liveCall, input <- castInput, calls <- liveCalls,
  drops <- linkDrops
\* One input for two hosts, one of which may break off.
Cluster == INSTANCE LiveObjects WITH
  Objects <- {"x"}, Threads <- {"p", "q"}, Width <- 2, Asked <- 0, Script <- <<>>,
  max_retries <- 1, MaxConns <- 4, MaxCalls <- 4, MaxDrops <- 1, MaxLocks <- 1,
  MaxPumps <- 1, MaxOut <- 2, Kind <- [x \in {"x"} |-> "cast"], open <- liveOpen,
  locks <- liveLocks, locker <- liveLocker, up <- connsUp, made <- connsMade,
  obj <- objects, call <- liveCall, input <- castInput, calls <- liveCalls,
  drops <- linkDrops
\* A local forward with connections through it.
Tunnel == INSTANCE LiveObjects WITH
  Objects <- {"x"}, Threads <- {"p", "q"}, Width <- 2, Asked <- 0, Script <- <<>>,
  max_retries <- 1, MaxConns <- 4, MaxCalls <- 4, MaxDrops <- 2, MaxLocks <- 1,
  MaxPumps <- 2, MaxOut <- 2, Kind <- [x \in {"x"} |-> "local"], open <- liveOpen,
  locks <- liveLocks, locker <- liveLocker, up <- connsUp, made <- connsMade,
  obj <- objects, call <- liveCall, input <- castInput, calls <- liveCalls,
  drops <- linkDrops
\* A remote forward of a given port.
Backward == INSTANCE LiveObjects WITH
  Objects <- {"x"}, Threads <- {"p", "q"}, Width <- 2, Asked <- 9000, Script <- <<>>,
  max_retries <- 1, MaxConns <- 4, MaxCalls <- 4, MaxDrops <- 2, MaxLocks <- 1,
  MaxPumps <- 2, MaxOut <- 2, Kind <- [x \in {"x"} |-> "remote"], open <- liveOpen,
  locks <- liveLocks, locker <- liveLocker, up <- connsUp, made <- connsMade,
  obj <- objects, call <- liveCall, input <- castInput, calls <- liveCalls,
  drops <- linkDrops
\* A streamed command.
Stream == INSTANCE LiveObjects WITH
  Objects <- {"x"}, Threads <- {"p", "q"}, Width <- 2, Asked <- 0, Script <- <<>>,
  max_retries <- 1, MaxConns <- 4, MaxCalls <- 4, MaxDrops <- 2, MaxLocks <- 1,
  MaxPumps <- 1, MaxOut <- 2, Kind <- [x \in {"x"} |-> "exec"], open <- liveOpen,
  locks <- liveLocks, locker <- liveLocker, up <- connsUp, made <- connsMade,
  obj <- objects, call <- liveCall, input <- castInput, calls <- liveCalls,
  drops <- linkDrops
\* The command line opens a local forward and a remote one, of a port the server
\* chooses.
Cli == INSTANCE LiveObjects WITH
  Objects <- {"x", "y"}, Threads <- {}, Width <- 2, Asked <- 0,
  Script <- <<"x", "y">>, max_retries <- 1, MaxConns <- 4, MaxCalls <- 4,
  MaxDrops <- 2, MaxLocks <- 0, MaxPumps <- 2, MaxOut <- 2,
  Kind <- [x \in {"x", "y"} |-> IF x = "x" THEN "local" ELSE "remote"],
  open <- liveOpen, locks <- liveLocks, locker <- liveLocker, up <- connsUp,
  made <- connsMade, obj <- objects, call <- liveCall, input <- castInput,
  calls <- liveCalls, drops <- linkDrops

ASSUME SceneAssumption ==
  /\ Login!ConnectAssumption /\ Way!ConnectAssumption /\ Trust!ConnectAssumption
  /\ Echo!FillAssumption /\ Offers!FillAssumption /\ Reject!FillAssumption
  /\ Shells!RecordingsAssumption /\ Lock!RecordingsAssumption
  /\ Exit!RecordingsAssumption /\ Again!LiveAssumption /\ Cluster!LiveAssumption
  /\ Tunnel!LiveAssumption /\ Backward!LiveAssumption /\ Stream!LiveAssumption
  /\ Cli!LiveAssumption

Init ==
  \/ scene = "login" /\ Login!Init /\ NoFill /\ NoRec /\ NoLive
  \/ scene = "way" /\ Way!Init /\ NoFill /\ NoRec /\ NoLive
  \/ scene = "trust" /\ Trust!Init /\ NoFill /\ NoRec /\ NoLive
  \/ scene = "echo" /\ Echo!Init /\ NoConnect /\ NoRec /\ NoLive
  \/ scene = "offers" /\ Offers!Init /\ NoConnect /\ NoRec /\ NoLive
  \/ scene = "reject" /\ Reject!Init /\ NoConnect /\ NoRec /\ NoLive
  \/ scene = "shells" /\ Shells!Init /\ NoConnect /\ NoFill /\ NoLive
  \/ scene = "lock" /\ Lock!Init /\ NoConnect /\ NoFill /\ NoLive
  \/ scene = "exit" /\ Exit!Init /\ NoConnect /\ NoFill /\ NoLive
  \/ scene = "again" /\ Again!Init /\ NoConnect /\ NoFill /\ NoRec
  \/ scene = "cluster" /\ Cluster!Init /\ NoConnect /\ NoFill /\ NoRec
  \/ scene = "tunnel" /\ Tunnel!Init /\ NoConnect /\ NoFill /\ NoRec
  \/ scene = "backward" /\ Backward!Init /\ NoConnect /\ NoFill /\ NoRec
  \/ scene = "stream" /\ Stream!Init /\ NoConnect /\ NoFill /\ NoRec
  \/ scene = "cli" /\ Cli!Init /\ NoConnect /\ NoFill /\ NoRec

Next ==
  \/ scene = "login" /\ Login!Next /\ UNCHANGED <<scene, fillVars, recVars, liveVars>>
  \/ scene = "way" /\ Way!Next /\ UNCHANGED <<scene, fillVars, recVars, liveVars>>
  \/ scene = "trust" /\ Trust!Next /\ UNCHANGED <<scene, fillVars, recVars, liveVars>>
  \/ scene = "echo" /\ Echo!Next /\ UNCHANGED <<scene, connectVars, recVars, liveVars>>
  \/ scene = "offers" /\ Offers!Next /\ UNCHANGED <<scene, connectVars, recVars, liveVars>>
  \/ scene = "reject" /\ Reject!Next /\ UNCHANGED <<scene, connectVars, recVars, liveVars>>
  \/ scene = "shells" /\ Shells!Next /\ UNCHANGED <<scene, connectVars, fillVars, liveVars>>
  \/ scene = "lock" /\ Lock!Next /\ UNCHANGED <<scene, connectVars, fillVars, liveVars>>
  \/ scene = "exit" /\ Exit!Next /\ UNCHANGED <<scene, connectVars, fillVars, liveVars>>
  \/ scene = "again" /\ Again!Next /\ UNCHANGED <<scene, connectVars, fillVars, recVars>>
  \/ scene = "cluster" /\ Cluster!Next /\ UNCHANGED <<scene, connectVars, fillVars, recVars>>
  \/ scene = "tunnel" /\ Tunnel!Next /\ UNCHANGED <<scene, connectVars, fillVars, recVars>>
  \/ scene = "backward" /\ Backward!Next /\ UNCHANGED <<scene, connectVars, fillVars, recVars>>
  \/ scene = "stream" /\ Stream!Next /\ UNCHANGED <<scene, connectVars, fillVars, recVars>>
  \/ scene = "cli" /\ Cli!Next /\ UNCHANGED <<scene, connectVars, fillVars, recVars>>

Spec == Init /\ [][Next]_vars

Symmetry == Permutations({k1, k2})

-----------------------------------------------------------------------------
(* The properties: each in the scenes that are made for it.                *)

\* However writes, reconnects and closes of a session interleave over a breaking
\* link, one connection of it is up at most (ReconnectingSession: reconnect_lock).
OneConnection == scene = "again" => Again!OneConnection

\* Nothing is left behind: a connection that is up belongs to an object in a table or
\* with a command, to a command that has just made it, or to tunnelled connections
\* that are still open although their tunnel was dropped.
NothingLeftBehind ==
  /\ scene = "again" => Again!NothingLeftBehind
  /\ scene = "cluster" => Cluster!NothingLeftBehind
  /\ scene = "tunnel" => Tunnel!NothingLeftBehind
  /\ scene = "backward" => Backward!NothingLeftBehind
  /\ scene = "stream" => Stream!NothingLeftBehind

\* What is gone listens no more, and once a lock is through and the commands that ran
\* are done, nothing is up but what was opened while it came and what a dropped
\* tunnel still carries.
LockLeavesOnlyLate ==
  /\ scene = "again" => Again!LockLeavesOnlyLate
  /\ scene = "cluster" => Cluster!LockLeavesOnlyLate
  /\ scene = "tunnel" => Tunnel!LockLeavesOnlyLate
  /\ scene = "backward" => Backward!LockLeavesOnlyLate
  /\ scene = "stream" => Stream!LockLeavesOnlyLate

\* Once remote_forward has returned, whatever reaches the server's port is delivered,
\* whether the port was asked for or chosen by the server.
RemoteCarries ==
  /\ scene = "backward" => Backward!RemoteCarries
  /\ scene = "cli" => Cli!RemoteCarries

\* wait_exit answers true only when the exit was delivered, and that after all
\* output.
ExitAfterOutput == scene = "stream" => Stream!ExitAfterOutput

\* All hosts of a broadcast that are up got the same input in the same order, and one
\* that broke off got the beginning of it, whatever commands write at the same time.
SameInput == scene = "cluster" => Cluster!SameInput

\* When the command line has closed after a failure or Ctrl-C, no tunnel of it is up.
RunClosesAll == scene = "cli" => Cli!RunClosesAll

\* A session has one connection at most, nothing that was closed, dropped or locked
\* away stays up beyond what it still carries, a remote forward delivers, an exit is
\* told after all output, and the hosts of a broadcast get the same input.
LiveSound ==
  /\ OneConnection
  /\ NothingLeftBehind
  /\ LockLeavesOnlyLate
  /\ RemoteCarries
  /\ ExitAfterOutput
  /\ SameInput
  /\ RunClosesAll

\* A login about one key tells the truth: refused means that every form of the key
\* was offered and none was taken; accepted means one was taken.
KeyVerdicts ==
  /\ scene = "login" => Login!KeyVerdicts
  /\ scene = "way" => Way!KeyVerdicts

\* A login about one key leads to no question and no password at the target; the
\* stored password answers no second round and no field that is shown; a SOCKS5 proxy
\* gets its credentials only when it asks for them.
PasswordKept == scene = "login" => Login!PasswordKept

\* Nothing is signed while the core is locked, nor for automation whose grant a lock
\* has ended, although the login began before.
SignedWhileOpen == [][scene = "login" => Login!SignedWhileOpenStep]_vars

\* Passwords, signatures and answers only go to a server that proved a key which is
\* or was the pin of its host, on every host of the way, whatever happens to the pins
\* and to other attempts meanwhile.
SecretsToPinned == scene = "way" => Way!SecretsToPinned

\* What automation sends goes to hosts somebody pinned before: its own attempts never
\* make the pin they rely on. (The first pin of a host by an attempt of automation
\* would be one.)
AutomationNeverPins == [][scene = "way" => Way!AutomationNeverPinsStep]_vars

\* A pin that every attempt under way has seen is replaced by another key only
\* through the user: a key it was shown and confirmed, or an imported file; and no
\* attempt can undo that, until the pin is forgotten. What may replace a pin silently
\* is the key of an attempt that had found no pin before the first one was written
\* (client.rs: the pin is looked up in establish_tcp and written by pin_tofu).
PinOnlyByConsent == [][scene = "trust" => Trust!PinOnlyByConsentStep]_vars

\* Output is handed on in the order it came, none of it twice and none of it lost,
\* whatever was held back, flushed by a timer, by a fill or by the close.
OutputInOrder == scene = "echo" => Echo!OutputInOrder

\* While the mask is armed the password is not on the screen: what came since the
\* fill, or since the last time held output was let go, does not spell it.
EchoMasked == scene = "echo" => Echo!EchoMasked

\* One prompt is answered at most once, however many fills name it.
TypedOnce == scene = "offers" => Offers!TypedOnce

\* When nothing is under way, an offer on the screen is the live one.
UiShowsLive == scene = "offers" => Offers!UiShowsLive

\* A password that was reported rejected is not typed by a fill that began after.
RejectedNotTyped == [][scene = "reject" => Reject!RejectedNotTypedStep]_vars

\* A recording that was kept and not cut off at the limit holds everything the view
\* was shown up to the close, a half character at the end included (RecordingSink).
RecordingWhole ==
  /\ scene = "shells" => Shells!RecordingWhole
  /\ scene = "exit" => Exit!RecordingWhole

\* A remote shell is shown and recorded to its last word, whichever way it ends: what
\* came before the close is not left in the channel (open_shell's biased select). A
\* local one too, unless something keeps its pty open past the drain timeout.
NothingLeftUnread == scene = "shells" => Shells!NothingLeftUnread

\* The recordings of the local shells the lock ended are in the vault before it is
\* locked (close is synchronous and the write inline).
LocalSurvivesLock == scene = "lock" => Lock!LocalSurvivesLock

\* A command line that was told its recordings are written has lost none.
ExitAfterSaved == scene = "exit" => Exit!ExitAfterSaved

\* Passwords, keys and signatures go only to the host whose key was pinned or
\* presented unchanged, in the order the code promises, and no signature is made once
\* the core is locked.
CredentialsGuarded ==
  /\ [](KeyVerdicts /\ PasswordKept /\ SecretsToPinned)
  /\ SignedWhileOpen

\* A pin that every attempt under way has seen changes only through the user who was
\* shown the key; of attempts that had seen none the last one to finish its handshake
\* decides; automation never pins.
PinsByConsent ==
  /\ PinOnlyByConsent
  /\ AutomationNeverPins

\* The password is typed once per offer and not after it was rejected; its echo is
\* not shown, and all other output comes out in order.
FillSound ==
  /\ [](OutputInOrder /\ EchoMasked /\ TypedOnce /\ UiShowsLive)
  /\ RejectedNotTyped

\* What a session printed is in its recording when it is stored, whoever closes it,
\* locks the app or exits the command line.
SessionsKept ==
  /\ RecordingWhole
  /\ NothingLeftUnread
  /\ LocalSurvivesLock
  /\ ExitAfterSaved
=============================================================================

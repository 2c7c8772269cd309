---------------------------- MODULE LiveObjects ----------------------------
(***************************************************************************)
(* What stays open between two commands of the desktop (state.rs:          *)
(* AppState): sessions that reconnect by themselves (ReconnectingSession), *)
(* one input for several hosts (BroadcastSession), tunnels (SshTunnel over *)
(* ForwardGuard and remote_forward) and streamed commands (ExecHandle).    *)
(* A command of the desktop runs on a thread of its own and clones the     *)
(* handle out of the table; the object is dropped with its last clone, and *)
(* a lock clears the tables.  The command line opens tunnels in a row.     *)
(* How a login goes is in SshConnect; here it ends well or not.            *)
(***************************************************************************)
EXTENDS Naturals, Sequences, FiniteSets

CONSTANTS Objects,      \* the objects that may be opened
          Kind,         \* of an object: "shell", "cast", "local", "remote" or "exec"
          Threads,      \* the commands that run at the same time
          Width,        \* hosts of a broadcast
          Asked,        \* port a remote forward asks for, 0 for any
          Script,       \* the tunnels the command line opens in a row
          max_retries, MaxConns, MaxCalls, MaxDrops, MaxLocks, MaxPumps, MaxOut

LiveKinds == {"shell", "cast", "local", "remote", "exec"}
LiveAssumption ==
  /\ Kind \in [Objects -> LiveKinds] /\ Width \in Nat \ {0} /\ Asked \in Nat
  /\ Script \in Seq(Objects) /\ \A i \in 1 .. Len(Script) : Kind[Script[i]] \in {"local", "remote"}
  /\ {max_retries, MaxConns, MaxCalls, MaxDrops, MaxLocks, MaxPumps, MaxOut} \subseteq Nat

VARIABLES open,      \* whether the core is unlocked
          locks,     \* locks so far
          locker,    \* tables the running lock has yet to clear, 0 when none runs
          up,        \* the connections that are up
          made,      \* connections made so far
          obj,       \* each object
          call,      \* each running command
          input,     \* what each connection of a broadcast was sent
          calls, drops,
          cli        \* the command line: how far it is

vars == <<open, locks, locker, up, made, obj, call, input, calls, drops, cli>>
lockVars == <<open, locks, locker>>
bounds == <<calls, drops>>

Nobody == "nobody"
Cli == "cli"
Callers == Threads \cup {Cli}
\* cur: the connections the object owns; on: its listener, the server's listener or its
\* reader runs; keys: the ports a remote forward is registered under; mutex: who holds
\* reconnect_lock, or the list of a broadcast.
NoObj == [st |-> "none", listed |-> FALSE, late |-> FALSE, cur |-> {}, on |-> FALSE, keys |-> {},
          pumps |-> 0, mutex |-> Nobody, sent |-> 0, shown |-> 0, over |-> FALSE, told |-> FALSE, exited |-> FALSE]
Idle == [pc |-> "idle", op |-> "none", obj |-> Nobody, conn |-> 0, tries |-> 0, at |-> 0, left |-> {}]

Init ==
  /\ open = TRUE /\ locks = 0 /\ locker = 0 /\ up = {} /\ made = 0
  /\ obj = [x \in Objects |-> NoObj] /\ call = [t \in Callers |-> Idle]
  /\ input = [c \in 1 .. MaxConns |-> <<>>] /\ calls = 0 /\ drops = 0
  /\ cli = [pc |-> IF Script = <<>> THEN "off" ELSE "open", n |-> 0]

-----------------------------------------------------------------------------
(* Clones and drops.                                                       *)

\* Threads that have a clone of the object, other than t.
Others(x, t) == {u \in Callers \ {t} : call[u].obj = x}

\* What is left of an object by its Drop: a tunnel stops listening, a streamed command's
\* reader is aborted, clients are given back.
Dropped(r) == [r EXCEPT !.st = "gone", !.cur = {}, !.on = FALSE]
\* Connections that end with it.  A tunnelled connection has its own clone of the handle,
\* and keeps the connection of a tunnel that is dropped without close().
EndsWith(r) == IF r.pumps > 0 THEN {} ELSE r.cur
\* The connection stays with the object for its pumps.
Orphaned(r) == IF r.pumps > 0 THEN [Dropped(r) EXCEPT !.cur = r.cur] ELSE Dropped(r)

\* t gives its clone back; r is what it leaves of the object.
Returns(t, x, r) ==
  LET last == ~r.listed /\ Others(x, t) = {} IN
  /\ obj' = [obj EXCEPT ![x] = IF last THEN Orphaned(r) ELSE r]
  /\ up' = IF last THEN up \ EndsWith(r) ELSE up
  /\ call' = [call EXCEPT ![t] = Idle]

Calls(t, x, op, pc) ==
  /\ t \in Threads /\ call[t] = Idle /\ obj[x].listed /\ calls < MaxCalls /\ calls' = calls + 1
  /\ call' = [call EXCEPT ![t] = [Idle EXCEPT !.op = op, !.obj = x, !.pc = pc]]

-----------------------------------------------------------------------------
(* Opening.                                                                *)

LocksDone == IF locker = 0 THEN locks ELSE locks - 1

\* session_open_reconnecting, broadcast_open, tunnel_open_*, exec_stream_open.
Open(t, x) ==
  /\ call[t] = Idle /\ obj[x].st = "none"
  /\ \/ t \in Threads /\ calls < MaxCalls /\ calls' = calls + 1
     \/ t = Cli /\ cli.pc = "open" /\ cli.n < Len(Script) /\ x = Script[cli.n + 1] /\ UNCHANGED calls
  /\ obj' = [obj EXCEPT ![x].st = "opening"]
  /\ call' = [call EXCEPT ![t] = [Idle EXCEPT !.op = "open", !.obj = x, !.pc = "resolve", !.at = LocksDone]]
  /\ UNCHANGED <<lockVars, up, made, input, drops, cli>>

\* connect_with_options: credentials come out of the core under its lock, which is not
\* held while the network is used.
Resolve(t) ==
  /\ call[t].pc = "resolve" /\ open
  /\ call' = [call EXCEPT ![t].pc = "dial"]
  /\ UNCHANGED <<lockVars, up, made, obj, input, bounds, cli>>
Dial(t) ==
  /\ call[t].pc = "dial" /\ made < MaxConns
  /\ made' = made + 1 /\ up' = up \cup {made + 1}
  /\ call' = [call EXCEPT ![t].pc = "setup", ![t].conn = made + 1]
  /\ UNCHANGED <<lockVars, obj, input, bounds, cli>>

\* The hosts of a broadcast are connected one after the other; one that fails is left out.
MoreHosts(t) == Kind[call[t].obj] = "cast" /\ call[t].tries + 1 < Width
NextHost(t) == [call[t] EXCEPT !.pc = "resolve", !.tries = @ + 1, !.conn = 0]

\* The call fails: an opening leaves nothing, a write or reconnect gives its lock and its
\* clone back.  A failed open_each closes what it has opened.
GivesUp(t) ==
  LET x == call[t].obj IN
  /\ IF call[t].op = "open"
     THEN /\ obj' = [obj EXCEPT ![x] = [NoObj EXCEPT !.st = "gone"]]
          /\ up' = up \ {call[t].conn} /\ call' = [call EXCEPT ![t] = Idle]
     ELSE LET r == [obj[x] EXCEPT !.mutex = Nobody]
              last == ~r.listed /\ Others(x, t) = {} IN
          /\ obj' = [obj EXCEPT ![x] = IF last THEN Orphaned(r) ELSE r]
          /\ up' = (up \ {call[t].conn}) \ (IF last THEN EndsWith(r) ELSE {})
          /\ call' = [call EXCEPT ![t] = Idle]
  /\ cli' = IF t = Cli THEN [cli EXCEPT !.pc = "fail"] ELSE cli

\* connect_once fails: locked, unreachable, refused, or the server has no shell for us.
\* connect_with_retry tries again, unless the host key is not the pinned one.
Fails(t, mismatch) ==
  /\ \/ call[t].pc = "resolve" /\ ~open /\ ~mismatch
     \/ call[t].pc = "dial"
     \/ call[t].pc = "setup" /\ ~mismatch
     \/ call[t].pc = "register" /\ Asked = 0 /\ ~mismatch
  /\ LET x == call[t].obj IN
     IF Kind[x] = "cast"
     THEN /\ call' = [call EXCEPT ![t] = IF MoreHosts(t) THEN NextHost(t) ELSE [@ EXCEPT !.pc = "insert", !.conn = 0]]
          /\ up' = up \ {call[t].conn} /\ UNCHANGED <<obj, cli>>
     ELSE IF Kind[x] = "shell" /\ ~mismatch /\ call[t].tries < max_retries
     THEN /\ call' = [call EXCEPT ![t].pc = "resolve", ![t].tries = @ + 1, ![t].conn = 0]
          /\ up' = up \ {call[t].conn} /\ UNCHANGED <<obj, cli>>
     ELSE GivesUp(t)
  /\ UNCHANGED <<lockVars, made, input, bounds>>

\* The shell, the listener or the command is there: the object owns the connection.
\* current is replaced, and what it held is dropped.
Installed(x, c) == IF Kind[x] = "cast" THEN obj[x].cur \cup {c} ELSE {c}
Setup(t) ==
  /\ call[t].pc = "setup" /\ Kind[call[t].obj] # "remote" /\ call[t].conn \in up
  /\ LET x == call[t].obj
         c == call[t].conn
         r == [obj[x] EXCEPT !.cur = Installed(x, c), !.on = TRUE] IN
     /\ up' = up \ (obj[x].cur \ r.cur)
     /\ IF call[t].op = "open"
        THEN /\ obj' = [obj EXCEPT ![x] = r]
             /\ call' = [call EXCEPT ![t] = IF MoreHosts(t) THEN NextHost(t)
                                            ELSE [@ EXCEPT !.pc = "insert", !.conn = 0]]
        ELSE /\ obj' = [obj EXCEPT ![x] = [r EXCEPT !.mutex = Nobody]]
             /\ call' = [call EXCEPT ![t].pc = "again", ![t].conn = 0]
  /\ UNCHANGED <<lockVars, made, input, bounds, cli>>

\* remote_forward: the server listens from its reply on, which names a port only when any
\* would do; delivery is registered after the reply.
Free == 1024
ServerPort == IF Asked = 0 THEN Free ELSE Asked
Reply == IF Asked = 0 THEN Free ELSE 0
Ask(t) ==
  /\ call[t].pc = "setup" /\ Kind[call[t].obj] = "remote" /\ call[t].conn \in up
  /\ obj' = [obj EXCEPT ![call[t].obj].on = TRUE, ![call[t].obj].cur = {call[t].conn}]
  /\ call' = [call EXCEPT ![t].pc = "register"]
  /\ UNCHANGED <<lockVars, up, made, input, bounds, cli>>
Assigned == IF Asked = 0 THEN Reply ELSE Asked
Register(t) ==
  /\ call[t].pc = "register"
  /\ obj' = [obj EXCEPT ![call[t].obj].keys = @ \cup {Assigned}]
  /\ call' = [call EXCEPT ![t].pc = "insert", ![t].conn = 0]
  /\ UNCHANGED <<lockVars, up, made, input, bounds, cli>>

\* The command puts the object into its table and is done.  Nothing tells it of a lock
\* that cleared the table meanwhile.
Insert(t) ==
  /\ call[t].pc = "insert"
  /\ LET x == call[t].obj IN
     obj' = [obj EXCEPT ![x].st = "live", ![x].listed = TRUE, ![x].late = call[t].at # locks]
  /\ call' = [call EXCEPT ![t] = Idle]
  /\ cli' = IF t = Cli THEN [pc |-> IF cli.n + 1 = Len(Script) THEN "wait" ELSE "open", n |-> cli.n + 1] ELSE cli
  /\ UNCHANGED <<lockVars, up, made, input, bounds>>

-----------------------------------------------------------------------------
(* Sessions that reconnect.                                                *)

Alive(x) == obj[x].cur \cap up # {}

\* write: try, and on an error reconnect and try again.
Write(t, x) ==
  /\ Kind[x] = "shell" /\ Calls(t, x, "write", "try")
  /\ UNCHANGED <<lockVars, up, made, obj, input, drops, cli>>
try_write(t) ==
  /\ call[t].pc \in {"try", "again"}
  /\ LET x == call[t].obj IN
     IF Alive(x) \/ call[t].pc = "again" THEN Returns(t, x, obj[x])
     ELSE call' = [call EXCEPT ![t].pc = "lock"] /\ UNCHANGED <<obj, up>>
  /\ UNCHANGED <<lockVars, made, input, bounds, cli>>
reconnect(t, x) ==
  /\ Kind[x] = "shell" /\ Calls(t, x, "reconnect", "lock")
  /\ UNCHANGED <<lockVars, up, made, obj, input, drops, cli>>
\* reconnect_lock, then teardown of what is there.
MutTeardown(t) ==
  /\ call[t].pc = "lock"
  /\ LET x == call[t].obj IN
     /\ up' = up \ obj[x].cur /\ obj' = [obj EXCEPT ![x].mutex = t, ![x].cur = {}]
     /\ call' = [call EXCEPT ![t].pc = "resolve"]
  /\ UNCHANGED <<lockVars, made, input, bounds, cli>>
Teardown(t) ==
  /\ call[t].pc = "lock" /\ obj[call[t].obj].mutex = Nobody
  /\ LET x == call[t].obj IN
     /\ up' = up \ obj[x].cur /\ obj' = [obj EXCEPT ![x].mutex = t, ![x].cur = {}]
     /\ call' = [call EXCEPT ![t].pc = "resolve"]
  /\ UNCHANGED <<lockVars, made, input, bounds, cli>>

-----------------------------------------------------------------------------
(* Closing.                                                                *)

\* session_close, broadcast_close, tunnel_close, exec_stream_close: out of the table first.
Close(t, x) ==
  /\ call[t] = Idle /\ obj[x].listed
  /\ \/ t \in Threads /\ calls < MaxCalls /\ calls' = calls + 1
     \/ t = Cli /\ cli.pc \in {"fail", "stop"} /\ UNCHANGED calls
  /\ obj' = [obj EXCEPT ![x].listed = FALSE]
  /\ call' = [call EXCEPT ![t] = [Idle EXCEPT !.op = "close", !.obj = x,
                                  !.pc = IF Kind[x] \in {"local", "remote"} THEN "guard" ELSE "close"]]
  /\ UNCHANGED <<lockVars, up, made, input, drops, cli>>
\* The listener of a tunnel goes first, then its connection, and with it what it carries.
DropGuard(t) ==
  /\ call[t].pc = "guard"
  /\ obj' = IF Kind[call[t].obj] = "local" THEN [obj EXCEPT ![call[t].obj].on = FALSE] ELSE obj
  /\ call' = [call EXCEPT ![t].pc = "close"]
  /\ UNCHANGED <<lockVars, up, made, input, bounds, cli>>
\* A broadcast waits for the list; a session does not wait for a reconnect.
CloseNow(t) ==
  /\ call[t].pc = "close"
  /\ LET x == call[t].obj
         r == [obj[x] EXCEPT !.cur = {}, !.pumps = 0, !.on = Kind[x] = "shell" /\ @]
         last == Others(x, t) = {} IN
     /\ Kind[x] = "cast" => obj[x].mutex = Nobody
     /\ up' = up \ obj[x].cur
     /\ obj' = [obj EXCEPT ![x] = IF last THEN Dropped(r) ELSE r]
     /\ call' = [call EXCEPT ![t] = Idle]
  /\ UNCHANGED <<lockVars, made, input, bounds, cli>>

-----------------------------------------------------------------------------
(* Broadcasts.                                                             *)

\* write_all: the list is held while every host is sent the input; a dead one is passed.
write_all(t, x) ==
  /\ Kind[x] = "cast" /\ Calls(t, x, "cast", "list")
  /\ UNCHANGED <<lockVars, up, made, obj, input, drops, cli>>
TakeList(t) ==
  /\ call[t].pc = "list" /\ obj[call[t].obj].mutex = Nobody
  /\ obj' = [obj EXCEPT ![call[t].obj].mutex = t]
  /\ call' = [call EXCEPT ![t].pc = "fan", ![t].left = obj[call[t].obj].cur, ![t].at = calls]
  /\ UNCHANGED <<lockVars, up, made, input, bounds, cli>>
Fan(t) ==
  /\ call[t].pc = "fan" /\ call[t].left # {}
  /\ LET c == CHOOSE m \in call[t].left : \A n \in call[t].left : m <= n IN
     /\ input' = IF c \in up THEN [input EXCEPT ![c] = Append(@, t)] ELSE input
     /\ call' = [call EXCEPT ![t].left = @ \ {c}]
  /\ UNCHANGED <<lockVars, up, made, obj, bounds, cli>>
FanDone(t) ==
  /\ call[t].pc = "fan" /\ call[t].left = {}
  /\ Returns(t, call[t].obj, [obj[call[t].obj] EXCEPT !.mutex = Nobody])
  /\ UNCHANGED <<lockVars, made, input, bounds, cli>>

-----------------------------------------------------------------------------
(* What runs beside the commands.                                          *)

\* The accept loop of local_forward and dynamic_forward, and the handler of channels the
\* server forwards: served when delivery is registered for the port the server names.
Served(x) == Kind[x] = "local" \/ ServerPort \in obj[x].keys
Accept(x) ==
  /\ Kind[x] \in {"local", "remote"} /\ obj[x].on /\ Alive(x) /\ obj[x].pumps < MaxPumps /\ Served(x)
  /\ obj' = [obj EXCEPT ![x].pumps = @ + 1]
  /\ UNCHANGED <<lockVars, up, made, call, input, bounds, cli>>
\* One tunnelled connection ends; the last one of a dropped tunnel ends its connection.
PumpEnds(x) ==
  /\ obj[x].pumps > 0
  /\ LET alone == obj[x].st = "gone" /\ obj[x].pumps = 1 IN
     /\ obj' = [obj EXCEPT ![x].pumps = @ - 1, ![x].cur = IF alone THEN {} ELSE @]
     /\ up' = IF alone THEN up \ obj[x].cur ELSE up
  /\ UNCHANGED <<lockVars, made, call, input, bounds, cli>>

\* The streamed command: output, its end, the reader, and on_exit before the flag.
Output(x) ==
  /\ Kind[x] = "exec" /\ obj[x].on /\ Alive(x) /\ ~obj[x].over
  /\ \/ obj[x].sent < MaxOut /\ obj' = [obj EXCEPT ![x].sent = @ + 1]
     \/ obj' = [obj EXCEPT ![x].over = TRUE]
  /\ UNCHANGED <<lockVars, up, made, call, input, bounds, cli>>
Shows(x) ==
  /\ Kind[x] = "exec" /\ obj[x].on /\ obj[x].shown < obj[x].sent
  /\ obj' = [obj EXCEPT ![x].shown = @ + 1]
  /\ UNCHANGED <<lockVars, up, made, call, input, bounds, cli>>
\* The channel has ended, by the command or with the connection.
on_exit(x) ==
  /\ Kind[x] = "exec" /\ obj[x].on /\ ~obj[x].told /\ obj[x].shown = obj[x].sent
  /\ obj[x].over \/ ~Alive(x)
  /\ obj' = [obj EXCEPT ![x].told = TRUE]
  /\ UNCHANGED <<lockVars, up, made, call, input, bounds, cli>>
Exited(x) ==
  /\ Kind[x] = "exec" /\ obj[x].on /\ ~obj[x].exited /\ obj[x].told
  /\ obj' = [obj EXCEPT ![x].exited = TRUE]
  /\ UNCHANGED <<lockVars, up, made, call, input, bounds, cli>>

\* A connection breaks, and whatever it carries with it.
LinkDrops(c) ==
  /\ c \in up /\ drops < MaxDrops /\ drops' = drops + 1 /\ up' = up \ {c}
  /\ obj' = [x \in Objects |-> IF c \in obj[x].cur THEN [obj[x] EXCEPT !.pumps = 0] ELSE obj[x]]
  /\ UNCHANGED <<lockVars, made, call, input, calls, cli>>

-----------------------------------------------------------------------------
(* Locks, and the command line.                                            *)

Tables == <<{"exec"}, {"cast"}, {"local", "remote"}, {"shell"}>>
\* lock: the tables are cleared one after the other, then the core is locked.
Lock ==
  /\ open /\ locker = 0 /\ locks < MaxLocks
  /\ locks' = locks + 1 /\ locker' = Len(Tables)
  /\ UNCHANGED <<open, up, made, obj, call, input, bounds, cli>>
Clear ==
  /\ locker > 0
  /\ LET out == {x \in Objects : Kind[x] \in Tables[locker] /\ obj[x].listed}
         last == {x \in out : Others(x, Nobody) = {}}
         off(x) == [obj[x] EXCEPT !.listed = FALSE] IN
     /\ obj' = [x \in Objects |-> IF x \in last THEN Orphaned(off(x)) ELSE IF x \in out THEN off(x) ELSE obj[x]]
     /\ up' = up \ UNION {EndsWith(obj[x]) : x \in last}
  /\ locker' = locker - 1 /\ open' = (locker # 1)
  /\ UNCHANGED <<locks, made, call, input, bounds, cli>>
Unlock ==
  /\ ~open /\ open' = TRUE
  /\ UNCHANGED <<locks, locker, up, made, obj, call, input, bounds, cli>>

\* run: everything listens and Ctrl-C is awaited, or nobody reads what is printed.
CliStops ==
  /\ call[Cli] = Idle /\ (cli.pc = "wait" \/ (cli.pc = "open" /\ cli.n > 0))
  /\ cli' = [cli EXCEPT !.pc = "stop"]
  /\ UNCHANGED <<lockVars, up, made, obj, call, input, bounds>>
CliEnds ==
  /\ call[Cli] = Idle /\ cli.pc \in {"fail", "stop"} /\ ~\E i \in 1 .. cli.n : obj[Script[i]].listed
  /\ cli' = [cli EXCEPT !.pc = "done"]
  /\ UNCHANGED <<lockVars, up, made, obj, call, input, bounds>>

-----------------------------------------------------------------------------
Opens(t) ==
  \/ \E x \in Objects : Open(t, x)
  \/ Resolve(t) \/ Dial(t) \/ (\E m \in BOOLEAN : Fails(t, m)) \/ Setup(t) \/ Ask(t) \/ Register(t) \/ Insert(t)
Uses(t) ==
  \/ \E x \in Objects : Write(t, x) \/ reconnect(t, x) \/ write_all(t, x)
  \/ try_write(t) \/ Teardown(t) \/ TakeList(t) \/ Fan(t) \/ FanDone(t)
Closes(t) == (\E x \in Objects : Close(t, x)) \/ DropGuard(t) \/ CloseNow(t)
Runs(x) == Accept(x) \/ PumpEnds(x) \/ Output(x) \/ Shows(x) \/ on_exit(x) \/ Exited(x)

Next ==
  \/ \E t \in Callers : Opens(t) \/ Closes(t)
  \/ \E t \in Threads : Uses(t)
  \/ \E x \in Objects : Runs(x)
  \/ \E c \in up : LinkDrops(c)
  \/ Lock \/ Clear \/ Unlock \/ CliStops \/ CliEnds

Spec == Init /\ [][Next]_vars

-----------------------------------------------------------------------------
TypeOK ==
  /\ open \in BOOLEAN /\ locker \in 0 .. Len(Tables) /\ up \subseteq 1 .. made /\ made <= MaxConns
  /\ \A x \in Objects : obj[x].cur \subseteq 1 .. made /\ obj[x].mutex \in Threads \cup {Nobody}
  /\ \A t \in Callers : call[t].obj \in Objects \cup {Nobody}

\* However writes, reconnects and closes of a session interleave over a breaking link, one
\* connection of it is up at most (ReconnectingSession: reconnect_lock).
OneConnection ==
  \A x \in Objects : Kind[x] = "shell" =>
    Cardinality((obj[x].cur \cup {call[t].conn : t \in {u \in Callers : call[u].obj = x}}) \cap up) <= 1

\* Nothing is left behind: a connection that is up belongs to an object in a table or with
\* a command, to a command that has just made it, or to tunnelled connections that are
\* still open although their tunnel was dropped.
NothingLeftBehind ==
  \A c \in up :
    \/ \E t \in Callers : call[t].conn = c
    \/ \E x \in Objects : c \in obj[x].cur /\ (obj[x].listed \/ Others(x, Nobody) # {} \/ obj[x].pumps > 0)

\* What is gone listens no more, and once a lock is through and the commands that ran are
\* done, nothing is up but what was opened while it came and what a dropped tunnel
\* still carries.
LockLeavesOnlyLate ==
  /\ \A x \in Objects : obj[x].st = "gone" => ~obj[x].on
  /\ ~open /\ (\A t \in Callers : call[t] = Idle) =>
       \A c \in up : \E x \in Objects :
         c \in obj[x].cur /\ (obj[x].late \/ (obj[x].st = "gone" /\ obj[x].pumps > 0))

\* Once remote_forward has returned, whatever reaches the server's port is delivered,
\* whether the port was asked for or chosen by the server.
RemoteCarries ==
  \A x \in Objects : Kind[x] = "remote" /\ obj[x].st = "live" /\ obj[x].on => Served(x)

\* wait_exit answers true only when the exit was delivered, and that after all output.
ExitAfterOutput == \A x \in Objects : obj[x].exited => obj[x].told /\ obj[x].shown = obj[x].sent

\* All hosts of a broadcast that are up got the same input in the same order, and one that
\* broke off got the beginning of it, whatever commands write at the same time.
SameInput ==
  \A x \in Objects : Kind[x] = "cast" =>
    /\ \A c, d \in obj[x].cur : LET short == IF Len(input[c]) < Len(input[d]) THEN input[c] ELSE input[d]
                                    long == IF short = input[c] THEN input[d] ELSE input[c]
                                IN  short = SubSeq(long, 1, Len(short))
    /\ obj[x].mutex = Nobody => \A c, d \in obj[x].cur \cap up : input[c] = input[d]

\* When the command line has closed after a failure or Ctrl-C, no tunnel of it is up.
RunClosesAll == cli.pc = "done" => up = {}
=============================================================================

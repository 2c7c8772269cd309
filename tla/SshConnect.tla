----------------------------- MODULE SshConnect -----------------------------
(***************************************************************************)
(* Opening an SSH connection: jump hosts, proxies, host keys pinned on     *)
(* first use, and authentication (ssh-transport/src: client, proxy; the    *)
(* connect path of ffi/src/lib.rs).                                        *)
(*                                                                         *)
(* Connections run beside each other, beside the lock and beside what the  *)
(* user does with pins.  The pin of a host is read before the handshake    *)
(* and written after it, each under a lock that is given back in between.  *)
(* What the far side does is free: which key it presents, what it answers  *)
(* to a login and how often it asks.                                       *)
(***************************************************************************)
EXTENDS Naturals, Sequences, FiniteSets

CONSTANTS
  Conns,       \* connection attempts
  Hosts,       \* host and port
  Keys,        \* host keys a server may present
  NoKey,       \* no pin; also "a host certificate", which is never accepted
  Plans,       \* what an attempt is asked to do, see PlanType
  UserOps,     \* what the user does beside connecting
  MaxRounds,   \* MAX_KBD_INTERACTIVE_ROUNDS
  MaxLocks     \* bound: how often the core is locked

\* A plan: the hosts on the way and the target last, how to log in at each of
\* them, whether the target's key has a certificate, whether the login is about
\* that key alone, whether automation asks for it, whether somebody can be asked;
\* the proxy the first host is reached through and whether it has credentials.
PlanType == [path : Seq(Hosts), auth : Seq({"key", "password", "system"}),
             cert : BOOLEAN, keyOnly : BOOLEAN, policy : BOOLEAN, asks : BOOLEAN,
             proxy : {"none", "http", "socks4", "socks5"}, creds : BOOLEAN]

\* What every instance of this module satisfies.
ConnectAssumption ==
  /\ NoKey \notin Keys
  /\ MaxRounds \in Nat \ {0}
  /\ MaxLocks \in Nat
  /\ \A p \in Plans : /\ p \in PlanType
                      /\ Len(p.path) > 0 /\ Len(p.auth) = Len(p.path)
                      /\ p.proxy = "socks4" => ~p.creds
                      /\ p.keyOnly => p.auth[Len(p.auth)] # "password"

VARIABLES
  pin,      \* host -> pinned key (known_hosts)
  open,     \* the core is unlocked
  locks,    \* how often it was locked: the epoch automation holds a grant for
  conn,     \* attempt -> its state
  shown,    \* history: <<host, key>>, mismatches the user was shown
  ever,     \* history: <<host, key>>, all pins there ever were
  sent      \* history: what the last step sent to which host under which key

vars == <<pin, open, locks, conn, shown, ever, sent>>

Fresh == [pc |-> "idle"]

\* Where attempt c is: the host it talks to and how it logs in there.
Here(c) == conn[c].plan.path[conn[c].i]
Auth(c) == conn[c].plan.auth[conn[c].i]
AtTarget(c) == conn[c].i = Len(conn[c].plan.path)
KeyOnly(c) == conn[c].plan.keyOnly /\ AtTarget(c)
HasCert(c) == conn[c].plan.cert /\ AtTarget(c)
Busy(c) == conn[c].pc \notin {"idle", "up", "failed"}

Step(c, pc) == conn' = [conn EXCEPT ![c].pc = pc]
Fail(c, why) == conn' = [conn EXCEPT ![c].pc = "failed", ![c].why = why]

\* Something secret goes to the server the attempt talks to.
SendsOn(c, what, fields) ==
  sent' = {[what |-> what, host |-> Here(c), key |-> conn[c].obs, by |-> c,
             round |-> conn[c].round, fields |-> fields]}
Quiet == sent' = {}
Sends(c, what) == SendsOn(c, what, "none")

\* An automation attempt is stopped as soon as the grant's lock epoch is over.
Revoked(c) == conn[c].plan.policy /\ locks # conn[c].epoch

\* State behind the lock: every lookup, pin and signature takes the lock, finds
\* the core unlocked and, for automation, the grant still good.
Reachable(c) == open /\ ~Revoked(c)

----------------------------------------------------------------------------
\* connect_with_options resolves the plan under the lock, which must be open.
Begin(c, p) ==
  /\ conn[c].pc = "idle"
  /\ open
  /\ conn' = [conn EXCEPT ![c] =
       [pc |-> "dial", plan |-> p, i |-> 1, epoch |-> locks, exp |-> NoKey,
        obs |-> NoKey, round |-> 0, offered |-> {}, took |-> {}, why |-> "none"]]
  /\ UNCHANGED <<pin, open, locks, shown, ever>> /\ Quiet

\* The first host is reached through the proxy, if there is one.
Proxied(c) == conn[c].i = 1 /\ conn[c].plan.proxy # "none"

\* The way to the next host: a socket or a channel through the host before.  It
\* may fail, or not come up in time.
Dial(c) ==
  /\ conn[c].pc = "dial" /\ ~Proxied(c)
  /\ Step(c, "lookup") \/ Fail(c, "unreachable")
  /\ UNCHANGED <<pin, open, locks, shown, ever>> /\ Quiet

\* proxy::dial, at any point: the proxy is gone, refuses or takes too long.
ProxyFails(c) ==
  /\ conn[c].pc \in {"dial", "greet", "through"} /\ Proxied(c)
  /\ Fail(c, "proxy")
  /\ UNCHANGED <<pin, open, locks, shown, ever>> /\ Quiet

\* http_handshake: one request, which carries the credentials, and one answer.
ProxyHttp(c) ==
  /\ conn[c].pc = "dial" /\ Proxied(c) /\ conn[c].plan.proxy = "http"
  /\ Step(c, "lookup")
  /\ IF conn[c].plan.creds THEN Sends(c, "proxy credentials") ELSE Quiet
  /\ UNCHANGED <<pin, open, locks, shown, ever>>

\* socks4_handshake: one request and one answer; there is no password.
ProxySocks4(c) ==
  /\ conn[c].pc = "dial" /\ Proxied(c) /\ conn[c].plan.proxy = "socks4"
  /\ Step(c, "lookup")
  /\ UNCHANGED <<pin, open, locks, shown, ever>> /\ Quiet

\* socks5_handshake: the greeting.
ProxySocks5(c) ==
  /\ conn[c].pc = "dial" /\ Proxied(c) /\ conn[c].plan.proxy = "socks5"
  /\ Step(c, "greet")
  /\ UNCHANGED <<pin, open, locks, shown, ever>> /\ Quiet

\* The proxy asked for a password, and there is one to give.
ProxyAsked(c, method) == method = "password" /\ conn[c].plan.creds

\* socks5_handshake, the method the proxy chose.
ProxyChoice(c, method) ==
  /\ conn[c].pc = "greet"
  /\ \/ method = "none" /\ Step(c, "through")
     \/ method = "password" /\ (IF conn[c].plan.creds THEN Step(c, "through") ELSE Fail(c, "proxy"))
     \/ method = "other" /\ Fail(c, "proxy")
  /\ IF ProxyAsked(c, method) THEN SendsOn(c, "proxy credentials", method) ELSE Quiet
  /\ UNCHANGED <<pin, open, locks, shown, ever>>

\* socks5_handshake, the proxy's answer to the connect request.
ProxyThrough(c) ==
  /\ conn[c].pc = "through"
  /\ Step(c, "lookup")
  /\ UNCHANGED <<pin, open, locks, shown, ever>> /\ Quiet

\* Automation only talks to hosts with a pin.
require_pinned(c) == conn[c].plan.policy => pin[Here(c)] # NoKey

\* establish_tcp and establish_stream: the pin is read once, before the handshake.
Lookup(c) ==
  /\ conn[c].pc = "lookup"
  /\ IF ~Reachable(c) THEN Fail(c, "locked")
     ELSE IF ~require_pinned(c) THEN Fail(c, "untrusted")
     ELSE conn' = [conn EXCEPT ![c].pc = "kex", ![c].exp = pin[Here(c)], ![c].obs = NoKey]
  /\ UNCHANGED <<pin, open, locks, shown, ever>> /\ Quiet

\* A mutant: any plain key is good enough.
MutAnyKey(expected, k) == k # NoKey

\* A host certificate is refused, a pinned host must present its key, and any
\* key will do for a host without one.
check_server_key(expected, k) == k # NoKey /\ expected \in {NoKey, k}

\* The handshake: the server presents a key.  A refused key is a mismatch when
\* there was a pin, and the user is shown the key that was presented.
KeyExchange(c, k) ==
  /\ conn[c].pc = "kex"
  /\ IF check_server_key(conn[c].exp, k)
       THEN /\ conn' = [conn EXCEPT ![c].pc = "pin", ![c].obs = k]
            /\ UNCHANGED shown
       ELSE /\ Fail(c, IF k # NoKey THEN "mismatch" ELSE "handshake")
            /\ shown' = IF k # NoKey THEN shown \cup {<<Here(c), k>>} ELSE shown
  /\ UNCHANGED <<pin, open, locks, ever>> /\ Quiet

\* pin_tofu: a host that had no pin gets the key that was presented.
PinTofu(c) ==
  /\ conn[c].pc = "pin"
  /\ IF conn[c].exp # NoKey
       THEN Step(c, "auth") /\ UNCHANGED <<pin, ever>>
       ELSE IF Reachable(c)
              THEN /\ pin' = [pin EXCEPT ![Here(c)] = conn[c].obs]
                   /\ ever' = ever \cup {<<Here(c), conn[c].obs>>}
                   /\ Step(c, "auth")
              ELSE Fail(c, "locked") /\ UNCHANGED <<pin, ever>>
  /\ UNCHANGED <<open, locks, shown>> /\ Quiet

----------------------------------------------------------------------------
\* Authentication.

\* The server's answer to one attempt: it lets the user in, or it does not; then
\* it may have taken the attempt as one of several, and may offer to ask.
Replies == [ok : {TRUE}, part : {FALSE}, kbd : {FALSE}]
           \cup [ok : {FALSE}, part : BOOLEAN, kbd : BOOLEAN]

\* On to the next host on the way, or the connection is up.
Passed(c, r) ==
  IF AtTarget(c)
    THEN [r EXCEPT !.pc = "up"]
    ELSE [r EXCEPT !.pc = "dial", !.i = @ + 1, !.round = 0, !.offered = {}, !.took = {}]

should_escalate(c, a) == ~KeyOnly(c) /\ a.kbd

\* The plain key is offered after a refused certificate, when the login is to
\* learn whether the key is accepted.
offers_plain_key_too(c, a) == KeyOnly(c) /\ ~a.ok /\ ~a.part

auth_failure(c, a) ==
  IF ~KeyOnly(c) THEN "auth failed"
  ELSE IF a.part THEN "key accepted, more required" ELSE "key refused"

\* What follows a final answer of the first method.
Concluded(c, r, a) ==
  IF a.ok THEN Passed(c, r)
  ELSE IF should_escalate(c, a) THEN [r EXCEPT !.pc = "kbd"]
  ELSE [r EXCEPT !.pc = "failed", !.why = auth_failure(c, a)]

\* The agent signs with a loaded key, under the lock.
Signable(c) == Reachable(c)

\* authenticate_agent_key: the key, as certificate if it has one.  The key must
\* be in the agent, and the signature is made there, under the lock.
KeyLogin(c, a) ==
  /\ conn[c].pc = "auth" /\ Auth(c) = "key"
  /\ IF ~Signable(c)
       THEN Fail(c, "locked") /\ Quiet
       ELSE LET form == IF HasCert(c) THEN "cert" ELSE "plain"
                r == [conn[c] EXCEPT !.offered = @ \cup {form},
                                     !.took = IF a.ok \/ a.part THEN @ \cup {form} ELSE @]
            IN  /\ Sends(c, "signature")
                /\ conn' = [conn EXCEPT ![c] =
                     IF HasCert(c) /\ offers_plain_key_too(c, a)
                       THEN [r EXCEPT !.pc = "plain"] ELSE Concluded(c, r, a)]
  /\ UNCHANGED <<pin, open, locks, shown, ever>>

\* authenticate_agent_key, the plain key after the certificate.
PlainLogin(c, a) ==
  /\ conn[c].pc = "plain"
  /\ IF ~Signable(c)
       THEN Fail(c, "locked") /\ Quiet
       ELSE LET r == [conn[c] EXCEPT !.offered = @ \cup {"plain"},
                                     !.took = IF a.ok \/ a.part THEN @ \cup {"plain"} ELSE @]
            IN  Sends(c, "signature") /\ conn' = [conn EXCEPT ![c] = Concluded(c, r, a)]
  /\ UNCHANGED <<pin, open, locks, shown, ever>>

\* A key of the system's agent: there must be an agent that is not this very
\* program, and it must know the key.  The core's lock has no part in it.
SystemLogin(c, a) ==
  /\ conn[c].pc = "auth" /\ Auth(c) = "system"
  /\ \/ /\ \E why \in {"own agent", "no agent", "key missing"} : Fail(c, why)
        /\ Quiet
     \/ LET r == [conn[c] EXCEPT !.offered = @ \cup {"plain"},
                                 !.took = IF a.ok \/ a.part THEN @ \cup {"plain"} ELSE @]
        IN  Sends(c, "system signature") /\ conn' = [conn EXCEPT ![c] = Concluded(c, r, a)]
  /\ UNCHANGED <<pin, open, locks, shown, ever>>

\* The password was read when the plan was resolved; it is sent as it is.
PasswordLogin(c, a) ==
  /\ conn[c].pc = "auth" /\ Auth(c) = "password"
  /\ Sends(c, "password")
  /\ conn' = [conn EXCEPT ![c] = Concluded(c, @, a)]
  /\ UNCHANGED <<pin, open, locks, shown, ever>>

\* The fields of one question: none, hidden ones only, or one that is shown.
Fields == {"none", "hidden", "visible"}

\* The stored password answers hidden fields, in the first round only.
answer_from_password(c, fields) ==
  Auth(c) = "password" /\ conn[c].round = 0 /\ fields = "hidden"

\* keyboard_interactive, one question: answered from the password, by the user,
\* or not at all.
Question(c, fields) ==
  /\ conn[c].pc = "kbd" /\ conn[c].round < MaxRounds
  /\ IF answer_from_password(c, fields)
       THEN /\ SendsOn(c, "password answer", fields)
            /\ conn' = [conn EXCEPT ![c].round = @ + 1]
       ELSE IF conn[c].plan.asks
              THEN \/ Fail(c, "cancelled") /\ Quiet
                   \/ /\ Sends(c, "user's answer")
                      /\ conn' = [conn EXCEPT ![c].round = @ + 1]
              ELSE Fail(c, "nobody to ask") /\ Quiet
  /\ UNCHANGED <<pin, open, locks, shown, ever>>

\* keyboard_interactive, the server's verdict, or the end of the rounds.
Verdict(c) ==
  /\ conn[c].pc = "kbd"
  /\ \/ conn[c].round < MaxRounds /\ conn' = [conn EXCEPT ![c] = Passed(c, @)]
     \/ Fail(c, "auth failed")
  /\ UNCHANGED <<pin, open, locks, shown, ever>> /\ Quiet

\* A deadline passes: HANDSHAKE_TIMEOUT, or INTERACTIVE_DEADLINE while a person
\* may be answering.  It covers the handshake and the whole of the login.
Deadline(c) ==
  /\ conn[c].pc \in {"kex", "auth", "plain", "kbd"}
  /\ Fail(c, "timed out")
  /\ UNCHANGED <<pin, open, locks, shown, ever>> /\ Quiet

\* An automation attempt is dropped where it stands when its grant is over.
Invalidated(c) ==
  /\ Busy(c) /\ Revoked(c)
  /\ Fail(c, "locked")
  /\ UNCHANGED <<pin, open, locks, shown, ever>> /\ Quiet

\* The result is taken and the slot is free for another attempt.
Forgotten(c) ==
  /\ conn[c].pc \in {"up", "failed"}
  /\ conn' = [conn EXCEPT ![c] = Fresh]
  /\ UNCHANGED <<pin, open, locks, shown, ever>> /\ Quiet

----------------------------------------------------------------------------
\* The user beside it.

Lock ==
  /\ open /\ locks < MaxLocks
  /\ open' = FALSE
  /\ locks' = locks + 1
  /\ UNCHANGED <<pin, conn, shown, ever>> /\ Quiet

Unlock ==
  /\ ~open
  /\ open' = TRUE
  /\ UNCHANGED <<pin, locks, conn, shown, ever>> /\ Quiet

\* A mutant: whatever key the probe sees is pinned.
MutPinProbed(confirmed, got) == TRUE

\* The probe's key must be the one whose fingerprint the user confirmed.
Confirmed(confirmed, got) == confirmed = got

\* trust_host_key: after a mismatch the user confirms the key that was shown; a
\* probe fetches the key again and pins it.
Trust(h, shownKey, got) ==
  /\ "trust" \in UserOps /\ open
  /\ <<h, shownKey>> \in shown
  /\ Confirmed(shownKey, got)
  /\ pin' = [pin EXCEPT ![h] = got]
  /\ ever' = ever \cup {<<h, got>>}
  /\ UNCHANGED <<open, locks, conn, shown>> /\ Quiet

\* forget_host.
Forget(h) ==
  /\ "forget" \in UserOps /\ open
  /\ pin[h] # NoKey
  /\ pin' = [pin EXCEPT ![h] = NoKey]
  /\ UNCHANGED <<open, locks, conn, shown, ever>> /\ Quiet

\* import_known_hosts: a line of a known_hosts file becomes the pin.
Import(h, k) ==
  /\ "import" \in UserOps /\ open
  /\ pin' = [pin EXCEPT ![h] = k]
  /\ ever' = ever \cup {<<h, k>>}
  /\ UNCHANGED <<open, locks, conn, shown>> /\ Quiet

----------------------------------------------------------------------------

Init ==
  /\ pin = [h \in Hosts |-> NoKey]
  /\ open = TRUE
  /\ locks = 0
  /\ conn = [c \in Conns |-> Fresh]
  /\ shown = {}
  /\ ever = {}
  /\ sent = {}

Login(c) == \E a \in Replies : \/ KeyLogin(c, a) \/ PlainLogin(c, a)
                               \/ SystemLogin(c, a) \/ PasswordLogin(c, a)
Attempt(c) ==
  \/ Dial(c) \/ ProxyFails(c) \/ ProxyHttp(c) \/ ProxySocks4(c)
  \/ ProxySocks5(c) \/ ProxyThrough(c)
  \/ \E method \in {"none", "password", "other"} : ProxyChoice(c, method)
  \/ Lookup(c)
  \/ \E k \in Keys \cup {NoKey} : KeyExchange(c, k)
  \/ PinTofu(c)
  \/ Login(c)
  \/ \E fields \in Fields : Question(c, fields)
  \/ Verdict(c)
  \/ Deadline(c)
  \/ Invalidated(c)

Next ==
  \/ \E c \in Conns : \/ \E p \in Plans : Begin(c, p)
                      \/ Attempt(c)
                      \/ Forgotten(c)
  \/ Lock \/ Unlock
  \/ \E h \in Hosts : \/ \E k, got \in Keys : Trust(h, k, got)
                      \/ Forget(h)
                      \/ \E k \in Keys : Import(h, k)

Spec == Init /\ [][Next]_vars

----------------------------------------------------------------------------
\* Properties.

PCs == {"idle", "dial", "greet", "through", "lookup", "kex", "pin", "auth", "plain", "kbd", "up", "failed"}

\* Type invariant.
TypeOK ==
  /\ pin \in [Hosts -> Keys \cup {NoKey}]
  /\ open \in BOOLEAN
  /\ locks \in 0..MaxLocks
  /\ \A c \in Conns :
       /\ conn[c].pc \in PCs
       /\ conn[c].pc # "idle" =>
            /\ conn[c].plan \in Plans
            /\ conn[c].i \in 1..Len(conn[c].plan.path)
            /\ conn[c].exp \in Keys \cup {NoKey} /\ conn[c].obs \in Keys \cup {NoKey}
            /\ conn[c].round \in 0..MaxRounds
            /\ conn[c].took \subseteq conn[c].offered

\* Passwords, signatures and answers only go to a server that proved a key which
\* is or was the pin of its host, on every host of the way, whatever happens to
\* the pins and to other attempts meanwhile.
SecretsToPinned ==
  \A s \in sent : s.what # "proxy credentials" => <<s.host, s.key>> \in ever

\* What AutomationNeverPins says of one step.
AutomationNeverPinsStep ==
  \A c \in Conns : (conn[c].pc = "pin" /\ conn'[c].pc = "auth" /\ conn[c].plan.policy)
     => pin' = pin

\* What automation sends goes to hosts somebody pinned before: its own attempts
\* never make the pin they rely on.  (The first pin of a host by an attempt of
\* automation would be one.)
AutomationNeverPins == [][AutomationNeverPinsStep]_vars

\* An attempt that found host h without a pin and may still write one.
FirstUse(c, h) == conn[c].pc \in {"kex", "pin"} /\ Here(c) = h /\ conn[c].exp = NoKey

\* Host h has a pin and every attempt under way has seen it.
Settled(h) == pin[h] # NoKey /\ ~\E c \in Conns : FirstUse(c, h)

\* What PinOnlyByConsent says of one step.
PinOnlyByConsentStep ==
  \A h \in Hosts : pin[h] # NoKey /\ pin'[h] # NoKey =>
    /\ Settled(h) => Settled(h)'
    /\ pin'[h] # pin[h] => \/ <<h, pin'[h]>> \in shown \/ "import" \in UserOps
                           \/ ~Settled(h) /\ \E c \in Conns : FirstUse(c, h) /\ conn[c].obs = pin'[h]

\* A pin that every attempt under way has seen is replaced by another key only through
\* the user: a key it was shown and confirmed, or an imported file; and no attempt can
\* undo that, until the pin is forgotten.  What may replace a pin silently is the key of
\* an attempt that had found no pin before the first one was written (client.rs: the pin
\* is looked up in establish_tcp and written by pin_tofu).
PinOnlyByConsent == [][PinOnlyByConsentStep]_vars

\* A login about one key tells the truth: refused means that every form of the
\* key was offered and none was taken; accepted means one was taken.
KeyVerdicts ==
  \A c \in Conns :
    /\ conn[c].pc = "failed" /\ conn[c].why = "key refused"
         => /\ conn[c].took = {}
            /\ conn[c].offered = IF conn[c].plan.cert /\ Auth(c) = "key"
                                   THEN {"cert", "plain"} ELSE {"plain"}
    /\ conn[c].pc = "failed" /\ conn[c].why = "key accepted, more required"
         => conn[c].took # {}

\* A login about one key leads to no question and no password at the target; the
\* stored password answers no second round and no field that is shown; a SOCKS5
\* proxy gets its credentials only when it asks for them.
PasswordKept ==
  /\ \A c \in Conns : conn[c].pc = "kbd" => ~KeyOnly(c)
  /\ \A s \in sent : s.what = "password answer" => s.round = 0 /\ s.fields = "hidden"
  /\ \A s \in sent : (s.what = "proxy credentials" /\ conn[s.by].plan.proxy = "socks5")
                       => s.fields = "password"

\* What SignedWhileOpen says of one step.
SignedWhileOpenStep ==
  \A s \in sent' :
    s.what = "signature" => open /\ ~Revoked(s.by)

\* Nothing is signed while the core is locked, nor for automation whose grant a
\* lock has ended, although the login began before.
SignedWhileOpen == [][SignedWhileOpenStep]_vars

=============================================================================

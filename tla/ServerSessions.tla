--------------------------- MODULE ServerSessions ---------------------------
(***************************************************************************)
(* Accounts, devices, login challenges and sessions of the server          *)
(* (modules/identity.rs, modules/admin.rs, http/extract.rs and the         *)
(* repositories below them).  Every SQL statement is a step of its own, so *)
(* that requests of several clients and the janitor interleave between     *)
(* the reads a handler decides on and the write it makes.                  *)
(*                                                                         *)
(* A token pair is a number: the access and the refresh token of one pair  *)
(* are issued, replaced and looked up together.  A time of Never is NULL.  *)
(***************************************************************************)
EXTENDS Naturals, FiniteSets, TLC

CONSTANTS Accounts,    \* accounts of the instance
          ClaimOwner,  \* the account that claimed the instance
          Owners,      \* accounts with is_owner at the start
          Devices,     \* ids a device row can get
          FirstDevice, \* the device each account registered with
          Handlers,    \* requests in progress at the same time
          Ops,         \* the kinds of request clients send
          MaxSend,     \* bound on requests
          MaxPair,     \* bound on token pairs
          MaxNonce,    \* bound on challenges
          MaxNow,      \* bound on the clock
          AccessTTL, RefreshTTL, NonceTTL, PendingTTL, WebTTL, Retention

Never == 0

\* What every instance of this module satisfies.
SessionsAssumption ==
  /\ ClaimOwner \in Owners
  /\ Owners \subseteq Accounts
  /\ FirstDevice \in [Accounts -> Devices]
  /\ {MaxSend, MaxPair, MaxNonce, MaxNow, AccessTTL, RefreshTTL, NonceTTL,
      PendingTTL, WebTTL, Retention} \subseteq Nat
  /\ MaxNow # 0 /\ Ops # {} /\ Never \notin Devices

VARIABLES now,
          acct,    \* accounts: status and is_owner
          dev,     \* devices, by id
          sess,    \* sessions, by id (the number of their first pair)
          nonce,   \* auth_nonces, by number
          pairs,   \* token pairs issued so far
          h,       \* what each handler is doing
          sent,    \* requests so far
          known,   \* history: device ids used so far (ids are random)
          gone,    \* history: devices whose revocation was answered
          minted,  \* history: the session each challenge was redeemed for
          rotated  \* history: exchanges of a refresh token, with the new pair

vars == <<now, acct, dev, sess, nonce, pairs, h, sent, known, gone, minted, rotated>>

Pairs == 1..MaxPair
Nonces == 1..MaxNonce

DeviceRow == [acct : Accounts, status : {"active", "pending", "revoked"}, expires : Nat]
SessionRow == [acct : Accounts, dev : Devices, pair : Pairs, accessEnd : Nat,
               refreshEnd : Nat, revoked : BOOLEAN]
NonceRow == [dev : Devices, expires : Nat, used : BOOLEAN]

(* The arguments and the progress of a request; "idle" has none.           *)
Request == [op : Ops, sid : Pairs \cup {0}, pair : Pairs \cup {0}, nonce : Nonces \cup {0},
            target : Devices \cup Accounts \cup {Never}]
Handling == [pc : {"idle", "session", "device", "acting", "read", "consume", "activate",
                   "mint", "reuse", "check", "rotate", "pending", "mark", "cut"},
             req : Request, dev : Devices \cup {Never}, acct : Accounts \cup {Never},
             late : BOOLEAN]

NoRequest == [op |-> CHOOSE o \in Ops : TRUE, sid |-> 0, pair |-> 0, nonce |-> 0,
              target |-> Never]
Idle == [pc |-> "idle", req |-> NoRequest, dev |-> Never, acct |-> Never, late |-> FALSE]

Put(f, k, v) == [x \in DOMAIN f \cup {k} |-> IF x = k THEN v ELSE f[x]]
Without(f, S) == [x \in DOMAIN f \ S |-> f[x]]
Expired(e) == e # Never /\ e <= now

Init ==
  /\ now = 1
  /\ acct = [a \in Accounts |-> [status |-> "active", owner |-> a \in Owners]]
  /\ dev = [d \in {FirstDevice[a] : a \in Accounts} |->
              [acct |-> CHOOSE a \in Accounts : FirstDevice[a] = d,
               status |-> "active", expires |-> Never]]
  /\ sess = <<>>
  /\ nonce = <<>>
  /\ pairs = 0
  /\ h = [p \in Handlers |-> Idle]
  /\ sent = 0
  /\ known = DOMAIN dev
  /\ gone = {} /\ minted = {} /\ rotated = {}

(***************************************************************************)
(* A request arrives                                                       *)
(***************************************************************************)
(* late records that the device had been revoked before this request came. *)
Arrive(p, req, pc, d) ==
  /\ h[p].pc = "idle"
  /\ sent < MaxSend
  /\ sent' = sent + 1
  /\ h' = [h EXCEPT ![p] = [Idle EXCEPT !.pc = pc, !.req = req, !.dev = d,
                                         !.late = d \in gone]]
  /\ UNCHANGED <<now, acct, dev, sess, nonce, pairs, known, gone, minted, rotated>>

(* auth_challenge: a nonce for any known device, active or not.            *)
Challenge(d) ==
  /\ "verify" \in Ops
  /\ d \in DOMAIN dev
  /\ Cardinality(DOMAIN nonce) < MaxNonce
  /\ nonce' = Put(nonce, Cardinality(DOMAIN nonce) + 1,
                  [dev |-> d, expires |-> now + NonceTTL, used |-> FALSE])
  /\ UNCHANGED <<now, acct, dev, sess, pairs, h, sent, known, gone, minted, rotated>>

(* Any challenge may be answered again: a retry, or a copy of the request. *)
SendVerify(p, n) ==
  /\ "verify" \in Ops
  /\ n \in DOMAIN nonce
  /\ Arrive(p, [NoRequest EXCEPT !.op = "verify", !.nonce = n], "read", nonce[n].dev)

(* Any pair a session ever had may be presented, also an old one.          *)
SendRefresh(p, s, k) ==
  /\ "refresh" \in Ops
  /\ s \in DOMAIN sess /\ k \in s..pairs
  /\ \/ k = sess[s].pair
     \/ \E r \in rotated : r[1] = s /\ r[2] = k
  /\ Arrive(p, [NoRequest EXCEPT !.op = "refresh", !.sid = s, !.pair = k], "read",
            sess[s].dev)

(* A request with a bearer token: what it asks for is its op and target.   *)
SendBearer(p, s, op, t) ==
  /\ op \in Ops \ {"verify", "refresh", "enroll"}
  /\ s \in DOMAIN sess
  /\ Arrive(p, [NoRequest EXCEPT !.op = op, !.sid = s, !.pair = sess[s].pair, !.target = t],
            "session", sess[s].dev)

Step(p, pc) == h' = [h EXCEPT ![p].pc = pc]
Done(p) == h' = [h EXCEPT ![p] = Idle]

(***************************************************************************)
(* auth_verify                                                             *)
(***************************************************************************)
(* The device and its account are read and checked; the row is kept.       *)
VerifyRead(p) ==
  /\ h[p].pc = "read" /\ h[p].req.op = "verify"
  /\ LET d == h[p].dev IN
     IF /\ d \in DOMAIN dev
        /\ dev[d].status \in {"active", "pending"}
        /\ ~Expired(dev[d].expires)
        /\ acct[dev[d].acct].status = "active"
     THEN h' = [h EXCEPT ![p].pc = "consume", ![p].acct = dev[d].acct,
                         ![p].req.target = IF dev[d].status = "pending" THEN d ELSE Never]
     ELSE Done(p)
  /\ UNCHANGED <<now, acct, dev, sess, nonce, pairs, sent, known, gone, minted, rotated>>

CanConsume(n) == n \in DOMAIN nonce /\ ~nonce[n].used /\ nonce[n].expires > now

ConsumeNonce(p) ==
  /\ h[p].pc = "consume"
  /\ IF CanConsume(h[p].req.nonce)
     THEN /\ nonce' = [nonce EXCEPT ![h[p].req.nonce].used = TRUE]
          /\ Step(p, IF h[p].req.target = Never THEN "mint" ELSE "activate")
     ELSE /\ Done(p)
          /\ UNCHANGED nonce
  /\ UNCHANGED <<now, acct, dev, sess, pairs, sent, known, gone, minted, rotated>>

(* The row may have changed since it was read: another login activated it, *)
(* it was revoked, or the janitor removed it.                              *)
CanActivate(d) ==
  /\ d \in DOMAIN dev
  /\ \/ dev[d].status = "active"
     \/ dev[d].status = "pending" /\ dev[d].expires > now

ActivatePending(p) ==
  /\ h[p].pc = "activate"
  /\ IF CanActivate(h[p].dev)
     THEN /\ dev' = [dev EXCEPT ![h[p].dev].status = "active",
                                ![h[p].dev].expires = Never]
          /\ Step(p, "mint")
     ELSE /\ Done(p)
          /\ UNCHANGED dev
  /\ UNCHANGED <<now, acct, sess, nonce, pairs, sent, known, gone, minted, rotated>>

(* The foreign key refuses a session of a device that was removed.         *)
CanInsertSession(d) == d \in DOMAIN dev

(* mint_session, after the login was accepted.                             *)
VerifyMint(p) ==
  /\ h[p].pc = "mint"
  /\ pairs < MaxPair
  /\ IF CanInsertSession(h[p].dev)
     THEN /\ pairs' = pairs + 1
          /\ sess' = Put(sess, pairs + 1,
                 [acct |-> h[p].acct, dev |-> h[p].dev, pair |-> pairs + 1,
                  accessEnd |-> now + AccessTTL, refreshEnd |-> now + RefreshTTL,
                  revoked |-> FALSE])
          /\ minted' = minted \cup {<<h[p].req.nonce, pairs + 1>>}
     ELSE UNCHANGED <<pairs, sess, minted>>
  /\ Done(p)
  /\ UNCHANGED <<now, acct, dev, nonce, sent, known, gone, rotated>>

(***************************************************************************)
(* session_refresh                                                         *)
(***************************************************************************)
RefreshRead(p) ==
  /\ h[p].pc = "read" /\ h[p].req.op = "refresh"
  /\ LET s == h[p].req.sid IN
     IF s \in DOMAIN sess /\ ~sess[s].revoked
     THEN Step(p, CASE sess[s].pair # h[p].req.pair -> "reuse"
                    [] sess[s].pair = h[p].req.pair /\ sess[s].refreshEnd > now -> "check"
                    [] OTHER -> "idle")
     ELSE Done(p)
  /\ UNCHANGED <<now, acct, dev, sess, nonce, pairs, sent, known, gone, minted, rotated>>

Revoked(rows, S) == [s \in DOMAIN rows |->
                      IF s \in S THEN [rows[s] EXCEPT !.revoked = TRUE] ELSE rows[s]]

(* A pair that is not the current one was presented: the session ends.     *)
RefreshReuse(p) ==
  /\ h[p].pc = "reuse"
  /\ sess' = Revoked(sess, {h[p].req.sid})
  /\ Done(p)
  /\ UNCHANGED <<now, acct, dev, nonce, pairs, sent, known, gone, minted, rotated>>

(* The device's status is not looked at here: its expiry is what tells.    *)
RefreshCheck(p) ==
  /\ h[p].pc = "check"
  /\ LET d == h[p].dev IN
     IF /\ d \in DOMAIN dev
        /\ acct[dev[d].acct].status = "active"
        /\ ~Expired(dev[d].expires)
     THEN Step(p, "rotate")
     ELSE Done(p)
  /\ UNCHANGED <<now, acct, dev, sess, nonce, pairs, sent, known, gone, minted, rotated>>

MutantCanRotateAny(s, k) == s \in DOMAIN sess /\ ~sess[s].revoked
CanRotate(s, k) == s \in DOMAIN sess /\ sess[s].pair = k /\ ~sess[s].revoked

RotateSession(p) ==
  /\ h[p].pc = "rotate"
  /\ pairs < MaxPair
  /\ LET s == h[p].req.sid IN
     IF CanRotate(s, h[p].req.pair)
     THEN /\ pairs' = pairs + 1
          /\ sess' = [sess EXCEPT ![s].pair = pairs + 1, ![s].accessEnd = now + AccessTTL,
                                  ![s].refreshEnd = now + RefreshTTL]
          /\ rotated' = rotated \cup {<<s, h[p].req.pair, pairs + 1>>}
     ELSE UNCHANGED <<pairs, sess, rotated>>
  /\ Done(p)
  /\ UNCHANGED <<now, acct, dev, nonce, sent, known, gone, minted>>

(***************************************************************************)
(* Requests with a bearer token (resolve_bearer), then their handlers      *)
(***************************************************************************)
BearerSession(p) ==
  /\ h[p].pc = "session"
  /\ LET s == h[p].req.sid IN
     IF /\ s \in DOMAIN sess
        /\ sess[s].pair = h[p].req.pair
        /\ ~sess[s].revoked
        /\ sess[s].accessEnd > now
     THEN h' = [h EXCEPT ![p].pc = "device", ![p].acct = sess[s].acct]
     ELSE Done(p)
  /\ UNCHANGED <<now, acct, dev, sess, nonce, pairs, sent, known, gone, minted, rotated>>

DeviceLive(d) ==
  /\ d \in DOMAIN dev
  /\ dev[d].status = "active"
  /\ ~Expired(dev[d].expires)
  /\ acct[dev[d].acct].status = "active"

(* Owner-only operations also need is_owner (OwnerCtx, require_owner).     *)
OwnerOps == {"demote", "promote", "disable", "enable", "end"}

BearerDevice(p) ==
  /\ h[p].pc = "device"
  /\ IF /\ DeviceLive(h[p].dev)
        /\ h[p].req.op \in OwnerOps => acct[h[p].acct].owner
     THEN Step(p, "acting")
     ELSE Done(p)
  /\ UNCHANGED <<now, acct, dev, sess, nonce, pairs, sent, known, gone, minted, rotated>>

Acting(p, op) == h[p].pc = "acting" /\ h[p].req.op = op

Logout(p) ==
  /\ Acting(p, "logout")
  /\ sess' = Revoked(sess, {h[p].req.sid})
  /\ Done(p)
  /\ UNCHANGED <<now, acct, dev, nonce, pairs, sent, known, gone, minted, rotated>>

(* admin session/revoke: the sessions of the target device, one by one.    *)
AdminRevokeSession(p) ==
  /\ Acting(p, "end")
  /\ \E s \in DOMAIN sess : sess[s].dev = h[p].req.target /\ sess' = Revoked(sess, {s})
  /\ Done(p)
  /\ UNCHANGED <<now, acct, dev, nonce, pairs, sent, known, gone, minted, rotated>>

(* device_add: a pending device of the same account.                       *)
AddDevice(p) ==
  /\ Acting(p, "add")
  /\ h[p].req.target \in Devices \ known
  /\ dev' = Put(dev, h[p].req.target, [acct |-> h[p].acct, status |-> "pending",
                                       expires |-> now + PendingTTL])
  /\ known' = known \cup {h[p].req.target}
  /\ Done(p)
  /\ UNCHANGED <<now, acct, sess, nonce, pairs, sent, gone, minted, rotated>>

(* device_self_enroll needs no session: a signature of the account's key.  *)
SelfEnroll(a, d, web) ==
  /\ "enroll" \in Ops
  /\ d \in Devices \ known
  /\ sent < MaxSend
  /\ acct[a].status = "active"
  /\ dev' = Put(dev, d, [acct |-> a, status |-> "active",
                         expires |-> IF web THEN now + WebTTL ELSE Never])
  /\ known' = known \cup {d}
  /\ sent' = sent + 1
  /\ UNCHANGED <<now, acct, sess, nonce, pairs, h, gone, minted, rotated>>

(* device_revoke: the row is looked up (a foreign one needs an owner) ...  *)
RevokeLookup(p) ==
  /\ Acting(p, "revoke")
  /\ LET d == h[p].req.target IN
     IF d \in DOMAIN dev /\ (dev[d].acct = h[p].acct \/ acct[h[p].acct].owner)
     THEN Step(p, "pending")
     ELSE Done(p)
  /\ UNCHANGED <<now, acct, dev, sess, nonce, pairs, sent, known, gone, minted, rotated>>

(* ... a row still pending is deleted ...                                  *)
RevokePending(p) ==
  /\ h[p].pc = "pending" /\ h[p].req.op = "revoke"
  /\ dev' = Without(dev, {d \in DOMAIN dev : d = h[p].req.target
                                             /\ dev[d].status = "pending"})
  /\ Step(p, "mark")
  /\ UNCHANGED <<now, acct, sess, nonce, pairs, sent, known, gone, minted, rotated>>

RevokedRow(r) == [r EXCEPT !.status = "revoked",
                           !.expires = IF r.expires = Never \/ r.expires > now THEN now ELSE @]

(* ... any other one is marked and expires now ...                         *)
RevokeMark(p) ==
  /\ h[p].pc = "mark" /\ h[p].req.op = "revoke"
  /\ dev' = [d \in DOMAIN dev |-> IF d = h[p].req.target THEN RevokedRow(dev[d]) ELSE dev[d]]
  /\ Step(p, "cut")
  /\ UNCHANGED <<now, acct, sess, nonce, pairs, sent, known, gone, minted, rotated>>

(* ... and its sessions are revoked; only then is the request answered.    *)
RevokeCut(p) ==
  /\ h[p].pc = "cut"
  /\ sess' = Revoked(sess, {s \in DOMAIN sess : sess[s].dev = h[p].req.target})
  /\ gone' = gone \cup {h[p].req.target}
  /\ Done(p)
  /\ UNCHANGED <<now, acct, dev, nonce, pairs, sent, known, minted, rotated>>

OwnerCount == Cardinality({a \in Accounts : acct[a].owner})

MutantMayLower(a) == ~(acct[a].owner /\ OwnerCount <= 1)

(* The claim owner, and the last owner, keep their role and their account. *)
MayLower(a) == a # ClaimOwner /\ ~(acct[a].owner /\ OwnerCount <= 1)

(* owner_set and account_status: the check ...                             *)
CheckAccount(p) ==
  /\ h[p].pc = "acting" /\ h[p].req.op \in OwnerOps \ {"end"}
  /\ IF h[p].req.op \in {"demote", "disable"} => MayLower(h[p].req.target)
     THEN Step(p, "mark")
     ELSE Done(p)
  /\ UNCHANGED <<now, acct, dev, sess, nonce, pairs, sent, known, gone, minted, rotated>>

(* ... and the update, in a later statement.                               *)
SetAccount(p) ==
  /\ h[p].pc = "mark" /\ h[p].req.op \in OwnerOps \ {"end"}
  /\ acct' = [acct EXCEPT
       ![h[p].req.target].owner = CASE h[p].req.op = "demote" -> FALSE
                                    [] h[p].req.op = "promote" -> TRUE [] OTHER -> @,
       ![h[p].req.target].status = CASE h[p].req.op = "disable" -> "disabled"
                                     [] h[p].req.op = "enable" -> "active" [] OTHER -> @]
  /\ Done(p)
  /\ UNCHANGED <<now, dev, sess, nonce, pairs, sent, known, gone, minted, rotated>>

(***************************************************************************)
(* The clock and the janitor                                               *)
(***************************************************************************)
Tick ==
  /\ now < MaxNow
  /\ now' = now + 1
  /\ UNCHANGED <<acct, dev, sess, nonce, pairs, h, sent, known, gone, minted, rotated>>

MutantStaleSessions == {s \in DOMAIN sess : sess[s].accessEnd < now}
StaleSessions == {s \in DOMAIN sess : sess[s].refreshEnd < now}

(* To consume_nonce a removed row and a used one are alike.                *)
CleanupSessions ==
  /\ \/ \E n \in DOMAIN nonce : nonce[n].expires < now /\ ~nonce[n].used
     \/ StaleSessions # {}
  /\ nonce' = [n \in DOMAIN nonce |->
                 IF nonce[n].expires < now THEN [nonce[n] EXCEPT !.used = TRUE] ELSE nonce[n]]
  /\ sess' = Without(sess, StaleSessions)
  /\ UNCHANGED <<now, acct, dev, pairs, h, sent, known, gone, minted, rotated>>

(* cleanup_dead_devices: expired pending rows, and after the retention the *)
(* expired rows with their sessions.                                       *)
CleanupDevices ==
  LET late == {d \in DOMAIN dev : dev[d].status = "pending" /\ dev[d].expires < now}
      dead == {d \in DOMAIN dev : dev[d].expires # Never /\ dev[d].expires + Retention < now}
  IN /\ late \cup dead # {}
     /\ sess' = Without(sess, {s \in DOMAIN sess : sess[s].dev \in dead})
     /\ dev' = Without(dev, late \cup dead)
     /\ UNCHANGED <<now, acct, nonce, pairs, h, sent, known, gone, minted, rotated>>

HandlerStep(p) ==
  \/ VerifyRead(p) \/ ConsumeNonce(p) \/ ActivatePending(p) \/ VerifyMint(p)
  \/ RefreshRead(p) \/ RefreshReuse(p) \/ RefreshCheck(p) \/ RotateSession(p)
  \/ BearerSession(p) \/ BearerDevice(p) \/ Logout(p) \/ AdminRevokeSession(p)
  \/ AddDevice(p) \/ RevokeLookup(p) \/ RevokePending(p) \/ RevokeMark(p) \/ RevokeCut(p)
  \/ CheckAccount(p) \/ SetAccount(p)

Next ==
  \/ \E d \in Devices : Challenge(d)
  \/ \E p \in Handlers :
       \/ HandlerStep(p)
       \/ \E n \in Nonces : SendVerify(p, n)
       \/ \E s, k \in Pairs : SendRefresh(p, s, k)
       \/ \E s \in Pairs, t \in Devices : \E op \in {"logout", "add", "revoke", "end"} :
            SendBearer(p, s, op, t)
       \/ \E s \in Pairs, t \in Accounts : \E op \in OwnerOps \ {"end"} : SendBearer(p, s, op, t)
  \/ \E a \in Accounts, d \in Devices, web \in BOOLEAN : SelfEnroll(a, d, web)
  \/ Tick \/ CleanupSessions \/ CleanupDevices

Spec == Init /\ [][Next]_vars

-----------------------------------------------------------------------------
(* Every table holds rows of its type, a session always has its device, and *)
(* every handler is in a known state.                                       *)
TypeOK ==
  /\ now \in 1..MaxNow
  /\ acct \in [Accounts -> [status : {"active", "disabled"}, owner : BOOLEAN]]
  /\ DOMAIN dev \subseteq known /\ known \subseteq Devices
  /\ \A d \in DOMAIN dev : dev[d] \in DeviceRow
  /\ DOMAIN sess \subseteq Pairs /\ \A s \in DOMAIN sess : sess[s] \in SessionRow
  /\ \A s \in DOMAIN sess : sess[s].dev \in DOMAIN dev
  /\ DOMAIN nonce \subseteq Nonces /\ \A n \in DOMAIN nonce : nonce[n] \in NonceRow
  /\ pairs \in 0..MaxPair
  /\ sent \in 0..MaxSend
  /\ h \in [Handlers -> Handling]
  /\ minted \subseteq Nonces \X Pairs /\ rotated \subseteq Pairs \X Pairs \X Pairs
  /\ gone \subseteq known

(* One challenge gives at most one session, however often the answer to it *)
(* is sent and whatever runs in between (consume_nonce).                   *)
NonceOnce == \A x, y \in minted : x[1] = y[1] => x = y

(* A refresh token is exchanged at most once, also by two requests that    *)
(* both found it valid (rotate_session compares and sets).                 *)
RefreshOnce == \A x, y \in rotated : x[1] = y[1] /\ x[2] = y[2] => x = y

(* Once device_revoke answered, the device is never active again, and a    *)
(* request that arrives afterwards gets past no check: neither with a      *)
(* session a concurrent login minted late nor by refreshing it.            *)
RevokedStaysOut ==
  /\ \A d \in gone \cap DOMAIN dev : dev[d].status = "revoked"
  /\ \A p \in Handlers : h[p].late => h[p].pc \in {"idle", "session", "device", "read",
                                                     "check", "reuse"}

\* What RevokedFrozen says of one step.
RevokedFrozenStep ==
  \A s \in DOMAIN sess \cap DOMAIN sess' :
    sess[s].revoked => sess'[s] = sess[s]

(* A revoked session never gets another token pair and stays revoked, also *)
(* when a refresh read it before the revocation.                           *)
RevokedFrozen == [][RevokedFrozenStep]_vars

(* The instance always has an active owner: owners who demote or disable   *)
(* each other at the same time cannot lock everyone out.                   *)
OwnerRemains == \E a \in Accounts : acct[a].owner /\ acct[a].status = "active"

\* What LiveKept says of one step.
LiveKeptStep ==
  \A s \in DOMAIN sess :
    ~sess[s].revoked /\ sess[s].refreshEnd >= now /\ DeviceLive(sess[s].dev)
      => s \in DOMAIN sess'

(* The janitor never ends a session that could still be refreshed from a   *)
(* live device.                                                            *)
LiveKept == [][LiveKeptStep]_vars

\* A login challenge and a refresh token are each used once, whatever requests race
\* for them.
UsedOnce == NonceOnce /\ RefreshOnce

\* A revoked session or device stays out and is not written again, and the janitor
\* takes nothing that is alive.
SessionsEndRight ==
  /\ [](RevokedStaysOut)
  /\ RevokedFrozen
  /\ LiveKept
=============================================================================

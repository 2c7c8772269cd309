------------------------ MODULE ServerSessionsProofs ------------------------
(***************************************************************************)
(* Proofs about ServerSessions, for any accounts, devices, handlers and    *)
(* bounds.                                                                 *)
(***************************************************************************)
EXTENDS ServerSessions, FiniteSetTheorems, TLAPS

PCs == {"idle", "session", "device", "acting", "read", "consume", "activate",
        "mint", "reuse", "check", "rotate", "pending", "mark", "cut"}

\* What of a request stays while it is handled.
SameRequest(z, y) ==
  /\ z.dev = y.dev /\ z.late = y.late
  /\ z.req.op = y.req.op /\ z.req.sid = y.req.sid /\ z.req.pair = y.req.pair
  /\ z.req.nonce = y.req.nonce

\* Where a handler goes from where it is, and by which step.
Follows(p, z) ==
  \/ z = Idle
  \/ /\ SameRequest(z, h[p])
     /\ \/ z.pc = "device" /\ z.acct \in Accounts /\ z.req.target = h[p].req.target
        \/ z.pc = "consume" /\ z.acct \in Accounts /\ VerifyRead(p)
        \/ /\ z.req.target = h[p].req.target /\ z.acct = h[p].acct
           /\ \/ z.pc \in {"idle", "reuse", "check"}
              \/ z.pc \in {"mint", "activate"} /\ ConsumeNonce(p)
              \/ z.pc = "mint" /\ ActivatePending(p)
              \/ z.pc = "rotate" /\ RefreshCheck(p)
              \/ z.pc = "acting" /\ BearerDevice(p)
              \/ z.pc = "pending" /\ RevokeLookup(p)
              \/ z.pc = "mark" /\ (RevokePending(p) \/ CheckAccount(p))
              \/ z.pc = "cut" /\ RevokeMark(p)

LEMMA IdleState ==
  ASSUME SessionsAssumption
  PROVE  /\ NoRequest \in Request /\ Idle \in Handling /\ Idle.pc = "idle"
         /\ Idle.late = FALSE /\ Idle.dev = Never /\ Idle.req = NoRequest
<1>1. (CHOOSE o \in Ops : TRUE) \in Ops
  BY DEF SessionsAssumption
<1>2. NoRequest \in Request
  BY <1>1 DEF NoRequest, Request
<1> QED BY <1>2 DEF Idle, Handling

LEMMA HandlerMoves ==
  ASSUME SessionsAssumption, TypeOK, NEW p \in Handlers, HandlerStep(p)
  PROVE  \E z \in Handling : h' = [h EXCEPT ![p] = z] /\ Follows(p, z)
<1> DEFINE y == h[p]
           Goal == \E z \in Handling : h' = [h EXCEPT ![p] = z] /\ Follows(p, z)
<1>1. h \in [Handlers -> Handling] /\ y \in Handling /\ y.req \in Request
  BY DEF TypeOK, Handling
<1>2. ASSUME Done(p) PROVE Goal
  BY <1>2, IdleState DEF Done, Follows
<1>3. ASSUME NEW c \in PCs, Step(p, c)
      PROVE  \E z \in Handling : /\ h' = [h EXCEPT ![p] = z] /\ SameRequest(z, y) /\ z.pc = c
                                 /\ z.req = y.req /\ z.acct = y.acct
  <2> DEFINE z == [y EXCEPT !.pc = c]
  <2>1. z \in Handling /\ z.pc = c /\ z.req = y.req /\ z.acct = y.acct /\ SameRequest(z, y)
    BY <1>1 DEF Handling, PCs, SameRequest
  <2>2. h' = [h EXCEPT ![p] = z]
    BY <1>1, <1>3 DEF Step
  <2> QED BY <2>1, <2>2
<1>4. CASE VerifyRead(p)
  <2>1. CASE Done(p)
    BY <1>2, <2>1
  <2> DEFINE d == y.dev
             g == IF dev[d].status = "pending" THEN d ELSE Never
             z == [y EXCEPT !.pc = "consume", !.acct = dev[d].acct, !.req.target = g]
  <2>2. CASE d \in DOMAIN dev /\ h' = [h EXCEPT ![p].pc = "consume", ![p].acct = dev[d].acct,
                                                ![p].req.target = g]
    <3>1. dev[d].acct \in Accounts /\ d \in Devices
      BY <2>2 DEF TypeOK, DeviceRow
    <3>2. g \in Devices \cup Accounts \cup {Never}
      BY <3>1
    <3> HIDE DEF g
    <3>3. [y.req EXCEPT !.target = g] \in Request
      BY <1>1, <3>2 DEF Request
    <3>4. z = [y EXCEPT !.pc = "consume", !.acct = dev[d].acct, !.req = [y.req EXCEPT !.target = g]]
      BY <1>1 DEF Handling, Request
    <3>5. z \in Handling /\ z.pc = "consume" /\ SameRequest(z, y) /\ z.acct \in Accounts
      BY <1>1, <3>1, <3>3, <3>4 DEF Handling, SameRequest, Request
    <3>6. h' = [h EXCEPT ![p] = z]
      BY <1>1, <2>2
    <3> HIDE DEF z
    <3> QED BY <1>4, <3>5, <3>6 DEF Follows
  <2> QED BY <1>4, <2>1, <2>2 DEF VerifyRead
<1>5. CASE ConsumeNonce(p)
  <2>1. Done(p) \/ \E c \in {"mint", "activate"} : Step(p, c)
    BY <1>5 DEF ConsumeNonce
  <2> QED BY <1>2, <1>3, <1>5, <2>1 DEF Follows, PCs
<1>6. CASE ActivatePending(p)
  <2>1. Done(p) \/ Step(p, "mint")
    BY <1>6 DEF ActivatePending
  <2> QED BY <1>2, <1>3, <1>6, <2>1 DEF Follows, PCs
<1>7. CASE VerifyMint(p) \/ RefreshReuse(p) \/ RotateSession(p) \/ Logout(p)
           \/ AdminRevokeSession(p) \/ AddDevice(p) \/ RevokeCut(p) \/ SetAccount(p)
  <2>1. Done(p)
    BY <1>7 DEF VerifyMint, RefreshReuse, RotateSession, Logout, AdminRevokeSession, AddDevice,
                RevokeCut, SetAccount
  <2>2. Goal
    <3> HIDE DEF Goal
    <3> QED BY <1>2, <2>1
  <2> QED BY <2>2
<1>8. CASE RefreshRead(p)
  <2>1. Done(p) \/ \E c \in {"reuse", "check", "idle"} : Step(p, c)
    BY <1>8 DEF RefreshRead
  <2> QED BY <1>2, <1>3, <2>1 DEF Follows, PCs
<1>9. CASE RefreshCheck(p)
  <2>1. Done(p) \/ Step(p, "rotate")
    BY <1>9 DEF RefreshCheck
  <2> QED BY <1>2, <1>3, <1>9, <2>1 DEF Follows, PCs
<1>10. CASE BearerSession(p)
  <2>1. CASE Done(p)
    BY <1>2, <2>1
  <2> DEFINE s == y.req.sid
             z == [y EXCEPT !.pc = "device", !.acct = sess[s].acct]
  <2>2. CASE s \in DOMAIN sess /\ h' = [h EXCEPT ![p].pc = "device", ![p].acct = sess[s].acct]
    <3>1. sess[s].acct \in Accounts
      BY <2>2 DEF TypeOK, SessionRow
    <3>2. /\ z \in Handling /\ z.pc = "device" /\ SameRequest(z, y) /\ z.req = y.req
          /\ z.acct \in Accounts
      BY <1>1, <3>1 DEF Handling, SameRequest
    <3>3. h' = [h EXCEPT ![p] = z]
      BY <1>1, <2>2
    <3> HIDE DEF z
    <3> QED BY <3>2, <3>3 DEF Follows
  <2> QED BY <1>10, <2>1, <2>2 DEF BearerSession
<1>11. CASE BearerDevice(p)
  <2>1. Done(p) \/ Step(p, "acting")
    BY <1>11 DEF BearerDevice
  <2> QED BY <1>2, <1>3, <1>11, <2>1 DEF Follows, PCs
<1>12. CASE RevokeLookup(p)
  <2>1. Done(p) \/ Step(p, "pending")
    BY <1>12 DEF RevokeLookup
  <2> QED BY <1>2, <1>3, <1>12, <2>1 DEF Follows, PCs
<1>13. CASE RevokePending(p) \/ CheckAccount(p)
  <2>1. Done(p) \/ Step(p, "mark")
    BY <1>13 DEF RevokePending, CheckAccount
  <2> QED BY <1>2, <1>3, <1>13, <2>1 DEF Follows, PCs
<1>14. CASE RevokeMark(p)
  <2>1. Step(p, "cut")
    BY <1>14 DEF RevokeMark
  <2> QED BY <1>3, <1>14, <2>1 DEF Follows, PCs
<1> QED BY <1>4, <1>5, <1>6, <1>7, <1>8, <1>9, <1>10, <1>11, <1>12, <1>13, <1>14 DEF HandlerStep

\* A request arrives: the arguments it may have, and whether its device was gone.
Arrives(p, z) ==
  /\ h[p].pc = "idle" /\ z \in Handling /\ h' = [h EXCEPT ![p] = z]
  /\ z.pc \in {"read", "session"} /\ z.dev \in Devices /\ (z.late => z.dev \in gone)
  /\ \/ \E s \in DOMAIN sess : z.dev = sess[s].dev
     \/ \E n \in DOMAIN nonce : z.dev = nonce[n].dev
  /\ UNCHANGED <<now, acct, dev, sess, nonce, pairs, known, gone, minted, rotated>>

LEMMA Arrivals ==
  ASSUME SessionsAssumption, TypeOK, NEW p \in Handlers, NEW req \in Request,
         NEW c \in {"read", "session"}, NEW d, Arrive(p, req, c, d),
         \/ \E s \in DOMAIN sess : d = sess[s].dev
         \/ \E n \in DOMAIN nonce : d = nonce[n].dev
  PROVE  \E z : Arrives(p, z)
<1>1. d \in Devices
  BY DEF TypeOK, SessionRow, NonceRow
<1> DEFINE b == d \in gone
<1>2. b \in BOOLEAN
  OBVIOUS
<1> DEFINE z == [Idle EXCEPT !.pc = c, !.req = req, !.dev = d, !.late = b]
<1>3. z \in Handling /\ z.pc = c /\ z.dev = d /\ z.late = b
  <2> HIDE DEF b
  <2> QED BY <1>1, <1>2, IdleState DEF Handling
<1>4. h' = [h EXCEPT ![p] = z]
  BY DEF Arrive
<1> HIDE DEF z
<1>5. z.late => z.dev \in gone
  BY <1>3
<1> QED BY <1>1, <1>3, <1>4, <1>5 DEF Arrive, Arrives

\* The steps that are neither a handler's nor an arrival.
OtherStep ==
  \/ \E d \in Devices : Challenge(d)
  \/ \E a \in Accounts, d \in Devices, web \in BOOLEAN : SelfEnroll(a, d, web)
  \/ Tick \/ CleanupSessions \/ CleanupDevices

LEMMA StepKinds ==
  ASSUME SessionsAssumption, TypeOK, [Next]_vars
  PROVE  \/ UNCHANGED vars
         \/ \E p \in Handlers : HandlerStep(p)
         \/ \E p \in Handlers : \E z : Arrives(p, z)
         \/ OtherStep
<1>1. ASSUME NEW p \in Handlers, NEW n \in Nonces, SendVerify(p, n) PROVE \E z : Arrives(p, z)
  <2> DEFINE q == [NoRequest EXCEPT !.op = "verify", !.nonce = n]
  <2>1. q \in Request
    BY <1>1, IdleState DEF Request, SendVerify
  <2> HIDE DEF q
  <2>2. n \in DOMAIN nonce /\ Arrive(p, q, "read", nonce[n].dev)
    BY <1>1 DEF SendVerify, q
  <2> QED BY <2>1, <2>2, Arrivals
<1>2. ASSUME NEW p \in Handlers, NEW s \in Pairs, NEW k \in Pairs, SendRefresh(p, s, k)
      PROVE  \E z : Arrives(p, z)
  <2> DEFINE q == [NoRequest EXCEPT !.op = "refresh", !.sid = s, !.pair = k]
  <2>1. q \in Request
    BY <1>2, IdleState DEF Request, SendRefresh
  <2> HIDE DEF q
  <2>2. s \in DOMAIN sess /\ Arrive(p, q, "read", sess[s].dev)
    BY <1>2 DEF SendRefresh, q
  <2> QED BY <2>1, <2>2, Arrivals
<1>3. ASSUME NEW p \in Handlers, NEW s \in Pairs, NEW o, NEW t \in Devices \cup Accounts,
             SendBearer(p, s, o, t)
      PROVE  \E z : Arrives(p, z)
  <2> DEFINE q == [NoRequest EXCEPT !.op = o, !.sid = s, !.pair = sess[s].pair, !.target = t]
  <2>1. s \in DOMAIN sess /\ sess[s].pair \in Pairs /\ o \in Ops
    BY <1>3 DEF SendBearer, TypeOK, SessionRow
  <2>2. q \in Request
    BY <2>1, IdleState DEF Request
  <2> HIDE DEF q
  <2>3. Arrive(p, q, "session", sess[s].dev)
    BY <1>3 DEF SendBearer, q
  <2> QED BY <2>1, <2>2, <2>3, Arrivals
<1> QED BY <1>1, <1>2, <1>3 DEF Next, OtherStep

(***************************************************************************)
(* The invariant about rows and handlers                                   *)
(***************************************************************************)
(* Challenges are numbered without a gap.  A handler past its first check  *)
(* knows the account; its device id has been used; and neither a session   *)
(* nor a handler about to mint one is of a device that is still pending:   *)
(* without this the foreign key of a session would not outlive the removal *)
(* of a pending row.                                                       *)
NotPending(d) == d \in DOMAIN dev => dev[d].status # "pending"
ActsFor(x) == x.pc \in {"device", "acting", "consume", "activate", "mint"} => x.acct \in Accounts
Mints(x) ==
  x.pc = "mint" \/ (x.pc = "consume" /\ x.req.target = Never) => NotPending(x.dev)
Redeems(x) == x.pc \in {"activate", "mint"} => x.req.nonce \in DOMAIN nonce
Revokes(x) == x.pc = "cut" \/ (x.pc \in {"pending", "mark"} /\ x.req.op = "revoke")
                => x.req.target \in known
RowInv ==
  /\ \E n \in 0..MaxNonce : DOMAIN nonce = 1..n
  /\ \A n \in DOMAIN nonce : nonce[n].dev \in known
  /\ \A s \in DOMAIN sess : NotPending(sess[s].dev)
  /\ \A p \in Handlers : /\ h[p].dev \in known \cup {Never}
                         /\ ActsFor(h[p]) /\ Mints(h[p]) /\ Redeems(h[p]) /\ Revokes(h[p])

(***************************************************************************)
(* What a step does to the devices                                         *)
(***************************************************************************)
DevChange(d) ==
  \/ d \in DOMAIN dev /\ dev'[d] = dev[d]
  \/ d \in DOMAIN dev /\ dev[d].status # "revoked" /\ dev'[d].status = "active"
  \/ d \in DOMAIN dev /\ dev'[d] = RevokedRow(dev[d]) /\ now' = now
  \/ d \notin known

\* Rows are added under new ids only; what goes was pending, or had expired.
DevOK ==
  /\ known \subseteq known' /\ known' \subseteq Devices /\ DOMAIN dev' \subseteq known'
  /\ \A d \in DOMAIN dev' : dev'[d] \in DeviceRow /\ DevChange(d)

LEMMA Grown ==
  ASSUME TypeOK, NEW d \in Devices \ known, NEW r \in DeviceRow, dev' = Put(dev, d, r),
         known' = known \cup {d}
  PROVE  DevOK
<1>1. DOMAIN dev' = DOMAIN dev \cup {d} /\ dev'[d] = r
      /\ \A x \in DOMAIN dev : x # d => dev'[x] = dev[x]
  BY DEF Put
<1> QED BY <1>1 DEF DevOK, DevChange, TypeOK

LEMMA Shrunk ==
  ASSUME TypeOK, NEW S, dev' = Without(dev, S), known' = known
  PROVE  DevOK
<1>1. DOMAIN dev' = DOMAIN dev \ S /\ \A x \in DOMAIN dev \ S : dev'[x] = dev[x]
  BY DEF Without
<1> QED BY <1>1 DEF DevOK, DevChange, TypeOK

LEMMA RevokedRowTyped ==
  ASSUME TypeOK, NEW r \in DeviceRow
  PROVE  /\ RevokedRow(r) \in DeviceRow /\ RevokedRow(r).status = "revoked"
         /\ RevokedRow(r).expires # Never /\ RevokedRow(r).expires <= now
<1>1. now \in Nat /\ now # 0 /\ r.expires \in Nat
  BY DEF TypeOK, DeviceRow
<1> DEFINE e == IF r.expires = Never \/ r.expires > now THEN now ELSE r.expires
<1>2. e \in Nat /\ e # Never /\ e <= now
  BY <1>1 DEF Never
<1>3. RevokedRow(r) = [r EXCEPT !.status = "revoked", !.expires = e]
  BY DEF RevokedRow
<1> HIDE DEF e
<1>4. /\ RevokedRow(r) \in DeviceRow /\ RevokedRow(r).status = "revoked"
      /\ RevokedRow(r).expires = e
  BY <1>2, <1>3 DEF DeviceRow
<1> QED BY <1>2, <1>4

LEMMA ActivatedRow ==
  ASSUME NEW r \in DeviceRow
  PROVE  /\ [r EXCEPT !.status = "active", !.expires = Never] \in DeviceRow
         /\ [r EXCEPT !.status = "active", !.expires = Never].status = "active"
<1>1. Never \in Nat
  BY DEF Never
<1> QED BY <1>1 DEF DeviceRow

LEMMA NowTyped ==
  ASSUME SessionsAssumption, TypeOK
  PROVE  /\ now \in Nat /\ now # 0 /\ MaxPair \in Nat /\ MaxNonce \in Nat /\ MaxSend \in Nat
         /\ MaxNow \in Nat /\ now + PendingTTL \in Nat /\ now + WebTTL \in Nat
         /\ now + NonceTTL \in Nat /\ now + AccessTTL \in Nat /\ now + RefreshTTL \in Nat
         /\ Retention \in Nat
<1>1. /\ MaxSend \in Nat /\ MaxPair \in Nat /\ MaxNonce \in Nat /\ MaxNow \in Nat
      /\ AccessTTL \in Nat /\ RefreshTTL \in Nat /\ NonceTTL \in Nat /\ PendingTTL \in Nat
      /\ WebTTL \in Nat /\ Retention \in Nat
  BY DEF SessionsAssumption
<1>2. now \in Nat /\ now # 0
  BY <1>1 DEF TypeOK
<1>3. now + PendingTTL \in Nat /\ now + WebTTL \in Nat /\ now + NonceTTL \in Nat
  BY <1>1, <1>2
<1>4. now + AccessTTL \in Nat /\ now + RefreshTTL \in Nat
  BY <1>1, <1>2
<1> QED BY <1>1, <1>2, <1>3, <1>4

LEMMA DevChanges ==
  ASSUME SessionsAssumption, TypeOK, RowInv, [Next]_vars
  PROVE  DevOK
<1>1. ASSUME UNCHANGED <<dev, known>> PROVE DevOK
  BY <1>1 DEF DevOK, DevChange, TypeOK
<1>2. ASSUME NEW p \in Handlers, HandlerStep(p) PROVE DevOK
  <2>1. h[p] \in Handling /\ h[p].acct \in Accounts \cup {Never}
    BY DEF TypeOK, Handling
  <2>2. CASE ActivatePending(p)
    <3>1. CASE dev' = dev
      BY <1>1, <2>2, <3>1 DEF ActivatePending
    <3> DEFINE d == h[p].dev
    <3>2. CASE CanActivate(d) /\ dev' = [dev EXCEPT ![d].status = "active", ![d].expires = Never]
      <4>1. d \in DOMAIN dev /\ dev[d] \in DeviceRow /\ dev[d].status # "revoked"
        BY <3>2 DEF CanActivate, TypeOK
      <4>2. dev'[d] = [dev[d] EXCEPT !.status = "active", !.expires = Never]
        BY <3>2, <4>1
      <4>3. dev'[d] \in DeviceRow /\ dev'[d].status = "active"
        BY <4>1, <4>2, ActivatedRow
      <4>4. DOMAIN dev' = DOMAIN dev /\ \A x \in DOMAIN dev : x # d => dev'[x] = dev[x]
        BY <3>2
      <4>5. known' = known
        BY <2>2 DEF ActivatePending
      <4> QED BY <4>1, <4>3, <4>4, <4>5 DEF DevOK, DevChange, TypeOK
    <3> QED BY <2>2, <3>1, <3>2 DEF ActivatePending
  <2>3. CASE AddDevice(p)
    <3> DEFINE r == [acct |-> h[p].acct, status |-> "pending", expires |-> now + PendingTTL]
    <3>1. h[p].acct \in Accounts
      BY <2>3 DEF RowInv, ActsFor, AddDevice, Acting
    <3>2. r \in DeviceRow
      BY <3>1, NowTyped DEF DeviceRow
    <3> HIDE DEF r
    <3>3. /\ h[p].req.target \in Devices \ known /\ dev' = Put(dev, h[p].req.target, r)
          /\ known' = known \cup {h[p].req.target}
      BY <2>3 DEF AddDevice, r
    <3> QED BY <3>2, <3>3, Grown
  <2>4. CASE RevokePending(p)
    BY <2>4, Shrunk DEF RevokePending
  <2>5. CASE RevokeMark(p)
    <3>1. /\ DOMAIN dev' = DOMAIN dev /\ known' = known /\ now' = now
          /\ \A d \in DOMAIN dev : dev'[d] \in {dev[d], RevokedRow(dev[d])}
      BY <2>5 DEF RevokeMark
    <3>2. ASSUME NEW d \in DOMAIN dev PROVE dev[d] \in DeviceRow /\ RevokedRow(dev[d]) \in DeviceRow
      <4>1. dev[d] \in DeviceRow
        BY DEF TypeOK
      <4> QED BY <4>1, RevokedRowTyped
    <3> QED BY <3>1, <3>2 DEF DevOK, DevChange, TypeOK
  <2>6. CASE \/ VerifyRead(p) \/ ConsumeNonce(p) \/ VerifyMint(p) \/ RefreshRead(p)
             \/ RefreshReuse(p) \/ RefreshCheck(p) \/ RotateSession(p) \/ BearerSession(p)
             \/ BearerDevice(p) \/ Logout(p) \/ AdminRevokeSession(p) \/ RevokeLookup(p)
             \/ RevokeCut(p) \/ CheckAccount(p) \/ SetAccount(p)
    BY <1>1, <2>6 DEF VerifyRead, ConsumeNonce, VerifyMint, RefreshRead, RefreshReuse, RefreshCheck,
       RotateSession, BearerSession, BearerDevice, Logout, AdminRevokeSession, RevokeLookup,
       RevokeCut, CheckAccount, SetAccount
  <2> QED BY <1>2, <2>2, <2>3, <2>4, <2>5, <2>6 DEF HandlerStep
<1>3. ASSUME NEW p \in Handlers, NEW z, Arrives(p, z) PROVE DevOK
  BY <1>1, <1>3 DEF Arrives
<1>4. CASE OtherStep
  <2>1. ASSUME NEW a \in Accounts, NEW d \in Devices, NEW web \in BOOLEAN, SelfEnroll(a, d, web)
        PROVE  DevOK
    <3> DEFINE r == [acct |-> a, status |-> "active", expires |-> IF web THEN now + WebTTL ELSE Never]
    <3>1. r \in DeviceRow
      BY NowTyped DEF DeviceRow, Never
    <3> HIDE DEF r
    <3>2. d \in Devices \ known /\ dev' = Put(dev, d, r) /\ known' = known \cup {d}
      BY <2>1 DEF SelfEnroll, r
    <3> QED BY <3>1, <3>2, Grown
  <2>2. CASE CleanupDevices
    <3>1. PICK S : dev' = Without(dev, S)
      BY <2>2 DEF CleanupDevices
    <3>2. known' = known
      BY <2>2 DEF CleanupDevices
    <3> QED BY <3>1, <3>2, Shrunk
  <2>3. CASE (\E d \in Devices : Challenge(d)) \/ Tick \/ CleanupSessions
    BY <1>1, <2>3 DEF Challenge, Tick, CleanupSessions
  <2> QED BY <1>4, <2>1, <2>2, <2>3 DEF OtherStep
<1> QED BY <1>1, <1>2, <1>3, <1>4, StepKinds DEF vars

(***************************************************************************)
(* What a step does to the sessions                                        *)
(***************************************************************************)
Rotates(p, s) ==
  /\ RotateSession(p) /\ s = h[p].req.sid /\ CanRotate(s, h[p].req.pair)
  /\ pairs' = pairs + 1 /\ sess'[s].pair = pairs + 1 /\ sess'[s].dev = sess[s].dev
  /\ rotated' = rotated \cup {<<s, h[p].req.pair, pairs + 1>>}
MintsAs(p, s) ==
  /\ VerifyMint(p) /\ s = pairs + 1 /\ pairs' = pairs + 1 /\ sess'[s].pair = pairs + 1
  /\ sess'[s].dev = h[p].dev /\ h[p].dev \in DOMAIN dev
  /\ minted' = minted \cup {<<h[p].req.nonce, pairs + 1>>}

SessChange(s) ==
  \/ s \in DOMAIN sess /\ sess'[s] = sess[s]
  \/ s \in DOMAIN sess /\ sess'[s] = [sess[s] EXCEPT !.revoked = TRUE]
  \/ \E p \in Handlers : Rotates(p, s)
  \/ \E p \in Handlers : MintsAs(p, s)

SessOK ==
  /\ pairs' \in 0..MaxPair /\ pairs <= pairs'
  /\ \A s \in DOMAIN sess' : s \in Pairs /\ sess'[s] \in SessionRow /\ SessChange(s)

LEMMA RevokedRows ==
  ASSUME TypeOK, NEW S, sess' = Revoked(sess, S), pairs' = pairs
  PROVE  SessOK
<1>1. DOMAIN sess' = DOMAIN sess
      /\ \A s \in DOMAIN sess : sess'[s] \in {sess[s], [sess[s] EXCEPT !.revoked = TRUE]}
  BY DEF Revoked
<1>2. ASSUME NEW r \in SessionRow PROVE [r EXCEPT !.revoked = TRUE] \in SessionRow
  BY DEF SessionRow
<1>3. \A s \in DOMAIN sess : s \in Pairs /\ sess[s] \in SessionRow
  BY DEF TypeOK
<1>4. pairs \in 0..MaxPair /\ pairs <= pairs
  BY DEF TypeOK
<1> QED BY <1>1, <1>2, <1>3, <1>4 DEF SessOK, SessChange

LEMMA SessChanges ==
  ASSUME SessionsAssumption, TypeOK, RowInv, [Next]_vars
  PROVE  SessOK
<1>0. /\ \A s \in DOMAIN sess : s \in Pairs /\ sess[s] \in SessionRow
      /\ pairs \in 0..MaxPair /\ pairs <= pairs /\ MaxPair \in Nat /\ pairs \in Nat
  BY NowTyped DEF TypeOK
<1>1. ASSUME UNCHANGED <<sess, pairs>> PROVE SessOK
  BY <1>0, <1>1 DEF SessOK, SessChange
<1>2. ASSUME NEW S, sess' = Without(sess, S), pairs' = pairs PROVE SessOK
  <2>1. DOMAIN sess' = DOMAIN sess \ S /\ \A s \in DOMAIN sess \ S : sess'[s] = sess[s]
    BY <1>2 DEF Without
  <2> QED BY <1>0, <1>2, <2>1 DEF SessOK, SessChange
<1>3. ASSUME NEW p \in Handlers, HandlerStep(p) PROVE SessOK
  <2>1. CASE VerifyMint(p)
    <3> DEFINE r == [acct |-> h[p].acct, dev |-> h[p].dev, pair |-> pairs + 1,
                     accessEnd |-> now + AccessTTL, refreshEnd |-> now + RefreshTTL,
                     revoked |-> FALSE]
    <3>1. CASE UNCHANGED <<pairs, sess>>
      BY <1>1, <3>1
    <3>2. CASE /\ h[p].dev \in DOMAIN dev /\ pairs' = pairs + 1 /\ sess' = Put(sess, pairs + 1, r)
               /\ minted' = minted \cup {<<h[p].req.nonce, pairs + 1>>}
      <4>1. pairs < MaxPair /\ h[p].pc = "mint"
        BY <2>1 DEF VerifyMint
      <4>2. pairs + 1 \in Pairs /\ pairs + 1 \in 0..MaxPair /\ pairs <= pairs + 1
        BY <1>0, <4>1 DEF Pairs
      <4>3. h[p].acct \in Accounts
        BY <4>1 DEF RowInv, ActsFor
      <4>4. h[p].dev \in Devices
        BY <3>2 DEF TypeOK
      <4>5. r \in SessionRow /\ r.pair = pairs + 1 /\ r.dev = h[p].dev
        BY <4>2, <4>3, <4>4, NowTyped DEF SessionRow
      <4> HIDE DEF r
      <4>6. /\ DOMAIN sess' = DOMAIN sess \cup {pairs + 1} /\ sess'[pairs + 1] = r
            /\ \A s \in DOMAIN sess : s # pairs + 1 => sess'[s] = sess[s]
        BY <3>2 DEF Put
      <4>7. MintsAs(p, pairs + 1)
        BY <2>1, <3>2, <4>5, <4>6 DEF MintsAs
      <4> QED BY <1>0, <3>2, <4>2, <4>5, <4>6, <4>7 DEF SessOK, SessChange
    <3> QED BY <2>1, <3>1, <3>2 DEF VerifyMint, CanInsertSession
  <2>2. CASE RotateSession(p)
    <3> DEFINE s == h[p].req.sid
               r == [sess[s] EXCEPT !.pair = pairs + 1, !.accessEnd = now + AccessTTL,
                                    !.refreshEnd = now + RefreshTTL]
    <3>1. CASE UNCHANGED <<pairs, sess>>
      BY <1>1, <3>1
    <3>2. CASE /\ CanRotate(s, h[p].req.pair) /\ pairs' = pairs + 1
               /\ sess' = [sess EXCEPT ![s].pair = pairs + 1, ![s].accessEnd = now + AccessTTL,
                                  ![s].refreshEnd = now + RefreshTTL]
               /\ rotated' = rotated \cup {<<s, h[p].req.pair, pairs + 1>>}
      <4>1. pairs < MaxPair /\ s \in DOMAIN sess
        BY <2>2, <3>2 DEF RotateSession, CanRotate
      <4>2. pairs + 1 \in Pairs /\ pairs + 1 \in 0..MaxPair /\ pairs <= pairs + 1
        BY <1>0, <4>1 DEF Pairs
      <4>3. sess[s] \in SessionRow
        BY <1>0, <4>1
      <4>4. r \in SessionRow /\ r.pair = pairs + 1 /\ r.dev = sess[s].dev
        BY <4>2, <4>3, NowTyped DEF SessionRow
      <4>5. /\ DOMAIN sess' = DOMAIN sess /\ sess'[s] = r
            /\ \A x \in DOMAIN sess : x # s => sess'[x] = sess[x]
        BY <3>2, <4>1
      <4> HIDE DEF r
      <4>6. Rotates(p, s)
        BY <2>2, <3>2, <4>4, <4>5 DEF Rotates
      <4> QED BY <1>0, <3>2, <4>1, <4>2, <4>4, <4>5, <4>6 DEF SessOK, SessChange
    <3> QED BY <2>2, <3>1, <3>2 DEF RotateSession
  <2>3. CASE RefreshReuse(p) \/ Logout(p) \/ AdminRevokeSession(p) \/ RevokeCut(p)
    BY <2>3, RevokedRows DEF RefreshReuse, Logout, AdminRevokeSession, RevokeCut
  <2>4. CASE \/ VerifyRead(p) \/ ConsumeNonce(p) \/ ActivatePending(p) \/ RefreshRead(p)
             \/ RefreshCheck(p) \/ BearerSession(p) \/ BearerDevice(p) \/ AddDevice(p)
             \/ RevokeLookup(p) \/ RevokePending(p) \/ RevokeMark(p) \/ CheckAccount(p)
             \/ SetAccount(p)
    BY <1>1, <2>4 DEF VerifyRead, ConsumeNonce, ActivatePending, RefreshRead, RefreshCheck,
       BearerSession, BearerDevice, AddDevice, RevokeLookup, RevokePending, RevokeMark,
       CheckAccount, SetAccount
  <2> QED BY <1>3, <2>1, <2>2, <2>3, <2>4 DEF HandlerStep
<1>4. ASSUME NEW p \in Handlers, NEW z, Arrives(p, z) PROVE SessOK
  BY <1>1, <1>4 DEF Arrives
<1>5. CASE OtherStep
  <2>1. CASE CleanupSessions
    BY <1>2, <2>1 DEF CleanupSessions
  <2>2. CASE CleanupDevices
    <3>1. PICK S : sess' = Without(sess, S)
      BY <2>2 DEF CleanupDevices
    <3>2. pairs' = pairs
      BY <2>2 DEF CleanupDevices
    <3> QED BY <1>2, <3>1, <3>2
  <2>3. CASE (\E d \in Devices : Challenge(d)) \/ Tick
             \/ \E a \in Accounts, d \in Devices, web \in BOOLEAN : SelfEnroll(a, d, web)
    BY <1>1, <2>3 DEF Challenge, Tick, SelfEnroll
  <2> QED BY <1>5, <2>1, <2>2, <2>3 DEF OtherStep
<1> QED BY <1>1, <1>3, <1>4, <1>5, StepKinds DEF vars

\* What goes from the devices was pending, or takes its sessions along.
LEMMA DevicesGo ==
  ASSUME SessionsAssumption, TypeOK, [Next]_vars, NEW d \in DOMAIN dev \ DOMAIN dev'
  PROVE  \/ dev[d].status = "pending"
         \/ \A s \in DOMAIN sess' : s \in DOMAIN sess /\ sess'[s] = sess[s] /\ sess[s].dev # d
<1> DEFINE Goal == \/ dev[d].status = "pending"
                   \/ \A s \in DOMAIN sess' : s \in DOMAIN sess /\ sess'[s] = sess[s] /\ sess[s].dev # d
<1>1. dev' # dev
  OBVIOUS
<1>2. ASSUME NEW p \in Handlers, HandlerStep(p) PROVE Goal
  <2>1. CASE ActivatePending(p) \/ RevokeMark(p) \/ AddDevice(p)
    <3>1. DOMAIN dev \subseteq DOMAIN dev'
      BY <2>1 DEF ActivatePending, RevokeMark, AddDevice, Put
    <3> QED BY <3>1
  <2>2. CASE RevokePending(p)
    BY <2>2 DEF RevokePending, Without
  <2> QED BY <1>1, <1>2, <2>1, <2>2 DEF HandlerStep, VerifyRead, ConsumeNonce, VerifyMint,
       RefreshRead, RefreshReuse, RefreshCheck, RotateSession, BearerSession, BearerDevice, Logout,
       AdminRevokeSession, RevokeLookup, RevokeCut, CheckAccount, SetAccount
<1>3. ASSUME NEW p \in Handlers, NEW z, Arrives(p, z) PROVE Goal
  BY <1>1, <1>3 DEF Arrives
<1>4. CASE OtherStep
  <2>1. ASSUME NEW a \in Accounts, NEW x \in Devices, NEW web \in BOOLEAN, SelfEnroll(a, x, web)
        PROVE  Goal
    <3>1. DOMAIN dev \subseteq DOMAIN dev'
      BY <2>1 DEF SelfEnroll, Put
    <3> QED BY <3>1
  <2>2. CASE CleanupDevices
    <3> DEFINE dead == {x \in DOMAIN dev : dev[x].expires # Never /\ dev[x].expires + Retention < now}
               late == {x \in DOMAIN dev : dev[x].status = "pending" /\ dev[x].expires < now}
    <3>1. /\ sess' = Without(sess, {s \in DOMAIN sess : sess[s].dev \in dead})
          /\ dev' = Without(dev, late \cup dead)
      BY <2>2 DEF CleanupDevices
    <3>2. d \in late \cup dead
      BY <3>1 DEF Without
    <3> QED BY <3>1, <3>2 DEF Without
  <2> QED BY <1>1, <1>4, <2>1, <2>2 DEF OtherStep, Challenge, Tick, CleanupSessions
<1> QED BY <1>1, <1>2, <1>3, <1>4, StepKinds DEF vars

(***************************************************************************)
(* What a step does to the challenges and to the rest                      *)
(***************************************************************************)
\* Challenges are only added, of known devices, and a used one stays used.
NonceOK ==
  /\ \E m \in 0..MaxNonce : DOMAIN nonce' = 1..m
  /\ DOMAIN nonce \subseteq DOMAIN nonce'
  /\ \A n \in DOMAIN nonce' : nonce'[n] \in NonceRow /\ nonce'[n].dev \in known'
  /\ \A n \in DOMAIN nonce : nonce[n].used => nonce'[n].used

LEMMA UsedRow ==
  ASSUME NEW r \in NonceRow
  PROVE  /\ [r EXCEPT !.used = TRUE] \in NonceRow /\ [r EXCEPT !.used = TRUE].used
         /\ [r EXCEPT !.used = TRUE].dev = r.dev
BY DEF NonceRow

LEMMA NonceChanges ==
  ASSUME SessionsAssumption, TypeOK, RowInv, [Next]_vars
  PROVE  NonceOK
<1>0. /\ known \subseteq known' /\ MaxNonce \in Nat
      /\ \A n \in DOMAIN nonce : nonce[n] \in NonceRow /\ nonce[n].dev \in known
  BY DevChanges, NowTyped DEF DevOK, TypeOK, RowInv
<1>1. PICK m \in 0..MaxNonce : DOMAIN nonce = 1..m
  BY DEF RowInv
<1>2. ASSUME DOMAIN nonce' = DOMAIN nonce,
             \A n \in DOMAIN nonce : nonce'[n] \in {nonce[n], [nonce[n] EXCEPT !.used = TRUE]}
      PROVE  NonceOK
  <2>1. \A n \in DOMAIN nonce : /\ nonce'[n] \in NonceRow /\ nonce'[n].dev = nonce[n].dev
                                /\ nonce[n].used => nonce'[n].used
    BY <1>0, <1>2, UsedRow
  <2>2. \A n \in DOMAIN nonce' : nonce'[n] \in NonceRow /\ nonce'[n].dev \in known'
    BY <1>0, <1>2, <2>1
  <2>3. \E k \in 0..MaxNonce : DOMAIN nonce' = 1..k
    BY <1>1, <1>2
  <2> QED BY <1>2, <2>1, <2>2, <2>3 DEF NonceOK
<1>3. ASSUME nonce' = nonce PROVE NonceOK
  BY <1>2, <1>3
<1>4. ASSUME NEW d \in Devices, Challenge(d) PROVE NonceOK
  <2> DEFINE r == [dev |-> d, expires |-> now + NonceTTL, used |-> FALSE]
  <2>1. r \in NonceRow /\ r.dev = d
    BY NowTyped DEF NonceRow
  <2> HIDE DEF r
  <2>2. Cardinality(DOMAIN nonce) = m
    <3>1. m \in Nat /\ 1 \in Int /\ m \in Int
      BY <1>0, <1>1
    <3>2. Cardinality(1..m) = IF 1 > m THEN 0 ELSE m - 1 + 1
      BY <3>1, FS_Interval
    <3> QED BY <1>1, <3>1, <3>2
  <2>3. m < MaxNonce /\ nonce' = Put(nonce, m + 1, r) /\ d \in known
    BY <1>4, <2>2 DEF Challenge, r, TypeOK
  <2>4. /\ DOMAIN nonce' = DOMAIN nonce \cup {m + 1} /\ nonce'[m + 1] = r
        /\ \A n \in DOMAIN nonce : n # m + 1 => nonce'[n] = nonce[n]
    BY <2>3 DEF Put
  <2>5. m + 1 \in 0..MaxNonce /\ 1..(m + 1) = (1..m) \cup {m + 1} /\ m + 1 \notin 1..m
    BY <1>0, <2>3
  <2>6. DOMAIN nonce' = 1..(m + 1)
    BY <1>1, <2>4, <2>5
  <2> QED BY <1>0, <1>1, <2>1, <2>3, <2>4, <2>5, <2>6 DEF NonceOK
<1>5. CASE CleanupSessions
  <2>1. /\ DOMAIN nonce' = DOMAIN nonce
        /\ \A n \in DOMAIN nonce : nonce'[n] \in {nonce[n], [nonce[n] EXCEPT !.used = TRUE]}
    BY <1>5 DEF CleanupSessions
  <2> QED BY <1>2, <2>1
<1>6. ASSUME NEW p \in Handlers, HandlerStep(p) PROVE NonceOK
  <2>1. CASE ConsumeNonce(p)
    <3>1. CASE nonce' = nonce
      BY <1>3, <3>1
    <3>2. CASE nonce' = [nonce EXCEPT ![h[p].req.nonce].used = TRUE]
      BY <1>2, <3>2
    <3> QED BY <2>1, <3>1, <3>2 DEF ConsumeNonce
  <2>2. CASE ~ConsumeNonce(p)
    BY <1>3, <1>6, <2>2 DEF HandlerStep, VerifyRead, ActivatePending, VerifyMint, RefreshRead,
       RefreshReuse, RefreshCheck, RotateSession, BearerSession, BearerDevice, Logout,
       AdminRevokeSession, AddDevice, RevokeLookup, RevokePending, RevokeMark, RevokeCut,
       CheckAccount, SetAccount
  <2> QED BY <2>1, <2>2
<1>7. ASSUME NEW p \in Handlers, NEW z, Arrives(p, z) PROVE NonceOK
  BY <1>3, <1>7 DEF Arrives
<1>8. CASE OtherStep
  BY <1>3, <1>4, <1>5, <1>8 DEF OtherStep, SelfEnroll, Tick, CleanupDevices
<1> QED BY <1>3, <1>6, <1>7, <1>8, StepKinds DEF vars

\* Accounts change in SetAccount only.
Lowers(p, a) == SetAccount(p) /\ h[p].req.op \in {"demote", "disable"} /\ a = h[p].req.target
AcctOK ==
  /\ acct' \in [Accounts -> [status : {"active", "disabled"}, owner : BOOLEAN]]
  /\ \A a \in Accounts : \/ \E p \in Handlers : Lowers(p, a)
                         \/ /\ acct[a].owner => acct'[a].owner
                            /\ acct[a].status = "active" => acct'[a].status = "active"

LEMMA AcctChanges ==
  ASSUME SessionsAssumption, TypeOK, [Next]_vars
  PROVE  AcctOK
<1>0. acct \in [Accounts -> [status : {"active", "disabled"}, owner : BOOLEAN]]
  BY DEF TypeOK
<1>1. ASSUME acct' = acct PROVE AcctOK
  BY <1>0, <1>1 DEF AcctOK
<1>2. ASSUME NEW p \in Handlers, SetAccount(p) PROVE AcctOK
  <2> DEFINE t == h[p].req.target
             o == CASE h[p].req.op = "demote" -> FALSE
                    [] h[p].req.op = "promote" -> TRUE [] OTHER -> acct[t].owner
             c == CASE h[p].req.op = "disable" -> "disabled"
                    [] h[p].req.op = "enable" -> "active" [] OTHER -> acct[t].status
  <2>1. acct' = [acct EXCEPT ![t].owner = o, ![t].status = c]
    BY <1>2 DEF SetAccount
  <2>2. t \in Accounts => o \in BOOLEAN /\ c \in {"active", "disabled"}
    BY <1>0
  <2>3. ~Lowers(p, t) => (acct[t].owner => o) /\ (acct[t].status = "active" => c = "active")
    BY <1>2 DEF Lowers
  <2> HIDE DEF o, c
  <2>4. t \notin Accounts => acct' = acct
    BY <1>0, <2>1
  <2>5. t \in Accounts => /\ acct'[t] = [acct[t] EXCEPT !.owner = o, !.status = c]
                          /\ \A a \in Accounts : a # t => acct'[a] = acct[a]
                          /\ DOMAIN acct' = Accounts
    BY <1>0, <2>1
  <2>6. ASSUME t \in Accounts
        PROVE  /\ acct'[t] \in [status : {"active", "disabled"}, owner : BOOLEAN]
               /\ acct'[t].owner = o /\ acct'[t].status = c
    <3> DEFINE r == acct[t]
    <3>1. r \in [status : {"active", "disabled"}, owner : BOOLEAN]
      BY <1>0, <2>6
    <3> HIDE DEF r
    <3>2. acct'[t] = [r EXCEPT !.owner = o, !.status = c]
      BY <2>5, <2>6 DEF r
    <3> QED BY <2>2, <2>6, <3>1, <3>2
  <2>7. ASSUME t \in Accounts PROVE AcctOK
    <3>1. acct' \in [Accounts -> [status : {"active", "disabled"}, owner : BOOLEAN]]
      <4>1. acct' = [a \in Accounts |-> acct'[a]]
        BY <1>0, <2>1
      <4>2. \A a \in Accounts : acct'[a] \in [status : {"active", "disabled"}, owner : BOOLEAN]
        BY <1>0, <2>5, <2>6, <2>7
      <4> QED BY <4>1, <4>2
    <3>2. ASSUME NEW a \in Accounts
          PROVE  \/ \E q \in Handlers : Lowers(q, a)
                 \/ /\ acct[a].owner => acct'[a].owner
                    /\ acct[a].status = "active" => acct'[a].status = "active"
      <4>1. CASE a = t
        BY <2>3, <2>6, <2>7, <4>1
      <4>2. CASE a # t
        <5>1. acct'[a] = acct[a]
          BY <2>5, <2>7, <4>2
        <5> QED BY <5>1
      <4> QED BY <4>1, <4>2
    <3> QED BY <3>1, <3>2 DEF AcctOK
  <2> QED BY <1>1, <2>4, <2>7
<1>3. ASSUME NEW p \in Handlers, HandlerStep(p), ~SetAccount(p) PROVE acct' = acct
  BY <1>3 DEF HandlerStep, VerifyRead, ConsumeNonce, ActivatePending, VerifyMint, RefreshRead,
     RefreshReuse, RefreshCheck, RotateSession, BearerSession, BearerDevice, Logout,
     AdminRevokeSession, AddDevice, RevokeLookup, RevokePending, RevokeMark, RevokeCut,
     CheckAccount
<1>4. ASSUME NEW p \in Handlers, NEW z, Arrives(p, z) PROVE acct' = acct
  BY <1>4 DEF Arrives
<1>5. OtherStep => acct' = acct
  BY DEF OtherStep, SelfEnroll, Tick, CleanupDevices, CleanupSessions, Challenge
<1> QED BY <1>1, <1>2, <1>3, <1>4, <1>5, StepKinds DEF vars

\* The histories grow by what the step did, and the clock does not go back.
HistOK ==
  /\ now' \in 1..MaxNow /\ now <= now'
  /\ \/ minted' = minted
     \/ \E p \in Handlers : /\ h[p].pc = "mint" /\ h'[p] = Idle /\ pairs + 1 \in Pairs
                            /\ minted' = minted \cup {<<h[p].req.nonce, pairs + 1>>}
  /\ \/ rotated' = rotated
     \/ \E p \in Handlers : Rotates(p, h[p].req.sid)
  /\ \/ gone' = gone
     \/ \E p \in Handlers : /\ h[p].pc = "cut" /\ gone' = gone \cup {h[p].req.target}
                            /\ UNCHANGED <<now, dev>>

LEMMA HistChanges ==
  ASSUME SessionsAssumption, TypeOK, RowInv, [Next]_vars
  PROVE  HistOK
<1>0. now \in 1..MaxNow /\ now <= now /\ MaxPair \in Nat /\ pairs \in 0..MaxPair
  BY NowTyped DEF TypeOK
<1>1. ASSUME UNCHANGED <<now, minted, rotated, gone>> PROVE HistOK
  BY <1>0, <1>1 DEF HistOK
<1>2. ASSUME NEW p \in Handlers, HandlerStep(p) PROVE HistOK
  <2>1. CASE VerifyMint(p)
    <3>1. h[p].pc = "mint" /\ h'[p] = Idle /\ pairs + 1 \in Pairs
      BY <1>0, <2>1 DEF VerifyMint, Done, Pairs, TypeOK
    <3>2. minted' = minted \/ minted' = minted \cup {<<h[p].req.nonce, pairs + 1>>}
      BY <2>1 DEF VerifyMint
    <3>3. UNCHANGED <<now, rotated, gone>>
      BY <2>1 DEF VerifyMint
    <3> QED BY <1>0, <3>1, <3>2, <3>3 DEF HistOK
  <2>2. CASE RotateSession(p)
    <3> DEFINE s == h[p].req.sid
    <3>1. UNCHANGED <<now, minted, gone>>
      BY <2>2 DEF RotateSession
    <3>2. CASE CanRotate(s, h[p].req.pair)
      <4>1. /\ pairs' = pairs + 1 /\ s \in DOMAIN sess /\ s \in DOMAIN sess'
            /\ rotated' = rotated \cup {<<s, h[p].req.pair, pairs + 1>>}
        BY <2>2, <3>2 DEF RotateSession, CanRotate
      <4>2. sess'[s] = [sess[s] EXCEPT !.pair = pairs + 1, !.accessEnd = now + AccessTTL,
                                       !.refreshEnd = now + RefreshTTL]
        BY <2>2, <3>2, <4>1 DEF RotateSession
      <4>3. sess[s] \in SessionRow
        BY <4>1 DEF TypeOK
      <4>4. sess'[s].pair = pairs + 1 /\ sess'[s].dev = sess[s].dev
        BY <4>2, <4>3 DEF SessionRow
      <4>5. Rotates(p, s)
        BY <2>2, <3>2, <4>1, <4>4 DEF Rotates
      <4> QED BY <1>0, <3>1, <4>5 DEF HistOK
    <3>3. CASE rotated' = rotated
      BY <1>0, <3>1, <3>3 DEF HistOK
    <3> QED BY <2>2, <3>2, <3>3 DEF RotateSession
  <2>3. CASE RevokeCut(p)
    <3>1. /\ h[p].pc = "cut" /\ gone' = gone \cup {h[p].req.target}
          /\ UNCHANGED <<now, dev, minted, rotated>>
      BY <2>3 DEF RevokeCut
    <3> QED BY <1>0, <3>1 DEF HistOK
  <2>4. CASE ~VerifyMint(p) /\ ~RotateSession(p) /\ ~RevokeCut(p)
    BY <1>1, <1>2, <2>4 DEF HandlerStep, VerifyRead, ConsumeNonce, ActivatePending, RefreshRead,
       RefreshReuse, RefreshCheck, BearerSession, BearerDevice, Logout, AdminRevokeSession,
       AddDevice, RevokeLookup, RevokePending, RevokeMark, CheckAccount, SetAccount
  <2> QED BY <2>1, <2>2, <2>3, <2>4
<1>3. ASSUME NEW p \in Handlers, NEW z, Arrives(p, z) PROVE HistOK
  BY <1>1, <1>3 DEF Arrives
<1>4. CASE OtherStep
  <2>1. CASE Tick
    <3>1. now' \in 1..MaxNow /\ now <= now'
      BY <1>0, <2>1, NowTyped DEF Tick
    <3> QED BY <2>1, <3>1 DEF Tick, HistOK
  <2> QED BY <1>1, <1>4, <2>1 DEF OtherStep, Challenge, SelfEnroll, CleanupSessions, CleanupDevices
<1> QED BY <1>1, <1>2, <1>3, <1>4, StepKinds DEF vars

\* The handlers' part of the types, and of RowInv as far as it is about handlers alone.
LEMMA HandlersTyped ==
  ASSUME SessionsAssumption, TypeOK, RowInv, [Next]_vars
  PROVE  /\ h' \in [Handlers -> Handling]
         /\ \A p \in Handlers : h'[p].dev \in known \cup {Never} /\ ActsFor(h'[p])
         /\ sent' \in 0..MaxSend
<1> DEFINE Ok(x) == x \in Handling /\ x.dev \in known \cup {Never} /\ ActsFor(x)
<1>1. h \in [Handlers -> Handling] /\ \A p \in Handlers : Ok(h[p])
  BY DEF TypeOK, RowInv
<1>2. ASSUME NEW p \in Handlers, NEW z, Ok(z), h' = [h EXCEPT ![p] = z]
      PROVE  h' \in [Handlers -> Handling] /\ \A q \in Handlers : Ok(h'[q])
  BY <1>1, <1>2
<1>3. h' \in [Handlers -> Handling] /\ \A q \in Handlers : Ok(h'[q])
  <2>1. ASSUME NEW p \in Handlers, HandlerStep(p)
        PROVE  h' \in [Handlers -> Handling] /\ \A q \in Handlers : Ok(h'[q])
    <3>1. PICK z \in Handling : h' = [h EXCEPT ![p] = z] /\ Follows(p, z)
      BY <2>1, HandlerMoves
    <3>2. CASE z = Idle
      <4>1. Ok(z)
        BY <3>2, IdleState DEF ActsFor
      <4> QED BY <1>2, <3>1, <4>1
    <3>3. CASE z # Idle
      <4>1. z.dev \in known \cup {Never}
        BY <1>1, <3>1, <3>3 DEF Follows, SameRequest
      <4>2. ActsFor(z)
        <5>1. CASE z.pc \in {"device", "consume"}
          BY <3>1, <3>3, <5>1 DEF Follows, ActsFor
        <5>2. CASE z.pc \in {"acting", "activate", "mint"}
          <6>1. z.acct = h[p].acct /\ h[p].pc \in {"device", "consume", "activate"}
            BY <3>1, <3>3, <5>2 DEF Follows, ConsumeNonce, ActivatePending, BearerDevice
          <6> QED BY <1>1, <6>1 DEF ActsFor
        <5> QED BY <5>1, <5>2 DEF ActsFor
      <4> QED BY <1>2, <3>1, <4>1, <4>2
    <3> QED BY <3>2, <3>3
  <2>2. ASSUME NEW p \in Handlers, NEW z, Arrives(p, z)
        PROVE  h' \in [Handlers -> Handling] /\ \A q \in Handlers : Ok(h'[q])
    <3>1. z.dev \in known
      BY <2>2 DEF Arrives, TypeOK, RowInv
    <3>2. Ok(z) /\ h' = [h EXCEPT ![p] = z]
      BY <2>2, <3>1 DEF Arrives, ActsFor
    <3> HIDE DEF Ok
    <3> QED BY <1>2, <3>2
  <2>3. OtherStep \/ UNCHANGED vars => h' = h
    BY DEF OtherStep, Challenge, SelfEnroll, Tick, CleanupSessions, CleanupDevices, vars
  <2>4. h' = h => h' \in [Handlers -> Handling] /\ \A q \in Handlers : Ok(h'[q])
    BY <1>1
  <2> HIDE DEF Ok
  <2> QED BY <2>1, <2>2, <2>3, <2>4, StepKinds
<1>4. sent' \in 0..MaxSend
  <2>1. sent \in 0..MaxSend /\ MaxSend \in Nat
    BY NowTyped DEF TypeOK
  <2>2. sent' = sent \/ (sent < MaxSend /\ sent' = sent + 1)
    <3>1. ASSUME NEW p \in Handlers, HandlerStep(p) PROVE sent' = sent
      BY <3>1 DEF HandlerStep, VerifyRead, ConsumeNonce, ActivatePending, VerifyMint, RefreshRead,
         RefreshReuse, RefreshCheck, RotateSession, BearerSession, BearerDevice, Logout,
         AdminRevokeSession, AddDevice, RevokeLookup, RevokePending, RevokeMark, RevokeCut,
         CheckAccount, SetAccount
    <3>2. ASSUME NEW p, NEW r, NEW c, NEW d, Arrive(p, r, c, d)
          PROVE  sent < MaxSend /\ sent' = sent + 1
      BY <3>2 DEF Arrive
    <3> QED BY <3>1, <3>2 DEF Next, vars, SendVerify, SendRefresh, SendBearer, Challenge,
            SelfEnroll, Tick, CleanupSessions, CleanupDevices
  <2> QED BY <2>1, <2>2
<1> QED BY <1>3, <1>4

LEMMA NotPendingKept ==
  ASSUME SessionsAssumption, TypeOK, RowInv, [Next]_vars, NEW d \in known \cup {Never}, NotPending(d)
  PROVE  d \in DOMAIN dev' => dev'[d].status # "pending"
<1>1. DevOK
  BY DevChanges
<1>2. CASE d = Never
  BY <1>1, <1>2 DEF DevOK, SessionsAssumption
<1>3. CASE d \in known
  <2> SUFFICES ASSUME d \in DOMAIN dev' PROVE dev'[d].status # "pending"
    OBVIOUS
  <2>1. d \in DOMAIN dev /\ dev[d] \in DeviceRow /\ dev[d].status # "pending"
    BY <1>1, <1>3 DEF DevOK, DevChange, NotPending, TypeOK
  <2>2. RevokedRow(dev[d]).status = "revoked"
    BY <2>1, RevokedRowTyped
  <2> QED BY <1>1, <1>3, <2>1, <2>2 DEF DevOK, DevChange
<1> QED BY <1>2, <1>3

LEMMA TypeStep ==
  ASSUME SessionsAssumption, TypeOK, RowInv, [Next]_vars
  PROVE  TypeOK'
<1>1. DevOK /\ SessOK /\ NonceOK /\ AcctOK /\ HistOK
  BY DevChanges, SessChanges, NonceChanges, AcctChanges, HistChanges
<1>2. ASSUME NEW s \in DOMAIN sess' PROVE sess'[s].dev \in DOMAIN dev'
  <2> DEFINE d == sess'[s].dev
  <2>1. SessChange(s)
    BY <1>1 DEF SessOK
  <2>2. CASE s \in DOMAIN sess /\ (sess'[s] = sess[s] \/ sess'[s] = [sess[s] EXCEPT !.revoked = TRUE])
    <3>1. sess[s] \in SessionRow /\ sess[s].dev \in DOMAIN dev /\ NotPending(sess[s].dev)
      BY <2>2 DEF TypeOK, RowInv
    <3>2. d = sess[s].dev
      BY <2>2, <3>1 DEF SessionRow
    <3> QED BY <2>2, <3>1, <3>2, DevicesGo DEF NotPending
  <2>3. ASSUME NEW p \in Handlers, Rotates(p, s) PROVE d \in DOMAIN dev'
    BY <2>3 DEF Rotates, RotateSession, CanRotate, TypeOK
  <2>4. ASSUME NEW p \in Handlers, MintsAs(p, s) PROVE d \in DOMAIN dev'
    BY <2>4 DEF MintsAs, VerifyMint
  <2> QED BY <2>1, <2>2, <2>3, <2>4 DEF SessChange
<1>3. minted' \subseteq Nonces \X Pairs
  <2>1. CASE minted' = minted
    BY <2>1 DEF TypeOK
  <2>2. ASSUME NEW p \in Handlers, h[p].pc = "mint", pairs + 1 \in Pairs,
               minted' = minted \cup {<<h[p].req.nonce, pairs + 1>>}
        PROVE  minted' \subseteq Nonces \X Pairs
    <3>1. h[p].req.nonce \in Nonces
      BY <2>2 DEF RowInv, Redeems, TypeOK
    <3> QED BY <2>2, <3>1 DEF TypeOK
  <2> QED BY <1>1, <2>1, <2>2 DEF HistOK
<1>4. rotated' \subseteq Pairs \X Pairs \X Pairs
  <2>1. CASE rotated' = rotated
    BY <2>1 DEF TypeOK
  <2>2. ASSUME NEW p \in Handlers, Rotates(p, h[p].req.sid)
        PROVE  rotated' \subseteq Pairs \X Pairs \X Pairs
    <3> DEFINE s == h[p].req.sid
               k == h[p].req.pair
    <3>1. s \in DOMAIN sess /\ k = sess[s].pair /\ rotated' = rotated \cup {<<s, k, pairs + 1>>}
      BY <2>2 DEF Rotates, CanRotate
    <3>2. s \in Pairs /\ k \in Pairs
      BY <3>1 DEF TypeOK, SessionRow
    <3>3. pairs + 1 \in Pairs
      BY <2>2, NowTyped DEF Rotates, RotateSession, TypeOK, Pairs
    <3> HIDE DEF s, k
    <3> QED BY <3>1, <3>2, <3>3 DEF TypeOK
  <2> QED BY <1>1, <2>1, <2>2 DEF HistOK
<1>5. gone' \subseteq known'
  <2>1. CASE gone' = gone
    BY <1>1, <2>1 DEF TypeOK, DevOK
  <2>2. ASSUME NEW p \in Handlers, h[p].pc = "cut", gone' = gone \cup {h[p].req.target}
        PROVE  gone' \subseteq known'
    <3>1. h[p].req.target \in known
      BY <2>2 DEF RowInv, Revokes
    <3> QED BY <1>1, <2>2, <3>1 DEF TypeOK, DevOK
  <2> QED BY <1>1, <2>1, <2>2 DEF HistOK
<1>6. DOMAIN nonce' \subseteq Nonces
  <2>1. PICK m \in 0..MaxNonce : DOMAIN nonce' = 1..m
    BY <1>1 DEF NonceOK
  <2> QED BY <2>1, NowTyped DEF Nonces
<1>7. h' \in [Handlers -> Handling] /\ sent' \in 0..MaxSend
  BY HandlersTyped
<1>8. /\ now' \in 1..MaxNow /\ pairs' \in 0..MaxPair
      /\ acct' \in [Accounts -> [status : {"active", "disabled"}, owner : BOOLEAN]]
  BY <1>1 DEF HistOK, SessOK, AcctOK
<1>9. /\ DOMAIN dev' \subseteq known' /\ known' \subseteq Devices
      /\ \A d \in DOMAIN dev' : dev'[d] \in DeviceRow
  BY <1>1 DEF DevOK
<1>10. DOMAIN sess' \subseteq Pairs /\ \A s \in DOMAIN sess' : sess'[s] \in SessionRow
  BY <1>1 DEF SessOK
<1>11. \A n \in DOMAIN nonce' : nonce'[n] \in NonceRow
  BY <1>1 DEF NonceOK
<1> QED BY <1>2, <1>3, <1>4, <1>5, <1>6, <1>7, <1>8, <1>9, <1>10, <1>11 DEF TypeOK

LEMMA RowStep ==
  ASSUME SessionsAssumption, TypeOK, RowInv, [Next]_vars
  PROVE  RowInv'
<1>1. DevOK /\ SessOK /\ NonceOK
  BY DevChanges, SessChanges, NonceChanges
<1>2. ASSUME NEW s \in DOMAIN sess' PROVE sess'[s].dev \in DOMAIN dev' => dev'[sess'[s].dev].status # "pending"
  <2>1. SessChange(s)
    BY <1>1 DEF SessOK
  <2>2. CASE s \in DOMAIN sess /\ sess'[s].dev = sess[s].dev
    <3>1. NotPending(sess[s].dev) /\ sess[s].dev \in known
      BY <2>2 DEF RowInv, TypeOK
    <3>2. sess[s].dev \in DOMAIN dev' => dev'[sess[s].dev].status # "pending"
      BY <3>1, NotPendingKept
    <3> QED BY <2>2, <3>2 DEF NotPending
  <2>3. ASSUME NEW p \in Handlers, MintsAs(p, s)
        PROVE  sess'[s].dev \in DOMAIN dev' => dev'[sess'[s].dev].status # "pending"
    <3>1. NotPending(h[p].dev) /\ dev' = dev /\ sess'[s].dev = h[p].dev
      BY <2>3 DEF MintsAs, VerifyMint, RowInv, Mints
    <3> QED BY <3>1 DEF NotPending
  <2>4. ASSUME NEW p \in Handlers, Rotates(p, s) PROVE s \in DOMAIN sess /\ sess'[s].dev = sess[s].dev
    BY <2>4 DEF Rotates, CanRotate
  <2>5. ASSUME s \in DOMAIN sess, sess'[s] = sess[s] \/ sess'[s] = [sess[s] EXCEPT !.revoked = TRUE]
        PROVE  sess'[s].dev = sess[s].dev
    <3>1. sess[s] \in SessionRow
      BY <2>5 DEF TypeOK
    <3> QED BY <2>5, <3>1 DEF SessionRow
  <2> QED BY <2>1, <2>2, <2>3, <2>4, <2>5 DEF SessChange
<1>3. /\ \E n \in 0..MaxNonce : DOMAIN nonce' = 1..n
      /\ \A n \in DOMAIN nonce' : nonce'[n].dev \in known'
  BY <1>1 DEF NonceOK
<1>4. \A p \in Handlers : h'[p].dev \in known' \cup {Never} /\ ActsFor(h'[p])
  BY <1>1, HandlersTyped DEF DevOK
<1>5. ASSUME NEW x, x \in Handling, x.dev \in known \cup {Never}, Mints(x) /\ Redeems(x) /\ Revokes(x)
      PROVE  /\ x.pc = "mint" \/ (x.pc = "consume" /\ x.req.target = Never)
                  => (x.dev \in DOMAIN dev' => dev'[x.dev].status # "pending")
             /\ x.pc \in {"activate", "mint"} => x.req.nonce \in DOMAIN nonce'
             /\ x.pc = "cut" \/ (x.pc \in {"pending", "mark"} /\ x.req.op = "revoke")
                  => x.req.target \in known'
  <2>1. x.pc = "mint" \/ (x.pc = "consume" /\ x.req.target = Never)
          => (x.dev \in DOMAIN dev' => dev'[x.dev].status # "pending")
    BY <1>5, NotPendingKept DEF Mints
  <2>2. x.pc \in {"activate", "mint"} => x.req.nonce \in DOMAIN nonce'
    BY <1>1, <1>5 DEF Redeems, NonceOK
  <2>3. x.pc = "cut" \/ (x.pc \in {"pending", "mark"} /\ x.req.op = "revoke")
          => x.req.target \in known'
    BY <1>1, <1>5 DEF Revokes, DevOK
  <2> QED BY <2>1, <2>2, <2>3
<1> DEFINE Ok(x) == /\ x.pc = "mint" \/ (x.pc = "consume" /\ x.req.target = Never)
                         => (x.dev \in DOMAIN dev' => dev'[x.dev].status # "pending")
                    /\ x.pc \in {"activate", "mint"} => x.req.nonce \in DOMAIN nonce'
                    /\ x.pc = "cut" \/ (x.pc \in {"pending", "mark"} /\ x.req.op = "revoke")
                         => x.req.target \in known'
<1>6. \A q \in Handlers : Ok(h[q])
  BY <1>5 DEF RowInv, TypeOK
<1>7. h \in [Handlers -> Handling]
  BY DEF TypeOK
<1>8. ASSUME NEW p \in Handlers, HandlerStep(p) PROVE \A q \in Handlers : Ok(h'[q])
  <2>1. PICK z \in Handling : h' = [h EXCEPT ![p] = z] /\ Follows(p, z)
    BY <1>8, HandlerMoves
  <2> SUFFICES Ok(z)
    BY <1>6, <1>7, <2>1
  <2>2. z.pc \in {"mint", "consume", "activate", "cut", "pending", "mark"} => z # Idle
    BY IdleState
  <2>3. CASE z.pc = "mint"
    <3>1. ConsumeNonce(p) \/ ActivatePending(p)
      BY <2>1, <2>2, <2>3 DEF Follows
    <3>2. z.dev = h[p].dev /\ z.req.nonce = h[p].req.nonce /\ h[p] \in Handling
      BY <1>7, <2>1, <2>2, <2>3 DEF Follows, SameRequest
    <3>3. z.req.target = h[p].req.target
      BY <2>1, <2>2, <2>3 DEF Follows
    <3>4. CASE ConsumeNonce(p)
      <4>1. h[p].pc = "consume"
        BY <3>4 DEF ConsumeNonce
      <4>2. h'[p] = z /\ h'[p].pc = "mint"
        BY <1>7, <2>1, <2>3
      <4>3. Step(p, IF h[p].req.target = Never THEN "mint" ELSE "activate") /\ CanConsume(h[p].req.nonce)
        BY <3>4, <4>2, <1>7, IdleState DEF ConsumeNonce, Done
      <4>4. h'[p].pc = IF h[p].req.target = Never THEN "mint" ELSE "activate"
        BY <1>7, <3>2, <4>3 DEF Step, Handling
      <4>5. h[p].req.target = Never
        BY <4>2, <4>4
      <4>6. z.dev \in DOMAIN dev' => dev'[z.dev].status # "pending"
        BY <1>6, <3>2, <4>1, <4>5
      <4>7. z.req.nonce \in DOMAIN nonce'
        BY <1>1, <3>2, <4>3 DEF NonceOK, CanConsume
      <4> QED BY <2>3, <4>6, <4>7
    <3>5. CASE ActivatePending(p)
      <4>1. h[p].pc = "activate" /\ z.req.nonce \in DOMAIN nonce'
        BY <1>6, <3>2, <3>5 DEF ActivatePending
      <4>2. h'[p] = z /\ h'[p].pc = "mint"
        BY <1>7, <2>1, <2>3
      <4>3. CanActivate(h[p].dev) /\ dev' = [dev EXCEPT ![h[p].dev].status = "active",
                                             ![h[p].dev].expires = Never]
        BY <3>5, <4>2, <1>7, IdleState DEF ActivatePending, Done
      <4>4. h[p].dev \in DOMAIN dev /\ dev[h[p].dev] \in DeviceRow
        BY <4>3 DEF CanActivate, TypeOK
      <4>5. dev'[h[p].dev] = [dev[h[p].dev] EXCEPT !.status = "active", !.expires = Never]
        BY <4>3, <4>4
      <4>6. dev'[z.dev].status = "active"
        BY <3>2, <4>4, <4>5, ActivatedRow
      <4> QED BY <2>3, <4>1, <4>6
    <3> QED BY <3>1, <3>4, <3>5
  <2>4. CASE z.pc = "activate"
    <3>1. ConsumeNonce(p) /\ z.req.nonce = h[p].req.nonce
      BY <2>1, <2>2, <2>4 DEF Follows, SameRequest
    <3>2. CanConsume(h[p].req.nonce)
      <4>1. h'[p].pc = "activate"
        BY <1>7, <2>1, <2>4
      <4> QED BY <3>1, <4>1, <1>7, IdleState DEF ConsumeNonce, Done
    <3> QED BY <1>1, <2>4, <3>1, <3>2 DEF NonceOK, CanConsume
  <2>5. CASE z.pc = "consume"
    <3>1. VerifyRead(p) /\ z.dev = h[p].dev
      BY <2>1, <2>2, <2>5 DEF Follows, SameRequest
    <3>2. dev' = dev
      BY <3>1 DEF VerifyRead
    <3>3. ASSUME z.req.target = Never PROVE z.dev \in DOMAIN dev /\ dev[z.dev].status # "pending"
      <4>1. h'[p] = z
        BY <1>7, <2>1
      <4> DEFINE d == h[p].dev
                 g == IF dev[d].status = "pending" THEN d ELSE Never
      <4>2. /\ d \in DOMAIN dev
            /\ h' = [h EXCEPT ![p].pc = "consume", ![p].acct = dev[d].acct, ![p].req.target = g]
        BY <3>1, <4>1, <2>5, <1>7, IdleState DEF VerifyRead, Done
      <4> HIDE DEF g
      <4>3. h[p] \in Handling /\ h[p].req \in Request
        BY <1>7 DEF Handling
      <4>4. h'[p].req = [h[p].req EXCEPT !.target = g]
        BY <1>7, <4>2, <4>3 DEF Handling
      <4>5. h'[p].req.target = g
        BY <4>3, <4>4 DEF Request
      <4>6. d # Never
        BY <4>2 DEF TypeOK, SessionsAssumption
      <4> QED BY <3>1, <3>3, <4>1, <4>2, <4>5, <4>6 DEF g
    <3> QED BY <2>5, <3>2, <3>3
  <2>6. CASE z.pc \in {"pending", "mark", "cut"}
    <3>1. z.req.target = h[p].req.target /\ z.req.op = h[p].req.op
      BY <2>1, <2>2, <2>6 DEF Follows, SameRequest
    <3>2. ASSUME z.pc = "cut" \/ z.req.op = "revoke"
          PROVE  RevokeLookup(p) \/ RevokePending(p) \/ RevokeMark(p)
      BY <2>1, <2>2, <2>6, <3>1, <3>2 DEF Follows, CheckAccount, OwnerOps
    <3>3. CASE RevokePending(p) \/ RevokeMark(p)
      BY <1>6, <2>6, <3>1, <3>3 DEF RevokePending, RevokeMark
    <3>4. CASE RevokeLookup(p)
      <4>1. h'[p] = z
        BY <1>7, <2>1
      <4>2. h[p].req.target \in DOMAIN dev
        BY <2>6, <3>4, <4>1, <1>7, IdleState DEF RevokeLookup, Done
      <4>3. z.req.target \in known'
        BY <1>1, <3>1, <4>2 DEF DevOK, TypeOK
      <4> QED BY <2>6, <4>3
    <3> QED BY <2>6, <3>2, <3>3, <3>4
  <2> QED BY <2>3, <2>4, <2>5, <2>6
<1>9. ASSUME NEW p \in Handlers, NEW z, Arrives(p, z) PROVE \A q \in Handlers : Ok(h'[q])
  <2>1. Ok(z) /\ h' = [h EXCEPT ![p] = z]
    BY <1>9 DEF Arrives
  <2> HIDE DEF Ok
  <2> QED BY <1>6, <1>7, <2>1
<1>10. OtherStep \/ UNCHANGED vars => h' = h
  BY DEF OtherStep, Challenge, SelfEnroll, Tick, CleanupSessions, CleanupDevices, vars
<1>11. \A q \in Handlers : Ok(h'[q])
  <2> HIDE DEF Ok
  <2> QED BY <1>6, <1>8, <1>9, <1>10, StepKinds
<1>12. \A q \in Handlers : Mints(h[q])' /\ Redeems(h[q])' /\ Revokes(h[q])'
  BY <1>11 DEF Mints, Redeems, Revokes, NotPending
<1>13. \A s \in DOMAIN sess' : NotPending(sess[s].dev)'
  BY <1>2 DEF NotPending
<1>14. \A q \in Handlers : ActsFor(h[q])'
  BY <1>4 DEF ActsFor
<1> QED BY <1>3, <1>4, <1>12, <1>13, <1>14 DEF RowInv

(***************************************************************************)
(* Types and rows at the start                                             *)
(***************************************************************************)
LEMMA InitRows ==
  ASSUME SessionsAssumption, Init
  PROVE  TypeOK /\ RowInv
<1>1. /\ MaxSend \in Nat /\ MaxPair \in Nat /\ MaxNonce \in Nat /\ MaxNow \in Nat /\ MaxNow # 0
      /\ FirstDevice \in [Accounts -> Devices]
  BY DEF SessionsAssumption
<1>2. DOMAIN sess = {} /\ DOMAIN nonce = {}
  BY DEF Init
<1>3. h \in [Handlers -> Handling] /\ \A p \in Handlers : h[p] = Idle
  BY IdleState DEF Init
<1>4. /\ DOMAIN dev = {FirstDevice[a] : a \in Accounts} /\ known = DOMAIN dev
      /\ known \subseteq Devices
  BY <1>1 DEF Init
<1>5. ASSUME NEW d \in DOMAIN dev PROVE dev[d] \in DeviceRow
  <2> DEFINE a == CHOOSE x \in Accounts : FirstDevice[x] = d
  <2>1. a \in Accounts
    BY <1>4
  <2>2. dev[d] = [acct |-> a, status |-> "active", expires |-> Never]
    BY <1>4 DEF Init
  <2> HIDE DEF a
  <2> QED BY <2>1, <2>2 DEF DeviceRow, Never
<1>6. acct \in [Accounts -> [status : {"active", "disabled"}, owner : BOOLEAN]]
  <2>1. \A a \in Accounts : (a \in Owners) \in BOOLEAN
    OBVIOUS
  <2> QED BY <2>1 DEF Init
<1>7. now \in 1..MaxNow /\ pairs \in 0..MaxPair /\ sent \in 0..MaxSend
  BY <1>1 DEF Init
<1>8. minted = {} /\ rotated = {} /\ gone = {}
  BY DEF Init
<1>9. TypeOK
  BY <1>2, <1>3, <1>4, <1>5, <1>6, <1>7, <1>8 DEF TypeOK
<1>10. \E n \in 0..MaxNonce : DOMAIN nonce = 1..n
  <2>1. 0 \in 0..MaxNonce /\ 1..0 = {}
    BY <1>1
  <2> QED BY <1>2, <2>1
<1>11. \A p \in Handlers : /\ h[p].dev \in known \cup {Never}
                           /\ ActsFor(h[p]) /\ Mints(h[p]) /\ Redeems(h[p]) /\ Revokes(h[p])
  BY <1>3, IdleState DEF ActsFor, Mints, Redeems, Revokes
<1> QED BY <1>2, <1>9, <1>10, <1>11 DEF RowInv

(***************************************************************************)
(* One challenge, one session                                              *)
(***************************************************************************)
Redeeming == {"activate", "mint"}

(* A challenge that gave a session is used, and so is one that is about to *)
(* give one; no two handlers redeem the same, and none redeems an old one. *)
NonceInv ==
  /\ \A x \in minted : x[1] \in DOMAIN nonce /\ nonce[x[1]].used
  /\ \A p \in Handlers : h[p].pc \in Redeeming =>
       /\ nonce[h[p].req.nonce].used
       /\ \A x \in minted : x[1] # h[p].req.nonce
       /\ \A q \in Handlers \ {p} : h[q].pc \in Redeeming => h[q].req.nonce # h[p].req.nonce
  /\ NonceOnce

LEMMA RedeemersMove ==
  ASSUME SessionsAssumption, TypeOK, RowInv, [Next]_vars, NEW q \in Handlers,
         h'[q].pc \in Redeeming
  PROVE  \/ h[q].pc \in Redeeming /\ h'[q].req.nonce = h[q].req.nonce
         \/ /\ CanConsume(h'[q].req.nonce) /\ nonce'[h'[q].req.nonce].used /\ minted' = minted
            /\ \A r \in Handlers \ {q} : h'[r] = h[r]
<1> DEFINE Goal == \/ h[q].pc \in Redeeming /\ h'[q].req.nonce = h[q].req.nonce
                   \/ /\ CanConsume(h'[q].req.nonce) /\ nonce'[h'[q].req.nonce].used
                      /\ minted' = minted /\ \A r \in Handlers \ {q} : h'[r] = h[r]
<1>1. h \in [Handlers -> Handling]
  BY DEF TypeOK
<1>2. ASSUME h'[q] = h[q] PROVE Goal
  BY <1>2
<1>3. ASSUME NEW p \in Handlers, HandlerStep(p) PROVE Goal
  <2>1. PICK z \in Handling : h' = [h EXCEPT ![p] = z] /\ Follows(p, z)
    BY <1>3, HandlerMoves
  <2>2. CASE q # p
    BY <1>1, <1>2, <2>1, <2>2
  <2>3. CASE q = p
    <3>1. h'[q] = z /\ z # Idle
      BY <1>1, <2>1, <2>3, IdleState DEF Redeeming
    <3>2. z.req.nonce = h[p].req.nonce /\ (ConsumeNonce(p) \/ ActivatePending(p))
      BY <2>1, <3>1 DEF Follows, SameRequest, Redeeming
    <3>3. CASE ActivatePending(p)
      BY <2>3, <3>1, <3>2, <3>3 DEF ActivatePending, Redeeming
    <3>4. CASE ConsumeNonce(p)
      <4> DEFINE n == h[p].req.nonce
      <4>1. CanConsume(n) /\ nonce' = [nonce EXCEPT ![n].used = TRUE] /\ minted' = minted
        BY <1>1, <2>3, <3>1, <3>4, IdleState DEF ConsumeNonce, Done
      <4>2. n \in DOMAIN nonce /\ nonce[n] \in NonceRow
        BY <4>1 DEF CanConsume, TypeOK
      <4>3. nonce'[n] = [nonce[n] EXCEPT !.used = TRUE]
        BY <4>1, <4>2
      <4>4. nonce'[n].used
        BY <4>2, <4>3, UsedRow
      <4>5. \A r \in Handlers \ {q} : h'[r] = h[r]
        BY <1>1, <2>1, <2>3
      <4> QED BY <2>3, <3>1, <3>2, <4>1, <4>4, <4>5
    <3> QED BY <3>2, <3>3, <3>4
  <2> QED BY <2>2, <2>3
<1>4. ASSUME NEW p \in Handlers, NEW z, Arrives(p, z) PROVE Goal
  <2>1. h'[q] = h[q] \/ h'[q].pc \in {"read", "session"}
    BY <1>1, <1>4 DEF Arrives
  <2> QED BY <1>2, <2>1 DEF Redeeming
<1>5. OtherStep \/ UNCHANGED vars => h' = h
  BY DEF OtherStep, Challenge, SelfEnroll, Tick, CleanupSessions, CleanupDevices, vars
<1>6. Goal
  <2> HIDE DEF Goal
  <2> QED BY <1>2, <1>3, <1>4, <1>5, StepKinds
<1> QED BY <1>6

LEMMA NonceStep ==
  ASSUME SessionsAssumption, TypeOK, RowInv, NonceInv, [Next]_vars
  PROVE  NonceInv'
<1>1. NonceOK /\ HistOK
  BY NonceChanges, HistChanges
<1>2. \A n \in DOMAIN nonce : nonce[n].used => n \in DOMAIN nonce' /\ nonce'[n].used
  BY <1>1 DEF NonceOK
<1>3. \A x \in minted : x[1] \in DOMAIN nonce' /\ nonce'[x[1]].used
  BY <1>2 DEF NonceInv
<1>4. \A p \in Handlers : h[p].pc \in Redeeming =>
        /\ h[p].req.nonce \in DOMAIN nonce /\ nonce[h[p].req.nonce].used
        /\ nonce'[h[p].req.nonce].used /\ h[p].req.nonce \in DOMAIN nonce'
  BY <1>2 DEF NonceInv, RowInv, Redeems, Redeeming
<1>5. ASSUME NEW p \in Handlers, h'[p].pc \in Redeeming
      PROVE  /\ nonce'[h'[p].req.nonce].used
             /\ \A x \in minted' : x[1] # h'[p].req.nonce
             /\ \A q \in Handlers \ {p} : h'[q].pc \in Redeeming => h'[q].req.nonce # h'[p].req.nonce
  <2> DEFINE n == h'[p].req.nonce
             Old(r) == h[r].pc \in Redeeming /\ h'[r].req.nonce = h[r].req.nonce
             New(r) == /\ CanConsume(h'[r].req.nonce) /\ nonce'[h'[r].req.nonce].used
                       /\ minted' = minted /\ \A o \in Handlers \ {r} : h'[o] = h[o]
  <2>1. \A r \in Handlers : h'[r].pc \in Redeeming => Old(r) \/ New(r)
    BY RedeemersMove
  <2>2. nonce'[n].used
    BY <1>4, <1>5, <2>1
  <2>3. ASSUME NEW x \in minted' PROVE x[1] # n
    <3>1. CASE x \in minted
      <4>1. CASE Old(p)
        BY <3>1, <4>1 DEF NonceInv
      <4>2. CASE New(p)
        BY <3>1, <4>2 DEF NonceInv, CanConsume
      <4> QED BY <1>5, <2>1, <4>1, <4>2
    <3>2. CASE x \notin minted
      <4>1. PICK q \in Handlers : h[q].pc = "mint" /\ h'[q] = Idle /\ x = <<h[q].req.nonce, pairs + 1>>
        BY <1>1, <2>3, <3>2 DEF HistOK
      <4>2. q # p /\ Old(p)
        BY <1>5, <2>1, <2>3, <3>2, <4>1, IdleState DEF Redeeming
      <4>3. h[q].req.nonce # h[p].req.nonce
        BY <4>1, <4>2 DEF NonceInv, Redeeming
      <4> QED BY <4>1, <4>2, <4>3
    <3> QED BY <3>1, <3>2
  <2>4. ASSUME NEW q \in Handlers \ {p}, h'[q].pc \in Redeeming PROVE h'[q].req.nonce # n
    <3>1. CASE Old(p) /\ Old(q)
      BY <2>4, <3>1 DEF NonceInv
    <3>2. CASE New(p)
      <4>1. h'[q] = h[q] /\ h[q].pc \in Redeeming
        BY <2>4, <3>2
      <4> QED BY <1>4, <3>2, <4>1 DEF CanConsume
    <3>3. CASE New(q)
      <4>1. h'[p] = h[p] /\ h[p].pc \in Redeeming
        BY <1>5, <2>4, <3>3
      <4> QED BY <1>4, <3>3, <4>1 DEF CanConsume
    <3> QED BY <1>5, <2>1, <2>4, <3>1, <3>2, <3>3
  <2> QED BY <2>2, <2>3, <2>4
<1>6. CASE minted' = minted
  BY <1>3, <1>5, <1>6 DEF NonceInv, NonceOnce
<1>7. ASSUME NEW p \in Handlers, h[p].pc = "mint",
             minted' = minted \cup {<<h[p].req.nonce, pairs + 1>>}
      PROVE  NonceInv'
  <2>1. h[p].req.nonce \in DOMAIN nonce' /\ nonce'[h[p].req.nonce].used
    BY <1>4, <1>7 DEF Redeeming
  <2>2. \A x \in minted' : x[1] \in DOMAIN nonce' /\ nonce'[x[1]].used
    BY <1>3, <1>7, <2>1
  <2>3. \A x \in minted : x[1] # h[p].req.nonce
    BY <1>7 DEF NonceInv, Redeeming
  <2>4. NonceOnce'
    BY <1>7, <2>3 DEF NonceInv, NonceOnce
  <2> QED BY <1>5, <2>2, <2>4 DEF NonceInv
<1> QED BY <1>1, <1>6, <1>7 DEF HistOK

(***************************************************************************)
(* One exchange of a refresh token                                         *)
(***************************************************************************)
(* Pairs are numbered as they are issued, so a session's current pair is   *)
(* newer than every pair it was exchanged from.                            *)
RotInv ==
  /\ \A s \in DOMAIN sess : s <= pairs /\ sess[s].pair <= pairs
  /\ \A r \in rotated : /\ r[1] <= pairs
                        /\ r[1] \in DOMAIN sess => r[2] < sess[r[1]].pair
  /\ RefreshOnce

LEMMA RotStep ==
  ASSUME SessionsAssumption, TypeOK, RowInv, RotInv, [Next]_vars
  PROVE  RotInv'
<1>1. SessOK /\ HistOK
  BY SessChanges, HistChanges
<1>2. /\ pairs \in Nat /\ pairs' \in Nat /\ pairs <= pairs' /\ \A k \in Pairs : k \in Nat
  BY <1>1, NowTyped DEF SessOK, TypeOK, Pairs
<1>3. /\ \A s \in DOMAIN sess : s \in Nat /\ sess[s] \in SessionRow /\ sess[s].pair \in Nat
      /\ \A r \in rotated : r[1] \in Nat /\ r[2] \in Nat
  BY <1>2 DEF TypeOK, SessionRow
<1>4. ASSUME NEW s \in DOMAIN sess'
      PROVE  /\ s \in Nat /\ s <= pairs' /\ sess'[s].pair \in Nat /\ sess'[s].pair <= pairs'
             /\ s \in DOMAIN sess => sess[s].pair <= sess'[s].pair
             /\ s \notin DOMAIN sess => s > pairs
  <2>1. SessChange(s)
    BY <1>1 DEF SessOK
  <2>2. CASE s \in DOMAIN sess /\ (sess'[s] = sess[s] \/ sess'[s] = [sess[s] EXCEPT !.revoked = TRUE])
    <3>1. sess'[s].pair = sess[s].pair
      BY <1>3, <2>2 DEF SessionRow
    <3> QED BY <1>2, <1>3, <2>2, <3>1 DEF RotInv
  <2>3. ASSUME NEW p \in Handlers, Rotates(p, s)
        PROVE  s \in DOMAIN sess /\ pairs' = pairs + 1 /\ sess'[s].pair = pairs + 1
    BY <2>3 DEF Rotates, CanRotate
  <2>4. ASSUME NEW p \in Handlers, MintsAs(p, s)
        PROVE  s = pairs + 1 /\ pairs' = pairs + 1 /\ sess'[s].pair = pairs + 1
    BY <2>4 DEF MintsAs
  <2>5. CASE s \in DOMAIN sess /\ pairs' = pairs + 1 /\ sess'[s].pair = pairs + 1
    BY <1>2, <1>3, <2>5 DEF RotInv
  <2>6. CASE s = pairs + 1 /\ pairs' = pairs + 1 /\ sess'[s].pair = pairs + 1
    BY <1>2, <1>3, <2>6 DEF RotInv
  <2> QED BY <2>1, <2>2, <2>3, <2>4, <2>5, <2>6 DEF SessChange
<1>5. ASSUME NEW r \in rotated
      PROVE  r[1] <= pairs' /\ (r[1] \in DOMAIN sess' => r[2] < sess'[r[1]].pair)
  <2>1. r[1] <= pairs /\ r[1] \in Nat /\ r[2] \in Nat
    BY <1>3 DEF RotInv
  <2>2. ASSUME r[1] \in DOMAIN sess' PROVE r[2] < sess'[r[1]].pair
    <3>1. r[1] \in DOMAIN sess
      BY <1>2, <1>4, <2>1, <2>2
    <3>2. r[2] < sess[r[1]].pair
      BY <3>1 DEF RotInv
    <3> QED BY <1>3, <1>4, <2>1, <2>2, <3>1, <3>2
  <2> QED BY <1>2, <2>1, <2>2
<1>6. CASE rotated' = rotated
  BY <1>4, <1>5, <1>6 DEF RotInv, RefreshOnce
<1>7. ASSUME NEW p \in Handlers, Rotates(p, h[p].req.sid) PROVE RotInv'
  <2> DEFINE s == h[p].req.sid
             k == h[p].req.pair
  <2>1. /\ s \in DOMAIN sess /\ sess[s].pair = k /\ pairs' = pairs + 1
        /\ rotated' = rotated \cup {<<s, k, pairs + 1>>} /\ sess'[s].pair = pairs + 1
    BY <1>7 DEF Rotates, CanRotate
  <2>2. s <= pairs' /\ k < sess'[s].pair
    BY <1>2, <1>3, <2>1 DEF RotInv
  <2>3. ASSUME NEW r \in rotated PROVE r[1] # s \/ r[2] # k
    <3>1. r[1] = s => r[2] < k
      BY <2>1 DEF RotInv
    <3> QED BY <1>3, <2>1, <3>1
  <2> HIDE DEF s, k
  <2>4. RefreshOnce'
    BY <2>1, <2>3 DEF RotInv, RefreshOnce
  <2>5. \A r \in rotated' : r[1] <= pairs' /\ (r[1] \in DOMAIN sess' => r[2] < sess'[r[1]].pair)
    BY <1>5, <2>1, <2>2
  <2> QED BY <1>4, <2>4, <2>5 DEF RotInv
<1> QED BY <1>1, <1>6, <1>7 DEF HistOK

(***************************************************************************)
(* A revoked device stays out                                              *)
(***************************************************************************)
Revd(d) == dev[d].status = "revoked" /\ dev[d].expires # Never /\ dev[d].expires <= now
Early == {"idle", "session", "device", "read", "check", "reuse"}

(* A device whose revocation was answered, or is about to be, is revoked   *)
(* and expired: the expiry is what stops a refresh.  A request that came   *)
(* later has passed no check of the device.                                *)
GoneInv ==
  /\ \A d \in gone \cap DOMAIN dev : Revd(d)
  /\ \A p \in Handlers : h[p].pc = "cut" /\ h[p].req.target \in DOMAIN dev => Revd(h[p].req.target)
  /\ \A p \in Handlers : h[p].late => h[p].dev \in gone /\ h[p].pc \in Early

LEMMA RevdKept ==
  ASSUME SessionsAssumption, TypeOK, RowInv, [Next]_vars, NEW d \in known, d \in DOMAIN dev',
         d \in DOMAIN dev => Revd(d)
  PROVE  dev'[d].status = "revoked" /\ dev'[d].expires # Never /\ dev'[d].expires <= now'
<1>1. DevOK /\ HistOK
  BY DevChanges, HistChanges
<1>2. d \in DOMAIN dev /\ dev[d] \in DeviceRow /\ dev[d].expires \in Nat /\ DevChange(d)
  BY <1>1 DEF DevOK, DevChange, TypeOK, DeviceRow
<1>3. now \in Nat /\ now' \in Nat /\ now <= now'
  BY <1>1, NowTyped DEF HistOK
<1>4. CASE dev'[d] = dev[d]
  BY <1>2, <1>3, <1>4 DEF Revd
<1>5. CASE dev'[d] = RevokedRow(dev[d]) /\ now' = now
  BY <1>2, <1>5, RevokedRowTyped
<1> QED BY <1>2, <1>4, <1>5 DEF DevChange, Revd

LEMMA GoneStep ==
  ASSUME SessionsAssumption, TypeOK, RowInv, GoneInv, [Next]_vars
  PROVE  GoneInv'
<1>1. DevOK /\ HistOK
  BY DevChanges, HistChanges
<1>2. h \in [Handlers -> Handling] /\ gone \subseteq known /\ gone \subseteq gone'
  BY <1>1 DEF TypeOK, HistOK
<1> DEFINE RevdThen(d) == dev'[d].status = "revoked" /\ dev'[d].expires # Never /\ dev'[d].expires <= now'
<1>3. ASSUME NEW d \in known, d \in DOMAIN dev', d \in DOMAIN dev => Revd(d) PROVE RevdThen(d)
  BY <1>3, RevdKept
<1>4. ASSUME NEW d \in gone' \cap DOMAIN dev' PROVE RevdThen(d)
  <2>1. d \in known /\ (d \in DOMAIN dev => Revd(d))
    BY <1>1, <1>2, <1>4 DEF HistOK, GoneInv, RowInv, Revokes
  <2> HIDE DEF RevdThen
  <2> QED BY <1>3, <1>4, <2>1
<1> DEFINE Ok(x) == /\ x.pc = "cut" /\ x.req.target \in DOMAIN dev' => RevdThen(x.req.target)
                    /\ x.late => x.dev \in gone' /\ x.pc \in Early
<1>5. ASSUME NEW q \in Handlers PROVE Ok(h[q])
  <2>1. h[q].pc = "cut" => h[q].req.target \in known /\ (h[q].req.target \in DOMAIN dev => Revd(h[q].req.target))
    BY DEF GoneInv, RowInv, Revokes
  <2>2. h[q].pc = "cut" /\ h[q].req.target \in DOMAIN dev' => RevdThen(h[q].req.target)
    <3> HIDE DEF RevdThen
    <3> QED BY <1>3, <2>1
  <2> HIDE DEF RevdThen
  <2> QED BY <1>2, <2>2 DEF GoneInv
<1>6. ASSUME NEW p \in Handlers, HandlerStep(p) PROVE \A q \in Handlers : Ok(h'[q])
  <2>1. PICK z \in Handling : h' = [h EXCEPT ![p] = z] /\ Follows(p, z)
    BY <1>6, HandlerMoves
  <2>2. h'[p] = z /\ \A q \in Handlers \ {p} : h'[q] = h[q]
    BY <1>2, <2>1
  <2>3. ASSUME z.pc = "cut", z.req.target \in DOMAIN dev' PROVE RevdThen(z.req.target)
    <3>1. RevokeMark(p) /\ z.req.target = h[p].req.target
      BY <2>1, <2>3, IdleState DEF Follows
    <3> DEFINE d == h[p].req.target
    <3>2. d \in DOMAIN dev /\ dev'[d] = RevokedRow(dev[d]) /\ now' = now /\ dev[d] \in DeviceRow
      BY <2>3, <3>1 DEF RevokeMark, TypeOK
    <3> QED BY <3>1, <3>2, RevokedRowTyped
  <2>4. ASSUME z.late PROVE z.dev \in gone' /\ z.pc \in Early
    <3>1. z # Idle
      BY <2>4, IdleState
    <3>2. h[p].late /\ z.dev = h[p].dev /\ h[p].dev \in gone /\ h[p].pc \in Early
      BY <2>1, <2>4, <3>1 DEF Follows, SameRequest, GoneInv
    <3> DEFINE d == h[p].dev
    <3>3. /\ d \in DOMAIN dev => Revd(d) /\ Expired(dev[d].expires)
          /\ ~DeviceLive(d)
      BY <3>2 DEF GoneInv, Revd, Expired, DeviceLive
    <3>4. ASSUME z.pc \notin Early PROVE FALSE
      <4>1. h'[p].pc \notin Early
        BY <2>2, <3>4
      <4>2. ~Done(p)
        BY <1>2, <4>1, IdleState DEF Done, Early
      <4>3. ~VerifyRead(p)
        BY <3>3, <4>2 DEF VerifyRead, Revd
      <4>4. ~RefreshCheck(p)
        BY <3>3, <4>2 DEF RefreshCheck
      <4>5. ~BearerDevice(p)
        BY <3>3, <4>2 DEF BearerDevice
      <4>6. /\ ~ConsumeNonce(p) /\ ~ActivatePending(p) /\ ~RevokeLookup(p) /\ ~RevokePending(p)
            /\ ~CheckAccount(p) /\ ~RevokeMark(p)
        BY <3>2 DEF Early, ConsumeNonce, ActivatePending, RevokeLookup, Acting, RevokePending,
                    CheckAccount, RevokeMark
      <4> QED BY <2>1, <3>1, <3>4, <4>3, <4>4, <4>5, <4>6 DEF Follows, Early
    <3> QED BY <1>2, <3>2, <3>4
  <2> HIDE DEF RevdThen
  <2> QED BY <1>5, <2>2, <2>3, <2>4
<1>7. ASSUME NEW p \in Handlers, NEW z, Arrives(p, z) PROVE \A q \in Handlers : Ok(h'[q])
  <2>1. h'[p] = z /\ \A q \in Handlers \ {p} : h'[q] = h[q]
    BY <1>2, <1>7 DEF Arrives
  <2>2. Ok(z)
    BY <1>2, <1>7 DEF Arrives, Early
  <2> HIDE DEF Ok
  <2> QED BY <1>5, <2>1, <2>2
<1>8. OtherStep \/ UNCHANGED vars => h' = h
  BY DEF OtherStep, Challenge, SelfEnroll, Tick, CleanupSessions, CleanupDevices, vars
<1>9. \A q \in Handlers : Ok(h'[q])
  <2> HIDE DEF Ok
  <2> QED BY <1>5, <1>6, <1>7, <1>8, StepKinds
<1> QED BY <1>4, <1>9 DEF GoneInv, Revd

(***************************************************************************)
(* The claim owner                                                         *)
(***************************************************************************)
(* The check that spares the claim owner is not undone between the check   *)
(* and the update, whatever the number of owners became meanwhile.         *)
OwnInv ==
  /\ acct[ClaimOwner].owner /\ acct[ClaimOwner].status = "active"
  /\ \A p \in Handlers : h[p].pc = "mark" /\ h[p].req.op \in {"demote", "disable"}
                           => h[p].req.target # ClaimOwner

LEMMA OwnStep ==
  ASSUME SessionsAssumption, TypeOK, RowInv, OwnInv, [Next]_vars
  PROVE  OwnInv'
<1>1. AcctOK /\ ClaimOwner \in Accounts /\ h \in [Handlers -> Handling]
  BY AcctChanges DEF SessionsAssumption, TypeOK
<1>2. \A p \in Handlers : ~Lowers(p, ClaimOwner)
  BY DEF Lowers, SetAccount, OwnInv
<1>3. acct'[ClaimOwner].owner /\ acct'[ClaimOwner].status = "active"
  BY <1>1, <1>2 DEF AcctOK, OwnInv
<1> DEFINE Ok(x) == x.pc = "mark" /\ x.req.op \in {"demote", "disable"} => x.req.target # ClaimOwner
<1>4. ASSUME NEW p \in Handlers, HandlerStep(p) PROVE \A q \in Handlers : Ok(h'[q])
  <2>1. PICK z \in Handling : h' = [h EXCEPT ![p] = z] /\ Follows(p, z)
    BY <1>4, HandlerMoves
  <2>2. h'[p] = z /\ \A q \in Handlers \ {p} : h'[q] = h[q]
    BY <1>1, <2>1
  <2>3. ASSUME z.pc = "mark", z.req.op \in {"demote", "disable"} PROVE z.req.target # ClaimOwner
    <3>1. z.req.target = h[p].req.target /\ z.req.op = h[p].req.op
          /\ (RevokePending(p) \/ CheckAccount(p))
      BY <2>1, <2>3, IdleState DEF Follows, SameRequest
    <3>2. CheckAccount(p) /\ ~Done(p)
      BY <1>1, <2>2, <2>3, <3>1, IdleState DEF RevokePending, Done
    <3> QED BY <2>3, <3>1, <3>2 DEF CheckAccount, MayLower
  <2> QED BY <2>2, <2>3 DEF OwnInv
<1>5. ASSUME NEW p \in Handlers, NEW z, Arrives(p, z) PROVE \A q \in Handlers : Ok(h'[q])
  <2>1. h'[p] = z /\ z.pc # "mark" /\ \A q \in Handlers \ {p} : h'[q] = h[q]
    BY <1>1, <1>5 DEF Arrives
  <2> QED BY <2>1 DEF OwnInv
<1>6. OtherStep \/ UNCHANGED vars => h' = h
  BY DEF OtherStep, Challenge, SelfEnroll, Tick, CleanupSessions, CleanupDevices, vars
<1>7. \A q \in Handlers : Ok(h'[q])
  <2>1. \A q \in Handlers : Ok(h[q])
    BY DEF OwnInv
  <2> HIDE DEF Ok
  <2> QED BY <1>4, <1>5, <1>6, <2>1, StepKinds
<1> QED BY <1>3, <1>7 DEF OwnInv

(***************************************************************************)
(* What a step does to a session that is revoked, or alive                 *)
(***************************************************************************)
LEMMA FrozenStep ==
  ASSUME SessionsAssumption, TypeOK, RowInv, RotInv, [Next]_vars
  PROVE  RevokedFrozenStep
<1> SUFFICES ASSUME NEW s \in DOMAIN sess \cap DOMAIN sess', sess[s].revoked
             PROVE  sess'[s] = sess[s]
  BY DEF RevokedFrozenStep
<1>1. SessChange(s)
  BY SessChanges DEF SessOK
<1>2. sess[s] \in SessionRow /\ s \in Nat /\ s <= pairs /\ pairs \in Nat
  BY NowTyped DEF TypeOK, RotInv, Pairs
<1>3. [sess[s] EXCEPT !.revoked = TRUE] = sess[s]
  <2> DEFINE r == sess[s]
  <2>1. r \in SessionRow /\ r.revoked = TRUE
    BY <1>2 DEF SessionRow
  <2> HIDE DEF r
  <2>2. [r EXCEPT !.revoked = TRUE] = r
    BY <2>1 DEF SessionRow
  <2> QED BY <2>2 DEF r
<1>4. \A p \in Handlers : ~Rotates(p, s) /\ ~MintsAs(p, s)
  BY <1>2 DEF Rotates, CanRotate, MintsAs
<1> QED BY <1>1, <1>3, <1>4 DEF SessChange

LEMMA SessionsGo ==
  ASSUME SessionsAssumption, TypeOK, [Next]_vars, NEW s \in DOMAIN sess \ DOMAIN sess'
  PROVE  \/ sess[s].refreshEnd < now
         \/ /\ dev[sess[s].dev].expires # Never
            /\ dev[sess[s].dev].expires + Retention < now
<1> DEFINE Goal == \/ sess[s].refreshEnd < now
                   \/ /\ dev[sess[s].dev].expires # Never
                      /\ dev[sess[s].dev].expires + Retention < now
<1>1. sess' # sess
  OBVIOUS
<1>2. ASSUME NEW p \in Handlers, HandlerStep(p) PROVE FALSE
  <2>1. CASE RefreshReuse(p) \/ Logout(p) \/ AdminRevokeSession(p) \/ RevokeCut(p)
    <3>1. DOMAIN sess' = DOMAIN sess
      BY <2>1 DEF RefreshReuse, Logout, AdminRevokeSession, RevokeCut, Revoked
    <3> QED BY <3>1
  <2>2. CASE VerifyMint(p)
    BY <1>1, <2>2 DEF VerifyMint, Put
  <2>3. CASE RotateSession(p)
    BY <1>1, <2>3 DEF RotateSession
  <2> QED BY <1>1, <1>2, <2>1, <2>2, <2>3 DEF HandlerStep, VerifyRead, ConsumeNonce,
       ActivatePending, RefreshRead, RefreshCheck, BearerSession, BearerDevice, AddDevice,
       RevokeLookup, RevokePending, RevokeMark, CheckAccount, SetAccount
<1>3. ASSUME NEW p \in Handlers, NEW z, Arrives(p, z) PROVE FALSE
  BY <1>1, <1>3 DEF Arrives
<1>4. CASE OtherStep
  <2>1. CASE CleanupSessions
    BY <2>1 DEF CleanupSessions, Without, StaleSessions
  <2>2. CASE CleanupDevices
    <3> DEFINE dead == {x \in DOMAIN dev : dev[x].expires # Never /\ dev[x].expires + Retention < now}
    <3>1. sess' = Without(sess, {r \in DOMAIN sess : sess[r].dev \in dead})
      BY <2>2 DEF CleanupDevices
    <3> QED BY <3>1 DEF Without
  <2> QED BY <1>1, <1>4, <2>1, <2>2 DEF OtherStep, Challenge, Tick, SelfEnroll
<1> QED BY <1>1, <1>2, <1>3, <1>4, StepKinds DEF vars

LEMMA LiveStep ==
  ASSUME SessionsAssumption, TypeOK, [Next]_vars
  PROVE  LiveKeptStep
<1> SUFFICES ASSUME NEW s \in DOMAIN sess, sess[s].refreshEnd >= now, DeviceLive(sess[s].dev),
                    s \notin DOMAIN sess'
             PROVE  FALSE
  BY DEF LiveKeptStep
<1>1. now \in Nat /\ Retention \in Nat /\ sess[s].refreshEnd \in Nat
  BY NowTyped DEF TypeOK, SessionRow
<1>2. dev[sess[s].dev].expires \in Nat
  BY DEF TypeOK, DeviceRow
<1>3. dev[sess[s].dev].expires = Never \/ dev[sess[s].dev].expires > now
  BY <1>1, <1>2 DEF DeviceLive, Expired
<1> QED BY <1>1, <1>2, <1>3, SessionsGo

-----------------------------------------------------------------------------
LEMMA RowsAlways == ASSUME SessionsAssumption PROVE Spec => [](TypeOK /\ RowInv)
<1>1. Init => TypeOK /\ RowInv
  BY InitRows
<1>2. TypeOK /\ RowInv /\ [Next]_vars => (TypeOK /\ RowInv)'
  BY TypeStep, RowStep
<1> QED BY <1>1, <1>2, PTL DEF Spec

(* Every table holds rows of its type, a session always has its device,    *)
(* and every handler is in a known state.                                  *)
THEOREM SessionTypes == ASSUME SessionsAssumption PROVE Spec => []TypeOK
BY RowsAlways, PTL

(* A challenge gives at most one session and a refresh token is exchanged  *)
(* at most once, however many requests race for them.                      *)
THEOREM TokensUsedOnce == ASSUME SessionsAssumption PROVE Spec => []UsedOnce
<1>1. Init => NonceInv /\ RotInv
  <2> SUFFICES ASSUME Init PROVE NonceInv /\ RotInv
    OBVIOUS
  <2>1. minted = {} /\ rotated = {} /\ DOMAIN sess = {} /\ \A p \in Handlers : h[p].pc = "idle"
    BY IdleState DEF Init
  <2> QED BY <2>1 DEF NonceInv, RotInv, NonceOnce, RefreshOnce, Redeeming
<1>2. TypeOK /\ RowInv /\ NonceInv /\ RotInv /\ [Next]_vars => (NonceInv /\ RotInv)'
  BY NonceStep, RotStep
<1>3. NonceInv /\ RotInv => UsedOnce
  BY DEF NonceInv, RotInv, UsedOnce
<1> QED BY <1>1, <1>2, <1>3, RowsAlways, PTL DEF Spec

(* A device whose revocation was answered stays out, a revoked session is  *)
(* never written again, and the janitor removes no session that is alive.  *)
THEOREM SessionsEnd == ASSUME SessionsAssumption PROVE Spec => SessionsEndRight
<1>1. Init => GoneInv /\ RotInv
  <2> SUFFICES ASSUME Init PROVE GoneInv /\ RotInv
    OBVIOUS
  <2>1. /\ gone = {} /\ rotated = {} /\ DOMAIN sess = {}
    BY DEF Init
  <2>2. \A p \in Handlers : h[p].pc = "idle" /\ h[p].late = FALSE
    BY IdleState DEF Init
  <2> QED BY <2>1, <2>2 DEF GoneInv, RotInv, RefreshOnce
<1>2. TypeOK /\ RowInv /\ GoneInv /\ RotInv /\ [Next]_vars => (GoneInv /\ RotInv)'
  BY GoneStep, RotStep
<1>3. GoneInv => RevokedStaysOut
  BY DEF GoneInv, RevokedStaysOut, Revd, Early
<1>4. TypeOK /\ RowInv /\ RotInv /\ [Next]_vars => RevokedFrozenStep /\ LiveKeptStep
  BY FrozenStep, LiveStep
<1> QED BY <1>1, <1>2, <1>3, <1>4, RowsAlways, PTL DEF Spec, SessionsEndRight, RevokedFrozen, LiveKept

(* The instance always has an active owner: the account that claimed it,   *)
(* which no interleaving of demotions and suspensions reaches.             *)
THEOREM OwnerAlwaysRemains == ASSUME SessionsAssumption PROVE Spec => []OwnerRemains
<1>1. Init => OwnInv
  <2> SUFFICES ASSUME Init PROVE OwnInv
    OBVIOUS
  <2>1. ClaimOwner \in Accounts /\ ClaimOwner \in Owners
    BY DEF SessionsAssumption
  <2>2. acct[ClaimOwner].owner = TRUE /\ acct[ClaimOwner].status = "active"
    BY <2>1 DEF Init
  <2>3. \A p \in Handlers : h[p].pc = "idle"
    BY IdleState DEF Init
  <2> QED BY <2>2, <2>3 DEF OwnInv
<1>2. TypeOK /\ RowInv /\ OwnInv /\ [Next]_vars => OwnInv'
  BY OwnStep
<1>3. OwnInv => OwnerRemains
  BY DEF OwnInv, OwnerRemains, SessionsAssumption
<1> QED BY <1>1, <1>2, <1>3, RowsAlways, PTL DEF Spec
=============================================================================

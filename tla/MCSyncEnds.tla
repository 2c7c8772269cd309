----------------------------- MODULE MCSyncEnds -----------------------------
(***************************************************************************)
(* What sync does in the end: a pull from the server, a push of one device,*)
(* and two devices of one account. A behaviour plays one scene.            *)
(***************************************************************************)
EXTENDS Integers, Sequences, TLC

CONSTANTS a, b, i, k1, h1, h2, NoOne, NoIdem, NoHandler, a1, a2, alice, it1, it2, NoId

VARIABLES scene,
          db, idem, now, lock, h, rd, sent, bumps, delivered, hidden, replies, cleaned,
          st, sy, log, lost, writes, faults, torn

serverVars == <<db, idem, now, lock, h, rd, sent, bumps, delivered, hidden, replies,
            cleaned>>
deviceVars == <<st, sy, log, lost, writes, faults, torn>>
vars == <<scene, serverVars, deviceVars>>

\* A part that is not played.
Off == "off"
NoServer ==
  /\ db = Off /\ idem = Off /\ now = Off /\ lock = Off /\ h = Off /\ rd = Off
  /\ sent = Off /\ bumps = Off /\ delivered = Off /\ hidden = Off /\ replies = Off
  /\ cleaned = Off
NoDevice ==
  /\ st = Off /\ sy = Off /\ log = Off /\ lost = Off /\ writes = Off /\ faults = Off
  /\ torn = Off

\* b is granted access until time 1 while it pulls.
NoRoles == [m \in {a, b} |-> "none"]
Blank(tag, author) ==
  [tag |-> tag, author |-> author, id |-> NoOne, ver |-> 1, epoch |-> 1,
   tomb |-> FALSE, roles |-> NoRoles, notAfter |-> 0]
ExpiryRequests ==
  {[kind |-> "push", who |-> a, key |-> NoIdem, revoke |-> 0,
    objs |-> <<Blank("vault", a), Blank("keyset", a)>>],
   [kind |-> "publish", who |-> a, key |-> NoIdem, revoke |-> 0,
    objs |-> <<[Blank("manifest", a) EXCEPT !.roles = (a :> "admin" @@ b :> "editor")],
               [Blank("grant", a) EXCEPT !.id = b, !.notAfter = 1]>>],
   [kind |-> "push", who |-> b, key |-> NoIdem, revoke |-> 0, objs |-> <<Blank("account", b)>>]}

-----------------------------------------------------------------------------
(* The scenes.                                                             *)
\* b pulls while a shares the vault with it for a time.
CatchUp == INSTANCE ServerSync WITH
  Member <- {a, b}, InstanceOwner <- a, Item <- {i}, Key <- {k1}, Reader <- {b},
  Handler <- {h1, h2}, Request <- ExpiryRequests, NoKey <- NoIdem, Validate <- TRUE,
  PageLimit <- 2, IdemTTL <- 0, MaxSend <- 1, MaxBump <- 0, MaxNow <- 1, MaxSeq <- 6
\* One device pushes two items, one too large for the server, with a lost request or
\* reply.
Push == INSTANCE DeviceSync WITH
  MemberSeq <- <<alice>>, Owner <- alice, AccountOf <- [d \in {a1} |-> alice],
  Big <- {it2}, ServerMax <- 2, BatchMax <- 3, PageMax <- 1, OneProcess <- TRUE,
  MaxFault <- 1, MaxEpoch <- 0, MemberSets <- {}, DeviceSeq <- <<a1>>,
  ItemSeq <- <<it1, it2>>, Ops <- {"item", "vault", "account"}, MaxWrite <- 2
\* Two devices of one account edit the same item and the account state.
Converge == INSTANCE DeviceSync WITH
  MemberSeq <- <<alice>>, Owner <- alice, AccountOf <- [d \in {a1, a2} |-> alice],
  Big <- {}, ServerMax <- 9, BatchMax <- 9, PageMax <- 1, OneProcess <- TRUE,
  MaxFault <- 0, MaxEpoch <- 0, MemberSets <- {}, DeviceSeq <- <<a1, a2>>,
  ItemSeq <- <<it1>>, Ops <- {"item", "account"}, MaxWrite <- 2

ASSUME SceneAssumption ==
  /\ Push!DeviceAssumption /\ Converge!DeviceAssumption

Init ==
  \/ scene = "catchUp" /\ CatchUp!Init /\ NoDevice
  \/ scene = "push" /\ Push!Init /\ NoServer
  \/ scene = "converge" /\ Converge!Init /\ NoServer

Next ==
  \/ scene = "catchUp" /\ CatchUp!Next /\ UNCHANGED <<scene, deviceVars>>
  \/ scene = "push" /\ Push!Next /\ UNCHANGED <<scene, serverVars>>
  \/ scene = "converge" /\ Converge!Next /\ UNCHANGED <<scene, serverVars>>

Spec == Init /\ [][Next]_vars

\* The fairness of each part, in its scene.
Fairness ==
  /\ \A d \in {b} : /\ WF_serverVars(scene = "catchUp" /\ CatchUp!PlanPage(d))
                 /\ SF_serverVars(scene = "catchUp" /\ CatchUp!ReadPage(d))
  /\ \A d \in {a1} : /\ WF_deviceVars(scene = "push" /\ Push!StartSync(d)) /\ WF_deviceVars(scene = "push" /\ Push!EndSync(d))
                  /\ SF_deviceVars(scene = "push" /\ Push!PullPage(d)) /\ WF_deviceVars(scene = "push" /\ Push!Pushes(d))
  /\ \A d \in {a1, a2} : /\ WF_deviceVars(scene = "converge" /\ Converge!StartSync(d))
                      /\ WF_deviceVars(scene = "converge" /\ Converge!EndSync(d))
                      /\ SF_deviceVars(scene = "converge" /\ Converge!PullPage(d))
                      /\ WF_deviceVars(scene = "converge" /\ Converge!Pushes(d))
FairSpec == Spec /\ Fairness

-----------------------------------------------------------------------------
(* The properties: each in the scenes that are made for it.                *)
\* The rows b may read and was not handed; the items that are neither sent nor left out.
Owed == {s \in DOMAIN db.objects :
           CatchUp!Visible(db, b, s, now) /\ s \notin delivered[b] \cup hidden[b]}
Unsettled == {x \in {it1, it2} : LET s == Push!Slot("item", x, 0) IN
                s \in st[a1].dirty /\ <<s, st[a1].rows[s].ver>> \notin st[a1].left}

\* Concurrent account states of one version end as the same state everywhere.
AccountConverges == scene = "converge" => Converge!AccountConverges

\* Every row a device may read reaches it, or was hidden from it or compacted: an
\* empty page, a shrunk page or a lost page never ends the pull for good.
CatchesUp ==
  (scene = "catchUp" /\ Owed # {}) ~> (scene = "catchUp" /\ Owed = {})

\* An edited item reaches the server or is remembered as left out, although another
\* one of its request is too large and the push fails now and then.
Delivered ==
  (scene = "push" /\ Unsettled # {}) ~> (scene = "push" /\ Unsettled = {})

\* Once users stop, the devices come to rest: what a pull stores over a dirty row,
\* and an account state pulled, is sent back once and no more.
StopsEchoing ==
  <>[](scene = "converge" => Converge!Quiet)

\* Sync settles: a pull reaches every row the device may read, a push delivers every
\* item it does not leave out, and two devices of an account stop answering each
\* other with their account state in agreement.
SyncEnds ==
  /\ [](AccountConverges)
  /\ CatchesUp
  /\ Delivered
  /\ StopsEchoing
=============================================================================

----------------------------- MODULE CloudLinks -----------------------------
(***************************************************************************)
(* The servers a desktop app is linked to (client/src-tauri/src/cloud):    *)
(* the registry of links and the one that is active, its file, the access  *)
(* tokens in memory, the refresh tokens in the keychain, and the commands  *)
(* that link, sign in, refresh, sign out and unlink, with the HTTP layer   *)
(* that swaps an access token a server refused (cloud/src/client.rs).      *)
(*                                                                         *)
(* Commands run concurrently; each step between two locks or two requests  *)
(* is an action.  A token pair is a number; the server keeps the session   *)
(* it belongs to, spends a refresh token when it is used, and ends the     *)
(* session when a spent one comes back.                                    *)
(***************************************************************************)
EXTENDS Naturals, Sequences, FiniteSets

CONSTANTS
  Ids,        \* link ids the app may mint
  Idents,     \* server identities: address, instance and account
  Tasks,      \* commands that run at a time
  Ops,        \* the commands that are used
  FirstDocs,  \* what cloud.json may hold at the first start: functions id -> link
  Ends,       \* when the app may end: "never", "idle" (between two commands) or "anywhere"
  Fails,      \* may requests and writes to the keychain fail: BOOLEAN
  MaxPairs,   \* bound: token pairs the servers issue
  MaxDevs     \* bound: devices the servers enroll

\* What every instance of this module satisfies.
CloudLinksAssumption ==
  /\ Ends \in {"never", "idle", "anywhere"} /\ Fails \in BOOLEAN
  /\ MaxPairs \in Nat /\ MaxDevs \in Nat

VARIABLES
  on,         \* does the app run
  links,      \* id -> the link's identity and device, or NoLink
  active,     \* the active link, or "none"
  access,     \* id -> access token in memory, 0: none
  superseded, \* id -> the access token before the last rotation
  kept,       \* id -> refresh token in the keychain
  gate,       \* the task that holds refresh_gate, or "free"
  tmp, disk,  \* cloud.json.tmp and cloud.json: a document, or Absent or Torn
  used,       \* link ids that were minted
  task,       \* task -> the command it runs
  pairs,      \* the servers: pair -> its session, device and state
  ended,      \* the servers: sessions that were revoked
  devs,       \* the servers: enrolled devices, as identity and number
  devN,       \* how many devices were enrolled
  reused,     \* history: refresh tokens presented to a live session after they were spent
  lost,       \* history: refresh tokens whose successor was not stored: the answer or the
              \* write to the keychain failed
  left        \* history: devices of links the app dropped without a way to revoke them,
              \* and links somebody asked to remove

client == <<links, active, access, superseded, kept, gate, used>>
files == <<tmp, disk>>
server == <<pairs, ended, devs, devN, reused>>
past == <<lost, left>>
vars == <<on, client, files, task, server, past>>

NoLink == [ident |-> "none", dev |-> 0]
Absent == [is |-> "absent", links |-> [i \in Ids |-> NoLink], active |-> "none"]
Torn == [Absent EXCEPT !.is = "torn"]
Doc(l, a) == [is |-> "doc", links |-> l, active |-> a]

Idle == [op |-> "none", pc |-> "idle", id |-> "none", ident |-> "none", dev |-> 0, old |-> 0,
         tok |-> 0, bear |-> 0, back |-> "none", snap |-> Absent, fd |-> "tmp", next |-> "none", dups |-> {}]

DeviceOf(l) == [ident |-> l.ident, n |-> l.dev]
Linked == {i \in Ids : links[i] # NoLink}
Zero == [i \in Ids |-> 0]
Go(t, pc) == task' = [task EXCEPT ![t].pc = pc]
Done(t) == task' = [task EXCEPT ![t] = Idle]
AfterBye(t) == IF task[t].op = "remove" THEN "forget" ELSE "drop"
SignOut(t) == task' = [task EXCEPT ![t].pc = "bye", ![t].back = "none"]
\* The token could not be swapped: a refused request ends refused, a farewell is left out.
NoRotation(t) ==
  IF task[t].back # "none" THEN Go(t, task[t].back)
  ELSE IF task[t].op = "remove" THEN Go(t, "forget") ELSE Done(t)
Free(t) == gate' = IF gate = t THEN "free" ELSE gate

Init ==
  /\ on = FALSE /\ links = [i \in Ids |-> NoLink] /\ active = "none"
  /\ access = Zero /\ superseded = Zero /\ kept = Zero /\ gate = "free"
  /\ tmp = Absent /\ disk \in FirstDocs
  /\ used = {i \in Ids : disk.links[i] # NoLink}
  /\ task = [t \in Tasks |-> Idle]
  /\ pairs = <<>> /\ ended = {} /\ reused = {}
  /\ lost = {} /\ left = [devs |-> {}, asked |-> {}]
  /\ devs = {[ident |-> disk.links[i].ident, n |-> disk.links[i].dev] : i \in used}
  /\ devN = Cardinality(used)

----------------------------------------------------------------------------
\* Starting and dying.

\* CloudState::new: of two links to one identity the active one stays, else either.
Collapsed(doc) ==
  {l \in [Ids -> {doc.links[i] : i \in Ids} \cup {NoLink}] :
     /\ \A i \in Ids : l[i] \in {doc.links[i], NoLink}
     /\ \A i \in Ids : doc.links[i] # NoLink =>
          Cardinality({j \in Ids : l[j] # NoLink /\ l[j].ident = doc.links[i].ident}) = 1
     /\ doc.active # "none" => l[doc.active] = doc.links[doc.active]}

\* A file that does not parse counts as none.
Boot ==
  /\ ~on /\ on' = TRUE
  /\ LET doc == IF disk.is = "doc" THEN disk ELSE Absent
     IN  \E l \in Collapsed(doc) :
           LET stay == {i \in Ids : l[i] # NoLink}
           IN  /\ links' = l
               /\ active' \in (IF doc.active \in stay THEN {doc.active}
                               ELSE IF stay = {} THEN {"none"} ELSE stay)
               /\ kept' = [i \in Ids |-> IF doc.links[i] # NoLink /\ i \notin stay THEN 0 ELSE kept[i]]
               /\ disk' = IF l # doc.links THEN Doc(l, active') ELSE disk
               /\ left' = [left EXCEPT !.devs = @ \cup
                                       {DeviceOf(doc.links[i]) : i \in {j \in Ids \ stay : doc.links[j] # NoLink}}]
  /\ UNCHANGED <<access, superseded, gate, used, tmp, task, server, lost>>

\* The app is closed between two commands, or dies anywhere: what is in memory goes.
Quit ==
  /\ on /\ on' = FALSE
  /\ Ends = "anywhere" \/ (Ends = "idle" /\ \A t \in Tasks : task[t] = Idle)
  /\ links' = [i \in Ids |-> NoLink] /\ active' = "none" /\ access' = Zero /\ superseded' = Zero
  /\ gate' = "free" /\ task' = [t \in Tasks |-> Idle]
  /\ UNCHANGED <<kept, used, files, server, past>>

----------------------------------------------------------------------------
\* The servers.

Valid(n) ==
  /\ n > 0 /\ pairs[n].st = "live" /\ pairs[n].ok
  /\ pairs[n].fam \notin ended /\ [ident |-> pairs[n].ident, n |-> pairs[n].dev] \in devs

\* send_json: a token that was refused and can be named by it is swapped once.
Swaps(t) ==
  /\ ~Valid(task[t].bear) /\ task[t].back = "none"
  /\ task[t].bear \in {access[task[t].id], superseded[task[t].id]}
Settled(t) == ~Swaps(t)

Refused(t) ==
  /\ task[t].pc \in {"send", "bye", "leave", "retire"} /\ Swaps(t)
  /\ task' = [task EXCEPT ![t].pc = "gate", ![t].back = task[t].pc]
  /\ UNCHANGED <<on, client, files, server, past>>

\* An access token outlives the request it was swapped in for, and the farewell it was got for.
Expires(n) ==
  /\ \A t \in Tasks : task[t].back # "none" \/ task[t].op = "remove" => n \notin {task[t].bear, task[t].tok}
  /\ n \in DOMAIN pairs /\ pairs[n].st = "live" /\ pairs[n].ok
  /\ pairs' = [pairs EXCEPT ![n].ok = FALSE]
  /\ UNCHANGED <<on, client, files, task, ended, devs, devN, reused, past>>

Mint(ident, dev, fam) == Append(pairs, [ident |-> ident, dev |-> dev, fam |-> fam, st |-> "live", ok |-> TRUE])

\* What the servers do with a request.  register: a fresh device is enrolled, and by single
\* sign-on signed in at once.
Enrolls(t, sso) ==
  /\ devN < MaxDevs /\ (sso => Len(pairs) < MaxPairs)
  /\ devN' = devN + 1 /\ devs' = devs \cup {[ident |-> task[t].ident, n |-> devN + 1]}
  /\ pairs' = IF sso THEN Mint(task[t].ident, devN + 1, Len(pairs) + 1) ELSE pairs
  /\ UNCHANGED <<ended, reused>>
\* login: a device it knows gets a session.
Knows(t) == [ident |-> task[t].ident, n |-> task[t].dev] \in devs
SignsIn(t) ==
  /\ Knows(t) => Len(pairs) < MaxPairs
  /\ pairs' = IF Knows(t) THEN Mint(task[t].ident, task[t].dev, Len(pairs) + 1) ELSE pairs
  /\ UNCHANGED <<ended, devs, devN, reused>>
\* refresh: a token is spent by its use; a spent one ends its session.
Refreshable(n) ==
  /\ pairs[n].st = "live" /\ pairs[n].fam \notin ended
  /\ [ident |-> pairs[n].ident, n |-> pairs[n].dev] \in devs
Spends(n) ==
  /\ IF Refreshable(n)
       THEN /\ Len(pairs) < MaxPairs
            /\ pairs' = Append([pairs EXCEPT ![n].st = "spent"], [pairs[n] EXCEPT !.ok = TRUE])
            /\ UNCHANGED <<ended, reused>>
       ELSE /\ ended' = ended \cup {pairs[n].fam}
            /\ reused' = IF pairs[n].st = "spent" /\ pairs[n].fam \notin ended THEN reused \cup {n} ELSE reused
            /\ UNCHANGED pairs
  /\ UNCHANGED <<devs, devN>>
\* device_revoke and logout, with a token that is valid.
Revokes(t, dev) ==
  /\ devs' = IF Valid(task[t].bear) THEN devs \ {[ident |-> task[t].ident, n |-> dev]} ELSE devs
  /\ UNCHANGED <<pairs, ended, devN, reused>>
EndsSession(t) ==
  /\ ended' = IF Valid(task[t].bear) THEN ended \cup {pairs[task[t].bear].fam} ELSE ended
  /\ UNCHANGED <<pairs, devs, devN, reused>>
Acts(t) ==
  CASE task[t].pc = "register" -> \E sso \in {"sso" \in Ops, FALSE} : Enrolls(t, sso)
    [] task[t].pc = "login" -> SignsIn(t)
    [] task[t].pc = "spend" -> Spends(task[t].tok)
    [] task[t].pc = "retire" -> Revokes(t, task[t].old)
    [] task[t].pc = "leave" -> Revokes(t, task[t].dev)
    [] OTHER -> EndsSession(t)

\* A request fails before the server acts on it, or its answer is lost after it did.  A
\* leaving device then signs out instead.
Failed(t) ==
  /\ Fails /\ task[t].pc \in {"register", "login", "spend", "retire", "bye", "leave"}
  /\ \/ UNCHANGED <<server, lost>>
     \/ /\ Acts(t)
        /\ lost' = IF task[t].pc = "spend" /\ Refreshable(task[t].tok) THEN lost \cup {task[t].tok} ELSE lost
  /\ CASE task[t].pc = "leave" -> SignOut(t)
       [] task[t].pc = "bye" -> Go(t, AfterBye(t))
       [] task[t].pc = "spend" -> NoRotation(t)
       [] OTHER -> Done(t)
  /\ Free(t)
  /\ UNCHANGED <<on, links, active, access, superseded, kept, used, files, left>>

----------------------------------------------------------------------------
\* Linking: join, claim, single sign-on, escrow, a pairing.

StartLink(t, ident) ==
  /\ on /\ "link" \in Ops /\ task[t] = Idle
  /\ task' = [task EXCEPT ![t] = [Idle EXCEPT !.op = "link", !.pc = "register", !.ident = ident]]
  /\ UNCHANGED <<on, client, files, server, past>>

Register(t, sso) ==
  /\ task[t].pc = "register" /\ Enrolls(t, sso)
  /\ task' = [task EXCEPT ![t].pc = "find", ![t].dev = devN', ![t].tok = IF sso THEN Len(pairs') ELSE 0]
  /\ UNCHANGED <<on, client, files, past>>

\* find_by_identity, or a new id.
Find(t) ==
  /\ task[t].pc = "find"
  /\ LET known == {i \in Linked : links[i].ident = task[t].ident}
     IN  \E i \in (IF known # {} THEN known ELSE Ids \ used) :
           /\ task' = [task EXCEPT ![t].pc = "old", ![t].id = i]
           /\ used' = used \cup {i}
  /\ UNCHANGED <<on, links, active, access, superseded, kept, gate, files, server, past>>

\* upsert_link: the device the link held before, if it is another one ...
Replaced(t) ==
  LET l == links[task[t].id]
  IN  IF l # NoLink /\ l.dev # task[t].dev THEN l.dev ELSE 0
ReadOld(t) ==
  /\ task[t].pc = "old"
  /\ task' = [task EXCEPT ![t].pc = "upsert", ![t].old = Replaced(t)]
  /\ UNCHANGED <<on, client, files, server, past>>

\* ... then upsert_config, lock by lock: the link is put in and any other one to the same
\* identity dropped ...
Dups(t) == {i \in Linked : i # task[t].id /\ links[i].ident = task[t].ident}
Upsert(t) ==
  /\ task[t].pc = "upsert"
  /\ links' = [i \in Ids |-> IF i = task[t].id THEN [ident |-> task[t].ident, dev |-> task[t].dev]
                             ELSE IF i \in Dups(t) THEN NoLink ELSE links[i]]
  /\ task' = [task EXCEPT ![t].pc = "activate", ![t].dups = Dups(t)]
  /\ UNCHANGED <<on, active, access, superseded, kept, gate, used, files, server, past>>

\* ... the link becomes active ...
Activate(t) ==
  /\ task[t].pc = "activate"
  /\ active' = task[t].id
  /\ Go(t, IF task[t].dups = {} THEN "snap" ELSE "drop access")
  /\ UNCHANGED <<on, links, access, superseded, kept, gate, used, files, server, past>>

\* ... and the tokens of the dropped ones go, from memory and from the keychain.
DropAccess(t) ==
  /\ task[t].pc = "drop access"
  /\ access' = [i \in Ids |-> IF i \in task[t].dups THEN 0 ELSE access[i]]
  /\ Go(t, "drop kept")
  /\ UNCHANGED <<on, links, active, superseded, kept, gate, used, files, server, past>>
DropKept(t) ==
  /\ task[t].pc = "drop kept"
  /\ kept' = [i \in Ids |-> IF i \in task[t].dups THEN 0 ELSE kept[i]]
  /\ task' = [task EXCEPT ![t].pc = "snap", ![t].dups = {}]
  /\ UNCHANGED <<on, links, active, access, superseded, gate, used, files, server, past>>

----------------------------------------------------------------------------
\* persist: a snapshot under the locks, then the file beside it and a rename.

AfterPersist(t) ==
  IF task[t].op = "link" THEN (IF task[t].tok > 0 THEN "store" ELSE "login") ELSE "end"

Snap(t) ==
  /\ task[t].pc = "snap"
  /\ IF Linked = {}
       THEN disk' = Absent /\ Go(t, AfterPersist(t))
       ELSE /\ task' = [task EXCEPT ![t].pc = "open", ![t].snap = Doc(links, active)]
            /\ UNCHANGED disk
  /\ UNCHANGED <<on, client, tmp, server, past>>

OpenTmp(t) ==
  /\ task[t].pc = "open"
  /\ tmp' = Torn
  /\ task' = [task EXCEPT ![t].pc = "write", ![t].fd = "tmp"]
  /\ UNCHANGED <<on, client, disk, server, past>>

\* A file renamed while it is open is written under its new name.
WriteTmp(t) ==
  /\ task[t].pc = "write"
  /\ IF task[t].fd = "tmp" THEN tmp' = task[t].snap /\ UNCHANGED disk
     ELSE disk' = task[t].snap /\ UNCHANGED tmp
  /\ Go(t, "rename")
  /\ UNCHANGED <<on, client, server, past>>

\* The command ends with an error when another one has renamed the file away.
Rename(t) ==
  /\ task[t].pc = "rename"
  /\ IF tmp = Absent
       THEN Done(t) /\ UNCHANGED files
       ELSE /\ disk' = tmp /\ tmp' = Absent
            /\ task' = [u \in Tasks |->
                          IF u = t THEN [task[t] EXCEPT !.pc = AfterPersist(t), !.snap = Absent]
                          ELSE IF task[u].pc = "write" THEN [task[u] EXCEPT !.fd = "disk"] ELSE task[u]]
  /\ UNCHANGED <<on, client, server, past>>

EndTask(t) ==
  /\ task[t].pc = "end" /\ Done(t)
  /\ UNCHANGED <<on, client, files, server, past>>

----------------------------------------------------------------------------
\* Signing in.

StartLogin(t, i) ==
  /\ on /\ "login" \in Ops /\ task[t] = Idle /\ i \in Linked
  /\ task' = [task EXCEPT ![t] = [Idle EXCEPT !.op = "login", !.pc = "login", !.id = i,
                                    !.ident = links[i].ident, !.dev = links[i].dev]]
  /\ UNCHANGED <<on, client, files, server, past>>

Login(t) ==
  /\ task[t].pc = "login" /\ SignsIn(t)
  /\ IF Knows(t) THEN task' = [task EXCEPT ![t].pc = "store", ![t].tok = Len(pairs')] ELSE Done(t)
  /\ UNCHANGED <<on, client, files, past>>

\* set_access_token_for, and for a rotation the token it replaces.
Store(t) ==
  /\ task[t].pc = "store"
  /\ access' = [access EXCEPT ![task[t].id] = task[t].tok]
  /\ Go(t, IF task[t].back # "none" THEN "supersede" ELSE "keep")
  /\ UNCHANGED <<on, links, active, superseded, kept, gate, used, files, server, past>>

Supersede(t) ==
  /\ task[t].pc = "supersede"
  /\ superseded' = [superseded EXCEPT ![task[t].id] = task[t].bear]
  /\ Go(t, "keep")
  /\ UNCHANGED <<on, links, active, access, kept, gate, used, files, server, past>>

\* save_refresh, whose failure is only logged; then the request again, the farewell, or the
\* replaced device.
Keep(t) ==
  LET id == task[t].id
  IN  /\ task[t].pc = "keep"
      /\ \/ kept' = [kept EXCEPT ![id] = task[t].tok] /\ UNCHANGED lost
         \/ Fails /\ lost' = lost \cup {n \in {kept[id]} \ {0} : pairs[n].st = "spent"} /\ UNCHANGED kept
      /\ IF task[t].back # "none" THEN task' = [task EXCEPT ![t].pc = task[t].back, ![t].bear = task[t].tok]
         ELSE IF task[t].op = "remove" THEN task' = [task EXCEPT ![t].pc = "leave", ![t].bear = task[t].tok]
         ELSE IF task[t].old > 0 /\ links[id] # NoLink /\ access[id] > 0
           THEN task' = [task EXCEPT ![t].pc = "retire", ![t].bear = access[id]]
         ELSE Done(t)
      /\ Free(t)
      /\ UNCHANGED <<on, links, active, access, superseded, used, files, server, left>>

\* retire_replaced_device.
Retire(t) ==
  /\ task[t].pc = "retire" /\ Settled(t)
  /\ Revokes(t, task[t].old) /\ Done(t)
  /\ UNCHANGED <<on, client, files, past>>

----------------------------------------------------------------------------
\* Refreshing: by hand, and when a server refuses an access token.

\* server_refresh_session.
StartRefresh(t, i) ==
  /\ on /\ "refresh" \in Ops /\ task[t] = Idle /\ i \in Linked /\ kept[i] > 0
  /\ task' = [task EXCEPT ![t] = [Idle EXCEPT !.op = "refresh", !.pc = "spend", !.id = i, !.tok = kept[i]]]
  /\ UNCHANGED <<on, client, files, server, past>>

\* goodbye_access keeps only the refresh token of the session it opens.
AfterSpend(t) == IF task[t].op = "remove" /\ task[t].back = "none" THEN "keep" ELSE "store"

\* identity::refresh.
Spend(t) ==
  /\ task[t].pc = "spend" /\ task[t].tok \in DOMAIN pairs /\ Spends(task[t].tok)
  /\ IF Refreshable(task[t].tok)
       THEN task' = [task EXCEPT ![t].tok = Len(pairs'), ![t].pc = AfterSpend(t)] /\ UNCHANGED gate
       ELSE NoRotation(t) /\ Free(t)
  /\ UNCHANGED <<on, links, active, access, superseded, kept, used, files, past>>

\* A request is sent with the token that is there when it is built.
StartCall(t, i) ==
  /\ on /\ "call" \in Ops /\ task[t] = Idle /\ access[i] > 0
  /\ task' = [task EXCEPT ![t] = [Idle EXCEPT !.op = "call", !.pc = "send", !.id = i, !.bear = access[i]]]
  /\ UNCHANGED <<on, client, files, server, past>>

\* Accepted, or refused for good.
Send(t) ==
  /\ task[t].pc = "send" /\ Settled(t) /\ Done(t)
  /\ UNCHANGED <<on, client, files, server, past>>

\* Somebody rotated it meanwhile: take theirs.
Fresh(t) == access[task[t].id] > 0 /\ access[task[t].id] # task[t].bear

\* What the holder of the gate does: takes a fresh token, gives up, or spends the refresh token.
Rotation(t) ==
  LET id == task[t].id
  IN  IF Fresh(t) THEN task' = [task EXCEPT ![t].pc = task[t].back, ![t].bear = access[id]]
      ELSE IF links[id] = NoLink \/ kept[id] = 0 THEN Go(t, task[t].back)
      ELSE task' = [task EXCEPT ![t].pc = "spend", ![t].tok = kept[id]]

\* A mutant: rotations are not serialised.
MutTakeGate(t) ==
  /\ task[t].pc = "gate" /\ Rotation(t)
  /\ UNCHANGED <<on, client, files, server, past>>

TakeGate(t) ==
  /\ task[t].pc = "gate" /\ gate = "free" /\ Rotation(t)
  /\ gate' = IF task'[t].pc = "spend" THEN t ELSE gate
  /\ UNCHANGED <<on, links, active, access, superseded, kept, used, files, server, past>>

----------------------------------------------------------------------------
\* Signing out and unlinking.

StartLogout(t, i) ==
  /\ on /\ "logout" \in Ops /\ task[t] = Idle /\ i \in Linked
  /\ task' = [task EXCEPT ![t] = [Idle EXCEPT !.op = "logout", !.id = i, !.bear = access[i],
                                    !.pc = IF access[i] > 0 THEN "bye" ELSE "drop"]]
  /\ UNCHANGED <<on, client, files, server, past>>

Bye(t) ==
  /\ task[t].pc = "bye" /\ Settled(t)
  /\ EndsSession(t) /\ Go(t, AfterBye(t))
  /\ UNCHANGED <<on, client, files, past>>

\* drop_session.
DropSession(t) ==
  LET id == task[t].id
  IN  /\ task[t].pc = "drop"
      /\ access' = [access EXCEPT ![id] = 0] /\ superseded' = [superseded EXCEPT ![id] = 0]
      /\ kept' = [kept EXCEPT ![id] = 0]
      /\ Done(t)
      /\ UNCHANGED <<on, links, active, gate, used, files, server, past>>

\* Is there a session to revoke the link's device by.
CanLeave(i) == Valid(access[i]) \/ (kept[i] > 0 /\ Refreshable(kept[i]))

\* goodbye_access: the session in memory, or one from the stored token.
StartRemove(t, i) ==
  /\ on /\ "remove" \in Ops /\ task[t] = Idle /\ i \in Linked
  /\ task' = [task EXCEPT ![t] =
       [Idle EXCEPT !.op = "remove", !.id = i, !.ident = links[i].ident, !.dev = links[i].dev,
          !.bear = access[i], !.tok = kept[i],
          !.pc = IF access[i] > 0 THEN "leave" ELSE IF kept[i] > 0 THEN "spend" ELSE "forget"]]
  /\ left' = [devs |-> left.devs \cup (IF CanLeave(i) THEN {} ELSE {DeviceOf(links[i])}),
              asked |-> left.asked \cup {i}]
  /\ UNCHANGED <<on, client, files, server, lost>>

\* best_effort_leave: this device is revoked, or else its session.
Leave(t) ==
  /\ task[t].pc = "leave" /\ Settled(t)
  /\ Revokes(t, task[t].dev)
  /\ IF Valid(task[t].bear) THEN Go(t, "forget") ELSE SignOut(t)
  /\ UNCHANGED <<on, client, files, past>>

\* CloudState::remove: the link goes and a successor is picked under one lock ...
Forget(t) ==
  /\ task[t].pc = "forget"
  /\ links' = [links EXCEPT ![task[t].id] = NoLink]
  /\ LET stay == Linked \ {task[t].id}
     IN  \E n \in (IF stay = {} THEN {"none"} ELSE stay) :
           task' = [task EXCEPT ![t].pc = "forget tokens", ![t].next = n]
  /\ UNCHANGED <<on, active, access, superseded, kept, gate, used, files, server, past>>

\* ... the tokens go, and the successor becomes active under another.
ForgetTokens(t) ==
  LET id == task[t].id
  IN  /\ task[t].pc = "forget tokens"
      /\ access' = [access EXCEPT ![id] = 0] /\ superseded' = [superseded EXCEPT ![id] = 0]
      /\ kept' = [kept EXCEPT ![id] = 0]
      /\ active' = IF active = id THEN task[t].next ELSE active
      /\ Go(t, "snap")
      /\ UNCHANGED <<on, links, gate, used, files, server, past>>

----------------------------------------------------------------------------
Step(t) ==
  \/ \E sso \in {"sso" \in Ops, FALSE} : Register(t, sso)
  \/ Find(t) \/ ReadOld(t) \/ Upsert(t) \/ Activate(t) \/ DropAccess(t) \/ DropKept(t)
  \/ Snap(t) \/ OpenTmp(t) \/ WriteTmp(t) \/ Rename(t) \/ EndTask(t)
  \/ Login(t) \/ Store(t) \/ Supersede(t) \/ Keep(t) \/ Retire(t) \/ Spend(t) \/ Send(t) \/ Refused(t) \/ TakeGate(t)
  \/ Bye(t) \/ DropSession(t) \/ Leave(t) \/ Forget(t) \/ ForgetTokens(t)

Next ==
  \/ Boot \/ Quit
  \/ \E t \in Tasks : Step(t) \/ Failed(t)
  \/ \E t \in Tasks, x \in Idents : StartLink(t, x)
  \/ \E t \in Tasks, i \in Ids :
       StartLogin(t, i) \/ StartRefresh(t, i) \/ StartCall(t, i) \/ StartLogout(t, i) \/ StartRemove(t, i)
  \/ \E n \in 1 .. MaxPairs : Expires(n)

Spec == Init /\ [][Next]_vars

----------------------------------------------------------------------------
Quiet == on /\ \A t \in Tasks : task[t] = Idle

TypeOK ==
  /\ on \in BOOLEAN /\ active \in Ids \cup {"none"} /\ gate \in Tasks \cup {"free"}
  /\ gate # "free" => task[gate].pc \in {"spend", "store", "supersede", "keep"} /\ task[gate].back # "none"
  /\ \A i \in Ids : {access[i], superseded[i], kept[i]} \subseteq 0 .. Len(pairs)
  /\ \A i \in Ids : links[i] # NoLink => links[i].ident \in Idents /\ links[i].dev \in 1 .. devN
  /\ disk.is \in {"doc", "absent", "torn"} /\ tmp.is \in {"doc", "absent", "torn"}
  /\ \A f \in ended : f \in DOMAIN pairs

\* One link per server identity, also when two commands link the same server at a time or an
\* older version left two in the file (upsert_config, CloudState::new).
OneLinkPerIdentity ==
  \A i, j \in Linked : links[i].ident = links[j].ident => i = j

\* Requests whose token expires together never present a refresh token twice: it would end
\* the session (refresh_gate).  The only spent token that is presented again is one whose
\* successor never reached the keychain, because the answer to the refresh was lost or the
\* keychain refused it.
NoTokenSpentTwice == reused \subseteq lost

\* When nothing runs, the file holds the links the app has, whatever crashed before; and a
\* start never finds it half written.
FileIsRegistry ==
  /\ disk.is # "torn"
  /\ Quiet => disk = (IF Linked = {} THEN Absent ELSE Doc(links, active))

\* A link nobody asked to remove holds a device its server knows.  Commands that link a
\* server again at a time never revoke as replaced the device that ends up in use, whichever
\* requests fail (upsert_link, retire_replaced_device); and with one command at a time, the
\* link a start finds in the file is never one whose device was revoked, wherever the app
\* died (retired only after persist).
LinkedDeviceLives == \A i \in Linked \ left.asked : DeviceOf(links[i]) \in devs

\* One command at a time, no request failing: a server knows no device of this app but the
\* link's own, those of links dropped as duplicates at the start, and those of links removed
\* with no session left to revoke them by (best_effort_leave, retire_replaced_device).
NoStrayDevice ==
  Quiet => \A d \in devs \ left.devs : \E i \in Linked : DeviceOf(links[i]) = d

=============================================================================

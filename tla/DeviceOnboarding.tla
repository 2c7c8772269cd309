-------------------------- MODULE DeviceOnboarding --------------------------
(***************************************************************************)
(* How an account reaches another device: paired with a signed-in one over *)
(* three slots the server relays, recovered with password and Secret Key   *)
(* from the keyset the server keeps in escrow, pulled by a device already  *)
(* linked, or imported from a saved record.  The server's handlers run     *)
(* concurrently and die with it; devices are killed between their writes.  *)
(* A key agreement succeeds exactly when both sides saw the same pair of   *)
(* messages: n names the message of an initiator, m that of a joiner.      *)
(***************************************************************************)
EXTENDS Integers, Sequences

CONSTANTS Devices, Accounts, Passwords, Channels,
          AccountOf,       \* the account of a device signed in at the start, or Nobody
          Nobody,          \* no account, and no password of a record
          RelayTTL,        \* relay_ttl_seconds
          MaxNow, MaxGen,  \* bounds: the clock, and generations of a record
          MaxPairings,     \* bound: messages of either side of pairings
          MaxPushes,       \* bound: records pushed to the server
          MaxCrashes       \* bound: kills of devices and restarts of the server

ASSUME OnboardingAssumption ==
  /\ Nobody \notin Accounts \cup Passwords \cup Channels
  /\ AccountOf \in [Devices -> Accounts \cup {Nobody}]
  /\ RelayTTL \in Nat /\ MaxNow \in Nat /\ MaxCrashes \in Nat
  /\ MaxGen \in Nat \ {0} /\ MaxPairings \in Nat /\ MaxPushes \in Nat

VARIABLES
  now,      \* the server's clock
  chan,     \* pake_relay: the three slots of every channel
  rows,     \* keyset_blobs: one row per account and generation
  hand,     \* requests PUT /v1/keyset the server is working on
  dev,      \* what a device has on disk, in its keychain and in memory
  pc, work, \* the command a device is at, and what the command carries
  sealed,   \* the transcripts an initiator sealed its keys for
  joined,   \* the transcripts a joiner installed keys from
  sent,     \* per push: the record's password and the one typed for it
  nextN, nextM, crashes

serverVars == <<chan, rows, hand>>
pairVars == <<sealed, joined, nextN, nextM>>
vars == <<now, chan, rows, hand, dev, pc, work, sealed, joined, sent, nextN, nextM, crashes>>

NoMsg == [n |-> 0, m |-> 0, acc |-> Nobody]
NoRec == [acc |-> Nobody, pw |-> Nobody, gen |-> 0, torn |-> FALSE]
NoRow == [acc |-> Nobody, gen |-> 0, pw |-> Nobody, push |-> 0, escPw |-> Nobody, salt |-> 0]
NoWork == [ch |-> Nobody, msg |-> NoMsg, row |-> NoRow, pw |-> Nobody, salt |-> 0, how |-> "none"]
Blank == [db |-> Nobody, rec |-> NoRec, floor |-> 0, open |-> FALSE, sk |-> Nobody]

People == Accounts \cup {Nobody}
Words == Passwords \cup {Nobody}
Messages == [n : 0..MaxPairings, m : 0..MaxPairings, acc : People]
Records == [acc : People, pw : Words, gen : 0..MaxGen, torn : BOOLEAN]
Rows == [acc : People, gen : 0..MaxGen, pw : Words, push : 0..MaxPushes, escPw : Words, salt : 0..MaxPushes]
Disks == [db : People, rec : Records, floor : 0..MaxGen, open : BOOLEAN, sk : People]
Works == [ch : Channels \cup {Nobody}, msg : Messages, row : Rows, pw : Words, salt : 0..MaxPushes,
          how : {"none", "pull", "escrow", "import"}]
Chans == [st : {"none", "open", "gone"}, by : Devices \cup {Nobody}, exp : Nat, slot : [1..3 -> Messages]]
Stages == {"idle", "await2", "post3", "post2", "await3", "record", "whole", "finish",
           "send", "fetch", "accept", "persist", "raise"}

(* A device signed in at the start holds a record of generation 1 under    *)
(* the first password somebody chose, and its Secret Key.                  *)
Init ==
  /\ now = 0 /\ rows = {} /\ hand = {}
  /\ chan = [c \in Channels |-> [st |-> "none", by |-> Nobody, exp |-> 0,
                                 slot |-> [k \in 1..3 |-> NoMsg]]]
  /\ \E p \in Passwords :
       dev = [d \in Devices |->
                IF AccountOf[d] = Nobody THEN Blank
                ELSE [db |-> AccountOf[d], open |-> TRUE, floor |-> 1, sk |-> AccountOf[d],
                      rec |-> [acc |-> AccountOf[d], pw |-> p, gen |-> 1, torn |-> FALSE]]]
  /\ pc = [d \in Devices |-> "idle"] /\ work = [d \in Devices |-> NoWork]
  /\ sealed = {} /\ joined = {} /\ sent = <<>>
  /\ nextN = 1 /\ nextM = 1 /\ crashes = 0

(***************************************************************************)
(* The relay.                                                              *)
(***************************************************************************)
Alive(c) == chan[c].st = "open" /\ chan[c].exp > now
\* A slot takes whatever is posted last.
relay_put_slot(c, k, msg) == Alive(c) /\ chan' = [chan EXCEPT ![c].slot[k] = msg]
relay_poll(c, k) == Alive(c) /\ chan[c].slot[k] # NoMsg

Tick == now < MaxNow /\ now' = now + 1
        /\ UNCHANGED <<serverVars, pairVars, dev, pc, work, sent, crashes>>

\* The janitor deletes what expired.
PruneRelay ==
  /\ \E c \in Channels : chan[c].st = "open" /\ chan[c].exp < now
  /\ chan' = [c \in Channels |-> IF chan[c].st = "open" /\ chan[c].exp < now
                                 THEN [chan[c] EXCEPT !.st = "gone"] ELSE chan[c]]
  /\ UNCHANGED <<now, rows, hand, pairVars, dev, pc, work, sent, crashes>>

Go(d, stage, w) == /\ pc' = [pc EXCEPT ![d] = stage]
                   /\ work' = [work EXCEPT ![d] = w]
Stop(d) == Go(d, "idle", NoWork)

\* A command fails or its polls run out: poll_until, an expired channel, a network
\* error. What it has done so far stays.
GiveUp(d) ==
  /\ pc[d] \in {"await2", "post3", "post2", "await3", "send", "fetch"}
  /\ Stop(d)
  /\ UNCHANGED <<now, serverVars, pairVars, dev, sent, crashes>>

\* The signed-in device opens a channel and shows the pairing text.
server_onboard_initiate(d) ==
  /\ dev[d].open /\ pc[d] = "idle"
  /\ \E c \in Channels :
       /\ chan[c].st = "none"
       /\ chan' = [chan EXCEPT ![c].st = "open", ![c].by = d, ![c].exp = now + RelayTTL]
  /\ UNCHANGED <<now, rows, hand, pairVars, dev, pc, work, sent, crashes>>

\* It takes its Secret Key from the keychain and posts msg1.
initiator_complete(d) ==
  /\ pc[d] = "idle" /\ dev[d].sk # Nobody /\ nextN <= MaxPairings
  /\ \E c \in Channels :
       LET msg == [NoMsg EXCEPT !.n = nextN] IN
       /\ chan[c].by = d /\ relay_put_slot(c, 1, msg)
       /\ Go(d, "await2", [NoWork EXCEPT !.ch = c, !.msg = msg])
  /\ nextN' = nextN + 1
  /\ UNCHANGED <<now, rows, hand, sealed, joined, nextM, dev, sent, crashes>>

\* The other device reads msg1 and answers it with a message of its own.
responder_join(d) ==
  /\ pc[d] = "idle" /\ nextM <= MaxPairings
  /\ \E c \in Channels, p \in Passwords :
       /\ relay_poll(c, 1)
       /\ Go(d, "post2", [NoWork EXCEPT !.ch = c, !.pw = p,
                                        !.msg = [chan[c].slot[1] EXCEPT !.m = nextM]])
  /\ nextM' = nextM + 1
  /\ UNCHANGED <<now, serverVars, sealed, joined, nextN, dev, sent, crashes>>

PostMsg2(d) ==
  /\ pc[d] = "post2" /\ relay_put_slot(work[d].ch, 2, work[d].msg)
  /\ Go(d, "await3", work[d])
  /\ UNCHANGED <<now, rows, hand, pairVars, dev, sent, crashes>>

\* verify_confirm_tag and the key of the channel: both sides saw the same msg1 and msg2.
Confirms(mine, theirs) == theirs.n = mine.n /\ (mine.m = 0 \/ theirs.m = mine.m)

\* msg2 arrived: seal the keys of the unlocked core for exactly that answer.
onboard_confirm_and_seal(d) ==
  LET msg2 == chan[work[d].ch].slot[2] IN
  /\ pc[d] = "await2" /\ relay_poll(work[d].ch, 2)
  /\ IF dev[d].open /\ Confirms(work[d].msg, msg2)
     THEN LET msg3 == [msg2 EXCEPT !.acc = dev[d].rec.acc] IN
          Go(d, "post3", [work[d] EXCEPT !.msg = msg3]) /\ sealed' = sealed \cup {msg3}
     ELSE Stop(d) /\ UNCHANGED sealed
  /\ UNCHANGED <<now, serverVars, joined, nextN, nextM, dev, sent, crashes>>

PostMsg3(d) ==
  /\ pc[d] = "post3" /\ relay_put_slot(work[d].ch, 3, work[d].msg)
  /\ Stop(d)
  /\ UNCHANGED <<now, rows, hand, pairVars, dev, sent, crashes>>

\* Nothing may be on this device yet.
FreeDisk(d) == dev[d].rec = NoRec /\ dev[d].db = Nobody

\* msg3 arrived: the keys are opened and the database is created under them.
onboard_finish_install(d) ==
  LET msg3 == chan[work[d].ch].slot[3] IN
  /\ pc[d] = "await3" /\ relay_poll(work[d].ch, 3)
  /\ IF FreeDisk(d) /\ Confirms(work[d].msg, msg3)
     THEN /\ dev' = [dev EXCEPT ![d].db = msg3.acc, ![d].floor = 0]
          /\ joined' = joined \cup {[dev |-> d, msg |-> work[d].msg, acc |-> msg3.acc]}
          /\ Go(d, "record", [work[d] EXCEPT !.msg = msg3])
     ELSE Stop(d) /\ UNCHANGED <<dev, joined>>
  /\ UNCHANGED <<now, serverVars, sealed, nextN, nextM, sent, crashes>>

\* open_keyset_file creates the record, write_all fills it: a kill in between leaves a
\* torn one. A write that fails takes database and record away again.
CreateRecord(d) ==
  /\ pc[d] = "record"
  /\ \/ /\ dev' = [dev EXCEPT ![d].rec = [acc |-> work[d].msg.acc, pw |-> work[d].pw,
                                          gen |-> 1, torn |-> TRUE]]
        /\ Go(d, "whole", work[d])
     \/ dev' = [dev EXCEPT ![d].db = Nobody] /\ Stop(d)
  /\ UNCHANGED <<now, serverVars, pairVars, sent, crashes>>

WriteRecord(d) ==
  /\ pc[d] = "whole"
  /\ \/ dev' = [dev EXCEPT ![d].rec.torn = FALSE] /\ Go(d, "finish", work[d])
     \/ dev' = [dev EXCEPT ![d].rec = NoRec, ![d].db = Nobody] /\ Stop(d)
  /\ UNCHANGED <<now, serverVars, pairVars, sent, crashes>>

\* The keychain may refuse: the Secret Key is then asked for at every unlock.
SaveKey(d, acc) == {acc, dev[d].sk}

\* Floor, session and keychain, as a pairing and an accepted record end.
Finish(d, r) ==
  /\ \E k \in SaveKey(d, r.acc) :
       dev' = [dev EXCEPT ![d].floor = IF r.gen > @ THEN r.gen ELSE @, ![d].open = TRUE, ![d].sk = k]
  /\ Stop(d)
  /\ UNCHANGED <<now, serverVars, pairVars, sent, crashes>>

FinishInstall(d) == pc[d] = "finish" /\ Finish(d, dev[d].rec)

(***************************************************************************)
(* The keyset on the server.                                               *)
(***************************************************************************)
RowsOf(acc) == {r \in rows : r.acc = acc}
\* get_latest_keyset: the newest generation.
Latest(acc) == CHOOSE r \in RowsOf(acc) : \A s \in RowsOf(acc) : s.gen <= r.gen

\* The desktop reads its record, then derives the credential of the escrow from what
\* was typed, which nothing compares with the record.
server_keyset_push(d) ==
  /\ pc[d] = "idle" /\ dev[d].open /\ Len(sent) < MaxPushes
  /\ \E p \in Passwords :
       Go(d, "send", [NoWork EXCEPT !.pw = p,
            !.row = [NoRow EXCEPT !.acc = dev[d].rec.acc, !.gen = dev[d].rec.gen, !.pw = dev[d].rec.pw]])
  /\ UNCHANGED <<now, serverVars, pairVars, dev, sent, crashes>>

\* PUT /v1/keyset: a fresh salt makes the credential of every push its own.
SendPush(d) ==
  LET q == Len(sent) + 1 IN
  /\ pc[d] = "send" /\ q <= MaxPushes
  /\ sent' = Append(sent, [pw |-> work[d].row.pw, typed |-> work[d].pw])
  /\ hand' = hand \cup {[q |-> q, row |-> [work[d].row EXCEPT !.push = q], at |-> "check"]}
  /\ Stop(d)
  /\ UNCHANGED <<now, chan, rows, pairVars, dev, crashes>>

MoveOn(h, at) == (hand \ {h}) \cup {[h EXCEPT !.at = at]}
HandlerOnly == UNCHANGED <<now, chan, pairVars, dev, pc, work, sent, crashes>>

\* keyset_max_generation, read before the row is written.
keyset_put(h) ==
  /\ h.at = "check"
  /\ hand' = IF \E r \in RowsOf(h.row.acc) : h.row.gen <= r.gen THEN hand \ {h} ELSE MoveOn(h, "insert")
  /\ UNCHANGED rows /\ HandlerOnly

Taken(row) == \E r \in rows : r.acc = row.acc /\ r.gen = row.gen
MutPutKeyset(h) ==
  /\ h.at = "insert"
  /\ hand' = MoveOn(h, "escrow")
  /\ rows' = IF Taken(h.row) THEN rows ELSE rows \cup {h.row}
  /\ HandlerOnly
\* The key of the table decides between two pushes of one generation.
put_keyset(h) ==
  /\ h.at = "insert"
  /\ IF Taken(h.row)
     THEN hand' = hand \ {h} /\ UNCHANGED rows
     ELSE hand' = MoveOn(h, "escrow") /\ rows' = rows \cup {h.row}
  /\ HandlerOnly

set_escrow(h) ==
  /\ h.at = "escrow"
  /\ rows' = {IF r.acc = h.row.acc /\ r.gen = h.row.gen
              THEN [r EXCEPT !.escPw = sent[h.q].typed, !.salt = h.q] ELSE r : r \in rows}
  /\ hand' = hand \ {h}
  /\ HandlerOnly

\* The server goes down with its requests; the keyset may be left without an escrow.
RestartServer ==
  /\ hand # {} /\ crashes < MaxCrashes
  /\ hand' = {} /\ crashes' = crashes + 1
  /\ UNCHANGED <<now, chan, rows, pairVars, dev, pc, work, sent>>

(***************************************************************************)
(* A record from the server.                                               *)
(***************************************************************************)
\* A linked device asks for the newest record of its account.
server_keyset_pull_and_unlock(d) ==
  /\ pc[d] = "idle" /\ dev[d].db # Nobody /\ RowsOf(dev[d].db) # {}
  /\ \E p \in Passwords :
       Go(d, "accept", [NoWork EXCEPT !.pw = p, !.row = Latest(dev[d].db), !.how = "pull"])
  /\ UNCHANGED <<now, serverVars, pairVars, dev, sent, crashes>>

\* The parameters of the newest row; an account without escrow is answered with a
\* decoy, salt 0, that no credential was ever derived from.
escrow_params(acc) == Latest(acc).salt
\* A credential is of one password and one salt; the newest row is handed out to the
\* one it was armed with.
escrow_fetch(r, pw, salt) == r.salt # 0 /\ r.salt = salt /\ r.escPw = pw

server_escrow_params(d) ==
  /\ pc[d] = "idle"
  /\ \E acc \in Accounts, p \in Passwords :
       /\ RowsOf(acc) # {}
       /\ Go(d, "fetch", [NoWork EXCEPT !.pw = p, !.salt = escrow_params(acc), !.row.acc = acc])
  /\ UNCHANGED <<now, serverVars, pairVars, dev, sent, crashes>>

server_escrow_fetch_and_unlock(d) ==
  LET r == Latest(work[d].row.acc) IN
  /\ pc[d] = "fetch"
  /\ IF escrow_fetch(r, work[d].pw, work[d].salt)
     THEN Go(d, "accept", [work[d] EXCEPT !.row = r, !.how = "escrow"])
     ELSE Stop(d)
  /\ UNCHANGED <<now, serverVars, pairVars, dev, sent, crashes>>

\* A record somebody saved earlier, of any generation.
server_import_keyset_and_unlock(d) ==
  /\ pc[d] = "idle"
  /\ \E r \in rows, p \in Passwords :
       Go(d, "accept", [NoWork EXCEPT !.pw = p, !.row = r, !.how = "import"])
  /\ UNCHANGED <<now, serverVars, pairVars, dev, sent, crashes>>

\* Storage::open: a database is created, or opens only with the keys it was made with.
OpensHere(d, r) == dev[d].db \in {Nobody, r.acc}

\* unlock_from_server_blob: password, database and generation are checked before
\* anything is accepted; a database it created stays.
unlock_from_server_blob(d) ==
  LET r == work[d].row IN
  /\ pc[d] = "accept"
  /\ IF r.pw = work[d].pw /\ OpensHere(d, r)
     THEN /\ dev' = [dev EXCEPT ![d].db = r.acc]
          /\ IF r.gen < dev[d].floor THEN Stop(d) ELSE Go(d, "persist", work[d])
     ELSE Stop(d) /\ UNCHANGED dev
  /\ UNCHANGED <<now, serverVars, pairVars, sent, crashes>>

\* write_keyset_atomic, then the floor: in this order a kill leaves a record that opens.
PersistRecord(d) ==
  /\ pc[d] = "persist"
  /\ dev' = [dev EXCEPT ![d].rec = [acc |-> work[d].row.acc, pw |-> work[d].row.pw,
                                    gen |-> work[d].row.gen, torn |-> FALSE]]
  /\ Go(d, "raise", work[d])
  /\ UNCHANGED <<now, serverVars, pairVars, sent, crashes>>

RaiseFloor(d) == pc[d] = "raise" /\ Finish(d, dev[d].rec)

(***************************************************************************)
(* What else happens to a device.                                          *)
(***************************************************************************)
Usable(d) == dev[d].rec # NoRec /\ ~dev[d].rec.torn /\ dev[d].db # Nobody

\* A command that holds the state lock is not interrupted by these.
Between(d) == pc[d] \notin {"record", "whole", "finish", "persist", "raise"}
DeviceOnly == UNCHANGED <<now, serverVars, pairVars, pc, work, sent, crashes>>

LockDevice(d) == dev[d].open /\ Between(d) /\ dev' = [dev EXCEPT ![d].open = FALSE] /\ DeviceOnly
UnlockDevice(d) ==
  /\ ~dev[d].open /\ Between(d) /\ Usable(d)
  /\ dev[d].rec.acc = dev[d].db /\ dev[d].rec.gen >= dev[d].floor
  /\ dev' = [dev EXCEPT ![d].open = TRUE, ![d].floor = dev[d].rec.gen]
  /\ DeviceOnly
change_password(d) ==
  /\ dev[d].open /\ Between(d) /\ dev[d].rec.gen < MaxGen
  /\ \E p \in Passwords \ {dev[d].rec.pw} :
       dev' = [dev EXCEPT ![d].rec.pw = p, ![d].rec.gen = @ + 1, ![d].floor = dev[d].rec.gen + 1]
  /\ DeviceOnly

\* Killed anywhere: the disk stays as it is.
KillDevice(d) ==
  /\ pc[d] # "idle" /\ crashes < MaxCrashes
  /\ dev' = [dev EXCEPT ![d].open = FALSE] /\ Stop(d) /\ crashes' = crashes + 1
  /\ UNCHANGED <<now, serverVars, pairVars, sent>>

Pairing(d) ==
  \/ server_onboard_initiate(d) \/ initiator_complete(d) \/ onboard_confirm_and_seal(d) \/ PostMsg3(d)
  \/ responder_join(d) \/ PostMsg2(d) \/ onboard_finish_install(d)
  \/ CreateRecord(d) \/ WriteRecord(d) \/ FinishInstall(d)
Keyset(d) ==
  \/ server_keyset_push(d) \/ SendPush(d) \/ server_keyset_pull_and_unlock(d) \/ server_escrow_params(d)
  \/ server_escrow_fetch_and_unlock(d) \/ server_import_keyset_and_unlock(d)
  \/ unlock_from_server_blob(d) \/ PersistRecord(d) \/ RaiseFloor(d)
PushHandler(h) == keyset_put(h) \/ put_keyset(h) \/ set_escrow(h)

Next ==
  \/ Tick \/ PruneRelay \/ RestartServer
  \/ \E h \in hand : PushHandler(h)
  \/ \E d \in Devices : \/ Pairing(d) \/ Keyset(d) \/ GiveUp(d) \/ KillDevice(d)
                        \/ LockDevice(d) \/ UnlockDevice(d) \/ change_password(d)

Spec == Init /\ [][Next]_vars

-----------------------------------------------------------------------------
TypeOK ==
  /\ now \in 0..MaxNow /\ crashes \in 0..MaxCrashes
  /\ chan \in [Channels -> Chans] /\ rows \subseteq Rows
  /\ hand \subseteq [q : 1..MaxPushes, row : Rows, at : {"check", "insert", "escrow"}]
  /\ dev \in [Devices -> Disks] /\ pc \in [Devices -> Stages] /\ work \in [Devices -> Works]
  /\ sealed \subseteq Messages /\ joined \subseteq [dev : Devices, msg : Messages, acc : People]
  /\ sent \in Seq([pw : Words, typed : Words]) /\ Len(sent) <= MaxPushes
  /\ nextN \in 1..MaxPairings + 1 /\ nextM \in 1..MaxPairings + 1

\* Keys are installed only from a seal made for that very joiner: whichever slots were
\* overwritten by a second joiner or a second attempt, the device got the account of the
\* initiator it agreed with, and no seal is installed twice.
PairingAgrees ==
  /\ \A j \in joined : [j.msg EXCEPT !.acc = j.acc] \in sealed
  /\ \A i, j \in joined : i.msg.n = j.msg.n => i = j

\* The record on disk opens the database beside it and is not below its floor, and an
\* open session has both, however pairings, recoveries, imports of old records, password
\* changes and kills follow each other; a torn record is only what a kill left.
RecordOpens ==
  \A d \in Devices :
    /\ Usable(d) => dev[d].rec.acc = dev[d].db /\ dev[d].rec.gen >= dev[d].floor
    /\ dev[d].rec # NoRec => dev[d].db # Nobody
    /\ dev[d].open => Usable(d)

\* What escrow hands out opens with the password that fetched it, if the one who pushed
\* it typed the password of the record: a row never carries the credential of another
\* push, although check, insert and arming are three statements of concurrent requests.
FetchOpens ==
  \A d \in Devices : pc[d] = "accept" /\ work[d].how = "escrow" =>
    LET q == sent[work[d].row.push] IN q.typed = q.pw => work[d].row.pw = work[d].pw

\* A device is given exactly the account it agreed on with its partner or has the
\* credentials of, and what is on its disk opens.
OnboardingSound == PairingAgrees /\ RecordOpens /\ FetchOpens
=============================================================================

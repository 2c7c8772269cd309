------------------------------ MODULE AuditLog ------------------------------
(***************************************************************************)
(* The audit log of the server and everything that reads it: requests that *)
(* append entries under the lock of the instance row (append_audit_row),   *)
(* one delivery task per configured sink with a persisted cursor           *)
(* (audit_sinks.rs: Delivery; webhook.rs, syslog.rs), and owners who list  *)
(* or export it page by page (modules/audit.rs).  A chain hash stands for  *)
(* the records it was computed from.  What an entry says is left out.      *)
(***************************************************************************)
EXTENDS Naturals, Sequences, FiniteSets, SequencesExt

CONSTANTS Writers,      \* requests that append, one entry at a time
          Sinks,        \* the configured sinks
          Transport,    \* of a sink: "webhook", "udp" or "tcp"
          TooLong,      \* numbers of entries whose message no datagram can carry
          Readers,      \* owners' requests that read the log
          BatchSize,    \* batch_size of a sink
          PageSize,     \* rows per page of a listing or an export
          MaxLog, MaxFaults, MaxCrashes

AuditAssumption ==
  /\ Transport \in [Sinks -> {"webhook", "udp", "tcp"}] /\ TooLong \subseteq Nat
  /\ BatchSize \in Nat \ {0} /\ PageSize \in Nat \ {0}
  /\ MaxLog \in Nat /\ MaxFaults \in Nat /\ MaxCrashes \in Nat

VARIABLES log,       \* audit_log: rows of a number, an author and a chain hash
          lock,      \* who holds the instance row, or nobody
          writer,    \* each appending transaction
          task,      \* each sink's Delivery: place, batch, batch to retry
          cursor,    \* audit_sink_cursor
          told,      \* SinkStatus.last_delivered_seq, 0 before the first
          link,      \* whether the TCP connection of a sink is in its slot
          handed,    \* numbers a sink has handed to its transport
          got,       \* numbers the receiver has
          reader,    \* each listing or export
          crashes, faults

vars == <<log, lock, writer, task, cursor, told, link, handed, got, reader, crashes, faults>>
logVars == <<log, lock, writer>>
sinkVars == <<task, cursor, told, link, handed, got>>
ends == <<crashes, faults>>

Nobody == "nobody"
Quiet == [pc |-> "idle", seq |-> 0, prev |-> <<>>]
Off == [pc |-> "off", after |-> 0, batch |-> <<>>, pending |-> <<>>, at |-> 1]
NoRead == [pc |-> "idle", all |-> FALSE, next |-> 1, to |-> 0, out |-> <<>>, head |-> 0]

Init ==
  /\ log = {} /\ lock = Nobody
  /\ writer = [w \in Writers |-> Quiet]
  /\ task = [s \in Sinks |-> [Off EXCEPT !.pc = "step"]]
  /\ cursor = [s \in Sinks |-> 0] /\ told = [s \in Sinks |-> 0]
  /\ link = [s \in Sinks |-> FALSE]
  /\ handed = [s \in Sinks |-> {}] /\ got = [s \in Sinks |-> {}]
  /\ reader = [r \in Readers |-> NoRead]
  /\ crashes = 0 /\ faults = 0

-----------------------------------------------------------------------------
(* Appending.                                                              *)

\* MAX(seq), and the chain hash of the last row.
LogHead == IF log = {} THEN 0 ELSE CHOOSE n \in {r.seq : r \in log} : \A r \in log : r.seq <= n
LastChain == IF log = {} THEN <<>> ELSE (CHOOSE r \in log : r.seq = LogHead).chain

\* chain_hash over audit_record_bytes: another record, another hash.
Chain(prev, n, by) == Append(prev, <<n, by>>)

\* The instance row is locked before the log is read.
LockInstance(w) ==
  /\ writer[w].pc = "idle" /\ Cardinality(log) < MaxLog /\ lock = Nobody
  /\ lock' = w /\ writer' = [writer EXCEPT ![w].pc = "locked"]
  /\ UNCHANGED <<log, sinkVars, reader, ends>>

ReadHead(w) ==
  /\ writer[w].pc = "locked"
  /\ writer' = [writer EXCEPT ![w] = [pc |-> "insert", seq |-> LogHead + 1, prev |-> LastChain]]
  /\ UNCHANGED <<log, lock, sinkVars, reader, ends>>

Release(w) == lock' = IF lock = w THEN Nobody ELSE lock

\* The row becomes visible when the transaction commits; the number is a primary key.
Commit(w) ==
  /\ writer[w].pc = "insert" /\ ~\E r \in log : r.seq = writer[w].seq
  /\ log' = log \cup {[seq |-> writer[w].seq, by |-> w,
                       chain |-> Chain(writer[w].prev, writer[w].seq, w)]}
  /\ Release(w) /\ writer' = [writer EXCEPT ![w] = Quiet]
  /\ UNCHANGED <<sinkVars, reader, ends>>

\* A failed append is rolled back, and swallowed by audit_event.
Rollback(w) ==
  /\ writer[w].pc # "idle" /\ faults < MaxFaults
  /\ Release(w) /\ writer' = [writer EXCEPT ![w] = Quiet]
  /\ faults' = faults + 1
  /\ UNCHANGED <<log, sinkVars, reader, crashes>>

-----------------------------------------------------------------------------
(* Delivery of one sink.                                                   *)

\* export_audit_page: rows from a number to another, ascending, at most limit.
ByNumber(rows) == SetToSortSeq(rows, LAMBDA a, b : a.seq < b.seq)
MutPage(from, to, limit) ==
  LET rows == ByNumber({r \in log : from < r.seq /\ r.seq <= to})
  IN  SubSeq(rows, 1, IF Len(rows) < limit THEN Len(rows) ELSE limit)
Page(from, to, limit) ==
  LET rows == ByNumber({r \in log : from <= r.seq /\ r.seq <= to})
  IN  SubSeq(rows, 1, IF Len(rows) < limit THEN Len(rows) ELSE limit)
Numbers(rows) == {rows[i].seq : i \in 1 .. Len(rows)}

Goes(s, p) == task' = [task EXCEPT ![s].pc = p]

\* fail: the batch is kept for the retry, which comes after the backoff.
Fails(s, keep) ==
  /\ faults < MaxFaults /\ faults' = faults + 1
  /\ task' = [task EXCEPT ![s] = [Off EXCEPT !.pc = "wait", !.pending = keep]]

\* step: the batch to retry goes first; otherwise the cursor is read.
Step(s) ==
  /\ task[s].pc = "step"
  /\ LET again == task[s].pending IN
     task' = [task EXCEPT ![s] = IF again # <<>> THEN [Off EXCEPT !.pc = "send", !.batch = again]
                                 ELSE [Off EXCEPT !.pc = "page", !.after = cursor[s]]]
  /\ UNCHANGED <<logVars, cursor, told, link, handed, got, reader, ends>>

\* next_batch: rows after the cursor; none means the sink has caught up.
NextBatch(s) ==
  /\ task[s].pc = "page"
  /\ LET rows == Page(task[s].after + 1, MaxLog, BatchSize) IN
     task' = [task EXCEPT ![s] = IF rows = <<>> THEN [Off EXCEPT !.pc = "wait"]
                                 ELSE [Off EXCEPT !.pc = "send", !.batch = rows]]
  /\ UNCHANGED <<logVars, cursor, told, link, handed, got, reader, ends>>

LogReadFails(s) ==
  /\ task[s].pc \in {"step", "page"} /\ task[s].pending = <<>>
  /\ Fails(s, <<>>)
  /\ UNCHANGED <<logVars, cursor, told, link, handed, got, reader, crashes>>

\* What the sink hands over, and how much of it arrives.
Hands(s, numbers, arrived) ==
  /\ handed' = [handed EXCEPT ![s] = @ \cup numbers]
  /\ got' = [got EXCEPT ![s] = @ \cup arrived]

\* WebhookSink::deliver: the batch is posted as a whole; the answer, or the post, may be
\* lost or refused.
Posted(s) ==
  /\ task[s].pc = "send" /\ Transport[s] = "webhook"
  /\ Hands(s, Numbers(task[s].batch), Numbers(task[s].batch)) /\ Goes(s, "save")
  /\ UNCHANGED <<logVars, cursor, told, link, reader, ends>>
PostFails(s) ==
  /\ task[s].pc = "send" /\ Transport[s] = "webhook"
  /\ \E arrived \in {{}, Numbers(task[s].batch)} : Hands(s, arrived, arrived)
  /\ Fails(s, task[s].batch)
  /\ UNCHANGED <<logVars, cursor, told, link, reader, crashes>>

\* format_message: what a message weighs depends on its entry only.
Fits(n) == n \notin TooLong

\* send_udp: one datagram per entry, those no datagram can carry are passed over; what
\* was sent may be lost on the way; an error of the socket fails the whole batch.
Datagram(s) ==
  /\ task[s].pc = "send" /\ Transport[s] = "udp"
  /\ LET t == task[s]
         n == t.batch[t.at].seq IN
     /\ \/ ~Fits(n) /\ UNCHANGED <<handed, got>>
        \/ Fits(n) /\ \E arrived \in {{}, {n}} : Hands(s, {n}, arrived)
     /\ task' = [task EXCEPT ![s] = IF t.at = Len(t.batch) THEN [t EXCEPT !.pc = "save"]
                                    ELSE [t EXCEPT !.at = @ + 1]]
  /\ UNCHANGED <<logVars, cursor, told, link, reader, ends>>
DatagramFails(s) ==
  /\ task[s].pc = "send" /\ Transport[s] = "udp"
  /\ Fails(s, task[s].batch)
  /\ UNCHANGED <<logVars, cursor, told, link, handed, got, reader, crashes>>

\* send_tcp: connect unless a live connection is in the slot, write every frame, flush.
\* Nothing confirms receipt: of frames that were flushed the collector may read only the
\* first ones and be gone.  A connection that fails is dropped.
Written(s) ==
  /\ task[s].pc = "send" /\ Transport[s] = "tcp"
  /\ \E n \in 0 .. Len(task[s].batch) :
       /\ Hands(s, Numbers(task[s].batch), Numbers(SubSeq(task[s].batch, 1, n)))
       /\ link' = [link EXCEPT ![s] = n = Len(task[s].batch)]
  /\ Goes(s, "save")
  /\ UNCHANGED <<logVars, cursor, told, reader, ends>>
WriteFails(s) ==
  /\ task[s].pc = "send" /\ Transport[s] = "tcp"
  /\ \E n \in 0 .. Len(task[s].batch) :
       LET across == Numbers(SubSeq(task[s].batch, 1, n)) IN Hands(s, across, across)
  /\ link' = [link EXCEPT ![s] = FALSE]
  /\ Fails(s, task[s].batch)
  /\ UNCHANGED <<logVars, cursor, told, reader, crashes>>
\* The collector closes the connection; tcp_alive finds out before the next batch.
Closes(s) ==
  /\ link[s] /\ link' = [link EXCEPT ![s] = FALSE]
  /\ UNCHANGED <<logVars, task, cursor, told, handed, got, reader, ends>>

\* The cursor is saved after the acknowledgement.
LastOf(batch) == batch[Len(batch)].seq
SaveCursor(s) ==
  /\ task[s].pc = "save"
  /\ cursor' = [cursor EXCEPT ![s] = LastOf(task[s].batch)]
  /\ Goes(s, "record")
  /\ UNCHANGED <<logVars, told, link, handed, got, reader, ends>>
SaveFails(s) ==
  /\ task[s].pc = "save"
  /\ Fails(s, task[s].batch)
  /\ UNCHANGED <<logVars, cursor, told, link, handed, got, reader, crashes>>

\* step_recorded: the head of the log is read for the lag gauge, which may fail without
\* further effect, and only then the outcome is recorded in the status.
Record(s) ==
  /\ task[s].pc = "record"
  /\ told' = [told EXCEPT ![s] = LastOf(task[s].batch)]
  /\ task' = [task EXCEPT ![s] = [Off EXCEPT !.pc = "step"]]
  /\ UNCHANGED <<logVars, cursor, link, handed, got, reader, ends>>

\* After the poll interval or the backoff.
Wake(s) ==
  /\ task[s].pc = "wait" /\ Goes(s, "step")
  /\ UNCHANGED <<logVars, cursor, told, link, handed, got, reader, ends>>

-----------------------------------------------------------------------------
(* The process.                                                            *)

\* A crash, or a shutdown, which drops whatever a task waits for: open transactions are
\* rolled back, batches to retry are forgotten, log and cursors stay.
Restart ==
  /\ crashes < MaxCrashes /\ crashes' = crashes + 1
  /\ lock' = Nobody /\ writer' = [w \in Writers |-> Quiet]
  /\ task' = [s \in Sinks |-> [Off EXCEPT !.pc = "step"]]
  /\ told' = [s \in Sinks |-> 0] /\ link' = [s \in Sinks |-> FALSE]
  /\ reader' = [r \in Readers |-> IF reader[r].pc = "page" THEN NoRead ELSE reader[r]]
  /\ UNCHANGED <<log, cursor, handed, got, faults>>

-----------------------------------------------------------------------------
(* Listings and exports.                                                   *)

\* audit_export: the upper end is the head at the time of the request.
Export(r, from, to) ==
  /\ reader[r].pc = "idle" /\ 1 <= from /\ from <= to
  /\ reader' = [reader EXCEPT ![r] =
       [pc |-> "page", all |-> FALSE, next |-> from, to |-> IF to < LogHead THEN to ELSE LogHead,
        out |-> <<>>, head |-> from]]
  /\ UNCHANGED <<logVars, sinkVars, ends>>
ExportPage(r) ==
  /\ reader[r].pc = "page" /\ ~reader[r].all
  /\ LET x == reader[r]
         rows == Page(x.next, x.to, PageSize) IN
     reader' = [reader EXCEPT ![r] =
       IF x.next > x.to \/ rows = <<>> THEN [x EXCEPT !.pc = "done"]
       ELSE [x EXCEPT !.out = @ \o rows, !.next = LastOf(rows) + 1]]
  /\ UNCHANGED <<logVars, sinkVars, ends>>

\* audit_query, asked again from next_since as long as there is more.
List(r) ==
  /\ reader[r].pc = "idle"
  /\ reader' = [reader EXCEPT ![r] =
       [pc |-> "page", all |-> TRUE, next |-> 0, to |-> 0, out |-> <<>>, head |-> LogHead]]
  /\ UNCHANGED <<logVars, sinkVars, ends>>
ListPage(r) ==
  /\ reader[r].pc = "page" /\ reader[r].all
  /\ LET x == reader[r]
         rows == Page(x.next, MaxLog, PageSize)
         next_since == IF rows = <<>> THEN x.next ELSE LastOf(rows) + 1
         has_more == Len(rows) = PageSize IN
     reader' = [reader EXCEPT ![r] =
       [x EXCEPT !.out = @ \o rows, !.next = next_since, !.pc = IF has_more THEN "page" ELSE "done"]]
  /\ UNCHANGED <<logVars, sinkVars, ends>>

-----------------------------------------------------------------------------
Writing(w) == LockInstance(w) \/ ReadHead(w) \/ Commit(w) \/ Rollback(w)
Delivering(s) ==
  \/ Step(s) \/ NextBatch(s) \/ LogReadFails(s) \/ Posted(s) \/ PostFails(s) \/ Datagram(s)
  \/ DatagramFails(s) \/ Written(s) \/ WriteFails(s) \/ Closes(s) \/ SaveCursor(s)
  \/ SaveFails(s) \/ Record(s) \/ Wake(s)
Reading(r) ==
  \/ \E from, to \in 1 .. MaxLog : Export(r, from, to)
  \/ ExportPage(r) \/ List(r) \/ ListPage(r)

Next ==
  \/ \E w \in Writers : Writing(w)
  \/ \E s \in Sinks : Delivering(s)
  \/ \E r \in Readers : Reading(r)
  \/ Restart

Spec == Init /\ [][Next]_vars

-----------------------------------------------------------------------------
Rows == [seq : Nat, by : Writers, chain : Seq(Nat \X Writers)]
TypeOK ==
  /\ log \subseteq Rows /\ lock \in Writers \cup {Nobody}
  /\ \A w \in Writers : writer[w].pc \in {"idle", "locked", "insert"}
  /\ \A s \in Sinks : task[s].pc \in {"step", "page", "send", "save", "record", "wait"}
  /\ cursor \in [Sinks -> Nat] /\ told \in [Sinks -> Nat] /\ link \in [Sinks -> BOOLEAN]
  /\ \A r \in Readers : reader[r].pc \in {"idle", "page", "done"}

\* verify_audit_chain: every row's hash is that of the row before it and its own record.
Verified(rows) ==
  LET q == ByNumber(rows) IN
  \A i \in 1 .. Len(q) :
    q[i].chain = Chain(IF i = 1 THEN <<>> ELSE q[i - 1].chain, q[i].seq, q[i].by)

\* The chain verifies at any time, whatever requests append together, fail or are cut
\* off; and with any row but the last one missing it does not (audit_repo.rs:
\* append_audit_row reads number and hash under the lock it inserts under).
ChainHolds ==
  /\ {r.seq : r \in log} = 1 .. Cardinality(log) /\ Verified(log)
  /\ \A r \in log : r.seq < LogHead => ~Verified(log \ {r})

\* At least once: a cursor has passed only what its sink handed over, through failures of
\* the sink, of the log, of the cursor's own write and restarts between any two of them;
\* a webhook's receiver really has it.  Only UDP passes over what no datagram can carry.
HandedBeforePassed ==
  \A s \in Sinks : \A r \in log : r.seq <= cursor[s] =>
    \/ r.seq \in handed[s] /\ (Transport[s] = "webhook" => r.seq \in got[s])
    \/ Transport[s] = "udp" /\ r.seq \in TooLong

\* In order: before an entry goes out all earlier ones have, and the receiver of a
\* webhook, which drops the numbers it has seen, never has a gap.
ReceiverHasNoGap ==
  \A s \in Sinks :
    /\ \A n \in handed[s] : \A m \in 1 .. n : m \in handed[s] \/ (Transport[s] = "udp" /\ m \in TooLong)
    /\ Transport[s] = "webhook" => got[s] = 1 .. Cardinality(got[s])

\* The status of a sink never runs ahead of its saved cursor, and trails it only until the
\* step that saved it is recorded or the process ends (audit_sinks.rs: step_recorded).
ToldIsSaved ==
  \A s \in Sinks :
    /\ told[s] <= cursor[s]
    /\ told[s] \in {0, cursor[s]} \/ (task[s].pc = "record" /\ cursor[s] = LastOf(task[s].batch))

\* A finished export is the log from its first to its last number, each row once, and a
\* finished listing has whatever was there when it was begun, although rows are appended
\* between its pages.
ReadsWhole ==
  \A r \in Readers : reader[r].pc = "done" =>
    LET x == reader[r]
        numbers == [i \in 1 .. Len(x.out) |-> x.out[i].seq] IN
    IF x.all THEN /\ \A i \in 1 .. Len(numbers) : numbers[i] = i
                  /\ Len(numbers) >= x.head
    ELSE numbers = [i \in 1 .. (IF x.to < x.head THEN 0 ELSE x.to - x.head + 1) |-> x.head + i - 1]

CursorForwardStep == \A s \in Sinks : cursor[s] <= cursor'[s]

\* The cursor of a sink never goes back (audit_sinks.rs: Delivery::step, set_sink_cursor).
CursorForward == [][CursorForwardStep]_vars
=============================================================================

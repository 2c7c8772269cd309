---------------------------- MODULE SftpTransfer ----------------------------
(* One SFTP channel and the transfers that run over it: the pipelined       *)
(* download and upload of ssh-transport's sftp.rs, a listing and a plain    *)
(* request, the server that answers in any order and with short reads, the  *)
(* cancel token, and the caller that stages a copy and publishes it.        *)
(* A file is a sequence of units; a unit is the version that wrote it, 0    *)
(* where nothing was ever written.                                          *)
EXTENDS Integers, Sequences, SequencesExt, FiniteSets, TLC

CONSTANTS
  Chunk,      \* units per READ or WRITE (CHUNK)
  Window,     \* requests kept in flight (WINDOW)
  Lens,       \* lengths the source starts with
  Kinds,      \* operations a caller starts, of "download", "upload", "list", "call"
  Known,      \* whether the server reports sizes: a set of Booleans
  Reorder,    \* the server may answer out of order
  Resume,     \* a retry continues the stage from the reported offset
  MaxEdits,   \* edits of the source
  MayCancel,  \* whether a transfer may be cancelled
  MaxShort,   \* short reads, and extra batches of a listing
  MaxBad,     \* refusals, malformed replies, disk errors and broken waits
  MaxRuns     \* operations started

\* What every instance of this module satisfies.
SizesAssumption == Chunk \in Nat \ {0} /\ Window \in Nat \ {0} /\ Lens \subseteq Nat

VARIABLES
  source,     \* the file that is read: contents and the modification time a stat reports
  history,    \* every contents the source has had
  dest,       \* the staged copy
  target,     \* what the caller published, from which stage, and whether the source was
              \* rewritten meanwhile in a way no stat tells
  chan,       \* the channel: poisoned, last id, requests the server owes
  late,       \* WRITEs of abandoned channels the server may still apply
  leg,        \* the operation that holds the channel; blind: see Edit
  cancel,     \* its cancel token
  last,       \* how the last operation ended, and its last progress
  stage,      \* number of the staged file
  used        \* bounds spent

vars == <<source, history, dest, target, chan, late, leg, cancel, last, stage, used>>

NoEof == -1
Unlimited == 1000
Copies == {"download", "upload"}
NoSeen == [size |-> 0, mtime |-> 0]
Idle == [kind |-> "none", pc |-> "idle", start |-> 0, seen |-> NoSeen, flight |-> {},
         reorder |-> <<>>, wo |-> 0, nr |-> 0, limit |-> 0, eof |-> NoEof,
         refused |-> FALSE, blind |-> FALSE]
Fresh == [poisoned |-> FALSE, id |-> 0, asked |-> {}]

Init ==
  /\ \E n \in Lens, k \in Known : source = [data |-> [i \in 1..n |-> 1], mtime |-> 1, known |-> k]
  /\ history = {source.data}
  /\ dest = <<>>
  /\ target = [stage |-> 0, data |-> <<>>, blind |-> FALSE]
  /\ chan = Fresh
  /\ late = {}
  /\ leg = Idle
  /\ cancel = FALSE
  /\ last = [result |-> "none", at |-> 0]
  /\ stage = 0
  /\ used = [edits |-> 0, short |-> 0, bad |-> 0, runs |-> 0]

-----------------------------------------------------------------------------
(* Files *)

WriteAt(file, off, data) ==
  [i \in 1..(IF Len(file) > off + Len(data) THEN Len(file) ELSE off + Len(data)) |->
     IF i > off /\ i <= off + Len(data) THEN data[i - off]
     ELSE IF i <= Len(file) THEN file[i] ELSE 0]
SetLen(file, n) == [i \in 1..n |-> IF i <= Len(file) THEN file[i] ELSE 0]
Measure == [size |-> Len(source.data), mtime |-> source.mtime]

(* Somebody edits the source: it grows, shrinks or is written over. The time *)
(* a stat reports moves on, or stays: it counts whole seconds, the local one  *)
(* the ticks of the file system, and a server that reports no time at all is  *)
(* taken to report 0. An edit that leaves size and time is blind: nothing in  *)
(* a stat tells of it.                                                        *)
Edit ==
  /\ used.edits < MaxEdits
  /\ \E data \in {Append(source.data, used.edits + 2), [i \in DOMAIN source.data |-> used.edits + 2]}
                 \cup (IF source.data = <<>> THEN {} ELSE {Front(source.data)}),
        tick \in {0, 1} :
     /\ source' = [source EXCEPT !.data = data, !.mtime = @ + tick]
     /\ history' = history \cup {data}
     /\ leg' = [leg EXCEPT !.blind = @ \/ (leg.pc # "idle" /\ tick = 0 /\ Len(data) = Len(source.data))]
  /\ used' = [used EXCEPT !.edits = @ + 1]
  /\ UNCHANGED <<dest, target, chan, late, cancel, last, stage>>

-----------------------------------------------------------------------------
(* The channel *)

world == <<source, history, late, cancel>>

Request(c, kind, off, len, data) == [id |-> c.id + 1, kind |-> kind, off |-> off, len |-> len, data |-> data]
Sent(c, q) == [c EXCEPT !.id = q.id, !.asked = @ \cup {q}]
Ask(c, kind) == Sent(c, Request(c, kind, 0, 0, <<>>))
Read(c, q) == [c EXCEPT !.asked = @ \ {q}]

(* The server answers any request it owes, or in order if it does not reorder. *)
Answerable == {q \in chan.asked : Reorder \/ \A r \in chan.asked : q.id <= r.id}

(* read_for: the reply to the one request this operation waits for. *)
Awaited(q) == q.id = chan.id

(* A transfer that was cancelled or failed leaves the channel poisoned, even *)
(* if the last reply had come; other operations only poison a broken stream. *)
Ended(result) == IF cancel /\ leg.kind \in Copies THEN "cancelled" ELSE result
Poisons(result, broken) == broken \/ (leg.kind \in Copies /\ (cancel \/ result = "failed"))

(* on_progress: units written locally, or writes the server has acknowledged. *)
Reported == IF leg.kind \in Copies THEN leg.wo ELSE 0

(* The operation returns; its caller publishes a completed copy. *)
End(result, broken, c, file) ==
  /\ leg' = Idle
  /\ chan' = [c EXCEPT !.poisoned = Poisons(result, broken)]
  /\ last' = [result |-> Ended(result), at |-> Reported]
  /\ dest' = file
  /\ target' = IF leg.kind \in Copies /\ Ended(result) = "completed"
               THEN [stage |-> stage, data |-> file, blind |-> leg.blind] ELSE target
  /\ UNCHANGED stage

(* The wait breaks: the channel's I/O fails or times out, the session closes,*)
(* a listing exceeds its deadline.                                           *)
Break ==
  /\ leg.pc # "idle"
  /\ used.bad < MaxBad
  /\ End("failed", TRUE, chan, dest)
  /\ used' = [used EXCEPT !.bad = @ + 1]
  /\ UNCHANGED world

(* The token is seen before the next packet is sent or read. *)
Cancelled ==
  /\ leg.pc # "idle"
  /\ cancel
  /\ End("failed", TRUE, chan, dest)
  /\ UNCHANGED <<world, used>>

Trigger ==
  /\ MayCancel /\ ~cancel
  /\ leg.pc # "idle"
  /\ cancel' = TRUE
  /\ UNCHANGED <<source, history, dest, target, chan, late, leg, last, stage, used>>

(* The pool throws a poisoned channel away; the server may still read what   *)
(* was written to it.                                                        *)
Reopen ==
  /\ leg.pc = "idle"
  /\ chan.poisoned
  /\ chan' = Fresh
  /\ late' = late \cup {[stage |-> stage, off |-> q.off, data |-> q.data] :
                          q \in {r \in chan.asked : r.kind = "write"}}
  /\ UNCHANGED <<source, history, dest, target, leg, cancel, last, stage, used>>

LateWrite ==
  \E w \in late :
    /\ late' = late \ {w}
    /\ dest' = IF w.stage = stage THEN WriteAt(dest, w.off, w.data) ELSE dest
    /\ target' = IF w.stage = target.stage THEN [target EXCEPT !.data = WriteAt(@, w.off, w.data)] ELSE target
    /\ UNCHANGED <<source, history, chan, leg, cancel, last, stage, used>>

-----------------------------------------------------------------------------
(* An operation begins. A copy is staged in a file of its own; a resumed one *)
(* goes on from the offset its progress last reported.                       *)
Offset(kind) == IF Resume /\ kind \in Copies /\ last.result \in {"cancelled", "failed"} THEN last.at ELSE 0

Anew(kind) == kind \in Copies /\ Offset(kind) = 0

Begin(kind) ==
  /\ leg.pc = "idle"
  /\ ~chan.poisoned
  /\ used.runs < MaxRuns
  /\ used' = [used EXCEPT !.runs = @ + 1]
  /\ cancel' = FALSE
  /\ UNCHANGED <<source, history, target, late>>
  /\ LET start == Offset(kind)
     IN /\ stage' = IF Anew(kind) THEN stage + 1 ELSE stage
        /\ dest' = IF Anew(kind) THEN <<>> ELSE dest
        /\ IF kind = "upload" /\ start > Len(source.data)
           THEN /\ leg' = Idle
                /\ chan' = [chan EXCEPT !.poisoned = TRUE]
                /\ last' = [last EXCEPT !.result = "failed"]
           ELSE /\ leg' = [Idle EXCEPT !.kind = kind, !.start = start, !.wo = start, !.nr = start,
                             !.seen = IF kind = "upload" THEN Measure ELSE NoSeen,
                             !.pc = CASE kind = "download" -> "stat" [] kind = "call" -> "call" [] OTHER -> "open"]
                /\ chan' = Ask(chan, "call")
                /\ UNCHANGED last

(* The server refuses: the status is read in full and the channel stays in   *)
(* step, unless other replies are on their way.                              *)
Refused(q) ==
  /\ used.bad < MaxBad
  /\ used' = [used EXCEPT !.bad = @ + 1]
  /\ End("failed", leg.pc \in {"pipe", "close"}, Read(chan, q), dest)
  /\ UNCHANGED world

(* The stream holds a reply with another id, or one that cannot be read. *)
Mismatch ==
  /\ leg.pc # "idle" /\ ~cancel
  /\ \E q \in Answerable :
       /\ used' = IF leg.pc = "pipe" \/ Awaited(q) THEN [used EXCEPT !.bad = @ + 1] ELSE used
       /\ used'.bad <= MaxBad
       /\ End("failed", TRUE, Read(chan, q), dest)
  /\ UNCHANGED world

To(pc, c) == /\ leg' = [leg EXCEPT !.pc = pc]
             /\ chan' = c
             /\ UNCHANGED <<target, last, stage>>

CallReply ==
  /\ leg.pc = "call"
  /\ \E q \in Answerable :
       /\ Awaited(q)
       /\ \/ End("completed", FALSE, Read(chan, q), dest) /\ UNCHANGED <<world, used>>
          \/ Refused(q)

(* download_to_inner: the source's size and time, then the local file. *)
StatReply ==
  /\ leg.pc = "stat" /\ ~cancel
  /\ \E q \in Answerable :
       /\ Awaited(q)
       /\ \/ Refused(q)
          \/ /\ IF \/ leg.start > 0 /\ (~source.known \/ leg.start > Len(source.data))
                   \/ Len(dest) < leg.start
                THEN End("failed", FALSE, Read(chan, q), dest)
                ELSE /\ leg' = [leg EXCEPT !.pc = "open", !.seen = Measure]
                     /\ chan' = Ask(Read(chan, q), "call")
                     /\ dest' = IF leg.start = 0 THEN <<>> ELSE dest
                     /\ UNCHANGED <<target, last, stage>>
             /\ UNCHANGED <<world, used>>

(* The remote file or directory is open; an upload from 0 truncates it. *)
OpenReply ==
  /\ leg.pc = "open" /\ ~cancel
  /\ \E q \in Answerable :
       /\ Awaited(q)
       /\ \/ Refused(q)
          \/ /\ IF leg.kind = "list" THEN To("scan", Ask(Read(chan, q), "call"))
                ELSE /\ leg' = [leg EXCEPT !.pc = "pipe", !.limit = IF source.known THEN leg.seen.size ELSE Unlimited]
                     /\ chan' = Read(chan, q)
                     /\ UNCHANGED <<target, last, stage>>
             /\ dest' = IF leg.kind = "upload" /\ leg.start = 0 THEN <<>> ELSE dest
             /\ UNCHANGED <<world, used>>

(* list_dir: a batch of names, or the end of the directory, or a refusal,    *)
(* after which the handle is closed all the same.                            *)
ScanReply ==
  /\ leg.pc = "scan" /\ ~cancel
  /\ \E q \in Answerable :
       /\ Awaited(q)
       /\ \/ /\ used.bad < MaxBad
             /\ used' = [used EXCEPT !.bad = @ + 1]
             /\ leg' = [leg EXCEPT !.pc = "close", !.refused = TRUE]
             /\ chan' = Ask(Read(chan, q), "call")
             /\ UNCHANGED <<world, dest, target, last, stage>>
          \/ /\ used.short < MaxShort
             /\ used' = [used EXCEPT !.short = @ + 1]
             /\ To("scan", Ask(Read(chan, q), "call"))
             /\ UNCHANGED <<world, dest>>
          \/ /\ To("close", Ask(Read(chan, q), "call"))
             /\ UNCHANGED <<world, dest, used>>

-----------------------------------------------------------------------------
(* The pipelines *)

MayRead ==
  /\ Cardinality(leg.flight) < Window
  /\ leg.eof = NoEof
  /\ leg.nr <= leg.limit
  /\ leg.nr - leg.wo < Window * Chunk

ReadLen == IF leg.limit > leg.nr /\ leg.limit - leg.nr < Chunk THEN leg.limit - leg.nr ELSE Chunk

FillRead ==
  /\ leg.pc = "pipe" /\ leg.kind = "download" /\ ~cancel
  /\ MayRead
  /\ LET q == Request(chan, "read", leg.nr, ReadLen, <<>>)
     IN /\ leg' = [leg EXCEPT !.flight = @ \cup {q}, !.nr = @ + q.len]
        /\ chan' = Sent(chan, q)
  /\ UNCHANGED <<world, dest, target, last, stage, used>>

MayWrite == Cardinality(leg.flight) < Window /\ leg.nr < Len(source.data)

FillWrite ==
  /\ leg.pc = "pipe" /\ leg.kind = "upload" /\ ~cancel
  /\ MayWrite
  /\ LET n == IF Len(source.data) - leg.nr < Chunk THEN Len(source.data) - leg.nr ELSE Chunk
         q == Request(chan, "write", leg.nr, n, SubSeq(source.data, leg.nr + 1, leg.nr + n))
     IN /\ leg' = [leg EXCEPT !.flight = @ \cup {q}, !.nr = @ + n]
        /\ chan' = Sent(chan, q)
  /\ UNCHANGED <<world, dest, target, last, stage, used>>

Filled == IF leg.kind = "download" THEN ~MayRead ELSE ~MayWrite

(* How far the buffered units continue the local file without a gap. *)
Reaches(buffered, from) == Max({e \in {from} \cup DOMAIN buffered : \A i \in from + 1..e : i \in DOMAIN buffered})

(* A DATA reply of n units: a short read asks for the rest, and what is now  *)
(* contiguous is written to the local file.                                  *)
DataReply(q, n) ==
  LET end == q.off + n
      rest == Request(chan, "read", end, q.len - n, <<>>)
      short == n < q.len
      buffered == [i \in q.off + 1..end |-> source.data[i]] @@ leg.reorder
      reach == Reaches(buffered, leg.wo)
  IN /\ leg' = [leg EXCEPT !.limit = Max({@, end}), !.wo = reach,
                  !.flight = (@ \ {q}) \cup (IF short THEN {rest} ELSE {}),
                  !.reorder = Restrict(buffered, {i \in DOMAIN buffered : i > reach})]
     /\ chan' = IF short THEN Sent(Read(chan, q), rest) ELSE Read(chan, q)
     /\ dest' = WriteAt(dest, leg.wo, [i \in 1..(reach - leg.wo) |-> buffered[leg.wo + i]])
     /\ UNCHANGED <<world, target, last, stage>>

ReadReply ==
  /\ leg.pc = "pipe" /\ leg.kind = "download" /\ ~cancel
  /\ Filled
  /\ \E q \in Answerable \cap leg.flight :
       LET left == Len(source.data) - q.off
           most == IF left < q.len THEN left ELSE q.len
       IN \/ Refused(q)
          \/ /\ left <= 0
             /\ leg' = [leg EXCEPT !.flight = @ \ {q}, !.eof = IF @ = NoEof \/ q.off < @ THEN q.off ELSE @]
             /\ chan' = Read(chan, q)
             /\ UNCHANGED <<world, dest, target, last, stage, used>>
          \/ left > 0 /\ DataReply(q, most) /\ UNCHANGED used
          \/ /\ used.short < MaxShort
             /\ \E n \in 1..(most - 1) : DataReply(q, n)
             /\ used' = [used EXCEPT !.short = @ + 1]

(* A STATUS reply to a WRITE the server has applied; progress counts it. *)
WriteReply ==
  /\ leg.pc = "pipe" /\ leg.kind = "upload" /\ ~cancel
  /\ Filled
  /\ \E q \in Answerable \cap leg.flight :
       \/ Refused(q)
       \/ /\ leg' = [leg EXCEPT !.flight = @ \ {q}, !.wo = @ + q.len]
          /\ chan' = Read(chan, q)
          /\ dest' = WriteAt(dest, q.off, q.data)
          /\ UNCHANGED <<world, target, last, stage, used>>

(* Nothing in flight and nothing left to ask for. *)
Drained ==
  /\ leg.pc = "pipe" /\ ~cancel
  /\ Filled /\ leg.flight = {}
  /\ IF leg.kind = "download" /\ (leg.eof # leg.wo \/ leg.reorder # <<>>)
     THEN End("failed", TRUE, chan, dest)
     ELSE To("close", Ask(chan, "call")) /\ UNCHANGED dest
  /\ UNCHANGED <<world, used>>

CloseReply ==
  /\ leg.pc = "close"
  /\ \E q \in Answerable :
       /\ Awaited(q)
       /\ \/ Refused(q)
          \/ /\ CASE leg.kind = "download" -> ~cancel /\ To("restat", Ask(Read(chan, q), "call")) /\ UNCHANGED dest
                  [] leg.kind = "upload" ->
                       End(IF leg.nr # leg.seen.size \/ source.mtime # leg.seen.mtime THEN "failed" ELSE "completed",
                           FALSE, Read(chan, q), dest)
                  [] OTHER -> End(IF leg.refused THEN "failed" ELSE "completed", FALSE, Read(chan, q), dest)
             /\ UNCHANGED <<world, used>>

MutRestatSizeOnly ==
  /\ leg.pc = "restat"
  /\ \E q \in Answerable :
       /\ Awaited(q)
       /\ IF source.known /\ Len(source.data) # leg.wo
          THEN End("failed", FALSE, Read(chan, q), dest)
          ELSE End("completed", FALSE, Read(chan, q), SetLen(dest, leg.wo))
       /\ UNCHANGED <<world, used>>

(* The source is measured again; the local file ends where the copy ends. *)
RestatReply ==
  /\ leg.pc = "restat"
  /\ \E q \in Answerable :
       /\ Awaited(q)
       /\ \/ Refused(q)
          \/ /\ IF (source.known /\ Len(source.data) # leg.wo) \/ source.mtime # leg.seen.mtime
                THEN End("failed", FALSE, Read(chan, q), dest)
                ELSE End("completed", FALSE, Read(chan, q), SetLen(dest, leg.wo))
             /\ UNCHANGED <<world, used>>

-----------------------------------------------------------------------------

Replies == CallReply \/ StatReply \/ OpenReply \/ ScanReply \/ ReadReply \/ WriteReply \/ CloseReply \/ RestatReply
Fills == FillRead \/ FillWrite \/ Drained

Next ==
  \/ \E kind \in Kinds : Begin(kind)
  \/ Replies \/ Fills \/ Mismatch
  \/ Trigger \/ Cancelled \/ Break
  \/ Reopen \/ LateWrite \/ Edit

Spec == Init /\ [][Next]_vars
(* The server answers what it is asked and the client's task goes on. *)
FairSpec == Spec /\ WF_vars(Replies) /\ WF_vars(Fills)

-----------------------------------------------------------------------------
(* Properties *)

(* The state has its shape. *)
TypeOK ==
  /\ source.data \in Seq(Nat) /\ dest \in Seq(Nat) /\ target.data \in Seq(Nat)
  /\ source.data \in history
  /\ leg.pc \in {"idle", "stat", "open", "scan", "pipe", "close", "restat", "call"}
  /\ leg.kind \in {"none", "download", "upload", "list", "call"}
  /\ chan.poisoned \in BOOLEAN /\ \A q \in chan.asked : q.id \in 1..chan.id
  /\ last.result \in {"none", "completed", "cancelled", "failed"}
  /\ leg.wo <= leg.nr /\ Cardinality(leg.flight) <= Window
  /\ used.runs <= MaxRuns /\ used.edits <= MaxEdits

(* A channel that may be used again owes no reply but those of the operation *)
(* that holds it: the next operation never reads a stale one (sftp.rs,       *)
(* Sftp::poisoned).                                                          *)
InStep ==
  ~chan.poisoned =>
    IF leg.pc = "idle" THEN chan.asked = {}
    ELSE IF leg.pc = "pipe" THEN chan.asked = leg.flight
    ELSE Cardinality(chan.asked) = 1

(* What a caller published is, unit for unit, one contents the source really *)
(* had: replies out of order, short reads, a source that changes under the   *)
(* transfer and writes of an abandoned channel never tear it. The exception  *)
(* is a source rewritten during the transfer at the same size and within the *)
(* grain of the time its stat reports, which sftp.rs (path_stat: whole       *)
(* seconds, 0 when not reported) cannot see.                                 *)
PublishedWhole == target.stage = 0 \/ target.data \in history \/ target.blind

(* The staged file of a download is its prefix without a gap, whatever order *)
(* the replies came in, so that cancelling it preserves that prefix.         *)
NoGap == leg.kind = "download" /\ leg.pc = "pipe" => /\ Len(dest) >= leg.wo
                                                     /\ \A i \in 1..leg.wo : dest[i] # 0

(* The chunks that wait for an earlier one stay within the window and the    *)
(* chunk that was being asked for, however long the first reply is delayed.  *)
ReorderBounded == Cardinality(DOMAIN leg.reorder) < (Window + 1) * Chunk

(* A cancelled transfer can be resumed from the offset it last reported: the *)
(* units below it are written (sftp.rs, TransferOutcome::Cancelled).         *)
Resumable == last.result = "cancelled" => /\ Len(dest) >= last.at
                                          /\ \A i \in 1..last.at : dest[i] # 0

=============================================================================

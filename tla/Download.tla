------------------------------ MODULE Download ------------------------------
(***************************************************************************)
(* Downloads and the write queue they fill: transfer_handle_get_begin of   *)
(* transfer.c with session_send_frame and on_write_done of session.c.      *)
(*                                                                         *)
(* The handler sends the whole file before it returns to the event loop,   *)
(* and only the loop completes writes: between its steps (pc = "reading")  *)
(* nothing leaves the queue.                                               *)
(***************************************************************************)
EXTENDS Sums

CONSTANTS
  MaxQueue,    \* LUAGENT_MAX_WRITE_QUEUE_BYTES
  HeaderSize,  \* frame_header_size
  TextSize,    \* bytes of a reply that is text
  ChunkSize,   \* the chunk_size of a request
  Sizes,       \* sizes of the files asked for
  MaxRequests, \* bound: GET_BEGIN frames
  Faults       \* what may fail: "open", "read", "memory"

ASSUME DownloadAssumption ==
  /\ {MaxQueue, HeaderSize, TextSize} \subseteq Nat /\ ChunkSize \in Nat \ {0}
  /\ Sizes \subseteq Nat /\ MaxRequests \in Nat

VARIABLES
  session,   \* closed, pending_write_bytes, libuv's queue of frames, and the
             \* requests that lost a frame to a malloc or uv_write that failed
  download,  \* struct transfer_state of the download
  pc,        \* "loop", or "reading": inside transfer_handle_get_begin
  wire,      \* the frames the client has been sent, but for those of others
  asked      \* the file size of every GET_BEGIN so far

vars == <<session, download, pc, wire, asked>>

Idle == [active |-> FALSE, open |-> FALSE, req_id |-> 0, total_size |-> 0, offset |-> 0]

Init ==
  /\ session = [closed |-> FALSE, pending |-> 0, queue |-> <<>>, lost |-> {}]
  /\ download = Idle
  /\ pc = "loop"
  /\ wire = <<>> /\ asked = <<>>
-----------------------------------------------------------------------------
(* session.c                                                               *)

Text(type, r) == [type |-> type, req_id |-> r, from |-> 0, len |-> TextSize]

FrameSize(f) == HeaderSize + f.len

\* Mutant: the header is not counted.
FitsPayload(s, f) == s.pending + f.len <= MaxQueue

Fits(s, f) == s.pending + FrameSize(f) <= MaxQueue

\* session_send_frame; ok is false if malloc or uv_write fails
Sent(s, f, ok) ==
  CASE s.closed -> s
    [] ~s.closed /\ ~Fits(s, f) -> [s EXCEPT !.closed = TRUE]
    [] ~s.closed /\ Fits(s, f) /\ ~ok -> [s EXCEPT !.lost = @ \cup {f.req_id}]
    [] OTHER -> [s EXCEPT !.pending = @ + FrameSize(f), !.queue = Append(@, f)]

\* Its result is zero.
Success(s, f, ok) == ~s.closed /\ Fits(s, f) /\ ok

Oks == IF "memory" \in Faults THEN BOOLEAN ELSE {TRUE}

\* Mutant: the header is not given back.
ReleasePayload(s, f) == [s EXCEPT !.pending = IF @ >= f.len THEN @ - f.len ELSE @]

Release(s, f) ==
  [s EXCEPT !.pending = IF @ >= FrameSize(f) THEN @ - FrameSize(f) ELSE @]

\* on_write_done; the loop is not in a handler.  The writes of a session that
\* has been closed are cancelled, one by one.  (One that fails before has found
\* the connection broken, and the read that does next closes the session.)
WriteDone ==
  LET f == Head(session.queue)
  IN
  /\ pc = "loop" /\ session.queue # <<>>
  /\ session' = Release([session EXCEPT !.queue = Tail(@)], f)
  /\ wire' = IF session.closed \/ f.req_id = 0 THEN wire ELSE Append(wire, f)
  /\ UNCHANGED <<download, pc, asked>>

\* session_close by someone else
Close ==
  /\ pc = "loop" /\ ~session.closed
  /\ session' = [session EXCEPT !.closed = TRUE]
  /\ UNCHANGED <<download, pc, wire, asked>>

\* Any other frame: a PING, the output of a child, the reply of another handler
SendOther(ok) ==
  /\ pc = "loop" /\ ~session.closed
  /\ session' = Sent(session, Text("OTHER", 0), ok)
  /\ UNCHANGED <<download, pc, wire, asked>>
-----------------------------------------------------------------------------
(* transfer_handle_get_begin.  read_cb may call it on a closed session.    *)

\* transfer_abort, and return with the session s
Fail(s) ==
  /\ session' = s
  /\ download' = Idle
  /\ pc' = "loop"

\* From the open to the ACK
GetBegin(size, ok) ==
  LET r == Len(asked) + 1
      ack == Text("ACK", r)
  IN
  /\ pc = "loop" /\ Len(asked) < MaxRequests
  /\ asked' = Append(asked, size)
  /\ wire' = wire
  /\ \/ "open" \in Faults /\ Fail(Sent(session, Text("ERROR", r), ok))
     \/ ~Success(session, ack, ok) /\ Fail(Sent(session, ack, ok))
     \/ /\ "memory" \in Faults /\ Success(session, ack, ok)
        /\ \E again \in Oks :
             Fail(Sent(Sent(session, ack, ok), Text("ERROR", r), again))
     \/ /\ Success(session, ack, ok)
        /\ session' = Sent(session, ack, ok)
        /\ download' = [active |-> TRUE, open |-> TRUE, req_id |-> r,
                        total_size |-> size, offset |-> 0]
        /\ pc' = "reading"

Least(a, b) == IF a < b THEN a ELSE b

\* What uv_fs_read may return: a file can be read in part.
Reads == 1..Least(ChunkSize, download.total_size - download.offset)

\* Mutant: the offset advances by what was asked for.
AdvanceWhole(n) == Least(ChunkSize, download.total_size - download.offset)

Advance(n) == n

SendChunk(n, ok) ==
  LET f == [type |-> "GET_CHUNK", req_id |-> download.req_id,
            from |-> download.offset, len |-> n]
  IN
  /\ pc = "reading" /\ download.offset < download.total_size /\ n \in Reads
  /\ \/ /\ Success(session, f, ok)
        /\ session' = Sent(session, f, ok)
        /\ download' = [download EXCEPT !.offset = @ + Advance(n)]
        /\ pc' = pc
     \/ ~Success(session, f, ok) /\ Fail(Sent(session, f, ok))
  /\ UNCHANGED <<wire, asked>>

\* Mutant: no ERROR after a failed read.
ReadFailedSilent(s, ok) == s

ReadFailed(s, ok) == Sent(s, Text("ERROR", download.req_id), ok)

\* rc <= 0: an error, or the file has become shorter
ReadFails(ok) ==
  /\ pc = "reading" /\ download.offset < download.total_size /\ "read" \in Faults
  /\ Fail(ReadFailed(session, ok))
  /\ UNCHANGED <<wire, asked>>

\* The loop is over: close, GET_END, transfer_reset
GetEnd(ok) ==
  /\ pc = "reading" /\ download.offset >= download.total_size
  /\ Fail(Sent(session, Text("GET_END", download.req_id), ok))
  /\ UNCHANGED <<wire, asked>>
-----------------------------------------------------------------------------
Next ==
  \/ WriteDone \/ Close
  \/ \E ok \in Oks :
       \/ SendOther(ok) \/ GetEnd(ok) \/ ReadFails(ok)
       \/ \E size \in Sizes : GetBegin(size, ok)
       \/ \E n \in 1..ChunkSize : SendChunk(n, ok)

Spec == Init /\ [][Next]_vars
-----------------------------------------------------------------------------
(* Properties                                                              *)

\* Every variable has its type.  No download outlives the event that started
\* it: none is active, and no file is open, when the loop waits (every return
\* of get_begin).
TypeOK ==
  /\ session.closed \in BOOLEAN /\ session.pending \in 0..MaxQueue
  /\ download.active \in BOOLEAN /\ download.open \in BOOLEAN
  /\ download.offset \in 0..download.total_size
  /\ pc = "loop" => ~download.active /\ ~download.open
  /\ pc \in {"loop", "reading"}
  /\ asked \in Seq(Sizes) /\ Len(asked) <= MaxRequests
  /\ session.lost \subseteq 0..MaxRequests

\* pending_write_bytes is what libuv holds for the session, headers included,
\* so that its limit bounds memory (session_send_frame, on_write_done).
PendingExact ==
  session.pending = Total([i \in DOMAIN session.queue |-> FrameSize(session.queue[i])])

\* Where frames of these types that belong to request r are.
Places(r, frames, types) ==
  {i \in DOMAIN frames : frames[i].req_id = r /\ frames[i].type \in types}

\* How much of the file the chunks before place n cover.
Reached(r, frames, n) ==
  LET before == {i \in Places(r, frames, {"GET_CHUNK"}) : i < n}
      last == frames[Max(before)]
  IN  IF before = {} THEN 0 ELSE last.from + last.len

\* A client that gets GET_END has got the ACK first and then the whole file,
\* each chunk continuing the one before it (short reads included).
EndMeansWhole ==
  \A r \in 1..Len(asked) : \A end \in Places(r, wire, {"GET_END"}) :
    LET chunks == Places(r, wire, {"GET_CHUNK"})
    IN  /\ \A i \in chunks : i < end /\ wire[i].from = Reached(r, wire, i)
        /\ asked[r] = Reached(r, wire, end)
        /\ \E ack \in Places(r, wire, {"ACK"}) : \A i \in chunks \cup {end} : ack < i

\* On a session that stays open every GET_BEGIN is answered by exactly one
\* GET_END or ERROR, sent or queued, and by none only if a frame of that
\* download could not be sent for lack of memory (every return of get_begin).
OneAnswer ==
  pc = "loop" /\ ~session.closed =>
    \A r \in 1..Len(asked) :
      LET answers == Places(r, wire \o session.queue, {"GET_END", "ERROR"})
      IN  (\E i \in answers : answers = {i}) \/ (answers = {} /\ r \in session.lost)
=============================================================================

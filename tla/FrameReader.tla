---------------------------- MODULE FrameReader ----------------------------
(***************************************************************************)
(* The receive path of one session: read_cb of src/server.c with the       *)
(* header decoder of src/frame.c.                                          *)
(*                                                                         *)
(* The peer's byte stream is a concatenation of N frames.  A byte is       *)
(* represented by its position in the stream, so that a byte that is lost, *)
(* repeated or misplaced in rx_buf is visible.  Frame k (1..N) occupies    *)
(* positions end[k-1] .. end[k]-1, a header first; frame `bad' (0: none)   *)
(* has a header that frame_validate_header or the magic test refuses.      *)
(* The socket may cut the stream anywhere: a read returns 1..Chunk bytes.  *)
(***************************************************************************)
EXTENDS Integers, Sequences

CONSTANTS
  HeaderSize,  \* frame_header_size(), 14 in the code
  MaxPayload,  \* LUAGENT_MAX_FRAME_PAYLOAD, 65536 in the code
  Chunk,       \* LUAGENT_READ_CHUNK, 4096 in the code: the most one read returns
  N            \* number of frames in the peer's stream

ASSUME ConstantsAssumption ==
  /\ HeaderSize \in Nat \ {0}
  /\ MaxPayload \in Nat
  /\ Chunk \in Nat \ {0}
  /\ HeaderSize <= Chunk
  /\ N \in Nat

\* session->rx_cap as on_new_connection sets it
Cap == 4 * Chunk

MaxFrame == HeaderSize + MaxPayload

VARIABLES
  end, bad,    \* the peer's stream; never change
  sent,        \* bytes of the stream copied into rx_buf so far
  rx_buf,      \* session->rx_buf, an array of Cap bytes
  rx_used,     \* session->rx_used
  offset,      \* read_cb's local variable
  pc,          \* "idle": in the event loop; "parse": inside read_cb's loop
  closed,      \* "no", or why session_close was called
  dispatched   \* frames handed to protocol_handle_control, in order

stream == <<end, bad>>
vars == <<end, bad, sent, rx_buf, rx_used, offset, pc, closed, dispatched>>

\* What malloc left in a byte of rx_buf that no live data occupies.
Stale == -1

Reasons == {"no", "overflow", "bad_header", "peer", "handler"}

Streams ==
  {e \in [0..N -> 0..(N * MaxFrame)] :
     /\ e[0] = 0
     /\ \A j, k \in 0..N : j < k => e[j] + HeaderSize <= e[k]
     /\ \A k \in 1..N : e[k] <= e[k-1] + MaxFrame}

\* Frame k as the peer sent it.
SentFrame(k) ==
  [frame   |-> k,
   payload |-> [j \in 0..(end[k] - end[k-1] - HeaderSize - 1) |->
                  end[k-1] + HeaderSize + j]]

Init ==
  /\ end \in Streams
  /\ bad \in 0..N
  /\ sent = 0
  /\ rx_buf = [i \in 0..(Cap - 1) |-> Stale]
  /\ rx_used = 0
  /\ offset = 0
  /\ pc = "idle"
  /\ closed = "no"
  /\ dispatched = <<>>

\* session_close: only the first call has an effect.
SessionClose(why) == closed' = IF closed = "no" THEN why ELSE closed
-----------------------------------------------------------------------------
(* read_cb up to its loop.                                                 *)

\* nread < 0: end of stream or a read error.
ReadFails ==
  /\ pc = "idle" /\ closed = "no"
  /\ SessionClose("peer")
  /\ UNCHANGED <<stream, sent, rx_buf, rx_used, offset, pc, dispatched>>

\* Mutant: the rx_cap test refuses a read that just fits.
ReadOverflowsEarly(n) ==
  /\ pc = "idle" /\ closed = "no"
  /\ sent + n <= end[N]
  /\ rx_used + n >= Cap
  /\ SessionClose("overflow")
  /\ UNCHANGED <<stream, sent, rx_buf, rx_used, offset, pc, dispatched>>

\* rx_used + nread > rx_cap: the session is closed and the bytes are dropped.
ReadOverflows(n) ==
  /\ pc = "idle" /\ closed = "no"
  /\ sent + n <= end[N]
  /\ rx_used + n > Cap
  /\ SessionClose("overflow")
  /\ UNCHANGED <<stream, sent, rx_buf, rx_used, offset, pc, dispatched>>

\* memcpy(rx_buf + rx_used, buf->base, nread)
MemCpy(n) ==
  [i \in 0..(Cap - 1) |->
     IF rx_used <= i /\ i < rx_used + n THEN sent + (i - rx_used) ELSE rx_buf[i]]

ReadBytes(n) ==
  /\ pc = "idle" /\ closed = "no"
  /\ sent + n <= end[N]
  /\ rx_used + n <= Cap
  /\ rx_buf' = MemCpy(n)
  /\ rx_used' = rx_used + n
  /\ sent' = sent + n
  /\ offset' = 0
  /\ pc' = "parse"
  /\ UNCHANGED <<stream, closed, dispatched>>
-----------------------------------------------------------------------------
(* One iteration of the while loop of read_cb.                             *)

\* frame_decode_header at rx_buf + offset returns FRAME_STATUS_OK and yields
\* the header of frame k.  Any other HeaderSize bytes do not carry the magic.
HeaderIs(k) ==
  /\ k # bad
  /\ \A j \in 0..(HeaderSize - 1) : rx_buf[offset + j] = end[k-1] + j

Available == rx_used - offset

FrameSize(k) == end[k] - end[k-1]

\* FRAME_STATUS_ERROR: read_cb closes the session and returns at once.
ParseBadHeader ==
  /\ pc = "parse"
  /\ Available >= HeaderSize
  /\ \A k \in 1..N : ~HeaderIs(k)
  /\ SessionClose("bad_header")
  /\ pc' = "idle"
  /\ UNCHANGED <<stream, sent, rx_buf, rx_used, offset, dispatched>>

\* The frame record of frame k as the bytes at rx_buf + offset spell it.
FrameAt(k) ==
  [frame   |-> k,
   payload |-> [j \in 0..(FrameSize(k) - HeaderSize - 1) |->
                  rx_buf[offset + HeaderSize + j]]]

\* memmove(rx_buf, rx_buf + offset, rx_used - offset)
MemMove ==
  [i \in 0..(Cap - 1) |-> IF i < Available THEN rx_buf[i + offset] ELSE Stale]

\* Mutant: the test that the whole payload has arrived is dropped.
ParseFrameEarly ==
  /\ pc = "parse"
  /\ Available >= HeaderSize
  /\ \E k \in 1..N :
       /\ HeaderIs(k)
       /\ dispatched' = Append(dispatched, FrameAt(k))
       /\ offset' = offset + FrameSize(k)
  /\ UNCHANGED <<stream, sent, rx_buf, rx_used, pc, closed>>

\* Mutant: the header is counted twice when offset is advanced.
ParseFrameHeaderTwice ==
  /\ pc = "parse"
  /\ Available >= HeaderSize
  /\ \E k \in 1..N :
       /\ HeaderIs(k)
       /\ Available >= FrameSize(k)
       /\ dispatched' = Append(dispatched, FrameAt(k))
       /\ offset' = offset + FrameSize(k) + HeaderSize
  /\ UNCHANGED <<stream, sent, rx_buf, rx_used, pc, closed>>

\* Mutant: read_cb handles one frame per call, an `if' for its `while'.
ParseFrameOnce ==
  /\ pc = "parse"
  /\ Available >= HeaderSize
  /\ \E k \in 1..N :
       LET rest == Available - FrameSize(k)
       IN  /\ HeaderIs(k)
           /\ rest >= 0
           /\ dispatched' = Append(dispatched, FrameAt(k))
           /\ rx_buf' = [i \in 0..(Cap - 1) |->
                IF i < rest THEN rx_buf[i + offset + FrameSize(k)] ELSE Stale]
           /\ rx_used' = rest
  /\ pc' = "idle"
  /\ UNCHANGED <<stream, sent, offset, closed>>

\* A complete frame goes to protocol_handle_control, whose reply may find the
\* write queue full and close the session; the loop goes on all the same.
ParseFrame ==
  /\ pc = "parse"
  /\ Available >= HeaderSize
  /\ \E k \in 1..N :
       /\ HeaderIs(k)
       /\ Available >= FrameSize(k)
       /\ dispatched' = Append(dispatched, FrameAt(k))
       /\ offset' = offset + FrameSize(k)
  /\ SessionClose("handler") \/ UNCHANGED closed
  /\ UNCHANGED <<stream, sent, rx_buf, rx_used, pc>>

\* Mutant: an incomplete frame does not leave the loop.
ParseStopsHeaderOnly ==
  /\ pc = "parse"
  /\ Available < HeaderSize
  /\ rx_buf' = MemMove
  /\ rx_used' = Available
  /\ pc' = "idle"
  /\ UNCHANGED <<stream, sent, offset, closed, dispatched>>

\* Less than a header, or less than the frame, is left: break and compact.
ParseStops ==
  /\ pc = "parse"
  /\ \/ Available < HeaderSize
     \/ /\ Available >= HeaderSize
        /\ \E k \in 1..N : HeaderIs(k) /\ Available < FrameSize(k)
  /\ rx_buf' = MemMove
  /\ rx_used' = Available
  /\ pc' = "idle"
  /\ UNCHANGED <<stream, sent, offset, closed, dispatched>>
-----------------------------------------------------------------------------
ReadCb == \E n \in 1..Chunk : ReadOverflows(n) \/ ReadBytes(n)

Parse == ParseBadHeader \/ ParseFrame \/ ParseStops

Next == ReadFails \/ ReadCb \/ Parse

\* libuv delivers what the socket holds, and a callback runs to its end.
Spec == Init /\ [][Next]_vars /\ WF_vars(ReadCb) /\ WF_vars(Parse)
-----------------------------------------------------------------------------
(* Properties                                                              *)

\* Every variable has its type.
TypeOK ==
  /\ end \in Streams
  /\ bad \in 0..N
  /\ sent \in 0..end[N]
  /\ rx_buf \in [0..(Cap - 1) -> Int]
  /\ rx_used \in 0..Cap
  /\ offset \in 0..Cap
  /\ pc \in {"idle", "parse"}
  /\ closed \in Reasons
  /\ Len(dispatched) \in 0..N

\* What reaches the handlers is a prefix of what the peer sent: every frame
\* once, in order, each payload byte for byte, whatever the segmentation, and
\* nothing at or behind a refused header (the rx_buf arithmetic of read_cb).
DispatchedPrefix ==
  \A i \in 1..Len(dispatched) :
    /\ dispatched[i] = SentFrame(i)
    /\ bad # 0 => i < bad

\* When read_cb has returned with the session open, no complete frame is left
\* waiting in rx_buf, and no refused header either.
NothingWithheld ==
  LET d == Len(dispatched) IN
    pc = "idle" /\ closed = "no" /\ d < N =>
      IF bad = d + 1 THEN sent - end[d] < HeaderSize ELSE sent < end[d+1]

\* A session closed by the rx_cap test was in the middle of a frame longer than
\* Cap - Chunk + 1 bytes: shorter frames get through whatever the segmentation.
OverflowMeansOversize ==
  closed = "overflow" =>
    LET d == Len(dispatched) IN
      d < N /\ d + 1 # bad /\ FrameSize(d + 1) > Cap - Chunk + 1

\* Every byte the peer sent is read and every frame before a refused header is
\* handled, unless the session is closed (read_cb's loop leaves no residue that
\* a later read would not pick up).
StreamConsumed ==
  <>(closed # "no" \/ (sent = end[N] /\ Len(dispatched) = N))
=============================================================================

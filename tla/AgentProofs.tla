---------------------------- MODULE AgentProofs ----------------------------
(***************************************************************************)
(* Proofs about what every frame goes through in the agent: the receive    *)
(* buffer (FrameReader) and the handling of a request (Dispatch), for      *)
(* every value of the constants of each.  No property of either is         *)
(* inductive.                                                              *)
(*                                                                         *)
(* IInv: DispatchedPrefix needs to know that rx_buf holds the last rx_used *)
(* bytes taken from the socket, unbroken (BufferAligned), and that the     *)
(* parse position is a frame boundary (AtBoundary).                        *)
(*                                                                         *)
(* DispatchInv: OneAnswer and Truthful need to know what may have been     *)
(* sent before the answer, and what was done and is still there when it is *)
(* sent (Completed); ArgsAsAsked needs to know which loop over the keys    *)
(* the arguments come from (ArgsFrom).  That these loops end, and that a   *)
(* payload with the keys 0 to n - 1 on its n lines has one line for each,  *)
(* are pigeonhole arguments (CountEnds, OneLine).                          *)
(***************************************************************************)
EXTENDS FrameReader, Dispatch, FiniteSetTheorems, TLAPS
-----------------------------------------------------------------------------
(* The receive buffer                                                      *)

\* rx_buf[0..rx_used-1] is the tail of the bytes taken from the socket.
BufferAligned ==
  /\ rx_used <= sent
  /\ \A i \in 0..(rx_used - 1) : rx_buf[i] = sent - rx_used + i

\* The byte to be parsed next is the first of the next frame.
AtBoundary ==
  /\ pc = "parse" =>
       /\ offset <= rx_used
       /\ sent - rx_used + offset = end[Len(dispatched)]
  /\ pc = "idle" /\ closed = "no" => sent - rx_used = end[Len(dispatched)]

IInv ==
  /\ TypeOK
  /\ dispatched \in Seq({SentFrame(k) : k \in 1..N})
  /\ bad # 0 => Len(dispatched) < bad
  /\ BufferAligned
  /\ AtBoundary
  /\ closed = "overflow" => pc = "idle"
  /\ DispatchedPrefix
  /\ NothingWithheld
  /\ OverflowMeansOversize

-----------------------------------------------------------------------------
\* What a stream's definition says about the boundaries of its frames.
LEMMA StreamFacts ==
  ASSUME NEW e \in Streams
  PROVE  /\ e \in [0..N -> Int]
         /\ e[0] = 0
         /\ \A j, k \in 0..N : j < k => e[j] + HeaderSize <= e[k]
         /\ \A k \in 1..N : e[k] <= e[k-1] + MaxFrame
         /\ \A k \in 0..N : e[k] \in Nat
BY ConstantsAssumption DEF Streams, MaxFrame

\* Inside the loop, with a whole header available: a next frame exists, and
\* its header, if legal, is the only one that can be decoded at offset.
LEMMA HeaderFound ==
  ASSUME IInv, pc = "parse", Available >= HeaderSize
  PROVE  LET d == Len(dispatched) IN
         /\ d \in 0..(N - 1)
         /\ \A k \in 1..N : HeaderIs(k) => k = d + 1
         /\ d + 1 # bad => HeaderIs(d + 1)
<1> DEFINE d == Len(dispatched)
<1>1. /\ end \in Streams /\ d \in 0..N /\ sent \in 0..end[N]
      /\ rx_used \in 0..Cap /\ offset \in 0..Cap
      /\ sent - rx_used + offset = end[d] /\ offset <= rx_used
      /\ rx_used <= sent
      /\ \A i \in 0..(rx_used - 1) : rx_buf[i] = sent - rx_used + i
  BY Zenon DEF IInv, TypeOK, BufferAligned, AtBoundary
<1>2. /\ \A k \in 0..N : end[k] \in Nat
      /\ \A j, k \in 0..N : j < k => end[j] + HeaderSize <= end[k]
  BY <1>1, StreamFacts, Zenon
<1>3. HeaderSize \in Nat \ {0} /\ N \in Nat /\ Cap \in Nat
  BY ConstantsAssumption DEF Cap
<1>4. offset + HeaderSize <= rx_used
  BY <1>1, <1>3 DEF Available
<1>5. d \in 0..(N - 1)
  <2>1. d # N
    BY <1>1, <1>2, <1>3, <1>4, SMTT(30)
  <2> QED BY <2>1, <1>1, <1>3
<1>6. \A j \in 0..(HeaderSize - 1) : rx_buf[offset + j] = end[d] + j
  <2> TAKE j \in 0..(HeaderSize - 1)
  <2>1. offset + j \in 0..(rx_used - 1)
    BY <1>1, <1>3, <1>4
  <2>2. rx_buf[offset + j] = sent - rx_used + (offset + j)
    BY <1>1, <2>1, Zenon
  <2> QED BY <2>2, <1>1, <1>2, <1>3, SMTT(30)
<1>7. \A k \in 1..N : HeaderIs(k) => k = d + 1
  <2> SUFFICES ASSUME NEW k \in 1..N, HeaderIs(k)
               PROVE  k = d + 1
    BY Zenon
  <2>1. 0 \in 0..(HeaderSize - 1)
    BY <1>3
  <2>2. rx_buf[offset + 0] = end[k-1] + 0 /\ rx_buf[offset + 0] = end[d] + 0
    BY <2>1, <1>6, Zenon DEF HeaderIs
  <2>3. k - 1 \in 0..N /\ d \in 0..N
    BY <1>1, <1>3
  <2>4. end[k-1] = end[d]
    BY <2>2, <2>3, <1>2
  <2> QED BY <2>3, <2>4, <1>2, <1>3, SMTT(30)
<1>8. d + 1 # bad => HeaderIs(d + 1)
  BY <1>5, <1>6, <1>3 DEF HeaderIs
<1> QED BY <1>5, <1>7, <1>8, Zenon

\* The initial states satisfy the inductive invariant.
LEMMA InitIInv == Init => IInv
<1> SUFFICES ASSUME Init PROVE IInv
  BY Zenon
<1>1. N \in Nat /\ HeaderSize \in Nat \ {0} /\ Chunk \in Nat \ {0} /\ Cap \in Nat
  BY ConstantsAssumption DEF Cap
<1>2. /\ end[0] = 0 /\ \A k \in 0..N : end[k] \in Nat
      /\ \A j, k \in 0..N : j < k => end[j] + HeaderSize <= end[k]
  BY StreamFacts, Zenon DEF Init
<1>3. TypeOK
  BY <1>1, <1>2 DEF Init, TypeOK, Reasons, Stale
<1>4. dispatched = <<>> /\ Len(dispatched) = 0
  BY Zenon DEF Init
<1>5. BufferAligned /\ AtBoundary /\ DispatchedPrefix
  BY <1>1, <1>2, <1>4 DEF Init, BufferAligned, AtBoundary, DispatchedPrefix
<1>6. NothingWithheld
  <2>1. ASSUME 0 < N PROVE 0 < end[1]
    <3>1. end[0] + HeaderSize <= end[1]
      BY <2>1, <1>1, <1>2
    <3> QED BY <3>1, <2>1, <1>1, <1>2, SMTT(30)
  <2>2. sent = 0 /\ end[0] = 0
    BY <1>2, Zenon DEF Init
  <2> QED BY <2>1, <2>2, <1>1, <1>4 DEF NothingWithheld
<1>7. OverflowMeansOversize
  BY Zenon DEF Init, OverflowMeansOversize
<1> QED BY <1>1, <1>3, <1>4, <1>5, <1>6, <1>7, SMTT(30) DEF IInv, Init

\* read_cb closing the session at end of stream or on an error.
LEMMA ReadFailsIInv == IInv /\ ReadFails => IInv'
<1> SUFFICES ASSUME IInv, ReadFails PROVE IInv'
  BY Zenon
<1> USE DEF ReadFails, SessionClose, stream
<1>1. TypeOK'
  BY Zenon DEF IInv, TypeOK, Reasons
<1>2. (dispatched \in Seq({SentFrame(k) : k \in 1..N}))'
  BY Zenon DEF IInv, SentFrame
<1>3. BufferAligned' /\ AtBoundary' /\ DispatchedPrefix'
  BY ZenonT(60) DEF IInv, BufferAligned, AtBoundary, DispatchedPrefix, SentFrame
<1>4. NothingWithheld' /\ OverflowMeansOversize'
  BY Zenon DEF IInv, NothingWithheld, OverflowMeansOversize
<1> QED BY <1>1, <1>2, <1>3, <1>4, Zenon DEF IInv

\* The rx_cap test failing: the residue in rx_buf is shorter than the frame it
\* starts, so that frame is longer than Cap - Chunk + 1.
LEMMA ReadOverflowsIInv ==
  ASSUME NEW n \in 1..Chunk, IInv, ReadOverflows(n)
  PROVE  IInv'
<1> USE DEF ReadOverflows, SessionClose, stream
<1>1. TypeOK'
  BY Zenon DEF IInv, TypeOK, Reasons
<1>2. (dispatched \in Seq({SentFrame(k) : k \in 1..N}))'
  BY Zenon DEF IInv, SentFrame
<1>3. BufferAligned' /\ AtBoundary' /\ DispatchedPrefix'
  BY ZenonT(60) DEF IInv, BufferAligned, AtBoundary, DispatchedPrefix, SentFrame
<1>4. NothingWithheld'
  BY Zenon DEF IInv, NothingWithheld
<1>5. OverflowMeansOversize'
  <2> DEFINE d == Len(dispatched)
  <2>1. /\ d \in 0..N /\ N \in Nat /\ HeaderSize \in Nat \ {0} /\ Chunk \in Nat \ {0}
        /\ HeaderSize <= Chunk
        /\ Cap = 4 * Chunk /\ n \in Nat /\ n <= Chunk /\ n >= 1
        /\ rx_used \in Nat /\ sent \in Nat
    BY ConstantsAssumption, StreamFacts DEF IInv, TypeOK, Cap
  <2>2. /\ \A k \in 0..N : end[k] \in Nat
        /\ \A j, k \in 0..N : j < k => end[j] + HeaderSize <= end[k]
    BY StreamFacts, Zenon DEF IInv, TypeOK
  <2>3. sent - rx_used = end[d]
    BY Zenon DEF IInv, AtBoundary
  <2>4. d < N
    BY <2>1, <2>2, <2>3, SMTT(30) DEF IInv, TypeOK
  <2>5. IF bad = d + 1 THEN sent - end[d] < HeaderSize ELSE sent < end[d+1]
    BY <2>4, Zenon DEF IInv, NothingWithheld
  <2>6. d + 1 \in 0..N /\ end[d] \in Nat /\ end[d+1] \in Nat
    BY <2>1, <2>2, <2>4, SMTT(30)
  <2>7. rx_used > Cap - Chunk
    BY <2>1
  <2>8. d + 1 # bad
    <3>1. SUFFICES ASSUME bad = d + 1 PROVE FALSE
      BY Zenon
    <3> QED BY <3>1, <2>1, <2>3, <2>5, <2>6, <2>7, SMTT(30)
  <2>9. FrameSize(d + 1) > Cap - Chunk + 1
    BY <2>1, <2>3, <2>5, <2>6, <2>7, <2>8, SMTT(30) DEF FrameSize
  <2> QED BY <2>4, <2>8, <2>9, Zenon DEF OverflowMeansOversize, FrameSize
<1> QED BY <1>1, <1>2, <1>3, <1>4, <1>5, Zenon DEF IInv

\* memcpy extends the unbroken tail, and the loop starts at a frame boundary.
LEMMA ReadBytesIInv ==
  ASSUME NEW n \in 1..Chunk, IInv, ReadBytes(n)
  PROVE  IInv'
<1> USE DEF ReadBytes, stream
<1>1. /\ n \in Nat /\ Cap \in Nat /\ N \in Nat
      /\ rx_used \in Nat /\ sent \in Nat /\ rx_buf \in [0..(Cap - 1) -> Int]
  BY ConstantsAssumption, StreamFacts DEF IInv, TypeOK, Cap
<1>2. TypeOK'
  <2>1. rx_buf' \in [0..(Cap - 1) -> Int]
    BY <1>1 DEF MemCpy
  <2>2. sent' \in 0..end'[N] /\ rx_used' \in 0..Cap /\ offset' \in 0..Cap
    BY <1>1
  <2> QED BY <2>1, <2>2, Zenon DEF IInv, TypeOK
<1>3. (dispatched \in Seq({SentFrame(k) : k \in 1..N}))'
  BY Zenon DEF IInv, SentFrame
<1>4. BufferAligned'
  <2>1. rx_used' <= sent'
    BY <1>1 DEF IInv, BufferAligned
  <2>2. ASSUME NEW i \in 0..(rx_used' - 1)
        PROVE  rx_buf'[i] = sent' - rx_used' + i
    <3>1. i \in 0..(Cap - 1) /\ rx_used + n <= Cap
      BY <1>1
    <3>2. CASE i < rx_used
      BY <3>1, <3>2, <1>1, SMTT(30) DEF MemCpy, IInv, BufferAligned
    <3>3. CASE i >= rx_used
      BY <3>1, <3>3, <1>1, SMTT(30) DEF MemCpy
    <3> QED BY <3>2, <3>3, <1>1, SMTT(30)
  <2> QED BY <2>1, <2>2, Zenon DEF BufferAligned
<1>5. AtBoundary'
  BY <1>1 DEF IInv, AtBoundary, BufferAligned
<1>6. DispatchedPrefix' /\ NothingWithheld' /\ OverflowMeansOversize'
  BY ZenonT(60) DEF IInv, DispatchedPrefix, SentFrame, NothingWithheld, OverflowMeansOversize
<1> QED BY <1>2, <1>3, <1>4, <1>5, <1>6, Zenon DEF IInv

\* A refused header ends the loop with the session closed.
LEMMA ParseBadHeaderIInv == IInv /\ ParseBadHeader => IInv'
<1> SUFFICES ASSUME IInv, ParseBadHeader PROVE IInv'
  BY Zenon
<1> USE DEF ParseBadHeader, SessionClose, stream
<1>1. TypeOK'
  BY Zenon DEF IInv, TypeOK, Reasons
<1>2. (dispatched \in Seq({SentFrame(k) : k \in 1..N}))'
  BY Zenon DEF IInv, SentFrame
<1>3. closed' # "no" /\ pc' = "idle"
  BY Zenon
<1>4. BufferAligned' /\ AtBoundary' /\ DispatchedPrefix' /\ NothingWithheld'
  BY <1>3, ZenonT(120) DEF IInv, BufferAligned, AtBoundary, DispatchedPrefix, SentFrame,
              NothingWithheld
<1>5. OverflowMeansOversize'
  BY Zenon DEF IInv, OverflowMeansOversize, FrameSize
<1> QED BY <1>1, <1>2, <1>4, <1>5, Zenon DEF IInv

\* The frame dispatched is the next one, payload included, and the loop moves
\* to the boundary behind it.
LEMMA ParseFrameIInv == IInv /\ ParseFrame => IInv'
<1> SUFFICES ASSUME IInv, ParseFrame PROVE IInv'
  BY Zenon
<1> DEFINE d == Len(dispatched)
           S == {SentFrame(k) : k \in 1..N}
<1>1. /\ pc = "parse" /\ Available >= HeaderSize
      /\ UNCHANGED <<end, bad, sent, rx_buf, rx_used, pc>>
      /\ closed' \in {closed, IF closed = "no" THEN "handler" ELSE closed}
  BY Zenon DEF ParseFrame, SessionClose, stream
<1>2. d \in 0..(N - 1) /\ \A k \in 1..N : HeaderIs(k) => k = d + 1
  BY <1>1, HeaderFound, Zenon
<1>3. PICK k \in 1..N :
        /\ HeaderIs(k)
        /\ Available >= FrameSize(k)
        /\ dispatched' = Append(dispatched, FrameAt(k))
        /\ offset' = offset + FrameSize(k)
  BY Zenon DEF ParseFrame
<1>4. k = d + 1 /\ k # bad
  BY <1>2, <1>3, Zenon DEF HeaderIs
<1>a. rx_used - offset >= FrameSize(k) /\ offset' = offset + FrameSize(k)
  BY <1>3, Zenon DEF Available
<1>5. /\ N \in Nat /\ HeaderSize \in Nat \ {0} /\ Cap \in Nat /\ d \in Nat
      /\ rx_used \in 0..Cap /\ offset \in 0..Cap /\ sent \in Nat
      /\ bad \in 0..N /\ end \in Streams /\ sent <= end[N]
  BY <1>2, ConstantsAssumption, StreamFacts, SMTT(30) DEF IInv, TypeOK, Cap
<1>6. /\ end[k] \in Nat /\ end[k-1] \in Nat /\ end[k-1] + HeaderSize <= end[k]
      /\ k - 1 = d
  BY <1>2, <1>4, <1>5, StreamFacts, SMTT(30)
<1>7. /\ offset <= rx_used /\ rx_used <= sent /\ sent - rx_used + offset = end[d]
      /\ \A i \in 0..(rx_used - 1) : rx_buf[i] = sent - rx_used + i
  BY <1>1, Zenon DEF IInv, AtBoundary, BufferAligned
<1>8. /\ FrameSize(k) \in Nat /\ FrameSize(k) >= HeaderSize
      /\ offset + FrameSize(k) <= rx_used
  <2>1. FrameSize(k) = end[k] - end[k-1]
    BY Zenon DEF FrameSize
  <2>2. FrameSize(k) \in Nat /\ FrameSize(k) >= HeaderSize
    BY <2>1, <1>5, <1>6, SMTT(30)
  <2>3. offset \in Nat /\ rx_used \in Nat
    BY <1>5
  <2> QED BY <2>2, <2>3, <1>a
<1>9. FrameAt(k) = SentFrame(k)
  <2>1. ASSUME NEW j \in 0..(FrameSize(k) - HeaderSize - 1)
        PROVE  rx_buf[offset + HeaderSize + j] = end[k-1] + HeaderSize + j
    <3>1. offset + HeaderSize + j \in 0..(rx_used - 1)
      BY <1>5, <1>8, SMTT(30)
    <3>2. rx_buf[offset + HeaderSize + j] = sent - rx_used + (offset + HeaderSize + j)
      BY <3>1, <1>7, Zenon
    <3>3. offset \in Nat /\ rx_used \in Nat /\ sent \in Nat /\ HeaderSize \in Nat /\ j \in Int
      BY <1>5, <1>8
    <3>4. sent - rx_used + offset = end[k-1] /\ end[k-1] \in Nat
      BY <1>6, <1>7, Zenon
    <3> QED BY <3>2, <3>3, <3>4
  <2> QED BY <2>1, Zenon DEF SentFrame, FrameAt, FrameSize
<1>10. dispatched \in Seq(S) /\ dispatched' = Append(dispatched, SentFrame(k))
  BY <1>3, <1>9, Zenon DEF IInv
<1>11. /\ dispatched' \in Seq(S) /\ Len(dispatched') = d + 1
       /\ \A i \in 1..d : dispatched'[i] = dispatched[i]
       /\ dispatched'[d + 1] = SentFrame(d + 1)
  BY <1>4, <1>10, SMTT(30)
<1>12. TypeOK'
  <2>1. offset' \in 0..Cap /\ d + 1 \in 0..N
    BY <1>a, <1>2, <1>5, <1>8, SMTT(60)
  <2> QED BY <2>1, <1>1, <1>11, Zenon DEF IInv, TypeOK, Reasons
<1>13. (dispatched \in Seq({SentFrame(m) : m \in 1..N}))'
  BY <1>1, <1>11 DEF SentFrame
<1>14. bad # 0 => Len(dispatched') < bad
  BY <1>2, <1>4, <1>5, <1>11, SMTT(30) DEF IInv
<1>15. BufferAligned'
  BY <1>1, <1>7, Zenon DEF BufferAligned
<1>16. AtBoundary'
  <2>1. sent - rx_used + offset' = end[d + 1]
    <3>1. /\ FrameSize(k) = end[k] - end[d] /\ end[d] \in Nat /\ end[k] \in Nat
          /\ end[d+1] = end[k]
      BY <1>4, <1>6, Zenon DEF FrameSize
    <3>2. sent \in Nat /\ rx_used \in Nat /\ offset \in Nat
      BY <1>5
    <3>3. sent - rx_used + offset = end[d]
      BY <1>7, Zenon
    <3> QED BY <3>1, <3>2, <3>3, <1>a, SMTT(60)
  <2> QED BY <2>1, <1>1, <1>a, <1>8, <1>11, ZenonT(60) DEF AtBoundary
<1>17. DispatchedPrefix'
  <2> SUFFICES ASSUME NEW i \in 1..(d + 1)
               PROVE  dispatched'[i] = SentFrame(i) /\ (bad # 0 => i < bad)
    BY <1>1, <1>11, ZenonT(60) DEF DispatchedPrefix, SentFrame
  <2>1. CASE i = d + 1
    BY <2>1, <1>2, <1>4, <1>5, <1>11 DEF IInv
  <2>2. CASE i \in 1..d
    BY <2>2, <1>11, Zenon DEF IInv, DispatchedPrefix
  <2> QED BY <2>1, <2>2, <1>5, SMTT(30)
<1>18. NothingWithheld'
  BY <1>1, Zenon DEF NothingWithheld
<1>19. OverflowMeansOversize'
  <2>1. closed # "overflow"
    BY <1>1, Zenon DEF IInv
  <2> QED BY <2>1, <1>1, Zenon DEF OverflowMeansOversize
<1> QED BY <1>1, <1>12, <1>13, <1>14, <1>15, <1>16, <1>17, <1>18, <1>19, Zenon DEF IInv

\* memmove keeps the tail unbroken; what is left is less than the next frame.
LEMMA ParseStopsIInv == IInv /\ ParseStops => IInv'
<1> SUFFICES ASSUME IInv, ParseStops PROVE IInv'
  BY Zenon
<1> DEFINE d == Len(dispatched)
<1>1. /\ pc = "parse" /\ pc' = "idle"
      /\ rx_buf' = MemMove /\ rx_used' = rx_used - offset
      /\ UNCHANGED <<end, bad, sent, offset, closed, dispatched>>
  BY Zenon DEF ParseStops, stream, Available
<1>2. /\ N \in Nat /\ HeaderSize \in Nat \ {0} /\ Cap \in Nat /\ d \in 0..N
      /\ rx_used \in 0..Cap /\ offset \in 0..Cap /\ sent \in Nat
      /\ bad \in 0..N /\ end \in Streams /\ rx_buf \in [0..(Cap - 1) -> Int]
  BY ConstantsAssumption, StreamFacts DEF IInv, TypeOK, Cap
<1>3. /\ offset <= rx_used /\ rx_used <= sent /\ sent - rx_used + offset = end[d]
      /\ \A i \in 0..(rx_used - 1) : rx_buf[i] = sent - rx_used + i
  BY <1>1, Zenon DEF IInv, AtBoundary, BufferAligned
<1>4. rx_buf' = [i \in 0..(Cap - 1) |->
                   IF i < rx_used - offset THEN rx_buf[i + offset] ELSE -1]
  BY <1>1, Zenon DEF MemMove, Available, Stale
<1>5. TypeOK'
  <2>1. rx_buf' \in [0..(Cap - 1) -> Int]
    BY <1>2, <1>3, <1>4, SMTT(30)
  <2>2. rx_used' \in 0..Cap
    BY <1>1, <1>2, <1>3
  <2> QED BY <2>1, <2>2, <1>1, ZenonT(60) DEF IInv, TypeOK
<1>6. (dispatched \in Seq({SentFrame(k) : k \in 1..N}))'
  BY <1>1, Zenon DEF IInv, SentFrame
<1>7. BufferAligned'
  <2>1. rx_used' <= sent'
    BY <1>1, <1>2, <1>3, SMTT(30)
  <2>2. ASSUME NEW i \in 0..(rx_used - offset - 1)
        PROVE  rx_buf'[i] = sent - (rx_used - offset) + i
    <3>1. i \in 0..(Cap - 1) /\ i + offset \in 0..(rx_used - 1) /\ i < rx_used - offset
      BY <1>2, <1>3
    <3>2. rx_buf'[i] = rx_buf[i + offset]
      BY <3>1, <1>4, Zenon
    <3>3. rx_buf[i + offset] = sent - rx_used + (i + offset)
      BY <3>1, <1>3, Zenon
    <3> QED BY <3>1, <3>2, <3>3, <1>2, SMTT(30)
  <2> QED BY <2>1, <2>2, <1>1, Zenon DEF BufferAligned
<1>8. AtBoundary'
  BY <1>1, <1>2, <1>3 DEF AtBoundary
<1>9. DispatchedPrefix'
  BY <1>1, ZenonT(60) DEF IInv, DispatchedPrefix, SentFrame
<1>10. NothingWithheld'
  <2> SUFFICES ASSUME d < N
               PROVE  IF bad = d + 1 THEN sent - end[d] < HeaderSize
                                     ELSE sent < end[d+1]
    BY <1>1, Zenon DEF NothingWithheld
  <2>1. /\ d + 1 \in 1..N /\ end[d] \in Nat /\ end[d+1] \in Nat
        /\ end[d] + HeaderSize <= end[d+1]
    BY <1>2, StreamFacts, SMTT(60)
  <2>2. CASE rx_used - offset < HeaderSize
    BY <2>1, <2>2, <1>2, <1>3, SMTT(60)
  <2>3. CASE ~(rx_used - offset < HeaderSize)
    <3>1. Available >= HeaderSize
      BY <2>3, <1>2 DEF Available
    <3>2. PICK k \in 1..N : HeaderIs(k) /\ Available < FrameSize(k)
      BY <2>3, Zenon DEF ParseStops, Available
    <3>3. k = d + 1
      BY <3>1, <3>2, <1>1, HeaderFound, ZenonT(60)
    <3>4. k # bad /\ rx_used - offset < end[d+1] - end[d]
      BY <3>2, <3>3, <1>2, SMTT(30) DEF HeaderIs, FrameSize, Available
    <3> QED BY <3>3, <3>4, <2>1, <1>2, <1>3, SMTT(60)
  <2> QED BY <2>2, <2>3, Zenon
<1>11. OverflowMeansOversize' /\ (closed = "overflow" => pc = "idle")'
  BY <1>1, Zenon DEF IInv, OverflowMeansOversize, FrameSize
<1> QED BY <1>1, <1>5, <1>6, <1>7, <1>8, <1>9, <1>10, <1>11, ZenonT(60) DEF IInv

\* Every step of the receive path preserves the inductive invariant.
LEMMA NextIInv == IInv /\ [Next]_vars => IInv'
<1> SUFFICES ASSUME IInv, [Next]_vars PROVE IInv'
  BY Zenon
<1>1. CASE ReadFails
  BY <1>1, ReadFailsIInv, Zenon
<1>2. CASE ReadCb
  BY <1>2, ReadOverflowsIInv, ReadBytesIInv, Zenon DEF ReadCb
<1>3. CASE Parse
  BY <1>3, ParseBadHeaderIInv, ParseFrameIInv, ParseStopsIInv, ZenonT(60) DEF Parse
<1>4. CASE UNCHANGED vars
  BY <1>4, SMTT(30) DEF vars, IInv, TypeOK, BufferAligned, AtBoundary, DispatchedPrefix,
              SentFrame, NothingWithheld, OverflowMeansOversize, FrameSize
<1> QED BY <1>1, <1>2, <1>3, <1>4, Zenon DEF Next

\* The inductive invariant holds throughout.
LEMMA Invariance == Spec => []IInv
BY InitIInv, NextIInv, PTL DEF Spec

\* read_cb never writes outside rx_buf and its locals stay in range.
THEOREM TypeCorrect == Spec => []TypeOK
<1>1. IInv => TypeOK
  BY Zenon DEF IInv
<1> QED BY <1>1, Invariance, PTL

\* The handlers see exactly a prefix of the peer's frames, whatever the
\* segmentation, the frame sizes and the buffer size.
THEOREM PrefixDelivered == Spec => []DispatchedPrefix
<1>1. IInv => DispatchedPrefix
  BY Zenon DEF IInv
<1> QED BY <1>1, Invariance, PTL

\* read_cb returns with no complete frame and no refused header left behind.
THEOREM NoneWithheld == Spec => []NothingWithheld
<1>1. IInv => NothingWithheld
  BY Zenon DEF IInv
<1> QED BY <1>1, Invariance, PTL

\* Only a frame longer than Cap - Chunk + 1 bytes can overflow rx_buf.
THEOREM OversizeOnly == Spec => []OverflowMeansOversize
<1>1. IInv => OverflowMeansOversize
  BY Zenon DEF IInv
<1> QED BY <1>1, Invariance, PTL

-----------------------------------------------------------------------------
(* The arguments of a child: what is read under each key of a payload      *)

\* What is assumed of the constants of Dispatch
LEMMA DispatchConstants ==
  /\ MaxArgs \in Nat /\ MaxProcs \in Nat /\ MaxRelays \in Nat /\ IdSpan \in Nat
  /\ PortSpan \in Nat /\ PortSpan > 0 /\ NoSession \notin Sessions
  /\ Empty # Long /\ Empty # None /\ Long # None
  /\ \A w \in Words : w # Empty /\ w # Long /\ w # None
BY DispatchAssumption, Zenon

\* A payload is a short sequence of lines.
LEMMA PayloadIs ==
  ASSUME NEW p \in Payloads
  PROVE  /\ p \in Seq(Lines) /\ Len(p) \in Nat /\ DOMAIN p = 1..Len(p)
         /\ \A i \in DOMAIN p : p[i].key \in Nat /\ p[i].value \in Words \cup {Empty, Long}
         /\ \A i \in DOMAIN p : p[i].value # None
<1>1. PICK n \in 0..MaxArgs : p \in [1..n -> Lines]
  BY Zenon DEF Payloads
<1>2. p \in Seq(Lines) /\ Len(p) = n /\ n \in Nat /\ DOMAIN p = 1..n
  BY <1>1, DispatchConstants
<1>3. \A i \in DOMAIN p : p[i] \in Lines
  BY <1>1, <1>2, Zenon
<1>4. \A x \in Lines : x.key \in Nat /\ x.value \in Words \cup {Empty, Long}
  BY DispatchConstants DEF Lines
<1>5. QED
  BY <1>2, <1>3, <1>4, DispatchConstants, ZenonT(60)

\* A payload of n lines leaves out one of the keys 0 to n.
LEMMA KeyLeftOut ==
  ASSUME NEW p \in Payloads
  PROVE  \E k \in 0..Len(p) : \A i \in DOMAIN p : p[i].key # k
<1> DEFINE n == Len(p)
           f == [k \in 0..n |-> CHOOSE i \in DOMAIN p : p[i].key = k]
<1>1. n \in Nat /\ DOMAIN p = 1..n
  BY PayloadIs, Zenon
<1> HIDE DEF n
<1>2. SUFFICES ASSUME \A k \in 0..n : \E i \in DOMAIN p : p[i].key = k PROVE FALSE
  BY Zenon DEF n
<1>3. \A k \in 0..n : f[k] \in DOMAIN p /\ p[f[k]].key = k
  BY <1>2, Zenon
<1>4. f \in [0..n -> 1..n]
  BY <1>1, <1>3, Zenon
<1> HIDE DEF f
<1>5. IsFiniteSet(0..n) /\ Cardinality(0..n) = n + 1
  BY <1>1, FS_Interval
<1>6. IsFiniteSet(1..n) /\ Cardinality(1..n) = n
  BY <1>1, FS_Interval
<1>7. Cardinality(1..n) < Cardinality(0..n)
  BY <1>1, <1>5, <1>6
<1>8. \E j, k \in 0..n : j # k /\ f[j] = f[k]
  BY <1>4, <1>5, <1>6, <1>7, FS_PigeonHole, ZenonT(60)
<1>9. QED
  BY <1>3, <1>8, Zenon

\* What is read under a key that has no line
LEMMA NoLine ==
  ASSUME NEW p \in Payloads, NEW k, \A i \in DOMAIN p : p[i].key # k
  PROVE  Parsed(p, k) = None /\ KvCopy(p, k) = None
<1>1. {i \in DOMAIN p : p[i].key = k} = {}
  BY Zenon
<1>2. {i \in DOMAIN p : p[i].key = k /\ p[i].value # Empty} = {}
  BY Zenon
<1>3. Parsed(p, k) = None /\ KvValue(p, k) = None
  BY <1>1, <1>2, Zenon DEF Parsed, KvValue
<1>4. QED
  BY <1>3, DispatchConstants, Zenon DEF KvCopy

\* There is a first key among any.
LEMMA LeastKey ==
  ASSUME NEW T \in SUBSET Nat, T # {}
  PROVE  \E m \in T : \A k \in T : m <= k
<1> DEFINE Less == OpToRel(<, Nat)
<1>1. \A j, k \in Nat : <<j, k>> \in Less <=> j < k
  BY Zenon DEF OpToRel
<1>2. IsWellFoundedOn(Less, Nat)
  BY NatLessThanWellFounded, Zenon
<1> HIDE DEF Less
<1>3. PICK m \in T : \A k \in T : <<k, m>> \notin Less
  BY <1>2, WFMin, Zenon
<1>4. \A k \in T : ~(k < m)
  BY <1>1, <1>3, Zenon
<1>5. QED
  BY <1>4

\* Counting stops at the first key that is missing.
LEMMA CountedIs ==
  ASSUME NEW n \in Nat, NEW found, DOMAIN found = 0..n, \E k \in 0..n : found[k] = None
  PROVE  /\ Counted(found) \in 0..n /\ found[Counted(found)] = None
         /\ \A k \in 0..(Counted(found) - 1) : found[k] # None
<1> DEFINE T == {k \in 0..n : found[k] = None}
<1>1. T \in SUBSET Nat /\ T # {}
  OBVIOUS
<1>2. PICK m \in T : \A k \in T : m <= k
  BY <1>1, LeastKey, Zenon
<1>3. m \in 0..n /\ found[m] = None /\ \A k \in 0..(m - 1) : found[k] # None
  BY <1>2
<1>4. QED
  BY <1>3, Zenon DEF Counted

\* The loops over argv0, argv1, ... in proc_build_args and collect_argv end for
\* every payload: among the keys 0 to n a payload of n lines leaves one out.
LEMMA CountEnds ==
  ASSUME NEW p \in Payloads
  PROVE  /\ Counted(Copied(p)) \in 0..Len(p) /\ Copied(p)[Counted(Copied(p))] = None
         /\ \A k \in 0..(Counted(Copied(p)) - 1) : Copied(p)[k] # None
         /\ Counted(Tabled(p)) \in 0..Len(p) /\ Tabled(p)[Counted(Tabled(p))] = None
         /\ \A k \in 0..(Counted(Tabled(p)) - 1) : Tabled(p)[k] # None
<1>1. Len(p) \in Nat
  BY PayloadIs, Zenon
<1>2. PICK k \in 0..Len(p) : \A i \in DOMAIN p : p[i].key # k
  BY KeyLeftOut, Zenon
<1>3. Parsed(p, k) = None /\ KvCopy(p, k) = None
  BY <1>2, NoLine, Zenon
<1>4. Copied(p)[k] = None /\ Tabled(p)[k] = None
  BY <1>2, <1>3, Zenon DEF Copied, Tabled
<1>5. DOMAIN Copied(p) = 0..Len(p) /\ DOMAIN Tabled(p) = 0..Len(p)
  BY Zenon DEF Copied, Tabled
<1>6. QED
  BY <1>1, <1>2, <1>4, <1>5, CountedIs, ZenonT(60)

\* A payload that is as the protocol wants it has one line for each key.
LEMMA OneLine ==
  ASSUME NEW p \in Payloads, WellFormed(p)
  PROVE  /\ \A i \in DOMAIN p : p[i].key \in 0..(Len(p) - 1)
         /\ \A k \in 0..(Len(p) - 1) : \E i \in DOMAIN p : p[i].key = k
         /\ \A i, j \in DOMAIN p : p[i].key = p[j].key => i = j
<1> DEFINE n == Len(p)
           f == [i \in DOMAIN p |-> p[i].key]
<1>1. n \in Nat /\ DOMAIN p = 1..n
  BY PayloadIs, Zenon
<1>2. \A i \in DOMAIN p : p[i].key \in 0..(n - 1)
  BY Zenon DEF WellFormed
<1>3. \A k \in 0..(n - 1) : \E i \in DOMAIN p : p[i].key = k
  BY Zenon DEF WellFormed
<1> HIDE DEF n
<1>4. f \in [1..n -> 0..(n - 1)]
  BY <1>1, <1>2, Zenon
<1>5. \A k \in 0..(n - 1) : \E i \in 1..n : f[i] = k
  BY <1>1, <1>3, Zenon
<1>6. f \in Surjection(1..n, 0..(n - 1))
  BY <1>4, <1>5, ZenonT(60) DEF Surjection
<1> HIDE DEF f
<1>7. IsFiniteSet(1..n) /\ Cardinality(1..n) = n
  BY <1>1, FS_Interval, SMTT(30)
<1>8. Cardinality(0..(n - 1)) = n
  BY <1>1, FS_Interval
<1>9. f \in Injection(1..n, 0..(n - 1))
  BY <1>6, <1>7, <1>8, FS_SurjSameCardinalityImpliesInj, ZenonT(60)
<1>10. \A i, j \in 1..n : f[i] = f[j] => i = j
  BY <1>9, Zenon DEF Injection, IsInjective
<1>11. \A i, j \in DOMAIN p : p[i].key = p[j].key => i = j
  BY <1>1, <1>10, Zenon DEF f
<1>12. QED
  BY <1>2, <1>3, <1>11, Zenon DEF n

\* What is read under a key that has one line
LEMMA LineRead ==
  ASSUME NEW p \in Payloads, WellFormed(p), NEW i \in DOMAIN p
  PROVE  /\ Parsed(p, p[i].key) = p[i].value
         /\ KvCopy(p, p[i].key) = IF p[i].value \in {Empty, Long} THEN None ELSE p[i].value
         /\ Asked(p)[p[i].key + 1] = p[i].value
<1> DEFINE k == p[i].key
<1>1. i \in Nat /\ DOMAIN p = 1..Len(p) /\ Len(p) \in Nat /\ k \in 0..(Len(p) - 1)
  BY PayloadIs, OneLine
<1>2. \A j \in DOMAIN p : p[j].key = k <=> j = i
  BY OneLine, Zenon
<1> HIDE DEF k
<1>3. Max({i}) = i /\ Min({i}) = i
  BY <1>1 DEF Max, Min
<1>4. {j \in DOMAIN p : p[j].key = k} = {i}
  BY <1>2, Zenon
<1>5. Parsed(p, k) = p[i].value
  BY <1>3, <1>4, Zenon DEF Parsed
<1>6. ASSUME p[i].value = Empty PROVE KvCopy(p, k) = None
  <2>1. {j \in DOMAIN p : p[j].key = k /\ p[j].value # Empty} = {}
    BY <1>2, <1>6, Zenon
  <2>2. KvValue(p, k) = None
    BY <2>1, Zenon DEF KvValue
  <2>3. QED
    BY <2>2, Zenon DEF KvCopy
<1>7. ASSUME p[i].value # Empty
      PROVE  KvCopy(p, k) = IF p[i].value = Long THEN None ELSE p[i].value
  <2>1. {j \in DOMAIN p : p[j].key = k /\ p[j].value # Empty} = {i}
    BY <1>2, <1>7, Zenon
  <2>2. KvValue(p, k) = p[i].value
    BY <1>3, <2>1, Zenon DEF KvValue
  <2>3. QED
    BY <2>2, Zenon DEF KvCopy
<1>8. Asked(p)[k + 1] = p[i].value
  <2>1. k + 1 \in DOMAIN p /\ (k + 1) - 1 = k
    BY <1>1
  <2>2. (CHOOSE j \in DOMAIN p : p[j].key = (k + 1) - 1) = i
    BY <1>2, <2>1, Zenon
  <2>3. QED
    BY <2>1, <2>2, Zenon DEF Asked
<1>9. QED
  BY <1>5, <1>6, <1>7, <1>8, ZenonT(60) DEF k

\* What is read under each key of such a payload, and what its sender means
LEMMA KeysRead ==
  ASSUME NEW p \in Payloads, WellFormed(p)
  PROVE  LET n == Len(p)
             asked == Asked(p)
         IN  /\ n \in Nat /\ asked \in Seq(Words \cup {Empty, Long}) /\ Len(asked) = n
             /\ Tabled(p)[n] = None /\ Copied(p)[n] = None
             /\ \A k \in 0..(n - 1) :
                  /\ Tabled(p)[k] = asked[k + 1] /\ Tabled(p)[k] # None
                  /\ Copied(p)[k] = IF asked[k + 1] \in {Empty, Long} THEN None ELSE asked[k + 1]
<1> DEFINE n == Len(p)
           asked == Asked(p)
<1>1. n \in Nat /\ DOMAIN p = 1..n
  BY PayloadIs, Zenon
<1>2. asked = [i \in 1..n |-> asked[i]]
  <2>1. DOMAIN asked = DOMAIN p /\ asked = [i \in DOMAIN asked |-> asked[i]]
    BY DEF Asked
  <2> HIDE DEF asked, n
  <2>2. QED
    BY <1>1, <2>1, Zenon
<1>3. /\ \A k \in 0..n : Tabled(p)[k] = Parsed(p, k) /\ Copied(p)[k] = KvCopy(p, k)
  BY Zenon DEF Tabled, Copied
<1>4. ASSUME NEW k \in 0..(n - 1)
      PROVE  /\ k \in 0..n
             /\ asked[k + 1] \in Words \cup {Empty, Long} /\ asked[k + 1] # None
             /\ Parsed(p, k) = asked[k + 1]
             /\ KvCopy(p, k) = IF asked[k + 1] \in {Empty, Long} THEN None ELSE asked[k + 1]
  <2>1. PICK i \in DOMAIN p : p[i].key = k
    BY OneLine, Zenon
  <2>2. k \in 0..n
    BY <1>1
  <2>3. asked[k + 1] = p[i].value
    BY <2>1, LineRead, Zenon
  <2>4. p[i].value \in Words \cup {Empty, Long} /\ p[i].value # None
    BY <2>1, PayloadIs, Zenon
  <2>5. Parsed(p, k) = p[i].value
    BY <2>1, LineRead, Zenon
  <2>6. KvCopy(p, k) = IF p[i].value \in {Empty, Long} THEN None ELSE p[i].value
    BY <2>1, LineRead, ZenonT(60)
  <2> HIDE DEF asked
  <2>7. QED
    BY <2>2, <2>3, <2>4, <2>5, <2>6, ZenonT(60)
<1>5. n \in 0..n /\ \A i \in DOMAIN p : p[i].key # n
  BY <1>1, OneLine
<1>6. Parsed(p, n) = None /\ KvCopy(p, n) = None
  BY <1>5, NoLine, Zenon
<1>7. asked \in Seq(Words \cup {Empty, Long}) /\ Len(asked) = n
  <2> HIDE DEF asked, n
  <2>1. \A i \in 1..n : asked[i] \in Words \cup {Empty, Long}
    <3>1. TAKE i \in 1..n
    <3>2. i - 1 \in 0..(n - 1) /\ (i - 1) + 1 = i
      BY <1>1
    <3>3. QED
      BY <1>4, <3>2, Zenon
  <2>2. QED
    BY <1>1, <1>2, <2>1, SMTT(30)
<1>8. QED
  BY <1>1, <1>3, <1>4, <1>5, <1>6, <1>7, ZenonT(60)

\* tool.run passes on what it was asked to, all of it.
LEMMA CollectedAsAsked ==
  ASSUME NEW p \in Payloads, WellFormed(p), NEW path
  PROVE  CollectArgv(p, path) = IF Asked(p) = <<>> THEN <<path>> ELSE Asked(p)
<1> DEFINE n == Len(p)
           asked == Asked(p)
           c == Counted(Tabled(p))
<1>1. /\ n \in Nat /\ asked \in Seq(Words \cup {Empty, Long}) /\ Len(asked) = n
      /\ \A k \in 0..(n - 1) : Tabled(p)[k] = asked[k + 1] /\ Tabled(p)[k] # None
  BY KeysRead, Zenon
<1>2. c \in 0..n /\ Tabled(p)[c] = None
  BY CountEnds, Zenon
<1>3. Values(Tabled(p)) = [i \in 1..c |-> Tabled(p)[i - 1]]
  BY Zenon DEF Values
<1>4. CollectArgv(p, path) = IF c = 0 THEN <<path>> ELSE Values(Tabled(p))
  BY Zenon DEF CollectArgv
<1> HIDE DEF n, asked, c
<1>5. c = n
  BY <1>1, <1>2
<1>6. \A i \in 1..n : Tabled(p)[i - 1] = asked[i]
  <2>1. SUFFICES ASSUME NEW i \in 1..n PROVE Tabled(p)[i - 1] = asked[i]
    BY Zenon
  <2>2. i - 1 \in 0..(n - 1) /\ (i - 1) + 1 = i
    BY <1>1, SMTT(30)
  <2>3. QED
    BY <1>1, <2>2, Zenon
<1>7. Values(Tabled(p)) = asked
  BY <1>1, <1>3, <1>5, <1>6, SMTT(30)
<1>8. c = 0 <=> asked = <<>>
  BY <1>1, <1>5
<1>9. QED
  BY <1>4, <1>7, <1>8, Zenon DEF asked

\* PROC_SPAWN passes on what comes before the first argument it cannot read.
LEMMA BuiltAsAsked ==
  ASSUME NEW p \in Payloads, WellFormed(p), NEW path
  PROVE  LET args == BuildArgs(p, path)
             asked == Asked(p)
         IN  /\ args = <<path>> \/ (args # <<>> /\ Begins(args, asked))
             /\ Len(asked) > 1 /\ (\A i \in DOMAIN asked : asked[i] \notin {Empty, Long})
                  => args = asked
<1> DEFINE n == Len(p)
           asked == Asked(p)
           args == BuildArgs(p, path)
           c == Counted(Copied(p))
<1>1. /\ n \in Nat /\ asked \in Seq(Words \cup {Empty, Long}) /\ Len(asked) = n
      /\ \A k \in 0..(n - 1) : /\ Tabled(p)[k] = asked[k + 1] /\ Tabled(p)[k] # None
                               /\ Copied(p)[k] = IF asked[k + 1] \in {Empty, Long} THEN None
                                                 ELSE asked[k + 1]
  BY KeysRead, Zenon
<1>2. c \in 0..n /\ Copied(p)[c] = None /\ \A k \in 0..(c - 1) : Copied(p)[k] # None
  BY CountEnds, Zenon
<1>3. args = IF c <= 1 THEN <<path>> ELSE [i \in 1..c |-> Copied(p)[i - 1]]
  BY Zenon DEF BuildArgs, Values
<1> HIDE DEF n, asked, args, c
<1>4. \A i \in 1..c : Copied(p)[i - 1] = asked[i]
  <2>1. SUFFICES ASSUME NEW i \in 1..c PROVE Copied(p)[i - 1] = asked[i]
    BY Zenon
  <2>2. i - 1 \in 0..(n - 1) /\ i - 1 \in 0..(c - 1) /\ (i - 1) + 1 = i
    BY <1>1, <1>2, SMTT(30)
  <2>3. QED
    BY <1>1, <1>2, <2>2, ZenonT(60)
<1>5. c > 1 => args = [i \in 1..c |-> asked[i]]
  BY <1>2, <1>3, <1>4, SMTT(30)
<1>6. c > 1 => args # <<>> /\ Begins(args, asked)
  BY <1>1, <1>2, <1>5, SMTT(30) DEF Begins
<1>7. args = <<path>> \/ (args # <<>> /\ Begins(args, asked))
  BY <1>2, <1>3, <1>6, SMTT(30)
<1>8. ASSUME Len(asked) > 1, \A i \in DOMAIN asked : asked[i] \notin {Empty, Long}
      PROVE  args = asked
  <2>1. DOMAIN asked = 1..n
    BY <1>1
  <2>2. c < n => Copied(p)[c] = asked[c + 1] /\ asked[c + 1] # None
    <3>1. c < n => c \in 0..(n - 1) /\ c + 1 \in DOMAIN asked
      BY <1>1, <1>2, <2>1, SMTT(30)
    <3>2. QED
      BY <1>1, <1>8, <3>1, ZenonT(60)
  <2>3. c = n /\ c > 1
    BY <1>1, <1>2, <1>8, <2>2, SMTT(30)
  <2>4. QED
    BY <1>1, <1>5, <2>3, SMTT(30)
<1>9. QED
  BY <1>7, <1>8, Zenon DEF args, asked

-----------------------------------------------------------------------------
(* The invariant of Dispatch, about an agent a that has handled the        *)
(* request r of the session s                                              *)

\* What is known of a session
Statuses == [closed : BOOLEAN, active : BOOLEAN, proc_id : Nat, next_proc_id : Nat \ {0}]

\* What fits in 16 bits
Ports == 0..(PortSpan - 1)

\* An agent is a record with these fields.
State(session, active_session, relays, next_relay_id, did, args, out, lost) ==
  [session |-> session, active_session |-> active_session, relays |-> relays,
   next_relay_id |-> next_relay_id, sent |-> out, lost |-> lost, did |-> did, args |-> args]

Shape(a) ==
  a = State(a.session, a.active_session, a.relays, a.next_relay_id, a.did, a.args, a.sent, a.lost)

\* The type of the agent; the arguments of a child are whatever was made of them.
Agent(a) ==
  /\ Shape(a)
  /\ a.session \in [Sessions -> Statuses]
  /\ a.lost \in BOOLEAN
  /\ a.next_relay_id \in Nat \ {0}
  /\ a.relays \subseteq [id : 1..(a.next_relay_id - 1), owner : Sessions, target : Ports]
  /\ \A s \in Sessions :
       a.session[s].active => a.session[s].proc_id \in 1..(a.session[s].next_proc_id - 1)

\* Nothing is left of the last request.
Idle(a) == a.sent = <<>> /\ a.lost = FALSE /\ a.did = {} /\ a.args = <<>>

\* What may have been sent before the answer
Heads(s, r) == IF r.name = "tool.run" THEN {<<>>, <<Frame(s, "ERROR", 0)>>} ELSE {<<>>}

Types == {"ACK", "PONG", "ERROR", "OP_RESULT"}

\* An answer of this type tells what happened.
Tells(a, s, r, type) ==
  /\ type \in {"ACK", "OP_RESULT"} =>
       /\ r.type = "PROC_SPAWN" \/ r.name = "tool.run" =>
            a.did = {<<"spawned", a.session[s].proc_id>>} /\ a.session[s].active
       /\ r.type = "KILL" => a.did = {<<"killed", U32(r.arg)>>}
       /\ r.name = "port_open" =>
            /\ a.did = {<<"opened", a.next_relay_id - 1>>}
            /\ [id |-> a.next_relay_id - 1, owner |-> s, target |-> U16(r.arg)] \in a.relays
       /\ r.name = "port_close" => a.did = {<<"closed", U32(r.arg)>>}
  /\ type = "ERROR" /\ a.did # {} =>
       \/ a.lost
       \/ r.type = "PROC_SPAWN" /\ r.path = "mid"
       \/ r.type = "KILL" /\ a.did = {<<"marked", U32(r.arg)>>}

\* There is no answer, and cannot be one, or there is one that tells.
Outcome(a, s, r) ==
  \/ a.sent \in Heads(s, r) /\ (a.session[s].closed \/ a.lost)
  \/ \E h \in Heads(s, r), type \in Types :
       a.sent = Append(h, Frame(s, type, 1)) /\ Tells(a, s, r, type)

\* Where the arguments of a child come from
ArgsFrom(a, r) ==
  (\E e \in a.did : e[1] = "spawned") =>
    \/ r.type = "PROC_SPAWN" /\ a.args = BuildArgs(r.argv, r.path)
    \/ r.type = "OP" /\ a.args = CollectArgv(r.argv, r.path)

\* The request has been handled.
Completed(a, s, r) ==
  Agent(a) /\ a.active_session = NoSession /\ Outcome(a, s, r) /\ ArgsFrom(a, r)

\* The agent is idle until a request has been completed.
DispatchInv ==
  /\ Agent(agent) /\ agent.active_session = NoSession
  /\ reader \in Sessions \cup {NoSession}
  /\ request \in Requests \cup {NoRequest}
  /\ request = NoRequest => Idle(agent)
  /\ request # NoRequest => reader # NoSession /\ Completed(agent, reader, request)

\* What a request is
LEMMA RequestIs ==
  ASSUME NEW r \in Requests
  PROVE  /\ r.type \in {"HELLO", "PING", "other", "PROC_SPAWN", "KILL", "OP"}
         /\ r.type # "OP" => r.name = "none"
         /\ r.type = "OP" => r.name \in {"debug", "port_list", "unknown", "list", "port_open",
                                         "port_close", "tool.run"}
         /\ r.path \in Paths /\ r.argv \in Payloads /\ r.arg \in Nat
<1>1. <<>> \in Payloads
  <2>1. 0 \in 0..MaxArgs /\ <<>> \in [1..0 -> Lines]
    BY DispatchConstants, SMTT(30)
  <2>2. QED
    BY <2>1, Zenon DEF Payloads
<1>2. \A c \in Commands : c[1] \in Paths /\ c[2] \in Payloads
  BY <1>1, Zenon DEF Commands, Paths
<1>3. ProcIds \subseteq Nat /\ RelayIds \subseteq Nat /\ Targets \subseteq Nat
  BY DispatchConstants, SMTT(30) DEF ProcIds, RelayIds, Targets
<1>4. r.arg \in Nat
  BY <1>3 DEF Requests, Request
<1>5. QED
  BY <1>1, <1>2, <1>4 DEF Requests, Request, Paths

\* A port is cut to 16 bits.
LEMMA PortOf ==
  ASSUME NEW r \in Requests
  PROVE  U16(r.arg) \in Ports
<1>1. r.arg \in Nat
  BY RequestIs, Zenon
<1> DEFINE n == r.arg
<1> HIDE DEF n
<1>2. n \in Nat
  BY <1>1 DEF n
<1>3. n % PortSpan \in 0..(PortSpan - 1)
  BY <1>2, DispatchConstants, SMTT(30)
<1>4. QED
  BY <1>3, Zenon DEF U16, Ports, n

\* NoRequest is no request.
LEMMA NoRequestIs == NoRequest \notin Requests
<1>1. NoRequest.type = "none"
  BY Zenon DEF NoRequest, Request
<1>2. QED
  BY <1>1, RequestIs, Zenon

\* A session that is closed keeps the rest of its status.
LEMMA StatusClosed ==
  ASSUME NEW z \in [Sessions -> Statuses], NEW s \in Sessions
  PROVE  LET y == [z EXCEPT ![s].closed = TRUE]
         IN  /\ y \in [Sessions -> Statuses] /\ y[s].closed
             /\ \A t \in Sessions : /\ y[t].active = z[t].active /\ y[t].proc_id = z[t].proc_id
                                    /\ y[t].next_proc_id = z[t].next_proc_id
BY ZenonT(60) DEF Statuses

\* An agent with sessions that are as they were but for being closed
LEMMA AgentIs ==
  ASSUME NEW a, Agent(a), NEW z \in [Sessions -> Statuses],
         \A t \in Sessions : /\ z[t].active = a.session[t].active
                             /\ z[t].proc_id = a.session[t].proc_id
                             /\ z[t].next_proc_id = a.session[t].next_proc_id,
         NEW v, NEW did, NEW args, NEW out, NEW l \in BOOLEAN
  PROVE  Agent(State(z, v, a.relays, a.next_relay_id, did, args, out, l))
<1> DEFINE b == State(z, v, a.relays, a.next_relay_id, did, args, out, l)
<1>1. /\ Shape(b) /\ b.session = z /\ b.relays = a.relays
      /\ b.next_relay_id = a.next_relay_id /\ b.lost = l
  BY Zenon DEF State, Shape
<1> HIDE DEF b
<1>2. \A t \in Sessions : z[t].active => z[t].proc_id \in 1..(z[t].next_proc_id - 1)
  BY Zenon DEF Agent
<1>3. Agent(b)
  BY <1>1, <1>2, Zenon DEF Agent
<1>4. QED
  BY <1>3, Zenon DEF b

\* The agent b is a but for what has been sent, whether the session is closed and
\* whether memory has run out.
SentBy(b, a, s, type, req_id, o) ==
  /\ Agent(b) /\ b.active_session = a.active_session
  /\ b.relays = a.relays /\ b.next_relay_id = a.next_relay_id
  /\ b.did = a.did /\ b.args = a.args
  /\ b.session[s].active = a.session[s].active
  /\ b.session[s].proc_id = a.session[s].proc_id
  /\ a.session[s].closed => b.session[s].closed
  /\ a.lost => b.lost
  /\ Sends(a, s, o) => b.sent = Append(a.sent, Frame(s, type, req_id))
  /\ ~Sends(a, s, o) => b.sent = a.sent /\ (b.session[s].closed \/ b.lost)

\* What session_send_frame changes
LEMMA SendIs ==
  ASSUME NEW a, Agent(a), NEW s \in Sessions, NEW type, NEW req_id, NEW o \in Outcomes,
         NEW b, b = Send(a, s, type, req_id, o)
  PROVE  SentBy(b, a, s, type, req_id, o)
<1>1. /\ Shape(a) /\ a.session \in [Sessions -> Statuses] /\ a.lost \in BOOLEAN
  BY Zenon DEF Agent
<1>2. CASE a.session[s].closed
  <2>1. b = a
    BY <1>2, Zenon DEF Send
  <2>2. QED
    BY <1>2, <2>1, Zenon DEF Sends, SentBy
<1>3. CASE ~a.session[s].closed /\ o = "overflow"
  <2> DEFINE z == [a.session EXCEPT ![s].closed = TRUE]
  <2>1. b = Close(a, s) /\ ~Sends(a, s, o)
    BY <1>3, Zenon DEF Send, Sends
  <2>2. b = State(z, a.active_session, a.relays, a.next_relay_id, a.did, a.args, a.sent, a.lost)
    BY <1>1, <2>1, Zenon DEF Close, State, Shape
  <2>3. /\ z \in [Sessions -> Statuses] /\ z[s].closed
        /\ \A t \in Sessions : /\ z[t].active = a.session[t].active
                               /\ z[t].proc_id = a.session[t].proc_id
                               /\ z[t].next_proc_id = a.session[t].next_proc_id
    BY <1>1, StatusClosed, ZenonT(120)
  <2> HIDE DEF z
  <2>4. Agent(b)
    BY <1>1, <2>2, <2>3, AgentIs, ZenonT(60)
  <2>5. /\ b.session = z /\ b.active_session = a.active_session
        /\ b.relays = a.relays /\ b.next_relay_id = a.next_relay_id
        /\ b.did = a.did /\ b.args = a.args /\ b.sent = a.sent /\ b.lost = a.lost
    BY <2>2 DEF State
  <2>6. QED
    BY <2>1, <2>3, <2>4, <2>5, ZenonT(60) DEF SentBy
<1>4. CASE ~a.session[s].closed /\ o = "dropped"
  <2> DEFINE l == TRUE
  <2>1. b = [a EXCEPT !.lost = l] /\ ~Sends(a, s, o)
    BY <1>4, Zenon DEF Send, Sends
  <2>2. l /\ l \in BOOLEAN
    BY Zenon
  <2> HIDE DEF l
  <2>3. b = State(a.session, a.active_session, a.relays, a.next_relay_id, a.did, a.args, a.sent, l)
    BY <1>1, <2>1, ZenonT(60) DEF State, Shape
  <2>4. Agent(b)
    BY <1>1, <2>3, <2>2, AgentIs, ZenonT(30)
  <2>5. /\ b.session = a.session /\ b.active_session = a.active_session
        /\ b.relays = a.relays /\ b.next_relay_id = a.next_relay_id
        /\ b.did = a.did /\ b.args = a.args /\ b.sent = a.sent /\ b.lost = l
    BY <2>3 DEF State
  <2>6. QED
    BY <2>1, <2>2, <2>4, <2>5, ZenonT(60) DEF SentBy
<1>5. CASE ~a.session[s].closed /\ o = "queued"
  <2> DEFINE q == Append(a.sent, Frame(s, type, req_id))
  <2>1. b = [a EXCEPT !.sent = q] /\ Sends(a, s, o)
    BY <1>5, Zenon DEF Send, Sends
  <2> HIDE DEF q
  <2>2. b = State(a.session, a.active_session, a.relays, a.next_relay_id, a.did, a.args, q, a.lost)
    BY <1>1, <2>1, Zenon DEF State, Shape
  <2>3. Agent(b)
    BY <1>1, <2>2, AgentIs, ZenonT(30)
  <2>4. /\ b.session = a.session /\ b.active_session = a.active_session
        /\ b.relays = a.relays /\ b.next_relay_id = a.next_relay_id
        /\ b.did = a.did /\ b.args = a.args /\ b.sent = q /\ b.lost = a.lost
    BY <2>2 DEF State
  <2>5. QED
    BY <2>1, <2>3, <2>4, ZenonT(60) DEF q, SentBy
<1>6. QED
  BY <1>2, <1>3, <1>4, <1>5, ZenonT(60) DEF Outcomes

\* The updates of an agent that its operations make
LEMMA SetLost ==
  ASSUME NEW a, Shape(a), NEW v
  PROVE  [a EXCEPT !.lost = v] =
           State(a.session, a.active_session, a.relays, a.next_relay_id,
                 a.did, a.args, a.sent, v)
BY DEF State, Shape

\* active_session is set or reset.
LEMMA SetActive ==
  ASSUME NEW a, Shape(a), NEW v
  PROVE  [a EXCEPT !.active_session = v] =
           State(a.session, v, a.relays, a.next_relay_id,
                 a.did, a.args, a.sent, a.lost)
BY DEF State, Shape

\* Something has been done.
LEMMA SetDid ==
  ASSUME NEW a, Shape(a), NEW v
  PROVE  [a EXCEPT !.did = v] =
           State(a.session, a.active_session, a.relays, a.next_relay_id,
                 v, a.args, a.sent, a.lost)
BY DEF State, Shape

\* A process id has been given out.
LEMMA SetCounted ==
  ASSUME NEW a, Shape(a), NEW s
  PROVE  [a EXCEPT !.session[s].next_proc_id = @ + 1] =
           State([a.session EXCEPT ![s].next_proc_id = @ + 1], a.active_session,
                 a.relays, a.next_relay_id,
                 a.did, a.args, a.sent, a.lost)
BY DEF State, Shape

\* What SpawnCommon makes of the sessions, and of the agent
ChildOf(sessions, s, n) ==
  [[[sessions EXCEPT ![s].active = TRUE] EXCEPT ![s].proc_id = n] EXCEPT ![s].next_proc_id = @ + 1]

Started(a, s, n, args) ==
  [a EXCEPT !.session[s].active = TRUE, !.session[s].proc_id = n,
            !.session[s].next_proc_id = @ + 1, !.args = args, !.did = @ \cup {<<"spawned", n>>}]

\* A child has been started.
LEMMA SetStarted ==
  ASSUME NEW a, Shape(a), NEW s, NEW n, NEW args
  PROVE  Started(a, s, n, args) =
           State(ChildOf(a.session, s, n), a.active_session, a.relays, a.next_relay_id,
                 a.did \cup {<<"spawned", n>>}, args, a.sent, a.lost)
<1> DEFINE v == TRUE
           d == a.did \cup {<<"spawned", n>>}
           z1 == [a.session EXCEPT ![s].active = v]
           z2 == [z1 EXCEPT ![s].proc_id = n]
           z == [z2 EXCEPT ![s].next_proc_id = @ + 1]
           a1 == [a EXCEPT !.session[s].active = v]
           a2 == [a EXCEPT !.session[s].active = v, !.session[s].proc_id = n]
           a3 == [a EXCEPT !.session[s].active = v, !.session[s].proc_id = n,
                           !.session[s].next_proc_id = @ + 1]
           a4 == [a EXCEPT !.session[s].active = v, !.session[s].proc_id = n,
                           !.session[s].next_proc_id = @ + 1, !.args = args]
           a5 == [a EXCEPT !.session[s].active = v, !.session[s].proc_id = n,
                           !.session[s].next_proc_id = @ + 1, !.args = args,
                           !.did = @ \cup {<<"spawned", n>>}]
<1>1. Started(a, s, n, args) = a5 /\ z = ChildOf(a.session, s, n)
  BY Zenon DEF Started, ChildOf
<1> HIDE DEF v
<1>2. a2 = [a1 EXCEPT !.session[s].proc_id = n]
  BY Zenon
<1>3. a3 = [a2 EXCEPT !.session[s].next_proc_id = @ + 1]
  BY ZenonT(120)
<1>4. a4 = [a3 EXCEPT !.args = args]
  BY Zenon
<1>5. a5 = [a4 EXCEPT !.did = @ \cup {<<"spawned", n>>}]
  OBVIOUS
<1>6. a1 = State(z1, a.active_session, a.relays, a.next_relay_id, a.did, a.args, a.sent, a.lost)
  BY DEF State, Shape
<1> HIDE DEF z1, a1, a2, a3, a4, a5
<1>7. a2 = State(z2, a.active_session, a.relays, a.next_relay_id, a.did, a.args, a.sent, a.lost)
  BY <1>2, <1>6, Zenon DEF State
<1> HIDE DEF z2
<1>8. a3 = State(z, a.active_session, a.relays, a.next_relay_id, a.did, a.args, a.sent, a.lost)
  BY <1>3, <1>7, Zenon DEF State
<1> HIDE DEF z
<1>9. a4 = State(z, a.active_session, a.relays, a.next_relay_id, a.did, args, a.sent, a.lost)
  BY <1>4, <1>8, Zenon DEF State
<1>10. a5 = State(z, a.active_session, a.relays, a.next_relay_id, d, args, a.sent, a.lost)
  BY <1>5, <1>9, Zenon DEF State
<1>11. QED
  BY <1>1, <1>10, Zenon

\* If the answer tells what happened and cannot be sent, there is none.
LEMMA SendTells ==
  ASSUME NEW a, Agent(a), NEW s \in Sessions, NEW r, NEW type \in Types, NEW o \in Outcomes,
         a.sent \in Heads(s, r), a.session[s].closed \/ Tells(a, s, r, type)
  PROVE  Outcome(Send(a, s, type, 1, o), s, r)
<1> DEFINE b == Send(a, s, type, 1, o)
<1>0. SentBy(b, a, s, type, 1, o)
  BY SendIs, Zenon
<1> HIDE DEF b
<1>1. /\ b.relays = a.relays /\ b.next_relay_id = a.next_relay_id /\ b.did = a.did
      /\ b.session[s].active = a.session[s].active
      /\ b.session[s].proc_id = a.session[s].proc_id
      /\ a.lost => b.lost
      /\ Sends(a, s, o) => b.sent = Append(a.sent, Frame(s, type, 1))
      /\ ~Sends(a, s, o) => b.sent = a.sent /\ (b.session[s].closed \/ b.lost)
  BY <1>0, Zenon DEF SentBy
<1>2. CASE Sends(a, s, o)
  <2>1. Tells(a, s, r, type)
    BY <1>2, Zenon DEF Sends
  <2>2. Tells(b, s, r, type)
    BY <1>1, <2>1, ZenonT(60) DEF Tells
  <2>3. QED
    BY <1>1, <1>2, <2>2, ZenonT(60) DEF Outcome, b
<1>3. CASE ~Sends(a, s, o)
  BY <1>1, <1>3, ZenonT(60) DEF Outcome, b
<1>4. QED
  BY <1>2, <1>3, Zenon

\* An ERROR tells what happened when nothing has changed or memory has run out.
LEMMA ErrorTells ==
  ASSUME NEW a, NEW s, NEW r, a.did = {} \/ a.lost
  PROVE  Tells(a, s, r, "ERROR")
BY Zenon DEF Tells

\* A request that changes nothing and is answered is completed.
LEMMA HandledBySend ==
  ASSUME NEW a, Agent(a), a.active_session = NoSession, NEW s \in Sessions, NEW r,
         NEW type \in Types, NEW o \in Outcomes,
         a.sent \in Heads(s, r), a.session[s].closed \/ Tells(a, s, r, type), ArgsFrom(a, r)
  PROVE  Completed(Send(a, s, type, 1, o), s, r)
<1> DEFINE b == Send(a, s, type, 1, o)
<1>0. SentBy(b, a, s, type, 1, o) /\ Outcome(b, s, r)
  BY SendIs, SendTells, ZenonT(60)
<1> HIDE DEF b
<1>1. Agent(b) /\ b.active_session = NoSession /\ b.did = a.did /\ b.args = a.args
  BY <1>0, Zenon DEF SentBy
<1>3. ArgsFrom(b, r)
  BY <1>1, Zenon DEF ArgsFrom
<1>4. QED
  BY <1>0, <1>1, <1>3, ZenonT(60) DEF Completed, b

\* A child with the id n has been started in the session s.
HasChild(y, z, s, n) ==
  /\ y \in [Sessions -> Statuses] /\ n \in Nat \ {0}
  /\ y[s].active /\ y[s].proc_id = n /\ y[s].next_proc_id = n + 1
  /\ \A t \in Sessions : t # s => y[t] = z[t]

\* The child that is started
LEMMA StatusSpawned ==
  ASSUME NEW z \in [Sessions -> Statuses], NEW s \in Sessions, NEW n, n = z[s].next_proc_id,
         NEW y, y = ChildOf(z, s, n)
  PROVE  HasChild(y, z, s, n)
<1> DEFINE z1 == [z EXCEPT ![s].active = TRUE]
           z2 == [z1 EXCEPT ![s].proc_id = n]
<1>1. y = [z2 EXCEPT ![s].next_proc_id = @ + 1]
  BY Zenon DEF ChildOf
<1>2. n \in Nat \ {0}
  BY Zenon DEF Statuses
<1>3. /\ z1 \in [Sessions -> Statuses] /\ z1[s].active /\ z1[s].next_proc_id = n
      /\ \A t \in Sessions : t # s => z1[t] = z[t]
  BY ZenonT(30) DEF Statuses
<1> HIDE DEF z1
<1>4. /\ z2 \in [Sessions -> Statuses] /\ z2[s].active /\ z2[s].proc_id = n
      /\ z2[s].next_proc_id = n
      /\ \A t \in Sessions : t # s => z2[t] = z[t]
  BY <1>2, <1>3, ZenonT(120) DEF Statuses
<1> HIDE DEF z2
<1>5. /\ y \in [Sessions -> Statuses] /\ y[s].active /\ y[s].proc_id = n
      /\ y[s].next_proc_id = n + 1
      /\ \A t \in Sessions : t # s => y[t] = z[t]
  BY <1>2, <1>4, <1>1 DEF Statuses
<1>6. QED
  BY <1>2, <1>5, ZenonT(60) DEF HasChild

\* The status of a session that has given out a process id
LEMMA StatusCounted ==
  ASSUME NEW z \in [Sessions -> Statuses], NEW s \in Sessions
  PROVE  LET y == [z EXCEPT ![s].next_proc_id = @ + 1]
         IN  /\ y \in [Sessions -> Statuses]
             /\ y[s].active = z[s].active /\ y[s].proc_id = z[s].proc_id
             /\ y[s].next_proc_id = z[s].next_proc_id + 1
             /\ y[s].closed = z[s].closed
             /\ \A t \in Sessions : t # s => y[t] = z[t]
BY DEF Statuses

\* An agent with other sessions
LEMMA AgentWith ==
  ASSUME NEW a, Agent(a), NEW z \in [Sessions -> Statuses],
         \A t \in Sessions : z[t].active => z[t].proc_id \in 1..(z[t].next_proc_id - 1),
         NEW v, NEW did, NEW args, NEW out, NEW l \in BOOLEAN
  PROVE  Agent(State(z, v, a.relays, a.next_relay_id, did, args, out, l))
<1> DEFINE b == State(z, v, a.relays, a.next_relay_id, did, args, out, l)
<1>1. /\ Shape(b) /\ b.session = z /\ b.relays = a.relays
      /\ b.next_relay_id = a.next_relay_id /\ b.lost = l
  BY Zenon DEF State, Shape
<1> HIDE DEF b
<1>2. Agent(b)
  BY <1>1, Zenon DEF Agent
<1>3. QED
  BY <1>2, Zenon DEF b

\* The agent c has started a child in the session s, and else is as a.
Spawned(c, a, s, args) ==
  /\ Agent(c) /\ c.active_session = a.active_session /\ c.sent = a.sent /\ c.args = args
  /\ c.session[s].active /\ c.did = {<<"spawned", c.session[s].proc_id>>}

\* spawn_process starts a child.
LEMMA SpawnRuns ==
  ASSUME NEW a, Agent(a), a.did = {}, NEW s \in Sessions, NEW req_id, NEW args,
         NEW how \in SpawnResults, NEW o \in Outcomes, Spawns(a, s, how),
         NEW b, b = SpawnCommon(a, s, req_id, args, how, o)
  PROVE  Spawned(b, a, s, args)
<1>1. /\ Shape(a) /\ a.session \in [Sessions -> Statuses] /\ a.lost \in BOOLEAN
      /\ \A t \in Sessions :
           a.session[t].active => a.session[t].proc_id \in 1..(a.session[t].next_proc_id - 1)
  BY Zenon DEF Agent
<1>2. ~a.session[s].active /\ how = "spawned"
  BY Zenon DEF Spawns
<1> DEFINE n == a.session[s].next_proc_id
           z == ChildOf(a.session, s, n)
           d == a.did \cup {<<"spawned", n>>}
           c == State(z, a.active_session, a.relays, a.next_relay_id, d, args, a.sent, a.lost)
<1>3. n = a.session[s].next_proc_id /\ z = ChildOf(a.session, s, n)
  BY Zenon
<1>4. SpawnCommon(a, s, req_id, args, how, o) = Started(a, s, n, args)
  BY <1>2, Zenon DEF SpawnCommon, ProcId, Started
<1>5. SpawnCommon(a, s, req_id, args, how, o) = c
  BY <1>1, <1>4, SetStarted, ZenonT(120)
<1> HIDE DEF n, z
<1>6. /\ z \in [Sessions -> Statuses] /\ n \in Nat \ {0}
      /\ z[s].active /\ z[s].proc_id = n /\ z[s].next_proc_id = n + 1
      /\ \A t \in Sessions : t # s => z[t] = a.session[t]
  <2>1. HasChild(z, a.session, s, n)
    BY <1>1, <1>3, StatusSpawned, ZenonT(60)
  <2>2. QED
    BY <2>1, Zenon DEF HasChild
<1>7. \A t \in Sessions : z[t].active => z[t].proc_id \in 1..(z[t].next_proc_id - 1)
  <2>1. z[s].proc_id \in 1..(z[s].next_proc_id - 1)
    BY <1>6
  <2>2. QED
    BY <1>1, <1>6, <2>1, ZenonT(30)
<1>8. Agent(c)
  BY <1>1, <1>6, <1>7, AgentWith, ZenonT(60)
<1>9. d = {<<"spawned", n>>}
  BY ZenonT(30)
<1> HIDE DEF d
<1>10. /\ c.active_session = a.active_session /\ c.sent = a.sent /\ c.lost = a.lost
      /\ c.args = args /\ c.session = z /\ c.did = d
  BY Zenon DEF State
<1> HIDE DEF c
<1>11. QED
  BY <1>5, <1>6, <1>8, <1>9, <1>10, ZenonT(60) DEF Spawned

\* The agent x has not done more than a, nor sent more.
Spared(x, a) ==
  Agent(x) /\ x.active_session = a.active_session /\ x.sent = a.sent /\ x.did = {}

\* Nothing but an ERROR comes of it.
Refused(b, a, s, req_id, o) ==
  \E x : Spared(x, a) /\ b = Send(x, s, "ERROR", req_id, o)

\* spawn_process fails.
LEMMA SpawnFails ==
  ASSUME NEW a, Agent(a), a.did = {}, NEW s \in Sessions, NEW req_id, NEW args,
         NEW how \in SpawnResults, NEW o \in Outcomes, ~Spawns(a, s, how),
         NEW b, b = SpawnCommon(a, s, req_id, args, how, o)
  PROVE  Refused(b, a, s, req_id, o)
<1>1. /\ Shape(a) /\ a.session \in [Sessions -> Statuses] /\ a.lost \in BOOLEAN
      /\ \A t \in Sessions :
           a.session[t].active => a.session[t].proc_id \in 1..(a.session[t].next_proc_id - 1)
  BY Zenon DEF Agent
<1>2. CASE a.session[s].active
  BY <1>2, ZenonT(60) DEF SpawnCommon, Spawns, Spared, Refused
<1>3. CASE ~a.session[s].active /\ how = "no_memory"
  <2> DEFINE l == TRUE
  <2>1. l \in BOOLEAN
    BY Zenon
  <2>2. /\ SpawnCommon(a, s, req_id, args, how, o) =
             Send([a EXCEPT !.lost = l], s, "ERROR", req_id, o)
        /\ ~Spawns(a, s, how)
    BY <1>3, Zenon DEF SpawnCommon, Spawns
  <2> HIDE DEF l
  <2> DEFINE x == State(a.session, a.active_session, a.relays, a.next_relay_id,
                        a.did, a.args, a.sent, l)
  <2>3. [a EXCEPT !.lost = l] = x
    BY <1>1, SetLost, ZenonT(60)
  <2>4. Agent(x)
    BY <1>1, <2>1, AgentWith, ZenonT(60)
  <2>5. x.active_session = a.active_session /\ x.sent = a.sent /\ x.did = {}
    BY Zenon DEF State
  <2> HIDE DEF x
  <2>6. SpawnCommon(a, s, req_id, args, how, o) = Send(x, s, "ERROR", req_id, o)
    BY <2>2, <2>3, ZenonT(60)
  <2>7. QED
    BY <2>2, <2>4, <2>5, <2>6, ZenonT(60) DEF Spared, Refused
<1>4. CASE ~a.session[s].active /\ how = "fails"
  <2> DEFINE z == [a.session EXCEPT ![s].next_proc_id = @ + 1]
  <2>1. /\ SpawnCommon(a, s, req_id, args, how, o) =
             Send([a EXCEPT !.session[s].next_proc_id = @ + 1], s, "ERROR", req_id, o)
        /\ ~Spawns(a, s, how)
    BY <1>4, Zenon DEF SpawnCommon, Spawns
  <2> DEFINE x == State(z, a.active_session, a.relays, a.next_relay_id,
                        a.did, a.args, a.sent, a.lost)
  <2>2. [a EXCEPT !.session[s].next_proc_id = @ + 1] = x
    BY <1>1, SetCounted, ZenonT(60)
  <2>3. /\ z \in [Sessions -> Statuses] /\ z[s].active = a.session[s].active
        /\ \A t \in Sessions : t # s => z[t] = a.session[t]
    BY <1>1, StatusCounted, ZenonT(60)
  <2> HIDE DEF z
  <2>4. \A t \in Sessions : z[t].active => z[t].proc_id \in 1..(z[t].next_proc_id - 1)
    BY <1>1, <1>4, <2>3, ZenonT(60)
  <2>5. Agent(x)
    BY <1>1, <2>3, <2>4, AgentWith, ZenonT(30)
  <2>6. x.active_session = a.active_session /\ x.sent = a.sent /\ x.did = {}
    BY Zenon DEF State
  <2> HIDE DEF x
  <2>7. SpawnCommon(a, s, req_id, args, how, o) = Send(x, s, "ERROR", req_id, o)
    BY <2>1, <2>2, ZenonT(60)
  <2>8. QED
    BY <2>1, <2>5, <2>6, <2>7, ZenonT(60) DEF Spared, Refused
<1>5. QED
  BY <1>2, <1>3, <1>4, ZenonT(30) DEF SpawnResults, Spawns

\* A request that starts no child leaves no arguments to speak of.
LEMMA NotSpawned ==
  ASSUME NEW a, NEW r, NEW kind, NEW n, kind # "spawned", a.did \subseteq {<<kind, n>>}
  PROVE  ArgsFrom(a, r)
<1>1. <<kind, n>>[1] = kind
  OBVIOUS
<1>2. QED
  BY <1>1, ZenonT(60) DEF ArgsFrom

\* Before a request is handled nothing has been sent or done.
LEMMA IdleIs ==
  ASSUME NEW a, NEW s, NEW r, Idle(a)
  PROVE  a.sent \in Heads(s, r) /\ a.did = {} /\ ArgsFrom(a, r)
BY Zenon DEF Idle, Heads, ArgsFrom

\* Running out of memory changes nothing else.
LEMMA LostIs ==
  ASSUME NEW a, Agent(a), NEW l \in BOOLEAN, NEW b, b = [a EXCEPT !.lost = l]
  PROVE  /\ Agent(b) /\ b.active_session = a.active_session /\ b.sent = a.sent
         /\ b.did = a.did /\ b.session = a.session
<1>1. /\ Shape(a) /\ a.session \in [Sessions -> Statuses]
      /\ \A t \in Sessions :
           a.session[t].active => a.session[t].proc_id \in 1..(a.session[t].next_proc_id - 1)
  BY Zenon DEF Agent
<1> DEFINE c == State(a.session, a.active_session, a.relays, a.next_relay_id,
                      a.did, a.args, a.sent, l)
<1>2. b = c
  BY <1>1, SetLost, ZenonT(60)
<1>3. Agent(c)
  BY <1>1, AgentWith, ZenonT(60)
<1>4. /\ c.active_session = a.active_session /\ c.sent = a.sent /\ c.did = a.did
      /\ c.session = a.session
  BY Zenon DEF State
<1> HIDE DEF c
<1>5. QED
  BY <1>2, <1>3, <1>4, ZenonT(60)

\* The agent b is a with another active session.
Activated(b, a, v) ==
  /\ Agent(b) /\ b.active_session = v /\ b.session = a.session
  /\ b.relays = a.relays /\ b.next_relay_id = a.next_relay_id
  /\ b.sent = a.sent /\ b.lost = a.lost /\ b.did = a.did /\ b.args = a.args

\* Setting active_session changes nothing else.
LEMMA ActiveIs ==
  ASSUME NEW a, Agent(a), NEW v, NEW b, b = [a EXCEPT !.active_session = v]
  PROVE  Activated(b, a, v)
<1>1. /\ Shape(a) /\ a.session \in [Sessions -> Statuses] /\ a.lost \in BOOLEAN
      /\ \A t \in Sessions :
           a.session[t].active => a.session[t].proc_id \in 1..(a.session[t].next_proc_id - 1)
  BY Zenon DEF Agent
<1> DEFINE c == State(a.session, v, a.relays, a.next_relay_id, a.did, a.args, a.sent, a.lost)
<1>2. b = c
  BY <1>1, SetActive, ZenonT(60)
<1>3. Agent(c)
  BY <1>1, AgentWith, ZenonT(60)
<1>4. /\ c.active_session = v /\ c.session = a.session
      /\ c.relays = a.relays /\ c.next_relay_id = a.next_relay_id
      /\ c.sent = a.sent /\ c.lost = a.lost /\ c.did = a.did /\ c.args = a.args
  BY Zenon DEF State
<1> HIDE DEF c
<1>5. QED
  BY <1>2, <1>3, <1>4, ZenonT(60) DEF Activated

\* A payload cannot be copied: memory has run out, and an ERROR answers.
LEMMA CopyFailsCompletes ==
  ASSUME NEW a, Agent(a), a.active_session = NoSession, Idle(a), NEW s \in Sessions, NEW r,
         NEW o \in Outcomes
  PROVE  Completed(Send([a EXCEPT !.lost = TRUE], s, "ERROR", 1, o), s, r)
<1> DEFINE l == TRUE
           b == [a EXCEPT !.lost = l]
<1>1. l \in BOOLEAN /\ b = [a EXCEPT !.lost = l] /\ l = TRUE
  BY Zenon
<1> HIDE DEF l, b
<1>2. /\ Agent(b) /\ b.active_session = NoSession /\ b.sent = a.sent /\ b.did = a.did
  BY <1>1, LostIs, ZenonT(60)
<1>3. b.sent \in Heads(s, r) /\ b.did = {} /\ ArgsFrom(b, r)
  BY <1>2, IdleIs, ZenonT(60) DEF ArgsFrom
<1>4. "ERROR" \in Types /\ Tells(b, s, r, "ERROR")
  BY <1>3, ErrorTells, ZenonT(60) DEF Types
<1>5. Completed(Send(b, s, "ERROR", 1, o), s, r)
  BY <1>2, <1>3, <1>4, HandledBySend, ZenonT(60)
<1>6. QED
  BY <1>1, <1>5, ZenonT(60)

\* HELLO, PING and the types no handler knows are completed.
LEMMA TextCompletes ==
  ASSUME NEW a, Agent(a), a.active_session = NoSession, Idle(a), NEW s \in Sessions,
         NEW r \in Requests, NEW o \in Outcomes, r.type \in {"HELLO", "PING", "other"}
  PROVE  Completed(HandleText(a, s, r, o), s, r)
<1>1. r.name = "none"
  BY RequestIs, Zenon
<1>2. PICK type \in Types : HandleText(a, s, r, o) = Send(a, s, type, 1, o)
  BY Zenon DEF HandleText, Types
<1>3. a.sent \in Heads(s, r) /\ a.did = {} /\ ArgsFrom(a, r)
  BY IdleIs, Zenon
<1>4. Tells(a, s, r, type)
  BY <1>1, <1>3, ZenonT(60) DEF Tells
<1>5. QED
  BY <1>2, <1>3, <1>4, HandledBySend, ZenonT(60)

\* PROC_SPAWN is completed.
LEMMA SpawnCompletes ==
  ASSUME NEW a, Agent(a), a.active_session = NoSession, Idle(a), NEW s \in Sessions,
         NEW r \in Requests, NEW how \in SpawnResults, NEW o \in Outcomes, r.type = "PROC_SPAWN"
  PROVE  Completed(HandleSpawn(a, s, r, how, o), s, r)
<1> DEFINE b == SpawnCommon(a, s, 1, BuildArgs(r.argv, r.path), how, o)
<1>1. b = SpawnCommon(a, s, 1, BuildArgs(r.argv, r.path), how, o)
  BY Zenon
<1> HIDE DEF b
<1>2. r.name = "none" /\ "ERROR" \in Types /\ "ACK" \in Types
  BY RequestIs, Zenon DEF Types
<1>3. a.sent \in Heads(s, r) /\ a.did = {} /\ ArgsFrom(a, r)
  BY IdleIs, ZenonT(60)
<1>4. CASE r.path \in {"none", "long"}
  <2>1. HandleSpawn(a, s, r, how, o) = Send(a, s, "ERROR", 1, o)
    BY <1>4, ZenonT(60) DEF HandleSpawn
  <2>2. QED
    BY <1>2, <1>3, <2>1, ErrorTells, HandledBySend, ZenonT(60)
<1>5. CASE r.path \notin {"none", "long"} /\ ~Spawns(a, s, how)
  <2>1. HandleSpawn(a, s, r, how, o) = b
    BY <1>5, <1>1, ZenonT(60) DEF HandleSpawn
  <2>2. \E x : Spared(x, a) /\ b = Send(x, s, "ERROR", 1, o)
    <3> DEFINE id == 1
    <3>1. b = SpawnCommon(a, s, id, BuildArgs(r.argv, r.path), how, o)
      BY <1>1, ZenonT(60)
    <3> HIDE DEF id
    <3>2. Refused(b, a, s, id, o)
      BY <1>3, <1>5, <3>1, SpawnFails, ZenonT(60)
    <3>3. QED
      BY <3>2, Zenon DEF id, Refused
  <2>3. ASSUME NEW x, Spared(x, a), b = Send(x, s, "ERROR", 1, o)
        PROVE  Completed(b, s, r)
    <3>1. x.sent \in Heads(s, r) /\ Tells(x, s, r, "ERROR") /\ ArgsFrom(x, r)
      BY <1>3, <2>3, ErrorTells, ZenonT(60) DEF ArgsFrom, Spared
    <3>2. QED
      BY <1>2, <2>3, <3>1, HandledBySend, ZenonT(60) DEF Spared
  <2>4. QED
    BY <2>1, <2>2, <2>3, ZenonT(60)
<1>6. CASE r.path \notin {"none", "long"} /\ Spawns(a, s, how)
  <2> DEFINE type == IF r.path = "mid" THEN "ERROR" ELSE "ACK"
  <2>1. HandleSpawn(a, s, r, how, o) = Send(b, s, type, 1, o)
    BY <1>6, <1>1, ZenonT(60) DEF HandleSpawn
  <2>2. /\ Agent(b) /\ b.active_session = NoSession /\ b.sent = a.sent
        /\ b.args = BuildArgs(r.argv, r.path)
        /\ b.session[s].active /\ b.did = {<<"spawned", b.session[s].proc_id>>}
    <3>1. Spawned(b, a, s, BuildArgs(r.argv, r.path))
      BY <1>3, <1>6, <1>1, SpawnRuns, ZenonT(60)
    <3>2. QED
      BY <3>1, ZenonT(30) DEF Spawned
  <2>3. type \in Types
    BY <1>2, Zenon
  <2>4. Tells(b, s, r, type)
    BY <1>2, <2>2, ZenonT(60) DEF Tells
  <2> HIDE DEF type
  <2>5. b.sent \in Heads(s, r) /\ ArgsFrom(b, r)
    BY <1>3, <2>2, ZenonT(60) DEF ArgsFrom
  <2>6. QED
    BY <2>1, <2>2, <2>3, <2>4, <2>5, HandledBySend, ZenonT(60)
<1>7. QED
  BY <1>4, <1>5, <1>6, ZenonT(60)

\* KILL is completed.
LEMMA KillCompletes ==
  ASSUME NEW a, Agent(a), a.active_session = NoSession, Idle(a), NEW s \in Sessions,
         NEW r \in Requests, NEW ok \in BOOLEAN, NEW o \in Outcomes, r.type = "KILL"
  PROVE  Completed(HandleKill(a, s, r, ok, o), s, r)
<1>1. r.name = "none" /\ "ERROR" \in Types /\ "ACK" \in Types
  BY RequestIs, Zenon DEF Types
<1>2. a.sent \in Heads(s, r) /\ a.did = {} /\ ArgsFrom(a, r)
  BY IdleIs, Zenon
<1>3. CASE Kills(a, s, r.arg)
  <2> DEFINE kind == IF ok THEN "killed" ELSE "marked"
             type == IF ok THEN "ACK" ELSE "ERROR"
             d == a.did \cup {<<kind, a.session[s].proc_id>>}
             b == State(a.session, a.active_session, a.relays, a.next_relay_id,
                        d, a.args, a.sent, a.lost)
  <2>1. HandleKill(a, s, r, ok, o) = Send([a EXCEPT !.did = d], s, type, 1, o)
    BY <1>3, Zenon DEF HandleKill
  <2>11. kind # "spawned" /\ type \in Types
    BY <1>1, Zenon
  <2>12. (ok => kind = "killed" /\ type = "ACK") /\ (~ok => kind = "marked" /\ type = "ERROR")
    BY Zenon
  <2> HIDE DEF kind, type
  <2>2. d = {<<kind, U32(r.arg)>>}
    BY <1>2, <1>3, ZenonT(60) DEF Kills
  <2> HIDE DEF d
  <2>3. /\ Shape(a) /\ a.session \in [Sessions -> Statuses] /\ a.lost \in BOOLEAN
        /\ \A t \in Sessions :
             a.session[t].active => a.session[t].proc_id \in 1..(a.session[t].next_proc_id - 1)
    BY Zenon DEF Agent
  <2>4. [a EXCEPT !.did = d] = b
    BY <2>3, SetDid, ZenonT(60)
  <2>5. Agent(b)
    BY <2>3, AgentWith, ZenonT(30)
  <2>6. b.active_session = NoSession /\ b.sent = a.sent /\ b.did = d
    BY Zenon DEF State
  <2> HIDE DEF b
  <2>7. HandleKill(a, s, r, ok, o) = Send(b, s, type, 1, o)
    BY <2>1, <2>4, ZenonT(60)
  <2>8. b.sent \in Heads(s, r) /\ ArgsFrom(b, r)
    <3>1. b.did \subseteq {<<kind, U32(r.arg)>>}
      BY <2>2, <2>6, ZenonT(60)
    <3>2. QED
      BY <1>2, <2>6, <2>11, <3>1, NotSpawned, ZenonT(60)
  <2>9. Tells(b, s, r, type)
    <3>1. CASE ok
      BY <1>1, <2>2, <2>6, <2>12, <3>1, ZenonT(60) DEF Tells
    <3>2. CASE ~ok
      BY <2>2, <2>6, <2>12, <3>2, ZenonT(60) DEF Tells
    <3>3. QED
      BY <3>1, <3>2, Zenon
  <2>10. QED
    BY <2>5, <2>6, <2>7, <2>8, <2>9, <2>11, HandledBySend, ZenonT(60)
<1>4. CASE ~Kills(a, s, r.arg)
  <2>1. HandleKill(a, s, r, ok, o) = Send(a, s, "ERROR", 1, o)
    BY <1>4, ZenonT(60) DEF HandleKill
  <2>2. QED
    BY <1>1, <1>2, <2>1, ErrorTells, HandledBySend, ZenonT(60)
<1>5. QED
  BY <1>3, <1>4, ZenonT(60)

\* An agent with other relays
LEMMA AgentRelays ==
  ASSUME NEW a, Agent(a), NEW n \in Nat \ {0},
         NEW R \in SUBSET [id : 1..(n - 1), owner : Sessions, target : Ports], NEW v, NEW did, NEW args, NEW out,
         NEW l \in BOOLEAN
  PROVE  Agent(State(a.session, v, R, n, did, args, out, l))
<1> DEFINE b == State(a.session, v, R, n, did, args, out, l)
<1>1. /\ Shape(b) /\ b.session = a.session /\ b.relays = R /\ b.next_relay_id = n /\ b.lost = l
  BY Zenon DEF State, Shape
<1> HIDE DEF b
<1>2. Agent(b)
  BY <1>1, ZenonT(60) DEF Agent
<1>3. QED
  BY <1>2, ZenonT(60) DEF b

\* A relay id has been given out.
LEMMA SetNext ==
  ASSUME NEW a, Shape(a), NEW v
  PROVE  [a EXCEPT !.next_relay_id = v] =
           State(a.session, a.active_session, a.relays, v, a.did, a.args, a.sent, a.lost)
BY DEF State, Shape

\* A relay has been added or removed.
LEMMA SetRelays ==
  ASSUME NEW a, Shape(a), NEW v
  PROVE  [a EXCEPT !.relays = v] =
           State(a.session, a.active_session, v, a.next_relay_id, a.did, a.args, a.sent, a.lost)
BY DEF State, Shape

\* A relay has been added or removed, and this is what was done.
LEMMA SetRelaysDid ==
  ASSUME NEW a, Shape(a), NEW v, NEW w
  PROVE  [a EXCEPT !.relays = v, !.did = w] =
           State(a.session, a.active_session, v, a.next_relay_id, w, a.args, a.sent, a.lost)
<1>1. [a EXCEPT !.relays = v] =
        State(a.session, a.active_session, v, a.next_relay_id, a.did, a.args, a.sent, a.lost)
  BY DEF State, Shape
<1>2. [State(a.session, a.active_session, v, a.next_relay_id, a.did, a.args, a.sent, a.lost)
         EXCEPT !.did = w] =
        State(a.session, a.active_session, v, a.next_relay_id, w, a.args, a.sent, a.lost)
  BY DEF State
<1>3. QED
  BY <1>1, <1>2, ZenonT(60)

\* The agent c has closed the relay with the id n, if there is one.
PortClosed(c, a, n) ==
  /\ Agent(c) /\ c.active_session = a.active_session /\ c.sent = a.sent
  /\ c.did = {<<"closed", x.id>> : x \in {y \in a.relays : y.id = n}}

\* port_close removes the relay it names, if there is one.
LEMMA PortCloseIs ==
  ASSUME NEW a, Agent(a), a.did = {}, NEW r, NEW c, c = PortClose(a, r)
  PROVE  PortClosed(c, a, U32(r.arg))
<1> DEFINE R == {x \in a.relays : x.id # U32(r.arg)}
           d == a.did \cup {<<"closed", x.id>> : x \in {y \in a.relays : y.id = U32(r.arg)}}
           b == State(a.session, a.active_session, R, a.next_relay_id, d, a.args, a.sent, a.lost)
<1>1. Shape(a) /\ a.next_relay_id \in Nat \ {0} /\ a.lost \in BOOLEAN
      /\ R \in SUBSET [id : 1..(a.next_relay_id - 1), owner : Sessions, target : Ports]
  BY Zenon DEF Agent
<1>2. PortClose(a, r) = b
  BY <1>1, SetRelaysDid, ZenonT(60) DEF PortClose
<1>3. d = {<<"closed", x.id>> : x \in {y \in a.relays : y.id = U32(r.arg)}}
  BY Zenon
<1> HIDE DEF R, d
<1>4. Agent(b)
  BY <1>1, AgentRelays, ZenonT(30)
<1>5. b.active_session = a.active_session /\ b.sent = a.sent /\ b.did = d
  BY Zenon DEF State
<1> HIDE DEF b
<1>6. QED
  BY <1>2, <1>3, <1>4, <1>5, ZenonT(60) DEF PortClosed

\* The agent c has opened a relay of the session s, or has not.
PortOpened(c, a, s, r, opens) ==
  /\ Agent(c) /\ c.active_session = a.active_session /\ c.sent = a.sent
  /\ ~opens => c.did = {}
  /\ opens => /\ c.did = {<<"opened", c.next_relay_id - 1>>}
              /\ [id |-> c.next_relay_id - 1, owner |-> s, target |-> U16(r.arg)] \in c.relays

\* port_open adds a relay of the session, or fails.
LEMMA PortOpenIs ==
  ASSUME NEW a, Agent(a), a.did = {}, NEW s \in Sessions, NEW r, U16(r.arg) \in Ports, NEW ok \in BOOLEAN,
         NEW c, c = PortOpen(a, s, r, ok)
  PROVE  PortOpened(c, a, s, r, r.arg # 0 /\ ok)
<1> DEFINE n == a.next_relay_id
           x == State(a.session, a.active_session, a.relays, n + 1, a.did, a.args, a.sent, a.lost)
<1>1. /\ Shape(a) /\ n \in Nat \ {0} /\ a.lost \in BOOLEAN
      /\ a.relays \in SUBSET [id : 1..(n - 1), owner : Sessions, target : Ports]
  BY Zenon DEF Agent
<1>2. [a EXCEPT !.next_relay_id = n + 1] = x
  BY <1>1, SetNext, ZenonT(60)
<1>3. CASE r.arg = 0
  <2>1. c = a
    BY <1>3, ZenonT(60) DEF PortOpen
  <2>2. QED
    BY <1>3, <2>1, ZenonT(60) DEF PortOpened
<1>4. n + 1 \in Nat \ {0} /\ a.relays \in SUBSET [id : 1..((n + 1) - 1), owner : Sessions, target : Ports]
  BY <1>1, SMTT(30)
<1>5. CASE r.arg # 0 /\ ~ok
  <2>1. c = x
    BY <1>2, <1>5, ZenonT(60) DEF PortOpen
  <2>2. Agent(x)
    BY <1>1, <1>4, AgentRelays, ZenonT(30)
  <2>3. x.active_session = a.active_session /\ x.sent = a.sent /\ x.did = a.did
    BY Zenon DEF State
  <2> HIDE DEF x
  <2>4. QED
    BY <1>5, <2>1, <2>2, <2>3, ZenonT(60) DEF PortOpened
<1>6. CASE r.arg # 0 /\ ok
  <2> DEFINE new == [id |-> n, owner |-> s, target |-> U16(r.arg)]
             R == a.relays \cup {new}
             d == a.did \cup {<<"opened", n>>}
             y == State(a.session, a.active_session, R, n + 1, d, a.args, a.sent, a.lost)
  <2>1. /\ Shape(x) /\ x.session = a.session /\ x.active_session = a.active_session
        /\ x.relays = a.relays /\ x.next_relay_id = n + 1 /\ x.did = a.did /\ x.args = a.args
        /\ x.sent = a.sent /\ x.lost = a.lost
    BY Zenon DEF State, Shape
  <2>2. c = [x EXCEPT !.relays = @ \cup {new}, !.did = @ \cup {<<"opened", n>>}]
    BY <1>2, <1>6, ZenonT(60) DEF PortOpen
  <2> HIDE DEF x
  <2>3. [x EXCEPT !.relays = @ \cup {new}, !.did = @ \cup {<<"opened", n>>}] =
          [x EXCEPT !.relays = R, !.did = d]
    BY <2>1, ZenonT(60)
  <2>4. [x EXCEPT !.relays = R, !.did = d] = y
    <3> HIDE DEF R, d, n
    <3>1. [x EXCEPT !.relays = R, !.did = d] =
            State(x.session, x.active_session, R, x.next_relay_id, d, x.args, x.sent, x.lost)
      BY <2>1, SetRelaysDid, ZenonT(120)
    <3>2. QED
      BY <2>1, <3>1, ZenonT(60)
  <2>5. new \in R /\ R \in SUBSET [id : 1..((n + 1) - 1), owner : Sessions, target : Ports] /\ (n + 1) - 1 = n
    BY <1>1, <1>4, SMTT(30)
  <2>6. d = {<<"opened", n>>}
    BY Zenon
  <2> HIDE DEF R, d
  <2>7. Agent(y)
    BY <1>1, <1>4, <2>5, AgentRelays, ZenonT(30)
  <2>8. /\ y.active_session = a.active_session /\ y.sent = a.sent /\ y.did = d
        /\ y.relays = R /\ y.next_relay_id = n + 1
    BY Zenon DEF State
  <2> HIDE DEF y, n
  <2>9. c = y
    BY <2>2, <2>3, <2>4, ZenonT(60)
  <2>10. QED
    BY <1>6, <2>5, <2>6, <2>7, <2>8, <2>9, ZenonT(30) DEF PortOpened
<1>7. QED
  BY <1>3, <1>5, <1>6, ZenonT(30)

\* What a handler has done is what its result or its error tells.
Ran(c, b, s, r, returns) ==
  /\ Agent(c) /\ c.active_session = b.active_session
  /\ c.sent \in Heads(s, r) /\ ArgsFrom(c, r)
  /\ returns => Tells(c, s, r, "OP_RESULT")
  /\ ~returns => Tells(c, s, r, "ERROR")
  /\ r.name = "list" => c.did = {}

\* tool.run starts a child, or fails; then an ERROR may have been sent.
LEMMA ToolRunIs ==
  ASSUME NEW b, Agent(b), Idle(b), NEW s \in Sessions, NEW r \in Requests,
         r.type = "OP", r.name = "tool.run", NEW how \in SpawnResults, NEW o \in Outcomes,
         NEW c, c = ToolRun(b, s, r, how, o)
  PROVE  Ran(c, b, s, r, r.path # "none" /\ Spawns(b, s, how))
<1>1. b.sent \in Heads(s, r) /\ b.did = {} /\ ArgsFrom(b, r) /\ b.sent = <<>>
  BY IdleIs, ZenonT(60) DEF Idle
<1>2. CASE r.path = "none"
  <2>1. c = b
    BY <1>2, ZenonT(60) DEF ToolRun
  <2>2. QED
    BY <1>1, <1>2, <2>1, ErrorTells, ZenonT(60) DEF Ran
<1>3. CASE r.path # "none"
  <2> DEFINE id == 0
             args == CollectArgv(r.argv, r.path)
  <2>1. c = SpawnCommon(b, s, id, args, how, o)
    BY <1>3, ZenonT(30) DEF ToolRun
  <2> HIDE DEF id, args
  <2>2. CASE Spawns(b, s, how)
    <3>1. Spawned(c, b, s, args)
      BY <1>1, <2>1, <2>2, SpawnRuns, ZenonT(60)
    <3>2. /\ Agent(c) /\ c.active_session = b.active_session
          /\ c.sent = b.sent /\ c.args = args
          /\ c.session[s].active /\ c.did = {<<"spawned", c.session[s].proc_id>>}
      BY <3>1, ZenonT(30) DEF Spawned
    <3>3. Tells(c, s, r, "OP_RESULT")
      BY <3>2, Zenon DEF Tells
    <3>4. ArgsFrom(c, r)
      BY <3>2, ZenonT(30) DEF ArgsFrom, args
    <3>5. QED
      BY <1>1, <1>3, <2>2, <3>2, <3>3, <3>4, ZenonT(60) DEF Ran
  <2>3. CASE ~Spawns(b, s, how)
    <3>1. Refused(c, b, s, id, o)
      BY <1>1, <2>1, <2>3, SpawnFails, ZenonT(60)
    <3> SUFFICES ASSUME NEW x, Spared(x, b), c = Send(x, s, "ERROR", id, o)
                 PROVE  Ran(c, b, s, r, r.path # "none" /\ Spawns(b, s, how))
      BY <3>1, ZenonT(60) DEF Refused
    <3>2. Agent(x) /\ x.active_session = b.active_session /\ x.sent = <<>> /\ x.did = {}
      BY <1>1, Zenon DEF Spared
    <3>3. SentBy(c, x, s, "ERROR", id, o)
      BY <3>2, SendIs, ZenonT(60)
    <3>5. /\ Agent(c) /\ c.active_session = x.active_session /\ c.did = x.did
          /\ Sends(x, s, o) => c.sent = Append(x.sent, Frame(s, "ERROR", id))
          /\ ~Sends(x, s, o) => c.sent = x.sent
      BY <3>3, ZenonT(60) DEF SentBy
    <3>6. c.sent \in Heads(s, r)
      <4> DEFINE f == Frame(s, "ERROR", id)
      <4>1. \A w : Append(<<>>, w) = <<w>>
        OBVIOUS
      <4>2. c.sent \in {<<>>, <<f>>}
        BY <3>2, <3>5, <4>1, ZenonT(30)
      <4>3. QED
        BY <4>2, ZenonT(60) DEF Heads, id
    <3>7. Tells(c, s, r, "ERROR")
      BY <3>2, <3>5, ErrorTells, ZenonT(60)
    <3>8. ArgsFrom(c, r)
      BY <3>2, <3>5, ZenonT(60) DEF ArgsFrom
    <3>9. QED
      BY <2>3, <3>2, <3>5, <3>6, <3>7, <3>8, ZenonT(30) DEF Ran
  <2>4. QED
    BY <2>2, <2>3, ZenonT(60)
<1>4. QED
  BY <1>2, <1>3, ZenonT(60)

\* Every handler of an operation has done what it returns.
LEMMA RunIs ==
  ASSUME NEW b, Agent(b), Idle(b), NEW s \in Sessions, NEW r \in Requests, r.type = "OP",
         NEW ok \in BOOLEAN, NEW how \in SpawnResults, NEW o \in Outcomes,
         NEW c, c = Run(b, s, r, ok, how, o)
  PROVE  Ran(c, b, s, r, Returns(b, s, r, ok, how))
<1>1. b.sent \in Heads(s, r) /\ b.did = {} /\ ArgsFrom(b, r)
  BY IdleIs, ZenonT(120)
<1>2. CASE r.name = "port_open"
  <2>1. c = PortOpen(b, s, r, ok) /\ (Returns(b, s, r, ok, how) <=> r.arg # 0 /\ ok)
    BY <1>2, ZenonT(120) DEF Run, Returns
  <2> DEFINE opens == r.arg # 0 /\ ok
             n == c.next_relay_id - 1
  <2>0. PortOpened(c, b, s, r, opens)
    BY <1>1, <2>1, PortOf, PortOpenIs, ZenonT(60)
  <2>2. /\ Agent(c) /\ c.active_session = b.active_session /\ c.sent = b.sent
        /\ ~opens => c.did = {}
        /\ opens => c.did = {<<"opened", n>>} /\ [id |-> n, owner |-> s, target |-> U16(r.arg)] \in c.relays
    <3> HIDE DEF opens
    <3>1. QED
      BY <2>0, Zenon DEF PortOpened
  <2>3. ArgsFrom(c, r)
    <3>1. c.did \subseteq {<<"opened", n>>} /\ "opened" # "spawned"
      BY <2>2, ZenonT(60)
    <3> HIDE DEF n
    <3>2. QED
      BY <3>1, NotSpawned, ZenonT(60)
  <2>4. r.arg # 0 /\ ok => Tells(c, s, r, "OP_RESULT")
    BY <1>2, <2>2, ZenonT(60) DEF Tells
  <2>5. ~(r.arg # 0 /\ ok) => Tells(c, s, r, "ERROR")
    BY <2>2, ErrorTells, ZenonT(30)
  <2>6. QED
    BY <1>1, <1>2, <2>1, <2>2, <2>3, <2>4, <2>5, ZenonT(30) DEF Ran
<1>3. CASE r.name = "port_close"
  <2>1. c = PortClose(b, r) /\ (Returns(b, s, r, ok, how) <=> \E x \in b.relays : x.id = U32(r.arg))
    BY <1>3, ZenonT(60) DEF Run, Returns
  <2>0. PortClosed(c, b, U32(r.arg))
    BY <1>1, <2>1, PortCloseIs, ZenonT(60)
  <2>2. /\ Agent(c) /\ c.active_session = b.active_session /\ c.sent = b.sent
        /\ c.did = {<<"closed", x.id>> : x \in {y \in b.relays : y.id = U32(r.arg)}}
    BY <2>0, Zenon DEF PortClosed
  <2>3. ArgsFrom(c, r)
    <3>1. c.did \subseteq {<<"closed", U32(r.arg)>>} /\ "closed" # "spawned"
      BY <2>2, Zenon
    <3>2. QED
      BY <3>1, NotSpawned, ZenonT(60)
  <2>4. (\E x \in b.relays : x.id = U32(r.arg)) => c.did = {<<"closed", U32(r.arg)>>}
    BY <2>2, ZenonT(60)
  <2>5. ~(\E x \in b.relays : x.id = U32(r.arg)) => c.did = {}
    BY <2>2, Zenon
  <2>6. (\E x \in b.relays : x.id = U32(r.arg)) => Tells(c, s, r, "OP_RESULT")
    BY <1>3, <2>4, ZenonT(60) DEF Tells
  <2>7. ~(\E x \in b.relays : x.id = U32(r.arg)) => Tells(c, s, r, "ERROR")
    BY <2>5, ErrorTells, ZenonT(60)
  <2>8. QED
    BY <1>1, <1>3, <2>1, <2>2, <2>3, <2>6, <2>7, ZenonT(60) DEF Ran
<1>4. CASE r.name = "tool.run"
  <2>1. c = ToolRun(b, s, r, how, o)
    BY <1>4, ZenonT(60) DEF Run
  <2>2. Returns(b, s, r, ok, how) <=> r.path # "none" /\ Spawns(b, s, how)
    BY <1>4, ZenonT(60) DEF Returns
  <2>3. Ran(c, b, s, r, r.path # "none" /\ Spawns(b, s, how))
    BY <1>4, <2>1, ToolRunIs, ZenonT(60)
  <2>4. QED
    BY <2>2, <2>3, ZenonT(60) DEF Ran
<1>5. CASE r.name \in {"debug", "port_list", "unknown", "list"}
  <2>1. c = b
    BY <1>5, ZenonT(60) DEF Run
  <2>2. Tells(c, s, r, "OP_RESULT") /\ Tells(c, s, r, "ERROR")
    BY <1>1, <1>5, <2>1, ZenonT(60) DEF Tells
  <2>3. QED
    BY <1>1, <2>1, <2>2, ZenonT(60) DEF Ran
<1>6. QED
  BY <1>2, <1>3, <1>4, <1>5, RequestIs, ZenonT(60)

\* OP is completed, and active_session is reset on every path.
LEMMA OpCompletes ==
  ASSUME NEW a, Agent(a), a.active_session = NoSession, Idle(a), NEW s \in Sessions,
         NEW r \in Requests, NEW ok \in BOOLEAN, NEW how \in SpawnResults, NEW o \in Sends3,
         r.type = "OP"
  PROVE  Completed(HandleOp(a, s, r, ok, how, o), s, r)
<1>1. o[1] \in Outcomes /\ o[2] \in Outcomes /\ o[3] \in Outcomes
  BY DEF Sends3
<1> DEFINE b == [a EXCEPT !.active_session = s]
<1>2. b = [a EXCEPT !.active_session = s]
  BY Zenon
<1> HIDE DEF b
<1>3. Agent(b) /\ b.active_session = s /\ Idle(b)
  <2>1. Activated(b, a, s)
    BY <1>2, ActiveIs, ZenonT(60)
  <2>2. QED
    BY <2>1, ZenonT(60) DEF Idle, Activated
<1> DEFINE c == Run(b, s, r, ok, how, o[1])
<1>4. c = Run(b, s, r, ok, how, o[1])
  BY Zenon
<1> HIDE DEF c
<1> DEFINE returns == Returns(b, s, r, ok, how)
           type == IF returns THEN "OP_RESULT" ELSE "ERROR"
<1>5. Ran(c, b, s, r, returns)
  BY <1>1, <1>3, <1>4, RunIs, ZenonT(60)
<1> HIDE DEF returns
<1>6. /\ Agent(c) /\ c.active_session = s /\ c.sent \in Heads(s, r) /\ ArgsFrom(c, r)
      /\ Tells(c, s, r, type) /\ (r.name = "list" => c.did = {})
  BY <1>3, <1>5, ZenonT(60) DEF Ran
<1>7. type \in Types /\ "ERROR" \in Types
  BY Zenon DEF Types
<1>8. HandleOp(a, s, r, ok, how, o) =
        LET d == IF TooLong(r, returns) THEN c ELSE Send(c, s, type, 1, o[2])
        IN  IF Sends(c, s, o[2]) /\ ~TooLong(r, returns)
            THEN [d EXCEPT !.active_session = NoSession]
            ELSE Fallback(Failed(d), s, o[3])
  <2> DEFINE After(x) ==
        LET y == Run(x, x.active_session, r, ok, how, o[1])
            result == Returns(x, x.active_session, r, ok, how)
            d == IF TooLong(r, result) THEN y
                 ELSE Send(y, y.active_session, IF result THEN "OP_RESULT" ELSE "ERROR", 1, o[2])
        IN  IF Sends(y, s, o[2]) /\ ~TooLong(r, result)
            THEN [d EXCEPT !.active_session = NoSession]
            ELSE Fallback(Failed(d), s, o[3])
  <2>1. HandleOp(a, s, r, ok, how, o) = After([a EXCEPT !.active_session = s])
    BY Zenon DEF HandleOp
  <2>2. After([a EXCEPT !.active_session = s]) = After(b)
    <3> HIDE DEF After
    <3>1. QED
      BY <1>2, ZenonT(60)
  <2>3. /\ b.active_session = s /\ c.active_session = s
        /\ Run(b, b.active_session, r, ok, how, o[1]) = c
        /\ Returns(b, b.active_session, r, ok, how) = returns
    BY <1>3, <1>4, <1>6, ZenonT(60) DEF returns
  <2>4. QED
    BY <2>1, <2>2, <2>3, ZenonT(60)
<1> HIDE DEF type
<1>9. CASE Sends(c, s, o[2]) /\ ~TooLong(r, returns)
  <2> DEFINE d == Send(c, s, type, 1, o[2])
  <2>1. d = Send(c, s, type, 1, o[2])
    BY Zenon
  <2> HIDE DEF d
  <2> DEFINE e == [d EXCEPT !.active_session = NoSession]
  <2>2. e = [d EXCEPT !.active_session = NoSession]
    BY Zenon
  <2> HIDE DEF e
  <2>3. HandleOp(a, s, r, ok, how, o) = e
    BY <1>8, <1>9, <2>1, <2>2, ZenonT(30)
  <2>4. Agent(d) /\ d.did = c.did /\ d.args = c.args
    <3>1. SentBy(d, c, s, type, 1, o[2])
      BY <1>1, <1>6, <2>1, SendIs, ZenonT(60)
    <3>2. QED
      BY <3>1, ZenonT(60) DEF SentBy
  <2>5. Outcome(d, s, r)
    BY <1>1, <1>6, <1>7, <2>1, SendTells, ZenonT(60)
  <2>6. /\ Agent(e) /\ e.active_session = NoSession /\ e.session = d.session
        /\ e.relays = d.relays /\ e.next_relay_id = d.next_relay_id
        /\ e.sent = d.sent /\ e.lost = d.lost /\ e.did = d.did /\ e.args = d.args
    <3>1. Activated(e, d, NoSession)
      BY <2>2, <2>4, ActiveIs, ZenonT(60)
    <3>2. QED
      BY <3>1, ZenonT(60) DEF Activated
  <2>7. Outcome(e, s, r)
    BY <2>5, <2>6, ZenonT(120) DEF Outcome, Tells
  <2>8. ArgsFrom(e, r)
    BY <1>6, <2>4, <2>6, Zenon DEF ArgsFrom
  <2>9. QED
    BY <2>3, <2>6, <2>7, <2>8, ZenonT(60) DEF Completed
<1>10. CASE ~(Sends(c, s, o[2]) /\ ~TooLong(r, returns))
  <2> DEFINE d == IF TooLong(r, returns) THEN c ELSE Send(c, s, type, 1, o[2])
  <2>1. d = IF TooLong(r, returns) THEN c ELSE Send(c, s, type, 1, o[2])
    BY ZenonT(60)
  <2> HIDE DEF d
  <2> DEFINE e == [d EXCEPT !.active_session = NoSession]
  <2>2. e = [d EXCEPT !.active_session = NoSession]
    BY Zenon
  <2> HIDE DEF e
  <2>3. HandleOp(a, s, r, ok, how, o) = Send(e, s, "ERROR", 1, o[3])
    BY <1>8, <1>10, <2>1, <2>2, ZenonT(60) DEF Fallback, Failed
  <2>4. /\ Agent(d) /\ d.did = c.did /\ d.args = c.args /\ d.sent = c.sent
        /\ d.did = {} \/ d.session[s].closed \/ d.lost
    <3>1. CASE TooLong(r, returns)
      BY <1>6, <2>1, <3>1, ZenonT(30) DEF TooLong
    <3>2. CASE ~TooLong(r, returns)
      <4>1. d = Send(c, s, type, 1, o[2]) /\ ~Sends(c, s, o[2])
        BY <1>10, <2>1, <3>2, ZenonT(60)
      <4>2. SentBy(d, c, s, type, 1, o[2])
        BY <1>1, <1>6, <4>1, SendIs, ZenonT(60)
      <4>3. QED
        BY <4>1, <4>2, ZenonT(60) DEF SentBy
    <3>3. QED
      BY <3>1, <3>2, ZenonT(60)
  <2>5. /\ Agent(e) /\ e.active_session = NoSession /\ e.session = d.session
        /\ e.sent = d.sent /\ e.lost = d.lost /\ e.did = d.did /\ e.args = d.args
    <3>1. Activated(e, d, NoSession)
      BY <2>2, <2>4, ActiveIs, ZenonT(60)
    <3>2. QED
      BY <3>1, ZenonT(60) DEF Activated
  <2>6. e.sent \in Heads(s, r) /\ ArgsFrom(e, r)
    BY <1>6, <2>4, <2>5, ZenonT(60) DEF ArgsFrom
  <2>7. e.session[s].closed \/ Tells(e, s, r, "ERROR")
    BY <2>4, <2>5, ErrorTells, ZenonT(60)
  <2>8. QED
    BY <1>1, <1>7, <2>3, <2>5, <2>6, <2>7, HandledBySend, Zenon
<1>11. QED
  BY <1>9, <1>10, ZenonT(60)

\* Nothing has been sent or done at first.
LEMMA DispatchInitInv == DispatchInit => DispatchInv
<1> SUFFICES ASSUME DispatchInit PROVE DispatchInv
  BY Zenon
<1> DEFINE z == [s \in Sessions |-> NewSession]
           l == FALSE
<1>1. agent = State(z, NoSession, {}, 1, {}, <<>>, <<>>, l)
  BY ZenonT(60) DEF DispatchInit, State
<1>2. z \in [Sessions -> Statuses] /\ l \in BOOLEAN /\ \A s \in Sessions : ~z[s].active
  BY DEF NewSession, Statuses
<1>3. l = FALSE
  BY Zenon
<1> HIDE DEF z, l
<1>4. /\ Shape(agent) /\ agent.session = z /\ agent.active_session = NoSession
      /\ agent.relays = {} /\ agent.next_relay_id = 1 /\ agent.did = {} /\ agent.args = <<>>
      /\ agent.sent = <<>> /\ agent.lost = l
  BY <1>1, ZenonT(60) DEF State, Shape
<1>5. Agent(agent)
  BY <1>2, <1>4, SMTT(30) DEF Agent
<1>6. Idle(agent)
  BY <1>3, <1>4, ZenonT(60) DEF Idle
<1>7. QED
  BY <1>4, <1>5, <1>6, ZenonT(60) DEF DispatchInv, DispatchInit

\* A request is handled from a state in which nothing has been sent or done.
LEMMA HandleInv ==
  DispatchInv /\ Reading /\ HandleFrame => DispatchInv'
<1> SUFFICES ASSUME DispatchInv, Reading, HandleFrame PROVE DispatchInv'
  BY Zenon
<1>1. /\ Agent(agent) /\ agent.active_session = NoSession /\ Idle(agent) /\ reader \in Sessions
  BY Zenon DEF DispatchInv, Reading
<1>2. PICK r \in Requests :
        \/ \E o \in Outcomes :
             \/ CopyFails(r, o) \/ Greet(r, o)
             \/ \E how \in SpawnResults : Spawn(r, how, o)
             \/ \E ok \in BOOLEAN : Kill(r, ok, o)
        \/ \E ok \in BOOLEAN, how \in SpawnResults, o \in Sends3 : Op(r, ok, how, o)
  BY Zenon DEF HandleFrame
<1>3. request' = r /\ reader' = reader /\ Completed(agent', reader, r)
  <2>1. ASSUME NEW o \in Outcomes, CopyFails(r, o)
        PROVE  request' = r /\ reader' = reader /\ Completed(agent', reader, r)
    BY <1>1, <2>1, CopyFailsCompletes, ZenonT(60) DEF CopyFails, Handle
  <2>2. ASSUME NEW o \in Outcomes, Greet(r, o)
        PROVE  request' = r /\ reader' = reader /\ Completed(agent', reader, r)
    BY <1>1, <2>2, TextCompletes, ZenonT(60) DEF Greet, Handle
  <2>3. ASSUME NEW o \in Outcomes, NEW how \in SpawnResults, Spawn(r, how, o)
        PROVE  request' = r /\ reader' = reader /\ Completed(agent', reader, r)
    BY <1>1, <2>3, SpawnCompletes, ZenonT(60) DEF Spawn, Handle
  <2>4. ASSUME NEW o \in Outcomes, NEW ok \in BOOLEAN, Kill(r, ok, o)
        PROVE  request' = r /\ reader' = reader /\ Completed(agent', reader, r)
    BY <1>1, <2>4, KillCompletes, ZenonT(60) DEF Kill, Handle
  <2>5. ASSUME NEW o \in Sends3, NEW ok \in BOOLEAN, NEW how \in SpawnResults, Op(r, ok, how, o)
        PROVE  request' = r /\ reader' = reader /\ Completed(agent', reader, r)
    BY <1>1, <2>5, OpCompletes, ZenonT(60) DEF Op, Handle
  <2>6. QED
    BY <1>2, <2>1, <2>2, <2>3, <2>4, <2>5, ZenonT(60)
<1>4. r # NoRequest /\ reader # NoSession
  BY <1>1, NoRequestIs, DispatchConstants, ZenonT(60)
<1>5. Agent(agent') /\ agent'.active_session = NoSession
  BY <1>3, ZenonT(60) DEF Completed
<1>6. QED
  BY <1>1, <1>3, <1>4, <1>5, ZenonT(60) DEF DispatchInv

\* What ChildExits makes of the sessions, and of the agent
ExitOf(sessions, s) == [[sessions EXCEPT ![s].active = FALSE] EXCEPT ![s].proc_id = 0]

Exited(a, s) == [a EXCEPT !.session[s].active = FALSE, !.session[s].proc_id = 0]

\* The status of a session whose child has exited
LEMMA StatusExited ==
  ASSUME NEW z \in [Sessions -> Statuses], NEW s \in Sessions, NEW y, y = ExitOf(z, s)
  PROVE  /\ y \in [Sessions -> Statuses] /\ ~y[s].active
         /\ \A t \in Sessions : t # s => y[t] = z[t]
<1> DEFINE z1 == [z EXCEPT ![s].active = FALSE]
<1>1. y = [z1 EXCEPT ![s].proc_id = 0]
  BY Zenon DEF ExitOf
<1>2. /\ z1 \in [Sessions -> Statuses] /\ ~z1[s].active /\ \A t \in Sessions : t # s => z1[t] = z[t]
  BY ZenonT(30) DEF Statuses
<1> HIDE DEF z1
<1>3. QED
  BY <1>1, <1>2, SMTT(30) DEF Statuses

\* A child has exited.
LEMMA SetExited ==
  ASSUME NEW a, Shape(a), NEW s
  PROVE  Exited(a, s) =
           State(ExitOf(a.session, s), a.active_session, a.relays, a.next_relay_id,
                 a.did, a.args, a.sent, a.lost)
<1> DEFINE f == FALSE
           n == 0
           z == [a.session EXCEPT ![s].active = f]
           b == [a EXCEPT !.session[s].active = f]
<1>1. Exited(a, s) = [b EXCEPT !.session[s].proc_id = n]
  BY Zenon DEF Exited
<1>2. ExitOf(a.session, s) = [z EXCEPT ![s].proc_id = n]
  BY ZenonT(60) DEF ExitOf
<1> HIDE DEF f, n
<1>3. b = State(z, a.active_session, a.relays, a.next_relay_id, a.did, a.args, a.sent, a.lost)
  BY DEF State, Shape
<1> HIDE DEF z, b
<1>4. [b EXCEPT !.session[s].proc_id = n] =
        State([z EXCEPT ![s].proc_id = n], a.active_session,
              a.relays, a.next_relay_id, a.did, a.args, a.sent, a.lost)
  BY <1>3, SMTT(30) DEF State
<1>5. QED
  BY <1>1, <1>2, <1>4, ZenonT(60)

\* A session is closed.
LEMMA SetClosed ==
  ASSUME NEW a, Shape(a), NEW s
  PROVE  Close(a, s) =
           State([a.session EXCEPT ![s].closed = TRUE], a.active_session, a.relays,
                 a.next_relay_id, a.did, a.args, a.sent, a.lost)
<1> DEFINE v == TRUE
<1>1. Close(a, s) = [a EXCEPT !.session[s].closed = v]
  BY Zenon DEF Close
<1> HIDE DEF v
<1>2. [a EXCEPT !.session[s].closed = v] =
        State([a.session EXCEPT ![s].closed = v], a.active_session, a.relays,
              a.next_relay_id, a.did, a.args, a.sent, a.lost)
  BY DEF State, Shape
<1>3. QED
  BY <1>1, <1>2, ZenonT(60) DEF v

\* Between requests the agent stays idle.
Stays(b, a) ==
  /\ Agent(b) /\ b.active_session = a.active_session
  /\ b.sent = a.sent /\ b.lost = a.lost /\ b.did = a.did /\ b.args = a.args

\* The exit of a child keeps the invariant.
LEMMA ExitInv ==
  ASSUME NEW s \in Sessions, Agent(agent), ChildExits(s)
  PROVE  Stays(agent', agent)
<1> DEFINE z == ExitOf(agent.session, s)
           b == State(z, agent.active_session, agent.relays, agent.next_relay_id,
                      agent.did, agent.args, agent.sent, agent.lost)
<1>1. /\ Shape(agent) /\ agent.session \in [Sessions -> Statuses] /\ agent.lost \in BOOLEAN
      /\ \A t \in Sessions : agent.session[t].active =>
           agent.session[t].proc_id \in 1..(agent.session[t].next_proc_id - 1)
  BY Zenon DEF Agent
<1>2. agent' = Exited(agent, s)
  BY Zenon DEF ChildExits, Exited
<1>3. agent' = b
  BY <1>1, <1>2, SetExited, ZenonT(60)
<1>4. z = ExitOf(agent.session, s)
  BY ZenonT(60)
<1> HIDE DEF z
<1>5. /\ z \in [Sessions -> Statuses] /\ ~z[s].active
      /\ \A t \in Sessions : t # s => z[t] = agent.session[t]
  BY <1>1, <1>4, StatusExited, ZenonT(120)
<1>6. \A t \in Sessions : z[t].active => z[t].proc_id \in 1..(z[t].next_proc_id - 1)
  BY <1>1, <1>5, ZenonT(30)
<1>7. Agent(b)
  BY <1>1, <1>5, <1>6, AgentWith, ZenonT(60)
<1>8. /\ b.active_session = agent.active_session /\ b.sent = agent.sent /\ b.lost = agent.lost
      /\ b.did = agent.did /\ b.args = agent.args
  BY Zenon DEF State
<1> HIDE DEF b
<1>9. QED
  BY <1>3, <1>7, <1>8, ZenonT(30) DEF Stays

\* The closing of a session keeps the invariant.
LEMMA CloseInv ==
  ASSUME NEW s \in Sessions, Agent(agent), SessionCloses(s)
  PROVE  Stays(agent', agent)
<1> DEFINE z == [agent.session EXCEPT ![s].closed = TRUE]
           b == State(z, agent.active_session, agent.relays, agent.next_relay_id,
                      agent.did, agent.args, agent.sent, agent.lost)
<1>1. /\ Shape(agent) /\ agent.session \in [Sessions -> Statuses] /\ agent.lost \in BOOLEAN
  BY Zenon DEF Agent
<1>2. agent' = Close(agent, s)
  BY Zenon DEF SessionCloses
<1>3. Close(agent, s) = b
  BY <1>1, SetClosed, ZenonT(60)
<1>4. /\ z \in [Sessions -> Statuses]
      /\ \A t \in Sessions : /\ z[t].active = agent.session[t].active
                             /\ z[t].proc_id = agent.session[t].proc_id
                             /\ z[t].next_proc_id = agent.session[t].next_proc_id
  BY <1>1, StatusClosed, ZenonT(120)
<1> HIDE DEF z
<1>5. Agent(b)
  BY <1>1, <1>4, AgentIs, Zenon
<1>6. /\ b.active_session = agent.active_session /\ b.sent = agent.sent /\ b.lost = agent.lost
      /\ b.did = agent.did /\ b.args = agent.args
  BY Zenon DEF State
<1> HIDE DEF b
<1>7. QED
  BY <1>2, <1>3, <1>5, <1>6, ZenonT(30) DEF Stays

\* A session that is freed takes its relays with it.
LEMMA FreedInv ==
  ASSUME NEW s \in Sessions, Agent(agent), Freed(s)
  PROVE  Stays(agent', agent)
<1> DEFINE R == {x \in agent.relays : x.owner # s}
           b == State(agent.session, agent.active_session, R, agent.next_relay_id,
                      agent.did, agent.args, agent.sent, agent.lost)
<1>1. /\ Shape(agent) /\ agent.lost \in BOOLEAN /\ agent.next_relay_id \in Nat \ {0}
      /\ R \in SUBSET [id : 1..(agent.next_relay_id - 1), owner : Sessions, target : Ports]
  BY Zenon DEF Agent
<1>2. agent' = [agent EXCEPT !.relays = R]
  BY Zenon DEF Freed
<1> HIDE DEF R
<1>3. agent' = b
  BY <1>1, <1>2, SetRelays, ZenonT(60)
<1>4. Agent(b)
  BY <1>1, AgentRelays, ZenonT(30)
<1>5. /\ b.active_session = agent.active_session /\ b.sent = agent.sent /\ b.lost = agent.lost
      /\ b.did = agent.did /\ b.args = agent.args
  BY Zenon DEF State
<1> HIDE DEF b
<1>6. QED
  BY <1>3, <1>4, <1>5, Zenon DEF Stays

\* What is left of the last request is forgotten when the next event comes.
LEMMA FreshIs ==
  ASSUME NEW a, Agent(a), NEW b, b = Fresh(a)
  PROVE  Agent(b) /\ b.active_session = a.active_session /\ Idle(b)
<1> DEFINE e == <<>>
           l == FALSE
           d == {}
           a1 == [a EXCEPT !.sent = e]
           a2 == [a EXCEPT !.sent = e, !.lost = l]
           a3 == [a EXCEPT !.sent = e, !.lost = l, !.did = d]
           a4 == [a EXCEPT !.sent = e, !.lost = l, !.did = d, !.args = e]
           c == State(a.session, a.active_session, a.relays, a.next_relay_id, d, e, e, l)
<1>1. /\ Shape(a) /\ a.session \in [Sessions -> Statuses]
      /\ \A t \in Sessions :
           a.session[t].active => a.session[t].proc_id \in 1..(a.session[t].next_proc_id - 1)
  BY Zenon DEF Agent
<1>2. b = a4 /\ l \in BOOLEAN
  BY Zenon DEF Fresh
<1>3. e = <<>> /\ l = FALSE /\ d = {}
  BY Zenon
<1> HIDE DEF e, l, d
<1>4. a2 = [a1 EXCEPT !.lost = l]
  BY Zenon
<1>5. a3 = [a2 EXCEPT !.did = d]
  BY Zenon
<1>6. a4 = [a3 EXCEPT !.args = e]
  BY ZenonT(30)
<1>7. Shape(a)
  BY <1>1, ZenonT(60)
<1>8. a1 = State(a.session, a.active_session, a.relays, a.next_relay_id, a.did, a.args, e, a.lost)
  BY <1>7 DEF State, Shape
<1> HIDE DEF a1, a2, a3, a4
<1>9. a2 = State(a.session, a.active_session, a.relays, a.next_relay_id, a.did, a.args, e, l)
  BY <1>4, <1>8, ZenonT(60) DEF State
<1>10. a3 = State(a.session, a.active_session, a.relays, a.next_relay_id, d, a.args, e, l)
  BY <1>5, <1>9, ZenonT(60) DEF State
<1>11. a4 = c
  BY <1>6, <1>10, ZenonT(60) DEF State
<1>12. Agent(c)
  BY <1>1, <1>2, AgentWith, ZenonT(60)
<1>13. c.active_session = a.active_session /\ c.sent = e /\ c.lost = l /\ c.did = d /\ c.args = e
  BY Zenon DEF State
<1> HIDE DEF c
<1>14. QED
  BY <1>2, <1>3, <1>11, <1>12, <1>13, ZenonT(30) DEF Idle

\* Every event keeps the invariant.
LEMMA DispatchNextInv == DispatchInv /\ [DispatchNext]_dispatchVars => DispatchInv'
<1> SUFFICES ASSUME DispatchInv, [DispatchNext]_dispatchVars PROVE DispatchInv'
  BY Zenon
<1>1. ASSUME NEW s \in Sessions, ReadBegins(s) PROVE DispatchInv'
  <2>1. request = NoRequest
    BY <1>1, ZenonT(60) DEF ReadBegins, DispatchInv
  <2>2. QED
    BY <1>1, <2>1, ZenonT(60) DEF ReadBegins, DispatchInv
<1>2. ASSUME NEW s \in Sessions, ChildExits(s) \/ SessionCloses(s) \/ Freed(s) PROVE DispatchInv'
  <2>1. reader = NoSession /\ UNCHANGED <<reader, request>>
    BY <1>2, ZenonT(60) DEF ChildExits, SessionCloses, Freed
  <2>2. request = NoRequest /\ Agent(agent) /\ Idle(agent) /\ agent.active_session = NoSession
    BY <2>1, ZenonT(60) DEF DispatchInv
  <2>3. Stays(agent', agent)
    BY <1>2, <2>2, ExitInv, CloseInv, FreedInv, ZenonT(60)
  <2>4. Agent(agent') /\ agent'.active_session = NoSession /\ Idle(agent')
    BY <2>2, <2>3, ZenonT(60) DEF Stays, Idle
  <2>5. QED
    BY <2>1, <2>2, <2>4, ZenonT(60) DEF DispatchInv
<1>3. CASE Handled
  <2>1. Agent(agent') /\ agent'.active_session = NoSession /\ Idle(agent')
    <3>1. Agent(agent) /\ agent.active_session = NoSession /\ agent' = Fresh(agent)
      BY <1>3, Zenon DEF Handled, DispatchInv
    <3>2. QED
      BY <3>1, FreshIs, ZenonT(60)
  <2>2. QED
    BY <1>3, <2>1, ZenonT(60) DEF Handled, DispatchInv
<1>4. CASE ReadEnds
  BY <1>4, ZenonT(60) DEF ReadEnds, Reading, DispatchInv
<1>5. CASE UNCHANGED dispatchVars
  BY <1>5, ZenonT(60) DEF dispatchVars, DispatchInv
<1>6. QED
  BY <1>1, <1>2, <1>3, <1>4, <1>5, HandleInv, ZenonT(30) DEF DispatchNext

\* The invariant of Dispatch holds in every state.
LEMMA DispatchInvariance == DispatchSpec => []DispatchInv
BY DispatchInitInv, DispatchNextInv, PTL DEF DispatchSpec

\* Whatever the order of frames, exits and closes: between two events no session
\* is active, so that an operation never runs for a session that is gone
\* (lua_engine_dispatch), and the ids of children and relays are below the next
\* one to be given.
THEOREM NoSessionActive == DispatchSpec => []DispatchTypeOK
<1>1. DispatchInv => DispatchTypeOK
  <2> SUFFICES ASSUME DispatchInv PROVE DispatchTypeOK
    BY Zenon
  <2>1. Agent(agent) /\ agent.active_session = NoSession /\ reader \in Sessions \cup {NoSession}
    BY ZenonT(30) DEF DispatchInv
  <2>2. \A s \in Sessions : agent.session[s].closed \in BOOLEAN
    BY <2>1, ZenonT(60) DEF Agent, Statuses
  <2>3. QED
    BY <2>1, <2>2, ZenonT(60) DEF DispatchTypeOK, Agent, Ports
<1>2. QED
  BY <1>1, DispatchInvariance, PTL

\* The frames of a reply
LEMMA HeadIs ==
  ASSUME NEW s, NEW r, NEW h \in Heads(s, r)
  PROVE  h = <<>> \/ (h = <<Frame(s, "ERROR", 0)>> /\ r.name = "tool.run")
BY Zenon DEF Heads

\* What a failing tool.run sends before the answer is an ERROR without an id.
LEMMA HeadFrames ==
  ASSUME NEW s, NEW r, NEW h \in Heads(s, r)
  PROVE  /\ h \in Seq({Frame(s, "ERROR", 0)})
         /\ \A i \in DOMAIN h :
              h[i].to = s /\ h[i].type = "ERROR" /\ h[i].req_id = 0 /\ r.name = "tool.run"
<1> DEFINE f == Frame(s, "ERROR", 0)
<1>1. f.to = s /\ f.type = "ERROR" /\ f.req_id = 0
  BY Zenon DEF Frame
<1>2. h = <<>> \/ (h = <<f>> /\ r.name = "tool.run")
  BY HeadIs, ZenonT(60)
<1> HIDE DEF f
<1>3. h \in Seq({f}) /\ \A i \in DOMAIN h : h[i] = f /\ r.name = "tool.run"
  <2>1. CASE h = <<>>
    BY <2>1, SMTT(30)
  <2>2. CASE h = <<f>> /\ r.name = "tool.run"
    <3>1. <<f>> \in Seq({f}) /\ \A i \in DOMAIN <<f>> : <<f>>[i] = f
      OBVIOUS
    <3>2. QED
      BY <2>2, <3>1, ZenonT(60)
  <2>3. QED
    BY <1>2, <2>1, <2>2, ZenonT(60)
<1>4. QED
  BY <1>1, <1>3, ZenonT(60) DEF f

\* Of the frames q only the one at place n carries the id of the request.
AnsweredAt(q, n, s, r, type) ==
  /\ {i \in DOMAIN q : q[i].req_id = 1} = {n} /\ q[n].type = type
  /\ \A i \in DOMAIN q :
       q[i].to = s /\ (q[i].req_id = 0 => q[i].type = "ERROR" /\ r.name = "tool.run")

\* The answer is the one frame that carries the id of the request.
LEMMA ReplyFrames ==
  ASSUME NEW s, NEW r, NEW h \in Heads(s, r), NEW type, NEW q, q = Append(h, Frame(s, type, 1))
  PROVE  AnsweredAt(q, Len(h) + 1, s, r, type)
<1> DEFINE f == Frame(s, type, 1)
           n == Len(h)
<1>1. /\ n \in Nat /\ DOMAIN h = 1..n /\ DOMAIN q = 1..(n + 1) /\ q[n + 1] = f
      /\ \A i \in 1..n : q[i] = h[i]
  <2> DEFINE S == {Frame(s, "ERROR", 0)}
  <2>1. h \in Seq(S) /\ q = Append(h, f)
    BY HeadFrames, ZenonT(60)
  <2> HIDE DEF S, f
  <2>2. QED
    BY <2>1, SMTT(30)
<1>2. f.to = s /\ f.type = type /\ f.req_id = 1
  BY Zenon DEF Frame
<1>3. \A i \in 1..n : q[i].to = s /\ q[i].type = "ERROR" /\ q[i].req_id = 0 /\ r.name = "tool.run"
  <2>1. SUFFICES ASSUME NEW i \in 1..n
                 PROVE  q[i].to = s /\ q[i].type = "ERROR" /\ q[i].req_id = 0 /\ r.name = "tool.run"
    BY Zenon
  <2>2. q[i] = h[i] /\ i \in DOMAIN h
    BY <1>1, ZenonT(60)
  <2>3. h[i].to = s /\ h[i].type = "ERROR" /\ h[i].req_id = 0 /\ r.name = "tool.run"
    BY <2>2, HeadFrames, ZenonT(60)
  <2>4. QED
    BY <2>2, <2>3, ZenonT(30)
<1> HIDE DEF f, n
<1>4. \A i \in DOMAIN q : i = n + 1 \/ i \in 1..n
  BY <1>1, SMTT(30)
<1>5. n + 1 \in DOMAIN q
  BY <1>1, SMTT(30)
<1>6. {i \in DOMAIN q : q[i].req_id = 1} = {n + 1}
  <2>1. 0 # 1
    OBVIOUS
  <2>2. \A i \in 1..n : q[i].req_id # 1
    BY <1>3, <2>1, ZenonT(60)
  <2>3. q[n + 1].req_id = 1
    BY <1>1, <1>2, ZenonT(30)
  <2>4. QED
    BY <1>4, <1>5, <2>2, <2>3, ZenonT(60)
<1>7. \A i \in DOMAIN q :
        q[i].to = s /\ (q[i].req_id = 0 => q[i].type = "ERROR" /\ r.name = "tool.run")
  <2>1. SUFFICES ASSUME NEW i \in DOMAIN q
                 PROVE  q[i].to = s /\ (q[i].req_id = 0 => q[i].type = "ERROR" /\ r.name = "tool.run")
    BY Zenon
  <2>2. CASE i \in 1..n
    BY <1>3, <2>2, ZenonT(60)
  <2>3. CASE i = n + 1
    <3>1. q[i] = f /\ 0 # 1
      BY <1>1, <2>3, SMTT(30)
    <3>2. QED
      BY <1>2, <3>1, ZenonT(60)
  <2>4. QED
    BY <1>4, <2>2, <2>3, ZenonT(60)
<1>8. QED
  BY <1>1, <1>2, <1>6, <1>7, ZenonT(30) DEF n, AnsweredAt

\* Before the answer no frame carries the id of the request.
LEMMA SilentIs ==
  ASSUME NEW s, NEW r, NEW h \in Heads(s, r)
  PROVE  {i \in DOMAIN h : h[i].req_id = 1} = {}
<1>1. 0 # 1
  OBVIOUS
<1>2. \A i \in DOMAIN h :
        h[i].to = s /\ h[i].type = "ERROR" /\ h[i].req_id = 0 /\ r.name = "tool.run"
  BY HeadFrames, Zenon
<1>3. QED
  BY <1>1, <1>2, ZenonT(60)

\* The answer to the request that has been handled, if there is one
LEMMA AnswerIs ==
  ASSUME DispatchInv, Answered
  PROVE  \/ /\ Answers = {} /\ Answer = "none" /\ (Asking.closed \/ agent.lost)
            /\ agent.sent \in Heads(reader, request)
         \/ \E h \in Heads(reader, request), type \in Types :
              /\ agent.sent = Append(h, Frame(reader, type, 1))
              /\ Answers = {Len(h) + 1} /\ Answer = type /\ Tells(agent, reader, request, type)
<1>1. Outcome(agent, reader, request)
  BY Zenon DEF DispatchInv, Answered, Completed
<1>2. CASE agent.sent \in Heads(reader, request) /\ (agent.session[reader].closed \/ agent.lost)
  <2>1. Answers = {}
    BY <1>2, SilentIs, ZenonT(60) DEF Answers
  <2>2. QED
    BY <1>2, <2>1, ZenonT(60) DEF Answer, Asking
<1>3. ASSUME NEW h \in Heads(reader, request), NEW type \in Types,
             agent.sent = Append(h, Frame(reader, type, 1)), Tells(agent, reader, request, type)
      PROVE  Answers = {Len(h) + 1} /\ Answer = type
  <2>1. Answers = {Len(h) + 1} /\ agent.sent[Len(h) + 1].type = type
    <3>1. AnsweredAt(agent.sent, Len(h) + 1, reader, request, type)
      BY <1>3, ReplyFrames, ZenonT(60)
    <3>2. QED
      BY <3>1, ZenonT(60) DEF Answers, AnsweredAt
  <2>2. (CHOOSE i \in Answers : TRUE) = Len(h) + 1 /\ Answers # {}
    BY <2>1, ZenonT(60)
  <2>3. QED
    BY <2>1, <2>2, ZenonT(30) DEF Answer
<1>4. QED
  BY <1>1, <1>2, <1>3, ZenonT(60) DEF Outcome

\* Whichever sends and allocations fail, a request is answered at most once, to
\* the session that asked, and not at all only if that session is closed or
\* memory has run out (the fallbacks of HandleOp and proc_spawn_common); only
\* tool.run sends a frame beside the answer.
THEOREM AnsweredOnce == DispatchSpec => []OneAnswer
<1>1. DispatchInv => OneAnswer
  <2> SUFFICES ASSUME DispatchInv, Answered
               PROVE  /\ \A i, j \in Answers : i = j
                      /\ Answers = {} => Asking.closed \/ agent.lost
                      /\ \A i \in DOMAIN agent.sent :
                           /\ agent.sent[i].to = reader
                           /\ agent.sent[i].req_id = 0 =>
                                agent.sent[i].type = "ERROR" /\ request.name = "tool.run"
    BY Zenon DEF OneAnswer
  <2>1. CASE /\ Answers = {} /\ (Asking.closed \/ agent.lost)
             /\ agent.sent \in Heads(reader, request)
    <3>1. PICK h \in Heads(reader, request) : h = agent.sent
      BY <2>1, ZenonT(60)
    <3>2. \A i \in DOMAIN h :
            h[i].to = reader /\ h[i].type = "ERROR" /\ h[i].req_id = 0 /\ request.name = "tool.run"
      BY HeadFrames, ZenonT(60)
    <3>3. QED
      BY <2>1, <3>1, <3>2, ZenonT(60)
  <2>2. CASE \E h \in Heads(reader, request), type \in Types :
               /\ agent.sent = Append(h, Frame(reader, type, 1)) /\ Answers = {Len(h) + 1}
    <3>1. PICK h \in Heads(reader, request), type \in Types :
            /\ agent.sent = Append(h, Frame(reader, type, 1)) /\ Answers = {Len(h) + 1}
      BY <2>2, ZenonT(60)
    <3>2. \A i \in DOMAIN agent.sent :
            /\ agent.sent[i].to = reader
            /\ agent.sent[i].req_id = 0 =>
                 agent.sent[i].type = "ERROR" /\ request.name = "tool.run"
      <4>1. AnsweredAt(agent.sent, Len(h) + 1, reader, request, type)
        BY <3>1, ReplyFrames, ZenonT(60)
      <4>2. QED
        BY <4>1, ZenonT(60) DEF AnsweredAt
    <3>3. QED
      BY <3>1, <3>2, ZenonT(60)
  <2>3. QED
    BY <2>1, <2>2, AnswerIs, ZenonT(60)
<1>2. QED
  BY <1>1, DispatchInvariance, PTL

\* What a request can do when it succeeds
LEMMA EffectIs ==
  ASSUME NEW type \in {"ACK", "OP_RESULT"}, Tells(agent, reader, request, type),
         request \in Requests, Effect[1] # "none"
  PROVE  /\ agent.did = {Effect}
         /\ Effect[1] = "spawned" => Asking.active
         /\ Effect[1] = "opened" => [id |-> Effect[2], owner |-> reader, target |-> U16(request.arg)]
                 \in agent.relays
<1>1. CASE request.type = "PROC_SPAWN" \/ request.name = "tool.run"
  <2>1. request.type # "KILL" /\ request.name \notin {"port_open", "port_close"}
    BY <1>1, RequestIs, ZenonT(60)
  <2>2. Effect = <<"spawned", Asking.proc_id>>
    BY <1>1, <2>1, ZenonT(60) DEF Effect
  <2>3. agent.did = {<<"spawned", Asking.proc_id>>} /\ Asking.active
    BY <1>1, ZenonT(60) DEF Tells, Asking
  <2>4. QED
    BY <2>2, <2>3, ZenonT(60)
<1>2. CASE request.type = "KILL"
  <2>1. request.name = "none"
    BY <1>2, RequestIs, ZenonT(60)
  <2>2. Effect = <<"killed", U32(request.arg)>>
    BY <1>2, <2>1, ZenonT(60) DEF Effect
  <2>3. agent.did = {<<"killed", U32(request.arg)>>}
    BY <1>2, ZenonT(60) DEF Tells
  <2>4. QED
    BY <2>2, <2>3, ZenonT(60)
<1>3. CASE request.name = "port_open"
  <2> DEFINE n == agent.next_relay_id - 1
  <2>1. request.type = "OP"
    BY <1>3, RequestIs, ZenonT(60)
  <2>2. Effect = <<"opened", n>>
    BY <1>3, <2>1, ZenonT(60) DEF Effect
  <2>3. agent.did = {<<"opened", n>>} /\ [id |-> n, owner |-> reader, target |-> U16(request.arg)]
                 \in agent.relays
    BY <1>3, ZenonT(60) DEF Tells
  <2> HIDE DEF n
  <2>4. Effect[1] = "opened" /\ Effect[2] = n
    BY <2>2, ZenonT(60)
  <2>5. QED
    BY <2>2, <2>3, <2>4, ZenonT(60)
<1>4. CASE request.name = "port_close"
  <2>1. request.type = "OP"
    BY <1>4, RequestIs, ZenonT(60)
  <2>2. Effect = <<"closed", U32(request.arg)>>
    BY <1>4, <2>1, ZenonT(60) DEF Effect
  <2>3. agent.did = {<<"closed", U32(request.arg)>>}
    BY <1>4, Zenon DEF Tells
  <2>4. QED
    BY <2>2, <2>3, ZenonT(60)
<1>5. CASE ~(\/ request.type = "PROC_SPAWN" \/ request.name = "tool.run"
             \/ request.type = "KILL" \/ request.name = "port_open" \/ request.name = "port_close")
  <2>1. Effect = <<"none", 0>>
    BY <1>5, ZenonT(60) DEF Effect
  <2>2. QED
    BY <2>1, ZenonT(60)
<1>6. QED
  BY <1>1, <1>2, <1>3, <1>4, <1>5, ZenonT(60)

\* A success means that the child or the relay that was asked for is there, or
\* is gone, and an ERROR that nothing was done, but for the cases that
\* Truthful names, for any number of sessions, children and relays.
THEOREM AnswersTruthful == DispatchSpec => []Truthful
<1>1. DispatchInv => Truthful
  <2> SUFFICES ASSUME DispatchInv, Answered PROVE Truthful
    BY Zenon DEF Truthful
  <2>1. request \in Requests
    BY Zenon DEF DispatchInv, Answered
  <2>2. CASE Answer = "none"
    BY <2>2, ZenonT(60) DEF Truthful
  <2>3. CASE \E type \in Types : Answer = type /\ Tells(agent, reader, request, type)
    <3>1. Answer \in {"ACK", "OP_RESULT"} /\ Effect[1] # "none" =>
            /\ agent.did = {Effect}
            /\ Effect[1] = "spawned" => Asking.active
            /\ Effect[1] = "opened" => [id |-> Effect[2], owner |-> reader, target |-> U16(request.arg)]
                 \in agent.relays
      BY <2>1, <2>3, EffectIs, ZenonT(60)
    <3>2. Answer = "ERROR" /\ agent.did # {} =>
            \/ agent.lost
            \/ request.type = "PROC_SPAWN" /\ request.path = "mid"
            \/ request.type = "KILL" /\ agent.did = {<<"marked", U32(request.arg)>>}
      BY <2>3, ZenonT(60) DEF Tells
    <3>3. QED
      BY <3>1, <3>2, ZenonT(60) DEF Truthful
  <2>4. QED
    BY <2>2, <2>3, AnswerIs, ZenonT(60)
<1>2. QED
  BY <1>1, DispatchInvariance, PTL

\* A child gets the arguments of its request from proc_build_args and from
\* collect_argv, for every payload that is as the protocol wants it: any number
\* of lines, in any order.
THEOREM ArgumentsKept == DispatchSpec => []ArgsAsAsked
<1>1. DispatchInv => ArgsAsAsked
  <2> DEFINE args == agent.args
             p == request.argv
             asked == Asked(p)
  <2> SUFFICES ASSUME DispatchInv, Answered, WellFormed(p), \E e \in agent.did : e[1] = "spawned"
               PROVE  /\ args # <<>>
                      /\ args = <<request.path>> \/ Begins(args, asked)
                      /\ request.type = "OP" /\ asked # <<>> => args = asked
                      /\ /\ request.type = "PROC_SPAWN"
                         /\ \A i \in DOMAIN asked : asked[i] \notin {Empty, Long}
                         /\ Len(asked) > 1
                         => args = asked
    BY Zenon DEF ArgsAsAsked
  <2>1. request \in Requests /\ ArgsFrom(agent, request)
    BY Zenon DEF DispatchInv, Answered, Completed
  <2>2. p \in Payloads
    BY <2>1, RequestIs, ZenonT(60)
  <2>3. asked \in Seq(Words \cup {Empty, Long})
    BY <2>2, KeysRead, ZenonT(60)
  <2>4. \A path : <<path>> # <<>>
    BY Zenon
  <2>5. "OP" # "PROC_SPAWN"
    BY Zenon
  <2>6. CASE request.type = "PROC_SPAWN" /\ args = BuildArgs(p, request.path)
    <3>1. /\ args = <<request.path>> \/ (args # <<>> /\ Begins(args, asked))
          /\ Len(asked) > 1 /\ (\A i \in DOMAIN asked : asked[i] \notin {Empty, Long})
               => args = asked
      BY <2>2, <2>6, BuiltAsAsked, ZenonT(60)
    <3>2. QED
      BY <2>4, <2>5, <2>6, <3>1, ZenonT(60)
  <2>7. CASE request.type = "OP" /\ args = CollectArgv(p, request.path)
    <3>1. args = IF asked = <<>> THEN <<request.path>> ELSE asked
      BY <2>2, <2>7, CollectedAsAsked, ZenonT(30)
    <3> HIDE DEF asked
    <3>2. Begins(asked, asked)
      BY <2>3 DEF Begins
    <3>3. QED
      BY <2>4, <2>5, <2>7, <3>1, <3>2, ZenonT(30)
  <2>8. QED
    BY <2>1, <2>6, <2>7, ZenonT(60) DEF ArgsFrom
<1>2. QED
  BY <1>1, DispatchInvariance, PTL
=============================================================================

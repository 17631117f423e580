--------------------------- MODULE DownloadProofs ---------------------------
(***************************************************************************)
(* What holds of downloads for every queue limit, chunk size, file size    *)
(* and number of requests.  The invariant follows the frames from          *)
(* session_send_frame to the client, those in libuv's queue and those on   *)
(* the wire as one flow: there the frames of a request are an ACK, chunks  *)
(* each of which continues an earlier one, and an answer, in this order.   *)
(***************************************************************************)
EXTENDS Download, SumTheorems

FrameType ==
  [type : {"ACK", "ERROR", "GET_CHUNK", "GET_END", "OTHER"}, req_id : Nat, from : Nat, len : Nat]

SessionType ==
  [closed : BOOLEAN, pending : Nat, queue : Seq(FrameType), lost : SUBSET (0..MaxRequests)]

DownloadType ==
  [active : BOOLEAN, open : BOOLEAN, req_id : Nat, total_size : Nat, offset : Nat]

Types ==
  /\ session \in SessionType /\ download \in DownloadType
  /\ pc \in {"loop", "reading"}
  /\ wire \in Seq(FrameType)
  /\ asked \in Seq(Sizes) /\ Len(asked) <= MaxRequests

FrameSizes(q) == [i \in DOMAIN q |-> FrameSize(q[i])]

\* pending_write_bytes of a session is right, and within its limit.
Exact(s) ==
  /\ s.pending = Total(FrameSizes(s.queue))
  /\ s.pending <= MaxQueue

\* The frames on their way to the client, and those it has: what a closed
\* session has in its queue is cancelled.
Sending(w, s) == IF s.closed THEN w ELSE w \o s.queue

Flow == Sending(wire, session)

End(f) == f.from + f.len
IsChunk(f) == f.type = "GET_CHUNK"
IsAnswer(f) == f.type \in {"GET_END", "ERROR"}

\* Frame i of the flow s is a chunk of request r that ends at n.
EndsAt(s, i, r, n) == s[i].req_id = r /\ IsChunk(s[i]) /\ End(s[i]) = n

\* The frames of one request: nothing before its ACK or after its answer, and
\* chunks in the order of the file.
InOrder(s) ==
  \A i, j \in DOMAIN s :
    i < j /\ s[i].req_id = s[j].req_id /\ s[i].req_id # 0 =>
      /\ ~IsAnswer(s[i]) /\ s[j].type # "ACK"
      /\ IsChunk(s[i]) /\ IsChunk(s[j]) => End(s[i]) <= s[j].from

\* Frame i has what must come before it: the ACK, the chunk it continues, and
\* for GET_END the end of the file.
Preceded(s, i, sizes) ==
  LET r == s[i].req_id
  IN  /\ r \in 0..Len(sizes) /\ (r = 0 => s[i].type = "OTHER")
      /\ s[i].type \in {"GET_CHUNK", "GET_END"} =>
           \E k \in 1..(i - 1) : s[k].req_id = r /\ s[k].type = "ACK"
      /\ IsChunk(s[i]) =>
           /\ s[i].len > 0 /\ End(s[i]) <= sizes[r]
           /\ s[i].from = 0 \/ \E k \in 1..(i - 1) : EndsAt(s, k, r, s[i].from)
      /\ s[i].type = "GET_END" =>
           sizes[r] = 0 \/ \E k \in 1..(i - 1) : EndsAt(s, k, r, sizes[r])

Good(s, sizes) == InOrder(s) /\ \A i \in DOMAIN s : Preceded(s, i, sizes)

\* Inside get_begin the last request has its ACK and no answer, and its chunks
\* reach the offset.
Reading ==
  LET r == Len(asked)
  IN  /\ ~session.closed /\ r > 0 /\ download.req_id = r
      /\ download.total_size = asked[r] /\ download.offset <= asked[r]
      /\ \E i \in DOMAIN Flow : Flow[i].req_id = r /\ Flow[i].type = "ACK"
      /\ \A i \in DOMAIN Flow :
           Flow[i].req_id = r =>
             ~IsAnswer(Flow[i]) /\ (IsChunk(Flow[i]) => End(Flow[i]) <= download.offset)
      /\ download.offset = 0 \/ \E i \in DOMAIN Flow : EndsAt(Flow, i, r, download.offset)

\* Request r has its answer, or has lost a frame.
Settled(r, lost, s) == r \in lost \/ \E i \in DOMAIN s : s[i].req_id = r /\ IsAnswer(s[i])

IInv ==
  /\ Types /\ Exact(session)
  /\ Good(Flow, asked)
  /\ pc = "reading" => Reading
  /\ pc = "loop" => download = Idle
  /\ ~session.closed =>
       \A r \in 1..Len(asked) : (pc = "reading" => r < Len(asked)) => Settled(r, session.lost, Flow)

-----------------------------------------------------------------------------
(* The flow                                                                *)

\* What is assumed of the constants.
LEMMA Constants ==
  /\ MaxQueue \in Nat /\ HeaderSize \in Nat /\ TextSize \in Nat
  /\ ChunkSize \in Nat /\ ChunkSize > 0
  /\ Sizes \subseteq Nat /\ MaxRequests \in Nat
BY DownloadAssumption

\* Joining two sequences.
LEMMA Concat ==
  ASSUME NEW S, NEW x \in Seq(S), NEW y \in Seq(S)
  PROVE  /\ x \o y \in Seq(S) /\ Len(x \o y) = Len(x) + Len(y)
         /\ \A i \in 1..(Len(x) + Len(y)) :
              (x \o y)[i] = IF i <= Len(x) THEN x[i] ELSE y[i - Len(x)]
OBVIOUS

\* A frame goes from the head of the queue to the end of the wire.
LEMMA Moved ==
  ASSUME NEW S, NEW w \in Seq(S), NEW q \in Seq(S), q # <<>>
  PROVE  Append(w, Head(q)) \o Tail(q) = w \o q
<1> DEFINE a == Append(w, Head(q))
           u == Tail(q)
           F == w \o q
           G == a \o u
<1>1. Len(q) \in Nat /\ Len(q) > 0 /\ Len(w) \in Nat /\ Head(q) \in S /\ Head(q) = q[1]
  OBVIOUS
<1>0. a \in Seq(S) /\ u \in Seq(S)
  OBVIOUS
<1>2. Len(a) = Len(w) + 1 /\ a[Len(w) + 1] = q[1] 
  BY <1>1
<1>3. \A i \in 1..Len(w) : a[i] = w[i]
  BY <1>1
<1>4. Len(u) = Len(q) - 1
  BY <1>1
<1>5. \A i \in 1..Len(u) : u[i] = q[i + 1]
  BY <1>1
<1> HIDE DEF a, u
<1>6. F \in Seq(S) /\ Len(F) = Len(w) + Len(q)
  BY <1>1
<1>7. G \in Seq(S) /\ Len(G) = Len(a) + Len(u)
  BY <1>0, Concat, Zenon
<1>8. \A i \in 1..Len(F) : F[i] = IF i <= Len(w) THEN w[i] ELSE q[i - Len(w)]
  BY <1>1
<1>9. \A i \in 1..Len(G) : G[i] = IF i <= Len(a) THEN a[i] ELSE u[i - Len(a)]
  BY <1>0, <1>7, Concat, Zenon
<1> HIDE DEF F, G
<1>10. Len(G) = Len(F)
  BY <1>1, <1>2, <1>4, <1>6, <1>7
<1>11. ASSUME NEW i \in 1..Len(F) PROVE G[i] = F[i]
  <2>1. CASE i <= Len(w)
    <3>1. i \in 1..Len(w) /\ i <= Len(a) /\ i \in 1..Len(G)
      BY <1>1, <1>2, <1>6, <1>10, <2>1
    <3>2. F[i] = w[i] /\ G[i] = a[i] /\ a[i] = w[i]
      BY <1>3, <1>8, <1>9, <3>1, <2>1, Zenon
    <3>3. QED
      BY <3>2, Zenon
  <2>2. CASE i = Len(w) + 1
    BY <1>1, <1>2, <1>6, <1>8, <1>9, <1>10, <2>2, SMTT(30)
  <2>3. CASE i > Len(w) + 1
    <3>1. i - Len(a) \in 1..Len(u) /\ (i - Len(a)) + 1 = i - Len(w)
      BY <1>1, <1>2, <1>4, <1>6, <2>3
    <3>2. u[i - Len(a)] = q[i - Len(w)]
      BY <1>5, <3>1, Zenon
    <3>3. QED
      BY <1>1, <1>2, <1>6, <1>8, <1>9, <1>10, <2>3, <3>2, SMTT(30)
  <2>4. QED
    BY <1>1, <1>6, <2>1, <2>2, <2>3
<1>12. G = F
  BY <1>6, <1>7, <1>10, <1>11, SMTT(30)
<1>13. QED
  BY <1>12, Zenon DEF F, G, a, u

\* What is true of a frame that depends on the frames before it alone.
LEMMA PrecededSame ==
  ASSUME NEW s, NEW t, NEW i \in Nat \ {0}, NEW sizes, Preceded(s, i, sizes),
         \A k \in 1..i : t[k] = s[k]
  PROVE  Preceded(t, i, sizes)
<1>1. t[i] = s[i] /\ \A k \in 1..(i - 1) : t[k] = s[k]
  OBVIOUS
<1>2. \A k \in 1..(i - 1) : \A n : EndsAt(s, k, s[i].req_id, n) => EndsAt(t, k, s[i].req_id, n)
  BY <1>1, Zenon DEF EndsAt
<1>3. QED
  BY <1>1, <1>2, Zenon DEF Preceded

\* Frames are taken from the end of the flow: a session that closes.
LEMMA GoodPrefix ==
  ASSUME NEW s \in Seq(FrameType), NEW t \in Seq(FrameType), NEW sizes, Good(s, sizes),
         Len(t) <= Len(s), \A i \in 1..Len(t) : t[i] = s[i]
  PROVE  Good(t, sizes)
<1>1. DOMAIN t = 1..Len(t) /\ DOMAIN s = 1..Len(s) /\ Len(t) \in Nat /\ Len(s) \in Nat
  OBVIOUS
<1>2. \A i \in DOMAIN t : i \in DOMAIN s /\ t[i] = s[i]
  BY <1>1
<1>3. InOrder(t)
  BY <1>2, Zenon DEF Good, InOrder
<1>4. ASSUME NEW i \in DOMAIN t
      PROVE  Preceded(t, i, sizes)
  <2>1. i \in Nat \ {0} /\ Preceded(s, i, sizes) /\ \A k \in 1..i : t[k] = s[k]
    BY <1>1, <1>2 DEF Good
  <2>2. QED
    BY <2>1, PrecededSame, Zenon
<1>5. QED
  BY <1>3, <1>4, Zenon DEF Good

\* A frame is added to the flow.
LEMMA GoodAppend ==
  ASSUME NEW s \in Seq(FrameType), NEW f \in FrameType, NEW sizes, Good(s, sizes),
         Preceded(Append(s, f), Len(s) + 1, sizes),
         f.req_id # 0 =>
           \A i \in DOMAIN s : s[i].req_id = f.req_id =>
             /\ ~IsAnswer(s[i]) /\ f.type # "ACK"
             /\ IsChunk(s[i]) /\ IsChunk(f) => End(s[i]) <= f.from
  PROVE  Good(Append(s, f), sizes)
<1> DEFINE t == Append(s, f)
           n == Len(s)
<1>1. /\ n \in Nat /\ DOMAIN s = 1..n /\ DOMAIN t = 1..(n + 1)
      /\ t[n + 1] = f /\ \A i \in 1..n : t[i] = s[i]
  OBVIOUS
<1> HIDE DEF t, n
<1>2. InOrder(t)
  <2>1. SUFFICES ASSUME NEW i \in DOMAIN t, NEW j \in DOMAIN t, i < j,
                        t[i].req_id = t[j].req_id, t[i].req_id # 0
                 PROVE  /\ ~IsAnswer(t[i]) /\ t[j].type # "ACK"
                        /\ IsChunk(t[i]) /\ IsChunk(t[j]) => End(t[i]) <= t[j].from
    BY Zenon DEF InOrder
  <2>2. i \in 1..n /\ t[i] = s[i]
    BY <1>1, <2>1
  <2>3. CASE j \in 1..n
    BY <1>1, <2>1, <2>2, <2>3, Zenon DEF Good, InOrder
  <2>4. CASE j = n + 1
    BY <1>1, <2>1, <2>2, <2>4, Zenon
  <2>5. QED
    BY <1>1, <2>3, <2>4
<1>3. ASSUME NEW i \in DOMAIN t
      PROVE  Preceded(t, i, sizes)
  <2>1. CASE i \in 1..n
    <3>1. i \in Nat \ {0} /\ Preceded(s, i, sizes) /\ \A k \in 1..i : t[k] = s[k]
      BY <1>1, <2>1 DEF Good
    <3>2. QED
      BY <3>1, PrecededSame, Zenon
  <2>2. CASE i = n + 1
    BY <2>2, Zenon DEF t, n
  <2>3. QED
    BY <1>1, <2>1, <2>2
<1>4. QED
  BY <1>2, <1>3, Zenon DEF Good, t

\* A frame of another's leaves the flow.
LEMMA GoodDropped ==
  ASSUME NEW s \in Seq(FrameType), NEW t \in Seq(FrameType), NEW sizes, Good(s, sizes),
         NEW m \in 1..Len(s), s[m].req_id = 0, Len(t) = Len(s) - 1,
         \A i \in 1..Len(t) : t[i] = IF i < m THEN s[i] ELSE s[i + 1]
  PROVE  Good(t, sizes)
<1> DEFINE n == Len(s)
           Was(i) == IF i < m THEN i ELSE i + 1
           Is(i) == IF i < m THEN i ELSE i - 1
<1>1. n \in Nat /\ DOMAIN s = 1..n /\ DOMAIN t = 1..(n - 1) /\ m \in 1..n
  OBVIOUS
<1>2. \A i \in 1..(n - 1) : Was(i) \in 1..n /\ t[i] = s[Was(i)]
  BY <1>1
<1>3. \A i, j \in 1..(n - 1) : i < j => Was(i) < Was(j)
  BY <1>1
<1>4. \A i \in 1..(n - 1), k \in 1..n : k < Was(i) /\ k # m =>
        Is(k) \in 1..(i - 1) /\ s[k] = t[Is(k)]
  BY <1>1, <1>2
<1>5. InOrder(t)
  <2>1. SUFFICES ASSUME NEW i \in 1..(n - 1), NEW j \in 1..(n - 1), i < j,
                        t[i].req_id = t[j].req_id, t[i].req_id # 0
                 PROVE  /\ ~IsAnswer(t[i]) /\ t[j].type # "ACK"
                        /\ IsChunk(t[i]) /\ IsChunk(t[j]) => End(t[i]) <= t[j].from
    BY <1>1, Zenon DEF InOrder
  <2> DEFINE a == Was(i)
             b == Was(j)
  <2>2. a \in DOMAIN s /\ b \in DOMAIN s /\ a < b /\ t[i] = s[a] /\ t[j] = s[b]
    BY <1>1, <1>2, <1>3, <2>1, ZenonT(60)
  <2> HIDE DEF a, b
  <2>3. QED
    BY <2>1, <2>2, Zenon DEF Good, InOrder
<1>6. ASSUME NEW i \in 1..(n - 1)
      PROVE  Preceded(t, i, sizes)
  <2> DEFINE j == Was(i)
             r == t[i].req_id
  <2>1. j \in 1..n /\ t[i] = s[j] /\ Preceded(s, j, sizes)
    BY <1>1, <1>2, Zenon DEF Good
  <2>2. \A k \in 1..(j - 1) : k # m => Is(k) \in 1..(i - 1) /\ t[Is(k)] = s[k]
    BY <1>1, <1>4, <2>1, SMTT(60)
  <2> HIDE DEF j, Is
  <2>3. ASSUME NEW k \in 1..(j - 1), s[k].req_id = r, r # 0
        PROVE  Is(k) \in 1..(i - 1) /\ t[Is(k)] = s[k]
    BY <2>2, <2>3, Zenon
  <2>4. r = 0 => t[i].type = "OTHER"
    BY <2>1, Zenon DEF Preceded
  <2>5. r \in 0..Len(sizes)
    BY <2>1, Zenon DEF Preceded
  <2>6. t[i].type \in {"GET_CHUNK", "GET_END"} =>
          \E k \in 1..(i - 1) : t[k].req_id = r /\ t[k].type = "ACK"
    <3> SUFFICES ASSUME t[i].type \in {"GET_CHUNK", "GET_END"}
                 PROVE  \E k \in 1..(i - 1) : t[k].req_id = r /\ t[k].type = "ACK"
      BY Zenon
    <3>1. PICK k \in 1..(j - 1) : s[k].req_id = r /\ s[k].type = "ACK"
      BY <2>1, Zenon DEF Preceded
    <3>2. r # 0
      BY <2>4, Zenon
    <3>3. QED
      BY <2>3, <3>1, <3>2, Zenon
  <2>7. \A x : r # 0 /\ (\E k \in 1..(j - 1) : EndsAt(s, k, r, x)) =>
                 \E k \in 1..(i - 1) : EndsAt(t, k, r, x)
    <3> SUFFICES ASSUME NEW x, r # 0, NEW k \in 1..(j - 1), EndsAt(s, k, r, x)
                 PROVE  \E l \in 1..(i - 1) : EndsAt(t, l, r, x)
      BY Zenon
    <3>1. s[k].req_id = r
      BY Zenon DEF EndsAt
    <3>2. Is(k) \in 1..(i - 1) /\ t[Is(k)] = s[k]
      BY <2>3, <3>1, Zenon
    <3>3. EndsAt(t, Is(k), r, x)
      BY <3>2, Zenon DEF EndsAt
    <3>4. QED
      BY <3>2, <3>3, Zenon
  <2>8. QED
    BY <2>1, <2>4, <2>5, <2>6, <2>7, SMTT(60) DEF Preceded, IsChunk
<1>7. QED
  BY <1>1, <1>5, <1>6, Zenon DEF Good

\* A request is added.
LEMMA GoodAsked ==
  ASSUME NEW s \in Seq(FrameType), NEW sizes \in Seq(Sizes), NEW x \in Sizes, Good(s, sizes)
  PROVE  Good(s, Append(sizes, x))
<1> DEFINE more == Append(sizes, x)
<1>1. /\ Len(sizes) \in Nat /\ Len(more) = Len(sizes) + 1
      /\ \A r \in 1..Len(sizes) : more[r] = sizes[r]
  OBVIOUS
<1> HIDE DEF more
<1>2. ASSUME NEW i \in DOMAIN s
      PROVE  Preceded(s, i, more)
  <2>1. Preceded(s, i, sizes)
    BY Zenon DEF Good
  <2>2. s[i].req_id \in 0..Len(sizes) /\ (s[i].req_id = 0 => s[i].type = "OTHER")
    BY <2>1, Zenon DEF Preceded
  <2>3. s[i].type # "OTHER" => more[s[i].req_id] = sizes[s[i].req_id]
    BY <1>1, <2>2
  <2>4. s[i].req_id \in 0..Len(more)
    BY <1>1, <2>2
  <2>5. QED
    BY <2>1, <2>2, <2>3, <2>4, Zenon DEF Preceded, IsChunk
<1>3. QED
  BY <1>2, Zenon DEF Good, more

-----------------------------------------------------------------------------
(* Sending                                                                 *)

\* The sizes of the frames in a queue, as it grows at one end and shrinks at the
\* other.
LEMMA SizesOf ==
  ASSUME NEW q \in Seq(FrameType)
  PROVE  /\ FrameSizes(q) \in Seq(Nat)
         /\ \A f \in FrameType : FrameSizes(Append(q, f)) = Append(FrameSizes(q), FrameSize(f))
         /\ q # <<>> => /\ FrameSizes(q) # <<>> /\ Head(FrameSizes(q)) = FrameSize(Head(q))
                       /\ FrameSizes(Tail(q)) = Tail(FrameSizes(q))
<1>1. \A f \in FrameType : FrameSize(f) \in Nat
  BY Constants DEF FrameSize, FrameType
<1>2. DOMAIN q = 1..Len(q) /\ Len(q) \in Nat /\ \A i \in 1..Len(q) : q[i] \in FrameType
  OBVIOUS
<1> DEFINE size(f) == FrameSize(f)
<1>3. FrameSizes(q) = [i \in 1..Len(q) |-> size(q[i])] /\ \A f \in FrameType : size(f) \in Nat
  BY <1>1, <1>2, Zenon DEF FrameSizes
<1> HIDE DEF size
<1>4. FrameSizes(q) \in Seq(Nat) /\ Len(FrameSizes(q)) = Len(q)
  BY <1>2, <1>3
<1>5. ASSUME NEW f \in FrameType
      PROVE  FrameSizes(Append(q, f)) = Append(FrameSizes(q), FrameSize(f))
  <2>1. FrameSizes(Append(q, f)) = [i \in 1..(Len(q) + 1) |-> size(Append(q, f)[i])]
    BY <1>2 DEF FrameSizes, size
  <2>2. Append(FrameSizes(q), size(f)) =
          [i \in 1..(Len(q) + 1) |-> IF i = Len(q) + 1 THEN size(f) ELSE size(q[i])]
    BY <1>2, <1>3, <1>4
  <2>3. \A i \in 1..(Len(q) + 1) : size(Append(q, f)[i]) =
          IF i = Len(q) + 1 THEN size(f) ELSE size(q[i])
    BY <1>2
  <2>4. QED
    BY <2>1, <2>2, <2>3, Zenon DEF size
<1>6. ASSUME q # <<>>
      PROVE  /\ FrameSizes(q) # <<>> /\ Head(FrameSizes(q)) = FrameSize(Head(q))
             /\ FrameSizes(Tail(q)) = Tail(FrameSizes(q))
  <2>1. Len(q) > 0 /\ Tail(q) \in Seq(FrameType) /\ Len(Tail(q)) = Len(q) - 1
        /\ Head(q) = q[1] /\ \A i \in 1..(Len(q) - 1) : Tail(q)[i] = q[i + 1]
    BY <1>6
  <2>2. FrameSizes(Tail(q)) = [i \in 1..(Len(q) - 1) |-> size(Tail(q)[i])]
    BY <2>1 DEF FrameSizes, size
  <2>3. Tail(FrameSizes(q)) = [i \in 1..(Len(q) - 1) |-> size(q[i + 1])]
    BY <1>2, <1>3, <1>4, <2>1, SMTT(30)
  <2>4. FrameSizes(Tail(q)) = Tail(FrameSizes(q))
    BY <2>1, <2>2, <2>3, Zenon
  <2>5. FrameSizes(q) # <<>> /\ Head(FrameSizes(q)) = size(q[1])
    BY <1>3, <1>4, <2>1, SMTT(30)
  <2>6. QED
    BY <2>1, <2>4, <2>5, Zenon DEF size
<1>7. QED
  BY <1>4, <1>5, <1>6, Zenon

\* What session_send_frame makes of a session.
LEMMA SendEffect ==
  ASSUME NEW s \in SessionType, Exact(s), NEW ok \in BOOLEAN,
         NEW f \in FrameType, f.req_id <= MaxRequests
  PROVE  LET b == Sent(s, f, ok)
         IN  /\ b \in SessionType /\ Exact(b) /\ s.lost \subseteq b.lost
             /\ s.closed => b.closed
             /\ Success(s, f, ok) =>
                  ~b.closed /\ b.queue = Append(s.queue, f) /\ b.lost = s.lost
             /\ ~Success(s, f, ok) =>
                  b.queue = s.queue /\ (b.closed \/ f.req_id \in b.lost)
<1> DEFINE b == Sent(s, f, ok)
           sizes == FrameSizes(s.queue)
<1>1. /\ s.closed \in BOOLEAN /\ s.pending \in Nat /\ s.queue \in Seq(FrameType)
      /\ s.lost \in SUBSET (0..MaxRequests) /\ f.req_id \in Nat /\ f.len \in Nat
  BY Zenon DEF SessionType, FrameType
<1>2. FrameSize(f) \in Nat
  BY <1>1, Constants DEF FrameSize
<1>3. CASE s.closed
  BY <1>3, Zenon DEF Sent, Success
<1>4. CASE ~s.closed /\ ~Fits(s, f)
  <2>1. b = [s EXCEPT !.closed = TRUE]
    BY <1>4, Zenon DEF Sent
  <2>2. b \in SessionType /\ b.closed /\ b.queue = s.queue /\ b.lost = s.lost
        /\ b.pending = s.pending
    BY <2>1, Zenon DEF SessionType
  <2> HIDE DEF b
  <2>3. QED
    BY <1>4, <2>2, Zenon DEF Success, Exact, b
<1>5. CASE ~s.closed /\ Fits(s, f) /\ ~ok
  <2>1. b = [s EXCEPT !.lost = @ \cup {f.req_id}]
    BY <1>5, Zenon DEF Sent
  <2>2. b.queue = s.queue /\ b.lost = s.lost \cup {f.req_id} /\ b.pending = s.pending
        /\ b.closed = s.closed
    BY <2>1, Zenon DEF SessionType
  <2>3. s.lost \cup {f.req_id} \in SUBSET (0..MaxRequests)
    BY <1>1, Constants
  <2>4. b \in SessionType
    BY <1>1, <2>1, <2>3, Zenon DEF SessionType
  <2> HIDE DEF b
  <2>5. QED
    BY <1>5, <2>2, <2>4, Zenon DEF Success, Exact, b
<1>6. CASE ~s.closed /\ Fits(s, f) /\ ok
  <2>1. b = [s EXCEPT !.pending = @ + FrameSize(f), !.queue = Append(@, f)]
    BY <1>6, Zenon DEF Sent
  <2>2. b.queue = Append(s.queue, f) /\ b.lost = s.lost
        /\ b.pending = s.pending + FrameSize(f) /\ b.closed = s.closed
    BY <2>1, Zenon DEF SessionType
  <2>3. b \in SessionType
    <3> DEFINE p == s.pending + FrameSize(f)
               q == Append(s.queue, f)
    <3>1. p \in Nat /\ q \in Seq(FrameType)
      BY <1>1, <1>2
    <3>2. b = [s EXCEPT !.pending = p, !.queue = q]
      BY <2>1, Zenon
    <3> HIDE DEF p, q, b
    <3>3. QED
      BY <3>1, <3>2, Zenon DEF SessionType
  <2>4. sizes \in Seq(Nat)
    BY <1>1, SizesOf, Zenon
  <2>5. FrameSizes(b.queue) = Append(sizes, FrameSize(f))
    BY <1>1, <2>2, SizesOf, Zenon
  <2>6. Total(Append(sizes, FrameSize(f))) = Total(sizes) + FrameSize(f)
    BY <1>2, <2>4, TotalAppend, Zenon
  <2>7. Exact(b)
    <3> HIDE DEF b, sizes
    <3>1. s.pending = Total(sizes)
      BY Zenon DEF Exact, sizes
    <3> QED
      BY <1>6, <2>2, <2>5, <2>6, <3>1 DEF Exact, Fits
  <2> HIDE DEF b
  <2>8. QED
    BY <1>6, <2>2, <2>3, <2>7, Zenon DEF Success, b
<1>7. QED
  BY <1>3, <1>4, <1>5, <1>6, Zenon

\* What must be true of a frame and of the flow for the frame to be sent next.
Follows(f, s, sizes) ==
  LET r == f.req_id
  IN  /\ r \in 0..Len(sizes) /\ (r = 0 => f.type = "OTHER")
      /\ f.type \in {"GET_CHUNK", "GET_END"} =>
           \E k \in DOMAIN s : s[k].req_id = r /\ s[k].type = "ACK"
      /\ IsChunk(f) =>
           /\ f.len > 0 /\ End(f) <= sizes[r]
           /\ f.from = 0 \/ \E k \in DOMAIN s : EndsAt(s, k, r, f.from)
      /\ f.type = "GET_END" => sizes[r] = 0 \/ \E k \in DOMAIN s : EndsAt(s, k, r, sizes[r])
      /\ r # 0 =>
           \A i \in DOMAIN s : s[i].req_id = r =>
             /\ ~IsAnswer(s[i]) /\ f.type # "ACK"
             /\ IsChunk(s[i]) /\ IsChunk(f) => End(s[i]) <= f.from

\* A frame that follows keeps the flow good.
LEMMA GoodFollow ==
  ASSUME NEW s \in Seq(FrameType), NEW f \in FrameType, NEW sizes, Good(s, sizes),
         Follows(f, s, sizes)
  PROVE  Good(Append(s, f), sizes)
<1> DEFINE t == Append(s, f)
           n == Len(s) + 1
<1>1. DOMAIN s = 1..(n - 1) /\ t[n] = f /\ \A k \in DOMAIN s : t[k] = s[k]
  OBVIOUS
<1> HIDE DEF t, n
<1>2. \A k \in DOMAIN s : \A m : EndsAt(s, k, f.req_id, m) => EndsAt(t, k, f.req_id, m)
  BY <1>1, Zenon DEF EndsAt
<1>3. Preceded(t, n, sizes)
  BY <1>1, <1>2, Zenon DEF Follows, Preceded
<1>4. f.req_id # 0 =>
        \A i \in DOMAIN s : s[i].req_id = f.req_id =>
          /\ ~IsAnswer(s[i]) /\ f.type # "ACK"
          /\ IsChunk(s[i]) /\ IsChunk(f) => End(s[i]) <= f.from
  BY Zenon DEF Follows
<1>5. QED
  BY <1>3, <1>4, GoodAppend, Zenon DEF t, n

\* What session_send_frame does to a session in state s with the flow F: the
\* session b and the flow G.
Added(f, success, s, F, b, G, sizes) ==
  /\ b \in SessionType /\ Exact(b) /\ Good(G, sizes)
  /\ F \in Seq(FrameType) /\ G \in Seq(FrameType)
  /\ s.closed => b.closed
  /\ ~b.closed => \A r : Settled(r, s.lost, F) => Settled(r, b.lost, G)
  /\ success => ~b.closed /\ G = Append(F, f)
  /\ ~success => b.closed \/ f.req_id \in b.lost

\* Sending keeps what the invariant says of session and flow.
LEMMA Adds ==
  ASSUME NEW s \in SessionType, Exact(s), NEW w \in Seq(FrameType), NEW sizes,
         Good(Sending(w, s), sizes), NEW f \in FrameType, f.req_id <= MaxRequests,
         Follows(f, Sending(w, s), sizes), NEW ok \in BOOLEAN
  PROVE  Added(f, Success(s, f, ok), s, Sending(w, s),
               Sent(s, f, ok), Sending(w, Sent(s, f, ok)), sizes)
<1> DEFINE b == Sent(s, f, ok)
           F == Sending(w, s)
           G == Sending(w, b)
<1>1. /\ b \in SessionType /\ Exact(b) /\ s.lost \subseteq b.lost
      /\ s.closed => b.closed
      /\ Success(s, f, ok) => ~b.closed /\ b.queue = Append(s.queue, f) /\ b.lost = s.lost
      /\ ~Success(s, f, ok) => b.queue = s.queue /\ (b.closed \/ f.req_id \in b.lost)
  BY SendEffect, Zenon
<1>2. s.queue \in Seq(FrameType) /\ b.queue \in Seq(FrameType)
  BY <1>1, Zenon DEF SessionType
<1> HIDE DEF b
<1>3. F \in Seq(FrameType) /\ G \in Seq(FrameType)
  BY <1>2 DEF Sending
<1>4. Success(s, f, ok) => G = Append(F, f)
  <2> SUFFICES ASSUME ~s.closed, ~b.closed, b.queue = Append(s.queue, f) PROVE G = Append(F, f)
    BY <1>1, Zenon
  <2>1. F = w \o s.queue /\ G = w \o Append(s.queue, f)
    BY Zenon DEF Sending
  <2> QED
    BY <1>2, <2>1, SMTT(30)
<1>5. ~Success(s, f, ok) => G = F \/ (b.closed /\ G = w)
  BY <1>1, Zenon DEF Sending
<1>51. Good(w, sizes)
  <2>1. CASE s.closed
    BY <2>1, Zenon DEF Sending
  <2>2. CASE ~s.closed
    <3>1. F = w \o s.queue
      BY <2>2, Zenon DEF Sending
    <3>2. Len(w) <= Len(F) /\ \A i \in 1..Len(w) : F[i] = w[i]
      BY <1>2, <3>1
    <3> QED BY <1>3, <3>2, GoodPrefix, Zenon
  <2> QED BY <2>1, <2>2, Zenon
<1>6. Good(Append(F, f), sizes)
  BY <1>3, GoodFollow, Zenon
<1> HIDE DEF F, G
<1>7. Good(G, sizes)
  BY <1>4, <1>5, <1>51, <1>6, Zenon DEF F
<1>8. \A i \in DOMAIN F : i \in DOMAIN Append(F, f) /\ Append(F, f)[i] = F[i]
  BY <1>3
<1>9. ~b.closed => \A r : Settled(r, s.lost, F) => Settled(r, b.lost, G)
  BY <1>1, <1>4, <1>5, <1>8, Zenon DEF Settled
<1>10. Added(f, Success(s, f, ok), s, F, b, G, sizes)
  BY <1>1, <1>3, <1>4, <1>5, <1>7, <1>9, Zenon DEF Added
<1>11. QED
  BY <1>10, Zenon DEF b, F, G

-----------------------------------------------------------------------------
(* The actions                                                             *)

\* session_send_frame works or does not.
LEMMA Oked == Oks \subseteq BOOLEAN
BY Zenon DEF Oks

\* A reply that is text is a frame.
LEMMA TextType ==
  ASSUME NEW t \in {"ACK", "ERROR", "GET_END", "OTHER"}, NEW r \in Nat
  PROVE  /\ Text(t, r) \in FrameType /\ Text(t, r).req_id = r /\ Text(t, r).type = t
         /\ ~IsChunk(Text(t, r))
BY Constants, Zenon DEF Text, FrameType, IsChunk

\* Every return to the loop: a good flow in which every request is settled.
LEMMA Returns ==
  ASSUME IInv, NEW b \in SessionType, session' = b, Exact(b), download' = Idle, pc' = "loop",
         wire' = wire, asked' \in Seq(Sizes), Len(asked') <= MaxRequests,
         Good(Sending(wire, b), asked'),
         ~b.closed => \A r \in 1..Len(asked') : Settled(r, b.lost, Sending(wire, b))
  PROVE  IInv'
<1>1. Idle \in DownloadType
  BY Zenon DEF Idle, DownloadType
<1>2. Types'
  BY <1>1, Zenon DEF IInv, Types
<1>3. Flow' = Sending(wire, b)
  BY Zenon DEF Flow
<1>4. QED
  BY <1>2, <1>3, Zenon DEF IInv

\* A session starts with no requests and nothing queued.
LEMMA InitI == Init => IInv
<1> SUFFICES ASSUME Init PROVE IInv
  BY Zenon
<1>1. Types
  BY Constants DEF Init, Types, SessionType, DownloadType, Idle
<1>2. session.queue = <<>> /\ session.pending = 0 /\ wire = <<>> /\ asked = <<>>
      /\ download = Idle /\ pc = "loop"
  BY Zenon DEF Init
<1>3. FrameSizes(<<>>) = <<>>
  BY DEF FrameSizes
<1>4. Exact(session)
  BY <1>2, <1>3, TotalEmpty, Constants DEF Exact
<1>5. Flow = <<>>
  BY <1>2 DEF Flow, Sending
<1>6. Good(Flow, asked)
  BY <1>5 DEF Good, InOrder
<1>7. QED
  BY <1>1, <1>2, <1>4, <1>6 DEF IInv

\* session_close takes what is queued from the end of the flow, and leaves it to
\* be cancelled.
LEMMA CloseI == IInv /\ Close => IInv'
<1> SUFFICES ASSUME IInv, Close PROVE IInv'
  BY Zenon
<1> DEFINE b == [session EXCEPT !.closed = TRUE]
<1>1. session \in SessionType /\ wire \in Seq(FrameType) /\ session.queue \in Seq(FrameType)
  BY Zenon DEF IInv, Types, SessionType
<1>2. b \in SessionType /\ b.closed /\ b.pending = session.pending /\ b.queue = session.queue
  BY <1>1, Zenon DEF SessionType
<1>4. session' = b /\ pc = "loop" /\ pc' = "loop" /\ wire' = wire /\ asked' = asked
      /\ download' = download
  BY Zenon DEF Close
<1> HIDE DEF b
<1>5. Exact(b)
  BY <1>2, Zenon DEF IInv, Exact
<1>6. Sending(wire, b) = wire
  BY <1>2, Zenon DEF Sending
<1>7. Good(Flow, asked) /\ Flow \in Seq(FrameType) /\ Len(wire) <= Len(Flow)
      /\ \A i \in 1..Len(wire) : Flow[i] = wire[i]
  <2>1. Good(Flow, asked) /\ Flow = wire \o session.queue
    BY Zenon DEF IInv, Flow, Sending, Close
  <2> QED BY <1>1, <2>1
<1>8. Good(wire, asked)
  BY <1>1, <1>7, GoodPrefix, Zenon
<1>9. download' = Idle
  BY <1>4, Zenon DEF IInv
<1>10. asked' \in Seq(Sizes) /\ Len(asked') <= MaxRequests
  BY <1>4, Zenon DEF IInv, Types
<1>11. QED
  BY <1>2, <1>4, <1>5, <1>6, <1>8, <1>9, <1>10, Returns, SMTT(30)

\* A frame that belongs to no request.
LEMMA SendOtherI == ASSUME NEW ok \in Oks PROVE IInv /\ SendOther(ok) => IInv'
<1> SUFFICES ASSUME IInv, SendOther(ok) PROVE IInv'
  BY Zenon
<1> DEFINE f == Text("OTHER", 0)
           b == Sent(session, f, ok)
<1>1. /\ session \in SessionType /\ wire \in Seq(FrameType) /\ Exact(session)
      /\ Good(Sending(wire, session), asked) /\ asked \in Seq(Sizes) /\ Len(asked) <= MaxRequests
      /\ download = Idle /\ pc = "loop" /\ ~session.closed
      /\ \A r \in 1..Len(asked) : Settled(r, session.lost, Sending(wire, session))
  BY Zenon DEF SendOther, IInv, Types, Flow
<1>2. session' = b /\ pc' = pc /\ wire' = wire /\ asked' = asked /\ download' = download
  BY Zenon DEF SendOther
<1>3. f \in FrameType /\ f.req_id = 0 /\ f.type = "OTHER" /\ ~IsChunk(f)
  BY TextType, Zenon
<1> HIDE DEF f
<1>4. f.req_id <= MaxRequests /\ Len(asked) \in Nat /\ ok \in BOOLEAN
  BY <1>1, <1>3, Constants, Oked, SMTT(30)
<1>5. Follows(f, Sending(wire, session), asked)
  BY <1>3, <1>4 DEF Follows
<1>6. /\ b \in SessionType /\ Exact(b) /\ Good(Sending(wire, b), asked)
      /\ ~b.closed => \A r : Settled(r, session.lost, Sending(wire, session))
                              => Settled(r, b.lost, Sending(wire, b))
  <2>1. Added(f, Success(session, f, ok), session, Flow, b, Sending(wire, b), asked)
    BY <1>1, <1>3, <1>4, <1>5, Adds, SMTT(30) DEF Flow
  <2> HIDE DEF b
  <2>2. QED
    BY <2>1, Zenon DEF Added, Flow
<1> HIDE DEF b
<1>7. QED
  BY <1>1, <1>2, <1>6, Returns

\* on_write_done moves a frame on, or cancels it, and its bytes are given back.
LEMMA WriteDoneI == IInv /\ WriteDone => IInv'
<1> SUFFICES ASSUME IInv, WriteDone PROVE IInv'
  BY Zenon
<1> DEFINE q == session.queue
           f == Head(q)
           b == session'
           w == wire'
           n == Len(wire)
<1>1. /\ session \in SessionType /\ wire \in Seq(FrameType) /\ q \in Seq(FrameType)
      /\ session.pending \in Nat /\ q # <<>>
      /\ asked \in Seq(Sizes) /\ Len(asked) <= MaxRequests
      /\ download = Idle /\ pc = "loop"
      /\ session.pending = Total(FrameSizes(q)) /\ session.pending <= MaxQueue
  BY Zenon DEF WriteDone, IInv, Types, Flow, Sending, SessionType, Exact
<1>2. f \in FrameType /\ Tail(q) \in Seq(FrameType)
  BY <1>1
<1>3. FrameSize(f) \in Nat
  BY <1>2, Constants, SMTT(30) DEF FrameType, FrameSize
<1>4. session.pending = FrameSize(f) + Total(Tail(FrameSizes(q)))
      /\ Total(Tail(FrameSizes(q))) \in Nat
  <2>1. FrameSizes(q) \in Seq(Nat) /\ FrameSizes(q) # <<>> /\ Head(FrameSizes(q)) = FrameSize(f)
    BY <1>1, SizesOf, Zenon
  <2>2. Tail(FrameSizes(q)) \in Seq(Nat)
    BY <2>1
  <2>3. QED
    BY <1>1, <2>1, <2>2, TotalTail, TotalNat, Zenon
<1> DEFINE p == session.pending - FrameSize(f)
<1>5. p \in Nat /\ p <= MaxQueue /\ p = Total(Tail(FrameSizes(q)))
      /\ session.pending >= FrameSize(f)
  BY <1>1, <1>3, <1>4, Constants, SMTT(30)
<1>6. session' = [session EXCEPT !.queue = Tail(q), !.pending = p]
  <2>1. session' = Release([session EXCEPT !.queue = Tail(q)], f)
    BY Zenon DEF WriteDone
  <2>2. [session EXCEPT !.queue = Tail(q)].pending = session.pending
    BY <1>1, Zenon DEF SessionType
  <2>3. QED
    BY <1>5, <2>1, <2>2 DEF Release
<1> HIDE DEF p
<1>7. b \in SessionType /\ b.queue = Tail(q) /\ b.pending = p /\ b.closed = session.closed
      /\ b.lost = session.lost
  BY <1>1, <1>2, <1>5, <1>6, Zenon DEF SessionType
<1>8. Exact(b)
  BY <1>1, <1>5, <1>7, SizesOf, Zenon DEF Exact
<1>9. /\ w = IF session.closed \/ f.req_id = 0 THEN wire ELSE Append(wire, f)
      /\ download' = download /\ pc' = pc /\ asked' = asked
  BY Zenon DEF WriteDone
<1>10. w \in Seq(FrameType)
  BY <1>1, <1>2, <1>9
<1> DEFINE F == wire \o q
           G == w \o Tail(q)
<1>11. Types'
  BY <1>1, <1>7, <1>9, <1>10, Zenon DEF IInv, Types
<1>111. CASE session.closed
  <2>1. Flow' = wire /\ Flow = wire
    BY <1>7, <1>9, <1>111, Zenon DEF Flow, Sending
  <2>2. Good(Flow', asked') /\ session'.closed
    BY <1>7, <1>9, <1>111, <2>1, Zenon DEF IInv
  <2> QED BY <1>1, <1>8, <1>9, <1>11, <2>2, SMTT(30) DEF IInv
<1>112. ~session.closed => /\ Good(wire \o q, asked)
                           /\ \A r \in 1..Len(asked) : Settled(r, session.lost, wire \o q)
  BY <1>1, Zenon DEF IInv, Flow, Sending
<1>12. ASSUME ~session.closed
       PROVE  Good(G, asked) /\ \A r \in 1..Len(asked) : Settled(r, b.lost, G)
  <2>1. CASE f.req_id # 0
    <3>1. w = Append(wire, f)
      BY <1>9, <1>12, <2>1, Zenon
    <3>2. G = F
      BY <1>1, <3>1, Moved, Zenon
    <3>3. QED
      BY <1>12, <1>112, <1>7, <3>2, Zenon
  <2>2. CASE f.req_id = 0
    <3>1. /\ F \in Seq(FrameType) /\ G \in Seq(FrameType) /\ n + 1 \in 1..Len(F)
          /\ F[n + 1] = f /\ Len(G) = Len(F) - 1 /\ n \in Nat
      BY <1>1, <1>2, <1>9, <2>2, SMTT(30)
    <3>2. \A i \in 1..Len(G) : G[i] = IF i < n + 1 THEN F[i] ELSE F[i + 1]
      BY <1>1, <1>2, <1>9, <2>2, SMTT(30)
    <3> HIDE DEF F, G, f, n
    <3>3. Good(F, asked)
      BY <1>12, <1>112, Zenon DEF F
    <3>4. Good(G, asked)
      BY <2>2, <3>1, <3>2, <3>3, GoodDropped, ZenonT(60)
    <3>5. ASSUME NEW r \in 1..Len(asked) PROVE Settled(r, b.lost, G)
      <4>1. Settled(r, session.lost, F) /\ r # 0
        <5>1. r # 0
          BY <1>1
        <5> QED BY <1>12, <1>112, <5>1, Zenon DEF F
      <4>2. CASE r \in session.lost
        BY <1>7, <4>2, Zenon DEF Settled
      <4>3. CASE \E i \in DOMAIN F : F[i].req_id = r /\ IsAnswer(F[i])
        <5>1. PICK i \in 1..Len(F) : F[i].req_id = r /\ IsAnswer(F[i])
          BY <3>1, <4>3
        <5>2. i # n + 1
          BY <2>2, <3>1, <4>1, <5>1, ZenonT(60)
        <5> DEFINE j == IF i < n + 1 THEN i ELSE i - 1
        <5>3. j \in 1..Len(G) /\ G[j] = F[i]
          BY <3>1, <3>2, <5>1, <5>2, SMTT(30)
        <5>4. j \in DOMAIN G /\ G[j] = F[i]
          BY <3>1, <5>3
        <5> HIDE DEF j
        <5>5. QED
          BY <5>1, <5>4, Zenon DEF Settled
      <4>4. QED
        BY <4>1, <4>2, <4>3, Zenon DEF Settled
    <3>6. QED
      BY <3>4, <3>5, Zenon
  <2>3. QED
    BY <2>1, <2>2, Zenon
<1>13. ~session.closed => Flow' = G
  BY <1>7, Zenon DEF Flow, Sending
<1>14. CASE ~session.closed
  <2>1. Flow' = G /\ Good(G, asked) /\ \A r \in 1..Len(asked) : Settled(r, b.lost, G)
    BY <1>12, <1>13, <1>14, Zenon
  <2> HIDE DEF G
  <2>2. /\ Good(Flow', asked')
        /\ \A r \in 1..Len(asked') : Settled(r, session'.lost, Flow')
    BY <1>9, <2>1, Zenon
  <2>3. pc' = "loop" /\ download' = Idle
    BY <1>1, <1>9, Zenon
  <2>4. ~(pc' = "reading")
    BY <2>3
  <2> QED BY <1>8, <1>11, <2>2, <2>3, <2>4, Zenon DEF IInv
<1>15. QED
  BY <1>111, <1>14, Zenon

\* Every way from GET_BEGIN to the first read.
LEMMA GetBeginI ==
  ASSUME NEW ok \in Oks, NEW size \in Sizes PROVE IInv /\ GetBegin(size, ok) => IInv'
<1> SUFFICES ASSUME IInv, GetBegin(size, ok) PROVE IInv'
  BY Zenon
<1> DEFINE r == Len(asked) + 1
           more == Append(asked, size)
           F == Sending(wire, session)
           ack == Text("ACK", r)
           err == Text("ERROR", r)
<1>1. /\ session \in SessionType /\ wire \in Seq(FrameType) /\ Exact(session)
      /\ Good(F, asked) /\ asked \in Seq(Sizes) /\ Len(asked) < MaxRequests /\ Len(asked) \in Nat
      /\ ~session.closed => \A k \in 1..Len(asked) : Settled(k, session.lost, F)
  BY DEF GetBegin, IInv, Types, Flow
<1>2. /\ asked' = more /\ more \in Seq(Sizes) /\ Len(more) = r
      /\ more[r] = size /\ r <= MaxRequests /\ r \in Nat \ {0} /\ wire' = wire
      /\ size \in Nat /\ ok \in BOOLEAN
  BY <1>1, Constants, Oked, SMTT(30) DEF GetBegin
<1>3. F \in Seq(FrameType)
  BY <1>1 DEF SessionType, Sending
<1>4. \A i \in DOMAIN F : F[i].req_id # r
  <2> HIDE DEF F
  <2>1. \A i \in DOMAIN F : Preceded(F, i, asked)
    BY <1>1, Zenon DEF Good
  <2>2. \A i \in DOMAIN F : F[i].req_id \in 0..Len(asked)
    BY <2>1, Zenon DEF Preceded
  <2>3. QED
    BY <1>1, <2>2
<1>5. Good(F, more)
  BY <1>1, <1>3, GoodAsked, Zenon
<1>6. ack \in FrameType /\ ack.req_id = r /\ ack.req_id <= MaxRequests /\ ack.type = "ACK"
      /\ ~IsChunk(ack)
  BY <1>2, TextType
<1>7. err \in FrameType /\ err.req_id = r /\ err.req_id <= MaxRequests /\ err.type = "ERROR"
      /\ ~IsChunk(err)
  BY <1>2, TextType, SMTT(30)
<1> DEFINE b == Sent(session, ack, ok)
           G == Sending(wire, b)
<1>8. \/ "open" \in Faults /\ Fail(Sent(session, err, ok))
      \/ ~Success(session, ack, ok) /\ Fail(b)
      \/ Success(session, ack, ok) /\ \E again \in Oks : Fail(Sent(b, err, again))
      \/ /\ Success(session, ack, ok) /\ session' = b
         /\ download' = [active |-> TRUE, open |-> TRUE, req_id |-> r,
                         total_size |-> size, offset |-> 0]
         /\ pc' = "reading"
  BY SMTT(30) DEF GetBegin
<1> HIDE DEF F, ack, err, r, more
<1>9. Follows(ack, F, more) /\ Follows(err, F, more)
  BY <1>2, <1>4, <1>6, <1>7, SMTT(30) DEF Follows
<1>91. /\ Good(Sending(wire, session), more) /\ Follows(ack, Sending(wire, session), more)
       /\ Follows(err, Sending(wire, session), more)
  BY <1>5, <1>9, Zenon DEF F
<1>92. session \in SessionType /\ Exact(session) /\ wire \in Seq(FrameType) /\ ok \in BOOLEAN
  BY <1>1, <1>2, Zenon
<1>10. /\ b \in SessionType /\ Exact(b) /\ Good(G, more) /\ G \in Seq(FrameType)
       /\ session.closed => b.closed
       /\ ~b.closed => \A k : Settled(k, session.lost, F) => Settled(k, b.lost, G)
       /\ Success(session, ack, ok) => ~b.closed /\ G = Append(F, ack)
       /\ ~Success(session, ack, ok) => b.closed \/ r \in b.lost
  <2>1. Added(ack, Success(session, ack, ok), session, F, b, G, more)
    BY <1>6, <1>91, <1>92, Adds, SMTT(30) DEF F
  <2> HIDE DEF b, G
  <2>2. QED
    BY <1>6, <2>1, Zenon DEF Added
<1>11. CASE Fail(Sent(session, err, ok))
  <2> DEFINE c == Sent(session, err, ok)
             H == Sending(wire, c)
  <2>1. /\ c \in SessionType /\ Exact(c) /\ Good(H, more)
        /\ session.closed => c.closed
        /\ ~c.closed => \A k : Settled(k, session.lost, F) => Settled(k, c.lost, H)
        /\ Success(session, err, ok) => H = Append(F, err)
        /\ ~Success(session, err, ok) => c.closed \/ r \in c.lost
    <3>1. Added(err, Success(session, err, ok), session, F, c, H, more)
      BY <1>7, <1>91, <1>92, Adds, SMTT(30) DEF F
    <3> HIDE DEF c, H
    <3>2. QED
      BY <1>7, <3>1, ZenonT(60) DEF Added
  <2> HIDE DEF c, H
  <2>2. c.closed \/ Settled(r, c.lost, H)
    <3>1. Len(F) + 1 \in DOMAIN Append(F, err) /\ Append(F, err)[Len(F) + 1] = err
      BY <1>3, <1>7
    <3>2. IsAnswer(err)
      BY <1>7, Zenon DEF IsAnswer
    <3>3. CASE Success(session, err, ok)
      <4>1. H = Append(F, err)
        BY <3>3, <2>1, Zenon
      <4>2. Len(F) + 1 \in DOMAIN H /\ H[Len(F) + 1] = err /\ err.req_id = r
        BY <1>7, <3>1, <4>1, Zenon
      <4>3. QED
        BY <3>2, <4>2, Zenon DEF Settled
    <3>4. CASE ~Success(session, err, ok)
      BY <3>4, <2>1, ZenonT(60) DEF Settled
    <3>5. QED
      BY <3>3, <3>4, Zenon
  <2>3. ~c.closed => \A k \in 1..Len(more) : Settled(k, c.lost, H)
    BY <1>1, <1>2, <2>1, <2>2, SMTT(30) DEF r
  <2>4. session' = c /\ download' = Idle /\ pc' = "loop"
    BY <1>11, ZenonT(60) DEF Fail, c
  <2>5. QED
    BY <1>2, <2>1, <2>3, <2>4, Returns, SMTT(30) DEF H
<1>12. CASE ~Success(session, ack, ok) /\ Fail(b)
  <2> HIDE DEF b, G
  <2>1. ~b.closed => \A k \in 1..Len(more) : Settled(k, b.lost, G)
    BY <1>1, <1>2, <1>10, <1>12, SMTT(30) DEF r, Settled
  <2>2. session' = b /\ download' = Idle /\ pc' = "loop"
    BY <1>12, SMTT(30) DEF Fail
  <2>3. QED
    BY <1>2, <1>10, <2>1, <2>2, Returns, SMTT(30) DEF G
<1> HIDE DEF b
<1>13. ASSUME NEW again \in Oks, Success(session, ack, ok), Fail(Sent(b, err, again))
       PROVE  IInv'
  <2> DEFINE c == Sent(b, err, again)
             H == Sending(wire, c)
  <2>0. G = Append(F, ack)
    BY <1>10, <1>13, Zenon
  <2> HIDE DEF G
  <2>1. DOMAIN G = 1..(Len(F) + 1) /\ G[Len(F) + 1] = ack
        /\ DOMAIN F = 1..Len(F) /\ Len(F) \in Nat /\ \A i \in 1..Len(F) : G[i] = F[i]
    BY <1>3, <1>6, <2>0, SMTT(30)
  <2>2. \A i \in DOMAIN G : G[i].req_id = r => ~IsAnswer(G[i])
    BY <1>3, <1>4, <1>6, <2>1, SMTT(30) DEF IsAnswer
  <2>3. Follows(err, G, more) /\ again \in BOOLEAN
    BY <1>2, <1>7, <2>2, Oked, SMTT(30) DEF Follows
  <2>4. /\ c \in SessionType /\ Exact(c) /\ Good(H, more)
        /\ b.closed => c.closed
        /\ ~c.closed => \A k : Settled(k, b.lost, G) => Settled(k, c.lost, H)
        /\ Success(b, err, again) => H = Append(G, err)
        /\ ~Success(b, err, again) => c.closed \/ r \in c.lost
    <3>1. Added(err, Success(b, err, again), b, G, c, H, more)
      BY <1>7, <1>10, <1>92, <2>3, Adds, SMTT(30) DEF G
    <3> HIDE DEF c, H
    <3>2. QED
      BY <1>7, <3>1, SMTT(30) DEF Added
  <2> HIDE DEF c, H
  <2>5. c.closed \/ Settled(r, c.lost, H)
    <3>1. Len(G) + 1 \in DOMAIN Append(G, err) /\ Append(G, err)[Len(G) + 1] = err
      <4>1. G \in Seq(FrameType) /\ err \in FrameType
        BY <1>7, <1>10, Zenon
      <4>2. QED
        BY <4>1
    <3>2. IsAnswer(err)
      BY <1>7, Zenon DEF IsAnswer
    <3>3. CASE Success(b, err, again)
      <4>1. H = Append(G, err)
        BY <3>3, <2>4, Zenon
      <4>2. Len(G) + 1 \in DOMAIN H /\ H[Len(G) + 1] = err /\ err.req_id = r
        BY <1>7, <3>1, <4>1, Zenon
      <4>3. QED
        BY <3>2, <4>2, Zenon DEF Settled
    <3>4. CASE ~Success(b, err, again)
      BY <3>4, <2>4, Zenon DEF Settled
    <3>5. QED
      BY <3>3, <3>4, Zenon
  <2>6. ~c.closed => \A k \in 1..Len(more) : Settled(k, c.lost, H)
    <3> SUFFICES ASSUME ~c.closed, NEW k \in 1..Len(more) PROVE Settled(k, c.lost, H)
      BY Zenon
    <3>1. ~b.closed /\ ~session.closed
      BY <1>10, <2>4, Zenon
    <3>2. k = r \/ k \in 1..Len(asked)
      BY <1>1, <1>2 DEF r
    <3>3. CASE k = r
      BY <2>5, <3>3, Zenon
    <3>4. CASE k \in 1..Len(asked)
      <4>1. Settled(k, session.lost, F)
        BY <1>1, <3>1, <3>4, Zenon
      <4>2. Settled(k, b.lost, G)
        BY <1>10, <3>1, <4>1, Zenon
      <4>3. QED
        BY <2>4, <4>2, Zenon
    <3>5. QED
      BY <3>2, <3>3, <3>4, Zenon
  <2>7. session' = c /\ download' = Idle /\ pc' = "loop"
    BY <1>13, ZenonT(60) DEF Fail, c
  <2>8. QED
    BY <1>2, <2>4, <2>6, <2>7, Returns, Zenon DEF H
<1>14. CASE /\ Success(session, ack, ok) /\ session' = b
            /\ download' = [active |-> TRUE, open |-> TRUE, req_id |-> r,
                            total_size |-> size, offset |-> 0]
            /\ pc' = "reading"
  <2>1. G = Append(F, ack) /\ DOMAIN G = 1..(Len(F) + 1) /\ G[Len(F) + 1] = ack
        /\ DOMAIN F = 1..Len(F) /\ Len(F) \in Nat /\ \A i \in 1..Len(F) : G[i] = F[i]
    <3>1. G = Append(F, ack)
      BY <1>10, <1>14, Zenon
    <3> HIDE DEF G
    <3>2. QED
      BY <1>3, <1>6, <3>1
  <2>2. Flow' = G
    BY <1>2, <1>14, Zenon DEF Flow
  <2>3. download' \in DownloadType /\ download'.req_id = r /\ download'.total_size = size
        /\ download'.offset = 0
    BY <1>2, <1>14, ZenonT(60) DEF DownloadType
  <2>4. Types'
    BY <1>1, <1>2, <1>10, <1>14, <2>3, SMTT(30) DEF Types
  <2> HIDE DEF G
  <2>5. \A i \in DOMAIN G : G[i].req_id = r => ~IsAnswer(G[i]) /\ ~IsChunk(G[i])
    BY <1>3, <1>4, <1>6, <2>1, SMTT(30) DEF IsAnswer
  <2>6. \E i \in DOMAIN G : G[i].req_id = r /\ G[i].type = "ACK"
    BY <1>6, <2>1
  <2>7. ~session'.closed
    BY <1>10, <1>14, Zenon
  <2>8. Reading'
    BY <1>2, <2>2, <2>3, <2>5, <2>6, <2>7, SMTT(30) DEF Reading
  <2>9. \A k \in 1..Len(more) : k < Len(more) => Settled(k, session'.lost, G)
    BY <1>1, <1>2, <1>10, <1>14, <2>7, SMTT(30) DEF r
  <2>10. QED
    <3>1. Exact(session') /\ Good(Flow', asked') /\ pc' = "reading" /\ asked' = more
      BY <1>2, <1>10, <1>14, <2>2, ZenonT(60)
    <3>2. QED
      BY <2>2, <2>4, <2>8, <2>9, <3>1, ZenonT(30) DEF IInv
<1>15. QED
  BY <1>8, <1>11, <1>12, <1>13, <1>14, Zenon DEF b

\* A chunk continues the one before it, or the session is closed or short of
\* memory.
LEMMA SendChunkI ==
  ASSUME NEW ok \in Oks, NEW n \in 1..ChunkSize PROVE IInv /\ SendChunk(n, ok) => IInv'
<1> SUFFICES ASSUME IInv, SendChunk(n, ok) PROVE IInv'
  BY Zenon
<1> DEFINE r == Len(asked)
           f == [type |-> "GET_CHUNK", req_id |-> download.req_id,
                 from |-> download.offset, len |-> n]
           b == Sent(session, f, ok)
           G == Sending(wire, b)
           o == download.offset
<1>1. /\ session \in SessionType /\ wire \in Seq(FrameType) /\ Exact(session)
      /\ Good(Flow, asked) /\ asked \in Seq(Sizes) /\ Len(asked) <= MaxRequests
      /\ download \in DownloadType /\ Reading /\ pc = "reading" /\ Types
      /\ \A k \in 1..Len(asked) : k < Len(asked) => Settled(k, session.lost, Flow)
  BY ZenonT(60) DEF SendChunk, IInv, Types, Reading
<1>2. /\ r \in Nat \ {0} /\ download.req_id = r /\ download.total_size = asked[r]
      /\ asked[r] \in Nat
      /\ o \in Nat /\ n \in Nat /\ ok \in BOOLEAN /\ ~session.closed
  BY <1>1, Oked, Constants DEF Reading, DownloadType
<1>3. o < asked[r] /\ n \in 1..Least(ChunkSize, asked[r] - o)
  BY <1>2, Zenon DEF SendChunk, Reads
<1>4. n > 0 /\ o + n <= asked[r]
  BY <1>2, <1>3, Constants, SMTT(30) DEF Least
<1>5. /\ f \in FrameType /\ f.req_id = r /\ f.type = "GET_CHUNK" /\ f.from = o /\ f.len = n
      /\ IsChunk(f) /\ End(f) = o + n /\ ~IsAnswer(f)
  BY <1>2, Zenon DEF FrameType, IsChunk, End, IsAnswer
<1>6. \/ /\ Success(session, f, ok) /\ session' = b
         /\ download' = [download EXCEPT !.offset = @ + Advance(n)] /\ pc' = pc
      \/ ~Success(session, f, ok) /\ Fail(b)
  BY Zenon DEF SendChunk
<1>7. wire' = wire /\ asked' = asked
  BY Zenon DEF SendChunk
<1> HIDE DEF f, r, o
<1>8. Follows(f, Flow, asked)
  <2>1. \E k \in DOMAIN Flow : Flow[k].req_id = r /\ Flow[k].type = "ACK"
    BY <1>1, Zenon DEF Reading, r
  <2>2. o = 0 \/ \E k \in DOMAIN Flow : EndsAt(Flow, k, r, o)
    BY <1>1, Zenon DEF Reading, r, o
  <2>3. \A i \in DOMAIN Flow :
          Flow[i].req_id = r =>
            ~IsAnswer(Flow[i]) /\ (IsChunk(Flow[i]) => End(Flow[i]) <= o)
    BY <1>1, Zenon DEF Reading, r, o
  <2>4. r \in 0..Len(asked) /\ r # 0
    BY <1>2 DEF r
  <2>5. f.type # "ACK" /\ f.type # "GET_END"
    BY <1>5, Zenon
  <2>6. f.len > 0 /\ End(f) <= asked[r]
    BY <1>4, <1>5, ZenonT(60)
  <2>7. QED
    BY <1>5, <2>1, <2>2, <2>3, <2>4, <2>5, <2>6, ZenonT(60) DEF Follows
<1>9. Added(f, Success(session, f, ok), session, Flow, b, G, asked)
  BY <1>1, <1>2, <1>5, <1>8, Adds, SMTT(30) DEF Flow, r
<1> HIDE DEF b, G
<1>10. CASE ~Success(session, f, ok) /\ Fail(b)
  <2>0. /\ b.closed \/ Settled(r, b.lost, G)
        /\ ~b.closed => \A k : Settled(k, session.lost, Flow) => Settled(k, b.lost, G)
    <3>1. ~b.closed => \A k : Settled(k, session.lost, Flow) => Settled(k, b.lost, G)
      BY <1>9, Zenon DEF Added
    <3>2. b.closed \/ f.req_id \in b.lost
      BY <1>9, <1>10, Zenon DEF Added
    <3>3. QED
      BY <1>5, <3>1, <3>2, Zenon DEF Settled
  <2>1. ~b.closed => \A k \in 1..Len(asked) : Settled(k, b.lost, G)
    <3> SUFFICES ASSUME ~b.closed, NEW k \in 1..Len(asked) PROVE Settled(k, b.lost, G)
      BY Zenon
    <3>1. k = r \/ k < Len(asked)
      BY <1>2 DEF r
    <3>2. CASE k = r
      BY <2>0, <3>2, Zenon
    <3>3. CASE k < Len(asked)
      BY <1>1, <2>0, <3>3, Zenon
    <3>4. QED
      BY <3>1, <3>2, <3>3, Zenon
  <2>2. session' = b /\ download' = Idle /\ pc' = "loop"
    BY <1>10, Zenon DEF Fail
  <2>3. b \in SessionType /\ Exact(b) /\ Good(G, asked)
    BY <1>9, Zenon DEF Added
  <2>4. QED
    BY <1>1, <1>7, <2>1, <2>2, <2>3, Returns, SMTT(30) DEF G
<1>11. CASE /\ Success(session, f, ok) /\ session' = b
            /\ download' = [download EXCEPT !.offset = @ + Advance(n)] /\ pc' = pc
  <2>1. /\ download' \in DownloadType /\ download'.req_id = r /\ download'.total_size = asked[r]
        /\ download'.offset = o + n
    <3>1. download' = [download EXCEPT !.offset = o + n]
      BY <1>11, Zenon DEF Advance, o
    <3>2. o + n \in Nat
      BY <1>2
    <3>3. QED
      BY <1>1, <1>2, <3>1, <3>2, Zenon DEF DownloadType
  <2>2. /\ b \in SessionType /\ Exact(b) /\ Good(G, asked) /\ ~b.closed
        /\ Flow \in Seq(FrameType) /\ G \in Seq(FrameType) /\ G = Append(Flow, f)
        /\ \A k : Settled(k, session.lost, Flow) => Settled(k, b.lost, G)
    BY <1>9, <1>11 DEF Added
  <2>3. Flow' = G
    BY <1>7, <1>11, Zenon DEF Flow, G
  <2>4. Types'
    BY <1>1, <1>7, <1>11, <2>1, <2>2, SMTT(30) DEF Types
  <2>5. /\ Len(Flow) \in Nat /\ DOMAIN Flow = 1..Len(Flow) /\ DOMAIN G = 1..(Len(Flow) + 1)
        /\ G[Len(Flow) + 1] = f /\ \A i \in 1..Len(Flow) : G[i] = Flow[i]
    BY <1>5, <2>2, SMTT(30)
  <2>6. Reading'
    <3>1. \E i \in DOMAIN G : G[i].req_id = r /\ G[i].type = "ACK"
      <4>1. PICK i \in DOMAIN Flow : Flow[i].req_id = r /\ Flow[i].type = "ACK"
        BY <1>1, Zenon DEF Reading, r
      <4>2. i \in DOMAIN G /\ G[i] = Flow[i]
        BY <2>5, SMTT(30)
      <4>3. QED
        BY <4>1, <4>2, Zenon
    <3>2. ASSUME NEW i \in DOMAIN G, G[i].req_id = r
          PROVE  ~IsAnswer(G[i]) /\ (IsChunk(G[i]) => End(G[i]) <= o + n)
      <4>1. CASE i = Len(Flow) + 1
        BY <1>2, <1>5, <2>5, <4>1, SMTT(30)
      <4>2. CASE i \in DOMAIN Flow
        <5>1. G[i] = Flow[i] /\ Flow[i] \in FrameType
          BY <2>2, <2>5, <4>2, SMTT(30)
        <5>2. End(Flow[i]) \in Nat
          BY <5>1 DEF End, FrameType
        <5>3. ~IsAnswer(Flow[i]) /\ (IsChunk(Flow[i]) => End(Flow[i]) <= o)
          BY <1>1, <3>2, <4>2, <5>1, ZenonT(60) DEF Reading, r, o
        <5>4. QED
          BY <1>2, <5>1, <5>2, <5>3, SMTT(30)
      <4>3. QED
        BY <2>5, <4>1, <4>2, SMTT(30)
    <3>3. EndsAt(G, Len(Flow) + 1, r, o + n) /\ Len(Flow) + 1 \in DOMAIN G
      BY <1>5, <2>5 DEF EndsAt
    <3>4. session' = b /\ asked' = asked
      BY <1>7, <1>11, Zenon
    <3>5. Reading' <=>
            /\ ~b.closed /\ r > 0 /\ download'.req_id = r
            /\ download'.total_size = asked[r] /\ download'.offset <= asked[r]
            /\ \E i \in DOMAIN G : G[i].req_id = r /\ G[i].type = "ACK"
            /\ \A i \in DOMAIN G :
                 G[i].req_id = r =>
                   ~IsAnswer(G[i]) /\ (IsChunk(G[i]) => End(G[i]) <= download'.offset)
            /\ download'.offset = 0 \/ \E i \in DOMAIN G : EndsAt(G, i, r, download'.offset)
      BY <2>3, <3>4, Zenon DEF Reading, r
    <3>6. r > 0
      BY <1>2
    <3>7. QED
      BY <1>4, <2>1, <2>2, <3>1, <3>2, <3>3, <3>5, <3>6, SMTT(60)
  <2>7. \A k \in 1..Len(asked) : k < Len(asked) => Settled(k, b.lost, G)
    BY <1>1, <2>2, Zenon
  <2>8. QED
    BY <1>1, <1>7, <1>11, <2>2, <2>3, <2>4, <2>6, <2>7, SMTT(30) DEF IInv
<1>12. QED
  BY <1>6, <1>10, <1>11, Zenon

\* An answer to the request that get_begin is about settles it.
LEMMA Answers ==
  ASSUME IInv, pc = "reading", NEW ok \in Oks, NEW t \in {"GET_END", "ERROR"},
         t = "GET_END" => download.offset >= download.total_size,
         Fail(Sent(session, Text(t, download.req_id), ok)), UNCHANGED <<wire, asked>>
  PROVE  IInv'
<1> DEFINE r == Len(asked)
           f == Text(t, r)
           b == Sent(session, f, ok)
           G == Sending(wire, b)
<1>1. /\ session \in SessionType /\ wire \in Seq(FrameType) /\ Exact(session)
      /\ Good(Flow, asked) /\ asked \in Seq(Sizes) /\ Len(asked) <= MaxRequests
      /\ download \in DownloadType /\ Reading
      /\ \A k \in 1..Len(asked) : k < Len(asked) => Settled(k, session.lost, Flow)
  <2>1. Reading /\ ~session.closed
    BY Zenon DEF IInv, Reading
  <2>2. QED
    BY <2>1, SMTT(30) DEF IInv, Types
<1>2. /\ r \in Nat \ {0} /\ download.req_id = r /\ ok \in BOOLEAN
      /\ t = "GET_END" => download.offset = asked[r]
  <2>1. /\ r > 0 /\ r \in Nat /\ download.req_id = r /\ download.total_size = asked[r]
        /\ download.offset <= asked[r] /\ ok \in BOOLEAN
    <3>1. /\ r > 0 /\ download.req_id = r /\ download.total_size = asked[r]
          /\ download.offset <= asked[r]
      BY <1>1, Zenon DEF Reading
    <3>2. r \in Nat /\ ok \in BOOLEAN
      BY <1>1, Oked
    <3>3. QED
      BY <3>1, <3>2, Zenon
  <2>2. download.offset \in Nat /\ download.total_size \in Nat
    BY <1>1, Zenon DEF DownloadType
  <2>3. QED
    BY <2>1, <2>2
<1>3. f \in FrameType /\ f.req_id = r /\ f.type = t /\ ~IsChunk(f) /\ IsAnswer(f)
  <2>1. f \in FrameType /\ f.req_id = r /\ f.type = t /\ ~IsChunk(f)
    BY <1>2, TextType
  <2>2. QED
    BY <2>1, Zenon DEF IsAnswer
<1>4. session' = b /\ download' = Idle /\ pc' = "loop" /\ wire' = wire /\ asked' = asked
  BY <1>2, Zenon DEF Fail
<1> HIDE DEF f
<1>5. Follows(f, Flow, asked)
  <2>1. \E k \in DOMAIN Flow : Flow[k].req_id = r /\ Flow[k].type = "ACK"
    BY <1>1, Zenon DEF Reading
  <2>2. download.offset = 0 \/ \E k \in DOMAIN Flow : EndsAt(Flow, k, r, download.offset)
    BY <1>1, Zenon DEF Reading
  <2>3. \A i \in DOMAIN Flow : Flow[i].req_id = r => ~IsAnswer(Flow[i])
    BY <1>1, Zenon DEF Reading
  <2>4. r \in 0..Len(asked) /\ r # 0
    BY <1>2
  <2>5. t # "ACK"
    BY Zenon
  <2> HIDE DEF r
  <2>6. QED
    BY <1>2, <1>3, <2>1, <2>2, <2>3, <2>4, <2>5, ZenonT(60) DEF Follows
<1> HIDE DEF r
<1>6. Added(f, Success(session, f, ok), session, Flow, b, G, asked)
  BY <1>1, <1>2, <1>3, <1>5, Adds, ZenonT(60) DEF Flow, r
<1> HIDE DEF b, G
<1>7. b.closed \/ Settled(r, b.lost, G)
  <2>1. CASE Success(session, f, ok)
    <3>1. G = Append(Flow, f) /\ Flow \in Seq(FrameType)
      BY <1>6, <2>1, SMTT(30) DEF Added
    <3>2. Len(Flow) + 1 \in DOMAIN G /\ G[Len(Flow) + 1] = f
      BY <1>3, <3>1, SMTT(30)
    <3>3. QED
      BY <1>3, <3>2, SMTT(30) DEF Settled
  <2>2. CASE ~Success(session, f, ok)
    BY <1>3, <1>6, <2>2, Zenon DEF Added, Settled
  <2>3. QED
    BY <2>1, <2>2, ZenonT(60)
<1>8. /\ b \in SessionType /\ Exact(b) /\ Good(G, asked)
      /\ ~b.closed => \A k : Settled(k, session.lost, Flow) => Settled(k, b.lost, G)
  BY <1>6, Zenon DEF Added
<1>9. ~b.closed => \A k \in 1..Len(asked) : Settled(k, b.lost, G)
  BY <1>1, <1>2, <1>7, <1>8, SMTT(30) DEF r
<1>10. QED
  BY <1>1, <1>4, <1>8, <1>9, Returns, ZenonT(60) DEF G

\* Every step keeps the invariant.
LEMMA NextI == IInv /\ [Next]_vars => IInv'
<1> SUFFICES ASSUME IInv, [Next]_vars PROVE IInv'
  BY Zenon
<1>1. CASE WriteDone
  BY <1>1, WriteDoneI, Zenon
<1>2. CASE Close
  BY <1>2, CloseI, Zenon
<1>3. ASSUME NEW ok \in Oks, SendOther(ok) PROVE IInv'
  BY <1>3, SendOtherI, Zenon
<1>4. ASSUME NEW ok \in Oks, GetEnd(ok) PROVE IInv'
  BY <1>4, Answers, Zenon DEF GetEnd
<1>5. ASSUME NEW ok \in Oks, ReadFails(ok) PROVE IInv'
  BY <1>5, Answers, Zenon DEF ReadFails, ReadFailed
<1>6. ASSUME NEW ok \in Oks, NEW size \in Sizes, GetBegin(size, ok) PROVE IInv'
  BY <1>6, GetBeginI, Zenon
<1>7. ASSUME NEW ok \in Oks, NEW n \in 1..ChunkSize, SendChunk(n, ok) PROVE IInv'
  BY <1>7, SendChunkI, Zenon
<1>8. CASE UNCHANGED vars
  BY <1>8, Zenon DEF vars, IInv, Types, Exact, Flow, Reading, Sending
<1>9. QED
  BY <1>1, <1>2, <1>3, <1>4, <1>5, <1>6, <1>7, <1>8, SMTT(30) DEF Next

\* The invariant is one: it holds of every reachable state.
THEOREM Invariance == Spec => []IInv
<1>1. Init => IInv
  BY InitI, Zenon
<1>2. IInv /\ [Next]_vars => IInv'
  BY NextI, Zenon
<1>3. QED
  BY <1>1, <1>2, PTL DEF Spec

-----------------------------------------------------------------------------
(* The properties                                                          *)

\* pending_write_bytes is what libuv holds for the session, for every limit.
THEOREM PendingIsExact == Spec => []PendingExact
<1>1. IInv => PendingExact
  BY Zenon DEF IInv, Exact, FrameSizes, PendingExact
<1>2. QED
  BY <1>1, Invariance, PTL

\* Every variable has its type, and no download outlives its event.
THEOREM TypeCorrect == Spec => []TypeOK
<1>1. IInv => TypeOK
  <2> SUFFICES ASSUME IInv PROVE TypeOK
    BY Zenon
  <2>1. /\ session.closed \in BOOLEAN /\ session.pending \in Nat /\ session.pending <= MaxQueue
        /\ session.lost \subseteq 0..MaxRequests
        /\ download.active \in BOOLEAN /\ download.open \in BOOLEAN
        /\ download.offset \in Nat /\ download.total_size \in Nat
        /\ pc \in {"loop", "reading"} /\ asked \in Seq(Sizes) /\ Len(asked) <= MaxRequests
    BY Zenon DEF IInv, Types, SessionType, DownloadType, Exact
  <2>2. pc = "loop" => ~download.active /\ ~download.open /\ download.offset <= download.total_size
    BY SMTT(30) DEF IInv, Idle
  <2>3. pc = "reading" => download.offset <= download.total_size
    BY Zenon DEF IInv, Reading
  <2>4. session.pending \in 0..MaxQueue /\ download.offset \in 0..download.total_size
    BY <2>1, <2>2, <2>3, Constants, SMTT(30)
  <2>5. QED
    BY <2>1, <2>2, <2>4, Zenon DEF TypeOK
<1>2. QED
  BY <1>1, Invariance, PTL

\* The frames before a place of the flow, as the client has them.
LEMMA WireGood == IInv => wire \in Seq(FrameType) /\ Good(wire, asked)
<1> SUFFICES ASSUME IInv PROVE wire \in Seq(FrameType) /\ Good(wire, asked)
  BY Zenon
<1>1. wire \in Seq(FrameType) /\ session.queue \in Seq(FrameType) /\ Good(Flow, asked)
  BY Zenon DEF IInv, Types, SessionType
<1>2. Flow \in Seq(FrameType) /\ Len(wire) <= Len(Flow) /\ \A i \in 1..Len(wire) : Flow[i] = wire[i]
  <2>1. Flow = wire \/ Flow = wire \o session.queue
    BY Zenon DEF Flow, Sending
  <2>2. CASE Flow = wire
    BY <1>1, <2>2
  <2>3. CASE Flow = wire \o session.queue
    BY <1>1, <2>3
  <2> QED BY <2>1, <2>2, <2>3, Zenon
<1>3. QED
  BY <1>1, <1>2, GoodPrefix, Zenon

\* If the chunks of r before place n reach m, the last of them ends there.
LEMMA LastReaches ==
  ASSUME NEW w \in Seq(FrameType), NEW sizes, Good(w, sizes), NEW r \in Nat \ {0},
         NEW n \in DOMAIN w, w[n].req_id = r, NEW m \in Nat,
         \A k \in 1..(n - 1) : w[k].req_id = r /\ IsChunk(w[k]) => End(w[k]) <= m,
         m = 0 \/ \E k \in 1..(n - 1) : EndsAt(w, k, r, m)
  PROVE  Reached(r, w, n) = m
<1> DEFINE before == {i \in Places(r, w, {"GET_CHUNK"}) : i < n}
           l == Max(before)
<1>1. DOMAIN w = 1..Len(w) /\ Len(w) \in Nat /\ n \in Nat /\ \A k \in DOMAIN w : w[k] \in FrameType
  BY SMTT(30)
<1>2. \A i : i \in before <=> i \in 1..(n - 1) /\ w[i].req_id = r /\ IsChunk(w[i])
  BY <1>1 DEF Places, IsChunk
<1>3. \A i \in before :
        w[i].len > 0 /\ w[i].len \in Nat /\ w[i].from \in Nat /\ End(w[i]) = w[i].from + w[i].len
  <2> SUFFICES ASSUME NEW i \in before
               PROVE  w[i].len > 0 /\ w[i].len \in Nat /\ w[i].from \in Nat
                      /\ End(w[i]) = w[i].from + w[i].len
    BY ZenonT(60)
  <2>1. i \in DOMAIN w /\ IsChunk(w[i])
    BY <1>1, <1>2
  <2>2. w[i].len > 0
    BY <2>1, ZenonT(60) DEF Good, Preceded
  <2>3. w[i].len \in Nat /\ w[i].from \in Nat
    BY <1>1, <2>1, SMTT(60) DEF FrameType
  <2>4. QED
    BY <2>2, <2>3, Zenon DEF End
<1>4. CASE before = {}
  <2>1. m = 0
    BY <1>2, <1>4, Zenon DEF EndsAt
  <2>2. QED
    BY <1>4, <2>1, Zenon DEF Reached
<1>5. CASE before # {}
  <2>1. PICK k \in before : End(w[k]) = m
    <3>1. PICK i \in before : TRUE
      BY <1>5, Zenon
    <3>2. m # 0
      BY <1>2, <1>3, <3>1, SMTT(60)
    <3>3. QED
      BY <1>2, <3>2, Zenon DEF EndsAt
  <2>2. \A i \in before : i <= k
    <3> SUFFICES ASSUME NEW i \in before, i > k PROVE FALSE
      BY <1>1, <1>2, <2>1, SMTT(30)
    <3>1. End(w[k]) <= w[i].from
      BY <1>1, <1>2, <2>1, SMTT(30) DEF Good, InOrder
    <3>2. End(w[i]) <= m
      BY <1>2, ZenonT(60)
    <3>3. QED
      BY <1>3, <2>1, <3>1, <3>2, SMTT(60)
  <2>3. before \subseteq Nat
    BY <1>1, <1>2, SMTT(30)
  <2> HIDE DEF before
  <2>4. Max(before) = k
    BY <2>1, <2>2, <2>3, SMTT(30) DEF Max
  <2>5. QED
    BY <1>3, <1>5, <2>1, <2>4, Zenon DEF Reached, before
<1>6. QED
  BY <1>4, <1>5, ZenonT(60)

\* A client that gets GET_END has the whole file: for every chunk size and every
\* way in which reads are short.
THEOREM EndIsWhole == Spec => []EndMeansWhole
<1>1. IInv => EndMeansWhole
  <2> SUFFICES ASSUME IInv, NEW r \in 1..Len(asked), NEW end \in Places(r, wire, {"GET_END"})
               PROVE  LET chunks == Places(r, wire, {"GET_CHUNK"})
                      IN  /\ \A i \in chunks : i < end /\ wire[i].from = Reached(r, wire, i)
                          /\ asked[r] = Reached(r, wire, end)
                          /\ \E ack \in Places(r, wire, {"ACK"}) :
                               \A i \in chunks \cup {end} : ack < i
    BY Zenon DEF EndMeansWhole
  <2> DEFINE chunks == Places(r, wire, {"GET_CHUNK"})
  <2>1. wire \in Seq(FrameType) /\ Good(wire, asked)
    BY WireGood, Zenon
  <2>2. /\ Len(wire) \in Nat /\ DOMAIN wire = 1..Len(wire)
        /\ \A k \in DOMAIN wire : wire[k] \in FrameType
    BY <2>1
  <2>3. r \in Nat \ {0} /\ asked[r] \in Nat
    <3>1. asked \in Seq(Sizes)
      BY Zenon DEF IInv, Types
    <3>2. asked[r] \in Sizes /\ Len(asked) \in Nat
      BY <3>1
    <3>3. r \in Nat \ {0}
      BY <3>2
    <3>4. asked[r] \in Nat
      BY <3>2, Constants, Zenon
    <3>5. QED
      BY <3>3, <3>4, Zenon
  <2>4. end \in DOMAIN wire /\ wire[end].req_id = r /\ wire[end].type = "GET_END"
        /\ IsAnswer(wire[end]) /\ ~IsChunk(wire[end])
    BY Zenon DEF Places, IsAnswer, IsChunk
  <2>5. \A i : i \in chunks <=> i \in DOMAIN wire /\ wire[i].req_id = r /\ IsChunk(wire[i])
    BY Zenon DEF Places, IsChunk
  <2>6. \A i \in DOMAIN wire : wire[i].req_id = r /\ i # end => i < end
    <3> SUFFICES ASSUME NEW i \in DOMAIN wire, wire[i].req_id = r, end < i PROVE FALSE
      BY <2>2, <2>4
    <3>1. QED
      BY <2>1, <2>3, <2>4, ZenonT(60) DEF Good, InOrder
  <2> HIDE DEF chunks
  <2>7. ASSUME NEW i \in chunks PROVE i < end /\ wire[i].from = Reached(r, wire, i)
    <3>1. i \in DOMAIN wire /\ wire[i].req_id = r /\ IsChunk(wire[i]) /\ i < end
      BY <2>4, <2>5, <2>6, ZenonT(60)
    <3>2. \A k \in 1..(i - 1) :
            wire[k].req_id = r /\ IsChunk(wire[k]) => End(wire[k]) <= wire[i].from
      BY <2>1, <2>2, <2>3, <3>1, SMTT(30) DEF Good, InOrder
    <3>3. wire[i].from = 0 \/ \E k \in 1..(i - 1) : EndsAt(wire, k, r, wire[i].from)
      BY <2>1, <3>1, SMTT(30) DEF Good, Preceded
    <3>4. wire[i].from \in Nat
      BY <2>2, <3>1, Zenon DEF FrameType
    <3> DEFINE m == wire[i].from
    <3> HIDE DEF m
    <3>5. /\ m \in Nat
          /\ \A k \in 1..(i - 1) : wire[k].req_id = r /\ IsChunk(wire[k]) => End(wire[k]) <= m
          /\ m = 0 \/ \E k \in 1..(i - 1) : EndsAt(wire, k, r, m)
      BY <3>2, <3>3, <3>4, Zenon DEF m
    <3>6. Reached(r, wire, i) = m
      <4>1. wire \in Seq(FrameType) /\ Good(wire, asked) /\ r \in Nat \ {0}
        BY <2>1, <2>3, Zenon
      <4>2. QED
        BY <3>1, <3>5, <4>1, LastReaches, ZenonT(120)
    <3>7. QED
      BY <3>1, <3>6, Zenon DEF m
  <2>8. asked[r] = Reached(r, wire, end)
    <3>1. asked[r] = 0 \/ \E k \in 1..(end - 1) : EndsAt(wire, k, r, asked[r])
      BY <2>1, <2>4, Zenon DEF Good, Preceded
    <3>2. \A k \in 1..(end - 1) : wire[k].req_id = r /\ IsChunk(wire[k]) => End(wire[k]) <= asked[r]
      <4> SUFFICES ASSUME NEW k \in 1..(end - 1), wire[k].req_id = r, IsChunk(wire[k])
                   PROVE  End(wire[k]) <= asked[r]
        BY Zenon
      <4>1. k \in DOMAIN wire
        BY <2>2, <2>4
      <4>2. QED
        BY <2>1, <4>1, Zenon DEF Good, Preceded
    <3>3. QED
      BY <2>1, <2>3, <2>4, <3>1, <3>2, LastReaches, SMTT(60)
  <2>9. \E ack \in Places(r, wire, {"ACK"}) : \A i \in chunks \cup {end} : ack < i
    <3>1. PICK k \in 1..(end - 1) : wire[k].req_id = r /\ wire[k].type = "ACK"
      BY <2>1, <2>4, ZenonT(60) DEF Good, Preceded
    <3>2. k \in DOMAIN wire /\ k < end
      BY <2>2, <2>4, <3>1, SMTT(30)
    <3>3. k \in Places(r, wire, {"ACK"})
      BY <3>1, <3>2, Zenon DEF Places
    <3>4. ASSUME NEW i \in chunks PROVE k < i
      <4>1. i \in DOMAIN wire /\ wire[i].req_id = r /\ i # k
        BY <2>5, <3>1, Zenon DEF IsChunk
      <4>2. ~(i < k)
        BY <2>1, <2>3, <3>1, <3>2, <4>1, ZenonT(60) DEF Good, InOrder
      <4>3. QED
        BY <2>2, <3>2, <4>1, <4>2
    <3>5. QED
      BY <3>2, <3>3, <3>4, Zenon
  <2>10. QED
    BY <2>7, <2>8, <2>9, Zenon DEF chunks
<1>2. QED
  BY <1>1, Invariance, PTL

\* Every GET_BEGIN on a session that stays open has one answer, or lost a frame.
THEOREM OneAnswerEach == Spec => []OneAnswer
<1>1. IInv => OneAnswer
  <2> SUFFICES ASSUME IInv, pc = "loop", ~session.closed, NEW r \in 1..Len(asked)
               PROVE  LET answers == Places(r, wire \o session.queue, {"GET_END", "ERROR"})
                      IN  (\E i \in answers : answers = {i}) \/ (answers = {} /\ r \in session.lost)
    BY Zenon DEF OneAnswer
  <2> DEFINE answers == Places(r, Flow, {"GET_END", "ERROR"})
  <2>1. wire \o session.queue = Flow
    BY Zenon DEF Flow, Sending
  <2>2. Good(Flow, asked) /\ Settled(r, session.lost, Flow) /\ Flow \in Seq(FrameType)
    <3>1. wire \in Seq(FrameType) /\ session.queue \in Seq(FrameType)
      BY Zenon DEF IInv, Types, SessionType
    <3>2. Flow \in Seq(FrameType)
      BY <2>1, <3>1, Concat, Zenon
    <3>3. QED
      BY <3>2, Zenon DEF IInv
  <2>3. \A i : i \in answers <=> i \in DOMAIN Flow /\ Flow[i].req_id = r /\ IsAnswer(Flow[i])
    BY Zenon DEF Places, IsAnswer
  <2>4. DOMAIN Flow \subseteq Nat /\ r # 0
    BY <2>2
  <2> HIDE DEF answers
  <2>5. ASSUME NEW i \in answers, NEW j \in answers PROVE i = j
    <3>1. ~(i < j) /\ ~(j < i)
      BY <2>2, <2>3, <2>4, Zenon DEF Good, InOrder
    <3>2. i \in Nat /\ j \in Nat
      BY <2>3, <2>4, Zenon
    <3>3. QED
      BY <3>1, <3>2
  <2>6. answers # {} \/ r \in session.lost
    BY <2>2, <2>3, Zenon DEF Settled
  <2>7. (\E i \in answers : answers = {i}) \/ (answers = {} /\ r \in session.lost)
    BY <2>5, <2>6, Zenon
  <2>8. QED
    BY <2>1, <2>7, Zenon DEF answers
<1>2. QED
  BY <1>1, Invariance, PTL
=============================================================================

------------------------- MODULE ClientDaemonProofs -------------------------
(***************************************************************************)
(* Proofs about ClientDaemon for any number of commands, chunks, PINGs and *)
(* pieces of output: a command acts on its own answer, a put that results  *)
(* in no ERROR has been committed, a get that succeeds has the whole file, *)
(* and no output is lost or reordered.  The inductive invariant says       *)
(* what the wire and the tables hold for commands that have not ended:     *)
(* where the frames come from (FrameOK), that no answer but the awaited    *)
(* one is on its way to a put (PutOK), and that the rest of a file stands  *)
(* in the stream and on the wire without a gap (GetOK).  SInv adds that    *)
(* the child's frames are in its stream alone, and in the order they were  *)
(* sent.                                                                   *)
(***************************************************************************)
EXTENDS ClientDaemon, TLAPS

Pcs == {"idle", "lock", "send", "await", "stream"} \cup Ended
Answers == {"ACK", "ERROR", "OP_RESULT"}
FrameTypes == StreamTypes \cup Answers \cup {"PING", "none"}
Origins == {"none", "request", "ping", "pong", "child"}

Frames == [type : FrameTypes, req_id : Nat, of : Origins, n : Nat]

ThreadStates ==
  [cmd : Commands \cup {"none"}, pc : Pcs, req_id : Nat, begun : BOOLEAN,
   answer : Origins, got : Seq(Nat)]

AgentStates ==
  [open : BOOLEAN, pings : Nat, upload : Nat, child : {"none", "running", "exited"}, sent : Nat]

Types ==
  /\ thread \in [Threads -> ThreadStates]
  /\ next_req_id \in FirstReq..(FirstReq + N)
  /\ pending \in [Ids -> Frames] /\ streams \in [Ids -> Seq(Frames)]
  /\ ping \in Nat /\ down \in Seq(Frames)
  /\ agent \in AgentStates

\* What a command can be doing, next being next_req_id
CommandOK(x, next) ==
  /\ x.pc = "idle" <=> x.cmd = "none"
  /\ x.cmd = "none" => x.req_id = 0 /\ x.got = <<>>
  /\ x.cmd = "wait-proc" => x.req_id = ProcId /\ x.pc \in {"stream", "done"}
  /\ x.cmd \in {"op", "kill", "put", "get", "spawn"} => x.req_id \in FirstReq..(next - 1)
  /\ x.pc = "stream" => x.cmd \in {"get", "wait-proc"}
  /\ x.begun => x.cmd = "put" /\ x.pc \in {"lock", "send", "await"}
  /\ x.answer # "none" => x.cmd \in {"op", "kill", "put", "get", "spawn"}

AnswerOK(x, pings) == x.answer # "none" => x.answer = "request" \/ x.req_id <= pings

\* Where a frame comes from, and what it can then be
FrameOK(f, next, pings) ==
  \/ /\ f.of = "request" /\ f.type \in Answers \cup {"GET_CHUNK", "GET_END"}
     /\ f.req_id \in FirstReq..(next - 1)
  \/ f.of = "ping" /\ f.type = "PING" /\ f.req_id <= pings
  \/ f.of = "pong" /\ f.type = "ERROR" /\ f.req_id <= pings
  \/ f.of = "child" /\ f.type \in {"OUTPUT", "EXIT"} /\ f.req_id = ProcId

WireOK(d, next, pings) == \A i \in DOMAIN d : FrameOK(d[i], next, pings)

PendingOK(p, next, pings) ==
  \A i \in Ids :
    \/ p[i] = NoFrame
    \/ FrameOK(p[i], next, pings) /\ p[i].req_id = i /\ p[i].type \in Answers

StreamsOK(s, next) ==
  \A i \in Ids :
    /\ i >= next => s[i] = <<>>
    /\ i >= FirstReq => \A j \in DOMAIN s[i] : s[i][j].type \in {"GET_CHUNK", "GET_END"}

\* An answer to request r that is not an ERROR, on the wire d or in its entry p
\* of pending
Good(f, r) == f.req_id = r /\ f.type \in {"ACK", "OP_RESULT"}

NoGood(d, p, r) == ~Good(p, r) /\ \A i \in DOMAIN d : ~Good(d[i], r)

OneGood(d, p, r) ==
  /\ \A i, j \in DOMAIN d : Good(d[i], r) /\ Good(d[j], r) => i = j
  /\ Good(p, r) => \A i \in DOMAIN d : ~Good(d[i], r)

\* A put in progress: one such answer until PUT_BEGIN has been answered, then
\* none but that of a commit
PutOK(x, d, p, c) ==
  x.cmd = "put" =>
    /\ x.pc \in {"lock", "send"} /\ ~x.begun => NoGood(d, p, x.req_id)
    /\ x.pc = "await" /\ ~x.begun => OneGood(d, p, x.req_id)
    /\ x.begun => NoGood(d, p, x.req_id) \/ x.req_id \in c
    /\ x.pc = "done" => x.req_id \in c

\* A part of the file of request r, and its number
Part(f, r) == f.req_id = r /\ f.type \in {"GET_CHUNK", "GET_END"}

Num(f) == IF f.type = "GET_END" THEN Chunks + 1 ELSE f.n

\* The parts on the wire follow each other, and the first has number k.
InOrder(d, r, k) ==
  /\ \A i, j \in DOMAIN d : Part(d[i], r) /\ Part(d[j], r) => Num(d[j]) - Num(d[i]) = j - i
  /\ \A i \in DOMAIN d : Part(d[i], r) => Num(d[i]) = k \/ (i > 1 /\ Part(d[i - 1], r))

\* A get in progress: what it has, its stream s and the wire d are one file.
GetOK(x, d, s) ==
  x.cmd = "get" =>
    /\ x.pc \in {"lock", "send"} =>
         s = <<>> /\ x.got = <<>> /\ \A i \in DOMAIN d : ~Part(d[i], x.req_id)
    /\ x.pc \in {"await", "stream"} =>
         /\ \A k \in DOMAIN x.got : x.got[k] = k
         /\ \A j \in DOMAIN s : Num(s[j]) = Len(x.got) + j
         /\ InOrder(d, x.req_id, Len(x.got) + Len(s) + 1)
    /\ x.pc = "done" => x.got = [i \in 1..Chunks |-> i]

\* Threads are started in their order, and each takes an id at most.
Started == \A t \in Threads : At(t, "idle") => next_req_id <= FirstReq + t - 1

Unique ==
  \A t, u \in Threads :
    t # u /\ thread[t].req_id = thread[u].req_id => thread[t].req_id \in {0, ProcId}

UploadOK(a, next) == a.upload # 0 => a.upload \in FirstReq..(next - 1)

IInv ==
  /\ Types
  /\ \A t \in Threads : CommandOK(thread[t], next_req_id) /\ AnswerOK(thread[t], agent.pings)
  /\ Started /\ Unique /\ UploadOK(agent, next_req_id)
  /\ WireOK(down, next_req_id, agent.pings) /\ ping <= agent.pings
  /\ PendingOK(pending, next_req_id, agent.pings)
  /\ StreamsOK(streams, next_req_id)
  /\ \A t \in Threads : PutOK(thread[t], down, pending[thread[t].req_id], committed)
  /\ \A t \in Threads : GetOK(thread[t], down, streams[thread[t].req_id])
-----------------------------------------------------------------------------
(* The wire                                                                *)

\* Facts about the constants.
LEMMA Constants ==
  /\ N \in Nat /\ Chunks \in Nat /\ MaxPings \in Nat /\ FirstReq \in Nat /\ FirstReq > 1
  /\ Threads = 1..N /\ Ids = 1..(FirstReq + N + MaxPings)
BY DaemonAssumption DEF Threads, Ids

\* What stands where when the agent sends e.
LEMMA Joined ==
  ASSUME NEW d \in Seq(Frames), NEW e \in Seq(Frames)
  PROVE  /\ d \o e \in Seq(Frames) /\ Len(d \o e) = Len(d) + Len(e)
         /\ DOMAIN d = 1..Len(d) /\ DOMAIN e = 1..Len(e) /\ DOMAIN (d \o e) = 1..(Len(d) + Len(e))
         /\ \A i \in DOMAIN d : (d \o e)[i] = d[i]
         /\ \A i \in DOMAIN (d \o e) : i \notin DOMAIN d =>
              i - Len(d) \in DOMAIN e /\ (d \o e)[i] = e[i - Len(d)]
         /\ Len(d) \in Nat /\ Len(e) \in Nat
BY SMTT(30)

\* A frame that stands behind the ones of d is one of e.
LEMMA JoinedAfter ==
  ASSUME NEW d \in Seq(Frames), NEW e \in Seq(Frames), NEW i \in DOMAIN (d \o e), i \notin DOMAIN d
  PROVE  (d \o e)[i] = e[i - Len(d)]
BY Joined, SMTT(30)

\* Frames that mean nothing to a command leave it as it is, and a commit does it
\* no harm.
LEMMA Extended ==
  ASSUME NEW x \in ThreadStates, NEW d \in Seq(Frames), NEW e \in Seq(Frames),
         NEW p, NEW s, NEW c, NEW b, c \subseteq b,
         \A i \in DOMAIN e : ~Good(e[i], x.req_id) /\ ~Part(e[i], x.req_id)
  PROVE  /\ PutOK(x, d, p, c) => PutOK(x, d \o e, p, b)
         /\ GetOK(x, d, s) => GetOK(x, d \o e, s)
<1> DEFINE w == d \o e
<1>1. /\ \A i \in DOMAIN d : i \in DOMAIN w /\ w[i] = d[i]
      /\ \A i \in DOMAIN w : i \notin DOMAIN d => ~Good(w[i], x.req_id) /\ ~Part(w[i], x.req_id)
  BY Joined
<1>2. \A i \in DOMAIN d : i \in Nat /\ (i > 1 => i - 1 \in DOMAIN d)
  BY Joined
<1> HIDE DEF w
<1>3. PutOK(x, d, p, c) => PutOK(x, w, p, b)
  BY <1>1, Zenon DEF PutOK, NoGood, OneGood
<1>4. ASSUME NEW k, InOrder(d, x.req_id, k)
      PROVE  InOrder(w, x.req_id, k)
  <2>1. \A i, j \in DOMAIN w : Part(w[i], x.req_id) /\ Part(w[j], x.req_id) =>
          Num(w[j]) - Num(w[i]) = j - i
    BY <1>1, <1>4, Zenon DEF InOrder
  <2>2. \A i \in DOMAIN w : Part(w[i], x.req_id) =>
          Num(w[i]) = k \/ (i > 1 /\ Part(w[i - 1], x.req_id))
    BY <1>1, <1>2, <1>4, Zenon DEF InOrder
  <2> QED
    BY <2>1, <2>2, Zenon DEF InOrder
<1>5. GetOK(x, d, s) => GetOK(x, w, s)
  BY <1>1, <1>4, Zenon DEF GetOK
<1> QED
  BY <1>3, <1>5, Zenon DEF w

\* One more frame, where there was no answer, is at most one answer.
LEMMA OneMore ==
  ASSUME NEW d \in Seq(Frames), NEW f \in Frames, NEW p, NEW r, NoGood(d, p, r)
  PROVE  OneGood(d \o <<f>>, p, r)
<1>1. <<f>> \in Seq(Frames) /\ Len(<<f>>) = 1
  OBVIOUS
<1>2. \A i \in DOMAIN (d \o <<f>>) : (i \in DOMAIN d /\ (d \o <<f>>)[i] = d[i]) \/ i = Len(d) + 1
  BY <1>1, Joined
<1> QED
  BY <1>2, Zenon DEF NoGood, OneGood

\* A file that the agent sends: the ACK, k chunks, and GET_END only after all.
LEMMA FileFrames ==
  ASSUME NEW r \in Nat, NEW k \in 0..Chunks, NEW end \in {"GET_END", "ERROR"}
  PROVE  LET e == File(r, k, end).frames
         IN  /\ e \in Seq(Frames) /\ Len(e) = k + 2
             /\ e[1] = Reply(r, "ACK") /\ e[k + 2] = Reply(r, end)
             /\ \A i \in 2..(k + 1) : e[i] = Frame("GET_CHUNK", r, "request", i - 1)
<1> DEFINE a == <<Reply(r, "ACK")>>
           b == [i \in 1..k |-> Frame("GET_CHUNK", r, "request", i)]
           z == <<Reply(r, end)>>
<1>0. k \in Nat
  BY Constants
<1>1. a \in Seq(Frames) /\ Len(a) = 1 /\ a[1] = Reply(r, "ACK")
  BY DEF Reply, Frame, Frames, FrameTypes, Answers, Origins
<1>2. b \in Seq(Frames) /\ Len(b) = k /\ \A i \in 1..k : b[i] = Frame("GET_CHUNK", r, "request", i)
  <2>1. \A i \in 1..k : Frame("GET_CHUNK", r, "request", i) \in Frames
    BY <1>0 DEF Frame, Frames, FrameTypes, StreamTypes, Origins
  <2> QED
    BY <1>0, <2>1
<1>3. z \in Seq(Frames) /\ Len(z) = 1 /\ z[1] = Reply(r, end)
  BY DEF Reply, Frame, Frames, FrameTypes, StreamTypes, Answers, Origins
<1>4. File(r, k, end).frames = a \o b \o z
  BY Zenon DEF File
<1> HIDE DEF a, b, z
<1>5. /\ a \o b \in Seq(Frames) /\ Len(a \o b) = k + 1 /\ (a \o b)[1] = Reply(r, "ACK")
      /\ \A i \in 2..(k + 1) : (a \o b)[i] = Frame("GET_CHUNK", r, "request", i - 1)
  <2>1. 1 \in DOMAIN a /\ \A i \in 2..(k + 1) : i \in DOMAIN (a \o b) /\ i \notin DOMAIN a /\ i - 1 \in 1..k
    BY <1>0, <1>1, <1>2, Joined, SMTT(30)
  <2>2. ASSUME NEW i \in 2..(k + 1)
        PROVE  (a \o b)[i] = b[i - 1]
    <3>1. a \in Seq(Frames) /\ b \in Seq(Frames) /\ i \in DOMAIN (a \o b) /\ i \notin DOMAIN a
      BY <1>1, <1>2, <2>1, Zenon
    <3>2. (a \o b)[i] = b[i - Len(a)]
      BY <3>1, JoinedAfter, Zenon
    <3> QED
      BY <1>1, <3>2, Zenon
  <2>3. a \o b \in Seq(Frames) /\ Len(a \o b) = k + 1 /\ (a \o b)[1] = a[1]
    BY <1>0, <1>1, <1>2, <2>1, Joined, SMTT(30)
  <2> QED
    BY <1>1, <1>2, <2>1, <2>2, <2>3, Zenon
<1> DEFINE ab == a \o b
<1> HIDE DEF ab
<1>7. ab \in Seq(Frames) /\ Len(ab) = k + 1
  BY <1>5, Zenon DEF ab
<1>6. /\ ab \o z \in Seq(Frames) /\ Len(ab \o z) = k + 2
      /\ (ab \o z)[1] = Reply(r, "ACK") /\ (ab \o z)[k + 2] = Reply(r, end)
      /\ \A i \in 2..(k + 1) : (ab \o z)[i] = Frame("GET_CHUNK", r, "request", i - 1)
  <2>1. k + 2 \in DOMAIN (ab \o z) /\ k + 2 \notin DOMAIN ab /\ \A i \in 1..(k + 1) : i \in DOMAIN ab
    BY <1>0, <1>3, <1>7, Joined, SMTT(30)
  <2>2. (ab \o z)[k + 2] = z[1]
    <3>1. (ab \o z)[k + 2] = z[(k + 2) - Len(ab)]
      BY <1>3, <1>7, <2>1, JoinedAfter, ZenonT(30)
    <3>2. (k + 2) - Len(ab) = 1
      BY <1>0, <1>7
    <3> QED
      BY <3>1, <3>2, Zenon
  <2>3. ASSUME NEW i \in 1..(k + 1)
        PROVE  (ab \o z)[i] = ab[i]
    <3>1. ab \in Seq(Frames) /\ z \in Seq(Frames) /\ i \in DOMAIN ab
      BY <1>3, <1>7, <2>1, Zenon
    <3> QED
      BY <3>1, Joined, Zenon
  <2>4. ab \o z \in Seq(Frames) /\ Len(ab \o z) = k + 2
    <3>1. ab \o z \in Seq(Frames) /\ Len(ab \o z) = Len(ab) + Len(z)
      BY <1>3, <1>7, Joined, Zenon
    <3>2. Len(ab) = k + 1 /\ Len(z) = 1
      BY <1>3, <1>7, Zenon
    <3> QED
      BY <1>0, <3>1, <3>2
  <2>5. ab[1] = Reply(r, "ACK") /\ \A i \in 2..(k + 1) : ab[i] = Frame("GET_CHUNK", r, "request", i - 1)
    BY <1>5, Zenon DEF ab
  <2> QED
    BY <1>0, <1>3, <2>2, <2>3, <2>4, <2>5, SMTT(30)
<1> QED
  BY <1>4, <1>6, Zenon DEF ab

\* Its parts stand on the wire in order.
LEMMA FileInOrder ==
  ASSUME NEW d \in Seq(Frames), NEW r \in Nat, NEW k \in 0..Chunks, NEW end \in {"GET_END", "ERROR"},
         end = "GET_END" => k = Chunks,
         \A i \in DOMAIN d : ~Part(d[i], r)
  PROVE  InOrder(d \o File(r, k, end).frames, r, 1)
<1> DEFINE e == File(r, k, end).frames
           w == d \o e
<1>1. /\ e \in Seq(Frames) /\ Len(e) = k + 2
      /\ e[1] = Reply(r, "ACK") /\ e[k + 2] = Reply(r, end)
      /\ \A i \in 2..(k + 1) : e[i] = Frame("GET_CHUNK", r, "request", i - 1)
  BY FileFrames, Zenon
<1>0. k \in Nat /\ Chunks \in Nat
  BY Constants
<1> HIDE DEF e
<1>2. \A i \in 1..(k + 2) : Part(e[i], r) => i > 1 /\ Num(e[i]) = i - 1
  <2>1. ~Part(e[1], r)
    BY <1>1 DEF Part, Reply, Frame
  <2>0. ASSUME NEW i \in 2..(k + 1)
        PROVE  e[i].type = "GET_CHUNK" /\ e[i].n = i - 1
    <3>1. e[i] = Frame("GET_CHUNK", r, "request", i - 1)
      BY <1>1, Zenon
    <3> QED
      BY <3>1 DEF Frame
  <2>2. \A i \in 2..(k + 1) : Num(e[i]) = i - 1
    BY <2>0, Zenon DEF Num
  <2>3. Part(e[k + 2], r) => Num(e[k + 2]) = k + 1
    BY <1>1 DEF Part, Num, Reply, Frame
  <2> QED
    <3> SUFFICES ASSUME NEW i \in 1..(k + 2), Part(e[i], r)
                 PROVE  i > 1 /\ Num(e[i]) = i - 1
      BY Zenon
    <3>1. i = 1 \/ i \in 2..(k + 1) \/ i = k + 2
      BY <1>0
    <3>2. (k + 2) - 1 = k + 1 /\ k + 2 > 1 /\ \A n \in 2..(k + 1) : n > 1
      BY <1>0
    <3> QED
      BY <2>1, <2>2, <2>3, <3>1, <3>2, Zenon
<1>3. \A i \in 2..(k + 1) : Part(e[i], r)
  <2>1. ASSUME NEW i \in 2..(k + 1)
        PROVE  e[i].type = "GET_CHUNK" /\ e[i].req_id = r
    <3>1. e[i] = Frame("GET_CHUNK", r, "request", i - 1)
      BY <1>1, Zenon
    <3> QED
      BY <3>1 DEF Frame
  <2> QED
    BY <2>1, Zenon DEF Part
<1>4. \A i \in DOMAIN w : Part(w[i], r) =>
        /\ i - Len(d) \in 1..(k + 2) /\ w[i] = e[i - Len(d)] /\ Num(w[i]) = i - Len(d) - 1
        /\ i - Len(d) > 1
  BY <1>0, <1>1, <1>2, Joined, SMTT(30)
<1>5. \A i \in DOMAIN w : Part(w[i], r) /\ i - Len(d) > 2 => Part(w[i - 1], r)
  <2> SUFFICES ASSUME NEW i \in DOMAIN w, Part(w[i], r), i - Len(d) > 2
               PROVE  Part(w[i - 1], r)
    BY Zenon
  <2> DEFINE l == Len(d)
  <2>3. i - l \in 1..(k + 2) /\ i \in Nat /\ l \in Nat /\ i - l > 2
    BY <1>1, <1>4, Joined, SMTT(30)
  <2>4. DOMAIN w = 1..(l + (k + 2)) /\ DOMAIN d = 1..l
    <3>1. e \in Seq(Frames) /\ DOMAIN d = 1..Len(d) /\ DOMAIN w = 1..(Len(d) + Len(e))
      BY <1>1, Joined, Zenon
    <3> QED
      BY <1>1, <3>1, Zenon
  <2>1. i - 1 \in DOMAIN w /\ i - 1 \notin DOMAIN d /\ i - 1 - l \in 2..(k + 1)
    <3> HIDE DEF l, w
    <3>1. k \in Nat
      BY <1>0, Zenon
    <3>2. i - 1 \in 1..(l + (k + 2))
      BY <2>3, <3>1, SMTT(60)
    <3>3. i - 1 \notin 1..l
      BY <2>3, SMTT(60)
    <3>4. i - 1 - l \in 2..(k + 1)
      BY <2>3, <3>1, SMTT(60)
    <3> QED
      BY <2>4, <3>2, <3>3, <3>4, Zenon
  <2>2. w[i - 1] = e[i - 1 - Len(d)]
    BY <1>1, <2>1, JoinedAfter, ZenonT(30)
  <2> QED
    BY <1>3, <2>1, <2>2, Zenon
<1>6. \A i \in DOMAIN w : i \in Nat
  BY <1>1, Joined
<1>7. Len(d) \in Nat
  OBVIOUS
<1> HIDE DEF w
<1>8. InOrder(w, r, 1)
  <2>1. \A i, j \in DOMAIN w : Part(w[i], r) /\ Part(w[j], r) => Num(w[j]) - Num(w[i]) = j - i
    <3> SUFFICES ASSUME NEW i \in DOMAIN w, NEW j \in DOMAIN w, Part(w[i], r), Part(w[j], r)
                 PROVE  Num(w[j]) - Num(w[i]) = j - i
      BY Zenon
    <3>1. Num(w[i]) = i - Len(d) - 1 /\ Num(w[j]) = j - Len(d) - 1
      BY <1>4, Zenon
    <3>2. i \in Nat /\ j \in Nat
      BY <1>6, Zenon
    <3> QED
      BY <1>7, <3>1, <3>2
  <2>2. \A i \in DOMAIN w : Part(w[i], r) => Num(w[i]) = 1 \/ (i > 1 /\ Part(w[i - 1], r))
    BY <1>4, <1>5, <1>6, <1>7, SMTT(30)
  <2> QED
    BY <2>1, <2>2, Zenon DEF InOrder
<1> QED
  BY <1>8, Zenon DEF w, e

\* The reader takes the first frame: a put sees it in pending, or not at all.
LEMMA PutReceives ==
  ASSUME NEW x \in ThreadStates, NEW d \in Seq(Frames), d # <<>>, NEW p, NEW q, NEW c,
         q = Head(d) \/ (q = p /\ ~Good(Head(d), x.req_id)), PutOK(x, d, p, c)
  PROVE  PutOK(x, Tail(d), q, c)
<1> DEFINE w == Tail(d)
<1>1. /\ \A i \in DOMAIN w : i + 1 \in DOMAIN d /\ w[i] = d[i + 1] /\ i \in Nat /\ i + 1 # 1
      /\ 1 \in DOMAIN d /\ Head(d) = d[1]
  OBVIOUS
<1> HIDE DEF w
<1>2. NoGood(d, p, x.req_id) => NoGood(w, q, x.req_id)
  BY <1>1, Zenon DEF NoGood
<1>3. OneGood(d, p, x.req_id) => OneGood(w, q, x.req_id)
  BY <1>1 DEF OneGood
<1> QED
  BY <1>2, <1>3, Zenon DEF PutOK, w

\* The reader takes the first frame: a get sees it in its stream, or it is no
\* part of the file.
LEMMA GetReceives ==
  ASSUME NEW x \in ThreadStates, NEW d \in Seq(Frames), d # <<>>, NEW s \in Seq(Frames), NEW q,
         \/ q = Append(s, Head(d)) /\ Part(Head(d), x.req_id)
         \/ q = s /\ ~Part(Head(d), x.req_id),
         GetOK(x, d, s)
  PROVE  GetOK(x, Tail(d), q)
<1> DEFINE w == Tail(d)
           r == x.req_id
<1>1. /\ \A i \in DOMAIN w : i + 1 \in DOMAIN d /\ w[i] = d[i + 1] /\ i \in Nat \ {0}
      /\ \A i \in DOMAIN w : i > 1 => i - 1 \in DOMAIN w
      /\ 1 \in DOMAIN d /\ Head(d) = d[1]
  OBVIOUS
<1>2. Chunks \in Nat /\ \A i \in DOMAIN d : Num(d[i]) \in Nat
  <2>1. \A i \in DOMAIN d : d[i] \in Frames
    OBVIOUS
  <2>2. \A f \in Frames : Num(f) \in Nat
    BY Constants DEF Num, Frames
  <2> QED
    BY <2>1, <2>2, Constants, Zenon
<1>a. \A i \in DOMAIN w : Num(w[i]) \in Nat
  BY <1>1, <1>2, Zenon
<1> HIDE DEF w
<1>3. ASSUME NEW k \in Nat, InOrder(d, r, k), Part(d[1], r)
      PROVE  InOrder(w, r, k + 1) /\ Num(d[1]) = k
  <2>1. Num(d[1]) = k
    BY <1>1, <1>3 DEF InOrder
  <2>2. \A i \in DOMAIN w : Part(w[i], r) => Num(w[i]) = k + i
    <3> SUFFICES ASSUME NEW i \in DOMAIN w, Part(w[i], r)
                 PROVE  Num(w[i]) = k + i
      BY Zenon
    <3>1. Num(d[i + 1]) - Num(d[1]) = (i + 1) - 1
      BY <1>1, <1>3, Zenon DEF InOrder
    <3> QED
      BY <1>1, <1>a, <2>1, <3>1, SMTT(60)
  <2>3. \A i \in DOMAIN w : Part(w[i], r) => i = 1 \/ Part(w[i - 1], r)
    <3> SUFFICES ASSUME NEW i \in DOMAIN w, Part(w[i], r), i # 1
                 PROVE  Part(w[i - 1], r)
      BY Zenon
    <3>1. Num(d[i + 1]) # k
      BY <1>1, <1>2, <2>2, SMTT(30)
    <3>2. Part(d[(i + 1) - 1], r)
      BY <1>1, <1>3, <3>1, Zenon DEF InOrder
    <3>3. w[i - 1] = d[i] /\ (i + 1) - 1 = i
      BY <1>1, SMTT(30)
    <3> QED
      BY <3>2, <3>3, Zenon
  <2>4. \A i, j \in DOMAIN w : Part(w[i], r) /\ Part(w[j], r) => Num(w[j]) - Num(w[i]) = j - i
    <3> SUFFICES ASSUME NEW i \in DOMAIN w, NEW j \in DOMAIN w, Part(w[i], r), Part(w[j], r)
                 PROVE  Num(w[j]) - Num(w[i]) = j - i
      BY Zenon
    <3>1. Num(w[i]) = k + i /\ Num(w[j]) = k + j /\ i \in Nat /\ j \in Nat
      BY <1>1, <2>2, Zenon
    <3> QED
      BY <3>1
  <2>5. \A i \in DOMAIN w : Part(w[i], r) => Num(w[i]) = k + 1 \/ (i > 1 /\ Part(w[i - 1], r))
    BY <1>1, <2>2, <2>3, SMTT(30)
  <2> QED
    BY <2>1, <2>4, <2>5, Zenon DEF InOrder
<1>4. ASSUME NEW k \in Nat, InOrder(d, r, k), ~Part(d[1], r)
      PROVE  InOrder(w, r, k)
  <2>1. \A i, j \in DOMAIN w : Part(w[i], r) /\ Part(w[j], r) => Num(w[j]) - Num(w[i]) = j - i
    BY <1>1, <1>a, <1>4 DEF InOrder
  <2>2. ASSUME NEW i \in DOMAIN w, Part(w[i], r), Num(w[i]) # k
        PROVE  i > 1 /\ Part(w[i - 1], r)
    <3>1. Part(d[(i + 1) - 1], r) /\ (i + 1) - 1 = i
      BY <1>1, <1>4, <2>2 DEF InOrder
    <3>2. i # 1
      BY <1>4, <3>1, Zenon
    <3>3. w[i - 1] = d[i]
      BY <1>1, <3>2, SMTT(30)
    <3> QED
      BY <1>1, <3>1, <3>2, <3>3, SMTT(60)
  <2> QED
    BY <2>1, <2>2, Zenon DEF InOrder
<1>5. CASE x.cmd = "get" /\ x.pc \in {"lock", "send"}
  BY <1>1, <1>5, Zenon DEF GetOK, w
<1>6. CASE x.cmd = "get" /\ x.pc \in {"await", "stream"}
  <2>1. /\ \A k \in DOMAIN x.got : x.got[k] = k
        /\ \A j \in DOMAIN s : Num(s[j]) = Len(x.got) + j
        /\ InOrder(d, r, Len(x.got) + Len(s) + 1)
        /\ Len(x.got) \in Nat /\ Len(s) \in Nat
    BY <1>6 DEF GetOK, ThreadStates
  <2>2. CASE q = s /\ ~Part(Head(d), x.req_id)
    BY <1>1, <1>4, <1>6, <2>1, <2>2, SMTT(30) DEF GetOK, w
  <2>3. CASE q = Append(s, Head(d)) /\ Part(Head(d), x.req_id)
    <3>1. InOrder(w, r, Len(x.got) + Len(s) + 1 + 1) /\ Num(d[1]) = Len(x.got) + Len(s) + 1
      BY <1>1, <1>3, <2>1, <2>3
    <3>2. Len(q) = Len(s) + 1 /\ DOMAIN q = 1..(Len(s) + 1) /\ q[Len(s) + 1] = d[1]
            /\ \A j \in 1..Len(s) : j \in DOMAIN s /\ q[j] = s[j]
      BY <1>1, <2>3
    <3>3. \A j \in DOMAIN q : Num(q[j]) = Len(x.got) + j
      <4> SUFFICES ASSUME NEW j \in DOMAIN q
                   PROVE  Num(q[j]) = Len(x.got) + j
        BY Zenon
      <4>1. CASE j = Len(s) + 1
        <5>1. Num(q[j]) = Len(x.got) + Len(s) + 1
          BY <3>1, <3>2, <4>1, Zenon
        <5> DEFINE g == Len(x.got)
                   m == Len(s)
        <5>2. g \in Nat /\ m \in Nat /\ j = m + 1 /\ Num(q[j]) = g + m + 1
          BY <2>1, <4>1, <5>1, Zenon
        <5> HIDE DEF g, m
        <5>3. Num(q[j]) = g + j
          BY <5>2
        <5> QED
          BY <5>3, Zenon DEF g
      <4>2. CASE j \in 1..Len(s)
        BY <2>1, <3>2, <4>2, Zenon
      <4> QED
        BY <2>1, <3>2, <4>1, <4>2, SMTT(30)
    <3>4. Len(x.got) + Len(q) + 1 = Len(x.got) + Len(s) + 1 + 1
      <4>1. Len(q) = Len(s) + 1 /\ Len(s) \in Nat /\ Len(x.got) \in Nat
        BY <2>1, <3>2, Zenon
      <4> DEFINE g == Len(x.got)
                 m == Len(s)
                 o == Len(q)
      <4>2. o = m + 1 /\ m \in Nat /\ g \in Nat
        BY <4>1, Zenon
      <4> HIDE DEF g, m, o
      <4>3. g + o + 1 = g + m + 1 + 1
        BY <4>2
      <4> QED
        BY <4>3, Zenon DEF g, m, o
    <3> QED
      BY <1>6, <2>1, <3>1, <3>3, <3>4, Zenon DEF GetOK, w
  <2> QED
    BY <2>2, <2>3, Zenon
<1> QED
  BY <1>5, <1>6, Zenon DEF GetOK

-----------------------------------------------------------------------------
(* Steps                                                                   *)

\* A put or a get has an id of its own, with an entry in the tables.
LEMMA OwnId ==
  ASSUME IInv, NEW u \in Threads, thread[u].cmd \in {"put", "get"}
  PROVE  /\ thread[u].req_id \in Ids /\ thread[u].req_id \in FirstReq..(next_req_id - 1)
         /\ \A t \in Threads : t # u => thread[t].req_id # thread[u].req_id
<1>1. thread[u].req_id \in FirstReq..(next_req_id - 1) /\ next_req_id \in FirstReq..(FirstReq + N)
  BY Zenon DEF IInv, Types, CommandOK
<1>2. thread[u].req_id \in Ids /\ thread[u].req_id \notin {0, ProcId}
  BY <1>1, Constants, SMTT(30) DEF ProcId
<1> QED
  BY <1>1, <1>2, Zenon DEF IInv, Unique

\* PutOK and GetOK say nothing of other commands.
LEMMA OtherCommand ==
  ASSUME NEW x, x.cmd \notin {"put", "get"}, NEW d, NEW p, NEW c, NEW s
  PROVE  PutOK(x, d, p, c) /\ GetOK(x, d, s)
BY Zenon DEF PutOK, GetOK

\* Frames are what they were when an id is given out or a PING is sent.
LEMMA Later ==
  ASSUME NEW m \in Nat, NEW n \in Nat, m <= n, NEW g \in Nat, NEW h \in Nat, g <= h,
         NEW f \in Frames, FrameOK(f, m, g)
  PROVE  FrameOK(f, n, h)
BY Constants, SMTT(30) DEF FrameOK, Frames

\* A step of the command t, which may touch the entries under its own id and
\* make the agent answer under it.
LEMMA ThreadStep ==
  ASSUME IInv, NEW t \in Threads, NEW y \in ThreadStates, NEW e \in Seq(Frames),
         thread' = [thread EXCEPT ![t] = y], y.req_id = thread[t].req_id, y.pc # "idle",
         CommandOK(y, next_req_id), AnswerOK(y, agent.pings),
         down' = down \o e, WireOK(e, next_req_id, agent.pings),
         \A i \in DOMAIN e : e[i].req_id = y.req_id,
         committed \subseteq committed',
         pending' \in [Ids -> Frames], PendingOK(pending', next_req_id, agent.pings),
         \A i \in Ids \ {y.req_id} : pending'[i] = pending[i],
         streams' \in [Ids -> Seq(Frames)], StreamsOK(streams', next_req_id),
         \A i \in Ids \ {y.req_id} : streams'[i] = streams[i],
         agent' \in AgentStates, agent'.pings = agent.pings, UploadOK(agent', next_req_id),
         next_req_id' = next_req_id, ping' = ping,
         PutOK(y, down', pending'[y.req_id], committed'), GetOK(y, down', streams'[y.req_id])
  PROVE  IInv'
<1>0. thread \in [Threads -> ThreadStates] /\ down \in Seq(Frames)
  BY Zenon DEF IInv, Types
<1>1. thread'[t] = y /\ \A u \in Threads : u # t => thread'[u] = thread[u]
  BY <1>0, Zenon
<1>2. Types'
  <2>1. thread' \in [Threads -> ThreadStates]
    BY <1>0, Zenon
  <2>2. down' \in Seq(Frames)
    BY <1>0, Joined, Zenon
  <2> QED
    BY <2>1, <2>2, Zenon DEF IInv, Types
<1>3. \A u \in Threads : CommandOK(thread'[u], next_req_id') /\ AnswerOK(thread'[u], agent'.pings)
  BY <1>1, ZenonT(60) DEF IInv
<1>4. Started' /\ Unique'
  BY <1>1, SMTT(30) DEF IInv, Started, Unique, At
<1>5. WireOK(down', next_req_id', agent'.pings)
  BY <1>0, Joined, SMTT(30) DEF IInv, WireOK
<1>6. \A u \in Threads : /\ PutOK(thread'[u], down', pending'[thread'[u].req_id], committed')
                         /\ GetOK(thread'[u], down', streams'[thread'[u].req_id])
  <2> SUFFICES ASSUME NEW u \in Threads, u # t, thread[u].cmd \in {"put", "get"}
               PROVE  /\ PutOK(thread[u], down', pending'[thread[u].req_id], committed')
                      /\ GetOK(thread[u], down', streams'[thread[u].req_id])
    <3>1. ASSUME NEW u \in Threads, thread[u].cmd \notin {"put", "get"}
          PROVE  /\ PutOK(thread[u], down', pending'[thread[u].req_id], committed')
                 /\ GetOK(thread[u], down', streams'[thread[u].req_id])
      BY <3>1, OtherCommand, Zenon
    <3>2. ASSUME NEW u \in Threads, u # t
          PROVE  /\ PutOK(thread[u], down', pending'[thread[u].req_id], committed')
                 /\ GetOK(thread[u], down', streams'[thread[u].req_id])
      BY <3>1, <3>2, Zenon
    <3>3. ASSUME NEW u \in Threads, u # t
          PROVE  /\ PutOK(thread'[u], down', pending'[thread'[u].req_id], committed')
                 /\ GetOK(thread'[u], down', streams'[thread'[u].req_id])
      BY <1>1, <3>2, <3>3, Zenon
    <3>4. /\ PutOK(thread'[t], down', pending'[thread'[t].req_id], committed')
          /\ GetOK(thread'[t], down', streams'[thread'[t].req_id])
      BY <1>1, Zenon
    <3> QED
      BY <3>3, <3>4, Zenon
  <2>1. thread[u].req_id \in Ids \ {y.req_id}
    <3>1. thread[u].req_id \in Ids /\ thread[t].req_id # thread[u].req_id
      BY OwnId, Zenon
    <3> QED
      BY <3>1, Zenon
  <2>2. thread[u] \in ThreadStates
    BY <1>0, Zenon
  <2>3. \A i \in DOMAIN e : ~Good(e[i], thread[u].req_id) /\ ~Part(e[i], thread[u].req_id)
    BY <2>1, Zenon DEF Good, Part
  <2>4. /\ PutOK(thread[u], down, pending[thread[u].req_id], committed)
        /\ GetOK(thread[u], down, streams[thread[u].req_id])
    BY Zenon DEF IInv
  <2>5. /\ PutOK(thread[u], down \o e, pending[thread[u].req_id], committed')
        /\ GetOK(thread[u], down \o e, streams[thread[u].req_id])
    BY <1>0, <2>2, <2>3, <2>4, Extended, Zenon
  <2> QED
    BY <2>1, <2>5, ZenonT(60)
<1>7. ping' <= agent'.pings
  BY Zenon DEF IInv
<1> QED
  BY <1>2, <1>3, <1>4, <1>5, <1>6, <1>7, Zenon DEF IInv

\* A step that changes no command: the agent sends what no request asked for,
\* or the reader answers a PING.
LEMMA AgentStep ==
  ASSUME IInv, NEW e \in Seq(Frames), down' = down \o e, WireOK(e, next_req_id, agent'.pings),
         \A i \in DOMAIN e : e[i].type \notin {"ACK", "OP_RESULT", "GET_CHUNK", "GET_END"},
         agent' \in AgentStates, agent.pings <= agent'.pings, UploadOK(agent', next_req_id),
         UNCHANGED <<thread, next_req_id, pending, streams, committed>>,
         ping' \in Nat, ping' <= agent'.pings
  PROVE  IInv'
<1>0. /\ thread \in [Threads -> ThreadStates] /\ down \in Seq(Frames) /\ next_req_id \in Nat
      /\ agent.pings \in Nat /\ agent'.pings \in Nat /\ pending \in [Ids -> Frames]
  <2>1. /\ thread \in [Threads -> ThreadStates] /\ down \in Seq(Frames) /\ agent \in AgentStates
        /\ pending \in [Ids -> Frames] /\ next_req_id \in FirstReq..(FirstReq + N)
    BY Zenon DEF IInv, Types
  <2>2. next_req_id \in Nat
    BY <2>1, Constants, SMTT(30)
  <2>3. agent.pings \in Nat /\ agent'.pings \in Nat
    BY <2>1, Zenon DEF AgentStates
  <2> QED
    BY <2>1, <2>2, <2>3, Zenon
<1>1. Types'
  <2>1. down' \in Seq(Frames)
    BY <1>0, Joined, ZenonT(60)
  <2> QED
    BY <2>1, Zenon DEF IInv, Types
<1>2. \A u \in Threads : AnswerOK(thread[u], agent'.pings)
  <2>1. \A u \in Threads : AnswerOK(thread[u], agent.pings) /\ thread[u].req_id \in Nat
    BY <1>0, Zenon DEF IInv, ThreadStates
  <2> QED
    BY <1>0, <2>1, SMTT(30) DEF AnswerOK
<1>3. WireOK(down', next_req_id, agent'.pings)
  <2>1. \A i \in DOMAIN down : down[i] \in Frames
    BY <1>0, SMTT(30)
  <2>2. WireOK(down, next_req_id, agent'.pings)
    BY <1>0, <2>1, Later, SMTT(30) DEF IInv, WireOK
  <2> QED
    BY <1>0, <2>2, Joined, SMTT(30) DEF WireOK
<1>4. PendingOK(pending, next_req_id, agent'.pings)
  <2>1. \A i \in Ids : pending[i] \in Frames
    BY <1>0, Zenon
  <2>2. PendingOK(pending, next_req_id, agent.pings)
    BY Zenon DEF IInv
  <2>3. \A i \in Ids : FrameOK(pending[i], next_req_id, agent.pings) =>
                      FrameOK(pending[i], next_req_id, agent'.pings)
    BY <1>0, <2>1, Later, SMTT(30)
  <2> QED
    BY <2>2, <2>3, Zenon DEF PendingOK
<1>5. \A u \in Threads : /\ PutOK(thread[u], down', pending[thread[u].req_id], committed)
                         /\ GetOK(thread[u], down', streams[thread[u].req_id])
  BY <1>0, Extended, Zenon DEF IInv, Good, Part
<1>6. Started' /\ Unique'
  BY Zenon DEF IInv, Started, Unique, At
<1> QED
  BY <1>1, <1>2, <1>3, <1>4, <1>5, <1>6, ZenonT(60) DEF IInv

\* No frame, or one.
LEMMA Single ==
  ASSUME NEW d \in Seq(Frames), NEW f \in Frames
  PROVE  /\ Append(d, f) = d \o <<f>> /\ <<f>> \in Seq(Frames)
         /\ DOMAIN <<f>> = {1} /\ <<f>>[1] = f
OBVIOUS

LEMMA Nothing ==
  ASSUME NEW d \in Seq(Frames)
  PROVE  d \o <<>> = d /\ <<>> \in Seq(Frames) /\ DOMAIN <<>> = {}
OBVIOUS

\* The agent sends one frame that no request asked for.
LEMMA AgentSends ==
  ASSUME IInv, NEW f \in Frames, down' = Append(down, f), FrameOK(f, next_req_id, agent'.pings),
         f.type \notin {"ACK", "OP_RESULT", "GET_CHUNK", "GET_END"},
         agent' \in AgentStates, agent.pings <= agent'.pings, UploadOK(agent', next_req_id),
         UNCHANGED <<thread, next_req_id, pending, streams, committed>>,
         ping' \in Nat, ping' <= agent'.pings
  PROVE  IInv'
<1>1. /\ down' = down \o <<f>> /\ <<f>> \in Seq(Frames)
      /\ DOMAIN <<f>> = {1} /\ <<f>>[1] = f
  BY Single, Zenon DEF IInv, Types
<1> DEFINE e == <<f>>
<1>2. /\ down' = down \o e /\ e \in Seq(Frames) /\ WireOK(e, next_req_id, agent'.pings)
      /\ \A i \in DOMAIN e : e[i].type \notin {"ACK", "OP_RESULT", "GET_CHUNK", "GET_END"}
  BY <1>1, Zenon DEF WireOK
<1> HIDE DEF e
<1> QED
  BY <1>2, AgentStep, Zenon

\* The agent or the reader does something else.
LEMMA AgentSilent ==
  ASSUME IInv, agent' \in AgentStates, agent.pings <= agent'.pings, UploadOK(agent', next_req_id),
         UNCHANGED <<thread, next_req_id, pending, streams, committed, down>>,
         ping' \in Nat, ping' <= agent'.pings
  PROVE  IInv'
<1> DEFINE e == <<>>
<1>1. /\ down' = down \o e /\ e \in Seq(Frames) /\ WireOK(e, next_req_id, agent'.pings)
      /\ \A i \in DOMAIN e : e[i].type \notin {"ACK", "OP_RESULT", "GET_CHUNK", "GET_END"}
  BY Nothing, Zenon DEF IInv, Types, WireOK
<1> HIDE DEF e
<1> QED
  BY <1>1, AgentStep, Zenon

\* What the agent sends by itself
LEMMA AgentKeeps ==
  ASSUME IInv, Agent
  PROVE  IInv'
<1>0. /\ agent \in AgentStates /\ agent.pings \in Nat /\ agent.upload \in Nat /\ agent.sent \in Nat
      /\ ping \in Nat /\ ping <= agent.pings /\ UploadOK(agent, next_req_id)
      /\ next_req_id \in Nat
  BY Constants DEF IInv, Types, AgentStates
<1>1. CASE UploadStalls
  <2> DEFINE f == Reply(agent.upload, "ERROR")
  <2>1. f \in Frames /\ FrameOK(f, next_req_id, agent.pings) /\ f.type = "ERROR"
    BY <1>0, <1>1, Zenon DEF UploadStalls, UploadOK, Reply, Frame, Frames, FrameTypes, Answers, Origins, FrameOK
  <2>2. agent' \in AgentStates /\ agent'.pings = agent.pings /\ UploadOK(agent', next_req_id)
    BY <1>0, <1>1, Zenon DEF UploadStalls, AgentStates, UploadOK
  <2> HIDE DEF f
  <2>3. down' = Append(down, f) /\ UNCHANGED <<thread, next_req_id, pending, streams, committed, ping>>
    BY <1>1, Zenon DEF UploadStalls, daemon, f
  <2> QED
    BY <1>0, <2>1, <2>2, <2>3, AgentSends, SMTT(30)
<1>2. CASE SendPing
  <2> DEFINE f == Frame("PING", agent.pings + 1, "ping", 0)
  <2>1. f \in Frames /\ FrameOK(f, next_req_id, agent.pings + 1) /\ f.type = "PING"
    BY <1>0 DEF Frame, Frames, FrameTypes, Origins, FrameOK
  <2>2. agent' \in AgentStates /\ agent'.pings = agent.pings + 1 /\ UploadOK(agent', next_req_id)
    <3>1. agent' = [agent EXCEPT !.pings = agent.pings + 1] /\ agent.pings + 1 \in Nat
      BY <1>0, <1>2 DEF SendPing
    <3>2. agent' \in AgentStates /\ agent'.pings = agent.pings + 1 /\ agent'.upload = agent.upload
      BY <1>0, <3>1, Zenon DEF AgentStates
    <3> QED
      BY <1>0, <3>2, Zenon DEF UploadOK
  <2> HIDE DEF f
  <2>3. down' = Append(down, f) /\ UNCHANGED <<thread, next_req_id, pending, streams, committed, ping>>
    BY <1>2, Zenon DEF SendPing, daemon, f
  <2>4. agent.pings <= agent'.pings /\ ping' \in Nat /\ ping' <= agent'.pings
    BY <1>0, <2>2, <2>3
  <2>5. FrameOK(f, next_req_id, agent'.pings)
    BY <2>1, <2>2, Zenon
  <2> QED
    BY <2>1, <2>2, <2>3, <2>4, <2>5, AgentSends, Zenon
<1>3. ASSUME NEW type \in {"OUTPUT", "EXIT"}, ChildSends(type)
      PROVE  IInv'
  <2> DEFINE f == Frame(type, ProcId, "child", agent.sent + 1)
  <2>1. f \in Frames /\ FrameOK(f, next_req_id, agent.pings) /\ f.type = type
    BY <1>0 DEF Frame, Frames, FrameTypes, StreamTypes, Origins, FrameOK, ProcId
  <2>2. agent' \in AgentStates /\ agent'.pings = agent.pings /\ UploadOK(agent', next_req_id)
    <3> DEFINE c == IF type = "EXIT" THEN "exited" ELSE agent.child
    <3>1. /\ agent' = [agent EXCEPT !.sent = agent.sent + 1, !.child = c] /\ agent.sent + 1 \in Nat
          /\ c \in {"none", "running", "exited"}
      BY <1>0, <1>3 DEF ChildSends, AgentStates
    <3> HIDE DEF c
    <3>2. agent' \in AgentStates /\ agent'.pings = agent.pings /\ agent'.upload = agent.upload
      BY <1>0, <3>1, Zenon DEF AgentStates
    <3> QED
      BY <1>0, <3>2, Zenon DEF UploadOK
  <2> HIDE DEF f
  <2>3. down' = Append(down, f) /\ UNCHANGED <<thread, next_req_id, pending, streams, committed, ping>>
    BY <1>3, Zenon DEF ChildSends, daemon, f
  <2>4. FrameOK(f, next_req_id, agent'.pings) /\ agent.pings <= agent'.pings
          /\ ping' \in Nat /\ ping' <= agent'.pings
    BY <1>0, <2>1, <2>2, <2>3
  <2>5. f.type \notin {"ACK", "OP_RESULT", "GET_CHUNK", "GET_END"}
    BY <2>1, Zenon
  <2> QED
    BY <2>1, <2>2, <2>3, <2>4, <2>5, AgentSends, Zenon
<1>4. CASE AgentCloses
  <2>1. agent' \in AgentStates /\ agent'.pings = agent.pings /\ UploadOK(agent', next_req_id)
    BY <1>0, <1>4, Zenon DEF AgentCloses, Closed, AgentStates, UploadOK
  <2> QED
    BY <1>0, <1>4, <2>1, AgentSilent DEF AgentCloses, daemon
<1> QED
  BY <1>1, <1>2, <1>3, <1>4, Zenon DEF Agent

\* The reader answers a PING, or ends.
LEMMA PongKeeps ==
  ASSUME IInv, Pong \/ ReaderEnds
  PROVE  IInv'
<1>0. /\ agent \in AgentStates /\ agent.pings \in Nat /\ ping \in Nat /\ ping <= agent.pings
      /\ UploadOK(agent, next_req_id) /\ next_req_id \in Nat
  BY Constants DEF IInv, Types, AgentStates
<1>1. UNCHANGED <<thread, next_req_id, pending, streams, committed>>
  BY Zenon DEF Pong, ReaderEnds
<1>2. /\ agent' \in AgentStates /\ agent'.pings = agent.pings /\ UploadOK(agent', next_req_id)
      /\ ping' \in Nat /\ ping' <= agent'.pings
  <2>1. agent' \in {agent, Closed} /\ ping' \in {0, ping}
    BY Zenon DEF Pong, ReaderEnds
  <2>2. Closed \in AgentStates /\ Closed.pings = agent.pings /\ UploadOK(Closed, next_req_id)
    BY <1>0, Zenon DEF Closed, AgentStates, UploadOK
  <2> QED
    BY <1>0, <2>1, <2>2
<1>3. CASE down' = down
  BY <1>0, <1>1, <1>2, <1>3, AgentSilent
<1>4. CASE down' = Append(down, Frame("ERROR", ping, "pong", 0))
  <2> DEFINE f == Frame("ERROR", ping, "pong", 0)
  <2>1. f \in Frames /\ FrameOK(f, next_req_id, agent.pings) /\ f.type = "ERROR"
    BY <1>0, Zenon DEF Frame, Frames, FrameTypes, Answers, Origins, FrameOK
  <2>2. down' = Append(down, f)
    BY <1>4, Zenon
  <2> HIDE DEF f
  <2> QED
    BY <1>0, <1>1, <1>2, <2>1, <2>2, AgentSends
<1> QED
  BY <1>3, <1>4, Zenon DEF Pong, ReaderEnds

\* A turn of the reader
LEMMA ReceiveKeeps ==
  ASSUME IInv, Receive
  PROVE  IInv'
<1> DEFINE f == Head(down)
<1>0. /\ thread \in [Threads -> ThreadStates] /\ down \in Seq(Frames) /\ down # <<>>
      /\ pending \in [Ids -> Frames] /\ streams \in [Ids -> Seq(Frames)]
      /\ next_req_id \in Nat /\ agent.pings \in Nat
  BY Constants, SMTT(30) DEF IInv, Types, AgentStates, Receive
<1>1. /\ f \in Frames /\ f = down[1] /\ 1 \in DOMAIN down /\ down' = Tail(down)
      /\ Tail(down) \in Seq(Frames)
      /\ \A i \in DOMAIN Tail(down) : i + 1 \in DOMAIN down /\ Tail(down)[i] = down[i + 1]
  BY <1>0 DEF Receive
<1>2. FrameOK(f, next_req_id, agent.pings)
  BY <1>1, Zenon DEF IInv, WireOK
<1>3. UNCHANGED <<thread, next_req_id, agent, committed>>
  BY Zenon DEF Receive
<1>4. \/ f.type = "PING" /\ ping' = f.req_id /\ UNCHANGED <<streams, pending>>
      \/ /\ f.type \in StreamTypes /\ UNCHANGED <<ping, pending>>
         /\ streams' = [streams EXCEPT ![f.req_id] = Append(streams[f.req_id], f)]
      \/ /\ f.type \in Answers /\ UNCHANGED <<ping, streams>>
         /\ pending' = [pending EXCEPT ![f.req_id] = f]
  BY <1>2, ZenonT(60) DEF Receive, Filed, FrameOK, StreamTypes, Answers
<1>a. f.req_id \in Nat /\ FirstReq <= next_req_id /\ FirstReq \in Nat /\ FirstReq > 1
  BY <1>1, Constants DEF Frames, IInv, Types
<1>b. f.type = "PING" => f.req_id <= agent.pings
  BY <1>2, Zenon DEF FrameOK, Answers
<1>c. f.type \in StreamTypes =>
        \/ f.type \in {"GET_CHUNK", "GET_END"} /\ f.req_id \in FirstReq..(next_req_id - 1)
        \/ f.type \in {"OUTPUT", "EXIT"} /\ f.req_id = 1
  BY <1>2, Zenon DEF FrameOK, StreamTypes, Answers, ProcId
<1> HIDE DEF f
<1>5. WireOK(down', next_req_id, agent.pings)
  BY <1>1, Zenon DEF IInv, WireOK
<1>6. Types' /\ ping' <= agent.pings
  <2>1. ping' \in Nat /\ ping' <= agent.pings
    <3>1. ping \in Nat /\ ping <= agent.pings
      BY Zenon DEF IInv, Types
    <3> QED
      BY <1>4, <1>a, <1>b, <3>1, Zenon
  <2>2. pending' \in [Ids -> Frames]
    BY <1>0, <1>1, <1>4, Zenon
  <2>3. streams' \in [Ids -> Seq(Frames)]
    <3>1. CASE streams' = [streams EXCEPT ![f.req_id] = Append(streams[f.req_id], f)]
      <4>1. f.req_id \in Ids => Append(streams[f.req_id], f) \in Seq(Frames)
        BY <1>0, <1>1, SMTT(30)
      <4> QED
        BY <1>0, <3>1, <4>1, Zenon
    <3> QED
      BY <1>0, <1>4, <3>1, Zenon
  <2> QED
    BY <1>1, <1>3, <2>1, <2>2, <2>3, Zenon DEF IInv, Types
<1>7. PendingOK(pending', next_req_id, agent.pings)
  BY <1>0, <1>2, <1>4, SMTT(30) DEF IInv, PendingOK
<1>8. StreamsOK(streams', next_req_id)
  <2>1. CASE UNCHANGED streams
    BY <2>1, Zenon DEF IInv
  <2>2. CASE /\ f.type \in StreamTypes
             /\ streams' = [streams EXCEPT ![f.req_id] = Append(streams[f.req_id], f)]
    <3>1. f.req_id < next_req_id
      BY <1>0, <1>a, <1>c, <2>2
    <3>2. f.req_id >= FirstReq => f.type \in {"GET_CHUNK", "GET_END"}
      BY <1>a, <1>c, <2>2
    <3>3. \A i \in Ids : i # f.req_id => streams'[i] = streams[i]
      BY <1>0, <2>2, Zenon
    <3>4. ASSUME f.req_id \in Ids, f.req_id >= FirstReq, NEW j \in DOMAIN streams'[f.req_id]
          PROVE  streams'[f.req_id][j].type \in {"GET_CHUNK", "GET_END"}
      <4> DEFINE s == streams[f.req_id]
      <4>1. s \in Seq(Frames) /\ streams'[f.req_id] = Append(s, f)
              /\ \A k \in DOMAIN s : s[k].type \in {"GET_CHUNK", "GET_END"}
        BY <1>0, <2>2, <3>4, Zenon DEF IInv, StreamsOK
      <4> HIDE DEF s
      <4>2. Append(s, f)[j] = f \/ (j \in DOMAIN s /\ Append(s, f)[j] = s[j])
        BY <1>1, <3>4, <4>1
      <4> QED
        BY <3>2, <3>4, <4>1, <4>2, Zenon
    <3>5. \A i \in Ids : i >= next_req_id => i # f.req_id
      BY <1>0, <1>a, <3>1, Constants
    <3>6. StreamsOK(streams, next_req_id)
      BY Zenon DEF IInv
    <3> QED
      BY <3>3, <3>4, <3>5, <3>6, ZenonT(60) DEF StreamsOK
  <2> QED
    BY <1>4, <2>1, <2>2, Zenon
<1>9. ASSUME NEW u \in Threads
      PROVE  /\ PutOK(thread[u], down', pending'[thread[u].req_id], committed)
             /\ GetOK(thread[u], down', streams'[thread[u].req_id])
  <2> SUFFICES ASSUME thread[u].cmd \in {"put", "get"}
               PROVE  /\ PutOK(thread[u], down', pending'[thread[u].req_id], committed)
                      /\ GetOK(thread[u], down', streams'[thread[u].req_id])
    BY OtherCommand, Zenon
  <2> DEFINE r == thread[u].req_id
  <2>1. r \in Ids /\ r \in FirstReq..(next_req_id - 1) /\ thread[u] \in ThreadStates
    BY <1>0, OwnId, Zenon
  <2>2. PutOK(thread[u], down, pending[r], committed) /\ GetOK(thread[u], down, streams[r])
    BY Zenon DEF IInv
  <2>3. pending'[r] = f \/ (pending'[r] = pending[r] /\ ~Good(f, r))
    BY <1>0, <1>2, <1>4, <2>1, Zenon DEF Good, StreamTypes
  <2>4. \/ streams'[r] = Append(streams[r], f) /\ Part(f, r)
        \/ streams'[r] = streams[r] /\ ~Part(f, r)
    <3>1. f.req_id = r /\ f.type \in StreamTypes => Part(f, r)
      BY <1>a, <1>c, <2>1 DEF Part
    <3>2. Part(f, r) => f.req_id = r /\ f.type \in StreamTypes \ (Answers \cup {"PING"})
      BY Zenon DEF Part, StreamTypes, Answers
    <3> QED
      BY <1>0, <1>4, <2>1, <3>1, <3>2, Zenon
  <2>5. streams[r] \in Seq(Frames)
    BY <1>0, <2>1, Zenon
  <2>6. PutOK(thread[u], Tail(down), pending'[r], committed)
    BY <1>0, <2>1, <2>2, <2>3, PutReceives, Zenon DEF f
  <2>7. GetOK(thread[u], Tail(down), streams'[r])
    BY <1>0, <2>1, <2>2, <2>4, <2>5, GetReceives, Zenon DEF f
  <2> QED
    BY <1>1, <2>6, <2>7, Zenon
<1>10. Started' /\ Unique'
  BY <1>3, Zenon DEF IInv, Started, Unique, At
<1> QED
  BY <1>3, <1>5, <1>6, <1>7, <1>8, <1>9, <1>10, ZenonT(60) DEF IInv

\* Ids given out stay given out.
LEMMA Wider ==
  ASSUME NEW a \in Nat, NEW m \in Nat, NEW n \in Nat, m <= n
  PROVE  \A r \in a..(m - 1) : r \in a..(n - 1)
OBVIOUS

\* A command is started, under an id of its own unless it is wait-proc.
LEMMA StartKeeps ==
  ASSUME IInv, NEW t \in Threads, NEW cmd \in Commands, Start(t, cmd)
  PROVE  IInv'
<1> DEFINE x == thread[t]
           y == [x EXCEPT !.cmd = cmd,
                          !.req_id = IF cmd = "wait-proc" THEN ProcId ELSE next_req_id,
                          !.pc = IF cmd = "wait-proc" THEN "stream" ELSE "lock"]
<1>0. /\ thread \in [Threads -> ThreadStates] /\ down \in Seq(Frames)
      /\ pending \in [Ids -> Frames] /\ streams \in [Ids -> Seq(Frames)]
      /\ next_req_id \in Nat /\ agent.pings \in Nat /\ FirstReq <= next_req_id
      /\ FirstReq \in Nat /\ N \in Nat /\ t \in 1..N /\ FirstReq > 1
  BY Constants, SMTT(30) DEF IInv, Types, AgentStates
<1>1. x \in ThreadStates /\ x.pc = "idle" /\ CommandOK(x, next_req_id)
  BY <1>0, Zenon DEF IInv, Start, At
<1>2. x.cmd = "none" /\ x.got = <<>> /\ ~x.begun /\ x.answer = "none"
  BY <1>1, Zenon DEF CommandOK
<1>3. /\ thread' = [thread EXCEPT ![t] = y]
      /\ next_req_id' = IF cmd = "wait-proc" THEN next_req_id ELSE next_req_id + 1
      /\ UNCHANGED <<pending, streams, ping, down, agent, committed>>
  BY Zenon DEF Start, NextReq
<1>4. /\ y \in ThreadStates /\ y.cmd = cmd /\ y.got = <<>> /\ ~y.begun /\ y.answer = "none"
      /\ y.req_id = IF cmd = "wait-proc" THEN ProcId ELSE next_req_id
      /\ y.pc = IF cmd = "wait-proc" THEN "stream" ELSE "lock"
  BY <1>0, <1>1, <1>2, ZenonT(60) DEF ThreadStates, Pcs, Ended, Commands, ProcId
<1> HIDE DEF y
<1>5. thread'[t] = y /\ \A u \in Threads : u # t => thread'[u] = thread[u]
  BY <1>0, <1>3, Zenon
<1>6. next_req_id' \in Nat /\ next_req_id <= next_req_id' /\ next_req_id <= FirstReq + t - 1
        /\ next_req_id' <= FirstReq + t /\ next_req_id \in Ids
  <2>1. next_req_id <= FirstReq + t - 1
    BY <1>1, Zenon DEF IInv, Started, At
  <2> QED
    BY <1>0, <1>3, <2>1, Constants
<1>7. Types'
  <2>1. thread' \in [Threads -> ThreadStates]
    BY <1>0, <1>3, <1>4, Zenon
  <2>2. next_req_id' \in FirstReq..(FirstReq + N)
    BY <1>0, <1>6
  <2> QED
    BY <1>3, <2>1, <2>2, Zenon DEF IInv, Types
<1>8. ASSUME NEW u \in Threads
      PROVE  CommandOK(thread'[u], next_req_id') /\ AnswerOK(thread'[u], agent.pings)
  <2>1. CASE u = t
    <3>1. cmd # "wait-proc" => next_req_id \in FirstReq..(next_req_id' - 1)
      BY <1>0, <1>3
    <3> QED
      BY <1>4, <1>5, <2>1, <3>1, Zenon DEF CommandOK, AnswerOK, Commands
  <2>2. CASE u # t
    <3>1. CommandOK(thread[u], next_req_id) /\ AnswerOK(thread[u], agent.pings)
      BY Zenon DEF IInv
    <3>a. FirstReq \in Nat /\ next_req_id \in Nat /\ next_req_id' \in Nat /\ next_req_id <= next_req_id'
      BY <1>0, <1>6, Zenon
    <3>2. \A r \in FirstReq..(next_req_id - 1) : r \in FirstReq..(next_req_id' - 1)
      BY <3>a, Wider, Zenon
    <3> QED
      BY <1>5, <2>2, <3>1, <3>2, Zenon DEF CommandOK
  <2> QED
    BY <2>1, <2>2, Zenon
<1>9. Started'
  <2> SUFFICES ASSUME NEW u \in Threads, thread'[u].pc = "idle"
               PROVE  next_req_id' <= FirstReq + u - 1
    BY Zenon DEF Started, At
  <2>1. u # t
    BY <1>4, <1>5, Zenon
  <2>2. thread[u].pc = "idle" /\ u \in 1..N
    BY <1>0, <1>5, <2>1, Constants, Zenon
  <2>3. ~(u \in 1..(t - 1))
    BY <2>2, Zenon DEF Start, At
  <2> QED
    BY <1>0, <1>6, <2>1, <2>2, <2>3
<1>10. Unique'
  <2>1. ASSUME NEW u \in Threads, u # t, thread[u].req_id = y.req_id
        PROVE  y.req_id \in {0, ProcId}
    <3>1. thread[u].req_id \in {0, ProcId} \/ thread[u].req_id \in FirstReq..(next_req_id - 1)
      <4>1. CommandOK(thread[u], next_req_id) /\ thread[u].cmd \in Commands \cup {"none"}
        BY <1>0, Zenon DEF IInv, ThreadStates
      <4> QED
        BY <4>1, Zenon DEF CommandOK, Commands
    <3> QED
      BY <1>0, <1>4, <2>1, <3>1
  <2> QED
    BY <1>5, <2>1, ZenonT(60) DEF IInv, Unique
<1>11. UploadOK(agent, next_req_id')
  BY <1>0, <1>6, SMTT(30) DEF IInv, UploadOK
<1>12. \A f \in Frames : FrameOK(f, next_req_id, agent.pings) => FrameOK(f, next_req_id', agent.pings)
  BY <1>0, <1>6, Later
<1>13. WireOK(down, next_req_id', agent.pings)
  <2>1. \A i \in DOMAIN down : down[i] \in Frames
    BY <1>0
  <2> QED
    BY <1>12, <2>1, Zenon DEF IInv, WireOK
<1>14. PendingOK(pending, next_req_id', agent.pings)
  <2>1. \A i \in Ids : pending[i] \in Frames
    BY <1>0, Zenon
  <2>2. PendingOK(pending, next_req_id, agent.pings)
    BY Zenon DEF IInv
  <2> QED
    BY <1>12, <2>1, <2>2, Zenon DEF PendingOK
<1>15. StreamsOK(streams, next_req_id')
  <2>1. \A i \in Ids : i >= next_req_id' => i >= next_req_id
    BY <1>0, <1>6, Constants
  <2> QED
    BY <2>1, Zenon DEF IInv, StreamsOK
<1>16. PutOK(y, down, pending[y.req_id], committed) /\ GetOK(y, down, streams[y.req_id])
  <2> SUFFICES ASSUME cmd \in {"put", "get"}
               PROVE  PutOK(y, down, pending[y.req_id], committed) /\ GetOK(y, down, streams[y.req_id])
    BY <1>4, OtherCommand, Zenon
  <2> DEFINE r == next_req_id
  <2>1. y.req_id = r /\ y.pc = "lock"
    BY <1>4, Zenon
  <2>2. r \notin FirstReq..(r - 1)
    BY <1>0
  <2>3. ASSUME NEW f \in Frames, FrameOK(f, r, agent.pings)
        PROVE  ~Good(f, r) /\ ~Part(f, r)
    BY <2>2, <2>3, Zenon DEF FrameOK, Good, Part
  <2>4. \A i \in DOMAIN down : ~Good(down[i], r) /\ ~Part(down[i], r)
    <3>1. \A i \in DOMAIN down : down[i] \in Frames /\ FrameOK(down[i], r, agent.pings)
      BY <1>0, SMTT(30) DEF IInv, WireOK
    <3> QED
      BY <2>3, <3>1, Zenon
  <2>5. ~Good(pending[r], r)
    <3>1. pending[r] = NoFrame \/ FrameOK(pending[r], r, agent.pings)
      BY <1>6, Zenon DEF IInv, PendingOK
    <3>2. pending[r] \in Frames
      BY <1>0, <1>6, ZenonT(60)
    <3> QED
      BY <2>3, <3>1, <3>2 DEF Good, NoFrame, Frame
  <2>6. streams[r] = <<>>
    BY <1>0, <1>6, SMTT(30) DEF IInv, StreamsOK
  <2> QED
    BY <1>4, <2>1, <2>4, <2>5, <2>6, Zenon DEF PutOK, NoGood, GetOK
<1>17. \A u \in Threads : /\ PutOK(thread'[u], down, pending[thread'[u].req_id], committed)
                          /\ GetOK(thread'[u], down, streams[thread'[u].req_id])
  BY <1>5, <1>16, Zenon DEF IInv
<1> QED
  BY <1>3, <1>7, <1>8, <1>9, <1>10, <1>11, <1>13, <1>14, <1>15, <1>17, ZenonT(60) DEF IInv
-----------------------------------------------------------------------------
(* Commands                                                                *)

\* What is known of the command t.
LEMMA Known ==
  ASSUME IInv, NEW t \in Threads
  PROVE  /\ thread \in [Threads -> ThreadStates] /\ thread[t] \in ThreadStates
         /\ CommandOK(thread[t], next_req_id) /\ AnswerOK(thread[t], agent.pings)
         /\ PutOK(thread[t], down, pending[thread[t].req_id], committed)
         /\ GetOK(thread[t], down, streams[thread[t].req_id])
         /\ down \in Seq(Frames) /\ pending \in [Ids -> Frames] /\ streams \in [Ids -> Seq(Frames)]
         /\ agent \in AgentStates /\ UploadOK(agent, next_req_id)
         /\ PendingOK(pending, next_req_id, agent.pings) /\ StreamsOK(streams, next_req_id)
BY Zenon DEF IInv, Types

\* A step of the command t that touches nothing else.
LEMMA QuietStep ==
  ASSUME IInv, NEW t \in Threads, NEW y \in ThreadStates,
         thread' = [thread EXCEPT ![t] = y], y.req_id = thread[t].req_id, y.pc # "idle",
         CommandOK(y, next_req_id), AnswerOK(y, agent.pings),
         UNCHANGED <<next_req_id, pending, streams, ping, down, agent, committed>>,
         PutOK(y, down, pending[y.req_id], committed), GetOK(y, down, streams[y.req_id])
  PROVE  IInv'
<1> DEFINE e == <<>>
<1>1. /\ down' = down \o e /\ e \in Seq(Frames) /\ WireOK(e, next_req_id, agent.pings)
      /\ \A i \in DOMAIN e : e[i].req_id = y.req_id
  BY Known, Nothing, Zenon DEF WireOK
<1> HIDE DEF e
<1> QED
  BY <1>1, Known, ThreadStep, Zenon

Failed(x) == [x EXCEPT !.pc = "failed", !.begun = FALSE, !.got = <<>>]

\* Nothing is claimed of a command that has failed.
LEMMA FailedOK ==
  ASSUME NEW x \in ThreadStates, NEW n, NEW g, NEW d, NEW p, NEW s, NEW c,
         CommandOK(x, n), AnswerOK(x, g), x.pc # "idle", x.cmd # "wait-proc"
  PROVE  /\ Failed(x) \in ThreadStates /\ Failed(x).req_id = x.req_id /\ Failed(x).pc # "idle"
         /\ CommandOK(Failed(x), n) /\ AnswerOK(Failed(x), g)
         /\ PutOK(Failed(x), d, p, c) /\ GetOK(Failed(x), d, s)
<1> DEFINE y == Failed(x)
<1>1. /\ y \in ThreadStates /\ y.req_id = x.req_id /\ y.pc = "failed" /\ ~y.begun
      /\ y.cmd = x.cmd /\ y.answer = x.answer
  <2>1. <<>> \in Seq(Nat) /\ "failed" \in Pcs
    BY DEF Pcs, Ended
  <2> QED
    BY <2>1, Zenon DEF Failed, ThreadStates
<1> HIDE DEF y
<1>2. CommandOK(y, n) /\ AnswerOK(y, g)
  BY <1>1, Zenon DEF CommandOK, AnswerOK, ThreadStates, Commands
<1>3. PutOK(y, d, p, c) /\ GetOK(y, d, s)
  BY <1>1, Zenon DEF PutOK, GetOK
<1> QED
  BY <1>1, <1>2, <1>3, Zenon DEF y

\* sock_lock is taken, a deadline passes.
LEMMA WaitKeeps ==
  ASSUME IInv, NEW t \in Threads, Lock(t) \/ Timeout(t) \/ WaitEnds(t)
  PROVE  IInv'
<1> DEFINE x == thread[t]
<1>0. UNCHANGED <<next_req_id, pending, streams, ping, down, agent, committed>>
  BY Zenon DEF Lock, Timeout, WaitEnds
<1>1. CASE Lock(t)
  <2> DEFINE y == [x EXCEPT !.pc = "send"]
  <2>1. /\ thread' = [thread EXCEPT ![t] = y] /\ x.pc = "lock"
    BY <1>1, Zenon DEF Lock, Go, At
  <2>2. /\ y \in ThreadStates /\ y.req_id = x.req_id /\ y.pc = "send" /\ y.begun = x.begun
        /\ y.cmd = x.cmd /\ y.answer = x.answer /\ y.got = x.got
    BY Known, ZenonT(60) DEF ThreadStates, Pcs, Ended
  <2> HIDE DEF y
  <2>3. CommandOK(y, next_req_id) /\ AnswerOK(y, agent.pings)
    BY <2>1, <2>2, Known, ZenonT(60) DEF CommandOK, AnswerOK
  <2>4. PutOK(y, down, pending[y.req_id], committed) /\ GetOK(y, down, streams[y.req_id])
    BY <2>1, <2>2, Known, ZenonT(60) DEF PutOK, GetOK
  <2> QED
    BY <1>0, <2>1, <2>2, <2>3, <2>4, QuietStep, Zenon
<1>2. CASE Timeout(t)
  <2>1. thread' = [thread EXCEPT ![t] = Failed(x)]
    BY <1>2, Zenon DEF Timeout, Raise, Failed
  <2>2. x.pc # "idle" /\ x.cmd # "wait-proc"
    BY <1>2, Known, Zenon DEF Timeout, At, CommandOK
  <2>3. /\ Failed(x) \in ThreadStates /\ Failed(x).req_id = x.req_id /\ Failed(x).pc # "idle"
        /\ CommandOK(Failed(x), next_req_id) /\ AnswerOK(Failed(x), agent.pings)
        /\ PutOK(Failed(x), down, pending[x.req_id], committed)
        /\ GetOK(Failed(x), down, streams[x.req_id])
    BY <2>2, Known, FailedOK, Zenon
  <2> QED
    BY <1>0, <2>1, <2>3, QuietStep, Zenon
<1>3. CASE WaitEnds(t)
  <2> DEFINE y == [x EXCEPT !.pc = "done"]
  <2>1. /\ thread' = [thread EXCEPT ![t] = y] /\ x.pc = "stream" /\ x.cmd = "wait-proc"
    BY <1>3, Zenon DEF WaitEnds, Go, At
  <2>2. /\ y \in ThreadStates /\ y.req_id = x.req_id /\ y.pc = "done" /\ y.begun = x.begun
        /\ y.cmd = x.cmd /\ y.answer = x.answer /\ y.got = x.got
    BY Known, Zenon DEF ThreadStates, Pcs, Ended
  <2> HIDE DEF y
  <2>3. CommandOK(y, next_req_id) /\ AnswerOK(y, agent.pings)
    BY <2>1, <2>2, Known, Zenon DEF CommandOK, AnswerOK
  <2>4. PutOK(y, down, pending[y.req_id], committed) /\ GetOK(y, down, streams[y.req_id])
    BY <2>1, <2>2, OtherCommand, Zenon
  <2> QED
    BY <1>0, <2>1, <2>2, <2>3, <2>4, QuietStep, Zenon
<1> QED
  BY <1>1, <1>2, <1>3, Zenon

\* The entry of a command that sends a request
LEMMA Entry ==
  ASSUME IInv, NEW t \in Threads, thread[t].pc \in {"lock", "send", "await"}
  PROVE  /\ thread[t].cmd \in {"op", "kill", "put", "get", "spawn"} /\ thread[t].req_id \in Ids
         /\ thread[t].req_id \in FirstReq..(next_req_id - 1)
<1>1. thread[t].cmd \in {"op", "kill", "put", "get", "spawn"}
  BY Known, Zenon DEF CommandOK, ThreadStates, Commands
<1>2. thread[t].req_id \in FirstReq..(next_req_id - 1)
  BY <1>1, Known, Zenon DEF CommandOK
<1>3. next_req_id \in FirstReq..(FirstReq + N)
  BY Zenon DEF IInv, Types
<1> QED
  BY <1>1, <1>2, <1>3, Constants, SMTT(30)

\* A command finds its answer.
LEMMA AnsweredKeeps ==
  ASSUME IInv, NEW t \in Threads, Answered(t)
  PROVE  IInv'
<1> DEFINE x == thread[t]
           r == x.req_id
           f == pending[r]
           pc == IF f.type = "ERROR" THEN IF HandsOn(x) THEN "refused" ELSE "failed"
                 ELSE CASE x.cmd = "put" /\ ~x.begun -> "lock"
                        [] x.cmd = "get" -> "stream"
                        [] OTHER -> "done"
           begun == x.cmd = "put" /\ ~x.begun /\ f.type # "ERROR"
           y == [x EXCEPT !.answer = f.of, !.begun = begun, !.pc = pc]
<1>1. /\ x.pc = "await" /\ f # NoFrame /\ pending' = [pending EXCEPT ![r] = NoFrame]
      /\ UNCHANGED <<next_req_id, streams, ping, down, agent, committed>>
  BY Zenon DEF Answered, At, Found, Popped
<1>0. thread' = [thread EXCEPT ![t] = y]
  <2>1. thread' = [thread EXCEPT ![t].answer = f.of, ![t].begun = begun, ![t].pc = pc]
    BY Zenon DEF Answered, Found
  <2> HIDE DEF f, begun, pc
  <2> QED
    BY <2>1, Known, Zenon
<1>2. x.cmd \in {"op", "kill", "put", "get", "spawn"} /\ r \in Ids /\ x \in ThreadStates
  BY <1>1, Entry, Known, Zenon
<1>3. f \in Frames /\ FrameOK(f, next_req_id, agent.pings) /\ f.req_id = r /\ f.type \in Answers
  BY <1>1, <1>2, Known, Zenon DEF PendingOK
<1>4. f.of \in {"request", "pong"} /\ (f.of = "pong" => r <= agent.pings)
  BY <1>3, Zenon DEF FrameOK, Answers
<1>5. /\ f.type = "ERROR" => pc \in {"refused", "failed"} /\ (x.cmd = "get" => pc = "failed")
      /\ f.type # "ERROR" =>
           /\ x.cmd = "put" /\ ~x.begun => pc = "lock"
           /\ x.cmd = "put" /\ x.begun => pc = "done"
           /\ x.cmd = "get" => pc = "stream"
           /\ x.cmd \in {"op", "kill", "spawn"} => pc = "done"
  <2> HIDE DEF f, x
  <2>1. CASE f.type = "ERROR"
    BY <2>1, Zenon DEF HandsOn
  <2>2. CASE f.type # "ERROR" /\ x.cmd = "put" /\ ~x.begun
    BY <2>2, Zenon
  <2>3. CASE f.type # "ERROR" /\ x.cmd = "put" /\ x.begun
    BY <2>3, Zenon
  <2>4. CASE f.type # "ERROR" /\ x.cmd = "get"
    BY <2>4, Zenon
  <2>5. CASE f.type # "ERROR" /\ x.cmd \in {"op", "kill", "spawn"}
    BY <2>5, Zenon
  <2> QED
    BY <1>2, <2>1, <2>2, <2>3, <2>4, <2>5, Zenon
<1>6. pc \in {"refused", "failed", "lock", "stream", "done"}
  BY <1>2, <1>5, Zenon
<1> HIDE DEF pc
<1>7. /\ y \in ThreadStates /\ y.req_id = r /\ y.pc = pc /\ y.begun = begun
      /\ y.cmd = x.cmd /\ y.answer = f.of /\ y.got = x.got
  <2>1. f.of \in Origins /\ pc \in Pcs /\ begun \in BOOLEAN
    BY <1>4, <1>6, Zenon DEF Origins, Pcs, Ended
  <2> HIDE DEF begun, f
  <2> QED
    BY <1>2, <2>1, Zenon DEF ThreadStates
<1> HIDE DEF y
<1>8. CommandOK(y, next_req_id) /\ AnswerOK(y, agent.pings)
  <2>1. CommandOK(x, next_req_id)
    BY Known, Zenon
  <2>2. AnswerOK(y, agent.pings)
    BY <1>4, <1>7, Zenon DEF AnswerOK
  <2>3. begun => pc = "lock" /\ x.cmd = "put"
    BY <1>5, Zenon
  <2>4. pc = "stream" => x.cmd = "get"
    BY <1>2, <1>5, Zenon
  <2> HIDE DEF begun, f
  <2>5. CommandOK(y, next_req_id)
    BY <1>2, <1>6, <1>7, <2>1, <2>3, <2>4, Zenon DEF CommandOK
  <2> QED
    BY <2>2, <2>5, Zenon
<1>9. /\ pending' \in [Ids -> Frames] /\ pending'[r] = NoFrame
      /\ \A i \in Ids \ {y.req_id} : pending'[i] = pending[i]
  <2>1. NoFrame \in Frames
    BY Zenon DEF NoFrame, Frame, Frames, FrameTypes, Origins
  <2> QED
    BY <1>1, <1>2, <1>7, <2>1, Known, Zenon
<1>10. PendingOK(pending', next_req_id, agent.pings)
  BY <1>7, <1>9, Known, ZenonT(60) DEF PendingOK
<1>11. PutOK(y, down, NoFrame, committed)
  <2> SUFFICES ASSUME x.cmd = "put"
               PROVE  PutOK(y, down, NoFrame, committed)
    BY <1>7, Zenon DEF PutOK
  <2>1. f.type # "ERROR" => Good(f, r)
    BY <1>3, Zenon DEF Good, Answers
  <2>2. PutOK(x, down, f, committed)
    BY Known, Zenon
  <2>3. CASE f.type = "ERROR"
    BY <1>5, <1>7, <2>3, Zenon DEF PutOK
  <2>4. CASE f.type # "ERROR" /\ ~x.begun
    <3>1. \A i \in DOMAIN down : ~Good(down[i], r)
      BY <1>1, <2>1, <2>2, <2>4, Zenon DEF PutOK, OneGood
    <3>2. NoGood(down, NoFrame, r)
      BY <3>1, Zenon DEF NoGood, Good, NoFrame, Frame
    <3> QED
      BY <1>5, <1>7, <2>4, <3>2, Zenon DEF PutOK
  <2>5. CASE f.type # "ERROR" /\ x.begun
    <3>1. r \in committed
      BY <2>1, <2>2, <2>5, Zenon DEF PutOK, NoGood
    <3> QED
      BY <1>5, <1>7, <2>5, <3>1, Zenon DEF PutOK
  <2> QED
    BY <2>3, <2>4, <2>5, Zenon
<1>12. GetOK(y, down, streams[r])
  <2>1. GetOK(x, down, streams[r])
    BY Known, Zenon
  <2>2. x.cmd = "get" => pc \in {"stream", "failed"}
    BY <1>5, Zenon
  <2> QED
    BY <1>1, <1>7, <2>1, <2>2, Zenon DEF GetOK
<1> DEFINE e == <<>>
<1>13. /\ down' = down \o e /\ e \in Seq(Frames) /\ WireOK(e, next_req_id, agent.pings)
       /\ \A i \in DOMAIN e : e[i].req_id = y.req_id
  BY <1>1, Known, Nothing, Zenon DEF WireOK
<1> HIDE DEF e
<1>14. /\ PutOK(y, down', pending'[y.req_id], committed') /\ GetOK(y, down', streams'[y.req_id])
       /\ y.pc # "idle"
  BY <1>1, <1>6, <1>7, <1>9, <1>11, <1>12, Zenon
<1> HIDE DEF f, begun
<1>15. /\ UNCHANGED <<next_req_id, ping, agent>> /\ committed \subseteq committed'
       /\ streams' = streams
  BY <1>1, Zenon
<1> QED
  BY <1>0, <1>7, <1>8, <1>9, <1>10, <1>13, <1>14, <1>15, Known, ThreadStep, ZenonT(60)

Taken(x, f) ==
  [x EXCEPT !.got = IF f.type = "GET_CHUNK" THEN Append(x.got, f.n) ELSE x.got,
            !.pc = IF Ends(x, f) THEN "done" ELSE x.pc]

\* get_file takes the next part of its file.
LEMMA GetTakes ==
  ASSUME NEW x \in ThreadStates, x.cmd = "get", x.pc = "stream", NEW d, NEW s \in Seq(Frames), s # <<>>,
         Head(s).type \in {"GET_CHUNK", "GET_END"}, GetOK(x, d, s)
  PROVE  GetOK(Taken(x, Head(s)), d, Tail(s))
<1> DEFINE f == Head(s)
           g == Len(x.got)
           y == Taken(x, f)
<1>1. /\ \A k \in DOMAIN x.got : x.got[k] = k
      /\ \A j \in DOMAIN s : Num(s[j]) = g + j
      /\ InOrder(d, x.req_id, g + Len(s) + 1)
  BY Zenon DEF GetOK
<1>2. g \in Nat /\ x.got \in Seq(Nat) /\ Chunks \in Nat /\ Len(s) \in Nat \ {0}
  BY Constants DEF ThreadStates
<1>3. /\ f \in Frames /\ 1 \in DOMAIN s /\ f = s[1] /\ Tail(s) \in Seq(Frames) /\ Len(Tail(s)) = Len(s) - 1
      /\ \A j \in DOMAIN Tail(s) : j \in Nat /\ j + 1 \in DOMAIN s /\ Tail(s)[j] = s[j + 1]
  OBVIOUS
<1>4. Num(f) = g + 1
  BY <1>1, <1>3, Zenon
<1>5. y.cmd = "get" /\ y.req_id = x.req_id
  BY Zenon DEF Taken, ThreadStates
<1>6. CASE f.type = "GET_CHUNK"
  <2>1. f.n = g + 1
    BY <1>4, <1>6, Zenon DEF Num
  <2>2. y.got = Append(x.got, f.n) /\ y.pc = "stream"
    BY <1>6, Zenon DEF Taken, Ends, ThreadStates
  <2> HIDE DEF y, f
  <2>3. Len(y.got) = g + 1 /\ \A k \in DOMAIN y.got : y.got[k] = k
    BY <1>1, <1>2, <2>1, <2>2, SMTT(60)
  <2>4. \A j \in DOMAIN Tail(s) : Num(Tail(s)[j]) = (g + 1) + j
    <3> SUFFICES ASSUME NEW j \in DOMAIN Tail(s)
                 PROVE  Num(Tail(s)[j]) = (g + 1) + j
      BY Zenon
    <3>1. Num(Tail(s)[j]) = g + (j + 1) /\ j \in Nat
      BY <1>1, <1>3, Zenon
    <3> HIDE DEF g
    <3> QED
      BY <1>2, <3>1
  <2>5. (g + 1) + Len(Tail(s)) + 1 = g + Len(s) + 1
    <3> DEFINE a == Len(s)
               b == Len(Tail(s))
    <3>1. a \in Nat \ {0} /\ b = a - 1
      BY <1>2, <1>3, Zenon
    <3> HIDE DEF a, b, g
    <3>2. (g + 1) + b + 1 = g + a + 1
      BY <1>2, <3>1
    <3> QED
      BY <3>2, Zenon DEF a, b
  <2> HIDE DEF g
  <2>6. InOrder(d, y.req_id, Len(y.got) + Len(Tail(s)) + 1)
    BY <1>1, <1>5, <2>3, <2>5, Zenon
  <2>7. \A j \in DOMAIN Tail(s) : Num(Tail(s)[j]) = Len(y.got) + j
    BY <2>3, <2>4, Zenon
  <2>8. GetOK(y, d, Tail(s))
    BY <1>5, <2>2, <2>3, <2>6, <2>7, Zenon DEF GetOK
  <2> QED
    BY <2>8, Zenon DEF y, f
<1>7. CASE f.type = "GET_END"
  <2>1. g + 1 = Chunks + 1
    BY <1>4, <1>7, Zenon DEF Num
  <2>2. y.got = x.got /\ y.pc = "done"
    BY <1>7, Zenon DEF Taken, Ends, ThreadStates
  <2>3. g = Chunks
    <3> HIDE DEF g
    <3> QED
      BY <1>2, <2>1
  <2>4. x.got = [i \in 1..Chunks |-> i]
    BY <1>1, <1>2, <2>3
  <2> HIDE DEF y, f
  <2>5. GetOK(y, d, Tail(s))
    BY <1>5, <2>2, <2>4, Zenon DEF GetOK
  <2> QED
    BY <2>5, Zenon DEF y, f
<1> QED
  BY <1>6, <1>7, Zenon

\* A turn of get_file or collect_stream
LEMMA TakeKeeps ==
  ASSUME IInv, NEW t \in Threads, Take(t)
  PROVE  IInv'
<1> DEFINE x == thread[t]
           r == x.req_id
           s == streams[r]
           f == Head(s)
           y == Taken(x, f)
<1>1. /\ x.pc = "stream" /\ s # <<>> /\ streams' = [streams EXCEPT ![r] = Tail(s)]
      /\ UNCHANGED <<next_req_id, pending, ping, down, agent, committed>>
  BY Zenon DEF Take, At
<1>2. x \in ThreadStates /\ thread \in [Threads -> ThreadStates] /\ CommandOK(x, next_req_id)
  BY Known, Zenon
<1>3. x.cmd \in {"get", "wait-proc"} /\ r \in Ids /\ (x.cmd = "get" => r >= FirstReq)
  <2>1. x.cmd \in {"get", "wait-proc"}
    BY <1>1, <1>2, Zenon DEF CommandOK
  <2>2. CASE x.cmd = "get"
    BY <2>2, OwnId, Constants, SMTT(30)
  <2>3. CASE x.cmd = "wait-proc"
    BY <1>2, <2>3, Constants, SMTT(30) DEF CommandOK, ProcId
  <2> QED
    BY <2>1, <2>2, <2>3, Zenon
<1>4. s \in Seq(Frames) /\ f \in Frames /\ Tail(s) \in Seq(Frames) /\ 1 \in DOMAIN s /\ f = s[1]
      /\ \A j \in DOMAIN Tail(s) : j + 1 \in DOMAIN s /\ Tail(s)[j] = s[j + 1]
  <2>1. s \in Seq(Frames)
    BY <1>3, Known, Zenon
  <2> HIDE DEF s
  <2> QED
    BY <1>1, <2>1
<1> DEFINE got == IF f.type = "GET_CHUNK" THEN Append(x.got, f.n) ELSE x.got
           pc == IF Ends(x, f) THEN "done" ELSE x.pc
<1>5. thread' = [thread EXCEPT ![t] = y]
  <2>1. thread' = [thread EXCEPT ![t].got = got, ![t].pc = pc]
    BY Zenon DEF Take
  <2>2. y = [x EXCEPT !.got = got, !.pc = pc]
    BY Zenon DEF Taken
  <2> HIDE DEF got, pc, y, f
  <2> QED
    BY <1>2, <2>1, <2>2, Zenon
<1>6. /\ y \in ThreadStates /\ y.req_id = r /\ y.cmd = x.cmd /\ y.begun = x.begun
      /\ y.answer = x.answer /\ y.pc \in {"stream", "done"}
  <2>1. got \in Seq(Nat) /\ pc \in {"stream", "done"} /\ pc \in Pcs
    <3>1. x.got \in Seq(Nat) /\ f.n \in Nat /\ x.pc = "stream"
      BY <1>1, <1>2, <1>4, ZenonT(30) DEF Frames, ThreadStates
    <3>2. got \in Seq(Nat)
      <4> HIDE DEF x, f
      <4> QED
        BY <3>1, SMTT(30)
    <3> QED
      BY <3>1, <3>2, Zenon DEF Pcs, Ended
  <2>2. y = [x EXCEPT !.got = got, !.pc = pc]
    BY Zenon DEF Taken
  <2> HIDE DEF got, pc, y, f
  <2> QED
    BY <1>2, <2>1, <2>2, ZenonT(60) DEF ThreadStates
<1> HIDE DEF y
<1>7. CommandOK(y, next_req_id) /\ AnswerOK(y, agent.pings)
  BY <1>1, <1>2, <1>3, <1>6, Known, Zenon DEF CommandOK, AnswerOK
<1>8. /\ streams' \in [Ids -> Seq(Frames)] /\ streams'[r] = Tail(s)
      /\ \A i \in Ids \ {r} : streams'[i] = streams[i]
  <2> HIDE DEF s
  <2> QED
    BY <1>1, <1>3, <1>4, Known, Zenon
<1>9. StreamsOK(streams', next_req_id)
  <2>1. StreamsOK(streams, next_req_id)
    BY Known, Zenon
  <2>2. r >= next_req_id => FALSE
    BY <1>1, <1>3, <2>1, Zenon DEF StreamsOK
  <2>3. r >= FirstReq => \A j \in DOMAIN Tail(s) : Tail(s)[j].type \in {"GET_CHUNK", "GET_END"}
    BY <1>3, <1>4, <2>1, Zenon DEF StreamsOK
  <2> HIDE DEF s
  <2> QED
    BY <1>8, <2>1, <2>2, <2>3, ZenonT(60) DEF StreamsOK
<1>10. PutOK(y, down, pending[r], committed)
  BY <1>3, <1>6, Zenon DEF PutOK
<1>11. GetOK(y, down, Tail(s))
  <2>1. CASE x.cmd = "get"
    <3>1. f.type \in {"GET_CHUNK", "GET_END"}
      BY <1>3, <1>4, <2>1, Known, Zenon DEF StreamsOK
    <3>2. GetOK(x, down, s)
      BY Known, Zenon
    <3> QED
      BY <1>1, <1>2, <1>4, <2>1, <3>1, <3>2, GetTakes, Zenon DEF y
  <2>2. CASE x.cmd # "get"
    BY <1>6, <2>2, Zenon DEF GetOK
  <2> QED
    BY <2>1, <2>2, Zenon
<1> DEFINE e == <<>>
<1>12. /\ down' = down \o e /\ e \in Seq(Frames) /\ WireOK(e, next_req_id, agent.pings)
       /\ \A i \in DOMAIN e : e[i].req_id = y.req_id
  BY <1>1, Known, Nothing, Zenon DEF WireOK
<1> HIDE DEF e, f
<1>13. /\ PutOK(y, down', pending'[y.req_id], committed') /\ GetOK(y, down', streams'[y.req_id])
       /\ y.pc # "idle"
  BY <1>1, <1>6, <1>8, <1>10, <1>11, Zenon
<1>14. /\ streams' \in [Ids -> Seq(Frames)] /\ StreamsOK(streams', next_req_id)
       /\ \A i \in Ids \ {y.req_id} : streams'[i] = streams[i]
  BY <1>6, <1>8, <1>9, Zenon
<1>15. /\ UNCHANGED <<next_req_id, ping, agent>> /\ committed \subseteq committed'
       /\ pending' = pending
  BY <1>1, Zenon
<1> HIDE DEF s
<1> QED
  BY <1>5, <1>6, <1>7, <1>12, <1>13, <1>14, <1>15, Known, ThreadStep, Zenon

\* The agent refuses n frames of a request: none of its ERRORs is a good answer
\* or part of a file.
LEMMA ErrorFrames ==
  ASSUME NEW r \in Nat, NEW n \in Nat
  PROVE  /\ Errors(r, n) \in Seq(Frames)
         /\ \A i \in DOMAIN Errors(r, n) :
              /\ Errors(r, n)[i] = Reply(r, "ERROR")
              /\ \A q : ~Good(Errors(r, n)[i], q) /\ ~Part(Errors(r, n)[i], q)
<1>1. Reply(r, "ERROR") \in Frames
  BY Zenon DEF Reply, Frame, Frames, FrameTypes, Answers, Origins
<1>2. \A q : ~Good(Reply(r, "ERROR"), q) /\ ~Part(Reply(r, "ERROR"), q)
  BY Zenon DEF Reply, Frame, Good, Part
<1>3. DOMAIN Errors(r, n) = 1..n /\ \A i \in 1..n : Errors(r, n)[i] = Reply(r, "ERROR")
  BY Zenon DEF Errors
<1>4. Errors(r, n) \in Seq(Frames)
  BY <1>1 DEF Errors
<1> QED
  BY <1>2, <1>3, <1>4, Zenon

\* Only commands with an id of their own send.
LEMMA Sender ==
  ASSUME IInv, NEW t \in Threads, At(t, "send")
  PROVE  /\ thread[t].cmd \in {"op", "kill", "put", "get", "spawn"}
         /\ thread[t].req_id \in Nat /\ thread[t].req_id \in FirstReq..(next_req_id - 1)
<1>1. thread[t].cmd \in {"op", "kill", "put", "get", "spawn"}
  BY Known, Zenon DEF CommandOK, At, ThreadStates, Commands
<1> QED
  BY <1>1, Known, Zenon DEF CommandOK, ThreadStates

\* What a command sends, and the agent makes of it at once: the command goes on
\* as y, the agent sends e.
LEMMA SendStep ==
  ASSUME IInv, NEW t \in Threads, At(t, "send"), NEW y \in ThreadStates, NEW e \in Seq(Frames),
         thread' = [thread EXCEPT ![t] = y], y.req_id = thread[t].req_id, y.pc # "idle",
         CommandOK(y, next_req_id), AnswerOK(y, agent.pings),
         down' = down \o e, committed \subseteq committed',
         \A i \in DOMAIN e :
           /\ e[i].req_id = y.req_id /\ e[i].of = "request"
           /\ e[i].type \in Answers \cup {"GET_CHUNK", "GET_END"},
         agent' \in AgentStates, agent'.pings = agent.pings,
         agent'.upload \in {0, agent.upload, y.req_id},
         UNCHANGED <<next_req_id, pending, streams, ping>>,
         PutOK(y, down \o e, pending[y.req_id], committed'), GetOK(y, down \o e, streams[y.req_id])
  PROVE  IInv'
<1>1. y.req_id \in FirstReq..(next_req_id - 1)
  BY Sender, Zenon
<1>2. WireOK(e, next_req_id, agent.pings)
  BY <1>1, Zenon DEF WireOK, FrameOK
<1>3. UploadOK(agent', next_req_id)
  BY <1>1, Known, Zenon DEF UploadOK
<1>4. PutOK(y, down', pending'[y.req_id], committed') /\ GetOK(y, down', streams'[y.req_id])
  BY Zenon
<1>5. \A i \in DOMAIN e : e[i].req_id = y.req_id
  BY Zenon
<1>6. next_req_id' = next_req_id /\ ping' = ping
  BY Zenon
<1>7. /\ pending' \in [Ids -> Frames] /\ PendingOK(pending', next_req_id, agent.pings)
      /\ \A i \in Ids \ {y.req_id} : pending'[i] = pending[i]
  BY Known, Zenon
<1>8. /\ streams' \in [Ids -> Seq(Frames)] /\ StreamsOK(streams', next_req_id)
      /\ \A i \in Ids \ {y.req_id} : streams'[i] = streams[i]
  BY Known, Zenon
<1> QED
  BY <1>2, <1>3, <1>4, <1>5, <1>6, <1>7, <1>8, ThreadStep, Zenon

\* sendall raises.
LEMMA SendRaisesKeeps ==
  ASSUME IInv, NEW t \in Threads, SendRaises(t)
  PROVE  IInv'
<1> DEFINE x == thread[t]
           y == Failed(x)
           r == x.req_id
           m == IF agent.open /\ x.begun /\ agent.upload # r THEN Chunks ELSE 0
<1>1. /\ At(t, "send") /\ thread' = [thread EXCEPT ![t] = y] /\ agent' \in {agent, Closed}
      /\ UNCHANGED <<next_req_id, pending, streams, ping, committed>>
  BY Zenon DEF SendRaises, Raise, Failed
<1>2. x \in ThreadStates /\ x.cmd # "wait-proc" /\ x.pc # "idle" /\ r \in Nat
  BY <1>1, Known, Sender, Zenon DEF At
<1>3. /\ y \in ThreadStates /\ y.req_id = r /\ y.pc # "idle"
      /\ CommandOK(y, next_req_id) /\ AnswerOK(y, agent.pings)
      /\ \A d, p, c : PutOK(y, d, p, c)
      /\ \A d, s : GetOK(y, d, s)
  BY <1>2, Known, FailedOK, Zenon
<1>4. PICK n \in 0..m : down' = down \o Errors(r, n)
  BY Zenon DEF SendRaises
<1>5. n \in Nat
  <2>1. m \in Nat
    BY Constants, ZenonT(60)
  <2> HIDE DEF m
  <2> QED
    BY <2>1
<1> DEFINE e == Errors(r, n)
<1>6. /\ e \in Seq(Frames)
      /\ \A i \in DOMAIN e :
           e[i].req_id = y.req_id /\ e[i].of = "request" /\ e[i].type \in Answers \cup {"GET_CHUNK", "GET_END"}
  <2>1. e \in Seq(Frames) /\ \A i \in DOMAIN e : e[i] = Reply(r, "ERROR")
    BY <1>2, <1>5, ErrorFrames, Zenon
  <2> HIDE DEF e
  <2> QED
    <3> DEFINE f == Reply(r, "ERROR")
    <3>1. f.req_id = y.req_id /\ f.of = "request" /\ f.type \in Answers \cup {"GET_CHUNK", "GET_END"}
      BY <1>3, Zenon DEF Reply, Frame, Answers
    <3> HIDE DEF f
    <3> QED
      BY <2>1, <3>1, Zenon DEF f
<1>7. agent' \in AgentStates /\ agent'.pings = agent.pings /\ agent'.upload \in {0, agent.upload, y.req_id}
  BY <1>1, Known, Zenon DEF AgentStates, Closed
<1> HIDE DEF y, e
<1>8. down' = down \o e /\ committed \subseteq committed'
  BY <1>1, <1>4, Zenon DEF e
<1>9. /\ y \in ThreadStates /\ y.req_id = thread[t].req_id /\ y.pc # "idle"
      /\ CommandOK(y, next_req_id) /\ AnswerOK(y, agent.pings)
  BY <1>3, Zenon
<1>10. PutOK(y, down \o e, pending[y.req_id], committed') /\ GetOK(y, down \o e, streams[y.req_id])
  BY <1>3, Zenon
<1> QED
  BY <1>1, <1>6, <1>7, <1>8, <1>9, <1>10, SendStep, ZenonT(60)

\* The agent's answer e to the command y, in the state that follows
Fits(y, e, d, p, c, s) ==
  /\ e \in Seq(Frames)
  /\ \A i \in DOMAIN e :
       /\ e[i].req_id = y.req_id /\ e[i].of = "request"
       /\ e[i].type \in Answers \cup {"GET_CHUNK", "GET_END"}
  /\ PutOK(y, d \o e, p, c) /\ GetOK(y, d \o e, s)

\* Any number of ERRORs fits.
LEMMA ErrorsFit ==
  ASSUME NEW y \in ThreadStates, NEW d \in Seq(Frames), NEW p, NEW c, NEW s, NEW n \in Nat,
         PutOK(y, d, p, c), GetOK(y, d, s)
  PROVE  Fits(y, Errors(y.req_id, n), d, p, c, s)
<1> DEFINE e == Errors(y.req_id, n)
<1>1. y.req_id \in Nat
  BY Zenon DEF ThreadStates
<1>2. /\ e \in Seq(Frames)
      /\ \A i \in DOMAIN e : e[i] = Reply(y.req_id, "ERROR") /\ ~Good(e[i], y.req_id) /\ ~Part(e[i], y.req_id)
  BY <1>1, ErrorFrames, Zenon
<1> HIDE DEF e
<1>3. PutOK(y, d \o e, p, c) /\ GetOK(y, d \o e, s)
  BY <1>2, Extended, ZenonT(60)
<1>4. \A i \in DOMAIN e :
        /\ e[i].req_id = y.req_id /\ e[i].of = "request"
        /\ e[i].type \in Answers \cup {"GET_CHUNK", "GET_END"}
  BY <1>2 DEF Reply, Frame, Answers
<1>5. Fits(y, e, d, p, c, s)
  BY <1>2, <1>3, <1>4, Zenon DEF Fits
<1> QED
  BY <1>5, Zenon DEF e

\* A single good answer fits the first request of any command but get, and the
\* end of an upload that has been committed.
LEMMA GoodFits ==
  ASSUME NEW y \in ThreadStates, NEW d \in Seq(Frames), NEW p, NEW c, NEW s,
         NEW type \in {"ACK", "OP_RESULT"},
         y.pc = "await", y.cmd # "get",
         y.cmd = "put" => \/ ~y.begun /\ NoGood(d, p, y.req_id)
                          \/ y.begun /\ y.req_id \in c
  PROVE  Fits(y, <<Reply(y.req_id, type)>>, d, p, c, s)
<1> DEFINE f == Reply(y.req_id, type)
           e == <<f>>
<1>1. f \in Frames /\ f.req_id = y.req_id /\ f.of = "request" /\ f.type \in Answers
  BY Zenon DEF Reply, Frame, Frames, FrameTypes, Answers, Origins, ThreadStates
<1> HIDE DEF f
<1>2. e \in Seq(Frames) /\ DOMAIN e = {1} /\ e[1] = f
  BY <1>1
<1>3. PutOK(y, d \o e, p, c)
  BY <1>1, OneMore, Zenon DEF PutOK
<1>4. GetOK(y, d \o e, s)
  BY Zenon DEF GetOK
<1> HIDE DEF e
<1>5. Fits(y, e, d, p, c, s)
  BY <1>1, <1>2, <1>3, <1>4, Zenon DEF Fits
<1> QED
  BY <1>5, Zenon DEF e, f

\* A file fits a get.
LEMMA FileFits ==
  ASSUME NEW y \in ThreadStates, NEW d \in Seq(Frames), NEW p, NEW c, NEW s,
         NEW k \in 0..Chunks, NEW end \in {"GET_END", "ERROR"}, end = "GET_END" => k = Chunks,
         y.pc = "await", y.cmd = "get", y.got = <<>>, s = <<>>,
         \A i \in DOMAIN d : ~Part(d[i], y.req_id)
  PROVE  Fits(y, File(y.req_id, k, end).frames, d, p, c, s)
<1> DEFINE r == y.req_id
           e == File(r, k, end).frames
<1>1. r \in Nat /\ k \in Nat
  BY Constants DEF ThreadStates
<1>2. /\ e \in Seq(Frames) /\ Len(e) = k + 2
      /\ e[1] = Reply(r, "ACK") /\ e[k + 2] = Reply(r, end)
      /\ \A i \in 2..(k + 1) : e[i] = Frame("GET_CHUNK", r, "request", i - 1)
  BY <1>1, FileFrames, Zenon
<1>3. InOrder(d \o e, r, 1)
  BY <1>1, FileInOrder, ZenonT(60)
<1> HIDE DEF e
<1>4. ASSUME NEW i \in DOMAIN e
      PROVE  e[i].req_id = r /\ e[i].of = "request" /\ e[i].type \in Answers \cup {"GET_CHUNK", "GET_END"}
  <2>1. i = 1 \/ i = k + 2 \/ i \in 2..(k + 1)
    BY <1>1, <1>2, SMTT(30)
  <2>2. \/ e[i] = Reply(r, "ACK") \/ e[i] = Reply(r, end)
        \/ e[i] = Frame("GET_CHUNK", r, "request", i - 1)
    BY <1>2, <2>1, ZenonT(60)
  <2> QED
    BY <2>2, SMTT(30) DEF Reply, Frame, Answers
<1>5. GetOK(y, d \o e, s)
  <2>1. Len(y.got) + Len(s) + 1 = 1
    OBVIOUS
  <2> QED
    BY <1>3, <2>1, SMTT(30) DEF GetOK
<1>6. PutOK(y, d \o e, p, c)
  BY Zenon DEF PutOK
<1>7. Fits(y, e, d, p, c, s)
  BY <1>2, <1>4, <1>5, <1>6, Zenon DEF Fits
<1> QED
  BY <1>7, Zenon DEF e

\* What the agent can make of a request
LEMMA Outcomes ==
  ASSUME NEW cmd \in {"op", "kill", "put", "get", "spawn"}, NEW r, NEW h \in Request(cmd, r)
  PROVE  \/ h = Refused(r)
         \/ cmd = "op" /\ h = Accepted(r, "OP_RESULT", agent)
         \/ cmd = "kill" /\ h = Accepted(r, "ACK", agent)
         \/ cmd = "put" /\ h = Accepted(r, "ACK", [agent EXCEPT !.upload = r])
         \/ cmd = "spawn" /\ h = Accepted(r, "ACK", [agent EXCEPT !.child = "running"])
         \/ /\ cmd = "get"
            /\ \E k \in 0..Chunks, end \in {"GET_END", "ERROR"} :
                 (end = "GET_END" => k = Chunks) /\ h = File(r, k, end)
<1>1. CASE cmd = "op"
  BY <1>1, Zenon DEF Request
<1>5. CASE cmd = "kill"
  BY <1>5, Zenon DEF Request
<1>2. CASE cmd = "put"
  BY <1>2, Zenon DEF Request
<1>3. CASE cmd = "spawn"
  BY <1>3, Zenon DEF Request
<1>4. CASE cmd = "get"
  <2>1. \/ h = Refused(r) \/ h = File(r, Chunks, "GET_END")
        \/ \E k \in 0..(Chunks - 1) : h = File(r, k, "ERROR")
    BY <1>4, Zenon DEF Request
  <2>2. Chunks \in 0..Chunks /\ \A k \in 0..(Chunks - 1) : k \in 0..Chunks
    BY Constants
  <2> QED
    BY <1>4, <2>1, <2>2, Zenon
<1> QED
  BY <1>1, <1>2, <1>3, <1>4, <1>5, Zenon

\* sendall, and what the agent makes of it.
LEMMA SendKeeps ==
  ASSUME IInv, NEW t \in Threads, Send(t)
  PROVE  IInv'
<1> DEFINE x == thread[t]
           y == [x EXCEPT !.pc = "await"]
           r == x.req_id
           p == pending[r]
           s == streams[r]
<1>1. /\ At(t, "send") /\ x.pc = "send" /\ thread' = [thread EXCEPT ![t] = y]
      /\ UNCHANGED <<next_req_id, pending, streams, ping>>
  BY Zenon DEF Send, Go, At
<1>2. /\ x \in ThreadStates /\ down \in Seq(Frames) /\ r \in Nat /\ agent \in AgentStates
      /\ x.cmd \in {"op", "kill", "put", "get", "spawn"}
      /\ PutOK(x, down, p, committed) /\ GetOK(x, down, s)
  BY <1>1, Known, Sender, Zenon
<1>3. /\ y \in ThreadStates /\ y.req_id = r /\ y.pc = "await" /\ y.begun = x.begun
      /\ y.cmd = x.cmd /\ y.answer = x.answer /\ y.got = x.got
  <2>1. x \in ThreadStates /\ r = x.req_id
    BY <1>2, Zenon
  <2> HIDE DEF x, r
  <2> QED
    BY <2>1, Zenon DEF ThreadStates, Pcs, Ended
<1> HIDE DEF y
<1>4. CommandOK(y, next_req_id) /\ AnswerOK(y, agent.pings)
  BY <1>1, <1>2, <1>3, Known, Zenon DEF CommandOK, AnswerOK
<1>5. PutOK(y, down, p, committed)
  BY <1>1, <1>2, <1>3, Zenon DEF PutOK, NoGood, OneGood
<1>6. x.cmd = "get" => s = <<>> /\ x.got = <<>> /\ \A i \in DOMAIN down : ~Part(down[i], r)
  BY <1>1, <1>2, Zenon DEF GetOK
<1>7. GetOK(y, down, s)
  <2>1. CASE x.cmd = "get"
    <3>1. InOrder(down, r, Len(y.got) + Len(s) + 1)
      BY <1>6, <2>1, Zenon DEF InOrder
    <3> HIDE DEF s
    <3> QED
      BY <1>3, <1>6, <2>1, <3>1 DEF GetOK
  <2>2. CASE x.cmd # "get"
    BY <1>3, <2>2, Zenon DEF GetOK
  <2> QED
    BY <2>1, <2>2, ZenonT(60)
<1>8. x.cmd = "put" /\ ~x.begun => NoGood(down, p, r)
  BY <1>1, <1>2, Zenon DEF PutOK
<1>9. ASSUME NEW e, down' = down \o e, Fits(y, e, down, p, committed', s), committed \subseteq committed',
             agent' \in AgentStates, agent'.pings = agent.pings, agent'.upload \in {0, agent.upload, r}
      PROVE  IInv'
  <2>1. /\ e \in Seq(Frames)
        /\ \A i \in DOMAIN e :
             /\ e[i].req_id = y.req_id /\ e[i].of = "request"
             /\ e[i].type \in Answers \cup {"GET_CHUNK", "GET_END"}
        /\ PutOK(y, down \o e, pending[y.req_id], committed') /\ GetOK(y, down \o e, streams[y.req_id])
    BY <1>3, <1>9, Zenon DEF Fits
  <2>2. y \in ThreadStates /\ y.req_id = thread[t].req_id /\ y.pc # "idle"
    BY <1>3, Zenon
  <2>3. agent'.upload \in {0, agent.upload, y.req_id}
    BY <1>3, <1>9, Zenon
  <2> QED
    BY <1>1, <1>4, <1>9, <2>1, <2>2, <2>3, SendStep, Zenon
<1>10. CASE ~agent.open
  <2>1. UNCHANGED <<agent, down, committed>>
    BY <1>10, Zenon DEF Send
  <2> QED
    BY <1>1, <1>3, <1>4, <1>5, <1>7, <2>1, QuietStep, Zenon
<1>11. CASE agent.open
  <2>1. PICK h \in IF x.begun THEN Upload(r) ELSE Request(x.cmd, r) :
          /\ agent' = h.agent /\ down' = down \o h.frames
          /\ committed' = IF h.commit THEN committed \cup {r} ELSE committed
    BY <1>11, Zenon DEF Send
  <2>2. committed \subseteq committed'
    BY <2>1, Zenon
  <2>3. ASSUME NEW n \in Nat, h.frames = Errors(r, n), ~h.commit
        PROVE  Fits(y, h.frames, down, p, committed', s)
    <3>1. committed' = committed
      BY <2>1, <2>3, Zenon
    <3> HIDE DEF p, s
    <3> QED
      BY <1>2, <1>3, <1>5, <1>7, <2>3, <3>1, ErrorsFit, ZenonT(60)
  <2>4. CASE x.begun
    <3>1. x.cmd = "put"
      BY <2>4, Known, Zenon DEF CommandOK
    <3> DEFINE idle == [agent EXCEPT !.upload = 0]
    <3>2. idle \in AgentStates /\ idle.pings = agent.pings /\ idle.upload = 0
      BY <1>2, Zenon DEF AgentStates
    <3>3. \/ h = [frames |-> Errors(r, Chunks + 1), agent |-> agent, commit |-> FALSE]
          \/ h = [frames |-> <<Reply(r, "ACK")>>, agent |-> idle, commit |-> TRUE]
          \/ \E n \in 1..(Chunks + 1) : h = [frames |-> Errors(r, n), agent |-> idle, commit |-> FALSE]
      <4>1. h \in Upload(r)
        BY <2>1, <2>4, Zenon
      <4> HIDE DEF r
      <4> QED
        BY <4>1, Zenon DEF Upload
    <3> HIDE DEF idle
    <3>4. Chunks + 1 \in 1..(Chunks + 1)
      BY Constants, SMTT(30)
    <3>5. /\ h.agent \in {agent, idle}
          /\ \/ \E n \in 1..(Chunks + 1) : h.frames = Errors(r, n) /\ ~h.commit
             \/ h.frames = <<Reply(r, "ACK")>> /\ h.commit
      <4> HIDE DEF r
      <4>1. CASE h = [frames |-> Errors(r, Chunks + 1), agent |-> agent, commit |-> FALSE]
        <5>1. h.frames = Errors(r, Chunks + 1) /\ h.agent = agent /\ ~h.commit
          BY <4>1, Zenon
        <5> QED
          BY <3>4, <5>1, Zenon
      <4>2. CASE h = [frames |-> <<Reply(r, "ACK")>>, agent |-> idle, commit |-> TRUE]
        BY <4>2, SMTT(30)
      <4>3. ASSUME NEW n \in 1..(Chunks + 1),
                   h = [frames |-> Errors(r, n), agent |-> idle, commit |-> FALSE]
            PROVE  h.agent = idle /\ \E m \in 1..(Chunks + 1) : h.frames = Errors(r, m) /\ ~h.commit
        <5>1. h.frames = Errors(r, n) /\ h.agent = idle /\ ~h.commit
          BY <4>3, Zenon
        <5> QED
          BY <5>1, Zenon
      <4> QED
        BY <3>3, <4>1, <4>2, <4>3, Zenon
    <3>6. agent' \in AgentStates /\ agent'.pings = agent.pings /\ agent'.upload \in {0, agent.upload, r}
      BY <1>2, <2>1, <3>5, <3>2, Zenon
    <3>7. Fits(y, h.frames, down, p, committed', s)
      <4>1. CASE \E n \in 1..(Chunks + 1) : h.frames = Errors(r, n) /\ ~h.commit
        <5>1. PICK n \in 1..(Chunks + 1) : h.frames = Errors(r, n) /\ ~h.commit
          BY <4>1, Zenon
        <5>2. n \in Nat
          BY SMTT(30)
        <5> QED
          BY <2>3, <5>1, <5>2, Zenon
      <4>2. CASE h.frames = <<Reply(r, "ACK")>> /\ h.commit
        <5>1. r \in committed'
          BY <2>1, <4>2, Zenon
        <5> HIDE DEF p, s
        <5> QED
          BY <1>2, <1>3, <2>4, <3>1, <4>2, <5>1, GoodFits, ZenonT(60)
      <4> QED
        BY <3>5, <4>1, <4>2, ZenonT(60)
    <3> QED
      BY <1>9, <2>1, <2>2, <3>6, <3>7, Zenon
  <2>5. CASE ~x.begun
    <3>1. h \in Request(x.cmd, r)
      BY <2>1, <2>5, Zenon
    <3>2. CASE h = Refused(r)
      <4>1. h.frames = Errors(r, 1) /\ ~h.commit /\ h.agent = agent
        BY <3>2, Zenon DEF Refused
      <4> QED
        BY <1>2, <1>9, <2>1, <2>2, <2>3, <4>1, Zenon
    <3>3. ASSUME NEW type \in {"ACK", "OP_RESULT"}, NEW a, x.cmd # "get", h = Accepted(r, type, a),
                 a \in AgentStates, a.pings = agent.pings, a.upload \in {0, agent.upload, r}
          PROVE  IInv'
      <4>1. h.frames = <<Reply(r, type)>> /\ ~h.commit /\ h.agent = a
        BY <3>3, Zenon DEF Accepted
      <4>2. Fits(y, h.frames, down, p, committed', s)
        <5> HIDE DEF p, s
        <5> QED
          BY <1>2, <1>3, <1>8, <2>5, <3>3, <4>1, GoodFits, ZenonT(60)
      <4> QED
        BY <1>9, <2>1, <2>2, <3>3, <4>1, <4>2, Zenon
    <3>4. CASE x.cmd = "op" /\ h = Accepted(r, "OP_RESULT", agent)
      BY <1>2, <3>3, <3>4, Zenon
    <3>8. CASE x.cmd = "kill" /\ h = Accepted(r, "ACK", agent)
      BY <1>2, <3>3, <3>8, Zenon
    <3>5. CASE x.cmd = "put" /\ h = Accepted(r, "ACK", [agent EXCEPT !.upload = r])
      <4> DEFINE a == [agent EXCEPT !.upload = r]
      <4>1. a \in AgentStates /\ a.pings = agent.pings /\ a.upload = r
        BY <1>2, Zenon DEF AgentStates
      <4> HIDE DEF a
      <4>2. h = Accepted(r, "ACK", a) /\ x.cmd # "get"
        BY <3>5, Zenon DEF a
      <4> QED
        BY <3>3, <4>1, <4>2, Zenon
    <3>6. CASE x.cmd = "spawn" /\ h = Accepted(r, "ACK", [agent EXCEPT !.child = "running"])
      <4> DEFINE a == [agent EXCEPT !.child = "running"]
      <4>1. a \in AgentStates /\ a.pings = agent.pings /\ a.upload = agent.upload
        BY <1>2, Zenon DEF AgentStates
      <4> HIDE DEF a
      <4>2. h = Accepted(r, "ACK", a) /\ x.cmd # "get"
        BY <3>6, Zenon DEF a
      <4> QED
        BY <3>3, <4>1, <4>2, Zenon
    <3>7. ASSUME x.cmd = "get", NEW k \in 0..Chunks, NEW end \in {"GET_END", "ERROR"},
                 end = "GET_END" => k = Chunks, h = File(r, k, end)
          PROVE  IInv'
      <4>1. h.agent = agent /\ ~h.commit
        BY <3>7, Zenon DEF File
      <4>2. Fits(y, h.frames, down, p, committed', s)
        <5> HIDE DEF p, s
        <5> QED
          BY <1>2, <1>3, <1>6, <3>7, FileFits, Zenon
      <4> QED
        BY <1>2, <1>9, <2>1, <2>2, <4>1, <4>2, Zenon
    <3> HIDE DEF x, r
    <3> QED
      BY <1>2, <3>1, <3>2, <3>4, <3>5, <3>6, <3>7, <3>8, Outcomes, SMTT(30)
  <2> QED
    BY <2>4, <2>5, Zenon
<1> QED
  BY <1>10, <1>11, Zenon

-----------------------------------------------------------------------------
(* The invariant and the properties                                        *)

\* Nothing has been sent yet.
LEMMA InitOK ==
  ASSUME Init
  PROVE  IInv
<1> DEFINE x == [cmd |-> "none", pc |-> "idle", req_id |-> 0, begun |-> FALSE,
                 answer |-> "none", got |-> <<>>]
<1>1. /\ x \in ThreadStates /\ x.cmd = "none" /\ x.pc = "idle" /\ x.req_id = 0 /\ ~x.begun
      /\ x.answer = "none" /\ x.got = <<>>
  <2>1. <<>> \in Seq(Nat)
    OBVIOUS
  <2> QED
    BY <2>1, Zenon DEF ThreadStates, Pcs, Ended, Origins
<1> HIDE DEF x
<1>2. thread = [t \in Threads |-> x]
  BY Zenon DEF Init, x
<1>3. NoFrame \in Frames /\ <<>> \in Seq(Frames)
  BY SMTT(30) DEF NoFrame, Frame, Frames, FrameTypes, Origins
<1>4. agent \in AgentStates /\ agent.upload = 0
  BY Constants DEF Init, AgentStates
<1>5. Types
  <2>1. next_req_id \in FirstReq..(FirstReq + N) /\ ping \in Nat
    BY Constants DEF Init
  <2>2. thread \in [Threads -> ThreadStates]
    BY <1>1, <1>2, Zenon
  <2>3. pending \in [Ids -> Frames] /\ streams \in [Ids -> Seq(Frames)] /\ down \in Seq(Frames)
    BY <1>3, Zenon DEF Init
  <2> QED
    BY <1>4, <2>1, <2>2, <2>3, ZenonT(60) DEF Types
<1>6. \A t \in Threads : CommandOK(thread[t], next_req_id) /\ AnswerOK(thread[t], agent.pings)
  BY <1>1, <1>2, Zenon DEF CommandOK, AnswerOK
<1>7. Started /\ Unique /\ UploadOK(agent, next_req_id)
  <2>1. Started
    BY Constants DEF Started, Init
  <2>2. Unique
    BY <1>1, <1>2, Zenon DEF Unique
  <2> QED
    BY <1>4, <2>1, <2>2, ZenonT(60) DEF UploadOK
<1>8. WireOK(down, next_req_id, agent.pings) /\ ping <= agent.pings
  <2>1. DOMAIN down = {}
    BY DEF Init
  <2>2. ping = 0 /\ agent.pings \in Nat
    BY <1>4, Zenon DEF Init, AgentStates
  <2> QED
    BY <2>1, <2>2, SMTT(30) DEF WireOK
<1>9. PendingOK(pending, next_req_id, agent.pings) /\ StreamsOK(streams, next_req_id)
  <2>1. \A i \in Ids : pending[i] = NoFrame /\ streams[i] = <<>> /\ DOMAIN streams[i] = {}
    BY DEF Init
  <2> QED
    BY <2>1, Zenon DEF PendingOK, StreamsOK
<1>10. \A t \in Threads : /\ PutOK(thread[t], down, pending[thread[t].req_id], committed)
                          /\ GetOK(thread[t], down, streams[thread[t].req_id])
  BY <1>1, <1>2, OtherCommand, Zenon
<1> QED
  BY <1>5, <1>6, <1>7, <1>8, <1>9, <1>10, Zenon DEF IInv

\* Every step of a command, of the reader or of the agent keeps the invariant.
LEMMA StepOK ==
  ASSUME IInv, [Next]_vars
  PROVE  IInv'
<1>1. ASSUME NEW t \in Threads, Run(t)
      PROVE  IInv'
  BY <1>1, WaitKeeps, SendKeeps, SendRaisesKeeps, AnsweredKeeps, TakeKeeps, Zenon DEF Run
<1>2. ASSUME NEW t \in Threads, NEW cmd \in Commands, Start(t, cmd)
      PROVE  IInv'
  BY <1>2, StartKeeps, Zenon
<1>3. CASE Receive
  BY <1>3, ReceiveKeeps, Zenon
<1>4. CASE Pong \/ ReaderEnds
  BY <1>4, PongKeeps, Zenon
<1>5. CASE Agent
  BY <1>5, AgentKeeps, Zenon
<1>6. CASE UNCHANGED vars
  BY <1>6, Zenon DEF vars, daemon, IInv, Types, Started, Unique, At
<1> QED
  BY <1>1, <1>2, <1>3, <1>4, <1>5, <1>6, Zenon DEF Next

\* The invariant holds in every state, for any number of commands and chunks.
THEOREM Invariance == Spec => []IInv
BY InitOK, StepOK, PTL DEF Spec

\* A command acts on an answer of its own: an ERROR of a PONG is taken for one
\* only when the PINGs have come up to its id (request, _reader).
THEOREM AnswersOwn == Spec => []AnswerOwn
<1>1. IInv => AnswerOwn
  <2> SUFFICES ASSUME IInv, NEW t \in Threads, thread[t].answer # "none"
               PROVE  /\ thread[t].answer = "request" \/ thread[t].req_id <= agent.pings
                      /\ \A u \in Threads \ {t} : thread[u].req_id # thread[t].req_id
    BY Zenon DEF AnswerOwn
  <2>1. thread[t].req_id \in FirstReq..(next_req_id - 1) /\ next_req_id \in FirstReq..(FirstReq + N)
    BY Zenon DEF IInv, Types, CommandOK
  <2>2. thread[t].req_id \notin {0, ProcId}
    BY <2>1, Constants, SMTT(30) DEF ProcId
  <2> QED
    BY <2>2, Zenon DEF IInv, Unique, AnswerOK
<1> QED
  BY <1>1, Invariance, PTL

\* A put that succeeds has been committed (put_file).
THEOREM PutsCommitted == Spec => []PutCommitted
<1>1. IInv => PutCommitted
  BY Zenon DEF IInv, PutOK, PutCommitted, At
<1> QED
  BY <1>1, Invariance, PTL

\* A get that succeeds has the whole file, in order (get_file).
THEOREM GetsWhole == Spec => []GetWhole
<1>1. IInv => GetWhole
  BY Zenon DEF IInv, GetOK, GetWhole, At
<1> QED
  BY <1>1, Invariance, PTL
-----------------------------------------------------------------------------
(* The output of the child                                                 *)

\* What StreamKept needs to be kept: a stream holds frames of the child exactly
\* when it is the child's.
SInv ==
  /\ StreamKept /\ taken \in Nat
  /\ \A i \in Ids : \A j \in DOMAIN streams[i] : streams[i][j].of = "child" <=> i = ProcId

\* Other frames may follow on the wire.
LEMMA Beside ==
  ASSUME NEW d \in Seq(Frames), NEW e \in Seq(Frames), NEW k, NEW sent,
         Following(d, k, sent), \A i \in DOMAIN e : e[i].of # "child"
  PROVE  Following(d \o e, k, sent)
<1> DEFINE w == d \o e
<1>1. /\ \A i \in DOMAIN d : i \in DOMAIN w /\ w[i] = d[i]
      /\ \A i \in DOMAIN w : i \notin DOMAIN d => w[i].of # "child"
  BY Joined
<1> HIDE DEF w
<1>2. Following(w, k, sent)
  BY <1>1, ZenonT(60) DEF Following
<1> QED
  BY <1>2, Zenon DEF w

\* Frames have numbers.
LEMMA Numbered ==
  ASSUME NEW d \in Seq(Frames)
  PROVE  \A i \in DOMAIN d : d[i].n \in Nat
<1>1. \A i \in DOMAIN d : d[i] \in Frames
  OBVIOUS
<1> QED
  BY <1>1, Zenon DEF Frames

\* The next frame of the child goes to the end of the wire.
LEMMA Behind ==
  ASSUME NEW d \in Seq(Frames), NEW f \in Frames, NEW k \in Nat, NEW sent \in Nat, k <= sent,
         Following(d, k, sent), f.of = "child", f.n = sent + 1
  PROVE  Following(Append(d, f), k, sent + 1)
<1> DEFINE w == Append(d, f)
           m == Len(d) + 1
<1>1. /\ \A i \in DOMAIN d : i \in DOMAIN w /\ w[i] = d[i] /\ i \in Nat /\ i < m
      /\ \A i \in DOMAIN w : i \in DOMAIN d \/ i = m
      /\ m \in DOMAIN w /\ w[m] = f /\ m \in Nat
  <2>1. Len(d) \in Nat /\ DOMAIN d = 1..Len(d) /\ DOMAIN w = 1..m /\ w[m] = f
    OBVIOUS
  <2>2. \A i \in DOMAIN d : w[i] = d[i]
    OBVIOUS
  <2> HIDE DEF w
  <2> QED
    BY <2>1, <2>2, SMTT(30)
<1>2. \A i \in DOMAIN d : d[i].n \in Nat
  BY Numbered, Zenon
<1> HIDE DEF w, m
<1>3. \A i \in DOMAIN w : w[i].of = "child" => w[i].n \in (k + 1)..(sent + 1)
  BY <1>1, SMTT(30) DEF Following
<1>4. \A i, j \in DOMAIN w : w[i].of = "child" /\ w[j].of = "child" /\ i < j => w[i].n < w[j].n
  <2> SUFFICES ASSUME NEW i \in DOMAIN w, NEW j \in DOMAIN w, w[i].of = "child", w[j].of = "child", i < j
               PROVE  w[i].n < w[j].n
    BY Zenon
  <2>1. i \in DOMAIN d
    BY <1>1
  <2>2. CASE j \in DOMAIN d
    BY <1>1, <2>1, <2>2, ZenonT(60) DEF Following
  <2>3. CASE j = m
    <3>1. d[i].n \in (k + 1)..sent
      BY <1>1, <2>1, Zenon DEF Following
    <3> QED
      BY <1>1, <2>1, <2>3, <3>1, SMTT(30)
  <2> QED
    BY <1>1, <2>2, <2>3, Zenon
<1>5. \A n \in (k + 1)..(sent + 1) : \E i \in DOMAIN w : w[i].of = "child" /\ w[i].n = n
  <2> SUFFICES ASSUME NEW n \in (k + 1)..(sent + 1)
               PROVE  \E i \in DOMAIN w : w[i].of = "child" /\ w[i].n = n
    BY Zenon
  <2>1. CASE n = sent + 1
    BY <1>1, <2>1, Zenon
  <2>2. CASE n \in (k + 1)..sent
    BY <1>1, <2>2, Zenon DEF Following
  <2> QED
    BY <2>1, <2>2
<1>6. Following(w, k, sent + 1)
  BY <1>3, <1>4, <1>5, Zenon DEF Following
<1> QED
  BY <1>6, Zenon DEF w

\* What the reader takes off the wire: a frame of the child is the next one.
LEMMA Ahead ==
  ASSUME NEW d \in Seq(Frames), d # <<>>, NEW k \in Nat, NEW sent \in Nat, Following(d, k, sent)
  PROVE  /\ Head(d).of # "child" => Following(Tail(d), k, sent)
         /\ Head(d).of = "child" =>
              Head(d).n = k + 1 /\ k + 1 <= sent /\ Following(Tail(d), k + 1, sent)
<1> DEFINE w == Tail(d)
<1>1. /\ Head(d) = d[1] /\ 1 \in DOMAIN d
      /\ \A i \in DOMAIN w : i \in Nat /\ i + 1 \in DOMAIN d /\ w[i] = d[i + 1]
      /\ \A i \in DOMAIN d : i \in Nat /\ (i # 1 => i > 1 /\ i - 1 \in DOMAIN w /\ w[i - 1] = d[i])
  <2>1. Len(d) \in Nat /\ Len(d) > 0 /\ DOMAIN d = 1..Len(d) /\ DOMAIN w = 1..(Len(d) - 1)
          /\ Head(d) = d[1]
    OBVIOUS
  <2>2. \A i \in 1..(Len(d) - 1) : w[i] = d[i + 1]
    OBVIOUS
  <2> HIDE DEF w
  <2>3. \A i \in DOMAIN w : i \in Nat /\ i + 1 \in DOMAIN d /\ w[i] = d[i + 1]
    BY <2>1, <2>2
  <2>4. ASSUME NEW i \in DOMAIN d, i # 1
        PROVE  i > 1 /\ i - 1 \in DOMAIN w /\ w[i - 1] = d[i]
    <3>1. i > 1 /\ i - 1 \in DOMAIN w /\ (i - 1) + 1 = i
      BY <2>1, <2>4
    <3>2. w[i - 1] = d[(i - 1) + 1]
      BY <2>3, <3>1, Zenon
    <3> QED
      BY <3>1, <3>2, Zenon
  <2> QED
    BY <2>1, <2>3, <2>4
<1>2. \A i \in DOMAIN d : d[i].n \in Nat
  BY Numbered, Zenon
<1> HIDE DEF w
<1>3. \A i \in DOMAIN w : w[i].of = "child" => w[i].n \in (k + 1)..sent
  BY <1>1 DEF Following
<1>4. \A i, j \in DOMAIN w : w[i].of = "child" /\ w[j].of = "child" /\ i < j => w[i].n < w[j].n
  <2> SUFFICES ASSUME NEW i \in DOMAIN w, NEW j \in DOMAIN w, w[i].of = "child", w[j].of = "child", i < j
               PROVE  w[i].n < w[j].n
    BY Zenon
  <2>1. i + 1 \in DOMAIN d /\ j + 1 \in DOMAIN d /\ i + 1 < j + 1
    BY <1>1
  <2>2. w[i] = d[i + 1] /\ w[j] = d[j + 1]
    BY <1>1, Zenon
  <2> QED
    <3>1. \A a, b \in DOMAIN d :
            d[a].of = "child" /\ d[b].of = "child" /\ a < b => d[a].n < d[b].n
      BY Zenon DEF Following
    <3> QED
      BY <2>1, <2>2, <3>1, Zenon
<1>5. CASE d[1].of # "child"
  <2>1. \A n \in (k + 1)..sent : \E i \in DOMAIN w : w[i].of = "child" /\ w[i].n = n
    <3> SUFFICES ASSUME NEW n \in (k + 1)..sent
                 PROVE  \E i \in DOMAIN w : w[i].of = "child" /\ w[i].n = n
      BY Zenon
    <3>1. PICK i \in DOMAIN d : d[i].of = "child" /\ d[i].n = n
      BY Zenon DEF Following
    <3> QED
      BY <1>1, <1>5, <3>1
  <2>2. Following(w, k, sent)
    BY <1>3, <1>4, <2>1, Zenon DEF Following
  <2> QED
    BY <1>1, <1>5, <2>2, Zenon DEF w
<1>6. CASE d[1].of = "child"
  <2>1. d[1].n \in (k + 1)..sent
    BY <1>1, <1>6, Zenon DEF Following
  <2>2. k + 1 \in (k + 1)..sent
    BY <2>1
  <2>3. PICK i \in DOMAIN d : d[i].of = "child" /\ d[i].n = k + 1
    BY <2>2, Zenon DEF Following
  <2>4. i # 1 => d[1].n < d[i].n
    <3>1. i # 1 => 1 < i
      BY <1>1, Zenon
    <3> QED
      BY <1>1, <1>6, <2>3, <3>1, Zenon DEF Following
  <2>5. d[1].n = k + 1
    BY <2>1, <2>3, <2>4, SMTT(30)
  <2>6. \A j \in DOMAIN w : w[j].of = "child" => w[j].n \in (k + 2)..sent
    <3> SUFFICES ASSUME NEW j \in DOMAIN w, w[j].of = "child"
                 PROVE  w[j].n \in (k + 2)..sent
      BY Zenon
    <3>1. j + 1 \in DOMAIN d /\ 1 < j + 1 /\ w[j] = d[j + 1]
      <4>1. j # 0
        BY <1>1, SMTT(30) DEF w
      <4> QED
        BY <1>1, <4>1, SMTT(30)
    <3>2. d[1].n < w[j].n /\ w[j].n \in (k + 1)..sent
      BY <1>1, <1>3, <1>6, <3>1, SMTT(30) DEF Following
    <3> QED
      BY <2>5, <3>2
  <2>7. \A n \in (k + 2)..sent : \E j \in DOMAIN w : w[j].of = "child" /\ w[j].n = n
    <3> SUFFICES ASSUME NEW n \in (k + 2)..sent
                 PROVE  \E j \in DOMAIN w : w[j].of = "child" /\ w[j].n = n
      BY Zenon
    <3>1. n \in (k + 1)..sent /\ n # k + 1
      OBVIOUS
    <3>2. PICK j \in DOMAIN d : d[j].of = "child" /\ d[j].n = n
      BY <3>1, Zenon DEF Following
    <3> QED
      <4>1. j # 1
        BY <2>5, <3>1, <3>2, Zenon
      <4> QED
        BY <1>1, <3>2, <4>1, ZenonT(60)
  <2>8. k + 1 + 1 = k + 2
    OBVIOUS
  <2>9. Following(w, k + 1, sent)
    BY <1>4, <2>6, <2>7, <2>8, Zenon DEF Following
  <2> QED
    BY <1>1, <1>6, <2>1, <2>5, <2>9, SMTT(30) DEF w
<1> QED
  BY <1>1, <1>5, <1>6, Zenon

\* A step that puts only other frames on the wire keeps what StreamKept needs.
LEMMA OthersSent ==
  ASSUME IInv, SInv, NEW e \in Seq(Frames), down' = down \o e, \A i \in DOMAIN e : e[i].of # "child",
         agent'.sent = agent.sent, UNCHANGED <<streams, taken>>
  PROVE  SInv'
<1> DEFINE k == taken + Len(streams[ProcId])
<1>1. Following(down, k, agent.sent) /\ down \in Seq(Frames)
  BY Zenon DEF SInv, StreamKept, IInv, Types
<1> HIDE DEF k
<1>2. Following(down', k, agent.sent)
  BY <1>1, Beside, Zenon
<1> QED
  BY <1>2, Zenon DEF SInv, StreamKept, k

\* So does one that leaves the wire as it is.
LEMMA NothingSent ==
  ASSUME IInv, SInv, UNCHANGED <<down, streams, taken>>, agent'.sent = agent.sent
  PROVE  SInv'
BY Zenon DEF SInv, StreamKept

\* And one other frame.
LEMMA OtherSent ==
  ASSUME IInv, SInv, NEW f \in Frames, down' = Append(down, f), f.of # "child",
         agent'.sent = agent.sent, UNCHANGED <<streams, taken>>
  PROVE  SInv'
<1> DEFINE e == <<f>>
<1>1. e \in Seq(Frames) /\ down' = down \o e
  BY Single, Zenon DEF IInv, Types
<1>2. \A i \in DOMAIN e : e[i].of # "child"
  OBVIOUS
<1> HIDE DEF e
<1> QED
  BY <1>1, <1>2, OthersSent, Zenon

\* What the agent sends by itself.
LEMMA AgentKeepsStream ==
  ASSUME IInv, SInv, Agent
  PROVE  SInv'
<1>1. agent \in AgentStates /\ down \in Seq(Frames) /\ agent.sent \in Nat /\ agent.upload \in Nat
        /\ agent.pings \in Nat
  BY Zenon DEF IInv, Types, AgentStates
<1>2. CASE UploadStalls
  <2> DEFINE f == Reply(agent.upload, "ERROR")
  <2>1. f \in Frames /\ f.of = "request"
    BY <1>1, Zenon DEF Reply, Frame, Frames, FrameTypes, Answers, Origins
  <2>2. down' = Append(down, f) /\ agent'.sent = agent.sent /\ UNCHANGED <<streams, taken>>
    BY <1>1, <1>2, Zenon DEF UploadStalls, AgentStates, daemon
  <2> HIDE DEF f
  <2> QED
    BY <2>1, <2>2, OtherSent, Zenon
<1>3. CASE SendPing
  <2> DEFINE f == Frame("PING", agent.pings + 1, "ping", 0)
  <2>1. f \in Frames /\ f.of = "ping"
    BY <1>1 DEF Frame, Frames, FrameTypes, Origins
  <2>2. down' = Append(down, f) /\ agent'.sent = agent.sent /\ UNCHANGED <<streams, taken>>
    BY <1>1, <1>3, Zenon DEF SendPing, AgentStates, daemon
  <2> HIDE DEF f
  <2> QED
    BY <2>1, <2>2, OtherSent, Zenon
<1>4. CASE AgentCloses
  <2>1. agent'.sent = agent.sent /\ UNCHANGED <<down, streams, taken>>
    BY <1>1, <1>4, Zenon DEF AgentCloses, AgentStates, Closed, daemon
  <2> QED
    BY <2>1, NothingSent, Zenon
<1>5. ASSUME NEW type \in {"OUTPUT", "EXIT"}, ChildSends(type)
      PROVE  SInv'
  <2> DEFINE f == Frame(type, ProcId, "child", agent.sent + 1)
             k == taken + Len(streams[ProcId])
  <2>1. f \in Frames /\ f.of = "child" /\ f.n = agent.sent + 1
    BY <1>1 DEF Frame, Frames, FrameTypes, StreamTypes, Origins, ProcId
  <2>2. down' = Append(down, f) /\ agent'.sent = agent.sent + 1 /\ UNCHANGED <<streams, taken>>
    BY <1>1, <1>5, ZenonT(60) DEF ChildSends, AgentStates, daemon
  <2>3. k \in Nat /\ k <= agent.sent /\ Following(down, k, agent.sent)
    <3>1. streams[ProcId] \in Seq(Frames)
      BY Constants DEF IInv, Types, ProcId
    <3> QED
      BY <3>1, SMTT(30) DEF SInv, StreamKept
  <2> HIDE DEF f, k
  <2>4. Following(down', k, agent.sent + 1)
    BY <1>1, <2>1, <2>2, <2>3, Behind, Zenon
  <2>5. k' = k
    BY <2>2, Zenon DEF k
  <2>6. k <= agent'.sent
    BY <1>1, <2>2, <2>3
  <2> QED
    BY <2>2, <2>4, <2>6, ZenonT(60) DEF SInv, StreamKept, k
<1> QED
  BY <1>2, <1>3, <1>4, <1>5, Zenon DEF Agent

\* The reader files what it takes off the wire.
LEMMA ReceiveKeepsStream ==
  ASSUME IInv, SInv, Receive
  PROVE  SInv'
<1> DEFINE f == Head(down)
           s == streams[ProcId]
           k == taken + Len(s)
<1>1. /\ down \in Seq(Frames) /\ down # <<>> /\ down' = Tail(down) /\ taken \in Nat /\ agent.sent \in Nat
      /\ streams \in [Ids -> Seq(Frames)] /\ ProcId \in Ids /\ UNCHANGED <<agent, taken>>
  <2>1. /\ down \in Seq(Frames) /\ agent \in AgentStates /\ streams \in [Ids -> Seq(Frames)]
        /\ taken \in Nat
    BY Zenon DEF IInv, Types, SInv
  <2>2. down # <<>> /\ down' = Tail(down) /\ UNCHANGED <<agent, taken>>
    BY Zenon DEF Receive
  <2>3. agent.sent \in Nat
    BY <2>1, Zenon DEF AgentStates
  <2>4. ProcId \in Ids
    BY Constants, SMTT(30) DEF ProcId
  <2> QED
    BY <2>1, <2>2, <2>3, <2>4, Zenon
<1>2. f \in Frames /\ 1 \in DOMAIN down /\ f = down[1]
  BY <1>1
<1>3. FrameOK(f, next_req_id, agent.pings)
  BY <1>2, Zenon DEF IInv, WireOK
<1>4. s \in Seq(Frames) /\ k \in Nat
  BY <1>1
<1>5. Following(down, k, agent.sent) /\ k <= agent.sent /\ \A j \in DOMAIN s : s[j].n = taken + j
  BY Zenon DEF SInv, StreamKept
<1>6. CASE f.of = "child"
  <2>1. f.type \in StreamTypes /\ f.type # "PING" /\ f.req_id = ProcId
    BY <1>3, <1>6, Zenon DEF FrameOK, StreamTypes
  <2>2. streams' = [streams EXCEPT ![ProcId] = Append(s, f)]
    BY <2>1, Zenon DEF Receive, Filed
  <2> DEFINE s2 == Append(s, f)
  <2>3. f.n = k + 1 /\ k + 1 <= agent.sent /\ Following(down', k + 1, agent.sent)
    <3> HIDE DEF k
    <3> QED
      BY <1>1, <1>4, <1>5, <1>6, Ahead, ZenonT(60)
  <2>4. s2 \in Seq(Frames) /\ Len(s2) = Len(s) + 1 /\ DOMAIN s2 = DOMAIN s \cup {Len(s) + 1}
          /\ s2[Len(s) + 1] = f /\ \A j \in DOMAIN s : s2[j] = s[j]
    <3> HIDE DEF f, s
    <3> QED
      BY <1>2, <1>4
  <2> HIDE DEF f, s, s2
  <2>5. streams'[ProcId] = s2 /\ \A i \in Ids : i # ProcId => streams'[i] = streams[i]
    BY <1>1, <2>2, Zenon DEF s2
  <2>6. \A j \in DOMAIN s2 : s2[j].n = taken + j
    <3>1. s2[Len(s) + 1].n = taken + (Len(s) + 1)
      BY <1>1, <1>4, <2>3, <2>4, SMTT(30)
    <3> QED
      BY <1>5, <2>4, <3>1, ZenonT(60)
  <2>7. taken + Len(s2) = k + 1
    BY <1>1, <1>4, <2>4
  <2>8. \A j \in DOMAIN s2 : s2[j].of = "child"
    <3>1. \A j \in DOMAIN s : s[j].of = "child"
      BY <1>1, Zenon DEF SInv, s
    <3> QED
      BY <1>6, <2>4, <3>1, Zenon
  <2>9. \A i \in Ids : \A j \in DOMAIN streams'[i] : streams'[i][j].of = "child" <=> i = ProcId
    BY <2>5, <2>8, ZenonT(60) DEF SInv
  <2>10. StreamKept'
    <3> HIDE DEF k
    <3> QED
      BY <1>1, <2>3, <2>5, <2>6, <2>7, SMTT(30) DEF StreamKept
  <2> QED
    BY <1>1, <2>9, <2>10, Zenon DEF SInv
<1>7. CASE f.of # "child"
  <2>1. Following(down', k, agent.sent)
    <3> HIDE DEF k
    <3> QED
      BY <1>1, <1>4, <1>5, <1>7, Ahead, ZenonT(60)
  <2>2. f.type \in StreamTypes => f.of = "request" /\ f.req_id \in Ids /\ f.req_id # ProcId
    <3>1. f.type \in StreamTypes => f.of = "request" /\ f.req_id \in FirstReq..(next_req_id - 1)
      BY <1>3, <1>7, Zenon DEF FrameOK, StreamTypes, Answers
    <3>2. next_req_id \in FirstReq..(FirstReq + N)
      BY Zenon DEF IInv, Types
    <3> HIDE DEF f
    <3> QED
      BY <3>1, <3>2, Constants DEF ProcId
  <2>3. \/ streams' = streams
        \/ f.type \in StreamTypes /\ streams' = [streams EXCEPT ![f.req_id] = Append(@, f)]
    BY Zenon DEF Receive, Filed
  <2> HIDE DEF f, s
  <2>4. streams'[ProcId] = s
    BY <1>1, <2>2, <2>3, Zenon DEF s
  <2>5. \A i \in Ids : \A j \in DOMAIN streams'[i] : streams'[i][j].of = "child" <=> i = ProcId
    <3>1. CASE streams' = streams
      BY <3>1, Zenon DEF SInv
    <3>2. CASE f.type \in StreamTypes /\ streams' = [streams EXCEPT ![f.req_id] = Append(@, f)]
      <4> DEFINE r == f.req_id
                 z == streams[r]
                 z2 == Append(z, f)
      <4>1. r \in Ids /\ r # ProcId /\ z \in Seq(Frames) /\ f.of # "child"
        BY <1>1, <1>7, <2>2, <3>2, Zenon
      <4>2. streams'[r] = z2 /\ \A i \in Ids : i # r => streams'[i] = streams[i]
        BY <1>1, <3>2, <4>1, Zenon
      <4>3. \A j \in DOMAIN z : z[j].of # "child"
        BY <4>1, ZenonT(60) DEF SInv
      <4> HIDE DEF r, z
      <4>4. \A j \in DOMAIN z2 : z2[j] = f \/ (j \in DOMAIN z /\ z2[j] = z[j])
        BY <1>2, <4>1
      <4> HIDE DEF z2
      <4>5. \A j \in DOMAIN z2 : z2[j].of # "child"
        BY <4>1, <4>3, <4>4, Zenon
      <4> QED
        BY <4>1, <4>2, <4>5 DEF SInv
    <3> QED
      BY <2>3, <3>1, <3>2, Zenon
  <2>6. StreamKept'
    BY <1>1, <1>5, <2>1, <2>4, Zenon DEF StreamKept
  <2> QED
    BY <1>1, <2>5, <2>6, Zenon DEF SInv
<1> QED
  BY <1>6, <1>7, ZenonT(30)

\* get_file and collect_stream take the head of a stream.
LEMMA TakeKeepsStream ==
  ASSUME IInv, SInv, NEW t \in Threads, Take(t)
  PROVE  SInv'
<1> DEFINE r == thread[t].req_id
           z == streams[r]
           w == Tail(z)
<1>1. /\ thread[t].pc = "stream" /\ z # <<>> /\ streams' = [streams EXCEPT ![r] = w]
      /\ taken' = IF Head(z).of = "child" THEN taken + 1 ELSE taken
      /\ UNCHANGED <<down, agent>>
  BY Zenon DEF Take, At
<1>2. r \in Ids /\ ProcId \in Ids /\ streams \in [Ids -> Seq(Frames)] /\ taken \in Nat
  <2>4. ProcId \in Ids /\ streams \in [Ids -> Seq(Frames)] /\ taken \in Nat
    <3>1. ProcId \in Ids
      BY Constants, SMTT(30) DEF ProcId
    <3> QED
      BY <3>1, Known, Zenon DEF SInv
  <2>1. thread[t].cmd \in {"get", "wait-proc"}
    BY <1>1, Known, Zenon DEF CommandOK
  <2>2. CASE thread[t].cmd = "get"
    BY <2>2, <2>4, OwnId, Zenon
  <2>3. CASE thread[t].cmd = "wait-proc"
    BY <2>3, <2>4, Known, Zenon DEF CommandOK
  <2> QED
    BY <2>1, <2>2, <2>3, ZenonT(60)
<1>3. z \in Seq(Frames)
  BY <1>2, Zenon
<1>4. /\ \A i \in Ids : i # r => streams'[i] = streams[i]
      /\ streams'[r] = w
  BY <1>1, <1>2, Zenon
<1>5. \A j \in DOMAIN z : z[j].of = "child" <=> r = ProcId
  BY <1>2, ZenonT(60) DEF SInv
<1> HIDE DEF z
<1>6. /\ Len(z) \in Nat /\ Len(w) \in Nat /\ Len(z) = Len(w) + 1 /\ 1 \in DOMAIN z /\ Head(z) = z[1]
      /\ \A j \in DOMAIN w : j \in Nat /\ j + 1 \in DOMAIN z /\ w[j] = z[j + 1]
  BY <1>1, <1>3
<1> HIDE DEF w
<1>7. \A j \in DOMAIN w : w[j].of = "child" <=> r = ProcId
  BY <1>5, <1>6, ZenonT(60)
<1>8. \A i \in Ids : \A j \in DOMAIN streams'[i] : streams'[i][j].of = "child" <=> i = ProcId
  BY <1>4, <1>7 DEF SInv
<1>9. CASE r = ProcId
  <2>1. taken' = taken + 1
    BY <1>1, <1>5, <1>6, <1>9, Zenon
  <2>2. \A j \in DOMAIN z : z[j].n = taken + j
    BY <1>9, Zenon DEF SInv, StreamKept, z
  <2>3. \A j \in DOMAIN w : w[j].n = taken' + j
    <3> SUFFICES ASSUME NEW j \in DOMAIN w
                 PROVE  w[j].n = taken' + j
      BY Zenon
    <3>1. w[j].n = taken + (j + 1)
      BY <1>6, <2>2, Zenon
    <3> QED
      <4>1. j \in Nat
        BY <1>6, Zenon
      <4>2. taken \in Nat
        BY <1>2, Zenon
      <4> QED
        BY <2>1, <3>1, <4>1, <4>2
  <2>4. taken' + Len(w) = taken + Len(z) /\ taken' \in Nat
    BY <1>2, <1>6, <2>1
  <2>5. Following(down, taken + Len(z), agent.sent) /\ taken + Len(z) <= agent.sent
    BY <1>9, Zenon DEF SInv, StreamKept, z
  <2>6. streams'[ProcId] = w
    BY <1>4, <1>9, Zenon
  <2>7. StreamKept'
    BY <1>1, <2>3, <2>4, <2>5, <2>6, Zenon DEF StreamKept
  <2> QED
    BY <1>8, <2>4, <2>7, Zenon DEF SInv
<1>10. CASE r # ProcId
  <2>1. taken' = taken /\ streams'[ProcId] = streams[ProcId]
    BY <1>1, <1>2, <1>4, <1>5, <1>6, <1>10, SMTT(30)
  <2>2. StreamKept'
    BY <1>1, <2>1, Zenon DEF SInv, StreamKept
  <2> QED
    BY <1>8, <2>1, <2>2, ZenonT(60) DEF SInv
<1> QED
  BY <1>9, <1>10, Zenon

\* What the agent answers to a command is not output.
LEMMA SendKeepsStream ==
  ASSUME IInv, SInv, NEW t \in Threads, Send(t) \/ SendRaises(t)
  PROVE  SInv'
<1> DEFINE r == thread[t].req_id
           cmd == thread[t].cmd
<1>1. /\ cmd \in {"op", "kill", "put", "get", "spawn"} /\ r \in Nat /\ agent \in AgentStates
      /\ UNCHANGED <<streams, taken>>
  BY Sender, Known, Zenon DEF Send, SendRaises
<1>2. ASSUME NEW e, e \in Seq(Frames), down' = down \o e, agent'.sent = agent.sent,
             \A i \in DOMAIN e : e[i].of = "request"
      PROVE  SInv'
  BY <1>1, <1>2, OthersSent, Zenon
<1>3. ASSUME NEW n \in Nat
      PROVE  Errors(r, n) \in Seq(Frames) /\ \A i \in DOMAIN Errors(r, n) : Errors(r, n)[i].of = "request"
  <2> DEFINE e == Errors(r, n)
  <2>1. e \in Seq(Frames) /\ \A i \in DOMAIN e : e[i] = Reply(r, "ERROR")
    BY <1>1, ErrorFrames, ZenonT(60)
  <2> HIDE DEF e
  <2>2. e \in Seq(Frames) /\ \A i \in DOMAIN e : e[i].of = "request"
    <3> DEFINE f == Reply(r, "ERROR")
    <3>1. f.of = "request"
      BY Zenon DEF Reply, Frame
    <3> HIDE DEF f
    <3> QED
      BY <2>1, <3>1, Zenon DEF f
  <2> QED
    BY <2>2, Zenon DEF e
<1>4. ASSUME NEW type \in {"ACK", "OP_RESULT"}
      PROVE  /\ <<Reply(r, type)>> \in Seq(Frames)
             /\ \A i \in DOMAIN <<Reply(r, type)>> : <<Reply(r, type)>>[i].of = "request"
  <2> DEFINE f == Reply(r, type)
  <2>1. f \in Frames /\ f.of = "request"
    BY <1>1, Zenon DEF Reply, Frame, Frames, FrameTypes, Answers, Origins
  <2> HIDE DEF f
  <2>2. <<f>> \in Seq(Frames) /\ \A i \in DOMAIN <<f>> : <<f>>[i].of = "request"
    BY <2>1
  <2> QED
    BY <2>2, Zenon DEF f
<1>5. ASSUME NEW k \in 0..Chunks, NEW end \in {"GET_END", "ERROR"}
      PROVE  /\ File(r, k, end).frames \in Seq(Frames)
             /\ \A i \in DOMAIN File(r, k, end).frames : File(r, k, end).frames[i].of = "request"
  <2> DEFINE e == File(r, k, end).frames
  <2>1. /\ e \in Seq(Frames) /\ Len(e) = k + 2
        /\ e[1] = Reply(r, "ACK") /\ e[k + 2] = Reply(r, end)
        /\ \A i \in 2..(k + 1) : e[i] = Frame("GET_CHUNK", r, "request", i - 1)
    BY <1>1, FileFrames, ZenonT(60)
  <2> HIDE DEF e
  <2>2. ASSUME NEW i \in DOMAIN e
        PROVE  e[i].of = "request"
    <3>1. i = 1 \/ i = k + 2 \/ i \in 2..(k + 1)
      BY <2>1, Constants
    <3>2. \/ e[i] = Reply(r, "ACK") \/ e[i] = Reply(r, end)
          \/ e[i] = Frame("GET_CHUNK", r, "request", i - 1)
      BY <2>1, <3>1, Zenon
    <3> QED
      BY <3>2 DEF Reply, Frame
  <2> QED
    BY <2>1, <2>2, Zenon DEF e
<1>6. CASE SendRaises(t)
  <2> DEFINE m == IF agent.open /\ thread[t].begun /\ agent.upload # r THEN Chunks ELSE 0
  <2>1. PICK n \in 0..m : down' = down \o Errors(r, n)
    BY <1>6, Zenon DEF SendRaises
  <2>2. m \in Nat
    BY Constants, Zenon
  <2> HIDE DEF m
  <2>3. n \in Nat
    BY <2>2
  <2>4. agent'.sent = agent.sent
    BY <1>1, <1>6, Zenon DEF SendRaises, Closed, AgentStates
  <2> QED
    BY <1>2, <1>3, <2>1, <2>3, <2>4, ZenonT(60)
<1>7. CASE Send(t) /\ ~agent.open
  <2>1. UNCHANGED <<agent, down>>
    BY <1>7, Zenon DEF Send
  <2> QED
    BY <1>1, <2>1, NothingSent, Zenon
<1>8. CASE Send(t) /\ agent.open
  <2>1. PICK h \in IF thread[t].begun THEN Upload(r) ELSE Request(cmd, r) :
          agent' = h.agent /\ down' = down \o h.frames
    BY <1>8, Zenon DEF Send
  <2>2. CASE thread[t].begun
    <3> DEFINE idle == [agent EXCEPT !.upload = 0]
    <3>1. idle.sent = agent.sent
      BY <1>1, Zenon DEF AgentStates
    <3>2. \/ h = [frames |-> Errors(r, Chunks + 1), agent |-> agent, commit |-> FALSE]
          \/ h = [frames |-> <<Reply(r, "ACK")>>, agent |-> idle, commit |-> TRUE]
          \/ \E n \in 1..(Chunks + 1) : h = [frames |-> Errors(r, n), agent |-> idle, commit |-> FALSE]
      <4>1. h \in Upload(r)
        BY <2>1, <2>2, ZenonT(60)
      <4> HIDE DEF r
      <4> QED
        BY <4>1, Zenon DEF Upload
    <3> HIDE DEF idle
    <3>3. Chunks + 1 \in Nat /\ \A n \in 1..(Chunks + 1) : n \in Nat
      BY Constants, SMTT(30)
    <3>4. /\ h.agent \in {agent, idle}
          /\ h.frames = <<Reply(r, "ACK")>> \/ \E n \in Nat : h.frames = Errors(r, n)
      <4> HIDE DEF r
      <4>1. CASE h = [frames |-> Errors(r, Chunks + 1), agent |-> agent, commit |-> FALSE]
        <5>1. h.frames = Errors(r, Chunks + 1) /\ h.agent = agent
          BY <4>1, Zenon
        <5> QED
          BY <3>3, <5>1, Zenon
      <4>2. CASE h = [frames |-> <<Reply(r, "ACK")>>, agent |-> idle, commit |-> TRUE]
        BY <4>2, Zenon
      <4>3. ASSUME NEW n \in 1..(Chunks + 1),
                   h = [frames |-> Errors(r, n), agent |-> idle, commit |-> FALSE]
            PROVE  h.agent = idle /\ \E m \in Nat : h.frames = Errors(r, m)
        <5>1. h.frames = Errors(r, n) /\ h.agent = idle /\ n \in Nat
          BY <3>3, <4>3, Zenon
        <5> QED
          BY <5>1, Zenon
      <4> QED
        BY <3>2, <4>1, <4>2, <4>3, Zenon
    <3>5. agent'.sent = agent.sent
      BY <2>1, <3>1, <3>4, Zenon
    <3> QED
      BY <1>2, <1>3, <1>4, <2>1, <3>4, <3>5, ZenonT(60)
  <2>3. CASE ~thread[t].begun
    <3>1. h \in Request(cmd, r)
      BY <2>1, <2>3, Zenon
    <3>2. \/ h = Refused(r)
          \/ h = Accepted(r, "OP_RESULT", agent)
          \/ h = Accepted(r, "ACK", agent)
          \/ h = Accepted(r, "ACK", [agent EXCEPT !.upload = r])
          \/ h = Accepted(r, "ACK", [agent EXCEPT !.child = "running"])
          \/ \E k \in 0..Chunks, end \in {"GET_END", "ERROR"} : h = File(r, k, end)
      BY <1>1, <3>1, Outcomes
    <3>3. CASE h = Refused(r)
      <4>1. h.frames = Errors(r, 1) /\ h.agent = agent /\ 1 \in Nat
        BY <3>3, Zenon DEF Refused
      <4> QED
        BY <1>2, <1>3, <2>1, <4>1, Zenon
    <3>4. ASSUME NEW type \in {"ACK", "OP_RESULT"}, NEW a, a.sent = agent.sent, h = Accepted(r, type, a)
          PROVE  SInv'
      <4>1. h.frames = <<Reply(r, type)>> /\ h.agent = a
        BY <3>4, Zenon DEF Accepted
      <4> QED
        BY <1>2, <1>4, <2>1, <3>4, <4>1, Zenon
    <3>5. ASSUME NEW k \in 0..Chunks, NEW end \in {"GET_END", "ERROR"}, h = File(r, k, end)
          PROVE  SInv'
      <4>1. h.agent = agent /\ h.frames = File(r, k, end).frames
        BY <3>5, Zenon DEF File
      <4> QED
        BY <1>2, <1>5, <2>1, <4>1, Zenon
    <3>6. [agent EXCEPT !.upload = r].sent = agent.sent /\ [agent EXCEPT !.child = "running"].sent = agent.sent
      BY <1>1, Zenon DEF AgentStates
    <3> QED
      BY <3>2, <3>3, <3>4, <3>5, <3>6, ZenonT(60)
  <2> QED
    BY <2>2, <2>3, Zenon
<1> QED
  BY <1>6, <1>7, <1>8, Zenon

\* Nothing is sent yet.
LEMMA InitStream ==
  ASSUME Init
  PROVE  SInv
<1>1. taken = 0 /\ agent.sent = 0 /\ down = <<>> /\ streams = [i \in Ids |-> <<>>] /\ ProcId \in Ids
  BY Constants DEF Init, ProcId
<1>2. streams[ProcId] = <<>> /\ DOMAIN down = {} /\ \A i \in Ids : DOMAIN streams[i] = {}
  BY <1>1
<1>3. Following(down, 0, 0)
  BY <1>2 DEF Following
<1>4. StreamKept
  BY <1>1, <1>2, <1>3 DEF StreamKept
<1> QED
  BY <1>1, <1>2, <1>4, ZenonT(60) DEF SInv

\* Every step keeps the output of the child.
LEMMA StepStream ==
  ASSUME IInv, SInv, [Next]_vars
  PROVE  SInv'
<1>1. agent \in AgentStates /\ ping \in Nat
  BY Zenon DEF IInv, Types
<1>2. ASSUME NEW t \in Threads, Run(t)
      PROVE  SInv'
  <2>1. CASE Lock(t) \/ Answered(t) \/ Timeout(t) \/ WaitEnds(t)
    <3>1. UNCHANGED <<agent, down, streams, taken>>
      BY <2>1, Zenon DEF Lock, Answered, Timeout, WaitEnds
    <3> QED
      BY <3>1, NothingSent, Zenon
  <2>2. CASE Send(t) \/ SendRaises(t)
    BY <2>2, SendKeepsStream, Zenon
  <2>3. CASE Take(t)
    BY <2>3, TakeKeepsStream, Zenon
  <2> QED
    BY <1>2, <2>1, <2>2, <2>3, Zenon DEF Run
<1>3. ASSUME NEW t \in Threads, NEW cmd \in Commands, Start(t, cmd)
      PROVE  SInv'
  <2>1. UNCHANGED <<agent, down, streams, taken>>
    BY <1>3, Zenon DEF Start
  <2> QED
    BY <2>1, NothingSent, Zenon
<1>4. CASE Pong
  <2> DEFINE f == Frame("ERROR", ping, "pong", 0)
  <2>1. f \in Frames /\ f.of = "pong"
    BY <1>1, Zenon DEF Frame, Frames, FrameTypes, Answers, Origins
  <2>2. /\ UNCHANGED <<streams, taken>> /\ agent'.sent = agent.sent
        /\ down' = down \/ down' = Append(down, f)
    BY <1>1, <1>4, Zenon DEF Pong, Closed, AgentStates
  <2> HIDE DEF f
  <2> QED
    BY <2>1, <2>2, NothingSent, OtherSent, Zenon
<1>5. CASE ReaderEnds \/ UNCHANGED vars
  <2>1. UNCHANGED <<agent, down, streams, taken>>
    BY <1>5, Zenon DEF ReaderEnds, vars, daemon
  <2> QED
    BY <2>1, NothingSent, Zenon
<1> QED
  BY <1>2, <1>3, <1>4, <1>5, ReceiveKeepsStream, AgentKeepsStream, Zenon DEF Next

\* No output of the child is lost or overtaken in the daemon, however many
\* threads wait for it: what collect_stream has not taken is in the child's
\* stream or on the wire, in the order it was sent (_reader, collect_stream).
THEOREM StreamIsKept == Spec => []StreamKept
<1>1. IInv /\ SInv /\ [Next]_vars => SInv'
  BY StepStream, Zenon
<1>2. Init => SInv
  BY InitStream, Zenon
<1>3. SInv => StreamKept
  BY Zenon DEF SInv
<1> QED
  BY <1>1, <1>2, <1>3, Invariance, PTL DEF Spec
=============================================================================

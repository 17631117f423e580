------------------------- MODULE PortForwardProofs -------------------------
(***************************************************************************)
(* The safety of relays, for any number of sessions, relays, connections   *)
(* and bytes.  ConnTracked is not inductive: that a connection in service  *)
(* stays known to its relay rests on there being no other connection of    *)
(* that relay, still to be freed, whose close callbacks would clear        *)
(* relay->conn.  Tracked says so, with the two exceptions of the code: a   *)
(* relay whose target is no address, and one where uv_accept has failed.   *)
(***************************************************************************)
EXTENDS PortForward, SumTheorems, TLAPS

\* What is counted as pending is what is queued.
Exact(pending, queue) == \A d \in Sides : pending[d] = Total(queue[d])

\* Both sockets of a connection are open, or neither is; a closed one has no
\* write to come; one that is being closed is not open; a freed one has both
\* closed; its pending bytes are counted exactly.
ConnOK(x) ==
  /\ x \in ConnType
  /\ x.h["inbound"] = "open" <=> x.h["outbound"] = "open"
  /\ \A d \in Sides : x.h[d] = "closed" => x.queue[d] = <<>>
  /\ x.freed => Done(x)
  /\ x.closing => x.h["inbound"] # "open"
  /\ Exact(x.pending, x.queue)

\* A relay without an address never has a connection.
BadNull == \A r \in DOMAIN relay : relay[r].target = "bad" => relay[r].conn = Null

\* A connection not yet freed is the one its relay knows, or is being closed
\* and can never become it.
Tracked ==
  \A c \in DOMAIN conn :
    LET r == conn[c].relay
    IN  ~conn[c].freed /\ ~Botched(r) =>
          \/ Listening(r) /\ relay[r].conn = c
          \/ ~InService(conn[c]) /\ (~Listening(r) \/ relay[r].target = "bad")

IInv ==
  /\ TypeOK
  /\ \A c \in DOMAIN conn : ConnOK(conn[c])
  /\ OwnerAlive
  /\ BadNull
  /\ ~fault => Tracked
-----------------------------------------------------------------------------
(* What the operators do to one connection                                 *)

\* Closing both sockets keeps a connection as it should be, out of service.
LEMMA UvCloseBothOK ==
  ASSUME NEW x, ConnOK(x)
  PROVE  /\ ConnOK(UvCloseBoth(x)) /\ ~InService(UvCloseBoth(x))
         /\ UvCloseBoth(x).relay = x.relay /\ UvCloseBoth(x).freed = x.freed
         /\ UvCloseBoth(x).accepted = x.accepted
<1> DEFINE h1 == [d \in Sides |-> IF x.h[d] = "closed" THEN "closed" ELSE "closing"]
           y == [x EXCEPT !.h = h1]
<1>1. UvCloseBoth(x) = y
  BY Zenon DEF UvCloseBoth, ConnOK, ConnType
<1>2. h1 \in [Sides -> {"open", "closing", "closed"}]
  BY Zenon
<1>3. y \in ConnType /\ y.h = h1 /\ y.queue = x.queue /\ y.freed = x.freed
        /\ y.pending = x.pending /\ y.relay = x.relay /\ y.accepted = x.accepted
  BY <1>2, Zenon DEF ConnOK, ConnType
<1>4. \A d \in Sides : h1[d] # "open" /\ (h1[d] = "closed" <=> x.h[d] = "closed")
  BY Zenon
<1>5. ConnOK(y) /\ ~InService(y)
  BY <1>3, <1>4, Zenon DEF ConnOK, InService, Done, Sides
<1> QED
  BY <1>1, <1>3, <1>5, Zenon

\* relay_close keeps a connection as it should be; one that was not being
\* closed is out of service.
LEMMA RelayCloseOK ==
  ASSUME NEW x, ConnOK(x)
  PROVE  /\ ConnOK(RelayClose(x)) /\ (InService(RelayClose(x)) => InService(x))
         /\ (~x.closing => ~InService(RelayClose(x)))
         /\ RelayClose(x).relay = x.relay /\ RelayClose(x).freed = x.freed
         /\ RelayClose(x).accepted = x.accepted
<1>1. CASE x.closing
  BY <1>1, Zenon DEF RelayClose
<1>2. CASE ~x.closing
  <2> DEFINE u == UvCloseBoth(x)
             y == [u EXCEPT !.closing = TRUE]
  <2>1. RelayClose(x) = y
    BY <1>2, Zenon DEF RelayClose
  <2>2. ConnOK(u) /\ ~InService(u) /\ u.relay = x.relay /\ u.freed = x.freed
          /\ u.accepted = x.accepted
    BY UvCloseBothOK, Zenon
  <2> HIDE DEF u
  <2>3. y \in ConnType /\ y.h = u.h /\ y.queue = u.queue /\ y.freed = u.freed
          /\ y.pending = u.pending /\ y.relay = u.relay /\ y.accepted = u.accepted
    BY <2>2, Zenon DEF ConnOK, ConnType
  <2>4. ConnOK(y) /\ ~InService(y)
    BY <2>2, <2>3 DEF ConnOK, InService, Done
  <2> QED
    BY <2>1, <2>2, <2>3, <2>4, Zenon
<1> QED
  BY <1>1, <1>2, Zenon

\* The head and the tail of a queue.
LEMMA HeadTailIn ==
  ASSUME NEW S, NEW s \in Seq(S), s # <<>>
  PROVE  Head(s) \in S /\ Tail(s) \in Seq(S)
  OBVIOUS

\* The sizes in a queue are natural numbers.
LEMMA QueueNat ==
  ASSUME NEW q \in Seq(1..MaxRead)
  PROVE  q \in Seq(Nat)
<1>1. DOMAIN q = 1..Len(q) /\ Len(q) \in Nat /\ q = [i \in 1..Len(q) |-> q[i]]
  OBVIOUS
<1>2. \A i \in 1..Len(q) : q[i] \in Nat
  BY RelayAssumption, SMTT(30)
<1>3. q \in [1..Len(q) -> Nat]
  BY <1>1, <1>2, Zenon
<1> QED
  BY <1>1, <1>3

\* relay_write_cb keeps a connection as it should be.
LEMMA WrittenOK ==
  ASSUME NEW x, ConnOK(x), NEW d \in Sides, x.h[d] # "closed", x.queue[d] # <<>>
  PROVE  /\ ConnOK(Written(x, d)) /\ (InService(Written(x, d)) <=> InService(x))
         /\ Written(x, d).relay = x.relay /\ Written(x, d).freed = x.freed
         /\ Written(x, d).accepted = x.accepted
<1> DEFINE n == Head(x.queue[d])
           q == [x.queue EXCEPT ![d] = Tail(@)]
           p == [x.pending EXCEPT ![d] = IF @ >= n THEN @ - n ELSE @]
           y == [x EXCEPT !.queue = q, !.pending = p]
<1>1. x \in ConnType /\ x.queue \in [Sides -> Seq(1..MaxRead)]
        /\ x.pending \in [Sides -> 0..MaxPending] /\ MaxPending \in Nat /\ MaxRead \in Nat
  BY RelayAssumption, Zenon DEF ConnOK, ConnType
<1>2. Written(x, d) = y
  <2>1. Written(x, d) = [x EXCEPT !.queue[d] = Tail(@), !.pending[d] = IF @ >= n THEN @ - n ELSE @]
    BY Zenon DEF Written
  <2>2. x.queue \in [Sides -> Seq(1..MaxRead)] /\ x.pending \in [Sides -> 0..MaxPending]
    BY <1>1, Zenon
  <2> HIDE DEF n
  <2> QED
    BY <1>1, <2>1, <2>2, Zenon DEF ConnType
<1>3. x.queue[d] \in Seq(1..MaxRead)
  BY <1>1, Zenon
<1>4. n \in 1..MaxRead /\ Tail(x.queue[d]) \in Seq(1..MaxRead)
  BY <1>3, HeadTailIn, Zenon
<1>5. q \in [Sides -> Seq(1..MaxRead)]
  BY <1>1, <1>4, Zenon
<1>6. p \in [Sides -> 0..MaxPending]
  <2>1. x.pending[d] \in 0..MaxPending
    BY <1>1, Zenon
  <2>2. (IF x.pending[d] >= n THEN x.pending[d] - n ELSE x.pending[d]) \in 0..MaxPending
    BY <2>1, <1>1, <1>4, SMTT(60)
  <2> QED
    BY <2>2, <1>1, Zenon
<1>7. \A e \in Sides : x.h[e] = "closed" => q[e] = <<>>
  BY <1>1, Zenon DEF ConnOK
<1>10. Exact(p, q)
  <2>1. x.queue[d] \in Seq(Nat)
    BY <1>3, QueueNat, Zenon
  <2>2. \A e \in Sides : x.pending[e] = Total(x.queue[e])
    BY Zenon DEF ConnOK, Exact
  <2>3. x.pending[d] = n + Total(Tail(x.queue[d]))
    BY <2>1, <2>2, TotalTail, Zenon
  <2>6. Tail(x.queue[d]) \in Seq(Nat)
    BY <2>1, HeadTailIn, Zenon
  <2>7. Total(Tail(x.queue[d])) \in Nat
    BY <2>6, TotalNat, Zenon
  <2>4. x.pending[d] >= n /\ x.pending[d] - n = Total(Tail(x.queue[d]))
    BY <2>3, <2>7, <1>4
  <2>5. p[d] = x.pending[d] - n /\ q[d] = Tail(x.queue[d])
          /\ \A e \in Sides : e # d => p[e] = x.pending[e] /\ q[e] = x.queue[e]
    BY <2>4, <1>1, Zenon
  <2> QED
    BY <2>2, <2>4, <2>5, Zenon DEF Exact
<1> HIDE DEF n, q, p
<1>8. y \in ConnType /\ y.h = x.h /\ y.queue = q /\ y.pending = p /\ y.freed = x.freed
        /\ y.relay = x.relay /\ y.accepted = x.accepted
  BY <1>1, <1>5, <1>6, Zenon DEF ConnType
<1>9. ConnOK(y) /\ (InService(y) <=> InService(x))
  BY <1>7, <1>8, <1>10 DEF ConnOK, InService, Done
<1> QED
  BY <1>2, <1>8, <1>9, Zenon

\* relay_forward keeps a connection as it should be.
LEMMA ForwardOK ==
  ASSUME NEW x, ConnOK(x), NEW d \in Sides, x.h[d] = "open", NEW n \in 1..MaxRead,
         Fits(x, d, n)
  PROVE  /\ ConnOK(Forward(x, d, n)) /\ (InService(Forward(x, d, n)) <=> InService(x))
         /\ Forward(x, d, n).relay = x.relay /\ Forward(x, d, n).freed = x.freed
         /\ Forward(x, d, n).accepted = x.accepted
<1> DEFINE q == [x.queue EXCEPT ![d] = Append(@, n)]
           p == [x.pending EXCEPT ![d] = @ + n]
           y == [x EXCEPT !.pending = p, !.queue = q]
<1>1. x \in ConnType /\ x.queue \in [Sides -> Seq(1..MaxRead)]
        /\ x.pending \in [Sides -> 0..MaxPending] /\ MaxPending \in Nat /\ MaxRead \in Nat
  BY RelayAssumption, Zenon DEF ConnOK, ConnType
<1>2. Forward(x, d, n) = y
  BY <1>1, Zenon DEF Forward, ConnType
<1>3. x.queue[d] \in Seq(1..MaxRead)
  BY <1>1, Zenon
<1>4. Append(x.queue[d], n) \in Seq(1..MaxRead)
  BY <1>3
<1>5. q \in [Sides -> Seq(1..MaxRead)]
  BY <1>1, <1>4, Zenon
<1>6. p \in [Sides -> 0..MaxPending]
  <2>1. x.pending[d] \in 0..MaxPending /\ x.pending[d] + n <= MaxPending
    BY <1>1, Zenon DEF Fits
  <2>2. x.pending[d] + n \in 0..MaxPending
    BY <2>1, <1>1
  <2> QED
    BY <2>2, <1>1, Zenon
<1>7. \A e \in Sides : x.h[e] = "closed" => q[e] = <<>>
  BY <1>1, Zenon DEF ConnOK
<1>10. Exact(p, q)
  <2>1. x.queue[d] \in Seq(Nat) /\ n \in Nat
    BY <1>1, <1>3, QueueNat
  <2>2. \A e \in Sides : x.pending[e] = Total(x.queue[e])
    BY Zenon DEF ConnOK, Exact
  <2>3. Total(Append(x.queue[d], n)) = x.pending[d] + n
    BY <2>1, <2>2, TotalAppend, Zenon
  <2>4. p[d] = x.pending[d] + n /\ q[d] = Append(x.queue[d], n)
          /\ \A e \in Sides : e # d => p[e] = x.pending[e] /\ q[e] = x.queue[e]
    BY <1>1, Zenon
  <2> QED
    BY <2>2, <2>3, <2>4, Zenon DEF Exact
<1> HIDE DEF q, p
<1>8. y \in ConnType /\ y.h = x.h /\ y.queue = q /\ y.pending = p /\ y.freed = x.freed
        /\ y.relay = x.relay /\ y.accepted = x.accepted
  BY <1>1, <1>5, <1>6, Zenon DEF ConnType
<1>9. ConnOK(y) /\ (InService(y) <=> InService(x))
  BY <1>7, <1>8, <1>10 DEF ConnOK, InService, Done
<1> QED
  BY <1>2, <1>8, <1>9, Zenon

\* A new connection is as it should be.
LEMMA NewConnOK ==
  ASSUME NEW r \in Nat
  PROVE  /\ ConnOK(NewConn(r)) /\ InService(NewConn(r)) /\ ~NewConn(r).closing
         /\ NewConn(r).relay = r /\ ~NewConn(r).freed /\ NewConn(r).accepted
<1>1. MaxPending \in Nat /\ MaxRead \in Nat
  BY RelayAssumption, Zenon
<1>2. <<>> \in Seq(1..MaxRead) /\ 0 \in 0..MaxPending
  BY <1>1
<1>3. Both("open") \in [Sides -> {"open", "closing", "closed"}]
        /\ Both(0) \in [Sides -> 0..MaxPending] /\ Both(<<>>) \in [Sides -> Seq(1..MaxRead)]
  BY <1>2, Zenon DEF Both
<1>4. \A d \in Sides : Both("open")[d] = "open"
  BY Zenon DEF Both
<1>5. Exact(Both(0), Both(<<>>))
  BY TotalEmpty, Zenon DEF Exact, Both
<1> QED
  BY <1>3, <1>4, <1>5, Zenon DEF NewConn, ConnOK, ConnType, InService, Sides

-----------------------------------------------------------------------------
(* What the actions do                                                     *)

\* A step of one connection keeps the invariant if it keeps the connection as
\* it should be and puts it into service only if it was.
LEMMA StepKeeps ==
  ASSUME IInv, NEW c \in DOMAIN conn, NEW x, ConnOK(x),
         x.relay = conn[c].relay, x.freed = conn[c].freed, x.accepted = conn[c].accepted,
         InService(x) => InService(conn[c]), Step(c, x)
  PROVE  IInv'
<1>1. conn' = [conn EXCEPT ![c] = x] /\ relay' = relay /\ freed' = freed /\ fault' = fault
  BY Zenon DEF Step
<1>2. conn \in Seq(ConnType) /\ x \in ConnType
  BY Zenon DEF IInv, TypeOK, ConnOK
<1>3. conn' \in Seq(ConnType) /\ DOMAIN conn' = DOMAIN conn
        /\ \A e \in DOMAIN conn : conn'[e] = IF e = c THEN x ELSE conn[e]
  BY <1>1, <1>2
<1>4. \A e \in DOMAIN conn : conn'[e].relay = conn[e].relay /\ conn'[e].freed = conn[e].freed
        /\ conn'[e].accepted = conn[e].accepted /\ (InService(conn'[e]) => InService(conn[e]))
  BY <1>3, Zenon
<1>5. \A r : Listening(r)' <=> Listening(r)
  BY <1>1, Zenon DEF Listening, InState
<1>6. \A r : Botched(r)' <=> Botched(r)
  BY <1>3, <1>4, Zenon DEF Botched
<1>7. TypeOK'
  BY <1>1, <1>3, <1>4, Zenon DEF IInv, TypeOK
<1>8. \A e \in DOMAIN conn' : ConnOK(conn'[e])
  BY <1>3, Zenon DEF IInv
<1>9. OwnerAlive' /\ BadNull'
  BY <1>1, <1>5, Zenon DEF IInv, OwnerAlive, BadNull
<1>10. ~fault' => Tracked'
  BY <1>1, <1>3, <1>4, <1>5, <1>6 DEF IInv, Tracked
<1> QED
  BY <1>7, <1>8, <1>9, <1>10, Zenon DEF IInv

\* relay_destroy keeps all of the invariant but what it says of owners.
LEMMA DestroyKeeps ==
  ASSUME IInv, NEW R \in SUBSET (DOMAIN relay), Destroy(R), fault' = fault,
         freed' \subseteq Sessions
  PROVE  /\ TypeOK' /\ (\A c \in DOMAIN conn' : ConnOK(conn'[c])) /\ BadNull'
         /\ (~fault' => Tracked')
         /\ DOMAIN relay' = DOMAIN relay
         /\ \A r \in DOMAIN relay : relay'[r].owner = relay[r].owner
                                     /\ (Listening(r)' <=> Listening(r) /\ r \notin R)
<1> DEFINE rel(r) == IF r \in R THEN [relay[r] EXCEPT !.state = "closing", !.conn = Null]
                     ELSE relay[r]
           con(c) == IF \E r \in R : relay[r].conn = c THEN RelayClose(conn[c]) ELSE conn[c]
<1>1. relay \in Seq(RelayType) /\ conn \in Seq(ConnType) /\ Null \in Nat
  BY Zenon DEF IInv, TypeOK, Null
<1>2. relay' = [r \in DOMAIN relay |-> rel(r)] /\ conn' = [c \in DOMAIN conn |-> con(c)]
  BY Zenon DEF Destroy
<1>3. \A r \in DOMAIN relay : relay[r] \in RelayType
  BY <1>1
<1>4. \A r \in DOMAIN relay :
        /\ rel(r) \in RelayType /\ rel(r).owner = relay[r].owner /\ rel(r).target = relay[r].target
        /\ r \in R => rel(r).state = "closing" /\ rel(r).conn = Null
        /\ r \notin R => rel(r).state = relay[r].state /\ rel(r).conn = relay[r].conn
  BY <1>1, <1>3, ZenonT(60) DEF RelayType
<1>5. \A c \in DOMAIN conn : ConnOK(conn[c])
  BY Zenon DEF IInv
<1>6. \A c \in DOMAIN conn :
        /\ ConnOK(con(c)) /\ con(c).relay = conn[c].relay /\ con(c).freed = conn[c].freed
        /\ con(c).accepted = conn[c].accepted /\ (InService(con(c)) => InService(conn[c]))
  BY <1>5, RelayCloseOK, Zenon
<1>7. \A c \in DOMAIN conn :
        (\E r \in R : relay[r].conn = c) /\ ~conn[c].closing => ~InService(con(c))
  BY <1>5, RelayCloseOK, Zenon
<1> HIDE DEF rel, con
<1>8. relay' \in Seq(RelayType) /\ DOMAIN relay' = DOMAIN relay
        /\ \A r \in DOMAIN relay : relay'[r] = rel(r)
  BY <1>1, <1>2, <1>4
<1>9. \A c \in DOMAIN conn : con(c) \in ConnType
  BY <1>6, Zenon DEF ConnOK
<1>10. conn' \in Seq(ConnType) /\ DOMAIN conn' = DOMAIN conn
         /\ \A c \in DOMAIN conn : conn'[c] = con(c)
  BY <1>1, <1>2, <1>9, SMTT(30)
<1>11. TypeOK'
  <2>1. \A r \in DOMAIN relay' : relay'[r].conn \in {Null} \cup DOMAIN conn'
    <3> SUFFICES ASSUME NEW r \in DOMAIN relay
                 PROVE  rel(r).conn \in {Null} \cup DOMAIN conn
      BY <1>8, <1>10, Zenon
    <3>1. relay[r].conn \in {Null} \cup DOMAIN conn
      BY Zenon DEF IInv, TypeOK
    <3>2. rel(r).conn = Null \/ rel(r).conn = relay[r].conn
      BY <1>4, Zenon
    <3> QED
      BY <3>1, <3>2, Zenon
  <2>2. \A c \in DOMAIN conn' : conn'[c].relay \in DOMAIN relay'
    BY <1>6, <1>8, <1>10, Zenon DEF IInv, TypeOK
  <2> QED
    BY <2>1, <2>2, <1>8, <1>10, Zenon DEF IInv, TypeOK
<1>12. \A c \in DOMAIN conn' : ConnOK(conn'[c])
  BY <1>6, <1>10, Zenon
<1>13. BadNull'
  BY <1>4, <1>8 DEF IInv, BadNull
<1>14. \A r \in DOMAIN relay : Listening(r)' <=> Listening(r) /\ r \notin R
  BY <1>4, <1>8, Zenon DEF Listening, InState
<1>15. \A r : Botched(r)' <=> Botched(r)
  BY <1>6, <1>10 DEF Botched
<1>16. ~fault' => Tracked'
  <2> SUFFICES ASSUME ~fault, NEW c \in DOMAIN conn, NEW r \in DOMAIN relay,
                      r = conn[c].relay, ~conn[c].freed, ~Botched(r)
               PROVE  \/ Listening(r)' /\ relay'[r].conn = c
                      \/ ~InService(conn'[c]) /\ (~Listening(r)' \/ relay'[r].target = "bad")
    <3>1. \A c \in DOMAIN conn : conn[c].relay \in DOMAIN relay
      BY Zenon DEF IInv, TypeOK
    <3> QED
      BY <3>1, <1>6, <1>10, <1>15 DEF Tracked
  <2>2. \/ Listening(r) /\ relay[r].conn = c
        \/ ~InService(conn[c]) /\ (~Listening(r) \/ relay[r].target = "bad")
    BY Zenon DEF IInv, Tracked
  <2>3. CASE ~InService(conn[c]) /\ (~Listening(r) \/ relay[r].target = "bad")
    BY <2>3, <1>4, <1>6, <1>8, <1>10, <1>14, SMTT(30)
  <2>4. CASE Listening(r) /\ relay[r].conn = c /\ r \notin R
    BY <2>4, <1>4, <1>8, <1>14, Zenon
  <2>5. CASE Listening(r) /\ relay[r].conn = c /\ r \in R
    <3>1. ~InService(con(c))
      BY <2>5, <1>7, <1>5, <1>6, Zenon DEF ConnOK, InService
    <3> QED
      BY <3>1, <2>5, <1>10, <1>14, Zenon
  <2> QED
    BY <2>2, <2>3, <2>4, <2>5, Zenon
<1> QED
  BY <1>4, <1>8, <1>11, <1>12, <1>13, <1>14, <1>16, Zenon

\* relay_accept_cb: a new connection, known to its relay, or closed at once, or
\* never accepted.
LEMMA AppendKeeps ==
  ASSUME IInv, NEW r \in DOMAIN relay, FreeToAccept(r), NEW x, ConnOK(x),
         x.relay = r, ~x.freed, conn' = Append(conn, x), freed' = freed, fault' = fault,
         \/ relay' = relay /\ ~x.accepted
         \/ relay' = relay /\ relay[r].target = "bad" /\ ~InService(x)
         \/ relay[r].target = "good" /\ relay' = [relay EXCEPT ![r].conn = Len(conn')]
  PROVE  IInv'
<1> DEFINE n == Len(conn) + 1
<1>1. relay \in Seq(RelayType) /\ conn \in Seq(ConnType) /\ x \in ConnType
  BY Zenon DEF IInv, TypeOK, ConnOK
<1>2. /\ conn' \in Seq(ConnType) /\ DOMAIN conn' = DOMAIN conn \cup {n} /\ n \notin DOMAIN conn
      /\ Len(conn') = n /\ n \in Nat /\ n # Null /\ conn'[n] = x
      /\ \A c \in DOMAIN conn : conn'[c] = conn[c] /\ c # Null
  BY <1>1 DEF Null
<1>3. relay[r] \in RelayType /\ relay[r].state = "listening" /\ relay[r].conn = Null
  BY <1>1 DEF FreeToAccept, Listening, InState
<1>4. [relay[r] EXCEPT !.conn = n] \in RelayType
  BY <1>2, <1>3, Zenon DEF RelayType
<1>5. [relay EXCEPT ![r].conn = n] = [relay EXCEPT ![r] = [relay[r] EXCEPT !.conn = n]]
  BY <1>1, Zenon
<1>6. relay' \in Seq(RelayType) /\ DOMAIN relay' = DOMAIN relay
  <2> DEFINE k == [relay[r] EXCEPT !.conn = n]
  <2>1. relay' = relay \/ relay' = [relay EXCEPT ![r] = k]
    BY <1>2, <1>5, Zenon
  <2>2. k \in RelayType
    BY <1>4, Zenon
  <2> HIDE DEF k
  <2> QED
    BY <2>1, <2>2, <1>1, SMTT(30)
<1>7. \A q \in DOMAIN relay : q # r => relay'[q] = relay[q]
  BY <1>1, <1>2, Zenon
<1>8. \/ relay'[r] = relay[r] /\ (~x.accepted \/ (relay[r].target = "bad" /\ ~InService(x)))
      \/ relay[r].target = "good" /\ relay'[r] = [relay[r] EXCEPT !.conn = n]
  BY <1>1, <1>2
<1>9. relay'[r].state = "listening" /\ relay'[r].owner = relay[r].owner
        /\ relay'[r].target = relay[r].target
        /\ \/ relay'[r].conn = Null /\ (~x.accepted \/ (relay[r].target = "bad" /\ ~InService(x)))
           \/ relay'[r].conn = n /\ relay[r].target = "good"
  BY <1>3, <1>8, Zenon DEF RelayType
<1>10. \A q \in DOMAIN relay : Listening(q)' <=> Listening(q)
  BY <1>3, <1>6, <1>7, <1>9, Zenon DEF Listening, InState
<1>11. TypeOK'
  <2>1. \A q \in DOMAIN relay' : relay'[q].conn \in {Null} \cup DOMAIN conn'
    <3> SUFFICES ASSUME NEW q \in DOMAIN relay
                 PROVE  relay'[q].conn \in {Null} \cup DOMAIN conn \cup {n}
      BY <1>2, <1>6, Zenon
    <3>1. relay[q].conn \in {Null} \cup DOMAIN conn
      BY Zenon DEF IInv, TypeOK
    <3> QED
      BY <3>1, <1>7, <1>9, Zenon
  <2>2. \A c \in DOMAIN conn : conn[c].relay \in DOMAIN relay
    BY Zenon DEF IInv, TypeOK
  <2>3. \A c \in DOMAIN conn' : conn'[c].relay \in DOMAIN relay'
    BY <2>2, <1>2, <1>6, Zenon
  <2> QED
    BY <2>1, <2>3, <1>2, <1>6, Zenon DEF IInv, TypeOK
<1>12. \A c \in DOMAIN conn' : ConnOK(conn'[c])
  BY <1>2, Zenon DEF IInv
<1>13. OwnerAlive'
  BY <1>6, <1>7, <1>9, <1>10, Zenon DEF IInv, OwnerAlive
<1>14. BadNull'
  BY <1>6, <1>7, <1>9 DEF IInv, BadNull
<1>15. \A q : Botched(q) => Botched(q)'
  BY <1>2, Zenon DEF Botched
<1>16. ~x.accepted => Botched(r)'
  BY <1>2, SMTT(30) DEF Botched
<1>17. ~fault' => Tracked'
  <2>1. ASSUME ~fault, NEW c \in DOMAIN conn, NEW q \in DOMAIN relay, q = conn[c].relay,
               ~conn[c].freed, ~Botched(q)'
        PROVE  \/ Listening(q)' /\ relay'[q].conn = c
               \/ ~InService(conn[c]) /\ (~Listening(q)' \/ relay'[q].target = "bad")
    <3>1. \/ Listening(q) /\ relay[q].conn = c
          \/ ~InService(conn[c]) /\ (~Listening(q) \/ relay[q].target = "bad")
      BY <2>1, <1>15, Zenon DEF IInv, Tracked
    <3>2. CASE q # r
      BY <3>1, <3>2, <1>7, <1>10, Zenon
    <3>3. CASE q = r
      BY <3>1, <3>3, <1>2, <1>3, <1>9, Zenon DEF Listening, InState
    <3> QED
      BY <3>2, <3>3, Zenon
  <2>2. ASSUME ~Botched(r)'
        PROVE  \/ Listening(r)' /\ relay'[r].conn = n
               \/ ~InService(x) /\ relay'[r].target = "bad"
    BY <2>2, <1>6, <1>9, <1>16, Zenon DEF Listening, InState
  <2>3. \A c \in DOMAIN conn : conn[c].relay \in DOMAIN relay
    BY Zenon DEF IInv, TypeOK
  <2> QED
    BY <2>1, <2>2, <2>3, <1>2 DEF Tracked
<1> QED
  BY <1>11, <1>12, <1>13, <1>14, <1>17, Zenon DEF IInv

\* relay_close_cb keeps the invariant.  What it can disturb is another connection
\* of the relay whose conn it clears: the relay knew this one, or none.
LEMMA CloseCbKeeps ==
  ASSUME IInv, NEW c, NEW d \in Sides, CloseCb(c, d)
  PROVE  IInv'
<1> DEFINE h1 == [conn[c].h EXCEPT ![d] = "closed"]
           x == [conn[c] EXCEPT !.h = h1]
           done == Done(x)
           y == [x EXCEPT !.freed = done]
           r == conn[c].relay
<1>1. /\ ~fault /\ c \in DOMAIN conn /\ ~conn[c].freed
      /\ conn[c].h[d] = "closing" /\ conn[c].queue[d] = <<>> /\ freed' = freed
  BY Zenon DEF CloseCb, Alive
<1>2. relay \in Seq(RelayType) /\ conn \in Seq(ConnType) /\ ConnOK(conn[c])
        /\ r \in DOMAIN relay
  BY <1>1, Zenon DEF IInv, TypeOK
<1>3. [conn[c] EXCEPT !.h[d] = "closed"] = x
  BY Zenon
<1>4. /\ conn' = [conn EXCEPT ![c] = y]
      /\ fault' \in IF Done(x) /\ relay[x.relay].state = "freed" THEN BOOLEAN ELSE {FALSE}
      /\ relay' = IF Done(x) /\ relay[x.relay].state # "freed" THEN [relay EXCEPT ![x.relay].conn = Null] ELSE relay
  BY <1>3, Zenon DEF CloseCb
<1>5. h1 \in [Sides -> {"open", "closing", "closed"}] /\ h1[d] = "closed"
        /\ \A e \in Sides : e # d => h1[e] = conn[c].h[e]
  BY <1>2, Zenon DEF ConnOK, ConnType
<1>6. x \in ConnType /\ x.h = h1 /\ x.relay = r /\ x.freed = conn[c].freed /\ x.queue = conn[c].queue
        /\ x.pending = conn[c].pending /\ x.accepted = conn[c].accepted /\ x.closing = conn[c].closing
  BY <1>2, <1>5, Zenon DEF ConnOK, ConnType
<1>7. done \in BOOLEAN
  BY Zenon DEF Done
<1>8. y \in ConnType /\ y.h = h1 /\ y.relay = r /\ y.freed = done /\ y.queue = conn[c].queue
        /\ y.pending = conn[c].pending /\ y.accepted = conn[c].accepted /\ y.closing = conn[c].closing
  <2> HIDE DEF x, done
  <2> QED
    BY <1>6, <1>7, Zenon DEF ConnType
<1>9. \A e \in Sides : h1[e] # "open"
  BY <1>1, <1>2, <1>5, Zenon DEF ConnOK, Sides
<1>10. \A e \in Sides : h1[e] = "closed" => conn[c].queue[e] = <<>>
  BY <1>1, <1>2, <1>5, Zenon DEF ConnOK
<1>11. Done(y) <=> done
  BY <1>6, <1>8 DEF Done
<1> HIDE DEF h1, x, y, done
<1>12. ConnOK(y) /\ ~InService(y)
  BY <1>2, <1>8, <1>9, <1>10, <1>11, Zenon DEF ConnOK, InService, Sides
<1>13. conn' \in Seq(ConnType) /\ DOMAIN conn' = DOMAIN conn
         /\ \A e \in DOMAIN conn : conn'[e] = IF e = c THEN y ELSE conn[e]
  BY <1>1, <1>2, <1>4, <1>8
<1>14. relay[r] \in RelayType /\ [relay[r] EXCEPT !.conn = Null] \in RelayType
  <2> DEFINE k == relay[r]
  <2>1. k \in RelayType /\ Null \in Nat
    <3> HIDE DEF r
    <3> QED
      BY <1>2 DEF Null
  <2> HIDE DEF k
  <2>2. [k EXCEPT !.conn = Null] \in RelayType
    BY <2>1, Zenon DEF RelayType
  <2> QED
    BY <2>1, <2>2, Zenon DEF k
<1>15. [relay EXCEPT ![r].conn = Null] = [relay EXCEPT ![r] = [relay[r] EXCEPT !.conn = Null]]
  BY <1>2, Zenon
<1>16. relay' \in Seq(RelayType) /\ DOMAIN relay' = DOMAIN relay
         /\ \A q \in DOMAIN relay : q # r => relay'[q] = relay[q]
  <2> DEFINE k == [relay[r] EXCEPT !.conn = Null]
  <2>1. relay' = relay \/ relay' = [relay EXCEPT ![r] = k]
    BY <1>4, <1>6, <1>15, Zenon
  <2>2. k \in RelayType
    BY <1>14, Zenon
  <2> HIDE DEF k
  <2> QED
    BY <2>1, <2>2, <1>2, SMTT(30)
<1>17. relay'[r] = relay[r] \/ relay'[r] = [relay[r] EXCEPT !.conn = Null]
  BY <1>2, <1>4, <1>6, <1>15, ZenonT(60)
<1>18. \A q \in DOMAIN relay : relay'[q].state = relay[q].state
         /\ relay'[q].owner = relay[q].owner /\ relay'[q].target = relay[q].target
         /\ (relay'[q].conn = relay[q].conn \/ relay'[q].conn = Null)
  BY <1>14, <1>16, <1>17, SMTT(60) DEF RelayType
<1>19. \A q : Listening(q)' <=> Listening(q)
  BY <1>16, <1>18, Zenon DEF Listening, InState
<1>20. \A q : Botched(q)' <=> Botched(q)
  BY <1>8, <1>13 DEF Botched
<1>21. TypeOK'
  <2>1. \A q \in DOMAIN relay' : relay'[q].conn \in {Null} \cup DOMAIN conn'
    BY <1>13, <1>16, <1>18, Zenon DEF IInv, TypeOK
  <2>2. \A e \in DOMAIN conn' : conn'[e].relay \in DOMAIN relay'
    BY <1>2, <1>8, <1>13, <1>16, Zenon DEF IInv, TypeOK
  <2>3. fault' \in BOOLEAN
    BY <1>4, Zenon
  <2> QED
    BY <2>1, <2>2, <2>3, <1>1, <1>13, <1>16, Zenon DEF IInv, TypeOK
<1>22. \A e \in DOMAIN conn' : ConnOK(conn'[e])
  BY <1>12, <1>13, Zenon DEF IInv
<1>23. OwnerAlive' /\ BadNull'
  BY <1>1, <1>16, <1>18, <1>19, ZenonT(60) DEF IInv, OwnerAlive, BadNull
<1>24. Tracked'
  <2>1. ASSUME NEW e \in DOMAIN conn, NEW q \in DOMAIN relay, q = conn[e].relay, e # c,
               ~conn[e].freed, ~Botched(q)
        PROVE  \/ Listening(q) /\ relay'[q].conn = e
               \/ ~InService(conn[e]) /\ (~Listening(q) \/ relay[q].target = "bad")
    <3>1. \/ Listening(q) /\ relay[q].conn = e
          \/ ~InService(conn[e]) /\ (~Listening(q) \/ relay[q].target = "bad")
      BY <2>1, <1>1, Zenon DEF IInv, Tracked
    <3>2. CASE q = r
      <4>1. \/ Listening(q) /\ relay[q].conn = c
            \/ ~Listening(q) \/ relay[q].target = "bad"
        BY <2>1, <3>2, <1>1, Zenon DEF IInv, Tracked
      <4>2. relay[q].target = "bad" => relay[q].conn = Null
        BY Zenon DEF IInv, BadNull
      <4>3. e # Null
        BY <1>2 DEF Null
      <4> QED
        BY <2>1, <3>1, <4>1, <4>2, <4>3, Zenon
    <3> QED
      BY <3>1, <3>2, <1>16, Zenon
  <2>2. ~Botched(r) /\ ~done => \/ Listening(r) /\ relay'[r].conn = c
                                \/ ~Listening(r) \/ relay[r].target = "bad"
    <3>1. ~done => relay' = relay
      BY <1>4, Zenon DEF done
    <3> QED
      BY <3>1, <1>1, Zenon DEF IInv, Tracked
  <2>3. \A e \in DOMAIN conn : conn[e].relay \in DOMAIN relay
    BY Zenon DEF IInv, TypeOK
  <2> QED
    BY <2>1, <2>2, <2>3, <1>1, <1>8, <1>12, <1>13, <1>18, <1>19, <1>20, SMTT(30) DEF Tracked
<1> QED
  BY <1>21, <1>22, <1>23, <1>24, Zenon DEF IInv

\* portfwd_open: a new relay, of a session that is there, without a connection.
LEMMA OpenKeeps ==
  ASSUME IInv, NEW s \in Sessions, NEW target \in {"good", "bad"}, Open(s, target)
  PROVE  IInv'
<1>1. PICK state \in {"listening", "closing"} :
        relay' = Append(relay, [state |-> state, owner |-> s, conn |-> Null, target |-> target])
  BY Zenon DEF Open
<1> DEFINE new == [state |-> state, owner |-> s, conn |-> Null, target |-> target]
           n == Len(relay) + 1
<1>2. relay \in Seq(RelayType) /\ conn' = conn /\ freed' = freed /\ fault' = fault /\ s \notin freed
  BY Zenon DEF IInv, TypeOK, Open
<1>3. new \in RelayType /\ new.owner = s /\ new.conn = Null
  BY Zenon DEF RelayType, Null
<1>4. relay' = Append(relay, new)
  BY <1>1, Zenon
<1> HIDE DEF new
<1>5. relay' \in Seq(RelayType) /\ DOMAIN relay' = DOMAIN relay \cup {n} /\ relay'[n] = new
        /\ \A r \in DOMAIN relay : relay'[r] = relay[r]
  BY <1>2, <1>3, <1>4
<1>6. \A r \in DOMAIN relay : Listening(r)' <=> Listening(r)
  BY <1>5, Zenon DEF Listening, InState
<1>7. \A r : Botched(r)' <=> Botched(r)
  BY <1>2, Zenon DEF Botched
<1>8. \A c \in DOMAIN conn : conn[c].relay \in DOMAIN relay
  BY Zenon DEF IInv, TypeOK
<1>9. TypeOK'
  BY <1>2, <1>3, <1>5, <1>8, Zenon DEF IInv, TypeOK
<1>10. \A c \in DOMAIN conn' : ConnOK(conn'[c])
  BY <1>2, Zenon DEF IInv
<1>11. OwnerAlive' /\ BadNull'
  BY <1>2, <1>3, <1>5, <1>6, Zenon DEF IInv, OwnerAlive, BadNull
<1>12. ~fault' => Tracked'
  BY <1>2, <1>5, <1>6, <1>7, <1>8, Zenon DEF IInv, Tracked
<1> QED
  BY <1>9, <1>10, <1>11, <1>12, Zenon DEF IInv

\* The listener's close callback: the relay was not listening.
LEMMA ListenerClosedKeeps ==
  ASSUME IInv, NEW r, ListenerClosed(r)
  PROVE  IInv'
<1> DEFINE k == [relay[r] EXCEPT !.state = "freed"]
<1>1. relay \in Seq(RelayType) /\ r \in DOMAIN relay /\ relay[r].state = "closing"
        /\ conn' = conn /\ freed' = freed /\ fault' = fault
  BY Zenon DEF IInv, TypeOK, ListenerClosed, InState
<1>2. relay' = [relay EXCEPT ![r] = k]
  BY <1>1, Zenon DEF ListenerClosed
<1>3. relay[r] \in RelayType
  BY <1>1
<1>4. k \in RelayType /\ k.state = "freed" /\ k.owner = relay[r].owner /\ k.conn = relay[r].conn
        /\ k.target = relay[r].target
  BY <1>3, Zenon DEF RelayType
<1> HIDE DEF k
<1>5. relay' \in Seq(RelayType) /\ DOMAIN relay' = DOMAIN relay /\ relay'[r] = k
        /\ \A q \in DOMAIN relay : q # r => relay'[q] = relay[q]
  BY <1>1, <1>2, <1>4
<1>6. \A q : Listening(q)' <=> Listening(q)
  BY <1>1, <1>4, <1>5, Zenon DEF Listening, InState
<1>7. \A q : Botched(q)' <=> Botched(q)
  BY <1>1, Zenon DEF Botched
<1>8. \A q \in DOMAIN relay : relay'[q].owner = relay[q].owner /\ relay'[q].conn = relay[q].conn
        /\ relay'[q].target = relay[q].target
  BY <1>4, <1>5, Zenon
<1>9. \A c \in DOMAIN conn : conn[c].relay \in DOMAIN relay
  BY Zenon DEF IInv, TypeOK
<1>10. TypeOK'
  BY <1>1, <1>5, <1>8, <1>9, Zenon DEF IInv, TypeOK
<1>11. \A c \in DOMAIN conn' : ConnOK(conn'[c])
  BY <1>1, Zenon DEF IInv
<1>12. OwnerAlive' /\ BadNull'
  BY <1>1, <1>5, <1>6, <1>8, ZenonT(60) DEF IInv, OwnerAlive, BadNull
<1>13. ~fault' => Tracked'
  BY <1>1, <1>6, <1>7, <1>8, <1>9, SMTT(30) DEF IInv, Tracked
<1> QED
  BY <1>10, <1>11, <1>12, <1>13, Zenon DEF IInv

\* relay_accept_cb in its three cases.
LEMMA AcceptKeeps ==
  ASSUME IInv, NEW r, Accept(r)
  PROVE  IInv'
<1> DEFINE c == NewConn(r)
           u == UvCloseBoth(c)
           z == [u EXCEPT !.accepted = FALSE]
<1>1. r \in DOMAIN relay /\ r \in Nat /\ FreeToAccept(r) /\ freed' = freed /\ fault' = fault
  BY DEF IInv, TypeOK, Accept, FreeToAccept, Listening, InState
<1>2. \/ conn' = Append(conn, z) /\ relay' = relay
      \/ relay[r].target = "bad" /\ conn' = Append(conn, RelayClose(c)) /\ relay' = relay
      \/ /\ relay[r].target = "good"
         /\ conn' = Append(conn, c) \/ conn' = Append(conn, RelayClose(c))
         /\ relay' = [relay EXCEPT ![r].conn = Len(conn')]
  BY Zenon DEF Accept
<1>3. ConnOK(c) /\ c.relay = r /\ ~c.freed /\ ~c.closing
  BY <1>1, NewConnOK, Zenon
<1> HIDE DEF c
<1>4. ConnOK(RelayClose(c)) /\ ~InService(RelayClose(c)) /\ RelayClose(c).relay = r
        /\ ~RelayClose(c).freed
  BY <1>3, RelayCloseOK, Zenon
<1>5. ConnOK(u) /\ u.relay = r /\ ~u.freed
  BY <1>3, UvCloseBothOK, Zenon
<1> HIDE DEF u
<1>6. z \in ConnType /\ z.h = u.h /\ z.queue = u.queue /\ z.freed = u.freed /\ z.relay = u.relay
        /\ z.pending = u.pending /\ z.closing = u.closing /\ ~z.accepted
  BY <1>5, Zenon DEF ConnOK, ConnType
<1> HIDE DEF z
<1>7. ConnOK(z)
  BY <1>5, <1>6, Zenon DEF ConnOK, Done
<1>8. CASE conn' = Append(conn, z) /\ relay' = relay
  BY <1>1, <1>5, <1>6, <1>7, <1>8, AppendKeeps, Zenon
<1>9. CASE relay[r].target = "bad" /\ conn' = Append(conn, RelayClose(c)) /\ relay' = relay
  BY <1>1, <1>4, <1>9, AppendKeeps, Zenon
<1>10. CASE relay[r].target = "good" /\ relay' = [relay EXCEPT ![r].conn = Len(conn')]
              /\ conn' = Append(conn, c)
  BY <1>1, <1>3, <1>10, AppendKeeps, Zenon
<1>11. CASE relay[r].target = "good" /\ relay' = [relay EXCEPT ![r].conn = Len(conn')]
              /\ conn' = Append(conn, RelayClose(c))
  BY <1>1, <1>4, <1>11, AppendKeeps, Zenon
<1> QED
  BY <1>2, <1>8, <1>9, <1>10, <1>11, Zenon

\* The callbacks of one connection.
LEMMA CallbackKeeps ==
  ASSUME IInv, NEW c,
         \/ \E ok \in BOOLEAN : Connect(c, ok)
         \/ \E d \in Sides : Eof(c, d)
         \/ \E d \in Sides, ok \in BOOLEAN : WriteDone(c, d, ok)
         \/ \E d \in Sides, ok \in BOOLEAN, n \in 1..MaxRead : Read(c, d, n, ok)
  PROVE  IInv'
<1> DEFINE x == conn[c]
<1>1. c \in DOMAIN conn
  BY Zenon DEF Connect, Eof, WriteDone, Read, Alive
<1>2. ConnOK(x)
  BY <1>1, Zenon DEF IInv
<1>3. ASSUME Step(c, RelayClose(x))
      PROVE  IInv'
  BY <1>1, <1>2, <1>3, RelayCloseOK, StepKeeps, Zenon
<1>4. ASSUME NEW ok \in BOOLEAN, Connect(c, ok)
      PROVE  IInv'
  <2> DEFINE y == [x EXCEPT !.connected = TRUE]
  <2>1. y \in ConnType /\ y.h = x.h /\ y.queue = x.queue /\ y.freed = x.freed
          /\ y.pending = x.pending /\ y.relay = x.relay /\ y.closing = x.closing /\ y.accepted = x.accepted
    BY <1>2, Zenon DEF ConnOK, ConnType
  <2>2. Step(c, y) \/ Step(c, RelayClose(x))
    BY <1>4, ZenonT(60) DEF Connect
  <2> HIDE DEF y
  <2>3. ConnOK(y) /\ (InService(y) => InService(x))
    BY <1>2, <2>1 DEF ConnOK, InService, Done
  <2> QED
    BY <1>1, <1>3, <2>1, <2>2, <2>3, StepKeeps, Zenon
<1>5. ASSUME NEW d \in Sides, Eof(c, d)
      PROVE  IInv'
  BY <1>3, <1>5, Zenon DEF Eof
<1>6. ASSUME NEW d \in Sides, NEW ok \in BOOLEAN, WriteDone(c, d, ok)
      PROVE  IInv'
  <2> DEFINE w == Written(x, d)
  <2>1. x.h[d] # "closed" /\ x.queue[d] # <<>> /\ (Step(c, w) \/ Step(c, RelayClose(w)))
    BY <1>6, Zenon DEF WriteDone
  <2>2. ConnOK(w) /\ (InService(w) => InService(x)) /\ w.relay = x.relay
          /\ w.freed = x.freed /\ w.accepted = x.accepted
    BY <1>2, <2>1, WrittenOK, Zenon
  <2> HIDE DEF w
  <2>3. ConnOK(RelayClose(w)) /\ (InService(RelayClose(w)) => InService(w))
          /\ RelayClose(w).relay = w.relay /\ RelayClose(w).freed = w.freed
          /\ RelayClose(w).accepted = w.accepted
    BY <2>2, RelayCloseOK, Zenon
  <2> QED
    BY <1>1, <2>1, <2>2, <2>3, StepKeeps, Zenon
<1>7. ASSUME NEW d \in Sides, NEW ok \in BOOLEAN, NEW n \in 1..MaxRead, Read(c, d, n, ok)
      PROVE  IInv'
  <2> DEFINE e == Other(d)
             f == Forward(x, e, n)
  <2>1. e \in Sides /\ x.h[d] = "open"
    BY <1>7, Zenon DEF Other, Sides, Read
  <2>2. x.h[e] = "open"
    BY <1>2, <2>1, Zenon DEF ConnOK, Sides
  <2>3. CASE Fits(x, e, n) /\ Step(c, f)
    <3>1. ConnOK(f) /\ (InService(f) => InService(x)) /\ f.relay = x.relay
            /\ f.freed = x.freed /\ f.accepted = x.accepted
      <4> HIDE DEF e
      <4> QED
        BY <1>2, <2>1, <2>2, <2>3, ForwardOK
    <3> HIDE DEF f
    <3> QED
      BY <1>1, <2>3, <3>1, StepKeeps, ZenonT(60)
  <2>4. (Fits(x, e, n) /\ Step(c, f)) \/ Step(c, RelayClose(x))
    BY <1>7, Zenon DEF Read
  <2> QED
    BY <2>3, <2>4, <1>3, Zenon
<1> QED
  BY <1>4, <1>5, <1>6, <1>7, Zenon

\* portfwd_close: one relay less.
LEMMA CloseKeeps ==
  ASSUME IInv, NEW r, Close(r)
  PROVE  IInv'
<1>1. {r} \in SUBSET (DOMAIN relay) /\ Destroy({r}) /\ fault' = fault /\ freed' = freed
        /\ freed' \subseteq Sessions
  BY Zenon DEF IInv, TypeOK, Close, Listening, InState
<1>2. OwnerAlive'
  BY <1>1, DestroyKeeps, Zenon DEF IInv, OwnerAlive
<1> QED
  BY <1>1, <1>2, DestroyKeeps, Zenon DEF IInv

\* portfwd_close_session: none of the relays left belongs to the session.
LEMMA SessionFreedKeeps ==
  ASSUME IInv, NEW s \in Sessions, SessionFreed(s)
  PROVE  IInv'
<1>1. OwnedBy(s) \in SUBSET (DOMAIN relay) /\ Destroy(OwnedBy(s)) /\ fault' = fault
        /\ freed' = freed \cup {s} /\ freed' \subseteq Sessions
  BY Zenon DEF IInv, TypeOK, SessionFreed, OwnedBy
<1>2. OwnerAlive'
  <2>1. \A r \in DOMAIN relay : Listening(r) /\ r \notin OwnedBy(s) => relay[r].owner # s
    BY Zenon DEF OwnedBy
  <2> QED
    BY <1>1, <2>1, DestroyKeeps, Zenon DEF IInv, OwnerAlive
<1> QED
  BY <1>1, <1>2, DestroyKeeps, Zenon DEF IInv
-----------------------------------------------------------------------------
(* The theorems                                                            *)

\* The invariant holds at the start, and every step keeps it.
THEOREM Invariance == Spec => []IInv
<1>1. Init => IInv
  <2> SUFFICES ASSUME Init
               PROVE  IInv
    BY Zenon
  <2>1. relay = <<>> /\ conn = <<>> /\ freed = {} /\ fault = FALSE
    BY Zenon DEF Init
  <2>2. DOMAIN relay = {} /\ DOMAIN conn = {} /\ relay \in Seq(RelayType) /\ conn \in Seq(ConnType)
    BY <2>1
  <2>3. TypeOK /\ OwnerAlive /\ BadNull /\ Tracked
    BY <2>1, <2>2, Zenon DEF TypeOK, OwnerAlive, BadNull, Tracked
  <2> QED
    BY <2>2, <2>3, Zenon DEF IInv
<1>2. IInv /\ [Next]_vars => IInv'
  <2> SUFFICES ASSUME IInv, [Next]_vars
               PROVE  IInv'
    BY Zenon
  <2>1. CASE UNCHANGED vars
    <3>1. relay' = relay /\ conn' = conn /\ freed' = freed /\ fault' = fault
      BY <2>1, Zenon DEF vars
    <3>2. TypeOK' /\ OwnerAlive' /\ BadNull'
      BY <3>1, Zenon DEF IInv, TypeOK, OwnerAlive, BadNull, Listening, InState
    <3>3. ~fault' => Tracked'
      BY <3>1, Zenon DEF IInv, Tracked, Listening, InState, Botched
    <3> QED
      BY <3>1, <3>2, <3>3, Zenon DEF IInv
  <2>2. ASSUME NEW s \in Sessions, SessionFreed(s)
        PROVE  IInv'
    BY <2>2, SessionFreedKeeps, Zenon
  <2>3. ASSUME NEW s \in Sessions, NEW target \in {"good", "bad"}, Open(s, target)
        PROVE  IInv'
    BY <2>3, OpenKeeps, Zenon
  <2>4. ASSUME NEW r \in Relays, Close(r) \/ ListenerClosed(r) \/ Accept(r)
        PROVE  IInv'
    BY <2>4, CloseKeeps, ListenerClosedKeeps, AcceptKeeps, Zenon
  <2>41. ASSUME NEW r \in Relays, Reject(r)
         PROVE  IInv'
    <3>1. relay' = relay /\ conn' = conn /\ freed' = freed /\ fault' = TRUE
      BY <2>41, Zenon DEF Reject
    <3>2. TypeOK' /\ OwnerAlive' /\ BadNull'
      BY <3>1, Zenon DEF IInv, TypeOK, OwnerAlive, BadNull, Listening, InState
    <3> QED
      BY <3>1, <3>2, Zenon DEF IInv
  <2>5. ASSUME NEW c \in Conns, NEW d \in Sides, CloseCb(c, d)
        PROVE  IInv'
    BY <2>5, CloseCbKeeps, Zenon
  <2>6. ASSUME NEW c \in Conns,
               \/ \E ok \in BOOLEAN : Connect(c, ok)
               \/ \E d \in Sides : Eof(c, d)
               \/ \E d \in Sides, ok \in BOOLEAN : WriteDone(c, d, ok)
               \/ \E d \in Sides, ok \in BOOLEAN, n \in 1..MaxRead : Read(c, d, n, ok)
        PROVE  IInv'
    BY <2>6, CallbackKeeps, Zenon
  <2> QED
    BY <2>1, <2>2, <2>3, <2>4, <2>41, <2>5, <2>6, Zenon DEF Next
<1> QED
  BY <1>1, <1>2, PTL DEF Spec

\* Relays and connections always point to one another, and pending bytes stay
\* within PORTFWD_MAX_PENDING_BYTES (relay_forward).
THEOREM TypeCorrect == Spec => []TypeOK
<1>1. IInv => TypeOK
  BY Zenon DEF IInv
<1> QED
  BY <1>1, Invariance, PTL

\* What a connection counts as pending towards a socket is what the writes that
\* have not called back hold: no byte is counted twice or left behind
\* (relay_forward, relay_write_cb).
THEOREM PendingIsExact == Spec => []PendingExact
<1>1. IInv => PendingExact
  BY Zenon DEF IInv, ConnOK, Exact, PendingExact
<1> QED
  BY <1>1, Invariance, PTL

\* A connection in service is the one its relay knows, unless uv_accept has
\* failed there (relay_accept_cb, relay_maybe_free, relay_destroy).
THEOREM ConnKept == Spec => []ConnTracked
<1>1. IInv => ConnTracked
  <2> SUFFICES ASSUME IInv, ~fault, NEW c \in DOMAIN conn, InService(conn[c])
               PROVE  LET r == conn[c].relay
                      IN  (Listening(r) /\ relay[r].conn = c) \/ Botched(r)
    BY Zenon DEF ConnTracked
  <2>1. ConnOK(conn[c])
    BY Zenon DEF IInv
  <2>2. ~conn[c].freed
    BY <2>1, Zenon DEF ConnOK, InService, Done, Sides
  <2> QED
    BY <2>2, Zenon DEF IInv, Tracked
<1> QED
  BY <1>1, Invariance, PTL

\* A connection is freed after the last callback of its sockets
\* (relay_close_cb, relay_maybe_free).
THEOREM FreedLast == Spec => []ConnFreedLast
<1>1. IInv => ConnFreedLast
  BY Zenon DEF IInv, ConnFreedLast, ConnOK, Done
<1> QED
  BY <1>1, Invariance, PTL

\* A relay that accepts has an owner that has not been freed
\* (portfwd_close_session).
THEOREM OwnerThere == Spec => []OwnerAlive
<1>1. IInv => OwnerAlive
  BY Zenon DEF IInv
<1> QED
  BY <1>1, Invariance, PTL
=============================================================================

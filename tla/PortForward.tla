---------------------------- MODULE PortForward ----------------------------
(***************************************************************************)
(* TCP relays: src/portfwd.c with its two callers, the Lua operations and  *)
(* maybe_free_session.  A relay is a listener that carries at most one     *)
(* connection at a time, and a connection a pair of sockets.  Both are     *)
(* freed by close callbacks, which libuv runs in an order of its own.      *)
(***************************************************************************)
EXTENDS Sums

CONSTANTS
  Sessions,
  MaxRelays,    \* bound: relays opened in all
  MaxConns,     \* bound: connections accepted in all
  MaxPending,   \* PORTFWD_MAX_PENDING_BYTES
  MaxRead       \* bound: bytes in one read

ASSUME RelayAssumption == {MaxRelays, MaxConns, MaxPending, MaxRead} \subseteq Nat

Relays == 1..MaxRelays
Conns == 1..MaxConns
Null == 0
Sides == {"inbound", "outbound"}

\* The side that what is read on d is written to.
Other(d) == IF d = "inbound" THEN "outbound" ELSE "inbound"

VARIABLES
  relay,     \* the relays opened so far, by relay_id
  conn,      \* the connections accepted so far
  freed,     \* sessions that have been freed
  fault      \* a use of freed memory has had an effect: the agent's further
             \* steps are unknown, and none is modelled

vars == <<relay, conn, freed, fault>>

Init ==
  /\ relay = <<>>
  /\ conn = <<>>
  /\ freed = {}
  /\ fault = FALSE

Both(v) == [d \in Sides |-> v]

NewConn(r) ==
  [accepted |-> TRUE, freed |-> FALSE, relay |-> r, h |-> Both("open"), closing |-> FALSE,
   connected |-> FALSE,        \* outbound_connected, and reading on both sides
   pending |-> Both(0),        \* pending_to_inbound, pending_to_outbound
   queue |-> Both(<<>>)]       \* libuv: the writes not yet completed
-----------------------------------------------------------------------------
UvCloseBoth(c) ==
  [c EXCEPT !.h = [d \in Sides |-> IF @[d] = "closed" THEN "closed" ELSE "closing"]]

\* relay_close
RelayClose(c) == IF c.closing THEN c ELSE [UvCloseBoth(c) EXCEPT !.closing = TRUE]

\* relay_destroy of the relays R
Destroy(R) ==
  /\ relay' = [r \in DOMAIN relay |->
                 IF r \in R THEN [relay[r] EXCEPT !.state = "closing", !.conn = Null]
                 ELSE relay[r]]
  /\ conn' = [c \in DOMAIN conn |->
                IF \E r \in R : relay[r].conn = c THEN RelayClose(conn[c]) ELSE conn[c]]

InState(r, state) == r \in DOMAIN relay /\ relay[r].state = state

Listening(r) == InState(r, "listening")

\* portfwd_open; if it fails after uv_tcp_init the relay is closed at once
Open(s, target) ==
  /\ ~fault /\ s \notin freed /\ Len(relay) < MaxRelays
  /\ \E state \in {"listening", "closing"} :
       relay' = Append(relay, [state |-> state, owner |-> s, conn |-> Null,
                               target |-> target])
  /\ UNCHANGED <<conn, freed, fault>>

\* portfwd_close, whichever session asks for it
Close(r) ==
  /\ ~fault /\ freed # Sessions /\ Listening(r)
  /\ Destroy({r})
  /\ UNCHANGED <<freed, fault>>

OwnedBy(s) == {r \in DOMAIN relay : Listening(r) /\ relay[r].owner = s}

\* Mutant: only the first relay is closed.
SessionFreedFirst(s) ==
  /\ ~fault /\ s \notin freed
  /\ freed' = freed \cup {s}
  /\ Destroy({r \in OwnedBy(s) : \A q \in OwnedBy(s) : r >= q})
  /\ fault' = fault

\* maybe_free_session through portfwd_close_session
SessionFreed(s) ==
  /\ ~fault /\ s \notin freed
  /\ freed' = freed \cup {s}
  /\ Destroy(OwnedBy(s))
  /\ fault' = fault

ListenerClosed(r) ==
  /\ ~fault /\ InState(r, "closing")
  /\ relay' = [relay EXCEPT ![r].state = "freed"]
  /\ UNCHANGED <<conn, freed, fault>>
-----------------------------------------------------------------------------
(* The connections.                                                        *)

\* Mutant: a relay takes a second connection.
FreeToAccept2(r) == Listening(r)

FreeToAccept(r) == Listening(r) /\ relay[r].conn = Null

\* relay_accept_cb: uv_accept fails; the target is no address; uv_tcp_connect
\* fails; or the connection is under way.  (When calloc or uv_tcp_init fails
\* nothing is accepted and nothing changes.)
Accept(r) ==
  LET c == NewConn(r)
  IN
  /\ ~fault /\ FreeToAccept(r) /\ Len(conn) < MaxConns
  /\ \/ /\ conn' = Append(conn, [UvCloseBoth(c) EXCEPT !.accepted = FALSE])
        /\ UNCHANGED relay
     \/ /\ relay[r].target = "bad"
        /\ conn' = Append(conn, RelayClose(c))
        /\ UNCHANGED relay
     \/ /\ relay[r].target = "good"
        /\ conn' \in {Append(conn, c), Append(conn, RelayClose(c))}
        /\ relay' = [relay EXCEPT ![r].conn = Len(conn')]
  /\ UNCHANGED <<freed, fault>>

\* relay_accept_cb while relay->conn is set.  The connection is accepted and
\* closed, or calloc fails, which changes nothing here; or uv_accept fails and
\* the handle is freed that uv_tcp_init has just entered in the event loop.
Reject(r) ==
  /\ ~fault /\ Listening(r) /\ relay[r].conn # Null
  /\ fault' = TRUE
  /\ UNCHANGED <<relay, conn, freed>>

Alive(c) == ~fault /\ c \in DOMAIN conn /\ ~conn[c].freed

\* A step of connection c alone.
Step(c, x) ==
  /\ conn' = [conn EXCEPT ![c] = x]
  /\ UNCHANGED <<relay, freed, fault>>

\* relay_connect_cb
Connect(c, ok) ==
  /\ Alive(c) /\ conn[c].h["outbound"] = "open" /\ ~conn[c].connected
  /\ Step(c, IF ok THEN [conn[c] EXCEPT !.connected = TRUE] ELSE RelayClose(conn[c]))

\* Mutant: off by one.
FitsOneMore(c, d, n) == c.pending[d] + n <= MaxPending + 1

Fits(c, d, n) == c.pending[d] + n <= MaxPending

\* relay_forward, when memory and uv_write do not fail
Forward(c, d, n) ==
  [c EXCEPT !.pending[d] = @ + n, !.queue[d] = Append(@, n)]

\* relay_read_cb on side d
Read(c, d, n, ok) ==
  LET x == conn[c]
  IN
  /\ Alive(c) /\ x.connected /\ x.h[d] = "open"
  /\ Step(c, IF ok /\ Fits(x, Other(d), n) THEN Forward(x, Other(d), n)
             ELSE RelayClose(x))

Eof(c, d) ==
  /\ Alive(c) /\ conn[c].connected /\ conn[c].h[d] = "open"
  /\ Step(c, RelayClose(conn[c]))

\* Mutant: relay_write_cb credits the other direction.
WrittenOther(x, d) ==
  LET n == Head(x.queue[d])
  IN  [x EXCEPT !.queue[d] = Tail(@),
                !.pending[Other(d)] = IF @ >= n THEN @ - n ELSE @]

\* relay_write_cb of the oldest write to side d
Written(x, d) ==
  LET n == Head(x.queue[d])
  IN  [x EXCEPT !.queue[d] = Tail(@),
                !.pending[d] = IF @ >= n THEN @ - n ELSE @]

\* libuv cancels the writes to a socket that is being closed.
WriteDone(c, d, ok) ==
  LET x == conn[c]
  IN
  /\ Alive(c) /\ x.h[d] # "closed" /\ x.queue[d] # <<>>
  /\ x.h[d] = "closing" => ~ok
  /\ Step(c, IF ok THEN Written(x, d) ELSE RelayClose(Written(x, d)))

\* Mutant: freed when the first of its sockets is closed.
DoneEarly(x) == \E d \in Sides : x.h[d] = "closed"

\* Mutant: a connection that never reached its target is not freed.
DoneConnected(x) == x.connected /\ \A d \in Sides : x.h[d] = "closed"

\* The condition of relay_maybe_free
Done(x) == \A d \in Sides : x.h[d] = "closed"

\* relay_close_cb, after the callbacks of the writes, and relay_maybe_free,
\* which writes to conn->relay.  If the listener's callback came first the
\* relay has been freed: the write may go unnoticed, or not.
CloseCb(c, d) ==
  LET x == [conn[c] EXCEPT !.h[d] = "closed"]
      r == x.relay
  IN
  /\ Alive(c) /\ conn[c].h[d] = "closing" /\ conn[c].queue[d] = <<>>
  /\ conn' = [conn EXCEPT ![c] = [x EXCEPT !.freed = Done(x)]]
  /\ fault' \in IF Done(x) /\ relay[r].state = "freed" THEN BOOLEAN ELSE {FALSE}
  /\ relay' = IF Done(x) /\ relay[r].state # "freed" THEN [relay EXCEPT ![r].conn = Null] ELSE relay
  /\ freed' = freed
-----------------------------------------------------------------------------
Next ==
  \/ \E s \in Sessions :
       SessionFreed(s) \/ \E target \in {"good", "bad"} : Open(s, target)
  \/ \E r \in Relays : Close(r) \/ ListenerClosed(r) \/ Accept(r) \/ Reject(r)
  \/ \E c \in Conns :
       \/ \E ok \in BOOLEAN : Connect(c, ok)
       \/ \E d \in Sides :
            \/ Eof(c, d) \/ CloseCb(c, d)
            \/ \E ok \in BOOLEAN :
                 WriteDone(c, d, ok) \/ \E n \in 1..MaxRead : Read(c, d, n, ok)

Spec == Init /\ [][Next]_vars

CloseCallback ==
  \/ \E r \in Relays : ListenerClosed(r)
  \/ \E c \in Conns, d \in Sides :
       CloseCb(c, d) \/ (c \in DOMAIN conn /\ conn[c].h[d] = "closing" /\ WriteDone(c, d, FALSE))

\* libuv cancels writes and runs close callbacks as long as a handle is closing.
FairSpec == Spec /\ WF_vars(CloseCallback)
-----------------------------------------------------------------------------
(* Properties                                                              *)

RelayType ==
  [state: {"listening", "closing", "freed"}, owner: Sessions, conn: Nat, target: {"good", "bad"}]

ConnType ==
  [accepted: BOOLEAN, freed: BOOLEAN, relay: Nat, h: [Sides -> {"open", "closing", "closed"}],
   closing: BOOLEAN, connected: BOOLEAN, pending: [Sides -> 0..MaxPending],
   queue: [Sides -> Seq(1..MaxRead)]]

\* Every variable has its type, and relays and connections point to each other.
TypeOK ==
  /\ relay \in Seq(RelayType) /\ conn \in Seq(ConnType)
  /\ \A r \in DOMAIN relay : relay[r].conn \in {Null} \cup DOMAIN conn
  /\ \A c \in DOMAIN conn : conn[c].relay \in DOMAIN relay
  /\ freed \subseteq Sessions /\ fault \in BOOLEAN

\* pending_to_inbound and pending_to_outbound are the bytes that libuv holds,
\* so the bound on them bounds memory (relay_forward against relay_write_cb).
PendingExact ==
  \A c \in DOMAIN conn, d \in Sides :
    conn[c].pending[d] = Total(conn[c].queue[d])

\* uv_accept has failed on relay r: the connection that never was clears
\* relay->conn when it is freed, whichever connection is there by then.
Botched(r) == \E c \in DOMAIN conn : conn[c].relay = r /\ ~conn[c].accepted

InService(x) == x.h["inbound"] = "open" \/ x.h["outbound"] = "open"

\* A connection in service has a relay that knows it, so that relay_destroy can
\* end it, unless uv_accept has failed there (relay->conn is written in four
\* places).
ConnTracked ==
  ~fault =>
    \A c \in DOMAIN conn :
      LET r == conn[c].relay
      IN  InService(conn[c]) => (Listening(r) /\ relay[r].conn = c) \/ Botched(r)

\* A connection is freed only when neither socket has a callback to come, of
\* a close or of a write (relay_maybe_free).
ConnFreedLast ==
  \A c \in DOMAIN conn :
    conn[c].freed => \A d \in Sides : conn[c].h[d] = "closed" /\ conn[c].queue[d] = <<>>

\* relay_accept_cb reaches the event loop through the session that opened the
\* relay: that session has not been freed (portfwd_close_session).
OwnerAlive == \A r \in DOMAIN relay : Listening(r) => relay[r].owner \notin freed

\* A relay that is closed is freed in the end, and every connection it has
\* accepted is freed with it, in whatever order libuv runs the callbacks
\* (relay_destroy, relay_close and their callbacks).  There are two exceptions:
\* a connection that relay_destroy could not know of because uv_accept had
\* failed there, which stays in service; and a write to a freed relay that has
\* had an effect.
TornDown ==
  \A r \in Relays :
    InState(r, "closing") ~>
      \/ fault
      \/ /\ InState(r, "freed")
         /\ \A c \in DOMAIN conn :
              conn[c].relay = r => conn[c].freed \/ (Botched(r) /\ InService(conn[c]))
=============================================================================

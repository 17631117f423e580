---------------------------- MODULE ClientDaemon ----------------------------
(***************************************************************************)
(* The client daemon, tools/client_daemon.py: one thread for each local    *)
(* command, the reader thread of the connection, and the tables between    *)
(* them.  pending and streams are filled by the reader under the req_id of *)
(* the frame; commands poll them with a deadline.  sock_lock guards the    *)
(* sending side of the socket alone.                                       *)
(*                                                                         *)
(* The agent is what the other modules show of it: it answers a request    *)
(* under its req_id, takes one upload at a time, and sends PINGs and the   *)
(* output of its child whenever it likes.  It handles a frame when it is   *)
(* sent; what it sends back may take any time.                             *)
(***************************************************************************)
EXTENDS Integers, Sequences

CONSTANTS
  N,           \* bound: local commands, each with a thread of its own
  Chunks,      \* bound: chunks in a file
  FirstReq,    \* the first next_req_id
  MaxPings,    \* bound: PINGs, the first of them under FirstReq
  MaxOutput    \* bound: frames of output and EXIT

ASSUME DaemonAssumption ==
  {N, Chunks, MaxPings, MaxOutput} \subseteq Nat /\ FirstReq \in Nat \ {0, 1}

\* The threads of handle_client, in the order in which serve starts them
Threads == 1..N
Free == 0

\* "op": status and op
Commands == {"op", "kill", "put", "get", "spawn", "wait-proc"}

\* How a command ends: "done" and "refused", which is an ERROR of the agent handed
\* on as the result, are ok: true to the client; "failed", an exception, is not.
Ended == {"done", "refused", "failed"}

\* The child has the first proc_id.
ProcId == 1

\* of: what made the agent send it; n: which chunk or piece of output
Frame(type, req_id, of, n) == [type |-> type, req_id |-> req_id, of |-> of, n |-> n]
NoFrame == Frame("none", 0, "none", 0)

Ids == 1..(FirstReq + N + MaxPings)

VARIABLES
  thread,       \* the commands: [cmd, pc, req_id, begun, answer, got]
  lock,         \* the thread that holds sock_lock, or Free
  next_req_id,
  pending,      \* the last answer under each id, or NoFrame
  streams,      \* the frames under each id
  running,      \* the reader lives
  ping,         \* the PING it is answering, or 0
  down,         \* the frames on their way from the agent
  agent,        \* [open, pings, upload, child, sent]
  committed,    \* the requests whose files have been committed, whole
  taken         \* how many frames of the child collect_stream has taken

daemon == <<thread, lock, next_req_id, pending, streams, running, ping>>
vars == <<daemon, down, agent, committed, taken>>

Init ==
  /\ thread = [t \in Threads |-> [cmd |-> "none", pc |-> "idle", req_id |-> 0, begun |-> FALSE,
                                  answer |-> "none", got |-> <<>>]]
  /\ lock = Free /\ next_req_id = FirstReq
  /\ pending = [i \in Ids |-> NoFrame] /\ streams = [i \in Ids |-> <<>>]
  /\ running = TRUE /\ ping = 0
  /\ down = <<>>
  /\ agent = [open |-> TRUE, pings |-> FirstReq - 1, upload |-> 0,
              child |-> "none", sent |-> 0]
  /\ committed = {} /\ taken = 0
-----------------------------------------------------------------------------
(* The agent                                                               *)

Reply(r, type) == Frame(type, r, "request", 0)

Errors(r, n) == [i \in 1..n |-> Reply(r, "ERROR")]

\* What the agent may make of a request: the frames it sends, and its state.
Refused(r) == [frames |-> Errors(r, 1), agent |-> agent, commit |-> FALSE]

Accepted(r, type, a) == [frames |-> <<Reply(r, type)>>, agent |-> a, commit |-> FALSE]

\* A file is sent at once; a read may fail on the way.
File(r, k, end) ==
  [frames |-> <<Reply(r, "ACK")>> \o [i \in 1..k |-> Frame("GET_CHUNK", r, "request", i)]
                                  \o <<Reply(r, end)>>,
   agent |-> agent, commit |-> FALSE]

Request(cmd, r) ==
  {Refused(r)} \cup
  CASE cmd = "op" -> {Accepted(r, "OP_RESULT", agent)}
    [] cmd = "kill" /\ agent.child # "none" -> {Accepted(r, "ACK", agent)}
    [] cmd = "get" -> {File(r, Chunks, "GET_END")} \cup {File(r, k, "ERROR") : k \in 0..(Chunks - 1)}
    [] cmd = "put" /\ agent.upload = 0 -> {Accepted(r, "ACK", [agent EXCEPT !.upload = r])}
    [] cmd = "spawn" /\ agent.child = "none" -> {Accepted(r, "ACK", [agent EXCEPT !.child = "running"])}
    [] OTHER -> {}

\* The chunks of a file, and PUT_END.  Once one is refused all that follow are.
Upload(r) ==
  LET idle == [agent EXCEPT !.upload = 0]
  IN  IF agent.upload # r
      THEN {[frames |-> Errors(r, Chunks + 1), agent |-> agent, commit |-> FALSE]}
      ELSE {[frames |-> <<Reply(r, "ACK")>>, agent |-> idle, commit |-> TRUE]}
             \cup {[frames |-> Errors(r, n), agent |-> idle, commit |-> FALSE] : n \in 1..(Chunks + 1)}

Closed == [agent EXCEPT !.open = FALSE]

\* transfer_check_timeout
UploadStalls ==
  /\ agent.open /\ agent.upload # 0
  /\ agent' = [agent EXCEPT !.upload = 0]
  /\ down' = Append(down, Reply(agent.upload, "ERROR"))
  /\ UNCHANGED <<daemon, committed, taken>>

SendPing ==
  /\ agent.open /\ agent.pings < FirstReq - 1 + MaxPings
  /\ agent' = [agent EXCEPT !.pings = @ + 1]
  /\ down' = Append(down, Frame("PING", agent.pings + 1, "ping", 0))
  /\ UNCHANGED <<daemon, committed, taken>>

\* Output of the child, which may follow its EXIT
ChildSends(type) ==
  /\ agent.open /\ agent.child # "none" /\ agent.sent < MaxOutput
  /\ type = "EXIT" => agent.child = "running"
  /\ agent' = [agent EXCEPT !.sent = @ + 1, !.child = IF type = "EXIT" THEN "exited" ELSE @]
  /\ down' = Append(down, Frame(type, ProcId, "child", agent.sent + 1))
  /\ UNCHANGED <<daemon, committed, taken>>

AgentCloses ==
  /\ agent.open
  /\ agent' = Closed
  /\ UNCHANGED <<daemon, down, committed, taken>>
-----------------------------------------------------------------------------
(* Commands                                                                *)

At(t, pc) == thread[t].pc = pc

Go(t, pc) == thread' = [thread EXCEPT ![t].pc = pc]

\* An exception; what the thread has gathered goes with it.
Raise(t) == thread' = [thread EXCEPT ![t].pc = "failed", ![t].begun = FALSE, ![t].got = <<>>]

\* _next_req
NextReq == next_req_id + 1

\* dispatch, and the id of its request; wait-proc sends nothing.
Start(t, cmd) ==
  /\ At(t, "idle") /\ \A u \in 1..(t - 1) : ~At(u, "idle")
  /\ IF cmd = "wait-proc"
     THEN /\ thread' = [thread EXCEPT ![t].cmd = cmd, ![t].req_id = ProcId, ![t].pc = "stream"]
          /\ UNCHANGED next_req_id
     ELSE /\ thread' = [thread EXCEPT ![t].cmd = cmd, ![t].req_id = next_req_id, ![t].pc = "lock"]
          /\ next_req_id' = NextReq
  /\ UNCHANGED <<lock, pending, streams, running, ping, down, agent, committed, taken>>

\* with self.sock_lock
Lock(t) ==
  /\ At(t, "lock") /\ lock = Free
  /\ lock' = t /\ Go(t, "send")
  /\ UNCHANGED <<next_req_id, pending, streams, running, ping, down, agent, committed, taken>>

\* sendall, and the end of the with: a request, or the chunks of a file and
\* PUT_END.
Send(t) ==
  LET r == thread[t].req_id
  IN  /\ At(t, "send")
      /\ Go(t, "await") /\ lock' = Free
      /\ \/ /\ agent.open
            /\ \E h \in IF thread[t].begun THEN Upload(r) ELSE Request(thread[t].cmd, r) :
                 /\ agent' = h.agent /\ down' = down \o h.frames
                 /\ committed' = IF h.commit THEN committed \cup {r} ELSE committed
         \/ /\ ~agent.open
            /\ UNCHANGED <<agent, down, committed>>
      /\ UNCHANGED <<next_req_id, pending, streams, running, ping, taken>>

\* Mutant: the lock is not released by an exception.
AfterRaiseHeld == lock

AfterRaise == Free

\* sendall raises: the agent is gone, or takes nothing for as long as the
\* socket's timeout.  Some chunks may have been sent, and part of a frame: the
\* agent takes what follows for the rest of it, and then closes.
SendRaises(t) ==
  LET r == thread[t].req_id
  IN  /\ At(t, "send")
      /\ Raise(t) /\ lock' = AfterRaise
      /\ agent' \in {agent, Closed}
      /\ \E n \in 0..(IF agent.open /\ thread[t].begun /\ agent.upload # r THEN Chunks ELSE 0) :
           down' = down \o Errors(r, n)
      /\ UNCHANGED <<next_req_id, pending, streams, running, ping, committed, taken>>

\* Mutant: the answer stays in pending.
PoppedKept(i) == pending

Popped(i) == [pending EXCEPT ![i] = NoFrame]

\* Mutant: any answer will do.
FoundAny(i) ==
  IF \E k \in Ids : pending[k] # NoFrame THEN pending[CHOOSE k \in Ids : pending[k] # NoFrame]
  ELSE NoFrame

Found(i) == pending[i]

\* The ERROR is not looked for: status, op, and the end of put_file.
HandsOn(x) == x.cmd = "op" \/ (x.cmd = "put" /\ x.begun)

\* request, and the end of put_file: the answer is there.  put_file goes on if
\* PUT_BEGIN is not refused, get_file if GET_BEGIN is not.
Answered(t) ==
  LET x == thread[t]
      f == Found(x.req_id)
  IN  /\ At(t, "await") /\ f # NoFrame
      /\ pending' = Popped(x.req_id)
      /\ thread' = [thread EXCEPT
           ![t].answer = f.of,
           ![t].begun = x.cmd = "put" /\ ~x.begun /\ f.type # "ERROR",
           ![t].pc = IF f.type = "ERROR" THEN IF HandsOn(x) THEN "refused" ELSE "failed"
                     ELSE CASE x.cmd = "put" /\ ~x.begun -> "lock"
                            [] x.cmd = "get" -> "stream"
                            [] OTHER -> "done"]
      /\ UNCHANGED <<lock, next_req_id, streams, running, ping, down, agent, committed, taken>>

\* The deadline of request, put_file or get_file passes.
Timeout(t) ==
  /\ At(t, "await") \/ (At(t, "stream") /\ thread[t].cmd = "get")
  /\ Raise(t)
  /\ UNCHANGED <<lock, next_req_id, pending, streams, running, ping, down, agent, committed, taken>>

\* Mutant: get_file returns when nothing is left for the moment.
EndsAtPause(x, f) == f.type = "EXIT" \/ (x.cmd = "get" /\ Len(streams[x.req_id]) = 1)

Ends(x, f) == f.type = IF x.cmd = "get" THEN "GET_END" ELSE "EXIT"

\* One turn of get_file or collect_stream under stream_cond, and what is done
\* with the item; frames of other types are passed over.
Take(t) ==
  LET i == thread[t].req_id
      f == Head(streams[i])
  IN  /\ At(t, "stream") /\ streams[i] # <<>>
      /\ streams' = [streams EXCEPT ![i] = Tail(@)]
      /\ thread' = [thread EXCEPT ![t].got = IF f.type = "GET_CHUNK" THEN Append(@, f.n) ELSE @,
                                  ![t].pc = IF Ends(thread[t], f) THEN "done" ELSE @]
      /\ taken' = IF f.of = "child" THEN taken + 1 ELSE taken
      /\ UNCHANGED <<lock, next_req_id, pending, running, ping, down, agent, committed>>

\* The deadline of collect_stream, which returns what it has
WaitEnds(t) ==
  /\ At(t, "stream") /\ thread[t].cmd = "wait-proc"
  /\ Go(t, "done")
  /\ UNCHANGED <<lock, next_req_id, pending, streams, running, ping, down, agent, committed, taken>>
-----------------------------------------------------------------------------
(* The reader                                                              *)

StreamTypes == {"OUTPUT", "EXIT", "GET_CHUNK", "GET_END"}

\* Mutant: the newest frame replaces those not yet taken.
FiledOver(f) == [streams EXCEPT ![f.req_id] = <<f>>]

Filed(f) == [streams EXCEPT ![f.req_id] = Append(@, f)]

\* One turn of _reader
Receive ==
  LET f == Head(down)
  IN  /\ running /\ ping = 0 /\ down # <<>>
      /\ down' = Tail(down)
      /\ IF f.type = "PING" THEN ping' = f.req_id /\ UNCHANGED <<streams, pending>>
         ELSE IF f.type \in StreamTypes THEN streams' = Filed(f) /\ UNCHANGED <<ping, pending>>
         ELSE pending' = [pending EXCEPT ![f.req_id] = f] /\ UNCHANGED <<ping, streams>>
      /\ UNCHANGED <<thread, lock, next_req_id, running, agent, committed, taken>>

\* PONG, with the lock, which the agent refuses; or sendall raises.  Nobody
\* sees the reader hold the lock.
Pong ==
  /\ running /\ ping # 0 /\ lock = Free
  /\ ping' = 0
  /\ \/ /\ down' = IF agent.open THEN Append(down, Frame("ERROR", ping, "pong", 0)) ELSE down
        /\ UNCHANGED <<running, agent>>
     \/ /\ running' = FALSE
        /\ agent' \in {agent, Closed}
        /\ UNCHANGED down
  /\ UNCHANGED <<thread, lock, next_req_id, pending, streams, committed, taken>>

\* recv raises: nothing comes for as long as the socket's timeout, or the
\* agent has closed the connection.
ReaderEnds ==
  /\ running /\ ping = 0 /\ down = <<>>
  /\ running' = FALSE
  /\ UNCHANGED <<thread, lock, next_req_id, pending, streams, ping, down, agent, committed, taken>>
-----------------------------------------------------------------------------
\* What a started command does by itself
Run(t) ==
  Lock(t) \/ Send(t) \/ SendRaises(t) \/ Answered(t) \/ Timeout(t) \/ Take(t) \/ WaitEnds(t)

Agent ==
  UploadStalls \/ SendPing \/ AgentCloses \/ \E type \in {"OUTPUT", "EXIT"} : ChildSends(type)

Next ==
  \/ \E t \in Threads : Run(t) \/ \E cmd \in Commands : Start(t, cmd)
  \/ Receive \/ Pong \/ ReaderEnds \/ Agent

Spec == Init /\ [][Next]_vars

\* Some thread goes on as long as one can: deadlines pass, and sendall ends
\* within the socket's timeout, whatever the agent does.
FairSpec == Spec /\ WF_vars(\E t \in Threads : Run(t))
-----------------------------------------------------------------------------
(* Properties                                                              *)

\* The answer that a command acts on is the agent's answer to a request under
\* its id, as long as the ids of the agent's PINGs, whose PONGs it answers with
\* ERROR, have not come up to next_req_id; and no other request has that id
\* (_next_req; request and _reader: pending[req_id]).
AnswerOwn ==
  \A t \in Threads :
    thread[t].answer # "none" =>
      /\ thread[t].answer = "request" \/ thread[t].req_id <= agent.pings
      /\ \A u \in Threads \ {t} : thread[u].req_id # thread[t].req_id

\* A put whose result is not an ERROR has been committed by the agent, whole
\* (put_file takes two answers under one req_id, and returns the second).
PutCommitted ==
  \A t \in Threads : thread[t].cmd = "put" /\ At(t, "done") => thread[t].req_id \in committed

\* A get that succeeds has all the chunks of the file, in order.
GetWhole ==
  \A t \in Threads : thread[t].cmd = "get" /\ At(t, "done") =>
    thread[t].got = [i \in 1..Chunks |-> i]

\* The child's frames on the wire d are number k + 1 to sent, in this order.
Following(d, k, sent) ==
  LET Piece(i) == d[i].of = "child"
  IN  /\ \A i \in DOMAIN d : Piece(i) => d[i].n \in (k + 1)..sent
      /\ \A i, j \in DOMAIN d : Piece(i) /\ Piece(j) /\ i < j => d[i].n < d[j].n
      /\ \A n \in (k + 1)..sent : \E i \in DOMAIN d : Piece(i) /\ d[i].n = n

\* What the child has sent is never lost or reordered by the daemon: what has
\* not been taken is in streams or on its way, in the order it was sent
\* (_reader, and the pops of collect_stream in any number of threads).
StreamKept ==
  LET s == streams[ProcId]
      k == taken + Len(s)
  IN  /\ k <= agent.sent
      /\ \A j \in DOMAIN s : s[j].n = taken + j
      /\ Following(down, k, agent.sent)

\* Every command ends, whatever becomes of the agent and of the reader: none
\* waits for ever for sock_lock or for an answer.
CommandEnds == <>[](\A t \in Threads : thread[t].pc \in {"idle"} \cup Ended)
=============================================================================

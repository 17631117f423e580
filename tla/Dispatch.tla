------------------------------ MODULE Dispatch ------------------------------
(***************************************************************************)
(* From a complete frame to its answer: protocol_handle_control, the Lua   *)
(* engine that all sessions share with the operations registered in it,    *)
(* and the handlers of PROC_SPAWN and KILL.  One read_cb handles the       *)
(* frames of one session, those after a send that closed it included;      *)
(* between reads children exit and sessions close.  Transfers have modules *)
(* of their own, and so do the handles of a child (Session) and of a relay *)
(* (PortForward): here a relay is its entry in the list.                   *)
(***************************************************************************)
EXTENDS Payload

CONSTANTS
  Sessions,
  NoSession,
  Words,       \* argument values other than Empty and Long
  MaxArgs,     \* bound: argv lines in a payload
  MaxProcs,    \* bound: next_proc_id
  MaxRelays,   \* bound: next_relay_id
  IdSpan,      \* 2^32
  PortSpan     \* 2^16

ASSUME DispatchAssumption ==
  /\ NoSession \notin Sessions
  /\ Empty # Long /\ Empty # None /\ Long # None /\ {Empty, Long, None} \cap Words = {}
  /\ {MaxArgs, MaxProcs, MaxRelays, IdSpan, PortSpan} \subseteq Nat
  /\ IdSpan > MaxProcs /\ IdSpan > MaxRelays /\ PortSpan > 0

Lines == [key : 0..(MaxArgs - 1), value : Words \cup {Empty, Long}]
Payloads == UNION {[1..n -> Lines] : n \in 0..MaxArgs}

\* A path: missing, short, beyond the 256 bytes of the reply to PROC_SPAWN, or
\* beyond the 512 bytes of its path and of an ERROR.
Paths == {"none", "short", "mid", "long"}

Commands == (Paths \X {<<>>}) \cup ({"short"} \X Payloads)

\* arg: the relay_id, the proc_id or, for port_open, the target_port, which may
\* be too large; 0 when it is missing or no number.
Request(type, name, path, argv, arg) ==
  [type |-> type, name |-> name, path |-> path, argv |-> argv, arg |-> arg]

ProcIds == 0..MaxProcs \cup {IdSpan + 1}
RelayIds == 0..MaxRelays \cup {IdSpan + 1}
Targets == {0, 1, PortSpan + 1}

Requests ==
  {Request(t, "none", "none", <<>>, 0) : t \in {"HELLO", "PING", "other"}}
    \cup {Request("PROC_SPAWN", "none", c[1], c[2], 0) : c \in Commands}
    \cup {Request("KILL", "none", "none", <<>>, n) : n \in ProcIds}
    \cup {Request("OP", n, "none", <<>>, 0) : n \in {"debug", "port_list", "unknown"}}
    \cup {Request("OP", "list", h, <<>>, 0) : h \in Paths}
    \cup {Request("OP", "port_open", "none", <<>>, n) : n \in Targets}
    \cup {Request("OP", "port_close", "none", <<>>, n) : n \in RelayIds}
    \cup {Request("OP", "tool.run", c[1], c[2], 0) : c \in Commands}

NoRequest == Request("none", "none", "none", <<>>, 0)

VARIABLES
  agent,    \* the sessions, the engine, and what this request has done
  reader,   \* the session whose read_cb is running
  request   \* the last request it has handled

dispatchVars == <<agent, reader, request>>

NewSession ==
  [closed |-> FALSE, active |-> FALSE, proc_id |-> 0, next_proc_id |-> 1]

\* sent, lost, did, args: of the request being handled, the frames queued,
\* whether memory has run out, what changed on the machine, and the arguments
\* of the child
DispatchInit ==
  /\ agent = [session |-> [s \in Sessions |-> NewSession], active_session |-> NoSession,
              relays |-> {}, next_relay_id |-> 1,
              sent |-> <<>>, lost |-> FALSE, did |-> {}, args |-> <<>>]
  /\ reader = NoSession
  /\ request = NoRequest
-----------------------------------------------------------------------------
(* Sending: session_send_frame                                             *)

Outcomes == {"queued", "overflow", "dropped"}

\* Of three sends in a row none succeeds after the one that closes the session.
Sends3 == {o \in [1..3 -> Outcomes] : \A i \in 1..2 : o[i] = "overflow" => o[i + 1] = "overflow"}

Close(a, s) == [a EXCEPT !.session[s].closed = TRUE]

Frame(s, type, req_id) == [to |-> s, type |-> type, req_id |-> req_id]

Send(a, s, type, req_id, o) ==
  IF a.session[s].closed THEN a
  ELSE CASE o = "overflow" -> Close(a, s)
         [] o = "dropped"  -> [a EXCEPT !.lost = TRUE]
         [] OTHER          -> [a EXCEPT !.sent = Append(@, Frame(s, type, req_id))]

\* The call returns 0.
Sends(a, s, o) == ~a.session[s].closed /\ o = "queued"
-----------------------------------------------------------------------------
(* Processes.  req_id: 1 for the request's own, 0 for that of a tool.run   *)

SpawnResults == {"spawned", "no_memory", "fails"}

ProcId(x) == x.next_proc_id

\* proc_spawn_common as far as the running child; its rc is Spawns.
SpawnCommon(a, s, req_id, args, how, o) ==
  IF a.session[s].active THEN Send(a, s, "ERROR", req_id, o)
  ELSE CASE how = "no_memory" -> Send([a EXCEPT !.lost = TRUE], s, "ERROR", req_id, o)
         [] how = "fails" -> Send([a EXCEPT !.session[s].next_proc_id = @ + 1], s, "ERROR", req_id, o)
         [] how = "spawned" -> [a EXCEPT !.session[s].active = TRUE,
                                         !.session[s].proc_id = ProcId(a.session[s]),
                                         !.session[s].next_proc_id = @ + 1,
                                         !.args = args,
                                         !.did = @ \cup {<<"spawned", ProcId(a.session[s])>>}]

Spawns(a, s, how) == ~a.session[s].active /\ how = "spawned"

\* proc_handle_spawn
HandleSpawn(a, s, r, how, o) ==
  LET path == r.path
      b == SpawnCommon(a, s, 1, BuildArgs(r.argv, path), how, o)
  IN  IF path \in {"none", "long"} THEN Send(a, s, "ERROR", 1, o)
      ELSE IF ~Spawns(a, s, how) THEN b
      ELSE Send(b, s, IF path = "mid" THEN "ERROR" ELSE "ACK", 1, o)

\* The casts of kv_u32 and of the bindings.  (Where an unsigned long has 32 bits
\* strtoul refuses the number: 0, for KILL.)
U32(n) == n % IdSpan
U16(n) == n % PortSpan

\* Mutant: any KILL kills the child that is running.
KillsAny(a, s, n) == n # 0 /\ a.session[s].active

Kills(a, s, n) == n # 0 /\ a.session[s].active /\ a.session[s].proc_id = U32(n)

\* proc_handle_kill; ok: uv_process_kill succeeds.  If not, kill_reason stays as
\* it has been set: "marked".
HandleKill(a, s, r, ok, o) ==
  IF Kills(a, s, r.arg)
  THEN Send([a EXCEPT !.did = @ \cup {<<IF ok THEN "killed" ELSE "marked", a.session[s].proc_id>>}],
            s, IF ok THEN "ACK" ELSE "ERROR", 1, o)
  ELSE Send(a, s, "ERROR", 1, o)
-----------------------------------------------------------------------------
(* The Lua engine                                                          *)

\* The operations that change something.  ok: the system calls of the operation
\* succeed (scandir, bind and listen); how: what becomes of the spawn.
PortOpen(a, s, r, ok) ==
  LET id == a.next_relay_id
      b == [a EXCEPT !.next_relay_id = id + 1]
  IN  IF r.arg = 0 THEN a
      ELSE IF ~ok THEN b
      ELSE [b EXCEPT !.relays = @ \cup {[id |-> id, owner |-> s, target |-> U16(r.arg)]},
                     !.did = @ \cup {<<"opened", id>>}]

PortClose(a, r) ==
  [a EXCEPT !.relays = {x \in @ : x.id # U32(r.arg)},
            !.did = @ \cup {<<"closed", x.id>> : x \in {y \in a.relays : y.id = U32(r.arg)}}]

ToolRun(a, s, r, how, o) ==
  IF r.path = "none" THEN a ELSE SpawnCommon(a, s, 0, CollectArgv(r.argv, r.path), how, o)

Run(a, s, r, ok, how, o) ==
  CASE r.name = "port_open"  -> PortOpen(a, s, r, ok)
    [] r.name = "port_close" -> PortClose(a, r)
    [] r.name = "tool.run"   -> ToolRun(a, s, r, how, o)
    [] OTHER                 -> a

\* The handler returns a result; it raises an error otherwise.
Returns(a, s, r, ok, how) ==
  CASE r.name = "list"       -> ok
    [] r.name = "port_open"  -> r.arg # 0 /\ ok
    [] r.name = "port_close" -> \E x \in a.relays : x.id = U32(r.arg)
    [] r.name = "tool.run"   -> r.path # "none" /\ Spawns(a, s, how)
    [] r.name = "unknown"    -> FALSE
    [] OTHER                 -> TRUE

\* The error of list names the path, and session_send_error has 512 bytes.
TooLong(r, returns) == r.name = "list" /\ r.path = "long" /\ ~returns

\* Mutant: the error path forgets to reset active_session.
FailedActive(a) == a

\* lua_engine_dispatch after lua_pcall fails
Failed(a) == [a EXCEPT !.active_session = NoSession]

\* Mutant: the failure of lua_engine_dispatch is answered by nobody.
FallbackSilent(a, s, o) == a

\* "lua dispatch failed"
Fallback(a, s, o) == Send(a, s, "ERROR", 1, o)

\* FRAME_OP: lua_engine_dispatch, dispatch_request, and agent.reply or
\* agent.error, which raise an error of their own when they cannot send
HandleOp(a, s, r, ok, how, o) ==
  LET b == [a EXCEPT !.active_session = s]
      c == Run(b, b.active_session, r, ok, how, o[1])
      returns == Returns(b, b.active_session, r, ok, how)
      d == IF TooLong(r, returns) THEN c
           ELSE Send(c, c.active_session, IF returns THEN "OP_RESULT" ELSE "ERROR", 1, o[2])
  IN  IF Sends(c, s, o[2]) /\ ~TooLong(r, returns)
      THEN [d EXCEPT !.active_session = NoSession]
      ELSE Fallback(Failed(d), s, o[3])
-----------------------------------------------------------------------------
(* protocol_handle_control, but for transfers                              *)

HandleText(a, s, r, o) ==
  LET type == CASE r.type = "HELLO" -> "ACK" [] r.type = "PING" -> "PONG" [] OTHER -> "ERROR"
  IN  Send(a, s, type, 1, o)

Fresh(a) == [a EXCEPT !.sent = <<>>, !.lost = FALSE, !.did = {}, !.args = <<>>]

Within(r) ==
  /\ r.type = "PROC_SPAWN" \/ r.name = "tool.run"
       => agent.session[reader].next_proc_id <= MaxProcs
  /\ r.name = "port_open" => agent.next_relay_id <= MaxRelays

\* read_cb of a session begins, handles a frame, and returns.
ReadBegins(s) ==
  /\ reader = NoSession /\ ~agent.session[s].closed
  /\ reader' = s
  /\ UNCHANGED <<agent, request>>

Reading == reader # NoSession /\ request = NoRequest

Handle(r, a) ==
  /\ agent' = a
  /\ request' = r
  /\ UNCHANGED reader

\* The payload cannot be copied.
CopyFails(r, o) == Handle(r, Send([agent EXCEPT !.lost = TRUE], reader, "ERROR", 1, o))

Greet(r, o) == r.type \in {"HELLO", "PING", "other"} /\ Handle(r, HandleText(agent, reader, r, o))
Spawn(r, how, o) == r.type = "PROC_SPAWN" /\ Handle(r, HandleSpawn(agent, reader, r, how, o))
Kill(r, ok, o) == r.type = "KILL" /\ Handle(r, HandleKill(agent, reader, r, ok, o))
Op(r, ok, how, o) == r.type = "OP" /\ Handle(r, HandleOp(agent, reader, r, ok, how, o))

\* On to the next frame, or back to the loop.
Handled ==
  /\ request # NoRequest
  /\ request' = NoRequest /\ agent' = Fresh(agent)
  /\ UNCHANGED reader

ReadEnds ==
  /\ Reading
  /\ reader' = NoSession
  /\ UNCHANGED <<agent, request>>

\* proc_exit_cb and proc_maybe_finalize
ChildExits(s) ==
  /\ reader = NoSession /\ agent.session[s].active
  /\ agent' = [agent EXCEPT !.session[s].active = FALSE, !.session[s].proc_id = 0]
  /\ UNCHANGED <<reader, request>>

\* The peer goes away, or the idle timer closes the session.
SessionCloses(s) ==
  /\ reader = NoSession /\ ~agent.session[s].closed
  /\ agent' = Close(agent, s)
  /\ UNCHANGED <<reader, request>>

\* maybe_free_session: portfwd_close_session
Freed(s) ==
  /\ reader = NoSession /\ agent.session[s].closed /\ ~agent.session[s].active
  /\ agent' = [agent EXCEPT !.relays = {x \in @ : x.owner # s}]
  /\ UNCHANGED <<reader, request>>

HandleFrame ==
  \E r \in Requests : Within(r) /\
    \/ \E o \in Outcomes :
         \/ CopyFails(r, o) \/ Greet(r, o)
         \/ \E how \in SpawnResults : Spawn(r, how, o)
         \/ \E ok \in BOOLEAN : Kill(r, ok, o)
    \/ \E ok \in BOOLEAN, how \in SpawnResults, o \in Sends3 : Op(r, ok, how, o)

DispatchNext ==
  \/ \E s \in Sessions : ReadBegins(s) \/ ChildExits(s) \/ SessionCloses(s) \/ Freed(s)
  \/ Reading /\ HandleFrame
  \/ Handled
  \/ ReadEnds

DispatchSpec == DispatchInit /\ [][DispatchNext]_dispatchVars
-----------------------------------------------------------------------------
(* Properties                                                              *)

Answered == reader # NoSession /\ request # NoRequest

\* The frames that carry the request's id.
Answers == {i \in DOMAIN agent.sent : agent.sent[i].req_id = 1}

Answer == IF Answers = {} THEN "none" ELSE agent.sent[CHOOSE i \in Answers : TRUE].type

Asking == agent.session[reader]

\* Every variable has its type, and no child or relay has an id yet to be given.
\* No session is active between two events, so that an operation never runs
\* for a session that is gone (the three resets in lua_engine_dispatch).
DispatchTypeOK ==
  /\ reader \in Sessions \cup {NoSession}
  /\ agent.active_session = NoSession
  /\ agent.lost \in BOOLEAN
  /\ agent.relays \subseteq [id : 1..(agent.next_relay_id - 1), owner : Sessions,
                             target : 0..(PortSpan - 1)]
  /\ \A s \in Sessions : LET x == agent.session[s]
                         IN  /\ x.closed \in BOOLEAN
                             /\ x.active => x.proc_id \in 1..(x.next_proc_id - 1)

\* A request is answered once, to the session that asked, whichever of the
\* sends on its way fails; not at all only if the session is closed or memory
\* ran out.  Only a failing tool.run sends more: an ERROR without its id.
OneAnswer ==
  Answered =>
    /\ \A i, j \in Answers : i = j
    /\ Answers = {} => Asking.closed \/ agent.lost
    /\ \A i \in DOMAIN agent.sent :
         /\ agent.sent[i].to = reader
         /\ agent.sent[i].req_id = 0 => agent.sent[i].type = "ERROR" /\ request.name = "tool.run"

\* What the handler of a request changes when it succeeds: the child or relay
\* that the number names, once it is cut to 32 bits.
Effect ==
  CASE request.type = "PROC_SPAWN" \/ request.name = "tool.run" -> <<"spawned", Asking.proc_id>>
    [] request.type = "KILL"        -> <<"killed", U32(request.arg)>>
    [] request.name = "port_open"   -> <<"opened", agent.next_relay_id - 1>>
    [] request.name = "port_close"  -> <<"closed", U32(request.arg)>>
    [] OTHER                        -> <<"none", 0>>

\* The answer tells what happened.  A success means that the child that was
\* named is killed, the one that was asked for runs in this session, the relay
\* is open, owned by it, and leads to the port asked for, cut to 16 bits; an
\* ERROR that nothing has changed, unless the path does not fit in the reply to
\* PROC_SPAWN, memory ran out, or the kill failed, which leaves its mark on the
\* child (the order of effect and reply in proc_spawn_common, proc_handle_kill
\* and HandleOp).
Truthful ==
  Answered =>
    /\ Answer \in {"ACK", "OP_RESULT"} /\ Effect[1] # "none" =>
         /\ agent.did = {Effect}
         /\ Effect[1] = "spawned" => Asking.active
         /\ Effect[1] = "opened" =>
              [id |-> Effect[2], owner |-> reader, target |-> U16(request.arg)] \in agent.relays
    /\ Answer = "ERROR" /\ agent.did # {} =>
         \/ agent.lost
         \/ request.type = "PROC_SPAWN" /\ request.path = "mid"
         \/ request.type = "KILL" /\ agent.did = {<<"marked", U32(request.arg)>>}

\* A child gets the arguments that its request lists, in their order
\* (proc_build_args and collect_argv): all of them from tool.run; from
\* PROC_SPAWN those before the first that is empty or too long, and the path
\* in the place of a single one.
ArgsAsAsked ==
  Answered /\ WellFormed(request.argv) /\ (\E e \in agent.did : e[1] = "spawned") =>
    LET args == agent.args
        asked == Asked(request.argv)
        usable == \A i \in DOMAIN asked : asked[i] \notin {Empty, Long}
    IN  /\ args # <<>>
        /\ args = <<request.path>> \/ Begins(args, asked)
        /\ request.type = "OP" /\ asked # <<>> => args = asked
        /\ request.type = "PROC_SPAWN" /\ usable /\ Len(asked) > 1 => args = asked
=============================================================================

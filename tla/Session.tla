------------------------------ MODULE Session ------------------------------
(***************************************************************************)
(* The life of one session: src/session.c and src/proc.c with              *)
(* on_new_connection of src/server.c and the upload flag of                *)
(* src/transfer.c.  The session struct embeds five libuv handles and is    *)
(* freed by the close callback that brings close_refs to zero.             *)
(*                                                                         *)
(* Callbacks of the event loop are atomic, except that the frames found by *)
(* one read_cb are handled one by one (batch), with nothing in between.    *)
(* A handle is initialised again, or closed again, in violation of libuv's *)
(* contract: what follows is undefined, so the session is marked `fault'   *)
(* and takes no further step.                                              *)
(***************************************************************************)
EXTENDS Integers

CONSTANTS
  MaxProcs,    \* bound: children spawned by one session
  MaxBatch,    \* bound: frames handled by one read_cb
  OutOfMemory  \* whether malloc, strdup and uv_pipe_init may fail

ASSUME SessionAssumption ==
  MaxProcs \in Nat /\ MaxBatch \in Nat /\ OutOfMemory \in BOOLEAN

Pipes == {"stdout", "stderr"}
Handles == {"tcp", "timer", "process"} \cup Pipes

\* "none": not initialised, or its close callback has run; "stopped": open,
\* reading stopped at end of file; "closing": uv_close called, callback due;
\* "orphan": the same, but without a callback and without a reference.
HandleStates == {"none", "open", "stopped", "closing", "orphan"}

\* kill_reason_name of enum proc_kill_reason
KillReasons == {"exit", "killed", "timeout", "idle_timeout"}

VARIABLES
  session,   \* struct session with its struct proc_state
  phase,     \* "new": in on_new_connection; "up": uv_read_start was called
  batch,     \* complete frames read_cb has still to handle
  child,     \* the operating system's process: "none", "running", "exited"
  child_id,  \* the proc_id given to the last child
  exits,     \* per proc_id: the reason in its EXIT frame, "unsent" or "none"
  blame      \* why the last child was last to be killed, "exit" if never

ghosts == <<child, child_id, exits, blame>>
vars == <<session, phase, batch, child, child_id, exits, blame>>

SessionType ==
  [h: [Handles -> HandleStates], closed: BOOLEAN, close_refs: Nat,
   timer_started: BOOLEAN, freed: BOOLEAN,
   fault: {"none", "reuse", "double_close"},
   active: BOOLEAN, eof: SUBSET Pipes, proc_id: 0..MaxProcs,
   next_proc_id: 1..(MaxProcs + 1), kill_reason: KillReasons, upload: BOOLEAN]

\* session_init, and uv_tcp_init in on_new_connection
NewSession ==
  [h |-> [x \in Handles |-> IF x = "tcp" THEN "open" ELSE "none"],
   closed |-> FALSE, close_refs |-> 0, timer_started |-> FALSE,
   freed |-> FALSE, fault |-> "none",
   active |-> FALSE,
   eof |-> {},           \* stdout_closed, stderr_closed
   proc_id |-> 0, next_proc_id |-> 1, kill_reason |-> "exit",
   upload |-> FALSE]     \* upload.active, and the temp file exists

Init ==
  /\ session = NewSession
  /\ phase = "new"
  /\ batch = 0
  /\ child = "none" /\ child_id = 0
  /\ exits = [p \in 0..MaxProcs |-> "none"]
  /\ blame = "exit"
-----------------------------------------------------------------------------
(* libuv.                                                                  *)

\* The first breach is the one recorded.
Breach(s, what) == IF s.fault = "none" THEN [s EXCEPT !.fault = what] ELSE s

With(s, X, state) ==
  [s EXCEPT !.h = [x \in Handles |-> IF x \in X THEN state ELSE s.h[x]]]

\* uv_*_init or uv_spawn on the handles X
UvInit(s, X) ==
  IF \A x \in X : s.h[x] = "none" THEN With(s, X, "open") ELSE Breach(s, "reuse")

\* uv_close on the handles X
UvClose(s, X, state) ==
  IF \A x \in X : s.h[x] \in {"open", "stopped"} THEN With(s, X, state)
                                                ELSE Breach(s, "double_close")
-----------------------------------------------------------------------------
(* session.c                                                               *)

AddRefs(s, n) == [s EXCEPT !.close_refs = @ + n]

\* The handles session_close closes.
Closable(s) == IF s.timer_started THEN {"timer", "tcp"} ELSE {"tcp"}

\* Mutant: a second call is not ignored.
SessionCloseAgain(s) ==
  [AddRefs(UvClose(s, Closable(s), "closing"), 1) EXCEPT
     !.closed = TRUE, !.timer_started = FALSE]

SessionClose(s) ==
  IF s.closed
  THEN s
  ELSE [AddRefs(UvClose(s, Closable(s), "closing"), 1) EXCEPT
          !.closed = TRUE, !.timer_started = FALSE]

\* What session_send_frame can do on an open session: queue the frame, find
\* the write queue full and close the session, or fail without closing it.
Outcomes == {"queued", "overflow"} \cup (IF OutOfMemory THEN {"dropped"} ELSE {})

Send(s, o) == IF o = "overflow" THEN SessionClose(s) ELSE s

Queued(s, o) == ~s.closed /\ o = "queued"

\* Mutant: the reason of the last child stays.
ProcResetKeepsReason(s) ==
  [s EXCEPT !.active = FALSE, !.eof = {}, !.proc_id = 0]

ProcReset(s) ==
  [s EXCEPT !.active = FALSE, !.eof = {}, !.proc_id = 0, !.kill_reason = "exit"]

ProcAbort(s) ==
  IF s.active THEN [s EXCEPT !.kill_reason = "killed"] ELSE ProcReset(s)

TransferAbort(s) == [s EXCEPT !.upload = FALSE]

\* Mutant: off by one, freed with one reference left.
MaybeFreeEarly(s) ==
  LET r == AddRefs(s, -1)
  IN  IF r.close_refs > 1 THEN r
      ELSE [ProcAbort(TransferAbort(r)) EXCEPT !.freed = TRUE]

\* maybe_free_session, called by every close callback
MaybeFree(s) ==
  LET r == AddRefs(s, -1)
  IN  IF r.close_refs > 0 THEN r
      ELSE [ProcAbort(TransferAbort(r)) EXCEPT !.freed = TRUE]

Live == session.fault = "none" /\ ~session.freed

\* uv_process_kill: a running child dies.
Killed(c) == IF c = "running" THEN "exited" ELSE c
-----------------------------------------------------------------------------
(* on_new_connection: uv_accept fails, uv_read_start fails, or neither.    *)
WithTimer(s) ==
  [AddRefs(UvInit(s, {"timer"}), 1) EXCEPT !.timer_started = TRUE]

Accept ==
  /\ Live /\ phase = "new"
  /\ phase' = "up"
  /\ session' \in {SessionClose(session),
                   SessionClose(WithTimer(session)),
                   WithTimer(session)}
  /\ UNCHANGED <<batch, ghosts>>

Loop == Live /\ phase = "up" /\ batch = 0

\* read_cb with nread < 0, or with more bytes than rx_buf holds
ReadFails ==
  /\ Loop /\ session.h["tcp"] = "open"
  /\ session' = SessionClose(session)
  /\ UNCHANGED <<phase, batch, ghosts>>

\* read_cb with complete frames in rx_buf
ReadFrames ==
  /\ Loop /\ session.h["tcp"] = "open"
  /\ batch' \in 1..MaxBatch
  /\ UNCHANGED <<session, phase, ghosts>>
-----------------------------------------------------------------------------
(* The frame handlers.  read_cb calls them also when the session has been  *)
(* closed by an earlier frame of the batch.                                *)

Frame == Live /\ batch > 0 /\ batch' = batch - 1

\* FRAME_STATUS_ERROR: read_cb returns.
BadHeader ==
  /\ Live /\ batch > 0 /\ batch' = 0
  /\ session' = SessionClose(session)
  /\ UNCHANGED <<phase, ghosts>>

\* A handler that at most replies: HELLO, PING, OP, GET_BEGIN, PUT_CHUNK and
\* every refused request.
ReplyOnly(o) ==
  /\ Frame
  /\ session' = Send(session, o)
  /\ UNCHANGED <<phase, ghosts>>

UploadBegins(o) ==
  /\ Frame /\ ~session.upload
  /\ session' = Send([session EXCEPT !.upload = TRUE], o)
  /\ UNCHANGED <<phase, ghosts>>

\* PUT_END, or a PUT_CHUNK that fails
UploadEnds(o) ==
  /\ Frame /\ session.upload
  /\ session' = Send(TransferAbort(session), o)
  /\ UNCHANGED <<phase, ghosts>>
-----------------------------------------------------------------------------
(* proc.c: PROC_SPAWN, or tool.run through proc_spawn_direct.              *)

SpawnNoMemory(o) ==
  /\ Frame /\ ~session.active /\ OutOfMemory
  /\ session' = Send(ProcReset(session), o)
  /\ UNCHANGED <<phase, ghosts>>

NextProc(s) ==
  [ProcReset(s) EXCEPT !.proc_id = s.next_proc_id, !.next_proc_id = @ + 1]

\* uv_pipe_init, calloc or uv_spawn fails: the pipes initialised so far are
\* closed without a callback; a process handle that was not started is idle.
Attempted(s, how) ==
  LET pipes == CASE how = "stdout_pipe" -> {}
                 [] how = "stderr_pipe" -> {"stdout"}
                 [] OTHER -> Pipes
      tried == IF how = "uv_spawn" THEN pipes \cup {"process"} ELSE pipes
  IN  With(UvClose(UvInit(s, tried), pipes, "orphan"), tried \ pipes, "none")

SpawnFails(how, o) ==
  /\ Frame /\ ~session.active /\ session.next_proc_id <= MaxProcs
  /\ how # "uv_spawn" => OutOfMemory
  /\ session' = Send(ProcReset(Attempted(NextProc(session), how)), o)
  /\ UNCHANGED <<phase, ghosts>>

\* Mutant: no reference for the process handle.
SpawnedTwoRefs(s) ==
  [AddRefs(UvInit(NextProc(s), Pipes \cup {"process"}), 2) EXCEPT !.active = TRUE]

Spawned(s) ==
  [AddRefs(UvInit(NextProc(s), Pipes \cup {"process"}), 3) EXCEPT !.active = TRUE]

SpawnOk(o) ==
  /\ Frame /\ ~session.active /\ session.next_proc_id <= MaxProcs
  /\ session' = Send(Spawned(session), o)
  /\ child' = "running"
  /\ child_id' = session.next_proc_id /\ blame' = "exit"
  /\ UNCHANGED <<phase, exits>>

\* KILL of the active child; uv_process_kill can only fail if it is dead.
Kill(ok, o) ==
  /\ Frame /\ session.active
  /\ ~ok => child # "running"
  /\ session' = Send([session EXCEPT !.kill_reason = "killed"], o)
  /\ child' = IF ok THEN Killed(child) ELSE child
  /\ blame' = "killed"
  /\ UNCHANGED <<phase, child_id, exits>>
-----------------------------------------------------------------------------
(* proc.c: events of the child.                                            *)

\* Mutant: the end of both pipes is taken for the end of the child.
MaybeFinalizeAtEof(s) ==
  IF s.eof = Pipes
  THEN ProcReset(UvClose(s, Pipes, "closing"))
  ELSE s

MaybeFinalize(s) ==
  IF ~s.active /\ s.eof = Pipes
  THEN ProcReset(UvClose(s, Pipes, "closing"))
  ELSE s

\* read_cb of proc.c with nread > 0
PipeRead(p, o) ==
  /\ Loop /\ session.h[p] = "open"
  /\ session' = Send(session, o)
  /\ UNCHANGED <<phase, batch, ghosts>>

\* read_cb of proc.c with nread < 0
PipeEof(p) ==
  /\ Loop /\ session.h[p] = "open"
  /\ session' = MaybeFinalize([With(session, {p}, "stopped") EXCEPT !.eof = @ \cup {p}])
  /\ UNCHANGED <<phase, batch, ghosts>>

ChildExits ==
  /\ child = "running"
  /\ child' = "exited"
  /\ UNCHANGED <<session, phase, batch, child_id, exits, blame>>

\* Mutant: proc_exit_cb leaves the pipes to read_cb.
ProcExitCbNoFinalize(o) ==
  /\ Loop /\ child = "exited" /\ session.h["process"] = "open"
  /\ child' = "none"
  /\ exits' = [exits EXCEPT ![session.proc_id] =
                 IF Queued(session, o) THEN session.kill_reason ELSE "unsent"]
  /\ session' = UvClose(Send([session EXCEPT !.active = FALSE], o),
                        {"process"}, "closing")
  /\ UNCHANGED <<phase, batch, child_id, blame>>

ProcExitCb(o) ==
  /\ Loop /\ child = "exited" /\ session.h["process"] = "open"
  /\ child' = "none"
  /\ exits' = [exits EXCEPT ![session.proc_id] =
                 IF Queued(session, o) THEN session.kill_reason ELSE "unsent"]
  /\ session' = MaybeFinalize(UvClose(Send([session EXCEPT !.active = FALSE], o),
                                      {"process"}, "closing"))
  /\ UNCHANGED <<phase, batch, child_id, blame>>
-----------------------------------------------------------------------------
(* The heartbeat timer: session idle, or else PING if due, the transfer    *)
(* timeout and the process timeouts, whatever has elapsed.                 *)

IdleClose ==
  /\ Loop /\ session.h["timer"] = "open" /\ ~session.closed
  /\ session' = SessionClose(session)
  /\ UNCHANGED <<phase, batch, ghosts>>

\* transfer_check_timeout
CheckTransfer(s, stalled, o) ==
  IF stalled /\ s.upload THEN TransferAbort(Send(s, o)) ELSE s

\* proc_check_timeouts; due = "exit" if no limit has been reached
CheckProc(s, due) ==
  IF s.active /\ due # "exit" THEN [s EXCEPT !.kill_reason = due] ELSE s

\* Mutant: the timeout is recorded and the child is not killed.
HeartbeatNoKill(ping, stalled, o, due) ==
  /\ Loop /\ session.h["timer"] = "open" /\ ~session.closed
  /\ session' = CheckProc(CheckTransfer(Send(session, ping), stalled, o), due)
  /\ blame' = IF session.active /\ due # "exit" THEN due ELSE blame
  /\ UNCHANGED <<phase, batch, child, child_id, exits>>

Heartbeat(ping, stalled, o, due) ==
  /\ Loop /\ session.h["timer"] = "open" /\ ~session.closed
  /\ session' = CheckProc(CheckTransfer(Send(session, ping), stalled, o), due)
  /\ child' = IF session.active /\ due # "exit" THEN Killed(child) ELSE child
  /\ blame' = IF session.active /\ due # "exit" THEN due ELSE blame
  /\ UNCHANGED <<phase, batch, child_id, exits>>
-----------------------------------------------------------------------------
(* The closing handles.                                                    *)

\* on_close_done and on_proc_handle_closed
CloseCb(x) ==
  /\ Loop /\ session.h[x] = "closing"
  /\ session' = MaybeFree(With(session, {x}, "none"))
  /\ child' = IF session'.freed /\ session.active THEN Killed(child) ELSE child
  /\ UNCHANGED <<phase, batch, child_id, exits, blame>>

OrphanClosed(x) ==
  /\ Loop /\ session.h[x] = "orphan"
  /\ session' = With(session, {x}, "none")
  /\ UNCHANGED <<phase, batch, ghosts>>
-----------------------------------------------------------------------------
SpawnFailures == {"stdout_pipe", "stderr_pipe", "calloc", "uv_spawn"}

HandleFrame ==
  \/ BadHeader
  \/ \E o \in Outcomes :
       \/ ReplyOnly(o) \/ UploadBegins(o) \/ UploadEnds(o)
       \/ SpawnNoMemory(o) \/ SpawnOk(o)
       \/ \E how \in SpawnFailures : SpawnFails(how, o)
       \/ \E ok \in BOOLEAN : Kill(ok, o)

TimeoutCb(due) ==
  \E ping, o \in Outcomes, stalled \in BOOLEAN : Heartbeat(ping, stalled, o, due)

Next ==
  \/ Accept \/ ReadFails \/ ReadFrames \/ HandleFrame
  \/ ChildExits \/ IdleClose
  \/ \E o \in Outcomes : ProcExitCb(o) \/ \E p \in Pipes : PipeRead(p, o)
  \/ \E p \in Pipes : PipeEof(p)
  \/ \E due \in KillReasons \ {"killed"} : TimeoutCb(due)
  \/ \E x \in Handles : CloseCb(x) \/ OrphanClosed(x)

Spec == Init /\ [][Next]_vars

\* libuv runs every callback that is due, and a pipe reaches its end once no
\* process holds it.
LoopFairness ==
  /\ WF_vars(Accept) /\ WF_vars(HandleFrame)
  /\ WF_vars(\E o \in Outcomes : ProcExitCb(o))
  /\ \A p \in Pipes : WF_vars(child # "running" /\ PipeEof(p))
  /\ \A x \in Handles : WF_vars(CloseCb(x))

\* A child that does not stop reaches its timeout.  A busy connection cannot
\* keep the loop from the timer, which fires every second, or from the exit of
\* a child: each iteration serves them all.
FairSpec ==
  /\ Spec /\ LoopFairness
  /\ SF_vars(\E o \in Outcomes : ProcExitCb(o))
  /\ SF_vars(session.active /\ TimeoutCb("timeout"))
-----------------------------------------------------------------------------
(* Properties                                                              *)

\* Every variable has its type.
TypeOK ==
  /\ session \in SessionType
  /\ phase \in {"new", "up"}
  /\ batch \in 0..MaxBatch
  /\ child \in {"none", "running", "exited"}
  /\ child_id \in 0..MaxProcs
  /\ exits \in [0..MaxProcs -> KillReasons \cup {"none", "unsent"}]
  /\ blame \in KillReasons

Fault == session.fault # "none"

Held(x) == session.h[x] \in {"open", "stopped", "closing"}

Bit(b) == IF b THEN 1 ELSE 0

\* close_refs counts the handles whose close callback will release the
\* session: the timer and those of a child from the start, the connection from
\* session_close on (every session_add_ref against every close callback).
RefCountExact ==
  ~Fault /\ ~session.freed =>
    session.close_refs = Bit(Held("timer")) + Bit(session.h["tcp"] = "closing")
      + Bit(Held("process")) + Bit(Held("stdout")) + Bit(Held("stderr"))

\* maybe_free_session frees the session only when the connection and the timer
\* are closed, its child has been reaped and no close callback is due.
NotFreedEarly ==
  ~Fault /\ session.freed =>
    /\ \A x \in Handles : ~Held(x)
    /\ ~session.active /\ child = "none"

\* No sequence of handlers, timeouts and child events calls uv_close twice on
\* a handle (session_close, proc_exit_cb, proc_maybe_finalize).
NeverClosedTwice == session.fault # "double_close"

\* Until proc_exit_cb has run for a child, the session is there, has it as its
\* active process, and proc_id names it: EXIT is sent once, for the right id.
ChildTracked ==
  ~Fault /\ child # "none" =>
    /\ session.active /\ ~session.freed
    /\ session.h["process"] = "open"
    /\ session.proc_id = child_id /\ exits[child_id] = "none"

\* The reason in the EXIT of a child is the last one for which that child was
\* to be killed, and "exit" if it never was: kill_reason, one field for all the
\* children of a session, neither loses a kill nor carries it over to the next
\* child (proc_handle_kill, proc_check_timeouts, proc_reset, proc_exit_cb).
ReasonTrue == exits[child_id] \in KillReasons => exits[child_id] = blame

\* proc_spawn_common ran out of memory while a pipe of the last child was at
\* its end, and proc_reset forgot that it was: nothing will close the pipe.
Stranded == \E p \in Pipes : session.h[p] = "stopped" /\ p \notin session.eof

\* A closed session is freed in the end, with its temp file and its handles,
\* once no child of it runs (the close callbacks of session.c and proc.c bring
\* close_refs to zero in every order).
SessionFreed ==
  (session.closed /\ batch = 0 /\ child # "running") ~>
    (session.freed \/ Fault \/ Stranded)

\* While its session is open, a child with a timeout is reported by an EXIT,
\* which only a failed allocation can suppress (proc_check_timeouts,
\* uv_process_kill, proc_exit_cb).
ChildReported ==
  \A p \in 1..MaxProcs :
    (child = "running" /\ child_id = p) ~>
      (exits[p] # "none" \/ session.closed \/ Fault)
-----------------------------------------------------------------------------
(* What the documentation says.                                            *)

\* A child with a timeout does not run for ever (heartbeat_cb after
\* session_close has stopped the timer).
TimeoutEnforced == (child = "running") ~> (child # "running" \/ Fault)
=============================================================================

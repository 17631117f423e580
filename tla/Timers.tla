------------------------------- MODULE Timers -------------------------------
(***************************************************************************)
(* The timeouts of one session: the repeating timer of session.c, whose    *)
(* callback heartbeat_cb compares the clock with the times at which the    *)
(* other handlers last noted traffic, progress or output.  A time stamp is *)
(* kept as its age, now_ms minus the stamp, which is all the code reads:   *)
(* a handler that stores util_now_ms() sets the age to 0 and Tick moves    *)
(* every age.  util_now_ms is uv_hrtime, so it never goes back.            *)
(*                                                                         *)
(* What the handlers do beside their time stamps is in modules Session,    *)
(* Upload and Download.  Sends are taken to succeed here: one that fails   *)
(* or overflows closes the session, which ends what this module follows.   *)
(***************************************************************************)
EXTENDS Integers

CONSTANTS
  Period,         \* the timer's repeat, session_start_timers
  Late,           \* how late the loop may run a timer that is due
  HeartbeatIdle,  \* LUAGENT_HEARTBEAT_IDLE_MS
  SessionIdle,    \* LUAGENT_SESSION_IDLE_MS
  TransferIdle,   \* LUAGENT_TRANSFER_IDLE_MS
  Timeouts,       \* the timeout_ms a PROC_SPAWN may ask for; 0 is none
  IdleTimeouts,   \* its idle_timeout_ms; 0 is none
  MaxAge          \* bound: an age is not followed further, beyond all that is checked

ASSUME TimersAssumption ==
  /\ {Late, HeartbeatIdle, SessionIdle, TransferIdle} \subseteq Nat
  /\ Period \in Nat \ {0}
  /\ Timeouts \subseteq Nat /\ IdleTimeouts \subseteq Nat
  /\ MaxAge \in Nat
  /\ \A d \in {HeartbeatIdle, SessionIdle, TransferIdle} \cup Timeouts \cup IdleTimeouts :
       d + Period + Late < MaxAge

VARIABLES
  closed,  \* session->closed
  fired,   \* since heartbeat_cb last ran
  rx,      \* since last_rx_ms
  tx,      \* since last_tx_ms
  upload,  \* active, and the time since last_progress_ms
  proc     \* active, whether a pipe is read, the limits, the ages of
           \* started_ms and last_io_ms, and whether SIGKILL was sent

vars == <<closed, fired, rx, tx, upload, proc>>

Ages == 0 .. MaxAge

NoUpload == [active |-> FALSE, progress |-> 0]

NoProc ==
  [active |-> FALSE, piped |-> FALSE, timeout |-> 0, idle |-> 0, started |-> 0, io |-> 0,
   killed |-> FALSE]

Init ==
  /\ closed = FALSE
  /\ fired = 0 /\ rx = 0 /\ tx = 0
  /\ upload = NoUpload
  /\ proc = NoProc
-----------------------------------------------------------------------------
(* Time                                                                    *)

Older(age) == IF age < MaxAge THEN age + 1 ELSE age

\* The clock moves; a timer that is due runs at most Late after it was due.
Tick ==
  /\ ~closed
  /\ fired < Period + Late
  /\ fired' = fired + 1 /\ rx' = Older(rx) /\ tx' = Older(tx)
  /\ upload' = [upload EXCEPT !.progress = IF upload.active THEN Older(@) ELSE @]
  /\ proc' = [proc EXCEPT !.started = IF proc.active THEN Older(@) ELSE @,
                          !.io = IF proc.active THEN Older(@) ELSE @]
  /\ closed' = closed
-----------------------------------------------------------------------------
(* The handlers that note a time                                           *)

\* read_cb has bytes; reply: the frame they complete is answered.
Inbound(reply) ==
  /\ ~closed
  /\ rx' = 0
  /\ tx' = IF reply THEN 0 ELSE tx

\* Mutant: last_rx_ms is set by the handlers that start work, not by read_cb.
RequestUnnoted(reply) ==
  /\ ~closed
  /\ tx' = IF reply THEN 0 ELSE tx
  /\ UNCHANGED <<closed, fired, rx, upload, proc>>

\* Part of a frame, a PING, an OP, a frame that is refused, a whole GET.
Request(reply) ==
  /\ Inbound(reply)
  /\ UNCHANGED <<closed, fired, upload, proc>>

PutBegin ==
  /\ Inbound(TRUE)
  /\ ~upload.active
  /\ upload' = [active |-> TRUE, progress |-> 0]
  /\ UNCHANGED <<closed, fired, proc>>

PutChunk ==
  /\ Inbound(FALSE)
  /\ upload.active
  /\ upload' = [upload EXCEPT !.progress = 0]
  /\ UNCHANGED <<closed, fired, proc>>

\* PUT_END, or a chunk that is refused: the answer ends the upload.
PutEnd ==
  /\ Inbound(TRUE)
  /\ upload.active
  /\ upload' = NoUpload
  /\ UNCHANGED <<closed, fired, proc>>

Spawn(timeout, idle) ==
  /\ Inbound(TRUE)
  /\ ~proc.active
  /\ proc' = [active |-> TRUE, piped |-> TRUE, timeout |-> timeout, idle |-> idle,
              started |-> 0, io |-> 0, killed |-> FALSE]
  /\ UNCHANGED <<closed, fired, upload>>

Kill ==
  /\ Inbound(TRUE)
  /\ proc.active
  /\ proc' = [proc EXCEPT !.killed = TRUE]
  /\ UNCHANGED <<closed, fired, upload>>

\* read_cb of proc.c; a pipe may outlive the child that was given it
Output ==
  /\ ~closed
  /\ proc.piped
  /\ proc' = [proc EXCEPT !.io = 0]
  /\ tx' = 0
  /\ UNCHANGED <<closed, fired, rx, upload>>

\* proc_exit_cb; left: a pipe is still open
ProcExitCb(left) ==
  /\ ~closed
  /\ proc.active
  /\ proc' = IF left THEN [proc EXCEPT !.active = FALSE] ELSE NoProc
  /\ tx' = 0
  /\ UNCHANGED <<closed, fired, rx, upload>>

\* The last pipe of a child that has exited reaches its end: proc_reset.
PipesEnd ==
  /\ ~closed
  /\ proc.piped /\ ~proc.active
  /\ proc' = NoProc
  /\ UNCHANGED <<closed, fired, rx, tx, upload>>
-----------------------------------------------------------------------------
(* heartbeat_cb                                                            *)

Stalled == upload.active /\ upload.progress >= TransferIdle

PingDue == tx >= HeartbeatIdle

\* Mutant: the idle timeout is looked at only where there is no absolute one.
ExpiredEither ==
  /\ proc.active
  /\ IF proc.timeout > 0 THEN proc.started >= proc.timeout
                         ELSE proc.idle > 0 /\ proc.io >= proc.idle

\* proc_check_timeouts: the absolute timeout, then the idle one
Expired ==
  /\ proc.active
  /\ \/ proc.timeout > 0 /\ proc.started >= proc.timeout
     \/ proc.idle > 0 /\ proc.io >= proc.idle

\* Mutant: a PING that is due comes first, and heartbeat_cb returns.
IdleDueNoPing == rx >= SessionIdle /\ ~PingDue

IdleDue == rx >= SessionIdle

TimerFires == ~closed /\ fired >= Period /\ fired' = 0

IdleClose ==
  /\ TimerFires
  /\ IdleDue
  /\ closed' = TRUE
  /\ UNCHANGED <<rx, tx, upload, proc>>

\* PING, transfer_check_timeout and its ERROR, proc_check_timeouts
Checks ==
  /\ TimerFires
  /\ ~IdleDue
  /\ tx' = IF PingDue \/ Stalled THEN 0 ELSE tx
  /\ upload' = IF Stalled THEN NoUpload ELSE upload
  /\ proc' = [proc EXCEPT !.killed = @ \/ Expired]
  /\ UNCHANGED <<closed, rx>>

Heartbeat == IdleClose \/ Checks

ClientFrame ==
  \/ \E reply \in BOOLEAN : Request(reply)
  \/ PutBegin \/ PutChunk \/ PutEnd \/ Kill
  \/ \E timeout \in Timeouts, idle \in IdleTimeouts : Spawn(timeout, idle)

ChildEnds == PipesEnd \/ \E left \in BOOLEAN : ProcExitCb(left)

Next == Tick \/ Heartbeat \/ ClientFrame \/ Output \/ ChildEnds

Spec == Init /\ [][Next]_vars
-----------------------------------------------------------------------------
(* Properties                                                              *)

\* Every variable has its type.
TypeOK ==
  /\ closed \in BOOLEAN
  /\ fired \in 0 .. Period + Late
  /\ rx \in Ages /\ tx \in Ages
  /\ upload \in [active : BOOLEAN, progress : Ages]
  /\ proc \in [active : BOOLEAN, piped : BOOLEAN, timeout : Timeouts \cup {0},
               idle : IdleTimeouts \cup {0}, started : Ages, io : Ages, killed : BOOLEAN]

\* The time after which the timer has certainly looked at an age that has
\* reached the limit d.
Seen(d) == d + Period + Late

\* Neither side of the connection is silent for long: an open session heard
\* from its client within the session limit, and sent something within the
\* heartbeat limit, each extended by one period of the timer, however the
\* checks of heartbeat_cb and the other handlers interleave (session.c:89,
\* session.c:98).
SilenceBounded == ~closed => rx <= Seen(SessionIdle) /\ tx <= Seen(HeartbeatIdle)

\* No check of heartbeat_cb starves another: while the session is open, an
\* upload without progress, a child over its absolute timeout and a child over
\* its idle timeout are each dealt with within one period of their limit
\* (transfer.c:175, proc.c:532, proc.c:544).
WorkBounded ==
  ~closed =>
    /\ upload.active => upload.progress <= Seen(TransferIdle)
    /\ proc.active /\ ~proc.killed =>
         /\ proc.timeout > 0 => proc.started <= Seen(proc.timeout)
         /\ proc.idle > 0 => proc.io <= Seen(proc.idle)
=============================================================================

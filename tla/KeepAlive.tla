----------------------------- MODULE KeepAlive -----------------------------
(***************************************************************************)
(* The agent's timers (module Timers) and the client daemon of             *)
(* tools/client_daemon.py that holds the other end of the connection.  The *)
(* daemon's reader thread answers every PING and ends for good at the      *)
(* first exception, a receive that times out included; the threads that    *)
(* serve local commands only send requests.  What the agent sends is       *)
(* received at once, so the reader has been waiting in recv for as long as *)
(* the agent has been silent, tx; it answers a PING within Latency.        *)
(***************************************************************************)
EXTENDS Timers

CONSTANTS
  SocketTimeout,  \* timeout= of create_connection, kept by the socket
  Latency         \* bound: how long a PONG takes

ASSUME KeepAliveAssumption ==
  SocketTimeout \in Nat /\ Latency \in Nat /\ HeartbeatIdle # 0

VARIABLES
  running,  \* AgentConnection.running: the reader thread lives
  owed,     \* the age of the oldest PING not answered, or None
  unasked   \* since the agent last heard the daemon, the age of that when the
            \* agent last sent a frame on its own that is no PING; 0 if it has not

daemon == <<running, owed, unasked>>

all == <<vars, daemon>>

None == -1

KInit == Init /\ running = TRUE /\ owed = None /\ unasked = 0

\* Time passes for both ends; neither waits longer than it may.
Clock ==
  /\ Tick
  /\ running => tx < SocketTimeout /\ owed < Latency
  /\ owed' = IF running /\ owed # None THEN owed + 1 ELSE owed
  /\ UNCHANGED <<running, unasked>>

\* _reader: PONG, which the agent refuses with ERROR bad_type
Pong ==
  /\ running /\ owed # None
  /\ Request(TRUE)
  /\ owed' = None /\ unasked' = 0
  /\ running' = running

\* _reader: recv raises, and the thread ends; the socket stays open.
ReaderTimesOut ==
  /\ running /\ ~closed
  /\ tx >= SocketTimeout
  /\ running' = FALSE
  /\ UNCHANGED <<vars, owed, unasked>>

\* dispatch: request, put_file, get_file, spawn, kill.  The threads that wait
\* for an answer do not look at running.
Command ==
  /\ ClientFrame
  /\ unasked' = 0
  /\ UNCHANGED <<running, owed>>

\* heartbeat_cb; it may send the ERROR for a stalled upload and no PING
Agent ==
  /\ Heartbeat
  /\ owed' = IF ~closed' /\ PingDue /\ owed = None THEN 0 ELSE owed
  /\ unasked' = IF ~closed' /\ Stalled /\ ~PingDue THEN rx ELSE unasked
  /\ running' = running

\* Output and EXIT of the child
Child ==
  /\ \/ (Output \/ \E left \in BOOLEAN : ProcExitCb(left)) /\ unasked' = rx
     \/ PipesEnd /\ unasked' = unasked
  /\ UNCHANGED <<running, owed>>

KNext == Clock \/ Agent \/ Pong \/ ReaderTimesOut \/ Command \/ Child

KSpec == KInit /\ [][KNext]_all
-----------------------------------------------------------------------------
(* Properties                                                              *)

\* The longest the agent can be silent: its age at a tick that finds it short
\* of the limit, and the time to the next tick.
MaxSilence == HeartbeatIdle - 1 + Period + Late

\* The agent closes the session of a daemon whose reader answers its PINGs only
\* if a frame it sent on its own has put the PING off too long: the last one,
\* a child's output or EXIT or the ERROR for a stalled upload, came when less
\* than MaxSilence and Latency were left of the session limit.  With the code's
\* 15 s, 5 s and 1 s that is 9 s or more after it last heard the daemon, less
\* the delays of timer and PONG; without such a frame the session is kept
\* (session.c:89, session.c:98, client_daemon.py:113).
SessionKept == closed => ~running \/ unasked + MaxSilence + Latency >= SessionIdle

\* The daemon's connection is persistent: its reader never gives up on an
\* agent that keeps to its heartbeat (client_daemon.py:83, session.c:98).
ReaderKept == ~closed => running
=============================================================================

---------------------------- MODULE UpkeepProofs ----------------------------
(***************************************************************************)
(* Proofs about what the agent does without being asked: its timers        *)
(* (Timers, and KeepAlive for the daemon they keep connected) and its log  *)
(* (DiagLog), for every value of the constants of each.                    *)
(*                                                                         *)
(* The deadlines of module Timers hold for every choice of the limits, of  *)
(* the timer's period and of how late the event loop may be.  The bounds   *)
(* say nothing about how far the timer has come, so that they are not      *)
(* inductive; Lag is: an age that heartbeat_cb found below its limit when  *)
(* it last ran can have grown by no more than the time since then.         *)
(*                                                                         *)
(* The agent also keeps the session of a daemon that answers its PINGs,    *)
(* for every latency of a PONG.  SessionKept says nothing about open       *)
(* sessions; two facts make it inductive.  Silence: the agent's silence is *)
(* below the heartbeat limit at every tick, so within MaxSilence at any    *)
(* time.  Ahead: since the agent last heard the daemon, its own last frame *)
(* can have come later only by what a frame sent unasked accounts for;     *)
(* once a PING is out, rx grows with its age only.                         *)
(*                                                                         *)
(* OnlyOldestLost and SizeBounded are about a log between two lines.  In   *)
(* the middle of a rotation LogInv knows which name is free (Rotating),    *)
(* that the files have no gap before it (NoGaps), and that the lines of    *)
(* all files, the oldest first, have consecutive numbers (Numbered): each  *)
(* rename moves a whole file to a free name or drops the oldest one.       *)
(***************************************************************************)
EXTENDS KeepAlive, DiagLog, SumTheorems, TLAPS
-----------------------------------------------------------------------------
(* The timers                                                              *)

\* Every age is at most its limit plus the time since heartbeat_cb last ran.
Lag ==
  ~closed =>
    /\ rx <= SessionIdle + fired
    /\ tx <= HeartbeatIdle + fired
    /\ upload.active => upload.progress <= TransferIdle + fired
    /\ proc.active /\ ~proc.killed /\ proc.timeout > 0 =>
         proc.started <= proc.timeout + fired
    /\ proc.active /\ ~proc.killed /\ proc.idle > 0 =>
         proc.io <= proc.idle + fired

IInv == TypeOK /\ Lag

\* An age stays within its bound and grows by at most one (Older models the
\* clock moving under now_ms minus a stamp).
LEMMA OlderAge ==
  ASSUME NEW a \in Ages
  PROVE  Older(a) \in Ages /\ Older(a) <= a + 1
  BY TimersAssumption DEF Older, Ages

\* What the types say about the numbers the checks of heartbeat_cb compare.
LEMMA Numbers ==
  ASSUME TypeOK
  PROVE  /\ Late \in Nat /\ Period \in Nat /\ HeartbeatIdle \in Nat
         /\ SessionIdle \in Nat /\ TransferIdle \in Nat
         /\ fired \in Nat /\ fired <= Period + Late
         /\ rx \in Nat /\ tx \in Nat /\ upload.progress \in Nat
         /\ proc.started \in Nat /\ proc.io \in Nat
         /\ proc.timeout \in Nat /\ proc.idle \in Nat
<1>1. /\ Late \in Nat /\ Period \in Nat /\ HeartbeatIdle \in Nat
      /\ SessionIdle \in Nat /\ TransferIdle \in Nat
  BY TimersAssumption
<1>2. fired \in Nat /\ fired <= Period + Late
  BY <1>1 DEF TypeOK
<1>3. Ages \subseteq Nat
  BY TimersAssumption DEF Ages
<1>4. /\ rx \in Nat /\ tx \in Nat /\ upload.progress \in Nat
      /\ proc.started \in Nat /\ proc.io \in Nat
  BY <1>3, Zenon DEF TypeOK
<1>5. Timeouts \cup {0} \subseteq Nat /\ IdleTimeouts \cup {0} \subseteq Nat
  BY TimersAssumption
<1>6. proc.timeout \in Nat /\ proc.idle \in Nat
  <2>1. proc.timeout \in Timeouts \cup {0} /\ proc.idle \in IdleTimeouts \cup {0}
    BY DEF TypeOK
  <2> QED BY <1>5, <2>1
<1> QED BY <1>1, <1>2, <1>4, <1>6

\* The state after session_init and session_start_timers satisfies the
\* invariant.
LEMMA InitIInv == Init => IInv
<1> SUFFICES ASSUME Init PROVE TypeOK /\ Lag
  BY DEF IInv
<1>1. 0 \in Ages /\ 0 \in 0 .. Period + Late
  BY TimersAssumption DEF Ages
<1>2. TypeOK
  BY <1>1, Zenon DEF Init, TypeOK, NoUpload, NoProc
<1>3. Lag
  BY TimersAssumption, SMTT(30) DEF Init, Lag, NoUpload, NoProc
<1> QED BY <1>2, <1>3

\* Every handler, every callback and the clock keep every variable in its type.
LEMMA NextTypeOK == TypeOK /\ [Next]_vars => TypeOK'
<1> SUFFICES ASSUME TypeOK, [Next]_vars PROVE TypeOK'
  OBVIOUS
<1> USE TimersAssumption DEF TypeOK
<1>0. 0 \in Ages
  BY DEF Ages
<1>1. CASE Tick
  <2>1. fired' \in 0 .. Period + Late
    BY <1>1 DEF Tick
  <2>2. rx' \in Ages /\ tx' \in Ages /\ closed' \in BOOLEAN
    BY <1>1, OlderAge DEF Tick
  <2>3. upload' \in [active : BOOLEAN, progress : Ages]
    BY <1>1, OlderAge DEF Tick
  <2>4. /\ (IF proc.active THEN Older(proc.started) ELSE proc.started) \in Ages
        /\ (IF proc.active THEN Older(proc.io) ELSE proc.io) \in Ages
    BY OlderAge
  <2>5. proc' \in [active : BOOLEAN, piped : BOOLEAN, timeout : Timeouts \cup {0},
                   idle : IdleTimeouts \cup {0}, started : Ages, io : Ages, killed : BOOLEAN]
    BY <1>1, <2>4, Zenon DEF Tick
  <2> QED BY <2>1, <2>2, <2>3, <2>5
<1>2. CASE IdleClose
  BY <1>2 DEF IdleClose, TimerFires
<1>3. CASE Checks
  <2>1. (proc.killed \/ Expired) \in BOOLEAN
    BY DEF Expired
  <2>2. fired' \in 0 .. Period + Late /\ rx' \in Ages /\ tx' \in Ages /\ closed' \in BOOLEAN
    BY <1>0, <1>3 DEF Checks, TimerFires
  <2>3. upload' \in [active : BOOLEAN, progress : Ages]
    BY <1>0, <1>3 DEF Checks, NoUpload
  <2>4. proc' \in [active : BOOLEAN, piped : BOOLEAN, timeout : Timeouts \cup {0},
                   idle : IdleTimeouts \cup {0}, started : Ages, io : Ages, killed : BOOLEAN]
    BY <1>3, <2>1, Zenon DEF Checks
  <2> QED BY <2>2, <2>3, <2>4
<1>4. CASE ClientFrame
  <2>1. ASSUME NEW reply \in BOOLEAN, Request(reply) PROVE TypeOK'
    BY <1>0, <2>1 DEF Request, Inbound
  <2>2. CASE PutBegin
    BY <1>0, <2>2 DEF PutBegin, Inbound
  <2>3. CASE PutChunk
    BY <1>0, <2>3 DEF PutChunk, Inbound
  <2>4. CASE PutEnd
    BY <1>0, <2>4 DEF PutEnd, Inbound, NoUpload
  <2>5. CASE Kill
    BY <1>0, <2>5, Zenon DEF Kill, Inbound
  <2>6. ASSUME NEW timeout \in Timeouts, NEW idle \in IdleTimeouts, Spawn(timeout, idle)
        PROVE  TypeOK'
    BY <1>0, <2>6 DEF Spawn, Inbound
  <2> QED BY <1>4, <2>1, <2>2, <2>3, <2>4, <2>5, <2>6, SMTT(30) DEF ClientFrame
<1>5. CASE Output
  BY <1>0, <1>5 DEF Output
<1>6. CASE ChildEnds
  <2>1. ASSUME NEW left \in BOOLEAN, ProcExitCb(left) PROVE TypeOK'
    BY <1>0, <2>1, Zenon DEF ProcExitCb, NoProc
  <2>2. CASE PipesEnd
    BY <1>0, <2>2 DEF PipesEnd, NoProc
  <2> QED BY <1>6, <2>1, <2>2 DEF ChildEnds
<1>7. CASE UNCHANGED vars
  BY <1>7 DEF vars
<1> QED BY <1>1, <1>2, <1>3, <1>4, <1>5, <1>6, <1>7 DEF Next, Heartbeat

\* Every handler, every callback and the clock keep the ages behind the timer:
\* a handler only resets an age, the clock moves the timer as well, and
\* heartbeat_cb deals with whatever has reached its limit.
LEMMA NextLag == IInv /\ [Next]_vars => Lag'
<1> SUFFICES ASSUME TypeOK, Lag, [Next]_vars PROVE Lag'
  BY DEF IInv
<1>0. /\ Late \in Nat /\ Period \in Nat /\ HeartbeatIdle \in Nat
      /\ SessionIdle \in Nat /\ TransferIdle \in Nat
      /\ fired \in Nat
      /\ rx \in Nat /\ tx \in Nat /\ upload.progress \in Nat
      /\ proc.started \in Nat /\ proc.io \in Nat
      /\ proc.timeout \in Nat /\ proc.idle \in Nat
  BY Numbers
<1>a. Ages \subseteq Nat
  BY TimersAssumption DEF Ages
<1>1. CASE Tick
  <2>1. /\ fired' = fired + 1 /\ ~closed /\ closed' = closed
        /\ rx' \in Nat /\ rx' <= rx + 1
        /\ tx' \in Nat /\ tx' <= tx + 1
    BY <1>0, <1>1, <1>a, OlderAge DEF Tick, TypeOK
  <2>2. /\ upload'.active => upload.active
        /\ upload'.progress \in Nat /\ upload'.progress <= upload.progress + 1
    BY <1>0, <1>1, <1>a, OlderAge DEF Tick, TypeOK
  <2>3. /\ proc'.active => proc.active
        /\ proc.killed => proc'.killed
        /\ proc'.timeout = proc.timeout /\ proc'.idle = proc.idle
    BY <1>1 DEF Tick, TypeOK
  <2>4. /\ proc'.started \in Nat /\ proc'.started <= proc.started + 1
        /\ proc'.io \in Nat /\ proc'.io <= proc.io + 1
    BY <1>0, <1>1, <1>a, OlderAge DEF Tick, TypeOK
  <2> QED BY <1>0, <2>1, <2>2, <2>3, <2>4 DEF Lag
<1>2. CASE IdleClose
  BY <1>2 DEF IdleClose, Lag
<1>3. CASE Checks
  BY <1>0, <1>3, SMTT(30) DEF Checks, IdleDue, TimerFires, Lag, TypeOK, PingDue, Stalled, Expired, NoUpload
<1>4. CASE ClientFrame
  <2>1. ASSUME NEW reply \in BOOLEAN, Request(reply) PROVE Lag'
    BY <1>0, <2>1 DEF Request, Inbound, Lag
  <2>2. CASE PutBegin
    BY <1>0, <2>2 DEF PutBegin, Inbound, Lag
  <2>3. CASE PutChunk
    BY <1>0, <2>3 DEF PutChunk, Inbound, Lag, TypeOK
  <2>4. CASE PutEnd
    BY <1>0, <2>4 DEF PutEnd, Inbound, Lag, NoUpload
  <2>5. CASE Kill
    BY <1>0, <2>5, SMTT(30) DEF Kill, Inbound, Lag, TypeOK
  <2>6. ASSUME NEW timeout \in Timeouts, NEW idle \in IdleTimeouts, Spawn(timeout, idle)
        PROVE  Lag'
    BY <1>0, <2>6, TimersAssumption DEF Spawn, Inbound, Lag
  <2> QED BY <1>4, <2>1, <2>2, <2>3, <2>4, <2>5, <2>6, SMTT(30) DEF ClientFrame
<1>5. CASE Output
  BY <1>0, <1>5 DEF Output, Lag, TypeOK
<1>6. CASE ChildEnds
  <2>1. ASSUME NEW left \in BOOLEAN, ProcExitCb(left) PROVE Lag'
    BY <1>0, <2>1, SMTT(30) DEF ProcExitCb, NoProc, Lag, TypeOK
  <2>2. CASE PipesEnd
    BY <1>0, <2>2 DEF PipesEnd, NoProc, Lag
  <2> QED BY <1>6, <2>1, <2>2 DEF ChildEnds
<1>7. CASE UNCHANGED vars
  BY <1>7 DEF vars, Lag
<1> QED BY <1>1, <1>2, <1>3, <1>4, <1>5, <1>6, <1>7 DEF Next, Heartbeat

\* The inductive invariant holds in every reachable state of the timers.
THEOREM Invariance == Spec => []IInv
<1>1. IInv /\ [Next]_vars => IInv'
  BY NextTypeOK, NextLag DEF IInv
<1> QED BY <1>1, InitIInv, PTL DEF Spec

\* Every variable of the timers keeps its type.
THEOREM TypeCorrect == Spec => []TypeOK
<1>1. IInv => TypeOK
  BY DEF IInv
<1> QED BY <1>1, Invariance, PTL

\* heartbeat_cb notices the silence of either side within one period of its
\* limit, for all limits, periods and delays of the loop.
THEOREM SilenceNoticed == Spec => []SilenceBounded
<1>1. IInv => SilenceBounded
  BY TimersAssumption DEF IInv, TypeOK, Lag, SilenceBounded, Seen, Ages
<1> QED BY <1>1, Invariance, PTL

\* heartbeat_cb deals with a stalled upload and with a child over either of
\* its timeouts within one period of the limit: no check starves another.
THEOREM WorkNoticed == Spec => []WorkBounded
<1>1. ASSUME IInv PROVE WorkBounded
  <2>1. /\ Late \in Nat /\ Period \in Nat /\ TransferIdle \in Nat
        /\ fired \in Nat /\ fired <= Period + Late
        /\ upload.progress \in Nat /\ proc.started \in Nat /\ proc.io \in Nat
        /\ proc.timeout \in Nat /\ proc.idle \in Nat
    BY <1>1, Numbers DEF IInv
  <2> QED BY <1>1, <2>1 DEF IInv, Lag, WorkBounded, Seen
<1> QED BY <1>1, Invariance, PTL
-----------------------------------------------------------------------------
(* The timers and the daemon                                               *)

Silence == ~closed => tx <= HeartbeatIdle - 1 + fired

Ahead ==
  ~closed /\ running =>
    IF owed = None THEN rx <= tx + unasked
    ELSE rx <= unasked + MaxSilence + owed

KTypeOK == running \in BOOLEAN /\ unasked \in Ages /\ owed \in 0..Latency \cup {None}

KInv == KTypeOK /\ Silence /\ Ahead /\ SessionKept

\* The daemon takes the agent through steps of module Timers only, so the
\* invariant of the timers holds beside it.
LEMMA KStep == KNext => [Next]_vars
  BY Zenon DEF KNext, Clock, Agent, Pong, ReaderTimesOut, Command, Child, ChildEnds, Next, ClientFrame

\* The composition with the daemon implements the timers: the daemon only
\* restricts when a frame comes, and what is proved of the timers above holds of
\* an agent with this client.
THEOREM TimersImplemented == KSpec => Spec
<1>1. KInit => Init
  BY DEF KInit
<1>2. [KNext]_all => [Next]_vars
  BY KStep DEF all
<1> QED BY <1>1, <1>2, PTL DEF KSpec, Spec

\* The invariant of the timers holds in the composition.
LEMMA TimersInvariant == KSpec => []IInv
BY TimersImplemented, Invariance, PTL

\* The numbers the argument computes with.
LEMMA KNumbers ==
  ASSUME TypeOK, KTypeOK
  PROVE  /\ Late \in Nat /\ Period \in Nat /\ HeartbeatIdle \in Nat /\ HeartbeatIdle > 0
         /\ SessionIdle \in Nat /\ Latency \in Nat /\ MaxAge \in Nat
         /\ HeartbeatIdle + Period + Late <= MaxAge
         /\ fired \in Nat /\ fired <= Period + Late
         /\ rx \in Nat /\ tx \in Nat /\ unasked \in Nat
         /\ MaxSilence \in Nat /\ HeartbeatIdle - 1 \in Nat
         /\ owed # None => owed \in Nat /\ owed <= Latency
<1>1. /\ Late \in Nat /\ Period \in Nat /\ HeartbeatIdle \in Nat /\ HeartbeatIdle > 0
      /\ SessionIdle \in Nat /\ Latency \in Nat /\ MaxAge \in Nat
      /\ HeartbeatIdle + Period + Late <= MaxAge
  BY TimersAssumption, KeepAliveAssumption, SMTT(30)
<1>2. fired \in Nat /\ fired <= Period + Late /\ rx \in Nat /\ tx \in Nat
  BY Numbers, SMTT(30)
<1>3. MaxSilence \in Nat /\ HeartbeatIdle - 1 \in Nat
  BY <1>1, SMTT(30) DEF MaxSilence
<1>4. unasked \in Nat
  BY <1>1, SMTT(30) DEF KTypeOK, Ages
<1>5. owed # None => owed \in Nat /\ owed <= Latency
  BY <1>1, SMTT(30) DEF KTypeOK
<1> QED BY <1>1, <1>2, <1>3, <1>4, <1>5, SMTT(30)

\* The connection as it is made satisfies the invariant.
LEMMA KInitInv == KInit => KInv
<1> SUFFICES ASSUME KInit PROVE KInv
  OBVIOUS
<1>1. TypeOK
  BY InitIInv DEF KInit, IInv
<1>2. KTypeOK
  BY TimersAssumption, SMTT(30) DEF KInit, KTypeOK, Ages
<1> QED BY <1>1, <1>2, KNumbers, SMTT(30) DEF KInv, KInit, Init, Silence, Ahead, SessionKept

\* The variables of the daemon keep their types: a PONG is never later than
\* Latency.
LEMMA KNextTypeOK == TypeOK /\ KTypeOK /\ [KNext]_all => KTypeOK'
<1> SUFFICES ASSUME TypeOK, KTypeOK, [KNext]_all PROVE KTypeOK'
  OBVIOUS
<1>0. Latency \in Nat /\ 0 \in Ages /\ rx \in Ages /\ unasked \in Ages /\ running \in BOOLEAN
  BY KeepAliveAssumption, TimersAssumption, SMTT(30) DEF TypeOK, KTypeOK, Ages
<1>1. running' \in BOOLEAN
  BY <1>0, ZenonT(60) DEF KNext, Clock, Agent, Pong, ReaderTimesOut, Command, Child, all, daemon
<1>2. unasked' \in Ages
  BY <1>0, ZenonT(60) DEF KNext, Clock, Agent, Pong, ReaderTimesOut, Command, Child, all, daemon
<1>3. owed' \in 0..Latency \cup {None}
  <2>1. CASE Clock
    BY <1>0, <2>1, SMTT(30) DEF Clock, KTypeOK, None
  <2>2. CASE Agent
    BY <1>0, <2>2, SMTT(30) DEF Agent, KTypeOK
  <2>3. CASE Pong \/ ReaderTimesOut \/ Command \/ Child \/ UNCHANGED all
    BY <2>3, ZenonT(60) DEF Pong, ReaderTimesOut, Command, Child, all, daemon, KTypeOK
  <2> QED BY <2>1, <2>2, <2>3, Zenon DEF KNext
<1> QED BY <1>1, <1>2, <1>3, Zenon DEF KTypeOK

\* heartbeat_cb leaves no silence of the heartbeat limit behind.
LEMMA NextSilence == TypeOK /\ KTypeOK /\ Silence /\ [Next]_vars => Silence'
<1> SUFFICES ASSUME TypeOK, KTypeOK, Silence, [Next]_vars PROVE Silence'
  OBVIOUS
<1>0. /\ Late \in Nat /\ Period \in Nat /\ HeartbeatIdle \in Nat /\ HeartbeatIdle > 0
      /\ fired \in Nat /\ tx \in Nat
  BY KNumbers
<1>1. CASE Tick
  <2>1. tx' \in Int /\ tx' <= tx + 1 /\ fired' = fired + 1 /\ ~closed
    BY <1>0, <1>1, OlderAge, SMTT(30) DEF Tick, TypeOK, Ages
  <2> QED BY <1>0, <2>1, SMTT(30) DEF Silence
<1>2. CASE IdleClose
  BY <1>2, SMTT(30) DEF IdleClose, Silence
<1>3. CASE Checks
  BY <1>0, <1>3, SMTT(30) DEF Checks, TimerFires, PingDue, Silence
<1>4. CASE tx' \in {0, tx} /\ fired' = fired /\ closed' = closed
  BY <1>0, <1>4, SMTT(30) DEF Silence
<1>5. Output \/ ChildEnds \/ ClientFrame => tx' \in {0, tx} /\ fired' = fired /\ closed' = closed
  BY SMTT(30) DEF Output, ChildEnds, PipesEnd, ProcExitCb, ClientFrame, Request, PutBegin, PutChunk,
         PutEnd, Kill, Spawn, Inbound
<1>6. UNCHANGED vars => tx' \in {0, tx} /\ fired' = fired /\ closed' = closed
  BY SMTT(30) DEF vars
<1> QED BY <1>1, <1>2, <1>3, <1>4, <1>5, <1>6, SMTT(30) DEF Next, Heartbeat

\* As long as the daemon answers, the agent's last frame is not later than the
\* one it sent unasked: the clock moves both ages, a frame of the daemon resets
\* rx, and a frame sent unasked records how old rx is.
LEMMA NextAhead ==
  TypeOK /\ KTypeOK /\ Silence /\ Ahead /\ [KNext]_all => Ahead'
<1> SUFFICES ASSUME TypeOK, KTypeOK, Silence, Ahead, [KNext]_all, ~closed', running'
             PROVE  IF owed' = None THEN rx' <= tx' + unasked'
                    ELSE rx' <= unasked' + MaxSilence + owed'
  BY DEF Ahead
<1>0. /\ Late \in Nat /\ Period \in Nat /\ HeartbeatIdle \in Nat /\ HeartbeatIdle > 0
      /\ HeartbeatIdle + Period + Late <= MaxAge /\ MaxAge \in Nat
      /\ fired \in Nat /\ fired <= Period + Late
      /\ rx \in Nat /\ tx \in Nat /\ unasked \in Nat /\ MaxSilence \in Nat
      /\ owed # None => owed \in Nat
  BY KNumbers, SMTT(30)
<1>a. TypeOK' /\ KTypeOK'
  BY NextTypeOK, KNextTypeOK, KStep, SMTT(30) DEF all
<1>b. /\ rx' \in Nat /\ tx' \in Nat /\ unasked' \in Nat
      /\ owed' # None => owed' \in Nat
  <2>1. Ages \subseteq Nat
    BY TimersAssumption, SMTT(30) DEF Ages
  <2> QED BY <1>a, <2>1, KeepAliveAssumption, SMTT(30) DEF TypeOK, KTypeOK
<1>c. ~closed => tx <= MaxSilence
  BY <1>0, SMTT(30) DEF Silence, MaxSilence
<1>e. ASSUME rx' <= unasked'
      PROVE  IF owed' = None THEN rx' <= tx' + unasked'
             ELSE rx' <= unasked' + MaxSilence + owed'
  <2>1. \A a, b, c, d \in Nat : a <= c => a <= b + c /\ a <= c + d + b
    BY SMTT(30)
  <2> QED BY <1>0, <1>b, <1>e, <2>1, ZenonT(60)
<1>1. CASE Clock
  <2>1. ~closed /\ running /\ unasked' = unasked
    BY <1>1, Zenon DEF Clock, Tick
  <2>2. tx' = tx + 1 /\ rx' <= rx + 1
    BY <1>0, <1>1, <1>c, <2>1, SMTT(30) DEF Clock, Tick, Older, Silence
  <2>4. owed' = IF owed # None THEN owed + 1 ELSE owed
    BY <1>1, <2>1, SMTT(30) DEF Clock
  <2> QED BY <1>0, <1>b, <2>1, <2>2, <2>4, SMTT(30) DEF Ahead, None
<1>2. CASE Agent
  <2>1. ~closed /\ running /\ Checks
    BY <1>2, Zenon DEF Agent, Heartbeat, IdleClose, Checks, TimerFires
  <2>2. rx' = rx
    BY <2>1, Zenon DEF Checks
  <2>3. CASE Stalled /\ ~PingDue
    BY <1>0, <1>2, <1>e, <2>1, <2>2, <2>3, SMTT(30) DEF Agent
  <2>4. CASE ~(Stalled /\ ~PingDue) /\ owed # None
    BY <1>0, <1>2, <2>1, <2>2, <2>4, SMTT(30) DEF Ahead, Agent
  <2>5. CASE PingDue /\ owed = None
    <3>1. owed' = 0 /\ unasked' = unasked /\ rx <= tx + unasked
      BY <1>2, <2>1, <2>5, SMTT(30) DEF Agent, Ahead
    <3> QED BY <1>0, <1>c, <2>1, <2>2, <3>1, SMTT(30) DEF None
  <2>6. CASE ~Stalled /\ ~PingDue /\ owed = None
    <3>1. owed' = None /\ unasked' = unasked /\ rx <= tx + unasked /\ tx' = tx
      BY <1>2, <2>1, <2>6, SMTT(30) DEF Agent, Ahead, Checks
    <3> QED BY <2>2, <3>1, SMTT(30)
  <2> QED BY <2>3, <2>4, <2>5, <2>6, Zenon
<1>3. CASE Pong \/ Command
  <2>1. rx' = 0 /\ unasked' = 0
    BY <1>3, ZenonT(60) DEF Pong, Command, ClientFrame, Request, PutBegin, PutChunk, PutEnd, Kill,
       Spawn, Inbound
  <2> QED BY <1>e, <2>1, SMTT(30)
<1>4. CASE ReaderTimesOut
  BY <1>4, Zenon DEF ReaderTimesOut
<1>5. CASE Child
  <2>1. ~closed /\ running /\ owed' = owed /\ rx' = rx
    BY <1>5, ZenonT(60) DEF Child, Output, PipesEnd, ProcExitCb
  <2>2. CASE unasked' = rx
    BY <1>0, <1>e, <2>1, <2>2, SMTT(30)
  <2>3. CASE PipesEnd /\ unasked' = unasked
    BY <2>1, <2>3, SMTT(30) DEF PipesEnd, Ahead
  <2> QED BY <1>5, <2>2, <2>3, Zenon DEF Child
<1>6. CASE UNCHANGED all
  BY <1>6, SMTT(30) DEF all, vars, daemon, Ahead
<1> QED BY <1>1, <1>2, <1>3, <1>4, <1>5, <1>6, Zenon DEF KNext

\* IdleClose does not close the session of a daemon that answers, unless a
\* frame sent unasked accounts for it.
LEMMA NextKept ==
  TypeOK /\ KTypeOK /\ Silence /\ Ahead /\ SessionKept /\ [KNext]_all => SessionKept'
<1> SUFFICES ASSUME TypeOK, KTypeOK, Silence, Ahead, SessionKept, [KNext]_all, closed'
             PROVE  ~running' \/ unasked' + MaxSilence + Latency >= SessionIdle
  BY SMTT(30) DEF SessionKept, MaxSilence
<1>1. CASE closed
  <2>1. running' = running /\ unasked' = unasked
    BY <1>1, ZenonT(60) DEF KNext, Clock, Tick, Agent, Heartbeat, IdleClose, Checks, TimerFires, Pong,
       Request, Inbound, ReaderTimesOut, Command, ClientFrame, PutBegin, PutChunk, PutEnd, Kill,
       Spawn, Child, Output, PipesEnd, ProcExitCb, all, daemon
  <2> QED BY <1>1, <2>1, SMTT(30) DEF SessionKept
<1>2. CASE ~closed
  <2>1. Agent /\ IdleDue
    BY <1>2, ZenonT(60) DEF KNext, Clock, Tick, Agent, Heartbeat, IdleClose, Checks, TimerFires, Pong,
       Request, Inbound, ReaderTimesOut, Command, ClientFrame, PutBegin, PutChunk, PutEnd, Kill,
       Spawn, Child, Output, PipesEnd, ProcExitCb, all, vars
  <2>2. running' = running /\ unasked' = unasked
    BY <2>1, Zenon DEF Agent
  <2>3. /\ Late \in Nat /\ Period \in Nat /\ HeartbeatIdle \in Nat
        /\ SessionIdle \in Nat /\ Latency \in Nat
        /\ fired \in Nat /\ fired <= Period + Late
        /\ rx \in Nat /\ tx \in Nat /\ unasked \in Nat /\ MaxSilence \in Nat
        /\ owed # None => owed \in Nat /\ owed <= Latency
    BY KNumbers, SMTT(30)
  <2>4. tx <= MaxSilence
    BY <1>2, <2>3, SMTT(30) DEF Silence, MaxSilence
  <2>5. running => rx <= unasked + MaxSilence + Latency
    BY <1>2, <2>3, <2>4, SMTT(30) DEF Ahead
  <2>6. ~running \/ unasked + MaxSilence + Latency >= SessionIdle
    BY <2>1, <2>3, <2>5, SMTT(30) DEF IdleDue
  <2> QED BY <2>2, <2>6, SMTT(30)
<1> QED BY <1>1, <1>2, Zenon

\* The agent keeps the session of a daemon that answers its PINGs, unless a
\* frame sent unasked put the PING off too long, for all limits, periods,
\* delays and latencies (heartbeat_cb against _reader).
THEOREM DaemonKept == KSpec => []SessionKept
<1>1. KInit => KInv
  BY KInitInv
<1>2. IInv /\ KInv /\ [KNext]_all => KInv'
  <2> SUFFICES ASSUME IInv, KInv, [KNext]_all PROVE KInv'
    OBVIOUS
  <2>1. [Next]_vars
    BY KStep, Zenon DEF all
  <2> QED BY <2>1, KNextTypeOK, NextSilence, NextAhead, NextKept, ZenonT(30) DEF KInv, IInv
<1>3. KInv => SessionKept
  BY Zenon DEF KInv
<1> QED BY <1>1, <1>2, <1>3, TimersInvariant, PTL DEF KSpec
-----------------------------------------------------------------------------
(* The log file: the lines of all files, oldest first, as a function of    *)
(* the disk, and what renaming and writing do to it                        *)

\* A line has a number and a length.
Line == Nat \X Nat

Disks == [Names -> Seq(Line)]

\* f[n] is what the files .Keep down to .n hold, the oldest line first.
IsUpTo(f, d) == f = [n \in Names |-> IF n = Keep THEN d[n] ELSE f[n + 1] \o d[n]]

\* One file after another is a sequence of lines, whichever are put together first.
LEMMA Associative ==
  \A a, b, c \in Seq(Line) : (a \o b) \o c = a \o (b \o c)
BY SMTT(30)

\* The empty file adds nothing.
LEMMA Neutral ==
  \A a \in Seq(Line) : a \o <<>> = a /\ <<>> \o a = a
OBVIOUS

\* A line written at the end of the last of two files
LEMMA AppendLast ==
  \A a, b \in Seq(Line), x \in Line : Append(a \o b, x) = a \o Append(b, x)
BY SMTT(30)

\* Such a function exists, by induction on the number of files.
LEMMA UpToExists ==
  ASSUME NEW d \in Disks
  PROVE  \E f \in Disks : IsUpTo(f, d)
<1> DEFINE D(m) == (Keep - m)..Keep
           P(m) == m <= Keep => \E f \in [D(m) -> Seq(Line)] :
                     f = [n \in D(m) |-> IF n = Keep THEN d[n] ELSE f[n + 1] \o d[n]]
           S == {m \in Nat : P(m)}
<1>1. Keep \in Nat \ {0}
  BY LogAssumption
<1>2. P(0)
  <2> DEFINE f == [n \in D(0) |-> d[n]]
  <2>1. f \in [D(0) -> Seq(Line)] /\ \A n \in D(0) : n = Keep
    BY <1>1 DEF Disks, Names
  <2>2. f = [n \in D(0) |-> IF n = Keep THEN d[n] ELSE f[n + 1] \o d[n]]
    BY <2>1
  <2>3. QED
    BY <2>1, <2>2, Zenon
<1>3. ASSUME NEW m \in Nat, P(m)
      PROVE  P(m + 1)
  <2>1. SUFFICES ASSUME m + 1 <= Keep
                 PROVE  \E g \in [D(m + 1) -> Seq(Line)] :
                     g = [n \in D(m + 1) |-> IF n = Keep THEN d[n] ELSE g[n + 1] \o d[n]]
    BY Zenon
  <2>2. m <= Keep
    BY <1>1, <2>1
  <2>3. PICK f \in [D(m) -> Seq(Line)] :
               f = [n \in D(m) |-> IF n = Keep THEN d[n] ELSE f[n + 1] \o d[n]]
    BY <1>3, <2>2, ZenonT(60)
  <2> DEFINE g == [n \in D(m + 1) |-> IF n = Keep - (m + 1) THEN f[n + 1] \o d[n] ELSE f[n]]
  <2>4. /\ \A n \in D(m + 1) : n \in Names /\ d[n] \in Seq(Line)
        /\ \A n \in D(m + 1) : n = Keep - (m + 1) => n + 1 \in D(m) /\ n # Keep
        /\ \A n \in D(m + 1) : n # Keep - (m + 1) => n \in D(m)
        /\ \A n \in D(m) :
             n # Keep => n + 1 \in D(m) /\ n + 1 \in D(m + 1) /\ n + 1 # Keep - (m + 1)
        /\ \A n \in D(m) : n \in D(m + 1) /\ n # Keep - (m + 1)
    BY <1>1, <2>1, SMTT(30) DEF Disks, Names
  <2> HIDE DEF D
  <2>5. \A n \in D(m + 1) : g[n] \in Seq(Line)
    BY <2>4
  <2>6. ASSUME NEW n \in D(m + 1)
        PROVE  g[n] = IF n = Keep THEN d[n] ELSE g[n + 1] \o d[n]
    <3>1. CASE n = Keep - (m + 1)
      BY <2>4, <3>1, Zenon
    <3>2. CASE n # Keep - (m + 1)
      <4>1. n \in D(m) /\ g[n] = f[n]
        BY <2>4, <3>2, SMTT(30)
      <4>2. n # Keep => g[n + 1] = f[n + 1]
        BY <2>4, <4>1
      <4>3. f[n] = IF n = Keep THEN d[n] ELSE f[n + 1] \o d[n]
        BY <2>3, <4>1, Zenon
      <4>4. QED
        BY <4>1, <4>2, <4>3, ZenonT(60)
    <3>3. QED
      BY <3>1, <3>2, Zenon
  <2>7. g \in [D(m + 1) -> Seq(Line)] /\ DOMAIN g = D(m + 1)
    BY <2>5
  <2> HIDE DEF g
  <2>8. g = [n \in D(m + 1) |-> IF n = Keep THEN d[n] ELSE g[n + 1] \o d[n]]
    BY <2>6, <2>7, Zenon
  <2>9. QED
    BY <2>7, <2>8, Zenon
<1> HIDE DEF P
<1>4. S \in SUBSET Nat /\ 0 \in S /\ \A m \in S : m + 1 \in S
  BY <1>2, <1>3
<1> HIDE DEF S
<1>5. S = Nat
  BY <1>4, SetInduction, Zenon
<1>6. P(Keep)
  BY <1>1, <1>5 DEF S
<1>7. D(Keep) = Names /\ Keep <= Keep
  BY <1>1 DEF Names
<1> HIDE DEF D
<1>8. QED
  BY <1>6, <1>7 DEF P, Disks, IsUpTo

\* Two such functions agree, so that Kept is the value of any.
LEMMA KeptIs ==
  ASSUME NEW d \in Disks, NEW f, IsUpTo(f, d)
  PROVE  KeptOf(d) = f[0]
<1> DEFINE g == CHOOSE h : IsUpTo(h, d)
<1>1. Keep \in Nat \ {0}
  BY LogAssumption
<1>2. IsUpTo(g, d)
  BY UpToExists, Zenon
<1>3. KeptOf(d) = g[0]
  BY DEF KeptOf, IsUpTo
<1> HIDE DEF g
<1> DEFINE P(m) == m <= Keep => f[Keep - m] = g[Keep - m]
           S == {m \in Nat : P(m)}
<1>4. P(0)
  BY <1>1, <1>2 DEF IsUpTo, Names
<1>5. ASSUME NEW m \in Nat, P(m)
      PROVE  P(m + 1)
  <2>1. SUFFICES ASSUME m + 1 <= Keep
                 PROVE  f[Keep - (m + 1)] = g[Keep - (m + 1)]
    OBVIOUS
  <2> DEFINE n == Keep - (m + 1)
  <2>2. n \in Names /\ n # Keep /\ n + 1 = Keep - m /\ m <= Keep
    BY <1>1, <2>1 DEF Names
  <2> HIDE DEF n
  <2>3. f[n] = f[n + 1] \o d[n] /\ g[n] = g[n + 1] \o d[n]
    BY <1>2, <2>2, Zenon DEF IsUpTo
  <2>4. QED
    BY <1>5, <2>2, <2>3, Zenon DEF n
<1> HIDE DEF P
<1>6. S \in SUBSET Nat /\ 0 \in S /\ \A m \in S : m + 1 \in S
  BY <1>4, <1>5
<1> HIDE DEF S
<1>7. S = Nat
  BY <1>6, SetInduction, Zenon
<1>8. P(Keep) /\ Keep <= Keep /\ Keep - Keep = 0
  BY <1>1, <1>7 DEF S
<1>9. QED
  BY <1>3, <1>8, Zenon DEF P

\* What is kept, by what the files down to each name hold.
LEMMA KeptBy ==
  ASSUME NEW d \in Disks
  PROVE  \E f \in Disks :
           /\ KeptOf(d) = f[0]
           /\ f[Keep] = d[Keep]
           /\ \A n \in Names \ {Keep} : f[n] = f[n + 1] \o d[n]
<1>1. PICK f \in Disks : IsUpTo(f, d)
  BY UpToExists, Zenon
<1>2. KeptOf(d) = f[0]
  BY <1>1, KeptIs, Zenon
<1>3. Keep \in Names
  BY LogAssumption DEF Names
<1>4. f[Keep] = d[Keep] /\ \A n \in Names \ {Keep} : f[n] = f[n + 1] \o d[n]
  BY <1>1, <1>3, Zenon DEF IsUpTo
<1>5. QED
  BY <1>2, <1>4, Zenon

\* The converse.
LEMMA KeptFrom ==
  ASSUME NEW d \in Disks, NEW f \in Disks, f[Keep] = d[Keep],
         \A n \in Names \ {Keep} : f[n] = f[n + 1] \o d[n]
  PROVE  KeptOf(d) = f[0]
<1>1. DOMAIN f = Names
  BY DEF Disks
<1>2. \A n \in Names : f[n] = IF n = Keep THEN d[n] ELSE f[n + 1] \o d[n]
  BY Zenon
<1>3. f = [n \in Names |-> f[n]]
  BY DEF Disks
<1>4. IsUpTo(f, d)
  BY <1>2, <1>3, Zenon DEF IsUpTo
<1>5. QED
  BY <1>4, KeptIs, Zenon

\* A line written to the log comes last.
LEMMA KeptAppend ==
  ASSUME NEW d \in Disks, NEW x \in Line
  PROVE  /\ [d EXCEPT ![0] = Append(@, x)] \in Disks
         /\ KeptOf([d EXCEPT ![0] = Append(@, x)]) = Append(KeptOf(d), x)
<1> DEFINE e == [d EXCEPT ![0] = Append(@, x)]
<1>1. Keep \in Nat \ {0} /\ 0 \in Names /\ 0 # Keep /\ 1 \in Names /\ 0 + 1 = 1
  BY LogAssumption DEF Names
<1>2. PICK f \in Disks : /\ KeptOf(d) = f[0] /\ f[Keep] = d[Keep]
                         /\ \A n \in Names \ {Keep} : f[n] = f[n + 1] \o d[n]
  BY KeptBy, Zenon
<1> DEFINE g == [f EXCEPT ![0] = Append(@, x)]
<1>3. /\ e \in Disks /\ e[0] = Append(d[0], x) /\ \A n \in Names : n # 0 => e[n] = d[n]
      /\ g \in Disks /\ g[0] = Append(f[0], x) /\ \A n \in Names : n # 0 => g[n] = f[n]
  BY <1>1 DEF Disks
<1>4. f[0] = f[1] \o d[0] /\ f[1] \in Seq(Line) /\ d[0] \in Seq(Line)
  BY <1>1, <1>2, Zenon DEF Disks
<1> HIDE DEF e, g
<1>5. Append(f[0], x) = f[1] \o Append(d[0], x)
  <2>1. Append(f[1] \o d[0], x) = f[1] \o Append(d[0], x)
    BY <1>4, AppendLast, Zenon
  <2>2. QED
    BY <1>4, <2>1, Zenon
<1>6. \A n \in Names \ {Keep} : n + 1 \in Names /\ n + 1 # 0
  BY <1>1 DEF Names
<1>7. ASSUME NEW n \in Names \ {Keep}
      PROVE  g[n] = g[n + 1] \o e[n]
  <2>1. CASE n = 0
    <3>1. g[1] = f[1] /\ 1 = 0 + 1
      BY <1>1, <1>3
    <3>2. QED
      BY <1>3, <1>5, <2>1, <3>1, ZenonT(60)
  <2>2. CASE n # 0
    BY <1>2, <1>3, <1>6, <2>2, ZenonT(60)
  <2>3. QED
    BY <2>1, <2>2, Zenon
<1>8. g[Keep] = e[Keep] /\ Keep \in Names
  BY <1>1, <1>2, <1>3 DEF Names
<1>9. KeptOf(e) = g[0]
  BY <1>3, <1>7, <1>8, KeptFrom, ZenonT(60)
<1>10. QED
  BY <1>2, <1>3, <1>9, Zenon DEF e

\* The disk after rename has moved the file under the name m - 1 to m.
Moved(d, m) == [d EXCEPT ![m] = d[m - 1], ![m - 1] = <<>>]

\* What a disk holds after a file has been moved
LEMMA MovedIs ==
  ASSUME NEW d \in Disks, NEW m \in 1..Keep
  PROVE  /\ Moved(d, m) \in Disks
         /\ m \in Names /\ m - 1 \in Names /\ m - 1 # m /\ m - 1 # Keep
         /\ Moved(d, m)[m] = d[m - 1]
         /\ Moved(d, m)[m - 1] = <<>>
         /\ \A n \in Names : n # m /\ n # m - 1 => Moved(d, m)[n] = d[n]
<1>1. Keep \in Nat
  BY LogAssumption
<1>2. m \in Names /\ m - 1 \in Names /\ m - 1 # m /\ m - 1 # Keep
  BY <1>1 DEF Names
<1>3. d[m - 1] \in Seq(Line) /\ <<>> \in Seq(Line)
  BY <1>2 DEF Disks
<1>4. QED
  BY <1>2, <1>3 DEF Disks, Moved

\* Moving a file to a name that is free keeps every line in its place.
LEMMA KeptMove ==
  ASSUME NEW d \in Disks, NEW m \in 1..Keep, d[m] = <<>>
  PROVE  KeptOf(Moved(d, m)) = KeptOf(d)
<1> DEFINE e == Moved(d, m)
<1>1. Keep \in Nat
  BY LogAssumption
<1>2. PICK f \in Disks : /\ KeptOf(d) = f[0] /\ f[Keep] = d[Keep]
                         /\ \A n \in Names \ {Keep} : f[n] = f[n + 1] \o d[n]
  BY KeptBy, Zenon
<1>3. /\ e \in Disks /\ m \in Names /\ m - 1 \in Names /\ m - 1 # m /\ m - 1 # Keep
      /\ e[m] = d[m - 1] /\ e[m - 1] = <<>>
      /\ \A n \in Names : n # m /\ n # m - 1 => e[n] = d[n]
  BY MovedIs, Zenon
<1> HIDE DEF e
<1> DEFINE g == [f EXCEPT ![m] = f[m - 1]]
<1>4. g \in Disks /\ g[m] = f[m - 1] /\ \A n \in Names : n # m => g[n] = f[n]
  BY <1>3, SMTT(30) DEF Disks
<1> HIDE DEF g
<1>5. /\ \A n \in Names : f[n] \in Seq(Line) /\ d[n] \in Seq(Line)
      /\ \A n \in Names \ {Keep} : n + 1 \in Names
      /\ (m - 1) + 1 = m
  <2>1. \A n \in Names : f[n] \in Seq(Line) /\ d[n] \in Seq(Line)
    BY DEF Disks
  <2>2. QED
    BY <1>1, <2>1, SMTT(30) DEF Names
<1>6. f[m - 1] = f[m] \o d[m - 1]
  BY <1>2, <1>3, <1>5, ZenonT(60)
<1>7. m # Keep => f[m] = f[m + 1]
  <2>1. SUFFICES ASSUME m # Keep PROVE f[m] = f[m + 1]
    OBVIOUS
  <2>2. f[m] = f[m + 1] \o <<>> /\ f[m + 1] \in Seq(Line)
    BY <1>2, <1>3, <1>5, <2>1, Zenon
  <2>3. QED
    BY <2>2, Neutral, SMTT(30)
<1>8. ASSUME NEW n \in Names \ {Keep}
      PROVE  g[n] = g[n + 1] \o e[n]
  <2>1. CASE n = m
    <3>1. n + 1 \in Names /\ n + 1 # m
      BY <1>5, <2>1, SMTT(30)
    <3>2. QED
      BY <1>3, <1>4, <1>6, <1>7, <2>1, <3>1, ZenonT(60)
  <2>2. CASE n = m - 1
    <3>1. g[n] = f[m - 1] /\ g[n + 1] = f[m - 1] /\ e[n] = <<>> /\ f[m - 1] \in Seq(Line)
      BY <1>3, <1>4, <1>5, <2>2, Zenon
    <3>2. QED
      BY <3>1, Neutral
  <2>3. CASE n # m /\ n # m - 1
    <3>1. n + 1 \in Names /\ n + 1 # m
      BY <1>1, <1>5, <2>3 DEF Names
    <3>2. QED
      BY <1>2, <1>3, <1>4, <2>3, <3>1, ZenonT(60)
  <2>4. QED
    BY <2>1, <2>2, <2>3, Zenon
<1>9. g[Keep] = e[Keep]
  <2>1. CASE m = Keep
    <3>1. f[m] = <<>>
      BY <1>2, <2>1, ZenonT(60)
    <3>2. f[m - 1] = d[m - 1]
      BY <1>3, <1>5, <1>6, <3>1, Neutral, SMTT(30)
    <3>3. QED
      BY <1>3, <1>4, <2>1, <3>2, Zenon
  <2>2. CASE m # Keep
    BY <1>1, <1>2, <1>3, <1>4, <2>2, SMTT(30) DEF Names
  <2>3. QED
    BY <2>1, <2>2, Zenon
<1>10. KeptOf(e) = g[0]
  BY <1>3, <1>4, <1>8, <1>9, KeptFrom, ZenonT(60)
<1>11. 0 \in Names /\ 0 # m
  BY <1>1 DEF Names
<1>12. QED
  BY <1>2, <1>4, <1>10, <1>11, ZenonT(60) DEF e

\* Replacing the oldest file loses its lines and no others.
LEMMA KeptDrop ==
  ASSUME NEW d \in Disks
  PROVE  KeptOf(d) = d[Keep] \o KeptOf(Moved(d, Keep))
<1> DEFINE e == Moved(d, Keep)
<1>1. Keep \in Nat \ {0} /\ Keep \in 1..Keep
  BY LogAssumption
<1>2. PICK f \in Disks : /\ KeptOf(d) = f[0] /\ f[Keep] = d[Keep]
                         /\ \A n \in Names \ {Keep} : f[n] = f[n + 1] \o d[n]
  BY KeptBy, Zenon
<1>3. /\ e \in Disks /\ Keep \in Names /\ Keep - 1 \in Names /\ Keep - 1 # Keep
      /\ e[Keep] = d[Keep - 1] /\ e[Keep - 1] = <<>>
      /\ \A n \in Names : n # Keep /\ n # Keep - 1 => e[n] = d[n]
  BY <1>1, MovedIs, ZenonT(60)
<1> HIDE DEF e
<1>4. PICK g \in Disks : /\ KeptOf(e) = g[0] /\ g[Keep] = e[Keep]
                         /\ \A n \in Names \ {Keep} : g[n] = g[n + 1] \o e[n]
  BY <1>3, KeptBy, ZenonT(60)
<1>5. \A n \in Names : f[n] \in Seq(Line) /\ g[n] \in Seq(Line) /\ d[n] \in Seq(Line)
  BY SMTT(30) DEF Disks
<1> DEFINE P(m) == m + 1 <= Keep => f[Keep - (m + 1)] = d[Keep] \o g[Keep - (m + 1)]
           S == {m \in Nat : P(m)}
<1>6. P(0)
  <2>1. Keep - (0 + 1) = Keep - 1 /\ (Keep - 1) + 1 = Keep
    BY <1>1
  <2>2. f[Keep - 1] = d[Keep] \o d[Keep - 1]
    BY <1>2, <1>3, <2>1, Zenon
  <2>3. g[Keep - 1] = d[Keep - 1] \o <<>>
    BY <1>3, <1>4, <2>1, ZenonT(60)
  <2>4. QED
    BY <1>3, <1>5, <2>1, <2>2, <2>3, Neutral, ZenonT(60)
<1>7. ASSUME NEW m \in Nat, P(m)
      PROVE  P(m + 1)
  <2>1. SUFFICES ASSUME (m + 1) + 1 <= Keep
                 PROVE  f[Keep - ((m + 1) + 1)] = d[Keep] \o g[Keep - ((m + 1) + 1)]
    BY Zenon
  <2> DEFINE n == Keep - ((m + 1) + 1)
  <2>2. /\ n \in Names /\ n + 1 \in Names /\ n # Keep /\ n # Keep - 1
        /\ n + 1 = Keep - (m + 1) /\ m + 1 <= Keep
    BY <1>1, <2>1 DEF Names
  <2> HIDE DEF n
  <2>3. f[n] = f[n + 1] \o d[n] /\ g[n] = g[n + 1] \o d[n]
    BY <1>2, <1>3, <1>4, <2>2, Zenon
  <2>4. f[n + 1] = d[Keep] \o g[n + 1]
    BY <1>7, <2>2, Zenon
  <2>5. (d[Keep] \o g[n + 1]) \o d[n] = d[Keep] \o (g[n + 1] \o d[n])
    <3>1. d[Keep] \in Seq(Line) /\ g[n + 1] \in Seq(Line) /\ d[n] \in Seq(Line)
      BY <1>3, <1>5, <2>2, Zenon
    <3>2. QED
      BY <3>1, Associative, ZenonT(60)
  <2>6. f[n] = d[Keep] \o g[n]
    BY <2>3, <2>4, <2>5, Zenon
  <2>7. QED
    BY <2>6 DEF n
<1> HIDE DEF P
<1>8. S \in SUBSET Nat /\ 0 \in S /\ \A m \in S : m + 1 \in S
  BY <1>6, <1>7
<1> HIDE DEF S
<1>9. S = Nat
  BY <1>8, SetInduction, Zenon
<1>10. P(Keep - 1) /\ (Keep - 1) + 1 <= Keep /\ Keep - ((Keep - 1) + 1) = 0
  BY <1>1, <1>9 DEF S
<1>11. f[0] = d[Keep] \o g[0]
  BY <1>10, Zenon DEF P
<1>12. QED
  BY <1>2, <1>4, <1>11, Zenon DEF e

\* The names that hold a file if any name after them does: all but the one that
\* the loop of rotate_logs_if_needed has just emptied, or, outside of it, the log.
Dense ==
  IF step # "rotate" THEN Names \ {0} ELSE IF suffix = Keep THEN Names ELSE Names \ {suffix}

\* The loop is at a name between Keep and 1, which it has emptied unless it is
\* the first, and the log is still there.
Rotating ==
  step = "rotate" =>
    /\ suffix \in 1..Keep /\ disk[0] # <<>>
    /\ replaces /\ suffix < Keep => disk[suffix] = <<>>

\* As long as no rotation is cut short there are no gaps between the files, and
\* the oldest is replaced only when all are there.
NoGaps ==
  replaces /\ ~torn =>
    /\ \A m, n \in Dense : m < n /\ disk[n] # <<>> => disk[m] # <<>>
    /\ Len(Kept) < written => \A n \in Dense : disk[n] # <<>>

\* diag_log has a line to write while it runs.
LogTypes ==
  /\ disk \in Disks
  /\ step \in {"down", "up", "rotate", "write"}
  /\ len \in Nat /\ written \in Nat
  /\ step \in {"rotate", "write"} => len \in Lens

\* The lines on disk are numbered to the last one written.
Numbered ==
  /\ \A k \in 1..Len(Kept) : Kept[k][1] = written - Len(Kept) + k
  /\ ~replaces => Len(Kept) = written

\* The line that is about to be written fits.
Roomy == replaces /\ step = "write" => Size(disk[0]) + len < Limit

LogInv == LogTypes /\ Rotating /\ Numbered /\ NoGaps /\ Roomy /\ SizeBounded

\* What the lines of a file add up to.
LEMMA SizeEmpty == Size(<<>>) = 0
<1>1. [k \in DOMAIN <<>> |-> <<>>[k][2]] = <<>>
  OBVIOUS
<1>2. QED
  BY <1>1, TotalEmpty, Zenon DEF Size

\* A file grows by the length of the line written to it.
LEMMA SizeAppend ==
  ASSUME NEW lines \in Seq(Line), NEW x \in Line
  PROVE  Size(Append(lines, x)) = Size(lines) + x[2]
<1> DEFINE q == [k \in DOMAIN lines |-> lines[k][2]]
           r == [k \in DOMAIN Append(lines, x) |-> Append(lines, x)[k][2]]
<1>1. q \in Seq(Nat) /\ x[2] \in Nat
  BY SMTT(30) DEF Line
<1>2. r = Append(q, x[2])
  <2>1. DOMAIN Append(lines, x) = 1..(Len(lines) + 1) /\ Len(q) = Len(lines) /\ Len(lines) \in Nat
    OBVIOUS
  <2>2. \A k \in 1..(Len(lines) + 1) : r[k] = Append(q, x[2])[k]
    BY SMTT(30)
  <2>3. r = [k \in 1..(Len(lines) + 1) |-> r[k]]
    BY <2>1, SMTT(30)
  <2>4. Append(q, x[2]) = [k \in 1..(Len(lines) + 1) |-> Append(q, x[2])[k]]
    BY <1>1, <2>1
  <2>5. QED
    BY <2>2, <2>3, <2>4, SMTT(30)
<1> HIDE DEF q, r
<1>3. Total(r) = Total(q) + x[2]
  BY <1>1, <1>2, TotalAppend, Zenon
<1>4. QED
  BY <1>3, Zenon DEF Size, q, r

\* The size of a file is a number.
LEMMA SizeNat ==
  ASSUME NEW lines \in Seq(Line)
  PROVE  Size(lines) \in Nat
<1> DEFINE q == [k \in DOMAIN lines |-> lines[k][2]]
<1>1. q \in Seq(Nat)
  BY SMTT(30) DEF Line
<1> HIDE DEF q
<1>2. Total(q) \in Nat
  BY <1>1, TotalNat, Zenon
<1>3. QED
  BY <1>2, Zenon DEF Size, q

\* What is kept consists of lines.
LEMMA KeptType ==
  ASSUME NEW d \in Disks
  PROVE  KeptOf(d) \in Seq(Line) /\ Len(KeptOf(d)) \in Nat
<1>1. 0 \in Names
  BY LogAssumption DEF Names
<1>2. KeptOf(d) \in Seq(Line)
  BY <1>1, KeptBy, ZenonT(120) DEF Disks
<1>3. QED
  BY <1>2

\* The empty disk keeps nothing.
LEMMA KeptEmpty == KeptOf([n \in Names |-> <<>>]) = <<>>
<1> DEFINE d == [n \in Names |-> <<>>]
<1>1. d \in Disks /\ Keep \in Names /\ \A n \in Names : d[n] = <<>>
  BY LogAssumption DEF Disks, Names
<1>2. \A n \in Names \ {Keep} : n + 1 \in Names
  BY LogAssumption DEF Names
<1>3. <<>> \in Seq(Line)
  OBVIOUS
<1>4. \A n \in Names \ {Keep} : d[n] = d[n + 1] \o d[n]
  BY <1>1, <1>2, <1>3, Neutral, Zenon
<1> HIDE DEF d
<1>5. KeptOf(d) = d[0]
  BY <1>1, <1>4, KeptFrom, Zenon
<1>6. 0 \in Names
  BY LogAssumption DEF Names
<1>7. QED
  BY <1>1, <1>5, <1>6, Zenon DEF d

\* What is assumed of the constants of DiagLog
LEMMA LogConstants ==
  /\ Keep \in Nat \ {0} /\ 0 \in Names /\ Keep \in Names /\ Limit \in Nat \ {0} /\ First = Keep
  /\ \A n \in Lens : n \in Nat \ {0} /\ n < Limit
BY LogAssumption DEF Names, First

\* The log starts empty.
LEMMA LogInitInv == LogInit => LogInv
<1> SUFFICES ASSUME LogInit PROVE LogInv
  OBVIOUS
<1>1. disk \in Disks /\ \A n \in Names : disk[n] = <<>>
  BY DEF LogInit, Disks
<1>2. Kept = <<>> /\ Len(Kept) = 0 /\ written = 0
  BY KeptEmpty DEF LogInit, Kept
<1>3. LogTypes /\ Rotating
  BY <1>1 DEF LogInit, LogTypes, Rotating
<1>4. Numbered
  BY <1>2 DEF Numbered
<1>5. NoGaps
  <2>1. Dense \subseteq Names
    BY DEF Dense
  <2>2. ~(Len(Kept) < written)
    BY <1>2
  <2>3. QED
    BY <1>1, <2>1, <2>2, Zenon DEF NoGaps
<1>6. SizeBounded
  <2>1. Size(<<>>) < Limit
    BY SizeEmpty, LogConstants
  <2> QED BY <1>1, <2>1, Zenon DEF SizeBounded
<1>7. Roomy
  BY DEF LogInit, Roomy
<1>8. QED
  BY <1>3, <1>4, <1>5, <1>6, <1>7, Zenon DEF LogInv

\* One turn of the loop: a file moves up into a free name, or the oldest is
\* replaced.
LEMMA RotateInv == LogInv /\ Rotate => LogInv'
<1> SUFFICES ASSUME LogInv, Rotate PROVE LogInv'
  BY SMTT(30)
<1> DEFINE m == suffix
<1>1. /\ disk \in Disks /\ m \in 1..Keep /\ step = "rotate" /\ disk[0] # <<>>
      /\ replaces /\ m < Keep => disk[m] = <<>>
      /\ len \in Lens /\ len \in Nat /\ written \in Nat
  BY DEF LogInv, LogTypes, Rotating, Rotate
<1>2. /\ disk' = IF Renames(m) THEN Moved(disk, m) ELSE disk
      /\ suffix' = m - 1 /\ step' = IF m - 1 = 0 THEN "write" ELSE "rotate"
      /\ UNCHANGED <<replaces, len, written, torn>>
  BY <1>1, Zenon DEF Rotate, Dst, Moved
<1>3. /\ Moved(disk, m) \in Disks
      /\ m \in Names /\ m - 1 \in Names /\ m - 1 # m /\ m - 1 # Keep
      /\ Moved(disk, m)[m] = disk[m - 1]
      /\ Moved(disk, m)[m - 1] = <<>>
      /\ \A n \in Names : n # m /\ n # m - 1 => Moved(disk, m)[n] = disk[n]
  BY <1>1, MovedIs, Zenon
<1> DEFINE d == Moved(disk, m)
<1> HIDE DEF m, d
\* After the turn the name before m is free, if rename replaces.
<1>4. disk' \in Disks /\ (replaces => disk'[m - 1] = <<>>)
  BY <1>1, <1>2, <1>3, Zenon DEF Renames
<1>5. m - 1 # 0 => m - 1 \in 1..Keep /\ m # 0 /\ m - 1 < Keep
  BY <1>1, LogConstants
<1>6. m - 1 # 0 => disk'[0] # <<>>
  <2>1. SUFFICES ASSUME m - 1 # 0 PROVE disk'[0] # <<>>
    OBVIOUS
  <2>2. 0 \in Names /\ 0 # m /\ 0 # m - 1
    BY <1>5, <2>1, LogConstants, SMTT(30)
  <2>3. QED
    BY <1>1, <1>2, <1>3, <2>2, ZenonT(60)
<1>7. LogTypes' /\ Rotating'
  <2>1. LogTypes'
    BY <1>1, <1>2, <1>4, ZenonT(60) DEF LogTypes
  <2>2. Rotating'
    BY <1>2, <1>4, <1>5, <1>6, SMTT(30) DEF Rotating
  <2>3. QED
    BY <2>1, <2>2
\* What is kept stays, or loses the oldest file.
<1>8. \/ Kept' = Kept
      \/ replaces /\ m = Keep /\ disk[Keep] # <<>> /\ Kept = disk[Keep] \o Kept'
  <2>1. CASE ~Renames(m)
    BY <1>2, <2>1, Zenon DEF Kept
  <2>2. CASE Renames(m) /\ disk[m] = <<>>
    <3>1. KeptOf(Moved(disk, m)) = KeptOf(disk)
      BY <1>1, <2>2, KeptMove, Zenon DEF m
    <3>2. QED
      BY <1>2, <2>2, <3>1, Zenon DEF Kept
  <2>3. CASE Renames(m) /\ disk[m] # <<>>
    <3>1. replaces
      BY <2>3, Zenon DEF Renames
    <3>2. m = Keep
      <4>1. ~(m < Keep)
        BY <1>1, <2>3, <3>1, Zenon DEF m
      <4>2. QED
        BY <1>1, <4>1, LogConstants, SMTT(30) DEF m
    <3>3. KeptOf(disk) = disk[Keep] \o KeptOf(Moved(disk, Keep))
      BY <1>1, KeptDrop, Zenon
    <3>4. QED
      BY <1>2, <2>3, <3>1, <3>2, <3>3, ZenonT(60) DEF Kept
  <2>4. QED
    BY <2>1, <2>2, <2>3, Zenon
<1>9. /\ Kept \in Seq(Line) /\ Len(Kept) \in Nat
      /\ Kept' \in Seq(Line) /\ Len(Kept') \in Nat
  BY <1>1, <1>4, KeptType, Zenon DEF Kept
<1>10. Numbered'
  <2>1. Numbered /\ written' = written /\ replaces' = replaces
    BY <1>2, SMTT(30) DEF LogInv
  <2>2. CASE Kept' = Kept
    BY <2>1, <2>2 DEF Numbered
  <2>3. CASE replaces /\ m = Keep /\ disk[Keep] # <<>> /\ Kept = disk[Keep] \o Kept'
    <3> DEFINE a == disk[Keep]
               b == Kept'
    <3>1. a \in Seq(Line) /\ b \in Seq(Line)
      BY <1>1, <1>9, LogConstants, SMTT(30) DEF Disks
    <3>2. Kept = a \o b
      BY <2>3, SMTT(30)
    <3> HIDE DEF a, b
    <3>3. /\ Len(Kept) = Len(a) + Len(b) /\ Len(a) \in Nat /\ Len(b) \in Nat
          /\ \A k \in 1..Len(b) : Len(a) + k \in 1..Len(Kept) /\ Kept[Len(a) + k] = b[k]
      BY <3>1, <3>2
    <3>4. \A k \in 1..Len(b) : b[k][1] = written - Len(Kept) + (Len(a) + k)
      BY <2>1, <3>3, ZenonT(60) DEF Numbered
    <3>5. \A k \in 1..Len(b) : b[k][1] = written - Len(b) + k
      BY <1>1, <3>3, <3>4, SMTT(30)
    <3>6. QED
      BY <2>1, <2>3, <3>5, ZenonT(60) DEF Numbered, b
  <2>4. QED
    BY <1>8, <2>2, <2>3, ZenonT(60)
<1>11. NoGaps'
  <2>1. SUFFICES ASSUME replaces, ~torn
                 PROVE  /\ \A x, y \in Dense' : x < y /\ disk'[y] # <<>> => disk'[x] # <<>>
                        /\ Len(Kept') < written => \A n \in Dense' : disk'[n] # <<>>
    BY <1>2, Zenon DEF NoGaps
  <2>2. /\ \A x, y \in Dense : x < y /\ disk[y] # <<>> => disk[x] # <<>>
        /\ Len(Kept) < written => \A n \in Dense : disk[n] # <<>>
    BY <2>1, Zenon DEF LogInv, NoGaps
  <2>3. Dense' = Names \ {m - 1}
    BY <1>2, <1>3, Zenon DEF Dense
  <2>4. Dense = IF m = Keep THEN Names ELSE Names \ {m}
    BY <1>1, Zenon DEF Dense, m
  <2>5. disk'[m] = disk[m - 1]
    <3>1. CASE Renames(m)
      BY <1>2, <1>3, <3>1, Zenon
    <3>2. CASE ~Renames(m)
      <4>1. disk[m - 1] = <<>> /\ disk' = disk
        BY <1>2, <2>1, <3>2, Zenon DEF Renames
      <4>2. CASE m = Keep
        <5>1. m - 1 \in Dense /\ m \in Dense /\ m - 1 < m
          BY <1>1, <1>3, <2>4, <4>2, SMTT(30) DEF m
        <5>2. QED
          BY <2>2, <4>1, <5>1, ZenonT(60)
      <4>3. CASE m # Keep
        <5>1. m < Keep
          BY <1>1, <4>3, LogConstants, SMTT(30) DEF m
        <5>2. QED
          BY <1>1, <2>1, <4>1, <5>1, ZenonT(60) DEF m
      <4>4. QED
        BY <4>2, <4>3, Zenon
    <3>3. QED
      BY <3>1, <3>2, Zenon
  <2> DEFINE o(n) == IF n = m THEN m - 1 ELSE n
  <2>6. \A n \in Dense' : o(n) \in Dense /\ disk'[n] = disk[o(n)]
    BY <1>2, <1>3, <2>3, <2>4, <2>5, ZenonT(60)
  <2>7. \A x, y \in Dense' : x < y => o(x) < o(y)
    BY <1>1, <2>3, LogConstants, SMTT(30) DEF Names, m
  <2>8. Len(Kept') < written => \A n \in Dense : disk[n] # <<>>
    <3>1. CASE Kept' = Kept
      BY <2>2, <3>1, Zenon
    <3>2. CASE replaces /\ m = Keep /\ disk[Keep] # <<>> /\ Kept = disk[Keep] \o Kept'
      <4>1. Dense = Names /\ Keep \in Names
        BY <2>4, <3>2, LogConstants, ZenonT(60)
      <4>2. \A n \in Names : n = Keep \/ n < Keep
        BY LogConstants, SMTT(30) DEF Names
      <4>3. QED
        BY <2>2, <3>2, <4>1, <4>2, Zenon
    <3>3. QED
      BY <1>8, <3>1, <3>2, Zenon
  <2> HIDE DEF o
  <2>9. QED
    BY <2>2, <2>6, <2>7, <2>8, Zenon
<1>12. Roomy'
  <2>1. SUFFICES ASSUME replaces, m - 1 = 0 PROVE Size(disk'[0]) + len < Limit
    BY <1>2, Zenon DEF Roomy
  <2>2. disk'[0] = <<>>
    BY <1>4, <2>1, Zenon
  <2>3. Size(disk'[0]) = 0
    BY <2>2, SizeEmpty, Zenon
  <2>4. QED
    BY <1>1, <2>3, LogConstants
<1>13. SizeBounded'
  <2>1. SUFFICES ASSUME replaces, NEW n \in Names PROVE Size(disk'[n]) < Limit
    BY <1>2, Zenon DEF SizeBounded
  <2>2. \A k \in Names : Size(disk[k]) < Limit
    BY <2>1, Zenon DEF LogInv, SizeBounded
  <2>3. Size(<<>>) < Limit
    BY SizeEmpty, LogConstants
  <2>4. disk'[n] = <<>> \/ \E k \in Names : disk'[n] = disk[k]
    BY <1>2, <1>3, Zenon
  <2>5. QED
    BY <2>2, <2>3, <2>4, Zenon
<1>14. QED
  BY <1>7, <1>10, <1>11, <1>12, <1>13, Zenon DEF LogInv

\* The line that is written comes last and fits.
LEMMA WriteInv == LogInv /\ Write => LogInv'
<1> SUFFICES ASSUME LogInv, Write PROVE LogInv'
  OBVIOUS
<1>1. /\ disk \in Disks /\ len \in Lens /\ len \in Nat /\ written \in Nat
      /\ step = "write" /\ step' = "up" /\ UNCHANGED <<replaces, suffix, len, torn>>
  BY DEF LogInv, LogTypes, Write
<1>2. Dense' = Dense
  BY <1>1, Zenon DEF Dense
<1>3. CASE UNCHANGED <<written, disk>>
  <2>1. Kept' = Kept
    BY <1>3, Zenon DEF Kept
  <2>2. QED
    BY <1>1, <1>2, <1>3, <2>1, Zenon
       DEF LogInv, LogTypes, Rotating, Numbered, NoGaps, Roomy, SizeBounded
<1>4. ASSUME NEW m \in 1..len, written' = written + 1,
             disk' = [disk EXCEPT ![0] = Append(@, <<written', m>>)]
      PROVE  LogInv'
  <2> DEFINE x == <<written + 1, m>>
  <2>1. m \in Nat /\ m <= len /\ x \in Line /\ x[1] = written + 1 /\ x[2] = m
    BY <1>1, SMTT(30) DEF Line
  <2>2. disk' = [disk EXCEPT ![0] = Append(@, x)]
    BY <1>4, Zenon
  <2> HIDE DEF x
  <2>3. disk' \in Disks /\ Kept' = Append(Kept, x)
    BY <1>1, <2>1, <2>2, KeptAppend, Zenon DEF Kept
  <2>4. Kept \in Seq(Line)
    BY <1>1, KeptType, ZenonT(60) DEF Kept
  <2>5. /\ Len(Kept') = Len(Kept) + 1 /\ Len(Kept) \in Nat /\ Kept'[Len(Kept) + 1] = x
        /\ \A k \in 1..Len(Kept) : Kept'[k] = Kept[k]
    BY <2>1, <2>3, <2>4
  <2>6. Numbered'
    <3>1. Numbered
      BY SMTT(30) DEF LogInv
    <3>2. ASSUME NEW k \in 1..Len(Kept')
          PROVE  Kept'[k][1] = written' - Len(Kept') + k
      <4>1. CASE k = Len(Kept) + 1
        BY <1>1, <1>4, <2>1, <2>5, <4>1, SMTT(30)
      <4>2. CASE k \in 1..Len(Kept)
        <5>1. Kept'[k][1] = written - Len(Kept) + k
          BY <2>5, <3>1, <4>2, ZenonT(60) DEF Numbered
        <5>2. QED
          BY <1>1, <1>4, <2>5, <4>2, <5>1, SMTT(30)
      <4>3. QED
        BY <2>5, <4>1, <4>2, SMTT(30)
    <3>3. ~replaces => Len(Kept') = written'
      BY <1>4, <2>5, <3>1 DEF Numbered
    <3>4. QED
      BY <1>1, <3>2, <3>3, Zenon DEF Numbered
  <2>7. 0 \in Names /\ disk[0] \in Seq(Line) /\ disk'[0] = Append(disk[0], x) /\ disk'[0] # <<>>
    <3>1. 0 \in Names /\ disk \in [Names -> Seq(Line)]
      BY <1>1, LogConstants, Zenon DEF Disks
    <3>2. disk[0] \in Seq(Line) /\ disk'[0] = Append(disk[0], x)
      BY <2>2, <3>1, Zenon
    <3>3. Append(disk[0], x) # <<>>
      BY <2>1, <3>2, SMTT(30)
    <3>4. QED
      BY <3>1, <3>2, <3>3, Zenon
  <2>8. \A n \in Names : n # 0 => disk'[n] = disk[n]
    BY <1>1, <2>2 DEF Disks
  <2>9. NoGaps'
    <3>1. Dense = Names \ {0}
      BY <1>1, ZenonT(60) DEF Dense
    <3>2. Len(Kept') < written' => Len(Kept) < written
      BY <1>1, <1>4, <2>5
    <3>3. \A n \in Dense : disk'[n] = disk[n]
      BY <2>8, <3>1, Zenon
    <3>4. NoGaps
      BY DEF LogInv
    <3>5. QED
      BY <1>1, <1>2, <3>2, <3>3, <3>4, ZenonT(60) DEF NoGaps
  <2>10. SizeBounded'
    <3>1. SUFFICES ASSUME replaces, NEW n \in Names PROVE Size(disk'[n]) < Limit
      BY <1>1, Zenon DEF SizeBounded
    <3>2. Size(disk'[0]) = Size(disk[0]) + m
      BY <2>1, <2>7, SizeAppend, Zenon
    <3>a. Size(disk[0]) + len < Limit
      BY <1>1, <3>1, Zenon DEF LogInv, Roomy
    <3>b. Size(disk[0]) \in Nat /\ Limit \in Nat
      BY <2>7, SizeNat, LogAssumption, Zenon
    <3>3. Size(disk[0]) + m < Limit
      BY <1>1, <2>1, <3>a, <3>b, SMTT(30)
    <3>4. n # 0 => Size(disk[n]) < Limit
      BY <3>1, Zenon DEF LogInv, SizeBounded
    <3>5. QED
      BY <2>8, <3>2, <3>3, <3>4, Zenon
  <2>11. LogTypes' /\ Rotating' /\ Roomy'
    <3>1. written' \in Nat
      BY <1>1, <1>4
    <3>2. QED
      BY <1>1, <2>3, <3>1, ZenonT(60) DEF LogTypes, Rotating, Roomy
  <2>12. QED
    BY <2>6, <2>9, <2>10, <2>11, ZenonT(60) DEF LogInv
<1>5. QED
  BY <1>3, <1>4, Zenon DEF Write

\* Before a rotation every name up to the last that is used holds a file, and
\* without one the line fits.
LEMMA DiagLogInv ==
  ASSUME NEW n \in Lens
  PROVE  LogInv /\ DiagLog(n) => LogInv'
<1> SUFFICES ASSUME LogInv, DiagLog(n) PROVE LogInv'
  OBVIOUS
<1>1. /\ disk \in Disks /\ written \in Nat /\ n \in Nat
      /\ step = "up" /\ len' = n /\ UNCHANGED <<replaces, disk, written, torn>>
  BY LogConstants DEF LogInv, LogTypes, DiagLog
<1>2. Kept' = Kept
  BY <1>1, Zenon DEF Kept
<1>3. Numbered' /\ SizeBounded'
  BY <1>1, <1>2, Zenon DEF LogInv, Numbered, SizeBounded
<1>4. CASE Fits(n)
  <2>1. step' = "write" /\ suffix' = suffix
    BY <1>4, Zenon DEF DiagLog
  <2>2. Dense' = Dense
    BY <1>1, <2>1, Zenon DEF Dense
  <2>3. LogTypes' /\ Rotating' /\ NoGaps'
    BY <1>1, <1>2, <2>1, <2>2, Zenon DEF LogInv, LogTypes, Rotating, NoGaps
  <2>4. Size(disk[0]) + n < Limit
    <3>1. CASE disk[0] = <<>>
      <4>1. Size(disk[0]) = 0
        BY <3>1, SizeEmpty, Zenon
      <4>2. QED
        BY <4>1, LogConstants
    <3>2. QED
      BY <1>4, <3>1, Zenon DEF Fits
  <2>5. Roomy'
    BY <1>1, <2>4, Zenon DEF Roomy
  <2>6. QED
    BY <1>3, <2>3, <2>5, Zenon DEF LogInv
<1>5. CASE ~Fits(n)
  <2>1. step' = "rotate" /\ suffix' = Keep /\ disk[0] # <<>>
    BY <1>5, LogConstants, Zenon DEF DiagLog, Fits
  <2>2. Keep \in 1..Keep /\ ~(Keep < Keep)
    BY LogConstants, SMTT(30)
  <2>3. LogTypes' /\ Rotating' /\ Roomy'
    BY <1>1, <2>1, <2>2 DEF LogTypes, Rotating, Roomy
  <2>4. Dense = Names \ {0} /\ Dense' = Names
    BY <1>1, <2>1, Zenon DEF Dense
  <2>5. \A k \in Names : ~(k < 0)
    BY LogConstants DEF Names
  <2>6. NoGaps'
    <3>1. NoGaps
      BY DEF LogInv
    <3>2. QED
      BY <1>1, <1>2, <2>1, <2>4, <2>5, <3>1, ZenonT(60) DEF NoGaps
  <2>7. QED
    BY <1>3, <2>3, <2>6, Zenon DEF LogInv
<1>6. QED
  BY <1>4, <1>5, Zenon

\* Every step of diag_log, and every kill, keeps the invariant.
LEMMA LogNextInv == LogInv /\ [LogNext]_logVars => LogInv'
<1> SUFFICES ASSUME LogInv, [LogNext]_logVars PROVE LogInv'
  OBVIOUS
<1>1. CASE DiagInit
  <2>1. Kept' = Kept /\ Dense' = Dense
    BY <1>1, Zenon DEF DiagInit, Kept, Dense
  <2>2. QED
    BY <1>1, <2>1, Zenon
       DEF DiagInit, LogInv, LogTypes, Rotating, Numbered, NoGaps, Roomy, SizeBounded
<1>2. CASE Down
  <2>1. Kept' = Kept
    BY <1>2, Zenon DEF Down, Kept
  <2>2. LogTypes' /\ Rotating' /\ Numbered' /\ Roomy' /\ SizeBounded'
    BY <1>2, <2>1, Zenon DEF Down, LogInv, LogTypes, Rotating, Numbered, Roomy, SizeBounded
  <2>3. CASE step = "rotate"
    BY <1>2, <2>2, <2>3, Zenon DEF Down, LogInv, NoGaps
  <2>4. CASE step # "rotate"
    <3>1. Dense' = Dense
      BY <1>2, <2>4, Zenon DEF Down, Dense
    <3>2. (~torn' => ~torn) /\ UNCHANGED <<replaces, disk, written>>
      BY <1>2, Zenon DEF Down
    <3>3. QED
      BY <2>1, <2>2, <3>1, <3>2, Zenon DEF LogInv, NoGaps
  <2>5. QED
    BY <2>3, <2>4, Zenon
<1>3. CASE UNCHANGED logVars
  <2>1. Kept' = Kept /\ Dense' = Dense
    BY <1>3, Zenon DEF logVars, Kept, Dense
  <2>2. QED
    BY <1>3, <2>1, Zenon
       DEF logVars, LogInv, LogTypes, Rotating, Numbered, NoGaps, Roomy, SizeBounded
<1>4. QED
  BY <1>1, <1>2, <1>3, RotateInv, WriteInv, DiagLogInv, Zenon DEF LogNext

\* The invariant of DiagLog holds in every state.
LEMMA LogInvariance == LogSpec => []LogInv
BY LogInitInv, LogNextInv, PTL DEF LogSpec

\* rotate_logs_if_needed loses the oldest lines and no others, for any number of
\* files and lines, whatever their lengths, whether rename replaces or not, and
\* wherever the agent is killed.
THEOREM OldestLost == LogSpec => []OnlyOldestLost
<1>1. LogInv => OnlyOldestLost
  <2> SUFFICES ASSUME LogInv PROVE OnlyOldestLost
    OBVIOUS
  <2>1. Numbered /\ NoGaps
    BY DEF LogInv
  <2>2. ASSUME ~torn, step # "rotate", Len(Kept) < written
        PROVE  \A n \in 1..Keep : disk[n] # <<>>
    <3>1. Len(Kept) # written
      BY <2>2, KeptType DEF LogInv, LogTypes, Kept
    <3>2. replaces
      BY <2>1, <3>1, Zenon DEF Numbered
    <3>3. \A n \in 1..Keep : n \in Dense
      BY <2>2, LogConstants, SMTT(30) DEF Dense, Names
    <3>4. QED
      BY <2>1, <2>2, <3>2, <3>3, ZenonT(60) DEF NoGaps
  <2>3. QED
    BY <2>1, <2>2, Zenon DEF OnlyOldestLost, Numbered
<1>2. QED
  BY <1>1, LogInvariance, PTL

\* If rename replaces, no file reaches the limit of rotate_logs_if_needed, for
\* any limit and any lengths of lines below it.
THEOREM FilesBounded == LogSpec => []SizeBounded
<1>1. LogInv => SizeBounded
  BY DEF LogInv
<1>2. QED
  BY <1>1, LogInvariance, PTL
=============================================================================

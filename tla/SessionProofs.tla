--------------------------- MODULE SessionProofs ---------------------------
(***************************************************************************)
(* Proofs about Session, for any number of children and any batch size,    *)
(* with and without failing allocations.                                   *)
(***************************************************************************)
EXTENDS Session, TLAPS

RefBit(s, x) == Bit(s.h[x] \in {"open", "stopped", "closing"})

Refs(s) ==
  RefBit(s, "timer") + Bit(s.h["tcp"] = "closing")
    + RefBit(s, "process") + RefBit(s, "stdout") + RefBit(s, "stderr")

\* A session whose handles agree with its flags and its reference count.
Coherent(s) ==
  /\ s.h["timer"] \in {"none", "open", "closing"}
  /\ s.h["tcp"] \in {"none", "open", "closing"}
  /\ s.h["process"] \in {"none", "open", "closing"}
  /\ s.timer_started <=> s.h["timer"] = "open"
  /\ s.closed <=> s.h["tcp"] # "open"
  /\ s.active <=> s.h["process"] = "open"
  /\ \A p \in s.eof : s.h[p] = "stopped"
  /\ s.close_refs = Refs(s)

\* What the operations of session.c leave alone in the process state.
SameProc(s, t) ==
  /\ t.active = s.active /\ t.eof = s.eof /\ t.proc_id = s.proc_id
  /\ t.next_proc_id = s.next_proc_id /\ t.kill_reason = s.kill_reason
  /\ t.freed = s.freed /\ t.fault = s.fault
  /\ \A x \in Handles \ {"tcp", "timer"} : t.h[x] = s.h[x]
-----------------------------------------------------------------------------
(* Every operation yields a session, in a faulty state as well.            *)

\* The constants the operations write have the types of their fields.
LEMMA ConstantTypes ==
  /\ {} \in SUBSET Pipes /\ 0 \in 0..MaxProcs /\ "exit" \in KillReasons
  /\ \A v \in {"none", "open", "stopped", "closing", "orphan"} : v \in HandleStates
  /\ \A x \in {"tcp", "timer", "process", "stdout", "stderr"} : x \in Handles
  /\ Handles = {"tcp", "timer", "process", "stdout", "stderr"}
BY SessionAssumption DEF KillReasons, HandleStates, Handles, Pipes

\* Marking a breach of libuv's contract keeps the type.
LEMMA BreachType ==
  ASSUME NEW s \in SessionType, NEW w \in {"reuse", "double_close"}
  PROVE  Breach(s, w) \in SessionType
BY Zenon DEF Breach, SessionType

\* Moving handles to another state keeps the type.
LEMMA WithType ==
  ASSUME NEW s \in SessionType, NEW X, NEW v \in HandleStates
  PROVE  With(s, X, v) \in SessionType
BY Zenon DEF With, SessionType

\* With changes nothing but the handles.
LEMMA WithFields ==
  ASSUME NEW s \in SessionType, NEW X, NEW v, NEW t, t = With(s, X, v)
  PROVE  /\ t.h = [x \in Handles |-> IF x \in X THEN v ELSE s.h[x]]
         /\ t.close_refs = s.close_refs /\ t.eof = s.eof /\ t.active = s.active
         /\ t.closed = s.closed /\ t.timer_started = s.timer_started
         /\ t.freed = s.freed /\ t.fault = s.fault /\ t.upload = s.upload
         /\ t.proc_id = s.proc_id /\ t.next_proc_id = s.next_proc_id
         /\ t.kill_reason = s.kill_reason
BY Zenon DEF With, SessionType

\* uv_*_init and uv_close keep the type, breach or not.
LEMMA UvType ==
  ASSUME NEW s \in SessionType, NEW X, NEW v \in HandleStates
  PROVE  UvInit(s, X) \in SessionType /\ UvClose(s, X, v) \in SessionType
<1>1. "open" \in HandleStates
  BY Zenon DEF HandleStates
<1> QED BY <1>1, WithType, BreachType, Zenon DEF UvInit, UvClose

\* proc_reset keeps the type.
LEMMA ProcResetType ==
  ASSUME NEW s \in SessionType
  PROVE  ProcReset(s) \in SessionType
BY ConstantTypes, ZenonT(60) DEF SessionType, ProcReset

\* session_close keeps the type.
LEMMA SessionCloseType ==
  ASSUME NEW s \in SessionType
  PROVE  SessionClose(s) \in SessionType
<1>1. UvClose(s, Closable(s), "closing") \in SessionType
  <2>1. "closing" \in HandleStates
    BY Zenon DEF HandleStates
  <2> QED BY <2>1, UvType, Zenon
<1>2. ASSUME NEW t \in SessionType
      PROVE  [AddRefs(t, 1) EXCEPT !.closed = TRUE, !.timer_started = FALSE] \in SessionType
  <2>1. AddRefs(t, 1) \in SessionType
    BY DEF SessionType, AddRefs
  <2> QED BY <2>1, Zenon DEF SessionType
<1> QED BY <1>1, <1>2, Zenon DEF SessionClose

\* session_send_frame keeps the type.
LEMMA SendType ==
  ASSUME NEW s \in SessionType, NEW o
  PROVE  Send(s, o) \in SessionType
BY SessionCloseType, Zenon DEF Send
-----------------------------------------------------------------------------
(* session_close and session_send_frame keep a session coherent.           *)

\* A recorded breach is not overwritten by session_send_frame.
LEMMA FaultKept ==
  ASSUME NEW s \in SessionType, NEW o, s.fault # "none"
  PROVE  Send(s, o).fault = s.fault
BY Zenon DEF Send, SessionClose, UvClose, With, Breach, AddRefs, SessionType

\* session_close leaves a coherent, closed session and the child alone.
LEMMA SessionCloseCoherent ==
  ASSUME NEW s \in SessionType, NEW t, t = SessionClose(s),
         Coherent(s), s.fault = "none"
  PROVE  Coherent(t) /\ SameProc(s, t) /\ t.closed
<1>1. CASE s.closed
  BY <1>1, Zenon DEF SessionClose, SameProc
<1>2. CASE ~s.closed
  <2>1. \A x \in Closable(s) : s.h[x] = "open"
    BY <1>2, Zenon DEF Closable, Coherent
  <2>2. t = [AddRefs(With(s, Closable(s), "closing"), 1) EXCEPT
               !.closed = TRUE, !.timer_started = FALSE]
    BY <2>1, <1>2, Zenon DEF SessionClose, UvClose
  <2>3. /\ t.closed /\ ~t.timer_started /\ t.close_refs = s.close_refs + 1
        /\ t.h = [x \in Handles |-> IF x \in Closable(s) THEN "closing" ELSE s.h[x]]
    BY <2>2, Zenon DEF SessionType, With, AddRefs
  <2>4. /\ t.active = s.active /\ t.eof = s.eof /\ t.proc_id = s.proc_id
        /\ t.next_proc_id = s.next_proc_id /\ t.kill_reason = s.kill_reason
        /\ t.freed = s.freed /\ t.fault = s.fault
    BY <2>2, Zenon DEF SessionType, With, AddRefs
  <2>5. SameProc(s, t)
    BY <2>3, <2>4, ConstantTypes DEF SameProc, Closable
  <2>6. Coherent(t)
    BY <2>3, <2>4, <1>2, ConstantTypes DEF Coherent, Closable, Refs, RefBit, Bit, SessionType, Pipes
  <2> QED BY <2>3, <2>5, <2>6, Zenon
<1> QED BY <1>1, <1>2, Zenon

\* session_send_frame leaves a coherent session, unchanged or closed.
LEMMA SendCoherent ==
  ASSUME NEW s \in SessionType, NEW o, Coherent(s), s.fault = "none"
  PROVE  /\ Coherent(Send(s, o)) /\ SameProc(s, Send(s, o))
         /\ Send(s, o) = s \/ Send(s, o).closed
BY SessionCloseCoherent DEF Send, SameProc
-----------------------------------------------------------------------------
(* The inductive invariant.                                                *)

\* What holds as long as libuv's contract has been kept.
Intact ==
  /\ Coherent(session)
  /\ phase = "up" /\ ~session.closed => session.timer_started
  /\ session.active <=> child # "none"
  /\ session.active => /\ session.proc_id = child_id
                       /\ exits[child_id] = "none"
                       /\ session.kill_reason = blame
  /\ child_id < session.next_proc_id
  /\ session.freed => session.close_refs = 0 /\ session.closed

\* Ids that have not been given out have no history.
FreshIds ==
  \A p \in 0..MaxProcs : p >= session.next_proc_id => exits[p] = "none"

IInv ==
  /\ TypeOK
  /\ NeverClosedTwice
  /\ phase = "new" => session = NewSession /\ batch = 0 /\ child = "none"
  /\ ~Fault => Intact
  /\ FreshIds
  /\ ReasonTrue

\* A session that has just been accepted satisfies the invariant.
LEMMA InitIInv == Init => IInv
<1> SUFFICES ASSUME Init PROVE IInv
  BY Zenon
<1>1. NewSession \in SessionType
  <2>1. [x \in Handles |-> IF x = "tcp" THEN "open" ELSE "none"] \in [Handles -> HandleStates]
    BY Zenon DEF HandleStates
  <2>2. 1 \in 1..(MaxProcs + 1)
    BY SessionAssumption
  <2> QED BY <2>1, <2>2, ConstantTypes, Zenon DEF NewSession, SessionType
<1>2. TypeOK
  <2>1. exits \in [0..MaxProcs -> KillReasons \cup {"none", "unsent"}]
    BY Zenon DEF Init
  <2>2. /\ blame \in KillReasons
        /\ child \in {"none", "running", "exited"}
    BY Zenon DEF Init, KillReasons
  <2>3. batch \in 0..MaxBatch /\ child_id \in 0..MaxProcs
    BY SessionAssumption DEF Init
  <2> QED BY <1>1, <2>1, <2>2, <2>3, Zenon DEF Init, TypeOK
<1>3. Coherent(session)
  BY ConstantTypes DEF Init, NewSession, Coherent, Refs, RefBit, Bit
<1>4. Intact
  BY <1>3 DEF Init, NewSession, Intact
<1>5. exits[child_id] = "none" /\ "none" \notin KillReasons
  BY SessionAssumption DEF Init, KillReasons
<1> QED BY <1>2, <1>4, <1>5, Zenon DEF Init, NewSession, IInv, NeverClosedTwice, FreshIds, ReasonTrue

\* What a step of a live session can start from.
LEMMA LiveFacts ==
  ASSUME IInv, Live
  PROVE  /\ session \in SessionType /\ session.fault = "none" /\ ~session.freed
         /\ Coherent(session) /\ Intact
         /\ batch > 0 => phase = "up"
         /\ batch \in 0..MaxBatch /\ MaxBatch \in Nat
BY SessionAssumption DEF IInv, TypeOK, Live, Fault, Intact

\* t has the same child as s.
SameChild(s, t) ==
  /\ t.active = s.active /\ t.proc_id = s.proc_id
  /\ t.next_proc_id = s.next_proc_id /\ t.freed = s.freed /\ t.fault = s.fault

\* An open session keeps its timer.
StaysUp(s, t) ==
  t.closed \/ (t.closed = s.closed /\ t.timer_started = s.timer_started)

\* Steps that keep the child; a KILL or a timeout may write kill_reason.
LEMMA SameChildStep ==
  ASSUME IInv, Live, phase = "up", phase' = "up", batch' \in 0..MaxBatch,
         session' \in SessionType, Coherent(session'),
         SameChild(session, session'), StaysUp(session, session'),
         \/ session'.kill_reason = session.kill_reason /\ blame' = blame
         \/ session.active /\ session'.kill_reason = blame',
         child' \in {"none", "running", "exited"}, child' = "none" <=> child = "none",
         child_id' = child_id, exits' = exits
  PROVE  IInv'
<1>1. Intact /\ TypeOK /\ ~session.freed
  BY LiveFacts, Zenon DEF IInv
<1>2. blame' \in KillReasons
  BY <1>1, Zenon DEF TypeOK, SessionType
<1>3. TypeOK'
  BY <1>1, <1>2, Zenon DEF TypeOK
<1>4. Intact'
  BY <1>1, Zenon DEF Intact, SameChild, StaysUp
<1>5. FreshIds'
  <2>1. FreshIds /\ child_id < session.next_proc_id /\ session.next_proc_id \in Nat /\ child_id \in Nat
    BY <1>1 DEF IInv, Intact, TypeOK, SessionType
  <2> QED BY <2>1 DEF FreshIds, SameChild
<1>6. ReasonTrue'
  <2>1. CASE blame' = blame
    BY <2>1, Zenon DEF IInv, ReasonTrue
  <2>2. CASE session.active
    <3>1. exits[child_id] = "none" /\ "none" \notin KillReasons
      BY <2>2, <1>1, Zenon DEF Intact, KillReasons
    <3> QED BY <3>1, Zenon DEF ReasonTrue
  <2> QED BY <2>1, <2>2, Zenon
<1>7. NeverClosedTwice'
  BY Zenon DEF IInv, NeverClosedTwice, SameChild
<1> QED BY <1>3, <1>4, <1>5, <1>6, <1>7, Zenon DEF IInv

\* Steps of a session without a child that end without one; they may breach
\* the contract, but not by closing a handle twice.
LEMMA NoChildStep ==
  ASSUME IInv, Live, phase = "up", phase' = "up", batch' \in 0..MaxBatch,
         ~session.active, session' \in SessionType,
         session'.fault # "double_close",
         session'.next_proc_id >= session.next_proc_id,
         session'.fault = "none" =>
           /\ Coherent(session') /\ ~session'.active /\ ~session'.freed
           /\ StaysUp(session, session'),
         UNCHANGED ghosts
  PROVE  IInv'
<1>1. Intact /\ TypeOK /\ ~session.freed
  BY LiveFacts, Zenon DEF IInv
<1>2. TypeOK'
  BY <1>1, Zenon DEF TypeOK, ghosts
<1>3. /\ session.next_proc_id \in Nat /\ session'.next_proc_id \in Nat /\ child_id \in Nat
      /\ UNCHANGED <<child, child_id, exits, blame>>
  BY <1>1, <1>2 DEF TypeOK, SessionType, ghosts
<1>4. session'.fault = "none" => Intact'
  BY <1>1, <1>3 DEF Intact, StaysUp
<1>5. FreshIds' /\ ReasonTrue'
  BY <1>3 DEF IInv, FreshIds, ReasonTrue
<1> QED BY <1>2, <1>4, <1>5, Zenon DEF IInv, NeverClosedTwice, Fault
-----------------------------------------------------------------------------
(* Steps of session.c and of the frame handlers.                           *)

\* A callback that only calls session_close keeps the invariant.
LEMMA CloseStep ==
  ASSUME IInv, Live, phase = "up", phase' = phase, batch' \in 0..MaxBatch,
         session' = SessionClose(session), UNCHANGED ghosts
  PROVE  IInv'
<1>1. session' \in SessionType
  BY LiveFacts, SessionCloseType, Zenon
<1>2. Coherent(session') /\ SameProc(session, session') /\ session'.closed
  BY LiveFacts, SessionCloseCoherent, Zenon
<1>3. UNCHANGED <<child, child_id, exits, blame>>
  BY Zenon DEF ghosts
<1>4. SameChild(session, session') /\ StaysUp(session, session')
  BY <1>2, Zenon DEF SameProc, SameChild, StaysUp
<1>5. session'.kill_reason = session.kill_reason
  BY <1>2, Zenon DEF SameProc
<1>6. child \in {"none", "running", "exited"}
  BY Zenon DEF IInv, TypeOK
<1> QED BY <1>1, <1>2, <1>3, <1>4, <1>5, <1>6, SameChildStep, LiveFacts, Zenon

\* A step that prepares u from the session and then sends a frame.
LEMMA SendStep ==
  ASSUME IInv, Live, phase = "up", phase' = phase, batch' \in 0..MaxBatch,
         NEW u \in SessionType, Coherent(u), SameChild(session, u),
         u.closed = session.closed, u.timer_started = session.timer_started,
         NEW o, session' = Send(u, o),
         \/ u.kill_reason = session.kill_reason /\ blame' = blame
         \/ session.active /\ u.kill_reason = blame',
         child' \in {"none", "running", "exited"}, child' = "none" <=> child = "none",
         child_id' = child_id, exits' = exits
  PROVE  IInv'
<1>1. u.fault = "none"
  BY LiveFacts, Zenon DEF SameChild
<1>2. session' \in SessionType
  BY SendType, Zenon
<1>3. /\ Coherent(session') /\ SameProc(u, session')
      /\ session' = u \/ session'.closed
  BY <1>1, SendCoherent, Zenon
<1>4. SameChild(session, session') /\ StaysUp(session, session')
  BY <1>3, Zenon DEF SameProc, SameChild, StaysUp
<1>5. session'.kill_reason = u.kill_reason
  BY <1>3, Zenon DEF SameProc
<1> QED BY <1>2, <1>3, <1>4, <1>5, SameChildStep, Zenon

\* read_cb and the idle timeout
LEMMA ReadIInv == IInv /\ (ReadFails \/ ReadFrames \/ BadHeader \/ IdleClose) => IInv'
<1> SUFFICES ASSUME IInv, ReadFails \/ ReadFrames \/ BadHeader \/ IdleClose PROVE IInv'
  BY Zenon
<1>1. CASE ReadFails \/ IdleClose
  BY <1>1, CloseStep, LiveFacts, Zenon DEF ReadFails, IdleClose, Loop
<1>2. CASE BadHeader
  BY <1>2, CloseStep, LiveFacts DEF BadHeader
<1>3. CASE ReadFrames
  <2>1. /\ Live /\ phase = "up" /\ phase' = "up" /\ session' = session
        /\ UNCHANGED <<child, child_id, exits, blame>>
    BY <1>3, Zenon DEF ReadFrames, Loop, ghosts
  <2>2. batch' \in 0..MaxBatch
    BY <1>3, <2>1, LiveFacts DEF ReadFrames
  <2>3. SameChild(session, session') /\ StaysUp(session, session')
    BY <2>1, Zenon DEF SameChild, StaysUp
  <2>4. child \in {"none", "running", "exited"}
    BY Zenon DEF IInv, TypeOK
  <2> QED BY <2>1, <2>2, <2>3, <2>4, SameChildStep, LiveFacts, Zenon
<1> QED BY <1>1, <1>2, <1>3, Zenon

\* A frame is handled in the loop, by a session that is live.
LEMMA FrameFacts ==
  ASSUME IInv, Frame, phase' = phase
  PROVE  Live /\ phase = "up" /\ batch' \in 0..MaxBatch
BY LiveFacts DEF Frame

\* The flag of the upload is no part of what keeps a session coherent.
LEMMA UploadField ==
  ASSUME NEW s \in SessionType, Coherent(s), NEW b \in BOOLEAN,
         NEW u, u = [s EXCEPT !.upload = b]
  PROVE  /\ u \in SessionType /\ Coherent(u) /\ SameChild(s, u)
         /\ u.closed = s.closed /\ u.timer_started = s.timer_started
         /\ u.kill_reason = s.kill_reason
<1>1. u \in SessionType
  BY Zenon DEF SessionType
<1>2. /\ u.h = s.h /\ u.close_refs = s.close_refs /\ u.eof = s.eof
      /\ u.closed = s.closed /\ u.timer_started = s.timer_started
      /\ u.kill_reason = s.kill_reason /\ SameChild(s, u)
  BY Zenon DEF SessionType, SameChild
<1>3. Coherent(u)
  BY <1>2 DEF Coherent, Refs, RefBit, SameChild
<1> QED BY <1>1, <1>2, <1>3, Zenon

\* The handlers that reply, start or end an upload keep the invariant.
LEMMA ReplyIInv ==
  ASSUME IInv, NEW o \in Outcomes, ReplyOnly(o) \/ UploadBegins(o) \/ UploadEnds(o)
  PROVE  IInv'
<1>1. /\ Live /\ phase = "up" /\ phase' = phase /\ batch' \in 0..MaxBatch
      /\ UNCHANGED <<child, child_id, exits, blame>>
  BY FrameFacts, Zenon DEF ReplyOnly, UploadBegins, UploadEnds, ghosts
<1>2. child \in {"none", "running", "exited"}
  BY Zenon DEF IInv, TypeOK
<1>3. CASE ReplyOnly(o)
  <2>1. SameChild(session, session)
    BY Zenon DEF SameChild
  <2>2. session' = Send(session, o)
    BY <1>3, Zenon DEF ReplyOnly
  <2> QED BY <2>1, <2>2, <1>1, <1>2, SendStep, LiveFacts, Zenon
<1>4. CASE UploadBegins(o) \/ UploadEnds(o)
  <2>1. PICK b \in BOOLEAN : session' = Send([session EXCEPT !.upload = b], o)
    BY <1>4, Zenon DEF UploadBegins, UploadEnds, TransferAbort
  <2> DEFINE u == [session EXCEPT !.upload = b]
  <2>2. /\ u \in SessionType /\ Coherent(u) /\ SameChild(session, u)
        /\ u.closed = session.closed /\ u.timer_started = session.timer_started
        /\ u.kill_reason = session.kill_reason
    BY <1>1, UploadField, LiveFacts, Zenon
  <2> HIDE DEF u
  <2> QED BY <2>1, <2>2, <1>1, <1>2, SendStep, LiveFacts, Zenon DEF u
<1> QED BY <1>3, <1>4, Zenon
-----------------------------------------------------------------------------
(* Spawning.                                                               *)

\* proc_reset on a session without a child
LEMMA ProcResetCoherent ==
  ASSUME NEW s \in SessionType, Coherent(s), s.h["process"] # "open",
         NEW t, t = ProcReset(s)
  PROVE  /\ Coherent(t) /\ ~t.active /\ t.freed = s.freed /\ t.fault = s.fault
         /\ t.closed = s.closed /\ t.timer_started = s.timer_started
         /\ t.next_proc_id = s.next_proc_id /\ t.h = s.h
<1>1. /\ t.h = s.h /\ t.close_refs = s.close_refs /\ t.eof = {} /\ ~t.active
      /\ t.closed = s.closed /\ t.timer_started = s.timer_started
      /\ t.freed = s.freed /\ t.fault = s.fault /\ t.next_proc_id = s.next_proc_id
  BY Zenon DEF SessionType, ProcReset
<1>2. Coherent(t)
  BY <1>1, Zenon DEF Coherent, Refs, RefBit
<1> QED BY <1>1, <1>2, Zenon

\* A handler that ends without a child and then sends a frame.
LEMMA NoChildSend ==
  ASSUME IInv, Live, phase = "up", phase' = phase, batch' \in 0..MaxBatch,
         ~session.active, NEW u \in SessionType, NEW o, session' = Send(u, o),
         u.fault # "double_close", u.next_proc_id >= session.next_proc_id,
         u.fault = "none" =>
           /\ Coherent(u) /\ ~u.active /\ ~u.freed
           /\ u.closed = session.closed /\ u.timer_started = session.timer_started,
         UNCHANGED ghosts
  PROVE  IInv'
<1>1. session' \in SessionType
  BY SendType, Zenon
<1>2. CASE u.fault = "none"
  <2>1. /\ Coherent(session') /\ SameProc(u, session')
        /\ session' = u \/ session'.closed
    BY <1>2, SendCoherent, Zenon
  <2>2. StaysUp(session, session')
    BY <1>2, <2>1, Zenon DEF StaysUp
  <2> QED BY <1>1, <1>2, <2>1, <2>2, NoChildStep, Zenon DEF SameProc
<1>3. CASE u.fault # "none"
  <2>1. session'.fault = u.fault
    BY <1>3, FaultKept, Zenon
  <2>2. session'.next_proc_id = u.next_proc_id
    BY <1>3, Zenon DEF Send, SessionClose, UvClose, With, Breach, AddRefs, SessionType
  <2> QED BY <1>1, <1>3, <2>1, <2>2, NoChildStep, Zenon
<1> QED BY <1>2, <1>3, Zenon

\* A spawn refused for want of memory keeps the invariant.
LEMMA SpawnNoMemoryIInv ==
  ASSUME IInv, NEW o, SpawnNoMemory(o)
  PROVE  IInv'
<1>1. /\ Live /\ phase = "up" /\ phase' = phase /\ batch' \in 0..MaxBatch
      /\ ~session.active /\ session' = Send(ProcReset(session), o) /\ UNCHANGED ghosts
  BY FrameFacts, Zenon DEF SpawnNoMemory
<1>2. session.h["process"] # "open"
  BY <1>1, LiveFacts, Zenon DEF Coherent
<1>3. PICK u : u = ProcReset(session)
  BY Zenon
<1>4. u \in SessionType
  BY <1>1, <1>3, LiveFacts, ProcResetType, Zenon
<1>5. /\ Coherent(u) /\ ~u.active /\ u.freed = session.freed /\ u.fault = session.fault
      /\ u.closed = session.closed /\ u.timer_started = session.timer_started
      /\ u.next_proc_id = session.next_proc_id
  BY <1>1, <1>2, <1>3, LiveFacts, ProcResetCoherent, Zenon
<1>6. session.next_proc_id \in Nat
  BY DEF IInv, TypeOK, SessionType
<1> QED BY <1>1, <1>3, <1>4, <1>5, <1>6, LiveFacts, NoChildSend

\* The id of the next child is taken from next_proc_id.
LEMMA NextProcCoherent ==
  ASSUME NEW s \in SessionType, Coherent(s), ~s.active, s.next_proc_id <= MaxProcs,
         NEW t, t = NextProc(s)
  PROVE  /\ t \in SessionType /\ Coherent(t) /\ ~t.active /\ t.eof = {}
         /\ t.h = s.h /\ t.close_refs = s.close_refs
         /\ t.closed = s.closed /\ t.timer_started = s.timer_started
         /\ t.freed = s.freed /\ t.fault = s.fault
         /\ t.proc_id = s.next_proc_id /\ t.next_proc_id = s.next_proc_id + 1
         /\ t.kill_reason = "exit"
<1>1. ProcReset(s) \in SessionType
  BY ProcResetType, Zenon
<1>2. s.next_proc_id \in 0..MaxProcs /\ s.next_proc_id + 1 \in 1..(MaxProcs + 1)
  BY SessionAssumption DEF SessionType
<1>3. t \in SessionType
  BY <1>1, <1>2, ZenonT(120) DEF NextProc, SessionType, ProcReset
<1>4. /\ t.h = s.h /\ t.close_refs = s.close_refs /\ t.eof = {} /\ ~t.active
      /\ t.closed = s.closed /\ t.timer_started = s.timer_started
      /\ t.freed = s.freed /\ t.fault = s.fault
      /\ t.proc_id = s.next_proc_id /\ t.next_proc_id = s.next_proc_id + 1
      /\ t.kill_reason = "exit"
  BY <1>1, <1>2, ZenonT(60) DEF NextProc, ProcReset, SessionType
<1>5. Coherent(t)
  BY <1>4, ZenonT(60) DEF Coherent, Refs, RefBit
<1> QED BY <1>3, <1>4, <1>5, Zenon

\* A failed attempt leaves its pipes to libuv, without a reference.
LEMMA AttemptedCoherent ==
  ASSUME NEW s \in SessionType, Coherent(s), ~s.active, s.eof = {}, s.fault = "none",
         NEW how \in SpawnFailures, NEW t, t = Attempted(s, how)
  PROVE  /\ t \in SessionType /\ t.fault \in {"none", "reuse"}
         /\ t.next_proc_id = s.next_proc_id
         /\ t.fault = "none" =>
              /\ Coherent(t) /\ t.h["process"] # "open" /\ t.freed = s.freed
              /\ t.closed = s.closed /\ t.timer_started = s.timer_started
<1>1. PICK pipes, tried :
        /\ pipes \in SUBSET Pipes /\ tried \in {pipes, pipes \cup {"process"}}
        /\ t = With(UvClose(UvInit(s, tried), pipes, "orphan"), tried \ pipes, "none")
  BY Zenon DEF Attempted, Pipes
<1>2. t \in SessionType
  <2>1. "orphan" \in HandleStates /\ "none" \in HandleStates
    BY Zenon DEF HandleStates
  <2> QED BY <1>1, <2>1, UvType, WithType
<1>3. CASE \A x \in tried : s.h[x] = "none"
  <2>1. UvInit(s, tried) = With(s, tried, "open")
    BY <1>3, Zenon DEF UvInit
  <2>2. PICK v : v = With(s, tried, "open")
    BY Zenon
  <2>3. /\ v \in SessionType
        /\ v.h = [x \in Handles |-> IF x \in tried THEN "open" ELSE s.h[x]]
    BY <2>2, ConstantTypes, WithType DEF With, SessionType
  <2>4. \A x \in pipes : v.h[x] = "open"
    BY <1>1, <2>3, Zenon DEF Handles
  <2>5. t = With(With(v, pipes, "orphan"), tried \ pipes, "none")
    BY <1>1, <2>1, <2>2, <2>4, Zenon DEF UvClose
  <2>6. /\ t.h = [x \in Handles |-> IF x \in tried \ pipes THEN "none"
                                     ELSE IF x \in pipes THEN "orphan" ELSE s.h[x]]
        /\ t.close_refs = s.close_refs /\ t.eof = {} /\ ~t.active
        /\ t.closed = s.closed /\ t.timer_started = s.timer_started
        /\ t.freed = s.freed /\ t.fault = s.fault /\ t.next_proc_id = s.next_proc_id
    <3>1. t.h = [x \in Handles |-> IF x \in tried \ pipes THEN "none"
                  ELSE IF x \in pipes THEN "orphan" ELSE v.h[x]]
      BY <2>3, <2>5 DEF With, SessionType
    <3>2. \A x \in Handles : x \notin tried \ pipes /\ x \notin pipes => v.h[x] = s.h[x]
      BY <2>3, <1>1, Zenon
    <3> QED BY <2>2, <2>5, <3>1, <3>2 DEF With, SessionType
  <2>7. /\ \A x \in {"timer", "tcp"} : t.h[x] = s.h[x]
        /\ t.h["process"] = s.h["process"]
        /\ \A x \in Pipes : RefBit(t, x) = RefBit(s, x)
    <3>1. \A x \in {"timer", "tcp"} : t.h[x] = s.h[x]
      BY <2>6, <1>1, Zenon DEF Handles, Pipes
    <3>2. t.h["process"] = s.h["process"]
      BY <2>6, <1>1, <1>3 DEF Handles, Pipes
    <3>3. \A x \in Pipes : t.h[x] = s.h[x] \/ (t.h[x] = "orphan" /\ s.h[x] = "none")
      BY <2>6, <1>1, <1>3, SMTT(30) DEF Handles, Pipes
    <3> QED BY <3>1, <3>2, <3>3, Zenon DEF RefBit, Bit
  <2>8. Coherent(t)
    BY <2>6, <2>7 DEF Coherent, Refs, RefBit, Pipes
  <2> QED BY <1>2, <2>6, <2>7, <2>8 DEF Coherent
<1>4. CASE ~ \A x \in tried : s.h[x] = "none"
  <2>1. PICK v : v = [s EXCEPT !.fault = "reuse"]
    BY Zenon
  <2>2. t = With(UvClose(v, pipes, "orphan"), tried \ pipes, "none")
    BY <1>1, <1>4, <2>1, Zenon DEF UvInit, Breach
  <2>3. t.fault = "reuse" /\ t.next_proc_id = s.next_proc_id
    BY <2>1, <2>2, Zenon DEF UvClose, With, Breach, SessionType
  <2> QED BY <1>2, <2>3, Zenon
<1> QED BY <1>3, <1>4, Zenon

\* A spawn that fails half-way keeps the invariant (it may reuse a handle).
LEMMA SpawnFailsIInv ==
  ASSUME IInv, NEW how \in SpawnFailures, NEW o, SpawnFails(how, o)
  PROVE  IInv'
<1>1. /\ Live /\ phase = "up" /\ phase' = phase /\ batch' \in 0..MaxBatch
      /\ ~session.active /\ session.next_proc_id <= MaxProcs
      /\ session' = Send(ProcReset(Attempted(NextProc(session), how)), o)
      /\ UNCHANGED ghosts
  BY FrameFacts, Zenon DEF SpawnFails
<1>2. PICK s : s = NextProc(session)
  BY Zenon
<1>3. /\ s \in SessionType /\ Coherent(s) /\ ~s.active /\ s.eof = {}
      /\ s.closed = session.closed /\ s.timer_started = session.timer_started
      /\ s.freed = session.freed /\ s.fault = session.fault
      /\ s.next_proc_id = session.next_proc_id + 1
  BY <1>1, <1>2, LiveFacts, NextProcCoherent, Zenon
<1>4. PICK t : t = Attempted(s, how)
  BY Zenon
<1>5. /\ t \in SessionType /\ t.fault \in {"none", "reuse"}
      /\ t.next_proc_id = s.next_proc_id
      /\ t.fault = "none" =>
           /\ Coherent(t) /\ t.h["process"] # "open" /\ t.freed = s.freed
           /\ t.closed = s.closed /\ t.timer_started = s.timer_started
  BY <1>1, <1>3, <1>4, LiveFacts, AttemptedCoherent
<1>6. PICK u : u = ProcReset(t)
  BY Zenon
<1>7. u \in SessionType
  BY <1>5, <1>6, ProcResetType, Zenon
<1>8. u.fault = t.fault /\ u.next_proc_id = t.next_proc_id
  BY <1>5, <1>6, Zenon DEF ProcReset, SessionType
<1>9. t.fault = "none" =>
        /\ Coherent(u) /\ ~u.active /\ u.freed = t.freed
        /\ u.closed = t.closed /\ u.timer_started = t.timer_started
  BY <1>5, <1>6, ProcResetCoherent, Zenon
<1>10. session.next_proc_id \in Nat /\ ~session.freed
  BY <1>1, LiveFacts DEF IInv, TypeOK, SessionType
<1>11. u.next_proc_id >= session.next_proc_id
  BY <1>3, <1>5, <1>8, <1>10
<1>12. session' = Send(u, o)
  BY <1>1, <1>2, <1>4, <1>6, Zenon
<1> QED BY <1>1, <1>3, <1>5, <1>7, <1>8, <1>9, <1>10, <1>11, <1>12, NoChildSend, Zenon

\* uv_spawn takes the three handles and one reference for each.
LEMMA SpawnedCoherent ==
  ASSUME NEW s \in SessionType, Coherent(s), ~s.active, s.fault = "none",
         s.next_proc_id <= MaxProcs, NEW t, t = Spawned(s)
  PROVE  /\ t \in SessionType /\ t.fault \in {"none", "reuse"}
         /\ t.next_proc_id = s.next_proc_id + 1
         /\ t.fault = "none" =>
              /\ Coherent(t) /\ t.active /\ t.proc_id = s.next_proc_id
              /\ t.freed = s.freed /\ t.kill_reason = "exit"
              /\ t.closed = s.closed /\ t.timer_started = s.timer_started
<1> DEFINE X == Pipes \cup {"process"}
<1>1. PICK n : n = NextProc(s)
  BY Zenon
<1>2. /\ n \in SessionType /\ Coherent(n) /\ ~n.active /\ n.eof = {} /\ n.h = s.h
      /\ n.closed = s.closed /\ n.timer_started = s.timer_started
      /\ n.freed = s.freed /\ n.fault = s.fault
      /\ n.proc_id = s.next_proc_id /\ n.next_proc_id = s.next_proc_id + 1
      /\ n.kill_reason = "exit"
  BY <1>1, NextProcCoherent
<1>3. PICK v : v = UvInit(n, X)
  BY Zenon
<1>4. v \in SessionType
  <2>1. "none" \in HandleStates
    BY Zenon DEF HandleStates
  <2> QED BY <1>2, <1>3, <2>1, UvType, Zenon
<1>5. t = [AddRefs(v, 3) EXCEPT !.active = TRUE]
  BY <1>1, <1>3, Zenon DEF Spawned
<1>6. /\ t \in SessionType /\ t.h = v.h /\ t.active /\ t.close_refs = v.close_refs + 3
      /\ t.eof = v.eof /\ t.closed = v.closed /\ t.timer_started = v.timer_started
      /\ t.freed = v.freed /\ t.fault = v.fault
      /\ t.proc_id = v.proc_id /\ t.next_proc_id = v.next_proc_id
      /\ t.kill_reason = v.kill_reason
  <2>1. AddRefs(v, 3) \in SessionType
    BY <1>4 DEF SessionType, AddRefs
  <2> QED BY <2>1, <1>4, <1>5, ZenonT(120) DEF SessionType, AddRefs
<1>7. CASE \A x \in X : n.h[x] = "none"
  <2>1. v = With(n, X, "open")
    BY <1>3, <1>7, Zenon DEF UvInit
  <2>2. /\ v.h = [x \in Handles |-> IF x \in X THEN "open" ELSE n.h[x]]
        /\ v.close_refs = n.close_refs /\ v.eof = n.eof /\ v.closed = n.closed
        /\ v.timer_started = n.timer_started /\ v.freed = n.freed
        /\ v.fault = n.fault /\ v.proc_id = n.proc_id
        /\ v.next_proc_id = n.next_proc_id /\ v.kill_reason = n.kill_reason
    BY <2>1, <1>2, Zenon DEF With, SessionType
  <2>3. /\ t.h["timer"] = n.h["timer"] /\ t.h["tcp"] = n.h["tcp"]
        /\ t.h["process"] = "open" /\ t.h["stdout"] = "open" /\ t.h["stderr"] = "open"
        /\ n.h["process"] = "none" /\ n.h["stdout"] = "none" /\ n.h["stderr"] = "none"
    BY <2>2, <1>6, <1>7, SMTT(30) DEF Handles, Pipes
  <2>4. Coherent(t)
    BY <2>2, <2>3, <1>2, <1>6 DEF Coherent, Refs, RefBit, Bit
  <2> QED BY <1>2, <1>6, <2>2, <2>4
<1>8. CASE ~ \A x \in X : n.h[x] = "none"
  <2>1. v = [n EXCEPT !.fault = "reuse"]
    BY <1>2, <1>3, <1>8, Zenon DEF UvInit, Breach
  <2>2. v.fault = "reuse" /\ v.next_proc_id = n.next_proc_id
    BY <2>1, <1>2, Zenon DEF SessionType
  <2> QED BY <1>2, <1>6, <2>2, Zenon
<1> QED BY <1>7, <1>8, Zenon

\* A spawn that succeeds keeps the invariant, and its id has no history.
LEMMA SpawnOkIInv ==
  ASSUME IInv, NEW o, SpawnOk(o)
  PROVE  IInv'
<1>1. /\ Live /\ phase = "up" /\ phase' = phase /\ batch' \in 0..MaxBatch
      /\ ~session.active /\ session.next_proc_id <= MaxProcs
      /\ session' = Send(Spawned(session), o)
      /\ child' = "running" /\ child_id' = session.next_proc_id
      /\ blame' = "exit" /\ exits' = exits
  BY FrameFacts, Zenon DEF SpawnOk
<1>2. PICK t : t = Spawned(session)
  BY Zenon
<1>3. /\ t \in SessionType /\ t.fault \in {"none", "reuse"}
      /\ t.next_proc_id = session.next_proc_id + 1
      /\ t.fault = "none" =>
           /\ Coherent(t) /\ t.active /\ t.proc_id = session.next_proc_id
           /\ t.freed = session.freed /\ t.kill_reason = "exit"
           /\ t.closed = session.closed /\ t.timer_started = session.timer_started
  BY <1>1, <1>2, LiveFacts, SpawnedCoherent, Zenon
<1>4. session' \in SessionType
  BY <1>1, <1>2, <1>3, SendType, Zenon
<1>5. session.next_proc_id \in 1..MaxProcs
  BY <1>1, SessionAssumption DEF IInv, TypeOK, SessionType
<1>6. TypeOK'
  <2>1. session.next_proc_id \in 0..MaxProcs
    BY <1>5
  <2> QED BY <1>1, <1>4, <2>1, ConstantTypes, Zenon DEF IInv, TypeOK
<1>7. exits[session.next_proc_id] = "none"
  BY <1>5 DEF IInv, FreshIds
<1>71. ReasonTrue'
  <2>1. "none" \notin KillReasons
    BY Zenon DEF KillReasons
  <2> QED BY <1>1, <1>7, <2>1, Zenon DEF ReasonTrue
<1>8. CASE t.fault = "none"
  <2>1. /\ Coherent(session') /\ SameProc(t, session')
        /\ session' = t \/ session'.closed
    BY <1>1, <1>2, <1>3, <1>8, SendCoherent, Zenon
  <2>2. /\ session'.active /\ session'.proc_id = child_id' /\ ~session'.freed
        /\ session'.kill_reason = blame'
        /\ session'.next_proc_id = session.next_proc_id + 1 /\ session'.fault = "none"
    BY <1>1, <1>3, <1>8, <2>1, LiveFacts, Zenon DEF SameProc
  <2>3. ~session'.closed => session'.timer_started
    BY <1>1, <1>3, <1>8, <2>1, LiveFacts, Zenon DEF Intact
  <2>4. Intact'
    BY <1>1, <1>5, <1>7, <2>1, <2>2, <2>3 DEF Intact
  <2>5. FreshIds'
    BY <1>1, <1>5, <2>2 DEF IInv, FreshIds
  <2> QED BY <1>1, <1>6, <1>71, <2>2, <2>4, <2>5, Zenon DEF IInv, NeverClosedTwice
<1>9. CASE t.fault = "reuse"
  <2>1. session'.fault = "reuse"
    BY <1>1, <1>2, <1>3, <1>9, FaultKept, Zenon
  <2>2. session'.next_proc_id = t.next_proc_id
    BY <1>1, <1>2, <1>3, Zenon DEF Send, SessionClose, UvClose, With, Breach, AddRefs, SessionType
  <2>3. FreshIds'
    BY <1>1, <1>3, <1>5, <2>2 DEF IInv, FreshIds
  <2> QED BY <1>1, <1>6, <1>71, <2>1, <2>3, Zenon DEF IInv, NeverClosedTwice, Fault
<1> QED BY <1>3, <1>8, <1>9, Zenon
-----------------------------------------------------------------------------
(* KILL and the timeouts: only kill_reason is written.                     *)

\* kill_reason is no part of what keeps a session coherent.
LEMMA ReasonField ==
  ASSUME NEW s \in SessionType, Coherent(s), NEW r \in KillReasons,
         NEW u, u = [s EXCEPT !.kill_reason = r]
  PROVE  /\ u \in SessionType /\ Coherent(u) /\ SameChild(s, u)
         /\ u.closed = s.closed /\ u.timer_started = s.timer_started
         /\ u.kill_reason = r
<1>1. u \in SessionType /\ u.kill_reason = r
  BY Zenon DEF SessionType
<1>2. /\ u.h = s.h /\ u.close_refs = s.close_refs /\ u.eof = s.eof
      /\ u.closed = s.closed /\ u.timer_started = s.timer_started /\ SameChild(s, u)
  BY Zenon DEF SessionType, SameChild
<1>3. Coherent(u)
  BY <1>2 DEF Coherent, Refs, RefBit, SameChild
<1> QED BY <1>1, <1>2, <1>3, Zenon

\* proc_handle_kill keeps the invariant.
LEMMA KillIInv ==
  ASSUME IInv, NEW ok \in BOOLEAN, NEW o, Kill(ok, o)
  PROVE  IInv'
<1>1. /\ Live /\ phase = "up" /\ phase' = phase /\ batch' \in 0..MaxBatch
      /\ session.active
      /\ session' = Send([session EXCEPT !.kill_reason = "killed"], o)
      /\ child' \in {child, Killed(child)}
      /\ blame' = "killed"
      /\ UNCHANGED <<child_id, exits>>
  BY FrameFacts, Zenon DEF Kill
<1>2. /\ child' \in {"none", "running", "exited"}
      /\ child' = "none" <=> child = "none"
  BY <1>1, Zenon DEF Killed, IInv, TypeOK
<1>3. PICK u : u = [session EXCEPT !.kill_reason = "killed"]
  BY Zenon
<1>4. /\ u \in SessionType /\ Coherent(u) /\ SameChild(session, u)
      /\ u.closed = session.closed /\ u.timer_started = session.timer_started
      /\ u.kill_reason = "killed"
  <2>1. "killed" \in KillReasons
    BY Zenon DEF KillReasons
  <2> QED BY <2>1, <1>1, <1>3, LiveFacts, ReasonField
<1>5. session' = Send(u, o) /\ u.kill_reason = blame'
  BY <1>1, <1>3, <1>4, Zenon
<1>6. child_id' = child_id /\ exits' = exits
  BY <1>1, Zenon
<1> QED BY <1>1, <1>2, <1>4, <1>5, <1>6, SendStep, Zenon
-----------------------------------------------------------------------------
(* Events of the child.                                                    *)

\* proc_maybe_finalize closes pipes that are open and have no reader.
LEMMA FinalizeCoherent ==
  ASSUME NEW s \in SessionType, Coherent(s), s.fault = "none",
         NEW t, t = MaybeFinalize(s)
  PROVE  /\ t \in SessionType /\ Coherent(t) /\ t.fault = "none"
         /\ t.active = s.active /\ t.freed = s.freed /\ t.closed = s.closed
         /\ t.timer_started = s.timer_started /\ t.next_proc_id = s.next_proc_id
         /\ s.active => t = s
<1>1. CASE ~s.active /\ s.eof = Pipes
  <2>1. PICK v : v = UvClose(s, Pipes, "closing")
    BY Zenon
  <2>2. v \in SessionType
    <3>1. "closing" \in HandleStates
      BY Zenon DEF HandleStates
    <3> QED BY <2>1, <3>1, UvType, Zenon
  <2>3. s.h["stdout"] = "stopped" /\ s.h["stderr"] = "stopped" /\ s.h["process"] # "open"
    BY <1>1, Zenon DEF Coherent, Pipes
  <2>4. v = With(s, Pipes, "closing")
    BY <2>1, <2>3, Zenon DEF UvClose, Pipes
  <2>5. /\ v.h = [x \in Handles |-> IF x \in Pipes THEN "closing" ELSE s.h[x]]
        /\ v.close_refs = s.close_refs /\ v.closed = s.closed /\ v.active = s.active
        /\ v.timer_started = s.timer_started /\ v.freed = s.freed
        /\ v.fault = s.fault /\ v.next_proc_id = s.next_proc_id
    BY <2>4, Zenon DEF With, SessionType
  <2>6. /\ v.h["timer"] = s.h["timer"] /\ v.h["tcp"] = s.h["tcp"]
        /\ v.h["process"] = s.h["process"]
        /\ v.h["stdout"] = "closing" /\ v.h["stderr"] = "closing"
    BY <2>5 DEF Handles, Pipes
  <2>7. t = ProcReset(v)
    BY <1>1, <2>1, Zenon DEF MaybeFinalize
  <2>8. /\ t.h = v.h /\ t.close_refs = v.close_refs /\ t.closed = v.closed
        /\ ~t.active /\ t.eof = {} /\ t.timer_started = v.timer_started
        /\ t.freed = v.freed /\ t.fault = v.fault /\ t.next_proc_id = v.next_proc_id
    BY <2>2, <2>7, ZenonT(60) DEF ProcReset, SessionType
  <2>9. Coherent(t)
    BY <1>1, <2>3, <2>5, <2>6, <2>8 DEF Coherent, Refs, RefBit, Bit
  <2>10. t \in SessionType
    BY <2>2, <2>7, ProcResetType, Zenon
  <2>11. t.active = s.active
    BY <1>1, <2>8, <2>10, Zenon DEF SessionType
  <2> QED BY <1>1, <2>5, <2>8, <2>9, <2>10, <2>11, Zenon
<1>2. CASE ~(~s.active /\ s.eof = Pipes)
  BY <1>2, Zenon DEF MaybeFinalize
<1> QED BY <1>1, <1>2, Zenon

\* Output of a child keeps the invariant.
LEMMA PipeReadIInv ==
  ASSUME IInv, NEW p \in Pipes, NEW o, PipeRead(p, o)
  PROVE  IInv'
<1>1. /\ Live /\ phase = "up" /\ phase' = phase /\ batch' = batch
      /\ session' = Send(session, o)
      /\ UNCHANGED <<child, child_id, exits, blame>>
  BY Zenon DEF PipeRead, Loop, ghosts
<1>2. child \in {"none", "running", "exited"}
  BY Zenon DEF IInv, TypeOK
<1>3. SameChild(session, session)
  BY Zenon DEF SameChild
<1>4. batch' \in 0..MaxBatch
  BY <1>1, LiveFacts, Zenon
<1> QED BY <1>1, <1>2, <1>3, <1>4, SendStep, LiveFacts, Zenon

\* The end of a pipe, which may finalise the child, keeps the invariant.
LEMMA PipeEofIInv ==
  ASSUME IInv, NEW p \in Pipes, PipeEof(p)
  PROVE  IInv'
<1> DEFINE w == With(session, {p}, "stopped")
<1>1. /\ Live /\ phase = "up" /\ phase' = "up" /\ batch' = batch
      /\ session.h[p] = "open"
      /\ session' = MaybeFinalize([w EXCEPT !.eof = @ \cup {p}])
      /\ UNCHANGED ghosts
  BY Zenon DEF PipeEof, Loop
<1>2. PICK u : u = [w EXCEPT !.eof = @ \cup {p}]
  BY Zenon
<1>3. w \in SessionType
  <2>1. "stopped" \in HandleStates
    BY Zenon DEF HandleStates
  <2> QED BY <2>1, <1>1, LiveFacts, WithType, Zenon
<1>4. /\ w.h = [x \in Handles |-> IF x = p THEN "stopped" ELSE session.h[x]]
      /\ w.close_refs = session.close_refs /\ w.closed = session.closed
      /\ w.timer_started = session.timer_started /\ w.kill_reason = session.kill_reason
      /\ w.eof = session.eof /\ SameChild(session, w)
  BY <1>1, LiveFacts, Zenon DEF With, SessionType, SameChild
<1> HIDE DEF w
<1>5. u \in SessionType
  BY <1>2, <1>3, Zenon DEF SessionType
<1>6. /\ u.h = w.h /\ u.close_refs = w.close_refs /\ u.closed = w.closed
      /\ u.timer_started = w.timer_started /\ u.kill_reason = w.kill_reason
      /\ u.eof = w.eof \cup {p} /\ SameChild(w, u)
  BY <1>2, <1>3, Zenon DEF SessionType, SameChild
<1>7. SameChild(session, u)
  BY <1>4, <1>6, Zenon DEF SameChild
<1>8. Coherent(u)
  <2>1. Coherent(session) /\ session.eof \subseteq Pipes
    BY <1>1, LiveFacts, Zenon DEF SessionType
  <2>2. \A q \in u.eof : u.h[q] = "stopped"
    BY <2>1, <1>4, <1>6 DEF Coherent, Handles
  <2>3. /\ u.h["timer"] = session.h["timer"] /\ u.h["tcp"] = session.h["tcp"]
        /\ u.h["process"] = session.h["process"]
    BY <1>4, <1>6 DEF Handles, Pipes
  <2>4. /\ RefBit(u, "stdout") = RefBit(session, "stdout")
        /\ RefBit(u, "stderr") = RefBit(session, "stderr")
    BY <1>1, <1>4, <1>6 DEF Handles, Pipes, RefBit, Bit
  <2>5. RefBit(u, "timer") = RefBit(session, "timer")
        /\ RefBit(u, "process") = RefBit(session, "process")
    BY <2>3, Zenon DEF RefBit
  <2>6. u.close_refs = Refs(u)
    BY <2>1, <2>3, <2>4, <2>5, <1>4, <1>6 DEF Coherent, Refs
  <2>7. /\ u.active = session.active /\ u.closed = session.closed
        /\ u.timer_started = session.timer_started
    BY <1>4, <1>6, <1>7, Zenon DEF SameChild
  <2> QED BY <2>1, <2>2, <2>3, <2>6, <2>7, ZenonT(60) DEF Coherent
<1>9. session' = MaybeFinalize(u) /\ u.fault = "none"
  BY <1>1, <1>2, <1>7, LiveFacts, Zenon DEF SameChild
<1>10. /\ session' \in SessionType /\ Coherent(session') /\ session'.fault = "none"
       /\ session'.active = u.active /\ session'.freed = u.freed
       /\ session'.closed = u.closed /\ session'.timer_started = u.timer_started
       /\ session'.next_proc_id = u.next_proc_id
       /\ u.active => session' = u
  BY <1>5, <1>8, <1>9, FinalizeCoherent
<1>11. StaysUp(session, session')
  BY <1>4, <1>6, <1>10, Zenon DEF StaysUp
<1>12. batch' \in 0..MaxBatch
  BY <1>1, LiveFacts, Zenon
<1>13. CASE session.active
  <2>1. session' = u /\ session'.kill_reason = session.kill_reason
    BY <1>4, <1>6, <1>7, <1>10, <1>13, Zenon DEF SameChild
  <2>2. /\ child \in {"none", "running", "exited"}
        /\ UNCHANGED <<child, child_id, exits, blame>>
    BY <1>1, Zenon DEF IInv, TypeOK, ghosts
  <2> QED BY <1>1, <1>7, <1>10, <1>11, <1>12, <2>1, <2>2, SameChildStep, Zenon
<1>14. CASE ~session.active
  <2>1. /\ ~session'.active /\ ~session'.freed /\ session'.next_proc_id = session.next_proc_id
    BY <1>1, <1>7, <1>10, <1>14, LiveFacts, Zenon DEF SameChild
  <2>2. session.next_proc_id \in Nat
    BY DEF IInv, TypeOK, SessionType
  <2> QED BY <1>1, <1>10, <1>11, <1>12, <1>14, <2>1, <2>2, NoChildStep
<1> QED BY <1>13, <1>14, Zenon

\* proc_exit_cb clears active before it sends EXIT; the order makes no
\* difference to the session.
LEMMA SendInactive ==
  ASSUME NEW s \in SessionType, NEW o
  PROVE  Send([s EXCEPT !.active = FALSE], o) = [Send(s, o) EXCEPT !.active = FALSE]
<1>1. PICK u : u = [s EXCEPT !.active = FALSE]
  BY Zenon
<1>2. /\ u \in SessionType /\ u.closed = s.closed /\ u.h = s.h
      /\ u.timer_started = s.timer_started /\ u.fault = s.fault
  BY <1>1, Zenon DEF SessionType
<1>3. SessionClose(u) = [SessionClose(s) EXCEPT !.active = FALSE]
  <2>1. Closable(u) = Closable(s)
    BY <1>2, Zenon DEF Closable
  <2>2. UvClose(u, Closable(s), "closing")
          = [UvClose(s, Closable(s), "closing") EXCEPT !.active = FALSE]
    BY <1>1, <1>2, ZenonT(120) DEF UvClose, With, Breach, SessionType
  <2>3. UvClose(s, Closable(s), "closing") \in SessionType
    <3>1. "closing" \in HandleStates
      BY Zenon DEF HandleStates
    <3> QED BY <3>1, UvType, Zenon
  <2>4. CASE s.closed
    BY <1>1, <1>2, <2>4, Zenon DEF SessionClose
  <2>5. CASE ~s.closed
    <3> DEFINE t == UvClose(s, Closable(s), "closing")
               v == UvClose(u, Closable(u), "closing")
    <3>1. t \in SessionType /\ v = [t EXCEPT !.active = FALSE]
      BY <2>1, <2>2, <2>3, Zenon
    <3>2. SessionClose(s) = [AddRefs(t, 1) EXCEPT !.closed = TRUE, !.timer_started = FALSE]
      BY <2>5, Zenon DEF SessionClose
    <3>3. SessionClose(u) = [AddRefs(v, 1) EXCEPT !.closed = TRUE, !.timer_started = FALSE]
      BY <1>2, <2>5, Zenon DEF SessionClose
    <3> HIDE DEF t, v
    <3>4. [AddRefs(v, 1) EXCEPT !.closed = TRUE, !.timer_started = FALSE]
            = [[AddRefs(t, 1) EXCEPT !.closed = TRUE, !.timer_started = FALSE]
                 EXCEPT !.active = FALSE]
      BY <3>1, Zenon DEF AddRefs, SessionType
    <3> QED BY <3>2, <3>3, <3>4, Zenon
  <2> QED BY <2>4, <2>5, Zenon
<1> QED BY <1>1, <1>3, Zenon DEF Send

\* The session proc_exit_cb leaves to proc_maybe_finalize.
LEMMA ExitCoherent ==
  ASSUME NEW s \in SessionType, Coherent(s), s.fault = "none", s.h["process"] = "open",
         NEW o, NEW w,
         w = UvClose(Send([s EXCEPT !.active = FALSE], o), {"process"}, "closing")
  PROVE  /\ w \in SessionType /\ Coherent(w) /\ w.fault = "none" /\ ~w.active
         /\ w.freed = s.freed /\ w.next_proc_id = s.next_proc_id /\ StaysUp(s, w)
<1>1. PICK v : v = Send(s, o)
  BY Zenon
<1>2. /\ v \in SessionType /\ Coherent(v) /\ SameProc(s, v)
      /\ v = s \/ v.closed
  BY <1>1, SendType, SendCoherent, Zenon
<1>3. PICK u : u = [v EXCEPT !.active = FALSE]
  BY Zenon
<1>4. u \in SessionType
  BY <1>2, <1>3, Zenon DEF SessionType
<1>5. /\ u.h = v.h /\ u.close_refs = v.close_refs /\ u.eof = v.eof /\ ~u.active
      /\ u.closed = v.closed /\ u.timer_started = v.timer_started
      /\ u.freed = v.freed /\ u.fault = v.fault /\ u.next_proc_id = v.next_proc_id
  BY <1>2, <1>3, Zenon DEF SessionType
<1>6. u.h["process"] = "open" /\ v.h["process"] = "open" /\ v.fault = "none"
  BY <1>2, <1>5, ConstantTypes DEF SameProc
<1>7. w = UvClose(u, {"process"}, "closing")
  <2>1. Send([s EXCEPT !.active = FALSE], o) = u
    BY <1>1, <1>3, SendInactive, Zenon
  <2> QED BY <2>1, Zenon
<1>8. w = With(u, {"process"}, "closing")
  BY <1>6, <1>7, Zenon DEF UvClose
<1>9. w \in SessionType
  <2>1. "closing" \in HandleStates
    BY Zenon DEF HandleStates
  <2> QED BY <1>4, <1>8, <2>1, WithType, Zenon
<1>10. /\ w.h = [x \in Handles |-> IF x \in {"process"} THEN "closing" ELSE u.h[x]]
       /\ w.close_refs = u.close_refs /\ w.eof = u.eof /\ w.active = u.active
       /\ w.closed = u.closed /\ w.timer_started = u.timer_started
       /\ w.freed = u.freed /\ w.fault = u.fault /\ w.next_proc_id = u.next_proc_id
  BY <1>4, <1>8, WithFields
<1>11. /\ w.h["timer"] = v.h["timer"] /\ w.h["tcp"] = v.h["tcp"]
       /\ w.h["stdout"] = v.h["stdout"] /\ w.h["stderr"] = v.h["stderr"]
       /\ w.h["process"] = "closing"
  BY <1>5, <1>10 DEF Handles, Pipes
<1>12. \A p \in w.eof : w.h[p] = "stopped"
  <2>1. v.eof \subseteq Pipes
    BY <1>2, Zenon DEF SessionType
  <2> QED BY <2>1, <1>2, <1>5, <1>10, <1>11 DEF Coherent, Pipes
<1>13. w.close_refs = Refs(w)
  BY <1>2, <1>5, <1>6, <1>10, <1>11 DEF Coherent, Refs, RefBit, Bit
<1>14. Coherent(w)
  BY <1>2, <1>5, <1>10, <1>11, <1>12, <1>13, ZenonT(120) DEF Coherent
<1>15. StaysUp(s, w)
  BY <1>2, <1>5, <1>10, Zenon DEF StaysUp
<1>16. ~w.active /\ w.fault = "none" /\ w.freed = s.freed /\ w.next_proc_id = s.next_proc_id
  BY <1>2, <1>5, <1>6, <1>10 DEF SameProc
<1> QED BY <1>9, <1>14, <1>15, <1>16, Zenon

\* proc_exit_cb keeps the invariant.
LEMMA ProcExitCbIInv ==
  ASSUME IInv, NEW o, ProcExitCb(o)
  PROVE  IInv'
<1>1. /\ Live /\ phase = "up" /\ phase' = phase /\ batch' = batch
      /\ session.h["process"] = "open" /\ child' = "none"
      /\ \E reason \in {session.kill_reason, "unsent"} :
           exits' = [exits EXCEPT ![session.proc_id] = reason]
      /\ UNCHANGED <<child_id, blame>>
  BY Zenon DEF ProcExitCb, Loop
<1>2. PICK w : w = UvClose(Send([session EXCEPT !.active = FALSE], o), {"process"}, "closing")
  BY Zenon
<1>3. session' = MaybeFinalize(w)
  BY <1>2, Zenon DEF ProcExitCb
<1>4. /\ w \in SessionType /\ Coherent(w) /\ w.fault = "none" /\ ~w.active
      /\ w.freed = session.freed /\ w.next_proc_id = session.next_proc_id
      /\ StaysUp(session, w)
  BY <1>1, <1>2, LiveFacts, ExitCoherent
<1>5. /\ session' \in SessionType /\ Coherent(session') /\ session'.fault = "none"
      /\ session'.active = w.active /\ session'.freed = w.freed
      /\ session'.closed = w.closed /\ session'.timer_started = w.timer_started
      /\ session'.next_proc_id = w.next_proc_id
  BY <1>3, <1>4, FinalizeCoherent, Zenon
<1>6. /\ Intact /\ session.active /\ session.proc_id = child_id
      /\ session.kill_reason = blame
  BY <1>1, LiveFacts, Zenon DEF Intact, Coherent
<1>7. /\ session.kill_reason \in KillReasons /\ child_id \in 0..MaxProcs
      /\ exits \in [0..MaxProcs -> KillReasons \cup {"none", "unsent"}]
      /\ session.next_proc_id \in Nat /\ child_id < session.next_proc_id
  BY <1>6 DEF IInv, TypeOK, SessionType, Intact
<1>8. exits' \in [0..MaxProcs -> KillReasons \cup {"none", "unsent"}]
  BY <1>1, <1>7, Zenon
<1>9. TypeOK'
  BY <1>1, <1>5, <1>8, Zenon DEF IInv, TypeOK
<1>10. Intact'
  BY <1>1, <1>4, <1>5, <1>6, <1>7, LiveFacts, Zenon DEF Intact, StaysUp
<1>11. \A p \in 0..MaxProcs : p # child_id => exits'[p] = exits[p]
  BY <1>1, <1>6, <1>7, Zenon
<1>12. exits'[child_id] \in {session.kill_reason, "unsent"}
  BY <1>1, <1>6, <1>7, Zenon
<1>13. FreshIds'
  <2>1. session'.next_proc_id = session.next_proc_id
    BY <1>4, <1>5, Zenon
  <2> QED BY <2>1, <1>1, <1>7, <1>11 DEF IInv, FreshIds
<1>14. ReasonTrue'
  <2>1. "unsent" \notin KillReasons
    BY Zenon DEF KillReasons
  <2> QED BY <2>1, <1>1, <1>6, <1>12, Zenon DEF ReasonTrue
<1> QED BY <1>1, <1>5, <1>9, <1>10, <1>13, <1>14, Zenon DEF IInv, NeverClosedTwice

\* The death of a child is nothing to the session until proc_exit_cb.
LEMMA ChildExitsIInv ==
  ASSUME IInv, ChildExits
  PROVE  IInv'
<1>1. /\ child = "running" /\ child' = "exited"
      /\ UNCHANGED <<session, phase, batch, child_id, exits, blame>>
  BY Zenon DEF ChildExits
<1>2. TypeOK' /\ FreshIds' /\ ReasonTrue' /\ NeverClosedTwice' /\ Fault' = Fault
  BY <1>1, Zenon DEF IInv, TypeOK, FreshIds, ReasonTrue, NeverClosedTwice, Fault
<1>3. Intact => Intact'
  BY <1>1, Zenon DEF Intact
<1> QED BY <1>1, <1>2, <1>3, Zenon DEF IInv
-----------------------------------------------------------------------------
(* The timer.                                                              *)

\* The timer, with any of its timeouts, keeps the invariant.
LEMMA HeartbeatIInv ==
  ASSUME IInv, NEW ping, NEW stalled, NEW o, NEW due \in KillReasons,
         Heartbeat(ping, stalled, o, due)
  PROVE  IInv'
<1>1. /\ Live /\ phase = "up" /\ phase' = "up" /\ batch' = batch
      /\ session' = CheckProc(CheckTransfer(Send(session, ping), stalled, o), due)
      /\ child' = IF session.active /\ due # "exit" THEN Killed(child) ELSE child
      /\ blame' = IF session.active /\ due # "exit" THEN due ELSE blame
      /\ UNCHANGED <<child_id, exits>>
  BY Zenon DEF Heartbeat, Loop
<1>2. /\ child' \in {"none", "running", "exited"}
      /\ child' = "none" <=> child = "none"
      /\ batch' \in 0..MaxBatch
  BY <1>1, Zenon DEF Killed, IInv, TypeOK
<1>3. PICK v : v = Send(session, ping)
  BY Zenon
<1>4. /\ v \in SessionType /\ Coherent(v) /\ SameProc(session, v)
      /\ v = session \/ v.closed
  BY <1>1, <1>3, LiveFacts, SendType, SendCoherent, Zenon
<1>5. PICK w : w = CheckTransfer(v, stalled, o)
  BY Zenon
<1>6. /\ w \in SessionType /\ Coherent(w) /\ SameChild(v, w)
      /\ StaysUp(v, w) /\ w.kill_reason = v.kill_reason
  <2>1. CASE stalled /\ v.upload
    <3>1. PICK z : z = Send(v, o)
      BY ZenonT(60)
    <3>2. /\ z \in SessionType /\ Coherent(z) /\ SameProc(v, z)
          /\ z = v \/ z.closed
      BY <1>1, <1>4, <3>1, LiveFacts, SendType, SendCoherent DEF SameProc
    <3>3. w = [z EXCEPT !.upload = FALSE]
      BY <1>5, <2>1, <3>1, Zenon DEF CheckTransfer, TransferAbort
    <3>4. /\ w \in SessionType /\ Coherent(w) /\ SameChild(z, w)
          /\ w.closed = z.closed /\ w.timer_started = z.timer_started
          /\ w.kill_reason = z.kill_reason
      BY <3>2, <3>3, UploadField, Zenon
    <3> QED BY <3>2, <3>4, Zenon DEF SameProc, SameChild, StaysUp
  <2>2. CASE ~(stalled /\ v.upload)
    BY <1>4, <1>5, <2>2, Zenon DEF CheckTransfer, SameChild, StaysUp
  <2> QED BY <2>1, <2>2, Zenon
<1>7. /\ session' \in SessionType /\ Coherent(session') /\ SameChild(w, session')
      /\ session'.closed = w.closed /\ session'.timer_started = w.timer_started
      /\ session'.kill_reason = IF w.active /\ due # "exit" THEN due ELSE w.kill_reason
  <2>1. session' = CheckProc(w, due)
    BY <1>1, <1>3, <1>5, Zenon
  <2>2. CASE w.active /\ due # "exit"
    <3>1. session' = [w EXCEPT !.kill_reason = due]
      BY <2>1, <2>2, Zenon DEF CheckProc
    <3> QED BY <1>6, <2>2, <3>1, ReasonField
  <2>3. CASE ~(w.active /\ due # "exit")
    BY <1>6, <2>1, <2>3, Zenon DEF CheckProc, SameChild
  <2> QED BY <2>2, <2>3, Zenon
<1>8. SameChild(session, session') /\ StaysUp(session, session')
  BY <1>4, <1>6, <1>7, Zenon DEF SameProc, SameChild, StaysUp
<1>9. \/ session'.kill_reason = session.kill_reason /\ blame' = blame
      \/ session.active /\ session'.kill_reason = blame'
  BY <1>1, <1>4, <1>6, <1>7, Zenon DEF SameProc, SameChild
<1> QED BY <1>1, <1>2, <1>7, <1>8, <1>9, SameChildStep, Zenon
-----------------------------------------------------------------------------
(* The close callbacks.                                                    *)

\* A close callback releases the reference of its handle.
LEMMA ReleaseCoherent ==
  ASSUME NEW s \in SessionType, Coherent(s), NEW x \in Handles, s.h[x] = "closing",
         NEW r, r = AddRefs(With(s, {x}, "none"), -1)
  PROVE  /\ r \in SessionType /\ Coherent(r) /\ SameChild(s, r)
         /\ r.closed = s.closed /\ r.timer_started = s.timer_started
         /\ r.kill_reason = s.kill_reason
<1>1. PICK w : w = With(s, {x}, "none")
  BY Zenon
<1>2. w \in SessionType
  <2>1. "none" \in HandleStates
    BY Zenon DEF HandleStates
  <2> QED BY <1>1, <2>1, WithType, Zenon
<1>3. /\ w.h = [y \in Handles |-> IF y \in {x} THEN "none" ELSE s.h[y]]
      /\ w.close_refs = s.close_refs /\ w.eof = s.eof /\ w.active = s.active
      /\ w.closed = s.closed /\ w.timer_started = s.timer_started
      /\ w.freed = s.freed /\ w.fault = s.fault /\ w.proc_id = s.proc_id
      /\ w.next_proc_id = s.next_proc_id /\ w.kill_reason = s.kill_reason
  BY <1>1, WithFields
<1>4. r = AddRefs(w, -1)
  BY <1>1, Zenon
<1>5. /\ r.h = w.h /\ r.close_refs = w.close_refs - 1 /\ r.eof = w.eof
      /\ r.active = w.active /\ r.closed = w.closed
      /\ r.timer_started = w.timer_started /\ r.freed = w.freed /\ r.fault = w.fault
      /\ r.proc_id = w.proc_id /\ r.next_proc_id = w.next_proc_id
      /\ r.kill_reason = w.kill_reason
  BY <1>2, <1>4, Zenon DEF AddRefs, SessionType
<1>6. /\ \A y \in Handles : y # x => r.h[y] = s.h[y]
      /\ r.h[x] = "none"
  BY <1>3, <1>5, SMTT(30)
<1>7. Refs(s) - 1 = Refs(r)
  <2>1. /\ x # "timer" => r.h["timer"] = s.h["timer"]
        /\ x # "tcp" => r.h["tcp"] = s.h["tcp"]
        /\ x # "process" => r.h["process"] = s.h["process"]
        /\ x # "stdout" => r.h["stdout"] = s.h["stdout"]
        /\ x # "stderr" => r.h["stderr"] = s.h["stderr"]
    BY <1>6, ConstantTypes, Zenon
  <2>2. x \in {"timer", "tcp", "process", "stdout", "stderr"}
    BY ConstantTypes, Zenon
  <2> QED BY <1>6, <2>1, <2>2 DEF Refs, RefBit, Bit
<1>8. s.close_refs >= 1 /\ s.close_refs \in Nat /\ s.close_refs = Refs(s)
  <2>1. Refs(r) \in Nat
    BY DEF Refs, RefBit, Bit
  <2> QED BY <1>7, <2>1 DEF Coherent, SessionType
<1>9. r \in SessionType
  <2>1. w.close_refs + (-1) \in Nat
    BY <1>3, <1>8
  <2>2. r = [w EXCEPT !.close_refs = w.close_refs + (-1)]
    BY <1>4, Zenon DEF AddRefs
  <2> QED BY <1>2, <2>1, <2>2, ZenonT(60) DEF SessionType
<1>10. \A p \in r.eof : r.h[p] = "stopped"
  <2>1. s.eof \subseteq Handles
    BY Zenon DEF SessionType, Handles
  <2> QED BY <2>1, <1>3, <1>5, <1>6 DEF Coherent
<1>11. /\ r.h["timer"] \in {"none", "open", "closing"}
       /\ r.timer_started <=> r.h["timer"] = "open"
  BY <1>3, <1>5, <1>6, ConstantTypes, SMTT(30) DEF Coherent
<1>12. /\ r.h["tcp"] \in {"none", "open", "closing"}
       /\ r.closed <=> r.h["tcp"] # "open"
  BY <1>3, <1>5, <1>6, ConstantTypes, SMTT(30) DEF Coherent
<1>13. /\ r.h["process"] \in {"none", "open", "closing"}
       /\ r.active <=> r.h["process"] = "open"
  BY <1>3, <1>5, <1>6, ConstantTypes, SMTT(30) DEF Coherent
<1>14. r.close_refs = Refs(r)
  BY <1>3, <1>5, <1>7, <1>8
<1>15. Coherent(r)
  BY <1>10, <1>11, <1>12, <1>13, <1>14, Zenon DEF Coherent
<1>16. SameChild(s, r)
  BY <1>3, <1>5, Zenon DEF SameChild
<1> QED BY <1>3, <1>5, <1>9, <1>15, <1>16, Zenon

\* A close callback keeps the invariant, the one that frees included.
LEMMA CloseCbIInv ==
  ASSUME IInv, NEW x \in Handles, CloseCb(x)
  PROVE  IInv'
<1>1. /\ Live /\ phase = "up" /\ phase' = "up" /\ batch' = batch
      /\ session.h[x] = "closing"
      /\ session' = MaybeFree(With(session, {x}, "none"))
      /\ child' = IF session'.freed /\ session.active THEN Killed(child) ELSE child
      /\ UNCHANGED <<child_id, exits, blame>>
  BY Zenon DEF CloseCb, Loop
<1>2. PICK r : r = AddRefs(With(session, {x}, "none"), -1)
  BY Zenon
<1>3. /\ r \in SessionType /\ Coherent(r) /\ SameChild(session, r)
      /\ r.closed = session.closed /\ r.timer_started = session.timer_started
      /\ r.kill_reason = session.kill_reason
  BY <1>1, <1>2, LiveFacts, ReleaseCoherent, ZenonT(60)
<1>4. session' = IF r.close_refs > 0 THEN r
                 ELSE [ProcAbort(TransferAbort(r)) EXCEPT !.freed = TRUE]
  BY <1>1, <1>2, Zenon DEF MaybeFree
<1>5. /\ child \in {"none", "running", "exited"}
      /\ batch' \in 0..MaxBatch
  BY <1>1, Zenon DEF IInv, TypeOK
<1>6. CASE r.close_refs > 0
  <2>1. session' = r /\ child' = child
    BY <1>1, <1>3, <1>4, <1>6, LiveFacts, Zenon DEF SameChild
  <2>2. StaysUp(session, session')
    BY <1>3, <2>1, Zenon DEF StaysUp
  <2> QED BY <1>1, <1>3, <1>5, <2>1, <2>2, SameChildStep, Zenon
<1>7. CASE ~(r.close_refs > 0)
  <2>1. r.close_refs = 0
    BY <1>3, <1>7, SMTT(30) DEF SessionType
  <2>2. r.h["timer"] # "open" /\ r.h["process"] # "open"
    BY <1>3, <2>1 DEF Coherent, Refs, RefBit, Bit
  <2>3. ~r.timer_started /\ ~r.active
    BY <1>3, <2>2, Zenon DEF Coherent
  <2>4. session.closed /\ ~session.active /\ child = "none"
    BY <1>1, <1>3, <2>3, LiveFacts, Zenon DEF Intact, SameChild
  <2>5. PICK a : a = [r EXCEPT !.upload = FALSE]
    BY Zenon
  <2>6. /\ a \in SessionType /\ Coherent(a) /\ SameChild(r, a)
        /\ a.closed = r.closed /\ a.timer_started = r.timer_started
    BY <1>3, <2>5, UploadField, Zenon
  <2>7. a.h = r.h /\ a.close_refs = r.close_refs
    BY <1>3, <2>5, Zenon DEF SessionType
  <2>8. PICK b : b = ProcReset(a)
    BY Zenon
  <2>9. b \in SessionType
    BY <2>6, <2>8, ProcResetType, Zenon
  <2>10. /\ Coherent(b) /\ ~b.active /\ b.fault = a.fault /\ b.closed = a.closed
         /\ b.timer_started = a.timer_started /\ b.next_proc_id = a.next_proc_id
         /\ b.h = a.h
    BY <2>2, <2>6, <2>7, <2>8, ProcResetCoherent
  <2>11. b.close_refs = a.close_refs
    BY <2>6, <2>8, Zenon DEF ProcReset, SessionType
  <2>12. session' = [b EXCEPT !.freed = TRUE]
    BY <1>4, <1>7, <2>3, <2>5, <2>6, <2>8, Zenon DEF ProcAbort, TransferAbort, SameChild
  <2>13. session' \in SessionType
    BY <2>9, <2>12, Zenon DEF SessionType
  <2>14. /\ session'.h = b.h /\ session'.close_refs = b.close_refs
         /\ session'.eof = b.eof /\ session'.active = b.active
         /\ session'.closed = b.closed /\ session'.timer_started = b.timer_started
         /\ session'.fault = b.fault /\ session'.next_proc_id = b.next_proc_id
    BY <2>9, <2>12, ZenonT(60) DEF SessionType
  <2>15. Coherent(session')
    BY <2>10, <2>14, SMTT(30) DEF Coherent, Refs, RefBit
  <2>16. /\ session'.closed /\ ~session'.active /\ session'.close_refs = 0
         /\ session'.fault = "none" /\ session'.next_proc_id = session.next_proc_id
    BY <1>1, <1>3, <2>1, <2>4, <2>6, <2>7, <2>10, <2>11, <2>14, LiveFacts, SMTT(30) DEF SameChild
  <2>17. child' = "none"
    BY <1>1, <2>4, Zenon
  <2>18. TypeOK'
    BY <1>1, <1>5, <2>13, <2>17, Zenon DEF IInv, TypeOK
  <2>19. Intact'
    BY <1>1, <2>15, <2>16, <2>17, LiveFacts, Zenon DEF Intact
  <2>20. FreshIds' /\ ReasonTrue'
    BY <1>1, <2>16, Zenon DEF IInv, FreshIds, ReasonTrue
  <2> QED BY <1>1, <2>16, <2>18, <2>19, <2>20, Zenon DEF IInv, NeverClosedTwice
<1> QED BY <1>6, <1>7, Zenon

\* The end of a pipe closed without a callback keeps the invariant.
LEMMA OrphanClosedIInv ==
  ASSUME IInv, NEW x \in Handles, OrphanClosed(x)
  PROVE  IInv'
<1>1. /\ Live /\ phase = "up" /\ phase' = "up" /\ batch' = batch
      /\ session.h[x] = "orphan" /\ session' = With(session, {x}, "none")
      /\ UNCHANGED <<child, child_id, exits, blame>>
  BY Zenon DEF OrphanClosed, Loop, ghosts
<1>2. session' \in SessionType
  <2>1. "none" \in HandleStates
    BY Zenon DEF HandleStates
  <2> QED BY <1>1, <2>1, LiveFacts, WithType, Zenon
<1>3. /\ session'.h = [y \in Handles |-> IF y \in {x} THEN "none" ELSE session.h[y]]
      /\ session'.close_refs = session.close_refs /\ session'.eof = session.eof
      /\ session'.active = session.active /\ session'.closed = session.closed
      /\ session'.timer_started = session.timer_started
      /\ session'.freed = session.freed /\ session'.fault = session.fault
      /\ session'.proc_id = session.proc_id
      /\ session'.next_proc_id = session.next_proc_id
      /\ session'.kill_reason = session.kill_reason
  BY <1>1, LiveFacts, WithFields
<1>4. x \in Pipes
  BY <1>1, LiveFacts, Zenon DEF Coherent, Handles
<1>5. /\ \A y \in Handles : y # x => session'.h[y] = session.h[y]
      /\ session'.h[x] = "none"
  BY <1>3, Zenon
<1>6. /\ session'.h["timer"] = session.h["timer"] /\ session'.h["tcp"] = session.h["tcp"]
      /\ session'.h["process"] = session.h["process"]
  BY <1>4, <1>5, ConstantTypes, Zenon DEF Pipes
<1>7. Refs(session') = Refs(session)
  <2>1. /\ x # "stdout" => session'.h["stdout"] = session.h["stdout"]
        /\ x # "stderr" => session'.h["stderr"] = session.h["stderr"]
    BY <1>5, ConstantTypes, ZenonT(60)
  <2> QED BY <1>1, <1>4, <1>5, <1>6, <2>1 DEF Refs, RefBit, Bit, Pipes
<1>8. \A p \in session'.eof : session'.h[p] = "stopped"
  <2>1. session.eof \subseteq Handles /\ Coherent(session)
    BY <1>1, LiveFacts, ZenonT(60) DEF SessionType, Handles
  <2> QED BY <2>1, <1>1, <1>3, <1>5 DEF Coherent
<1>9. Coherent(session')
  BY <1>1, <1>3, <1>6, <1>7, <1>8, LiveFacts, SMTT(30) DEF Coherent
<1>10. SameChild(session, session') /\ StaysUp(session, session')
  BY <1>3, Zenon DEF SameChild, StaysUp
<1>11. /\ child \in {"none", "running", "exited"}
       /\ batch' \in 0..MaxBatch
  BY <1>1, Zenon DEF IInv, TypeOK
<1> QED BY <1>1, <1>2, <1>3, <1>9, <1>10, <1>11, SameChildStep, Zenon
-----------------------------------------------------------------------------
(* on_new_connection.                                                      *)

\* on_new_connection keeps the invariant on its three paths.
LEMMA AcceptIInv ==
  ASSUME IInv, Accept
  PROVE  IInv'
<1>1. /\ session = NewSession /\ phase' = "up" /\ batch' = batch /\ child = "none"
      /\ session' \in {SessionClose(session), SessionClose(WithTimer(session)),
                       WithTimer(session)}
      /\ UNCHANGED <<child, child_id, exits, blame>>
  BY Zenon DEF Accept, IInv, ghosts
<1>2. /\ session \in SessionType /\ Coherent(session) /\ Intact
      /\ session.fault = "none" /\ ~session.freed /\ ~session.active
  BY LiveFacts, <1>1, Zenon DEF Accept, NewSession
<1>3. PICK t : t = WithTimer(session)
  BY Zenon
<1>4. PICK v : v = With(session, {"timer"}, "open")
  BY Zenon
<1>5. v = UvInit(session, {"timer"})
  BY <1>1, <1>4, ConstantTypes, Zenon DEF UvInit, NewSession
<1>6. v \in SessionType
  <2>1. "open" \in HandleStates
    BY Zenon DEF HandleStates
  <2> QED BY <1>2, <1>4, <2>1, WithType, Zenon
<1>7. /\ v.h = [y \in Handles |-> IF y \in {"timer"} THEN "open" ELSE session.h[y]]
      /\ v.close_refs = session.close_refs /\ v.eof = session.eof
      /\ v.active = session.active /\ v.closed = session.closed
      /\ v.freed = session.freed /\ v.fault = session.fault
      /\ v.next_proc_id = session.next_proc_id
  BY <1>2, <1>4, WithFields
<1>8. t = [AddRefs(v, 1) EXCEPT !.timer_started = TRUE]
  BY <1>3, <1>5, Zenon DEF WithTimer
<1>9. t \in SessionType
  <2>1. AddRefs(v, 1) \in SessionType
    BY <1>6 DEF AddRefs, SessionType
  <2> QED BY <1>8, <2>1, Zenon DEF SessionType
<1>10. /\ t.h = v.h /\ t.close_refs = v.close_refs + 1 /\ t.eof = v.eof
       /\ t.active = v.active /\ t.closed = v.closed /\ t.timer_started
       /\ t.freed = v.freed /\ t.fault = v.fault /\ t.next_proc_id = v.next_proc_id
  BY <1>6, <1>8, Zenon DEF AddRefs, SessionType
<1>11. /\ t.h["timer"] = "open" /\ session.h["timer"] = "none"
       /\ t.h["tcp"] = session.h["tcp"] /\ t.h["process"] = session.h["process"]
       /\ t.h["stdout"] = session.h["stdout"] /\ t.h["stderr"] = session.h["stderr"]
       /\ session.eof = {}
  <2>1. session.h["timer"] = "none" /\ session.eof = {}
    BY <1>1, ConstantTypes, Zenon DEF NewSession
  <2>2. t.h = [y \in Handles |-> IF y \in {"timer"} THEN "open" ELSE session.h[y]]
    BY <1>7, <1>10, ZenonT(60)
  <2> QED BY <2>1, <2>2, ConstantTypes, Zenon
<1>12. Coherent(t)
  <2>1. /\ RefBit(t, "timer") = 1 /\ RefBit(session, "timer") = 0
        /\ Bit(t.h["tcp"] = "closing") = Bit(session.h["tcp"] = "closing")
        /\ RefBit(t, "process") = RefBit(session, "process")
        /\ RefBit(t, "stdout") = RefBit(session, "stdout")
        /\ RefBit(t, "stderr") = RefBit(session, "stderr")
    BY <1>11, ZenonT(30) DEF RefBit, Bit
  <2>2. /\ Bit(session.h["tcp"] = "closing") \in Nat /\ RefBit(session, "process") \in Nat
        /\ RefBit(session, "stdout") \in Nat /\ RefBit(session, "stderr") \in Nat
    BY SMTT(30) DEF RefBit, Bit
  <2>3. Refs(t) = Refs(session) + 1
    BY <2>1, <2>2, SMTT(30) DEF Refs
  <2>4. t.close_refs = Refs(t)
    <3>1. t.close_refs = session.close_refs + 1
      BY <1>7, <1>10, Zenon
    <3>2. session.close_refs = Refs(session)
      BY <1>2, Zenon DEF Coherent
    <3> QED BY <2>3, <3>1, <3>2, Zenon
  <2> QED BY <1>2, <1>7, <1>10, <1>11, <2>4, ZenonT(120) DEF Coherent
<1>13. \A s \in SessionType :
         Coherent(s) /\ s.fault = "none" =>
           /\ SessionClose(s) \in SessionType /\ Coherent(SessionClose(s))
           /\ SameProc(s, SessionClose(s)) /\ SessionClose(s).closed
  BY SessionCloseType, SessionCloseCoherent, Zenon
<1>14. /\ session' \in SessionType /\ Coherent(session')
       /\ session'.closed \/ session'.timer_started
       /\ ~session'.active /\ ~session'.freed /\ session'.fault = "none"
       /\ session'.next_proc_id = session.next_proc_id
  <2>1. t.fault = "none" /\ ~t.active /\ ~t.freed /\ t.next_proc_id = session.next_proc_id
    BY <1>2, <1>7, <1>10, Zenon
  <2>2. CASE session' = t
    BY <2>1, <2>2, <1>9, <1>10, <1>12, Zenon
  <2>3. CASE session' = SessionClose(session)
    BY <2>3, <1>2, <1>13, Zenon DEF SameProc
  <2>4. CASE session' = SessionClose(t)
    BY <2>1, <2>4, <1>9, <1>12, <1>13, Zenon DEF SameProc
  <2> QED BY <1>1, <1>3, <2>2, <2>3, <2>4, Zenon
<1>15. TypeOK' /\ FreshIds' /\ ReasonTrue' /\ NeverClosedTwice'
  BY <1>1, <1>14, Zenon DEF IInv, TypeOK, FreshIds, ReasonTrue, NeverClosedTwice
<1>16. Intact'
  BY <1>1, <1>2, <1>14, Zenon DEF Intact
<1> QED BY <1>1, <1>15, <1>16, Zenon DEF IInv
-----------------------------------------------------------------------------
(* The theorems.                                                           *)

\* Every frame handler keeps the invariant.
LEMMA HandleFrameIInv ==
  ASSUME IInv, HandleFrame
  PROVE  IInv'
<1>1. CASE BadHeader
  BY <1>1, ReadIInv, Zenon
<1>2. ASSUME NEW o \in Outcomes,
             ReplyOnly(o) \/ UploadBegins(o) \/ UploadEnds(o)
      PROVE  IInv'
  BY <1>2, ReplyIInv, Zenon
<1>3. ASSUME NEW o \in Outcomes, SpawnNoMemory(o) \/ SpawnOk(o)
      PROVE  IInv'
  BY <1>3, SpawnNoMemoryIInv, SpawnOkIInv, Zenon
<1>4. ASSUME NEW o \in Outcomes, NEW how \in SpawnFailures, SpawnFails(how, o)
      PROVE  IInv'
  BY <1>4, SpawnFailsIInv, Zenon
<1>5. ASSUME NEW o \in Outcomes, NEW ok \in BOOLEAN, Kill(ok, o)
      PROVE  IInv'
  BY <1>5, KillIInv, Zenon
<1> QED BY <1>1, <1>2, <1>3, <1>4, <1>5, Zenon DEF HandleFrame

\* The invariant is inductive: every callback of the event loop keeps it.
THEOREM NextIInv == IInv /\ [Next]_vars => IInv'
<1> SUFFICES ASSUME IInv, [Next]_vars PROVE IInv'
  BY Zenon
<1>1. CASE Accept \/ ReadFails \/ ReadFrames \/ IdleClose
  BY <1>1, AcceptIInv, ReadIInv, Zenon
<1>2. CASE HandleFrame
  BY <1>2, HandleFrameIInv, Zenon
<1>3. CASE ChildExits
  BY <1>3, ChildExitsIInv, Zenon
<1>4. ASSUME NEW o \in Outcomes, ProcExitCb(o) \/ \E p \in Pipes : PipeRead(p, o)
      PROVE  IInv'
  BY <1>4, ProcExitCbIInv, PipeReadIInv, Zenon
<1>5. ASSUME NEW p \in Pipes, PipeEof(p)
      PROVE  IInv'
  BY <1>5, PipeEofIInv, Zenon
<1>6. ASSUME NEW due \in KillReasons \ {"killed"}, TimeoutCb(due)
      PROVE  IInv'
  BY <1>6, HeartbeatIInv, Zenon DEF TimeoutCb
<1>7. ASSUME NEW x \in Handles, CloseCb(x) \/ OrphanClosed(x)
      PROVE  IInv'
  BY <1>7, CloseCbIInv, OrphanClosedIInv, Zenon
<1>8. CASE UNCHANGED vars
  <2>1. UNCHANGED <<session, phase, batch, child, child_id, exits, blame>>
    BY <1>8, Zenon DEF vars
  <2>2. /\ TypeOK' = TypeOK /\ Fault' = Fault /\ Intact' = Intact /\ FreshIds' = FreshIds
        /\ ReasonTrue' = ReasonTrue /\ NeverClosedTwice' = NeverClosedTwice
    BY <2>1, Zenon DEF TypeOK, Fault, Intact, FreshIds, ReasonTrue, NeverClosedTwice
  <2> QED BY <2>1, <2>2, Zenon DEF IInv
<1> QED BY <1>1, <1>2, <1>3, <1>4, <1>5, <1>6, <1>7, <1>8, Zenon DEF Next

\* In every behaviour of a session, whatever fails, the invariant holds.
THEOREM Invariance == Spec => []IInv
BY InitIInv, NextIInv, PTL DEF Spec

\* The state of a session always has its type (struct session).
THEOREM TypeCorrect == Spec => []TypeOK
<1>1. IInv => TypeOK
  BY Zenon DEF IInv
<1> QED BY <1>1, Invariance, PTL

\* close_refs counts exactly the handles whose close callback is still to come
\* (session_add_ref and session_release_ref are balanced on every path).
THEOREM RefsExact == Spec => []RefCountExact
<1>1. IInv => RefCountExact
  BY Zenon DEF IInv, Intact, Coherent, Refs, RefBit, RefCountExact, Held, Bit
<1> QED BY <1>1, Invariance, PTL

\* maybe_free_session never frees a session that has an open or closing handle
\* with a callback, or a child that has not been reaped.
THEOREM FreedLast == Spec => []NotFreedEarly
<1>1. IInv => NotFreedEarly
  <2> SUFFICES ASSUME IInv, ~Fault, session.freed
               PROVE  /\ \A x \in Handles : ~Held(x)
                      /\ ~session.active /\ child = "none"
    BY Zenon DEF NotFreedEarly
  <2>1. Intact /\ Coherent(session) /\ Refs(session) = 0 /\ session.closed
    BY Zenon DEF IInv, Intact, Coherent
  <2>2. /\ ~Held("timer") /\ ~Held("process") /\ ~Held("stdout") /\ ~Held("stderr")
        /\ session.h["tcp"] # "closing"
    BY <2>1 DEF Refs, RefBit, Bit, Held
  <2>3. ~Held("tcp")
    BY <2>1, <2>2, Zenon DEF Coherent, Held
  <2>4. ~session.active
    BY <2>1, <2>2, Zenon DEF Coherent, Held
  <2> QED BY <2>1, <2>2, <2>3, <2>4, ConstantTypes, Zenon DEF Intact
<1> QED BY <1>1, Invariance, PTL

\* uv_close is never called twice on a handle, on any path.
THEOREM ClosedOnce == Spec => []NeverClosedTwice
<1>1. IInv => NeverClosedTwice
  BY Zenon DEF IInv
<1> QED BY <1>1, Invariance, PTL

\* Until proc_exit_cb has run, a child belongs to a session that exists and
\* reports it under its own id.
THEOREM ChildAlwaysTracked == Spec => []ChildTracked
<1>1. IInv => ChildTracked
  <2> SUFFICES ASSUME IInv, ~Fault, child # "none"
               PROVE  /\ session.active /\ ~session.freed
                      /\ session.h["process"] = "open"
                      /\ session.proc_id = child_id /\ exits[child_id] = "none"
    BY Zenon DEF ChildTracked
  <2>1. Intact /\ session.active /\ session.h["process"] = "open"
    BY Zenon DEF IInv, Intact, Coherent
  <2>2. Refs(session) # 0
    BY <2>1 DEF Refs, RefBit, Bit
  <2> QED BY <2>1, <2>2, Zenon DEF Intact, Coherent
<1> QED BY <1>1, Invariance, PTL

\* The reason in an EXIT is the last one for which that very child was to be
\* killed, whatever happened to the children before it and to the session.
THEOREM ReasonAlwaysTrue == Spec => []ReasonTrue
<1>1. IInv => ReasonTrue
  BY Zenon DEF IInv
<1> QED BY <1>1, Invariance, PTL
=============================================================================

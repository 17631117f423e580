# A TLA+ verification of the luagent remote agent

The agent (`src/src/*.c`) is a single-threaded libuv server with an embedded
Lua engine. A client opens a TCP connection, sends framed requests and gets
framed answers: it uploads and downloads files, runs processes, opens TCP
relays and calls Lua operations. `src/tools/client_daemon.py` is a client that
keeps a connection open for local commands. Paths below are relative to the
repository, `src/`.

Nothing in the agent runs in parallel, and still almost everything interesting
happens between callbacks: libuv runs them in an order the code does not choose,
memory is released by whichever close callback comes last, and one read can
carry several requests. The modules keep the whole control of each handler and
abstract data to what the properties distinguish.

## 1. Inventory

| Part | State | Operations | What is hard |
|---|---|---|---|
| Receive path (`server.c`, `frame.c`) | `rx_buf`, `rx_used`, `rx_cap` | `read_cb`, header decoding | frames cut anywhere; buffer smaller than the largest legal frame |
| Session (`session.c`, `server.c`) | handles, `closed`, `close_refs`, `timer_started`, `pending_write_bytes` | accept, close, close callbacks, heartbeat, send | reference counting over five handles; handlers that run on a closed session |
| Processes (`proc.c`) | `struct proc_state`: `active`, pipes, `proc_id`, `kill_reason`, limits | spawn, output, end of file, exit, KILL, timeouts, abort | exit and ends of the pipes in any order; spawn that fails half way; handles used again |
| Uploads (`transfer.c`) | `struct transfer_state`, the `.part` file | PUT_BEGIN, PUT_CHUNK, PUT_END, abort, stall | shared temp name; death between unlink and rename; failures of each file operation |
| Downloads (`transfer.c`, `session.c`) | the same struct, the write queue | GET_BEGIN, `on_write_done` | the whole file is queued in one callback; short reads |
| Relays (`portfwd.c`) | list of relays, one connection each, pending bytes per direction | open, close, accept, connect, read, write, close callbacks | listener and sockets are freed by callbacks in any order; relay outlived by its connection; accepts that fail |
| Timeouts (`session.c`, `transfer.c`, `proc.c`) | time stamps | `heartbeat_cb`, every handler that notes a time | five checks in one callback, a late loop, limits that depend on each other |
| Dispatch, Lua (`protocol.c`, `lua_engine.c`, `bindings.c`, `lua/`) | `active_session`, relays, ids | `protocol_handle_control`, operations, `agent.*` | exactly one answer per request, and a true one, whichever send fails; argument vectors |
| Client daemon (`tools/client_daemon.py`) | `pending`, `streams`, `next_req_id`, `sock_lock`, `running` | a thread per command, the reader | answers and streams by id between threads; time-outs; a lock held while sending |
| Log file (`diag.c`) | `file`, the files `.1` to `.3` | `diag_log`, rotation | killed between two renames; a rename that refuses |
| Counters, start-up, prototype, tests | counters | | none |

How they meet: `read_cb` drives every handler; every handler answers through
`session_send_frame`, which may close the session; `session_close` stops the
timer and closes the connection; the last close callback aborts the uploads,
downloads and relays of the session and frees it; a child holds three
references to its session.

`PROJECT.json` lists every part under `components` and every hazard, at its
line, under `hazards`.

## 2. Modules

| Module | Models | Notes |
|---|---|---|
| `FrameReader` | `read_cb` and the header decoder | a byte is its position in the peer's stream, so a lost, repeated or misplaced byte shows |
| `Session` | accept, close, reference counts, child, timer callback of one session | handles have states; a breach of libuv's contract (init or close of a handle in use) is recorded in `fault`, and the session takes no further step, because what follows is undefined |
| `AtomicStore` | what uploads promise: files change by whole uploads (`Commit`), or are lost when a replacement is interrupted (`Interrupt`) | abstract, implemented by `Upload` |
| `Upload` | the PUT handlers of several sessions on a file system of names and inodes | the unlink and the rename are two steps, with only `Crash` in between |
| `MCUpload` | constants of `Upload` for TLC | `Disjoint` and `Shared` targets |
| `Download` | GET_BEGIN with its loop, the write queue | the loop is `pc = "reading"`, during which no write completes |
| `PortForward` | relays and their connections | close callbacks in any order |
| `Timers` | every time stamp and `heartbeat_cb` | a stamp is kept as its age; `Tick` moves the clock, the timer is at most `Late` late |
| `KeepAlive` | `Timers` composed with the daemon's reader thread | an `EXTENDS` composition: each step of the agent is a step of `Timers` |
| `Payload` | `kv_value`, `kv_copy`, `parse_kv`, `proc_build_args`, `collect_argv` | a payload is the sequence of its argv lines; `Asked` is the reference |
| `Dispatch` | a frame and its answer: `protocol_handle_control`, the Lua engine and operations, PROC_SPAWN, KILL | a handler is an operator from agent state to agent state; `sent` and `did` are what it sent and what it changed |
| `MCDispatch` | symmetry of `Dispatch` for TLC | sessions and argument values |
| `ClientDaemon` | the daemon's commands, reader and tables, with an agent as the other modules show it | one step per lock, send, poll or pop; the agent handles a frame when it is sent and its answers take any time |
| `DiagLog` | the log file and its rotation | one step per rename, with the agent killed anywhere; `replaces` says which C library it is |
| `Sums` | what a queue of writes adds up to | `Total`, the fold that the byte counters of `Download` and `PortForward` are measured against |
| `AgentProofs`, `SessionProofs`, `UpkeepProofs`, `UploadProofs`, `DownloadProofs`, `PortForwardProofs`, `ClientDaemonProofs`, `SumTheorems` | theorems | |

Operators and actions have the names of the functions they model where TLA+
allows it (`MaybeFree` is `maybe_free_session`, `ProcExitCb` is `proc_exit_cb`,
`Destroy` is `relay_destroy`). An operator that only exists as an altered version
of a definition, to show that a property can fail, is marked `Mutant` and stands
before the definition it alters; no specification uses it.

The agent's callbacks are atomic, with four exceptions, which are the places where something
can come in between or where intermediate states matter: the frames of one read
(`batch` in `Session`, `pc` in `FrameReader`), the loop of a download, the
unlink and rename of an upload, and the renames of a log rotation.

## 3. Runs

State counts are distinct states. Nine runs hold:

| Run | Checks | States |
|---|---|---|
| `frames` | `DispatchedPrefix`, `NothingWithheld`, `StreamConsumed`: what is handled is what was sent, nothing complete waits, everything is read in the end. `OverflowMeansOversize`: only a frame longer than `Cap - Chunk + 1` can overflow the buffer | 383 000 |
| `session` | `RefCountExact`, `NotFreedEarly`, `NeverClosedTwice`, `ChildTracked`, and `ReasonTrue`: the reason in an EXIT is the last one for which that child was to be killed; with failing allocations. `SessionFreed`: a closed session is freed once no child of it runs. `ChildReported`: a child with a timeout is reported while its session is open | 36 000 |
| `upload` | `CommittedWhole`, `NothingLeaked` and `Atomic` (`Upload` implements `AtomicStore`), with every file operation failing and a crash and restart at any step | 87 000 |
| `relay` | `PendingExact`, `ConnTracked`, `ConnFreedLast`, `OwnerAlive`, and `TornDown`: a closed relay is freed in the end with its connections, up to a write to a freed relay (`fault`) and a connection lost track of after a failed accept (`Botched`; section 4) | 482 000 |
| `download` | `PendingExact`, `EndMeansWhole`, and `OneAnswer`: one GET_END or ERROR per GET_BEGIN. `TypeOK` adds that no download outlives its event. A closed session still gets the callbacks of its writes | 290 000 |
| `keepalive` | `SilenceBounded`, `WorkBounded`: every limit is noticed within a period. `SessionKept`: a daemon that answers PINGs keeps its session, unless a frame that nobody asked for has put the PING off too long | 799 000 |
| `log` | `OnlyOldestLost`: what is on disk are the last lines, in order, and nothing is lost before all files are in use. `SizeBounded`: where rename replaces, no file reaches the limit | 60 000 |
| `dispatch` | `OneAnswer`: one answer to the session that asked, whichever sends fail. `Truthful`: success means that it happened, ERROR that nothing changed, with three exceptions that it names (section 4). `ArgsAsAsked`: the child's arguments. `DispatchTypeOK` adds that the engine is left without a session | 488 000 |
| `daemon` | `AnswerOwn`, `PutCommitted`, `GetWhole`: a command acts on its own answer, a put whose result is not an ERROR has been committed, and a get that succeeds is whole. `StreamKept`: output is neither lost nor reordered. `CommandEnds`: every command ends | 1 144 000 |

`TypeOK` is the type invariant of a module. The runs `frames`, `upload`, `relay` and
`download` check it; those of `Session` and `Timers` are proved (section 5). `Dispatch` and
`DiagLog` are extended together with other modules for the proofs, so the names of their
variables, `Init`, `Next` and `Spec` carry the component: `DispatchTypeOK`, `LogSpec`.

Three runs check what the documentation says and the code does not do.
`PROJECT.json` quotes the lines under `findings`.

| Run | Statement | What happens |
|---|---|---|
| `session_timeout` | process timeouts are enforced | closing the session stops the timer that enforces them, and the child keeps the session from being freed |
| `upload_lost` | finalizing is atomic | the agent dies between the unlink and the rename, and there is no file |
| `keepalive_idle` | the daemon's connection is persistent | its reader gives up after 5 s of silence; the PING comes with the first tick at or after 5 s |

### Bounds

* `frames`: frames of 2 to 13 bytes, reads of 1 to 3, a buffer of 12 bytes (four
  chunks, as in the code), so frames fill the buffer exactly or exceed it by one;
  3 frames let a read hold the end of one, a whole one and the start of a third.
* `session*`: two children are enough for the handles and ids of one to meet the
  next, two frames per read for a handler on a session that the previous one
  closed. `session_timeout` needs one of each.
* `upload*`: two sessions and two uploads, so that an aborted upload's chunks meet
  the next one and a temp file left by a crash meets the next upload; sizes 0 to 2
  with chunks of 0 to 2 bytes cover empty, split and excessive uploads. Upload
  numbers are request ids and are not used twice. The passing run takes clients
  with different targets (`Disjoint`; see section 4).
* `relay`: two sessions, two relays, two connections and two bytes pending per
  direction, in reads of one: a queue of two writes, of which the first completes or
  is cancelled before the second.
* `download`: a queue of 11 bytes, frames of 2 or 3, files of 0, 3 and 8 bytes (the
  last is larger than the queue), and frames of others that compete for it.
* `keepalive`: the transfer limit is below the session limit here and above it in the
  code (20 s and 15 s), so that a stalled upload can be seen to end; the timer is up to
  a period late and a PONG takes up to one. A session is closed at age 9, and only a frame
  sent unasked at age 5 or later excuses that: `unasked + MaxSilence + Latency >=
  SessionIdle` with 3 and 1 for the silence and the PONG. `UpkeepProofs` makes up for the
  small values. With the code's limits, 15 s, 5 s and 1 s, the frame must come some 9 s
  after the agent last heard the daemon. `keepalive_idle` has the code's limits in half
  seconds.
* `log`: two files kept instead of three, lines of 1 and 2 bytes and a limit of 4, so
  that a line fills a file exactly or does not fit, and is written whole, in part or not
  at all; nine lines rotate five times.
* `dispatch`: two sessions, so that one asks for what belongs to the other; two
  children and two relays, so that ids are stale, current or not yet given; payloads
  of up to two argv lines in any order, with repeated and missing keys, empty and
  overlong values. Paths are told apart by the buffers they fit in. `IdSpan` and
  `PortSpan`, 2^32 and 2^16 in the code, are 8, and clients ask for numbers on both sides
  of them.
* `daemon`: two commands at a time, which is what a pair of threads needs to meet; a
  file of two chunks; one PING, whose id is the first request's, which the code
  reaches after a thousand; two frames of output.

Deadlock is checked in `log` and `dispatch`. The other systems may come to rest, with
the session freed, the stream at its end or a bound used up.

### Fairness

* `FrameReader!Spec`: weak fairness of reads and of the parse loop. libuv delivers
  what the socket holds, and a callback runs to its end.
* `LoopFairness` (`Session`): weak fairness of accept, frame handling, the exit
  callback, close callbacks, and the end of a pipe once its child is gone.
  `FairSpec` adds strong fairness of the exit callback and of a timeout: each loop
  iteration serves timers and children however busy the connection is, and the
  read batches that disable them for a moment do not keep them away for ever. It
  concerns children with a timeout, which is what the properties are about.
  Nothing is assumed of a child stopping by itself.
* `PortForward!FairSpec`: weak fairness of cancelled writes and close callbacks as a
  whole.
* `ClientDaemon!FairSpec`: weak fairness of the started commands as a whole: some
  command goes on as long as one can. Every wait of the daemon has a deadline, and
  `sendall` ends within the socket's timeout. Nothing is assumed of the agent or of
  the reader.
* `Timers` and `KeepAlive` bound time instead: the clock does not pass the moment
  at which the timer must have run.

## 4. Where the code and its documents differ

Met while modelling. The first three have a run; the others are states of the
models that the properties are stated around, with the definition that shows them.

* Process timeouts end with the session (`session_timeout`); for the same reason
  the temp file of a disconnected client stays as long as its child runs
  (`tests/integration/run_integration.py:197`, "temp file should be removed after
  disconnect"): `transfer_abort` is reached only through `maybe_free_session`.
* A replaced file can be lost (`upload_lost`).
* The daemon's reader gives up on an idle agent (`keepalive_idle`). What the agent sends
  unasked has a similar effect: a child that writes output without pause, or its EXIT
  followed by the ERROR of a stalled upload, keeps a PING from being due, the daemon has
  nothing to answer, and after 15 s the agent closes its session (`unasked` in
  `SessionKept`).
* `docs/protocol.md:35`, "partial frames are buffered until complete": a legal frame
  of more than 12289 bytes may overflow the 16 KiB buffer and one of more than
  16384 does (`ReadOverflows`; `OverflowMeansOversize` gives the bound).
* `docs/protocol.md:203`, "completion is reported by `EXIT`": output that is still
  in a pipe follows it (`PipeRead` after `ProcExitCb`).
* PROC_SPAWN after EXIT initialises the pipes of the last child while they are open
  or closing (`fault = "reuse"`), and the pipes of a failed spawn can still be
  closing when the session is freed (such a pipe is `"orphan"`, holds no reference, and
  `NotFreedEarly` does not count it); `docs/architecture.md:5` gives C the ownership of
  resource lifetimes.
* A child whose KILL was acknowledged is reported as timed out if a timeout passes before
  its exit is seen (`ReasonTrue` has the last reason, not the first); the test of KILL,
  in which no timeout passes, expects `killed` (`run_integration.py:317`).
* KILL notes its reason before it tries to kill. If `uv_process_kill` fails, the answer is
  ERROR and the reason stays (`"marked"` in `Truthful`), so a child that ends by itself
  is reported as killed.
* Ids are cut to 32 bits and ports to 16 (`U32`, `U16`): a KILL of `2^32 + 1` kills child
  1, and `port_open` for port 65537 opens a relay to port 1 and repeats 65537 in its
  answer. `Truthful` speaks of the cut values.
* A spawn that runs out of memory resets the flags of a previous child's pipes,
  which are then never closed, so that the session is never freed (`SpawnNoMemory`,
  `Stranded`).
* Two uploads to one target share `.part`, and the target can end up with bytes of
  both (`Shared` in `MCUpload`); `docs/architecture.md:71`, "handles safe temp-file
  writes".
* With `overwrite=0` an existing file is replaced (`Rename`); `docs/protocol.md:215`
  has an error `already_exists` that nothing sends.
* A freed relay is written by the last close callback of its connection if the
  listener's callback comes first (`fault` in `PortForward`, after which a run is not
  followed). `relay_destroy` closes the listener last, and libuv on Unix serves handles
  that are closing last-in first-out, so there this is what happens whenever a relay
  with a live connection is torn down; the model takes every order.
* After a failed `uv_accept` a relay can lose track of its connection (`Botched`), which
  then stays in service when the relay is closed; a second connection whose `uv_accept`
  fails while the first is served is freed although libuv still has its handle
  (`Reject`).
* `docs/test-plan.md:35`, "large file transfer without whole-file buffering": a file
  larger than the write queue closes the session (`Fits` in `SendChunk`). An empty
  file has no GET_CHUNK, against `docs/protocol.md:182`, "one or more".
* `docs/architecture.md:139`, "Transfer stall: abort that transfer, keep session
  alive": a client that is silent in an upload loses its session at 15 s, before
  the transfer limit of 20 s (`IdleClose` with an active upload in `Timers`).
* PROC_SPAWN with a path that does not fit in the 256 bytes of its reply answers
  ERROR and leaves the child running, under an id that the client is not told
  (`Truthful`); a single `argv0` is replaced by the path, and arguments after an empty
  or overlong one are dropped (`ArgsAsAsked`), while `tool.run` passes all of them on.
* A failing `tool.run` sends two ERRORs, the first with the request id 0
  (`OneAnswer`). `docs/debugging.md:179` ff. has a bad Lua operation logged and counted;
  `dispatch_request` catches the error of a handler itself, so that only a failure to
  send is.
* PONG is refused with ERROR `bad_type`, which the daemon files as an answer under the
  id of the PING. Those ids count up from 1; after a thousand PINGs they meet the
  request ids (`AnswerOwn`). In the same way the ids of children and of downloads share
  `streams` and meet after 999 children.
* `put_file` and `request_op` of the daemon return an ERROR of the agent as their result
  (`HandsOn`), so the control socket answers `ok: true` for an upload whose PUT_END was
  refused; only the type in the result tells. PUT_BEGIN, GET_BEGIN, PROC_SPAWN and KILL
  that are refused raise.
* A download that fails after its ACK ends with an ERROR that `get_file` does not see;
  it reports a time-out instead (`Timeout`).
* Where `rename` does not replace files, as in the Windows C library, a log whose names
  are all taken is never rotated again and grows without bound (`Renames`);
  `docs/debugging.md:65`, "rotate at `1 MiB`".
* When one side of a relay ends, what was read from it and not yet written to the
  other is dropped (`WriteDone` on a closing socket).

## 5. Theorems

All are proved for every value of the constants that the named assumption of the
module allows; those assumptions are only about types, except for
`HeaderSize <= Chunk` (14 and 4096 in the code), for the lines of the log, which are
shorter than its limit (`diag_log` cuts them at its buffers), and for `MaxAge`, which must
lie beyond all limits for an age cut off there to mean anything. Two theorems about uploads
have a hypothesis of their own, `DisjointTargets`.

A leaf names its prover where the first one tried would not find the proof or would be
slow to; with these hints `tlapm` checks all modules from nothing in about half an hour.

**`AgentProofs`, the receive path.** `TypeCorrect`, `PrefixDelivered`, `NoneWithheld`
and `OversizeOnly`: for every buffer, header, payload and read
size and every stream. The properties speak of what has been handled and not of
what the buffer holds, so they are not inductive. `BufferAligned` is what is
missing: byte `i` of the live part of `rx_buf` is byte `sent - rx_used + i` of the
stream. `AtBoundary` adds that `offset` stands at the start of the next frame.

**`AgentProofs`, the handling of a request.** `AnsweredOnce`, `AnswersTruthful`,
`ArgumentsKept` and `NoSessionActive`: for any number of sessions, children, relays and
argv lines, whichever sends, allocations and system calls fail. The properties look at a
request that has been handled; `DispatchInv` says what a handler starts from and leaves
behind. Before it the agent is `Idle`; after it the request is `Completed`: at most one
ERROR without the request's id, and that from `tool.run`, stands before the answer
(`Heads`), the answer fits what was done and is still there (`Tells`), or there is none and
the session is closed or memory has run out (`Outcome`), and the arguments of a new child
come from one of the two loops over the payload (`ArgsFrom`). Each handler has a lemma that
it completes its request; the events between two requests only close sessions, end
children and drop relays. That `DispatchTypeOK` holds of `active_session` rests on all three
resets in `lua_engine_dispatch`. The loops over the arguments run until a key is missing.
`CountEnds` shows that one is, for every payload: among the keys 0 to n, n lines leave one
out. By the same argument a well-formed payload has one line for each of its keys
(`OneLine`), so that the first line with a key, which `kv_value` takes, is also the last,
which `parse_kv` keeps, and the order of the lines does not matter.

**`SessionProofs`.** `TypeCorrect`, `RefsExact`, `FreedLast`, `ClosedOnce`,
`ChildAlwaysTracked` and `ReasonAlwaysTrue`: for any number of children and frames
per read, and with or without allocation failures. The inductive invariant `IInv`
says, of a session without a breach, that the flags agree with the handles
(`Coherent`: `timer_started` if and only if the timer is open, `closed` if and only
if the connection is not, `active` if and only if the process handle is open, a
pipe in `eof` is stopped, `close_refs` is the sum over the handles), that the
child of the operating system is the active one, and that ids not yet given
out have no history (`FreshIds`). Each operation of `session.c` and `proc.c` has a
lemma that it keeps `Coherent`; the step theorem has one case per action. The
results hold up to the first reuse of a handle (`fault`), after which
libuv's behaviour is undefined; `ClosedOnce` and `ReasonAlwaysTrue` need no such
proviso.

**`UpkeepProofs`, the timers.** `TypeCorrect`, `SilenceNoticed` and `WorkNoticed`, about `Timers`:
for all limits, periods and delays. The inductive invariant `Lag` bounds every age by its
limit plus the time since `heartbeat_cb` last ran. `TimersImplemented`: each step of the
composition with the daemon is a step of `Timers` or leaves its state alone, so what is
proved of the timers holds of it. `DaemonKept`: for all limits,
periods, delays and latencies. `SessionKept` says nothing about open sessions; `Silence`
and `Ahead` do: how long the agent can have been silent, and that what it last heard is
older than its own last frame by no more than `unasked`, or, while a PONG is owed, by no
more than that, the longest silence and the age of the PING.

**`UpkeepProofs`, the log.** `OldestLost` and `FilesBounded`: for any number of files and
lines, any limit, lines of any length below it, a rename that replaces or refuses, and an
agent that is killed at any step. The properties are about the files as they lie; `LogInv`
follows a rotation. `Rotating`: the log is there until the loop comes to it, and where
rename replaces, the name it renames to next is free, unless it is the last one. `NoGaps`:
where rename replaces and no rotation was cut short, no file but that one is missing before
an older one, and no line is lost before all files are there. `Numbered`: all lines on disk, the oldest file first, have
consecutive numbers up to the last one written. `Roomy`: the line that `diag_log` is about
to write fits. A rename moves a file to the next name, which leaves the joined
lines as they are when that name is free, and drops the oldest ones when it is the last;
`KeptOf` joins the files by a recursive function, of which induction over the names shows
what a rename and an append do to it. The sizes rest on `SumTheorems`.

**`UploadProofs`.** `TypeCorrect` and `NoLeak` for any sessions, targets and faults, even
when clients share targets; `FilesWhole` and `UploadsAtomic` when they do not. The first
part rests on `GInv`: every temp file and descriptor has its upload, and request ids not
yet used have no history. The second adds `DInv`: the temp file of an upload holds exactly
what its client has sent (`Owned`), no inode has two names (`Linked`),
and while a file is being replaced its name is free (`Replaced`). The refinement is
step by step: all actions but the rename and a failure or crash in
`transfer_finalize_rename` leave `File` and `Replacing` as they are or begin a
replacement.

**`SumTheorems`**, the lemmas behind the byte counters. `TotalEmpty`, `TotalAppend`, `TotalTail` and `TotalNat`: what `Total`
gives, for sequences of any length. `Total` is the library's `MapThenFoldSet`, defined by a
recursive function on sets of places that is picked with CHOOSE; `FoldExists` shows by
induction that there is one, `TotalIs` and `RunningTotal` that it gives the running sums.
The library's induction theorems cannot be instantiated here, so induction is stated of
sets of numbers (`SetInduction`) and proved from the least element of a set.

**`DownloadProofs`.** `TypeCorrect`, `PendingIsExact`, `EndIsWhole` and `OneAnswerEach`: for
every queue limit, chunk size, file size and number of requests, with reads as short as
they like and memory running out at any send. The properties speak of the wire or of the
state between two events; the invariant follows the frames in libuv's queue and those on
the wire as one `Flow`, which a completed write does not change; of a closed session only
the wire counts, since what libuv still holds will be cancelled. `Good` says of each frame
what stands before it (`Preceded`: the ACK, the chunk that it continues, the end of the
file) and what does not (`InOrder`: nothing after an answer, chunks in the order of the
file), `Reading` how far the download in progress has come, and `Settled` that every
earlier request has its answer or has lost a frame. That chunk after chunk begins where the
one before ended (`Reached`) follows from `Good` alone: the chunk that one continues is the
last before it.

**`PortForwardProofs`.** `TypeCorrect`, `PendingIsExact`, `ConnKept`, `FreedLast` and
`OwnerThere`: for any number of sessions, relays and connections, any reads and any limit
on pending bytes.
`ConnTracked` is not inductive, because it is silent about connections that are being
closed, and those write to `relay->conn` when they are freed. `Tracked` says of every
connection not yet freed that its relay knows it, or that it is out of service and its
relay can never know it: the relay has been closed or has no usable target (`BadNull`).
So the connection that clears `relay->conn` is the one that stood there, or none did.
`PendingIsExact` rests on `SumTheorems`, and shows that the test in `relay_write_cb`
against a count that is too small never fails.

**`ClientDaemonProofs`.** `AnswersOwn`, `PutsCommitted`, `GetsWhole` and `StreamIsKept`: for
any number of commands, chunks, PINGs and pieces of output. The properties speak of
commands that have ended; the invariant `IInv` adds what the wire and the tables hold for
the others.
`FrameOK` says where each frame comes from, and with `Unique` that it concerns one command
at most. `PutOK`: before PUT_BEGIN has been answered at most one good answer is on its way,
and afterwards none but that of a commit, so nothing else can be taken for the answer to
PUT_END. `GetOK`: what a get has, its stream and the wire are consecutive parts of one
file, so that GET_END is only reached with all of it. Each action has a lemma; `Send`
also needs what the agent may answer (`Fits`). `StreamIsKept` has an invariant of its own
on top, `SInv`: a stream holds frames of the child exactly when it is the child's, so that
what a get takes is never output.

Every invariant and action property that a passing run checks is also proved, with the
refinements `Atomic` and `TimersImplemented`. Only model-checked are the liveness
properties, `StreamConsumed`, `SessionFreed`, `ChildReported`, `TornDown` and `CommandEnds`:
fairness is beyond the prover. That both loops over a payload end is liveness too, and is
proved as a fact about the operators (`CountEnds`).

## 6. What is not modelled

* In payloads, numbers (`kv_u64`, `kv_u32`) are a value or missing, and the wording of
  replies is left out; a reply too long for its buffer is an outcome. Ids and ports are
  cut to their width as with a 64-bit `long`; where `long` has 32 bits, `strtoul` refuses
  what does not fit.
* What `debug.*` and `port_list` read; counters and the wire trace; start-up and
  `portfwd_engine_close`, which run outside the event loop; `hello.c`, a separate
  program; the test programs. None of these has state that another part depends on.
* The daemon's command line, control socket, start and stop: sequential code around
  `dispatch`.
* Failures of `uv_tcp_init`, `uv_timer_init` and `uv_fs_unlink`. `uv_timer_start`
  cannot fail with the arguments it is given.
* Numeric overflow of 64-bit offsets, and the wrap of the 32-bit counters from which ids
  are given out, out of reach of any run of the agent.
* In `Session` the upload is one flag, since `Upload` has the rest; in `Timers` sends
  succeed, since `Session` and `Download` have the others.
* In `Dispatch` transfers and the handles of children and relays, since `Upload`,
  `Download`, `Session` and `PortForward` have them; in `ClientDaemon` a frame that is cut
  short by a failing `sendall` closes the connection at once, where the agent would first
  take the next frame for its rest.
* The content of relayed bytes: they are counted, and a read is forwarded or closes the
  connection as a whole.

## 7. Plan

Done: every part of the agent that keeps state over events, the daemon's commands and
tables, the log file; proofs of the safety properties of each.

What could follow: a composition of `Session` and `Download` on one write queue.

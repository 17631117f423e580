------------------------------- MODULE Upload -------------------------------
(***************************************************************************)
(* Uploads: transfer.c's PUT_BEGIN, PUT_CHUNK and PUT_END, transfer_abort  *)
(* and its two callers, on a file system with names and inodes, so that    *)
(* what several sessions do to the same name is what the kernel would do.  *)
(*                                                                         *)
(* Every handler runs to its end before another starts.  Only the agent's  *)
(* death can come between the unlink and the rename of                     *)
(* transfer_finalize_rename, so these are two steps (finalizing).          *)
(***************************************************************************)
EXTENDS Integers, Sequences

CONSTANTS
  Sessions,
  Paths,       \* the targets of uploads
  PathsOf,     \* per session: the targets its client uploads to
  MaxUploads,  \* bound: uploads in all
  MaxSize,     \* bound: declared size
  Chunk,       \* bound: bytes in a PUT_CHUNK
  Overwrites,  \* values of the overwrite field
  Faults       \* what may fail: "open", "write", "close", "rename", "crash"

ASSUME UploadAssumption ==
  /\ PathsOf \in [Sessions -> SUBSET Paths]
  /\ MaxUploads \in Nat /\ MaxSize \in Nat /\ Chunk \in Nat
  /\ Overwrites \subseteq BOOLEAN
  /\ 0 \notin Sessions

Uploads == 1..MaxUploads
Names == Paths \X {"file", "part"}
Old == MaxUploads + 1           \* the inode of what was there before
Inodes == 1..Old
Nobody == 0

VARIABLES
  upload,      \* per session: its struct transfer_state
  dir,         \* the directory: per name an inode, or 0
  inode,       \* per inode: its bytes
  fds,         \* uploads with an open file descriptor
  finalizing,  \* the session in transfer_finalize_rename, or Nobody
  before,      \* the target's inode when the finalization began
  client,      \* per upload: who sends it, its size, the bytes already sent
  begun,       \* uploads begun so far; an upload's number is its req_id
  acked,       \* uploads whose PUT_END was acknowledged
  had,         \* paths that have had a file
  left         \* paths whose temp file the last crash left behind

vars == <<upload, dir, inode, fds, finalizing, before, client, begun, acked,
          had, left>>

\* What the files hold for whoever cannot see into transfer_finalize_rename:
\* per path no content or one, until the rename the content from before.
Shown(p) == IF finalizing # Nobody /\ upload[finalizing].path = p
            THEN before ELSE dir[<<p, "file">>]

File == [p \in Paths |-> {inode[i] : i \in {Shown(p)} \ {0}}]

Replacing == IF finalizing # Nobody /\ upload[finalizing].overwrite
             THEN {upload[finalizing].path} ELSE {}

Declared == [u \in Uploads |-> client[u].size]

A == INSTANCE AtomicStore WITH file <- File, replacing <- Replacing, size <- Declared

Idle == [active |-> FALSE]

Init ==
  /\ upload = [s \in Sessions |-> Idle]
  /\ dir \in [Names -> {0, Old}] /\ \A p \in Paths : dir[<<p, "part">>] = 0
  /\ inode = [i \in Inodes |-> IF i = Old THEN A!Whole(0, 1) ELSE <<>>]
  /\ fds = {}
  /\ finalizing = Nobody /\ before = 0
  /\ client = [u \in Uploads |-> [by |-> Nobody, size |-> 0, sent |-> 0]]
  /\ begun = 0 /\ acked = {}
  /\ had = {p \in Paths : dir[<<p, "file">>] # 0}
  /\ left = {}
-----------------------------------------------------------------------------
(* The file system.                                                        *)

Unlink(name) == dir' = [dir EXCEPT ![name] = 0]

\* A write at an offset: beyond the end of the file it leaves a hole.
WriteAt(bytes, offset, data) ==
  LET end == offset + Len(data)
  IN  [i \in 1..(IF end > Len(bytes) THEN end ELSE Len(bytes)) |->
         IF i > offset /\ i <= end THEN data[i - offset]
         ELSE IF i <= Len(bytes) THEN bytes[i] ELSE <<0, 0>>]
-----------------------------------------------------------------------------
Running == finalizing = Nobody

\* Mutant: the file is not closed.
TransferAbortLeaks(s) ==
  /\ Unlink(<<upload[s].path, "part">>)
  /\ upload' = [upload EXCEPT ![s] = Idle]
  /\ fds' = fds

\* transfer_abort: close, unlink the temp file by its name, transfer_reset
TransferAbort(s) ==
  /\ Unlink(<<upload[s].path, "part">>)
  /\ upload' = [upload EXCEPT ![s] = Idle]
  /\ fds' = fds \ {upload[s].req_id}

NewUpload(s, size) ==
  /\ Running /\ ~upload[s].active /\ begun < MaxUploads
  /\ begun' = begun + 1
  /\ client' = [client EXCEPT ![begun'] = [by |-> s, size |-> size, sent |-> 0]]
  /\ UNCHANGED <<finalizing, before, acked, had>>

\* The inode that open(O_CREAT | O_TRUNC) of the temp file yields.
Opened(p) == IF dir[<<p, "part">>] = 0 THEN begun' ELSE dir[<<p, "part">>]

\* Mutant: O_TRUNC is forgotten.
TruncateNot(i) == UNCHANGED inode

Truncate(i) == inode' = [inode EXCEPT ![i] = <<>>]

PutBegin(s, p, size, overwrite) ==
  /\ NewUpload(s, size)
  /\ dir' = [dir EXCEPT ![<<p, "part">>] = Opened(p)]
  /\ Truncate(Opened(p))
  /\ fds' = fds \cup {begun'}
  /\ upload' = [upload EXCEPT ![s] =
                  [active |-> TRUE, path |-> p, req_id |-> begun',
                   overwrite |-> overwrite, total_size |-> size, offset |-> 0,
                   file |-> Opened(p)]]
  /\ left' = left \ {p}

\* No memory for tmp_path; or none for path or no file, and transfer_abort
\* unlinks the name all the same; or a path too long for the reply, after the
\* file has been truncated.
PutBeginFails(s, p, size) ==
  /\ "open" \in Faults
  /\ NewUpload(s, size)
  /\ \/ UNCHANGED <<dir, inode, left>>
     \/ /\ Unlink(<<p, "part">>)
        /\ \/ inode' = inode
           \/ dir[<<p, "part">>] # 0 /\ Truncate(dir[<<p, "part">>])
        /\ left' = left \ {p}
  /\ UNCHANGED <<upload, fds>>

\* Mutant: any chunk is taken for one of the active upload.
AcceptsAny(s, u) == upload[s].active

\* The check of every handler but PUT_BEGIN.
Accepts(s, u) == upload[s].active /\ upload[s].req_id = u

Data(u, n) == [i \in 1..n |-> <<u, client[u].sent + i>>]

Write(x, data) ==
  inode' = [inode EXCEPT ![x.file] = WriteAt(@, x.offset, data)]

\* Mutant: off by one.
ExceedsByTwo(x, n) == x.offset + n > x.total_size + 1

Exceeds(x, n) == x.offset + n > x.total_size

PutChunk(s, u, n) ==
  LET x == upload[s]
  IN
  /\ Running /\ client[u].by = s /\ client[u].sent + n <= MaxSize + 1
  /\ client' = [client EXCEPT ![u].sent = @ + n]
  /\ \/ ~Accepts(s, u) /\ UNCHANGED <<upload, dir, inode, fds>>
     \/ /\ Accepts(s, u) /\ Exceeds(x, n)
        /\ TransferAbort(s) /\ UNCHANGED inode
     \/ /\ Accepts(s, u) /\ ~Exceeds(x, n)
        /\ \/ /\ Write(x, Data(u, n))
              /\ upload' = [upload EXCEPT ![s].offset = @ + n]
              /\ UNCHANGED <<dir, fds>>
           \/ /\ "write" \in Faults    \* nothing or too little was written
              /\ \E k \in {0} \cup 0..(n - 1) : Write(x, Data(u, k))
              /\ TransferAbort(s)
  /\ UNCHANGED <<finalizing, before, begun, acked, had, left>>

\* PUT_END as far as the unlink of the target
PutEnd(s, u) ==
  LET x == upload[s]
      target == <<x.path, "file">>
  IN
  /\ Running /\ Accepts(s, u)
  /\ \/ /\ x.offset # x.total_size \/ "close" \in Faults
        /\ TransferAbort(s)
        /\ UNCHANGED <<finalizing, before>>
     \/ /\ x.offset = x.total_size
        /\ finalizing' = s /\ before' = dir[target]
        /\ fds' = fds \ {x.req_id}
        /\ IF x.overwrite THEN Unlink(target) ELSE UNCHANGED dir
        /\ UNCHANGED upload
  /\ UNCHANGED <<inode, client, begun, acked, had, left>>

\* rename, which replaces the target if there is one, and the reply
Rename(ack) ==
  LET s == finalizing
      x == upload[s]
      target == <<x.path, "file">>
      part == <<x.path, "part">>
  IN
  /\ ~Running /\ dir[part] # 0
  /\ dir' = [dir EXCEPT ![target] = dir[part], ![part] = 0]
  /\ upload' = [upload EXCEPT ![s] = Idle]
  /\ acked' = IF ack THEN acked \cup {x.req_id} ELSE acked
  /\ had' = had \cup {x.path}
  /\ finalizing' = Nobody /\ before' = 0
  /\ UNCHANGED <<inode, fds, client, begun, left>>

RenameFails ==
  /\ ~Running
  /\ "rename" \in Faults \/ dir[<<upload[finalizing].path, "part">>] = 0
  /\ TransferAbort(finalizing)
  /\ finalizing' = Nobody /\ before' = 0
  /\ UNCHANGED <<inode, client, begun, acked, had, left>>

\* transfer_check_timeout: no progress for LUAGENT_TRANSFER_IDLE_MS
Stall(s) ==
  /\ Running /\ upload[s].active
  /\ TransferAbort(s)
  /\ UNCHANGED <<inode, finalizing, before, client, begun, acked, had,
                 left>>

\* Nothing more comes from the clients of S.
Gone(S) == client' = [u \in Uploads |->
                        IF client[u].by \in S THEN [client[u] EXCEPT !.by = Nobody]
                        ELSE client[u]]

\* maybe_free_session: the session, and whatever upload it has, is gone.
Freed(s) ==
  /\ Running
  /\ IF upload[s].active THEN TransferAbort(s) ELSE UNCHANGED <<dir, upload, fds>>
  /\ Gone({s})
  /\ UNCHANGED <<inode, finalizing, before, begun, acked, had, left>>

\* The agent dies and is started again; the directory stays as it is.
Crash ==
  /\ "crash" \in Faults
  /\ upload' = [s \in Sessions |-> Idle]
  /\ fds' = {} /\ finalizing' = Nobody /\ before' = 0
  /\ Gone(Sessions)
  /\ left' = {p \in Paths : dir[<<p, "part">>] # 0}
  /\ UNCHANGED <<dir, inode, begun, acked, had>>
-----------------------------------------------------------------------------
Begin(s) ==
  \E p \in PathsOf[s], size \in 0..MaxSize :
    \/ PutBeginFails(s, p, size)
    \/ \E overwrite \in Overwrites : PutBegin(s, p, size, overwrite)

Next ==
  \/ \E s \in Sessions :
       \/ Begin(s) \/ Stall(s) \/ Freed(s)
       \/ \E u \in Uploads : PutEnd(s, u) \/ \E n \in 0..Chunk : PutChunk(s, u, n)
  \/ \E ack \in BOOLEAN : Rename(ack)
  \/ RenameFails \/ Crash

Spec == Init /\ [][Next]_vars
-----------------------------------------------------------------------------
(* Properties                                                              *)

TransferState ==
  [active: {TRUE}, path: Paths, req_id: Uploads, overwrite: BOOLEAN,
   total_size: 0..MaxSize, offset: 0..MaxSize, file: Inodes]

\* A byte: its upload and its place in it.
Bytes == (0..MaxUploads) \X (0..(MaxSize + 1))

\* An active upload never holds more than the client declared.
TypeOK ==
  /\ upload \in [Sessions -> TransferState \cup {Idle}]
  /\ \A s \in Sessions : upload[s].active => upload[s].offset <= upload[s].total_size
  /\ dir \in [Names -> Inodes \cup {0}]
  /\ inode \in [Inodes -> Seq(Bytes)]
  /\ \A i \in Inodes : Len(inode[i]) <= MaxSize + 1
  /\ fds \subseteq Uploads /\ acked \subseteq Uploads
  /\ finalizing \in Sessions \cup {Nobody} /\ before \in Inodes \cup {0}
  /\ client \in [Uploads -> [by: Sessions \cup {Nobody}, size: 0..MaxSize,
                             sent: 0..(MaxSize + 1)]]
  /\ begun \in 0..MaxUploads /\ had \subseteq Paths /\ left \subseteq Paths

\* Outside a handler, the file at a target is what was there before the agent
\* or the whole of one upload, every byte in its place, of the declared size:
\* whatever failed, stalled, was cut off or interleaved with it.
CommittedWhole ==
  \A p \in Paths :
    dir[<<p, "file">>] # 0 =>
      LET bytes == inode[dir[<<p, "file">>]]
      IN  \/ bytes = A!Whole(0, 1)
          \/ \E u \in 1..begun : bytes = A!Whole(u, client[u].size)

\* Every temp file belongs to an upload in progress, or was left by a crash
\* and not yet taken over by another upload of the same file; every open
\* descriptor belongs to an upload in progress (transfer_abort on every way
\* out).
NothingLeaked ==
  /\ \A p \in Paths :
       dir[<<p, "part">>] # 0 =>
         p \in left \/ \E s \in Sessions : upload[s].active /\ upload[s].path = p
  /\ Running => fds = {upload[s].req_id : s \in {t \in Sessions : upload[t].active}}

\* The file at a target changes only by becoming, at once, the whole of one
\* upload, or by vanishing when its replacement is interrupted, whatever fails
\* and wherever the agent dies; and an upload is acknowledged only when it has
\* become the file (put_begin to put_end as one Commit).
Atomic == A!Spec

\* A file that is there never goes away except to be replaced
\* (transfer_finalize_rename unlinks it first).
FileKept == Running => \A p \in had : dir[<<p, "file">>] # 0
=============================================================================

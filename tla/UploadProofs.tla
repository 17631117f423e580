---------------------------- MODULE UploadProofs ----------------------------
(***************************************************************************)
(* Proofs about Upload for any sessions, targets, sizes and faults: what   *)
(* holds even when clients share their targets, the types, and that        *)
(* nothing is leaked (GInv), and what holds when no two clients upload to  *)
(* the same file (DInv).                                                   *)
(***************************************************************************)
EXTENDS Upload, TLAPS

\* A sequence given by its length and its elements.
LEMMA SeqOf ==
  ASSUME NEW n \in Nat, NEW S, NEW f \in [1..n -> S]
  PROVE  f \in Seq(S) /\ Len(f) = n
<1>1. f \in Seq(S)
  OBVIOUS
<1>2. Len(f) \in Nat /\ DOMAIN f = 1..Len(f)
  BY <1>1
<1>3. 1..n = 1..Len(f)
  BY <1>2, Zenon
<1>4. n = Len(f)
  BY <1>2, <1>3
<1> QED BY <1>1, <1>4, Zenon

\* An upload's first n bytes are a sequence of n bytes.
LEMMA WholeSeq ==
  ASSUME NEW u \in 0..MaxUploads, NEW n \in 0..(MaxSize + 1)
  PROVE  A!Whole(u, n) \in Seq(Bytes) /\ Len(A!Whole(u, n)) = n
<1>1. n \in Nat /\ \A i \in 1..n : i \in 0..(MaxSize + 1)
  BY UploadAssumption
<1>2. A!Whole(u, n) \in [1..n -> Bytes]
  BY <1>1, Zenon DEF A!Whole, Bytes
<1> QED BY <1>1, <1>2, SeqOf, Zenon

\* What O_TRUNC leaves are the first 0 bytes of any upload.
LEMMA WholeEmpty == \A u : A!Whole(u, 0) = <<>>
  BY DEF A!Whole

\* A chunk is the next n bytes its client has to send.
LEMMA DataSeq ==
  ASSUME TypeOK, NEW u \in Uploads, NEW n \in Nat, client[u].sent + n <= MaxSize + 1
  PROVE  Data(u, n) \in Seq(Bytes) /\ Len(Data(u, n)) = n
<1>1. client[u].sent \in Nat /\ MaxSize \in Nat
  BY UploadAssumption DEF TypeOK
<1>2. \A i \in 1..n : client[u].sent + i \in 0..(MaxSize + 1)
  BY <1>1
<1>3. u \in 0..MaxUploads
  BY DEF Uploads
<1>4. Data(u, n) \in [1..n -> Bytes]
  BY <1>2, <1>3, Zenon DEF Data, Bytes
<1> QED BY <1>4, SeqOf, Zenon

\* A write at an offset yields bytes up to its end or the end of the file.
LEMMA WriteSeq ==
  ASSUME NEW b \in Seq(Bytes), NEW offset \in Nat, NEW data \in Seq(Bytes)
  PROVE  /\ WriteAt(b, offset, data) \in Seq(Bytes)
         /\ Len(WriteAt(b, offset, data)) \in {Len(b), offset + Len(data)}
<1> DEFINE end == offset + Len(data)
           m == IF end > Len(b) THEN end ELSE Len(b)
<1>1. Len(b) \in Nat /\ Len(data) \in Nat /\ end \in Nat /\ m \in Nat /\ m \in {Len(b), end}
  OBVIOUS
<1>2. <<0, 0>> \in Bytes
  BY UploadAssumption DEF Bytes
<1>3. \A i \in 1..m :
        (IF i > offset /\ i <= end THEN data[i - offset]
         ELSE IF i <= Len(b) THEN b[i] ELSE <<0, 0>>) \in Bytes
  BY <1>1, <1>2
<1>4. WriteAt(b, offset, data) \in [1..m -> Bytes]
  BY <1>3, Zenon DEF WriteAt
<1> HIDE DEF end, m
<1>5. WriteAt(b, offset, data) \in Seq(Bytes) /\ Len(WriteAt(b, offset, data)) = m
  BY <1>1, <1>4, SeqOf, Zenon
<1> QED BY <1>1, <1>5, Zenon DEF end

\* A chunk written where the last one ended continues the upload.
LEMMA WriteWhole ==
  ASSUME TypeOK, NEW u \in Uploads, NEW o \in 0..MaxSize, NEW n \in Nat,
         o + n <= MaxSize, client[u].sent = o
  PROVE  WriteAt(A!Whole(u, o), o, Data(u, n)) = A!Whole(u, o + n)
<1>1. MaxSize \in Nat /\ o \in Nat /\ u \in 0..MaxUploads
  BY UploadAssumption DEF Uploads
<1>2. Len(A!Whole(u, o)) = o
  BY <1>1, WholeSeq
<1>3. Len(Data(u, n)) = n
  BY <1>1, DataSeq
<1>4. WriteAt(A!Whole(u, o), o, Data(u, n)) =
        [i \in 1..(o + n) |->
           IF i > o /\ i <= o + n THEN Data(u, n)[i - o]
           ELSE IF i <= o THEN A!Whole(u, o)[i] ELSE <<0, 0>>]
  <2>1. (IF o + n > o THEN o + n ELSE o) = o + n
    BY <1>1
  <2> QED BY <1>2, <1>3, <2>1, Zenon DEF WriteAt
<1>5. \A i \in 1..(o + n) : i > o => i - o \in 1..n /\ o + (i - o) = i
  BY <1>1
<1>6. \A i \in 1..(o + n) :
        (IF i > o /\ i <= o + n THEN Data(u, n)[i - o]
         ELSE IF i <= o THEN A!Whole(u, o)[i] ELSE <<0, 0>>) = <<u, i>>
  BY <1>1, <1>5 DEF Data, A!Whole
<1> QED BY <1>4, <1>6, ZenonT(60) DEF A!Whole

\* Facts about the constants used throughout.
LEMMA Constants ==
  /\ MaxUploads \in Nat /\ MaxSize \in Nat /\ Chunk \in Nat
  /\ Nobody \notin Sessions /\ 0 \notin Inodes /\ Old \in Inodes
  /\ Uploads \subseteq Inodes /\ Old \notin Uploads
  /\ \A s \in Sessions : PathsOf[s] \subseteq Paths
  /\ Overwrites \subseteq BOOLEAN
  BY UploadAssumption DEF Nobody, Inodes, Old, Uploads

\* An upload in progress is a transfer_state, and one that is not is Idle.
LEMMA Active ==
  ASSUME TypeOK, NEW s \in Sessions
  PROVE  /\ upload[s].active \in BOOLEAN
         /\ upload[s].active => upload[s] \in TransferState
         /\ ~upload[s].active => upload[s] = Idle
<1>1. upload[s] \in TransferState \/ upload[s] = Idle
  BY Zenon DEF TypeOK
<1>2. \A x \in TransferState : x.active = TRUE
  BY Zenon DEF TransferState
<1>3. Idle.active = FALSE
  BY Zenon DEF Idle
<1> QED BY <1>1, <1>2, <1>3, Zenon

\* The fields of a transfer_state.
LEMMA Fields ==
  ASSUME TypeOK, NEW s \in Sessions, upload[s].active
  PROVE  /\ upload[s].path \in Paths /\ upload[s].req_id \in Uploads
         /\ upload[s].overwrite \in BOOLEAN /\ upload[s].file \in Inodes
         /\ upload[s].total_size \in Nat /\ upload[s].total_size <= MaxSize
         /\ upload[s].offset \in Nat /\ upload[s].offset <= MaxSize
         /\ upload[s].offset <= upload[s].total_size
<1>1. upload[s] \in TransferState
  BY Active, Zenon
<1>2. /\ upload[s].path \in Paths /\ upload[s].req_id \in Uploads
      /\ upload[s].overwrite \in BOOLEAN /\ upload[s].file \in Inodes
      /\ upload[s].total_size \in 0..MaxSize /\ upload[s].offset \in 0..MaxSize
  BY <1>1, Zenon DEF TransferState
<1> QED BY <1>2, Constants, SMTT(30) DEF TypeOK

\* transfer_abort keeps the types.
LEMMA AbortType ==
  ASSUME TypeOK, NEW s \in Sessions, upload[s].active, TransferAbort(s)
  PROVE  /\ upload' \in [Sessions -> TransferState \cup {Idle}]
         /\ \A t \in Sessions : upload'[t].active => upload'[t].offset <= upload'[t].total_size
         /\ dir' \in [Names -> Inodes \cup {0}]
         /\ fds' \subseteq Uploads
<1>1. upload' = [upload EXCEPT ![s] = Idle]
  BY Zenon DEF TransferAbort
<1>2. upload' \in [Sessions -> TransferState \cup {Idle}]
  BY <1>1, Zenon DEF TypeOK
<1>3. \A t \in Sessions : upload'[t].active => upload'[t].offset <= upload'[t].total_size
  BY <1>1, Zenon DEF TypeOK, Idle
<1>4. dir' \in [Names -> Inodes \cup {0}] /\ fds' \subseteq Uploads
  BY Zenon DEF TransferAbort, Unlink, TypeOK
<1> QED BY <1>2, <1>3, <1>4, Zenon

\* A write through an upload's descriptor keeps the types.
LEMMA WriteType ==
  ASSUME TypeOK, NEW s \in Sessions, upload[s].active, NEW u \in Uploads, NEW n \in Nat,
         client[u].sent + n <= MaxSize + 1,
         upload[s].offset + n <= MaxSize,
         Write(upload[s], Data(u, n))
  PROVE  /\ inode' \in [Inodes -> Seq(Bytes)]
         /\ \A i \in Inodes : Len(inode'[i]) <= MaxSize + 1
<1>1. upload[s].file \in Inodes /\ upload[s].offset \in Nat
  BY Fields, Zenon
<1>2. Data(u, n) \in Seq(Bytes) /\ Len(Data(u, n)) = n
  BY DataSeq, Zenon
<1>3. PICK i : i = upload[s].file
  BY Zenon
<1>4. PICK new : new = WriteAt(inode[i], upload[s].offset, Data(u, n))
  BY Zenon
<1>5. inode[i] \in Seq(Bytes) /\ Len(inode[i]) <= MaxSize + 1
  BY <1>1, <1>3, Zenon DEF TypeOK
<1>6. new \in Seq(Bytes) /\ Len(new) <= MaxSize + 1
  BY <1>1, <1>2, <1>4, <1>5, WriteSeq, Constants, SMTT(30)
<1>7. inode' = [inode EXCEPT ![i] = new]
  BY <1>3, <1>4, Zenon DEF Write
<1> QED BY <1>1, <1>3, <1>6, <1>7, Zenon DEF TypeOK

\* PUT_BEGIN keeps the types, whether it succeeds or fails.
LEMMA BeginType ==
  ASSUME TypeOK, NEW s \in Sessions, Begin(s)
  PROVE  TypeOK'
<1>1. PICK p \in PathsOf[s], size \in 0..MaxSize :
        \/ PutBeginFails(s, p, size)
        \/ \E overwrite \in Overwrites : PutBegin(s, p, size, overwrite)
  BY Zenon DEF Begin
<1>2. /\ NewUpload(s, size)
      /\ begun' = begun + 1 /\ begun' \in Uploads
      /\ p \in Paths /\ <<p, "part">> \in Names
      /\ left' \subseteq Paths
      /\ UNCHANGED <<finalizing, before, acked, had>>
  <2>1. NewUpload(s, size)
    BY <1>1, Zenon DEF PutBegin, PutBeginFails
  <2>2. begun \in 0..MaxUploads
    BY Zenon DEF TypeOK
  <2>3. begun' = begun + 1 /\ begun' \in Uploads /\ UNCHANGED <<finalizing, before, acked, had>>
    BY <2>1, <2>2, Constants DEF NewUpload, Uploads
  <2>4. p \in Paths /\ <<p, "part">> \in Names
    BY Constants, Zenon DEF Names
  <2>5. left' \subseteq Paths
    BY <1>1, Zenon DEF PutBegin, PutBeginFails, TypeOK
  <2> QED BY <2>1, <2>3, <2>4, <2>5, Zenon
<1>3. client' \in [Uploads -> [by: Sessions \cup {Nobody}, size: 0..MaxSize,
                               sent: 0..(MaxSize + 1)]]
  BY <1>2, Constants DEF NewUpload, TypeOK
<1>4. begun' \in 0..MaxUploads /\ had' \subseteq Paths /\ acked' \subseteq Uploads
      /\ finalizing' \in Sessions \cup {Nobody} /\ before' \in Inodes \cup {0}
  BY <1>2, Constants, SMTT(60) DEF TypeOK, Uploads
<1>5. Opened(p) \in Inodes /\ (dir[<<p, "part">>] # 0 => dir[<<p, "part">>] \in Inodes)
  BY <1>2, Constants, Zenon DEF Opened, TypeOK
<1>6. ASSUME NEW i \in Inodes, Truncate(i)
      PROVE  /\ inode' \in [Inodes -> Seq(Bytes)]
             /\ \A j \in Inodes : Len(inode'[j]) <= MaxSize + 1
  <2>1. <<>> \in Seq(Bytes) /\ Len(<<>>) <= MaxSize + 1
    BY Constants
  <2> QED BY <1>6, <2>1, Zenon DEF Truncate, TypeOK
<1>7. CASE PutBeginFails(s, p, size)
  <2>1. /\ inode' \in [Inodes -> Seq(Bytes)]
        /\ \A j \in Inodes : Len(inode'[j]) <= MaxSize + 1
    BY <1>5, <1>6, <1>7, Zenon DEF PutBeginFails, TypeOK
  <2>2. dir' \in [Names -> Inodes \cup {0}] /\ UNCHANGED <<upload, fds>>
    BY <1>2, <1>7, Zenon DEF PutBeginFails, Unlink, TypeOK
  <2> QED BY <1>2, <1>3, <1>4, <2>1, <2>2, Zenon DEF TypeOK
<1>8. ASSUME NEW overwrite \in Overwrites, PutBegin(s, p, size, overwrite)
      PROVE  TypeOK'
  <2>1. /\ inode' \in [Inodes -> Seq(Bytes)]
        /\ \A j \in Inodes : Len(inode'[j]) <= MaxSize + 1
    BY <1>5, <1>6, <1>8, Zenon DEF PutBegin
  <2>2. dir' \in [Names -> Inodes \cup {0}] /\ fds' \subseteq Uploads
    BY <1>2, <1>5, <1>8, Zenon DEF PutBegin, TypeOK
  <2>3. PICK new : new = [active |-> TRUE, path |-> p, req_id |-> begun',
                          overwrite |-> overwrite, total_size |-> size, offset |-> 0,
                          file |-> Opened(p)]
    BY Zenon
  <2>4. new \in TransferState /\ new.offset <= new.total_size
    BY <1>2, <1>5, <2>3, Constants DEF TransferState
  <2>5. upload' = [upload EXCEPT ![s] = new]
    BY <1>8, <2>3, Zenon DEF PutBegin
  <2>6. /\ upload' \in [Sessions -> TransferState \cup {Idle}]
        /\ \A t \in Sessions : upload'[t].active => upload'[t].offset <= upload'[t].total_size
    BY <2>4, <2>5, Zenon DEF TypeOK
  <2> QED BY <1>2, <1>3, <1>4, <2>1, <2>2, <2>6, Zenon DEF TypeOK
<1> QED BY <1>1, <1>7, <1>8, Zenon

\* PUT_CHUNK keeps the types, accepted, refused or failed.
LEMMA ChunkType ==
  ASSUME TypeOK, NEW s \in Sessions, NEW u \in Uploads, NEW n \in 0..Chunk, PutChunk(s, u, n)
  PROVE  TypeOK'
<1>1. n \in Nat /\ client[u].sent + n <= MaxSize + 1 /\ client[u].sent \in Nat
  BY Constants DEF PutChunk, TypeOK
<1>2. client' = [client EXCEPT ![u].sent = @ + n] /\ UNCHANGED <<finalizing, before, begun, acked, had, left>>
  BY Zenon DEF PutChunk
<1>3. client' \in [Uploads -> [by: Sessions \cup {Nobody}, size: 0..MaxSize,
                               sent: 0..(MaxSize + 1)]]
  <2>1. PICK new : new = [client[u] EXCEPT !.sent = @ + n]
    BY Zenon
  <2>2. client[u].sent + n \in 0..(MaxSize + 1)
    BY <1>1, Constants
  <2>3. new \in [by: Sessions \cup {Nobody}, size: 0..MaxSize, sent: 0..(MaxSize + 1)]
    BY <2>1, <2>2, ZenonT(60) DEF TypeOK
  <2>4. client' = [client EXCEPT ![u] = new]
    BY <1>2, <2>1, Zenon
  <2> QED BY <2>3, <2>4, Zenon DEF TypeOK
<1>4. CASE UNCHANGED <<upload, dir, inode, fds>>
  BY <1>2, <1>3, <1>4, Zenon DEF TypeOK
<1>5. CASE upload[s].active /\ TransferAbort(s) /\ UNCHANGED inode
  BY <1>2, <1>3, <1>5, AbortType, Zenon DEF TypeOK
<1>6. CASE upload[s].active /\ ~Exceeds(upload[s], n) /\ ~UNCHANGED <<upload, dir, inode, fds>>
  <2>1. /\ upload[s] \in TransferState /\ upload[s].offset + n <= upload[s].total_size
        /\ upload[s].offset + n <= MaxSize /\ upload[s].offset \in Nat
    BY <1>1, <1>6, Active, Fields, Constants DEF Exceeds
  <2>2. CASE Write(upload[s], Data(u, n)) /\ upload' = [upload EXCEPT ![s].offset = @ + n]
             /\ UNCHANGED <<dir, fds>>
    <3>1. /\ inode' \in [Inodes -> Seq(Bytes)]
          /\ \A i \in Inodes : Len(inode'[i]) <= MaxSize + 1
      BY <1>1, <1>6, <2>1, <2>2, WriteType, Zenon
    <3>2. /\ upload' \in [Sessions -> TransferState \cup {Idle}]
          /\ \A t \in Sessions : upload'[t].active => upload'[t].offset <= upload'[t].total_size
      <4>1. PICK new : new = [upload[s] EXCEPT !.offset = @ + n]
        BY Zenon
      <4>2. new \in TransferState /\ new.offset <= new.total_size
        <5>1. upload[s].offset + n \in 0..MaxSize
          BY <1>1, <2>1, Constants
        <5> QED BY <2>1, <4>1, <5>1, Zenon DEF TransferState
      <4>3. upload' = [upload EXCEPT ![s] = new]
        BY <2>2, <4>1, Zenon
      <4> QED BY <4>2, <4>3, Zenon DEF TypeOK
    <3> QED BY <1>2, <1>3, <2>2, <3>1, <3>2, Zenon DEF TypeOK
  <2>3. ASSUME NEW k \in {0} \cup 0..(n - 1), Write(upload[s], Data(u, k)), TransferAbort(s)
        PROVE  TypeOK'
    <3>1. /\ k \in Nat /\ k <= n
          /\ client[u].sent + k <= MaxSize + 1 /\ upload[s].offset + k <= MaxSize
      BY <1>1, <2>1, Constants
    <3>2. /\ inode' \in [Inodes -> Seq(Bytes)]
          /\ \A i \in Inodes : Len(inode'[i]) <= MaxSize + 1
      BY <1>6, <2>3, <3>1, WriteType, Zenon
    <3> QED BY <1>2, <1>3, <1>6, <2>3, <3>2, AbortType, Zenon DEF TypeOK
  <2> QED BY <1>6, <2>2, <2>3, Zenon DEF PutChunk
<1> QED BY <1>4, <1>5, <1>6, Zenon DEF PutChunk, Accepts
-----------------------------------------------------------------------------
(* What holds whichever targets the clients choose.                        *)

\* The session in transfer_finalize_rename has received its whole upload.
Finalizing ==
  finalizing # Nobody =>
    upload[finalizing].active /\ upload[finalizing].offset = upload[finalizing].total_size

\* Uploads in progress have numbers of their own, given out already.
ReqIds ==
  \A s \in Sessions : upload[s].active =>
    /\ upload[s].req_id <= begun
    /\ upload[s].req_id \notin acked
    /\ \A t \in Sessions \ {s} : upload[t].active => upload[t].req_id # upload[s].req_id

\* Exactly the uploads in progress have a descriptor, until theirs is closed.
Descriptors ==
  \A u \in Uploads :
    u \in fds <=> \E s \in Sessions : upload[s].active /\ upload[s].req_id = u /\ s # finalizing

\* Every temp file is an upload's, or was left by a crash.
TempFiles ==
  \A p \in Paths :
    dir[<<p, "part">>] # 0 =>
      p \in left \/ \E s \in Sessions : upload[s].active /\ upload[s].path = p

Acked == acked \subseteq 1..begun

BeforeNone == finalizing = Nobody => before = 0

GInv ==
  TypeOK /\ Finalizing /\ ReqIds /\ Descriptors /\ TempFiles /\ Acked /\ BeforeNone

\* A session becomes idle and its temp file and its descriptor go: what
\* transfer_abort does, and the successful rename as well.
Retires(s) ==
  /\ upload' = [upload EXCEPT ![s] = Idle]
  /\ fds' = fds \ {upload[s].req_id}
  /\ dir' \in [Names -> Inodes \cup {0}]
  /\ dir'[<<upload[s].path, "part">>] = 0
  /\ \A p \in Paths : dir'[<<p, "part">>] # 0 => dir[<<p, "part">>] # 0
  /\ finalizing' = Nobody /\ before' = 0
  /\ acked' \in {acked, acked \cup {upload[s].req_id}}
  /\ had' \subseteq Paths
  /\ UNCHANGED <<begun, left>>

\* A session that retires leaves the invariant in place for the others.
LEMMA RetiresInv ==
  ASSUME GInv, NEW s \in Sessions, upload[s].active, finalizing \in {Nobody, s},
         Retires(s),
         inode' \in [Inodes -> Seq(Bytes)], \A i \in Inodes : Len(inode'[i]) <= MaxSize + 1,
         client' \in [Uploads -> [by: Sessions \cup {Nobody}, size: 0..MaxSize,
                                  sent: 0..(MaxSize + 1)]]
  PROVE  GInv'
<1>0. /\ upload' = [upload EXCEPT ![s] = Idle] /\ DOMAIN upload = Sessions
      /\ upload' \in [Sessions -> TransferState \cup {Idle}]
      /\ TypeOK /\ finalizing' = Nobody
  BY Zenon DEF GInv, TypeOK, Retires
<1>1. ~upload'[s].active /\ \A t \in Sessions \ {s} : upload'[t] = upload[t]
  BY <1>0, Zenon DEF Idle
<1>2. upload[s].path \in Paths /\ upload[s].req_id \in Uploads
  BY <1>0, Fields, Zenon
<1>3. TypeOK'
  <2>1. \A t \in Sessions : upload'[t].active => upload'[t].offset <= upload'[t].total_size
    BY <1>0, <1>1, Zenon DEF TypeOK
  <2>2. /\ fds' \subseteq Uploads /\ acked' \subseteq Uploads
        /\ finalizing' \in Sessions \cup {Nobody} /\ before' \in Inodes \cup {0}
        /\ begun' \in 0..MaxUploads /\ had' \subseteq Paths /\ left' \subseteq Paths
        /\ dir' \in [Names -> Inodes \cup {0}]
    BY <1>0, <1>2, Zenon DEF TypeOK, Retires
  <2> QED BY <1>0, <2>1, <2>2, Zenon DEF TypeOK
<1>4. Finalizing'
  BY <1>0, Zenon DEF Finalizing
<1>5. ReqIds'
  <2>1. ASSUME NEW t \in Sessions, upload'[t].active
        PROVE  /\ upload'[t].req_id <= begun' /\ upload'[t].req_id \notin acked'
               /\ \A r \in Sessions \ {t} : upload'[r].active => upload'[r].req_id # upload'[t].req_id
    <3>1. t # s /\ upload'[t] = upload[t] /\ upload[t].active
      BY <1>1, <2>1, Zenon
    <3>2. /\ upload[t].req_id <= begun /\ upload[t].req_id \notin acked
          /\ \A r \in Sessions \ {t} : upload[r].active => upload[r].req_id # upload[t].req_id
      BY <3>1, Zenon DEF GInv, ReqIds
    <3>3. upload[t].req_id # upload[s].req_id
      BY <3>1, <3>2, Zenon
    <3> QED BY <1>1, <3>1, <3>2, <3>3 DEF Retires
  <2> QED BY <2>1, Zenon DEF ReqIds
<1>6. Descriptors'
  <2>1. ASSUME NEW u \in Uploads
        PROVE  u \in fds' <=> \E t \in Sessions : upload'[t].active /\ upload'[t].req_id = u
                                                  /\ t # finalizing'
    <3>1. CASE u = upload[s].req_id
      BY <1>0, <1>1, <3>1, Constants, SMTT(30) DEF GInv, ReqIds, Retires
    <3>2. CASE u # upload[s].req_id
      BY <1>0, <1>1, <3>2, Constants DEF GInv, Descriptors, Retires
    <3> QED BY <3>1, <3>2, Zenon
  <2> QED BY <2>1, Zenon DEF Descriptors
<1>7. TempFiles'
  <2>1. ASSUME NEW p \in Paths, dir'[<<p, "part">>] # 0
        PROVE  p \in left' \/ \E t \in Sessions : upload'[t].active /\ upload'[t].path = p
    <3>1. p # upload[s].path /\ dir[<<p, "part">>] # 0 /\ left' = left
      BY <2>1, Zenon DEF Retires
    <3>2. p \in left \/ \E t \in Sessions : upload[t].active /\ upload[t].path = p
      BY <3>1, Zenon DEF GInv, TempFiles
    <3> QED BY <1>1, <3>1, <3>2, Zenon
  <2> QED BY <2>1, Zenon DEF TempFiles
<1>8. Acked'
  <2>1. upload[s].req_id \in 1..begun
    BY <1>2 DEF GInv, ReqIds, Uploads
  <2> QED BY <2>1, Zenon DEF GInv, Acked, Retires
<1>9. BeforeNone'
  BY Zenon DEF BeforeNone, Retires
<1> QED BY <1>3, <1>4, <1>5, <1>6, <1>7, <1>8, <1>9, Zenon DEF GInv

\* transfer_abort retires the session.
LEMMA AbortRetires ==
  ASSUME GInv, NEW s \in Sessions, upload[s].active, TransferAbort(s),
         finalizing' = Nobody, before' = 0, UNCHANGED <<begun, acked, had, left>>
  PROVE  Retires(s)
<1>1. TypeOK /\ upload[s].path \in Paths
  BY Fields, Zenon DEF GInv
<1>2. /\ dir' = [dir EXCEPT ![<<upload[s].path, "part">>] = 0]
      /\ <<upload[s].path, "part">> \in Names
      /\ \A p \in Paths : <<p, "part">> \in Names
      /\ dir \in [Names -> Inodes \cup {0}]
  BY <1>1, Zenon DEF TransferAbort, Unlink, Names, TypeOK
<1>3. /\ dir' \in [Names -> Inodes \cup {0}]
      /\ dir'[<<upload[s].path, "part">>] = 0
      /\ \A p \in Paths : dir'[<<p, "part">>] # 0 => dir[<<p, "part">>] # 0
  BY <1>2, Zenon
<1>4. had' \subseteq Paths
  BY <1>1, Zenon DEF TypeOK
<1> QED BY <1>3, <1>4, Zenon DEF Retires, TransferAbort
\* PUT_BEGIN keeps the invariant.
LEMMA BeginInv ==
  ASSUME GInv, NEW s \in Sessions, Begin(s)
  PROVE  GInv'
<1>1. PICK p \in PathsOf[s], size \in 0..MaxSize :
        \/ PutBeginFails(s, p, size)
        \/ \E overwrite \in Overwrites : PutBegin(s, p, size, overwrite)
  BY Zenon DEF Begin
<1>2. TypeOK /\ TypeOK' /\ DOMAIN upload = Sessions
  BY BeginType, Zenon DEF GInv, TypeOK
<1>3. /\ NewUpload(s, size) /\ finalizing = Nobody /\ finalizing' = finalizing
      /\ acked' = acked /\ begun \in Nat /\ begun' = begun + 1 /\ begun' \in Uploads
      /\ ~upload[s].active
  <2>1. NewUpload(s, size)
    BY <1>1, Zenon DEF PutBegin, PutBeginFails
  <2>2. begun \in 0..MaxUploads
    BY <1>2, Zenon DEF TypeOK
  <2>3. /\ finalizing = Nobody /\ finalizing' = finalizing /\ ~upload[s].active
        /\ acked' = acked /\ begun < MaxUploads /\ begun' = begun + 1
    BY <2>1, Zenon DEF NewUpload, Running
  <2>4. begun \in Nat /\ begun' \in Uploads
    BY <2>2, <2>3, Constants DEF Uploads
  <2> QED BY <2>1, <2>3, <2>4, Zenon
<1>4. p \in Paths /\ \A q \in Paths : <<q, "part">> \in Names
  BY Constants, Zenon DEF Names
<1>5. Finalizing' /\ BeforeNone'
  <2>1. before' = before
    BY <1>3, Zenon DEF NewUpload
  <2> QED BY <1>3, <2>1, Zenon DEF GInv, Finalizing, BeforeNone
<1>6. CASE PutBeginFails(s, p, size)
  <2>1. /\ UNCHANGED <<upload, fds>>
        /\ \/ UNCHANGED <<dir, left>>
           \/ dir' = [dir EXCEPT ![<<p, "part">>] = 0] /\ left' = left \ {p}
    BY <1>6, Zenon DEF PutBeginFails, Unlink
  <2>2. ReqIds'
    <3>1. \A t \in Sessions : upload[t].active => upload[t].req_id \in Nat
      BY <1>2, Fields, Constants DEF Uploads
    <3> QED BY <1>3, <2>1, <3>1 DEF GInv, ReqIds
  <2>3. Descriptors'
    BY <1>3, <2>1, Zenon DEF GInv, Descriptors
  <2>4. TempFiles'
    <3>1. CASE UNCHANGED <<dir, left>>
      BY <2>1, <3>1, Zenon DEF GInv, TempFiles
    <3>2. CASE dir' = [dir EXCEPT ![<<p, "part">>] = 0] /\ left' = left \ {p}
      BY <1>2, <1>4, <2>1, <3>2, ZenonT(60) DEF GInv, TempFiles, TypeOK
    <3> QED BY <2>1, <3>1, <3>2, Zenon
  <2>5. Acked'
    BY <1>3 DEF GInv, Acked
  <2> QED BY <1>2, <1>5, <2>2, <2>3, <2>4, <2>5, Zenon DEF GInv
<1>7. ASSUME NEW overwrite \in Overwrites, PutBegin(s, p, size, overwrite)
      PROVE  GInv'
  <2>1. /\ upload'[s].active /\ upload'[s].req_id = begun' /\ upload'[s].path = p
        /\ \A t \in Sessions \ {s} : upload'[t] = upload[t]
        /\ fds' = fds \cup {begun'} /\ left' = left \ {p}
        /\ dir' = [dir EXCEPT ![<<p, "part">>] = Opened(p)]
    BY <1>2, <1>7, Zenon DEF PutBegin
  <2>2. \A t \in Sessions : upload[t].active => upload[t].req_id \in Nat /\ upload[t].req_id <= begun
    BY <1>2, Fields, Constants DEF Uploads, GInv, ReqIds
  <2>3. acked \subseteq 1..begun
    BY Zenon DEF GInv, Acked
  <2>4. ReqIds'
    <3>1. begun' \notin acked
      BY <1>3, <2>3
    <3>2. ASSUME NEW t \in Sessions, upload'[t].active
          PROVE  /\ upload'[t].req_id <= begun' /\ upload'[t].req_id \notin acked'
                 /\ \A r \in Sessions \ {t} : upload'[r].active => upload'[r].req_id # upload'[t].req_id
      <4>1. CASE t = s
        BY <1>3, <2>1, <2>2, <3>1, <4>1
      <4>2. CASE t # s
        <5>1. upload'[t] = upload[t]
          BY <2>1, <4>2, Zenon
        <5>2. /\ upload[t].req_id <= begun /\ upload[t].req_id \notin acked /\ upload[t].req_id \in Nat
              /\ \A r \in Sessions \ {t} : upload[r].active => upload[r].req_id # upload[t].req_id
          BY <2>2, <3>2, <5>1, Zenon DEF GInv, ReqIds
        <5> QED BY <1>3, <2>1, <4>2, <5>1, <5>2
      <4> QED BY <4>1, <4>2, Zenon
    <3> QED BY <3>2, Zenon DEF ReqIds
  <2>5. Descriptors'
    <3>1. s # finalizing /\ \A t \in Sessions : t # finalizing
      BY <1>3, Constants, Zenon
    <3>2. ASSUME NEW u \in Uploads
          PROVE  u \in fds' <=> \E t \in Sessions : upload'[t].active /\ upload'[t].req_id = u
                                                    /\ t # finalizing'
      <4>1. u \in fds <=> \E t \in Sessions : upload[t].active /\ upload[t].req_id = u
        BY <3>1, Zenon DEF GInv, Descriptors
      <4> QED BY <1>3, <2>1, <3>1, <4>1, Zenon
    <3> QED BY <3>2, Zenon DEF Descriptors
  <2>6. TempFiles'
    <3>1. ASSUME NEW q \in Paths, dir'[<<q, "part">>] # 0
          PROVE  q \in left' \/ \E t \in Sessions : upload'[t].active /\ upload'[t].path = q
      <4>1. CASE q = p
        BY <2>1, <4>1, Zenon
      <4>2. CASE q # p
        <5>1. dir[<<q, "part">>] # 0
          BY <1>2, <1>4, <2>1, <3>1, <4>2, Zenon DEF TypeOK
        <5>2. q \in left \/ \E t \in Sessions : upload[t].active /\ upload[t].path = q
          BY <5>1, Zenon DEF GInv, TempFiles
        <5> QED BY <1>3, <2>1, <4>2, <5>2, Zenon
      <4> QED BY <4>1, <4>2, Zenon
    <3> QED BY <3>1, Zenon DEF TempFiles
  <2>7. Acked'
    BY <1>3, <2>3 DEF Acked
  <2> QED BY <1>2, <1>5, <2>4, <2>5, <2>6, <2>7, Zenon DEF GInv
<1> QED BY <1>1, <1>6, <1>7, Zenon
\* PUT_CHUNK keeps the invariant.
LEMMA ChunkInv ==
  ASSUME GInv, NEW s \in Sessions, NEW u \in Uploads, NEW n \in 0..Chunk, PutChunk(s, u, n)
  PROVE  GInv'
<1>1. TypeOK /\ TypeOK' /\ DOMAIN upload = Sessions
  BY ChunkType, Zenon DEF GInv, TypeOK
<1>2. finalizing = Nobody /\ UNCHANGED <<finalizing, before, begun, acked, had, left>>
  BY Zenon DEF PutChunk, Running
<1>3. CASE /\ UNCHANGED <<dir, fds>>
           /\ \A t \in Sessions : /\ upload'[t].active = upload[t].active
                                  /\ upload'[t].req_id = upload[t].req_id
                                  /\ upload'[t].path = upload[t].path
  <2>1. Finalizing' /\ Acked' /\ BeforeNone'
    BY <1>2, Zenon DEF GInv, Finalizing, Acked, BeforeNone
  <2>2. ReqIds'
    BY <1>2, <1>3 DEF GInv, ReqIds
  <2>3. Descriptors'
    BY <1>2, <1>3 DEF GInv, Descriptors
  <2>4. TempFiles'
    BY <1>2, <1>3 DEF GInv, TempFiles
  <2> QED BY <1>1, <2>1, <2>2, <2>3, <2>4, Zenon DEF GInv
<1>4. CASE upload[s].active /\ TransferAbort(s)
  <2>1. before' = 0
    BY <1>2, Zenon DEF GInv, BeforeNone
  <2>2. Retires(s)
    BY <1>2, <1>4, <2>1, AbortRetires, Zenon
  <2> QED BY <1>1, <1>2, <1>4, <2>2, RetiresInv, Zenon DEF TypeOK
<1>5. UNCHANGED <<upload, dir, fds>> \/ (upload[s].active /\ TransferAbort(s))
      \/ (upload[s].active /\ upload' = [upload EXCEPT ![s].offset = @ + n] /\ UNCHANGED <<dir, fds>>)
  BY Zenon DEF PutChunk, Accepts
<1>6. ASSUME upload[s].active, upload' = [upload EXCEPT ![s].offset = @ + n], NEW t \in Sessions
      PROVE  /\ upload'[t].active = upload[t].active
             /\ upload'[t].req_id = upload[t].req_id
             /\ upload'[t].path = upload[t].path
  <2>1. upload[s] \in TransferState
    BY <1>1, <1>6, Active, Zenon
  <2>2. PICK new : new = [upload[s] EXCEPT !.offset = @ + n]
    BY Zenon
  <2>3. upload' = [upload EXCEPT ![s] = new]
    BY <1>6, <2>2, Zenon
  <2>4. new.active = upload[s].active /\ new.req_id = upload[s].req_id /\ new.path = upload[s].path
    BY <2>1, <2>2, Zenon DEF TransferState
  <2> QED BY <1>1, <2>3, <2>4, Zenon
<1> QED BY <1>3, <1>4, <1>5, <1>6, Zenon

\* PUT_END as far as the unlink keeps the invariant.
LEMMA EndInv ==
  ASSUME GInv, NEW s \in Sessions, NEW u \in Uploads, PutEnd(s, u)
  PROVE  GInv'
<1>1. TypeOK /\ finalizing = Nobody /\ before = 0 /\ upload[s].active
      /\ UNCHANGED <<inode, client, begun, acked, had, left>>
  BY Zenon DEF GInv, BeforeNone, PutEnd, Running, Accepts
<1>2. CASE TransferAbort(s) /\ UNCHANGED <<finalizing, before>>
  <2>1. Retires(s)
    BY <1>1, <1>2, AbortRetires, Zenon
  <2> QED BY <1>1, <2>1, RetiresInv, Zenon DEF TypeOK
<1>3. CASE /\ upload[s].offset = upload[s].total_size
           /\ finalizing' = s /\ before' = dir[<<upload[s].path, "file">>]
           /\ fds' = fds \ {upload[s].req_id}
           /\ IF upload[s].overwrite THEN Unlink(<<upload[s].path, "file">>) ELSE UNCHANGED dir
           /\ UNCHANGED upload
  <2>1. upload[s].path \in Paths /\ upload[s].req_id \in Uploads
    BY <1>1, Fields, Zenon
  <2>2. /\ dir' \in [Names -> Inodes \cup {0}]
        /\ \A p \in Paths : dir'[<<p, "part">>] = dir[<<p, "part">>]
        /\ before' \in Inodes \cup {0}
    <3>1. <<upload[s].path, "file">> \in Names /\ \A p \in Paths : <<p, "part">> \in Names
      BY <2>1, Zenon DEF Names
    <3> QED BY <1>1, <1>3, <3>1, Zenon DEF Unlink, TypeOK
  <2>3. TypeOK'
    BY <1>1, <1>3, <2>2, Zenon DEF TypeOK
  <2>4. Finalizing' /\ Acked'
    BY <1>1, <1>3, Zenon DEF GInv, Finalizing, Acked
  <2>5. ReqIds'
    BY <1>1, <1>3, Zenon DEF GInv, ReqIds
  <2>6. Descriptors'
    <3>1. ASSUME NEW v \in Uploads
          PROVE  v \in fds' <=> \E t \in Sessions : upload'[t].active /\ upload'[t].req_id = v
                                                    /\ t # finalizing'
      <4>1. v \in fds <=> \E t \in Sessions : upload[t].active /\ upload[t].req_id = v
        BY <1>1, Constants DEF GInv, Descriptors
      <4>2. \A t \in Sessions : upload[t].active /\ upload[t].req_id = upload[s].req_id => t = s
        BY <1>1, Zenon DEF GInv, ReqIds
      <4> QED BY <1>1, <1>3, <4>1, <4>2, Zenon
    <3> QED BY <3>1, Zenon DEF Descriptors
  <2>7. TempFiles'
    BY <1>1, <1>3, <2>2, Zenon DEF GInv, TempFiles
  <2>8. BeforeNone'
    BY <1>3, Constants, Zenon DEF BeforeNone
  <2> QED BY <2>3, <2>4, <2>5, <2>6, <2>7, <2>8, Zenon DEF GInv
<1> QED BY <1>2, <1>3, Zenon DEF PutEnd
\* The rename, successful or not, keeps the invariant.
LEMMA RenameInv ==
  ASSUME GInv, RenameFails \/ \E ack \in BOOLEAN : Rename(ack)
  PROVE  GInv'
<1>1. PICK s : s = finalizing
  BY Zenon
<1>2. TypeOK /\ s \in Sessions /\ upload[s].active
  BY <1>1, Zenon DEF GInv, TypeOK, Finalizing, Rename, RenameFails, Running
<1>3. upload[s].path \in Paths /\ upload[s].req_id \in Uploads
  BY <1>2, Fields, Zenon
<1>4. UNCHANGED <<inode, client>>
  BY Zenon DEF Rename, RenameFails
<1>5. CASE RenameFails
  <2>1. Retires(s)
    BY <1>1, <1>2, <1>5, AbortRetires, Zenon DEF RenameFails
  <2> QED BY <1>1, <1>2, <1>4, <2>1, RetiresInv, Zenon DEF TypeOK
<1>6. ASSUME NEW ack \in BOOLEAN, Rename(ack) PROVE GInv'
  <2>1. PICK part : part = <<upload[s].path, "part">>
    BY Zenon
  <2>2. PICK target : target = <<upload[s].path, "file">>
    BY Zenon
  <2>3. /\ part \in Names /\ target \in Names /\ part # target
        /\ \A p \in Paths : <<p, "part">> \in Names /\ <<p, "part">> # target
    BY <1>3, <2>1, <2>2, Zenon DEF Names
  <2>4. dir' = [dir EXCEPT ![target] = dir[part], ![part] = 0]
    BY <1>1, <1>6, <2>1, <2>2, Zenon DEF Rename
  <2>5. /\ dir' \in [Names -> Inodes \cup {0}]
        /\ dir'[part] = 0
        /\ \A p \in Paths : dir'[<<p, "part">>] # 0 => dir[<<p, "part">>] # 0
    BY <1>2, <2>3, <2>4, Zenon DEF TypeOK
  <2>6. fds' = fds \ {upload[s].req_id}
    <3>1. upload[s].req_id \notin fds
      BY <1>1, <1>2, <1>3 DEF GInv, Descriptors, ReqIds
    <3> QED BY <1>6, <3>1, Zenon DEF Rename
  <2>7. had' \subseteq Paths
    BY <1>1, <1>2, <1>3, <1>6, Zenon DEF Rename, TypeOK
  <2>8. Retires(s)
    BY <1>1, <1>6, <2>1, <2>5, <2>6, <2>7, Zenon DEF Rename, Retires
  <2> QED BY <1>1, <1>2, <1>4, <2>8, RetiresInv, Zenon DEF TypeOK
<1> QED BY <1>5, <1>6, Zenon

\* What is left of a client that has gone still has its type.
LEMMA GoneType ==
  ASSUME TypeOK, NEW S, Gone(S)
  PROVE  client' \in [Uploads -> [by: Sessions \cup {Nobody}, size: 0..MaxSize,
                                  sent: 0..(MaxSize + 1)]]
<1>1. \A u \in Uploads : [client[u] EXCEPT !.by = Nobody]
        \in [by: Sessions \cup {Nobody}, size: 0..MaxSize, sent: 0..(MaxSize + 1)]
  BY ZenonT(60) DEF TypeOK
<1> QED BY <1>1, Zenon DEF Gone, TypeOK

\* A transfer that times out, and a session that is freed, keep the invariant.
LEMMA LeaveInv ==
  ASSUME GInv, NEW s \in Sessions, Stall(s) \/ Freed(s)
  PROVE  GInv'
<1>1. TypeOK /\ finalizing = Nobody /\ before = 0
      /\ UNCHANGED <<inode, finalizing, before, begun, acked, had, left>>
  BY Zenon DEF GInv, BeforeNone, Stall, Freed, Running
<1>2. client' \in [Uploads -> [by: Sessions \cup {Nobody}, size: 0..MaxSize,
                               sent: 0..(MaxSize + 1)]]
  BY <1>1, GoneType, Zenon DEF Stall, Freed, TypeOK
<1>3. CASE upload[s].active
  <2>1. TransferAbort(s)
    BY <1>3, Zenon DEF Stall, Freed
  <2>2. Retires(s)
    BY <1>1, <1>3, <2>1, AbortRetires, Zenon
  <2> QED BY <1>1, <1>2, <1>3, <2>2, RetiresInv, Zenon DEF TypeOK
<1>4. CASE ~upload[s].active
  <2>1. UNCHANGED <<dir, upload, fds>>
    BY <1>4, Zenon DEF Stall, Freed
  <2>2. TypeOK'
    BY <1>1, <1>2, <2>1, Zenon DEF TypeOK
  <2> QED BY <1>1, <2>1, <2>2
         DEF GInv, Finalizing, ReqIds, Descriptors, TempFiles, Acked, BeforeNone
<1> QED BY <1>3, <1>4, Zenon

\* A crash and a restart keep the invariant.
LEMMA CrashInv ==
  ASSUME GInv, Crash
  PROVE  GInv'
<1>1. /\ TypeOK /\ upload' = [s \in Sessions |-> Idle] /\ fds' = {}
      /\ finalizing' = Nobody /\ before' = 0
      /\ left' = {p \in Paths : dir[<<p, "part">>] # 0}
      /\ UNCHANGED <<dir, inode, begun, acked, had>>
  BY Zenon DEF GInv, Crash
<1>2. \A s \in Sessions : ~upload'[s].active
  BY <1>1, Zenon DEF Idle
<1>3. client' \in [Uploads -> [by: Sessions \cup {Nobody}, size: 0..MaxSize,
                               sent: 0..(MaxSize + 1)]]
  BY <1>1, GoneType, Zenon DEF Crash
<1>4. TypeOK'
  BY <1>1, <1>2, <1>3, Zenon DEF TypeOK
<1> QED BY <1>1, <1>2, <1>4, Zenon
       DEF GInv, Finalizing, ReqIds, Descriptors, TempFiles, Acked, BeforeNone

\* The agent starts in the invariant.
LEMMA InitInv == Init => GInv
<1> SUFFICES ASSUME Init PROVE GInv
  BY Zenon
<1>1. upload = [s \in Sessions |-> Idle] /\ \A s \in Sessions : ~upload[s].active
  BY Zenon DEF Init, Idle
<1>2. dir \in [Names -> Inodes \cup {0}]
  BY Constants, Zenon DEF Init
<1>3. /\ inode \in [Inodes -> Seq(Bytes)]
      /\ \A i \in Inodes : Len(inode[i]) <= MaxSize + 1
  <2>1. A!Whole(0, 1) \in Seq(Bytes) /\ Len(A!Whole(0, 1)) = 1
    <3>1. 0 \in 0..MaxUploads /\ 1 \in 0..(MaxSize + 1)
      BY Constants
    <3> QED BY <3>1, WholeSeq, Zenon
  <2>2. <<>> \in Seq(Bytes) /\ Len(<<>>) = 0
    OBVIOUS
  <2>3. 0 <= MaxSize + 1 /\ 1 <= MaxSize + 1
    BY Constants
  <2>4. inode = [i \in Inodes |-> IF i = Old THEN A!Whole(0, 1) ELSE <<>>]
    BY Zenon DEF Init
  <2> QED BY <2>1, <2>2, <2>3, <2>4, Zenon
<1>4. client \in [Uploads -> [by: Sessions \cup {Nobody}, size: 0..MaxSize,
                              sent: 0..(MaxSize + 1)]]
  BY Constants, SMTT(30) DEF Init
<1>5. TypeOK
  BY <1>1, <1>2, <1>3, <1>4, Constants DEF Init, TypeOK
<1>6. TempFiles
  BY Zenon DEF Init, TempFiles
<1> QED BY <1>1, <1>5, <1>6, Zenon DEF Init, GInv, Finalizing, ReqIds, Descriptors, Acked, BeforeNone

\* Every handler, every failure and a crash keep the invariant.
LEMMA NextInv == GInv /\ [Next]_vars => GInv'
<1> SUFFICES ASSUME GInv, [Next]_vars PROVE GInv'
  BY Zenon
<1>1. CASE Next
  BY <1>1, BeginInv, ChunkInv, EndInv, RenameInv, LeaveInv, CrashInv, Zenon DEF Next
<1>2. CASE UNCHANGED vars
  BY <1>2, Zenon DEF vars, GInv, TypeOK, Finalizing, ReqIds, Descriptors, TempFiles, Acked, BeforeNone
<1> QED BY <1>1, <1>2, Zenon

\* The invariant holds in every reachable state, whichever targets the
\* clients choose and whatever fails.
THEOREM Invariance == Spec => []GInv
  BY InitInv, NextInv, PTL DEF Spec

\* The variables keep their types: in particular an upload never holds more
\* than was declared (transfer_handle_put_chunk).
THEOREM TypeCorrect == Spec => []TypeOK
<1>1. GInv => TypeOK
  BY Zenon DEF GInv
<1> QED BY <1>1, Invariance, PTL

\* No temp file and no descriptor outlives its upload, except the temp files a
\* crash leaves, for any number of sessions, with common targets too
\* (transfer_abort).
THEOREM NoLeak == Spec => []NothingLeaked
<1>1. ASSUME GInv PROVE NothingLeaked
  <2>1. ASSUME Running PROVE fds = {upload[s].req_id : s \in {t \in Sessions : upload[t].active}}
    <3>1. \A s \in Sessions : s # finalizing
      BY <2>1, Constants, Zenon DEF Running
    <3>2. \A s \in Sessions : upload[s].active => upload[s].req_id \in Uploads
      BY <1>1, Fields, Zenon DEF GInv
    <3>3. fds \subseteq Uploads
      BY <1>1, Zenon DEF GInv, TypeOK
    <3> QED BY <1>1, <3>1, <3>2, <3>3 DEF GInv, Descriptors
  <2> QED BY <1>1, <2>1, Zenon DEF NothingLeaked, GInv, TempFiles
<1> QED BY <1>1, Invariance, PTL
-----------------------------------------------------------------------------
(* Clients that do not share their targets: every file is whole, and the   *)
(* uploads implement AtomicStore (DInv).                                   *)

DisjointTargets == \A s, t \in Sessions : s # t => PathsOf[s] \cap PathsOf[t] = {}

\* The temp file of an upload in progress is its own and holds what its
\* client has sent.
Owned ==
  \A s \in Sessions : upload[s].active =>
    /\ upload[s].path \in PathsOf[s]
    /\ upload[s].file = dir[<<upload[s].path, "part">>]
    /\ inode[upload[s].file] = A!Whole(upload[s].req_id, upload[s].offset)
    /\ client[upload[s].req_id].by = s
    /\ client[upload[s].req_id].size = upload[s].total_size
    /\ client[upload[s].req_id].sent = upload[s].offset

\* No inode has two names, but for the files that were there before.
Linked ==
  /\ \A p \in Paths : dir[<<p, "part">>] \in 0..begun
  /\ \A n \in Names : dir[n] \in 0..begun \cup {Old}
  /\ \A m, n \in Names : m # n /\ dir[m] = dir[n] => dir[m] \in {0, Old}

WholeInode(i) ==
  inode[i] = A!Whole(0, 1) \/ \E u \in 1..begun : inode[i] = A!Whole(u, client[u].size)

OldWhole == inode[Old] = A!Whole(0, 1)

\* The target in transfer_finalize_rename is unlinked, or as it was before.
Replaced ==
  finalizing # Nobody =>
    dir[<<upload[finalizing].path, "file">>] = IF upload[finalizing].overwrite THEN 0 ELSE before

DInv == Owned /\ Linked /\ OldWhole /\ CommittedWhole /\ Replaced

\* The steps of AtomicStore, or none.
AStep == [A!Next]_<<File, acked, Replacing>>

\* Outside transfer_finalize_rename the files are what the directory says.
LEMMA FileRunning ==
  finalizing = Nobody => /\ Replacing = {}
                         /\ File = [p \in Paths |-> {inode[i] : i \in {dir[<<p, "file">>]} \ {0}}]
  BY Zenon DEF File, Shown, Replacing

\* The same in the next state.
LEMMA FileRunningNext ==
  finalizing' = Nobody =>
    /\ Replacing' = {}
    /\ File' = [p \in Paths |-> {inode'[i] : i \in {dir'[<<p, "file">>]} \ {0}}]
  BY Zenon DEF File, Shown, Replacing

\* A step that leaves the inodes of the files alone does nothing to them.
LEMMA Untouched ==
  ASSUME finalizing = Nobody, finalizing' = Nobody, acked' = acked,
         \A p \in Paths : /\ dir'[<<p, "file">>] = dir[<<p, "file">>]
                          /\ dir[<<p, "file">>] # 0 =>
                               inode'[dir[<<p, "file">>]] = inode[dir[<<p, "file">>]]
  PROVE  UNCHANGED <<File, acked, Replacing>>
<1>1. Replacing' = Replacing
  BY FileRunning, FileRunningNext, Zenon
<1>2. \A p \in Paths : {inode'[i] : i \in {dir'[<<p, "file">>]} \ {0}}
                         = {inode[i] : i \in {dir[<<p, "file">>]} \ {0}}
  BY Zenon
<1>3. File' = File
  BY <1>2, FileRunning, FileRunningNext, Zenon
<1> QED BY <1>1, <1>3, Zenon

\* A file that is whole stays so if its inode and the sizes its clients
\* declared do.
LEMMA WholeKept ==
  ASSUME CommittedWhole, begun \in Nat, begun' \in Nat, begun <= begun',
         \A u \in 1..begun : client'[u].size = client[u].size,
         \A p \in Paths : dir'[<<p, "file">>] # 0 =>
           /\ dir'[<<p, "file">>] = dir[<<p, "file">>]
           /\ inode'[dir[<<p, "file">>]] = inode[dir[<<p, "file">>]]
  PROVE  CommittedWhole'
<1> SUFFICES ASSUME NEW p \in Paths, dir'[<<p, "file">>] # 0
             PROVE  \/ inode'[dir'[<<p, "file">>]] = A!Whole(0, 1)
                    \/ \E u \in 1..begun' : inode'[dir'[<<p, "file">>]] = A!Whole(u, client'[u].size)
  BY Zenon DEF CommittedWhole, A!Whole
<1>1. \/ inode[dir[<<p, "file">>]] = A!Whole(0, 1)
      \/ \E u \in 1..begun : inode[dir[<<p, "file">>]] = A!Whole(u, client[u].size)
  BY Zenon DEF CommittedWhole
<1>2. 1..begun \subseteq 1..begun'
  OBVIOUS
<1> QED BY <1>1, <1>2, Zenon
\* The name of a temp file, and the numbers of the inodes.
LEMMA NameFacts ==
  ASSUME TypeOK
  PROVE  /\ \A p \in Paths : <<p, "part">> \in Names /\ <<p, "file">> \in Names
         /\ \A p, q \in Paths : <<p, "part">> # <<q, "file">>
         /\ \A p, q \in Paths : p # q => <<p, "part">> # <<q, "part">>
         /\ dir \in [Names -> Inodes \cup {0}]
         /\ inode \in [Inodes -> Seq(Bytes)]
         /\ begun \in Nat /\ begun <= MaxUploads /\ Old \notin 0..begun
  BY Constants DEF Names, TypeOK, Old

\* An upload whose temp file and client a step leaves alone is owned as before.
LEMMA OwnedKept ==
  ASSUME Owned, NEW t \in Sessions, upload[t].active, upload'[t] = upload[t],
         dir'[<<upload[t].path, "part">>] = dir[<<upload[t].path, "part">>],
         inode'[upload[t].file] = inode[upload[t].file],
         client'[upload[t].req_id] = client[upload[t].req_id]
  PROVE  /\ upload'[t].path \in PathsOf[t]
         /\ upload'[t].file = dir'[<<upload'[t].path, "part">>]
         /\ inode'[upload'[t].file] = A!Whole(upload'[t].req_id, upload'[t].offset)
         /\ client'[upload'[t].req_id].by = t
         /\ client'[upload'[t].req_id].size = upload'[t].total_size
         /\ client'[upload'[t].req_id].sent = upload'[t].offset
<1>1. /\ upload[t].path \in PathsOf[t]
      /\ upload[t].file = dir[<<upload[t].path, "part">>]
      /\ inode[upload[t].file] = A!Whole(upload[t].req_id, upload[t].offset)
      /\ client[upload[t].req_id].by = t
      /\ client[upload[t].req_id].size = upload[t].total_size
      /\ client[upload[t].req_id].sent = upload[t].offset
  BY Zenon DEF Owned
<1> QED BY <1>1, ZenonT(60)

\* So are all of them, when the step leaves every upload in progress alone.
LEMMA OwnedNext ==
  ASSUME Owned,
         \A t \in Sessions : upload'[t].active =>
           /\ upload'[t] = upload[t]
           /\ dir'[<<upload[t].path, "part">>] = dir[<<upload[t].path, "part">>]
           /\ inode'[upload[t].file] = inode[upload[t].file]
           /\ client'[upload[t].req_id] = client[upload[t].req_id]
  PROVE  Owned'
<1> SUFFICES ASSUME NEW t \in Sessions, upload'[t].active
             PROVE  /\ upload'[t].path \in PathsOf[t]
                    /\ upload'[t].file = dir'[<<upload'[t].path, "part">>]
                    /\ inode'[upload'[t].file] = A!Whole(upload'[t].req_id, upload'[t].offset)
                    /\ client'[upload'[t].req_id].by = t
                    /\ client'[upload'[t].req_id].size = upload'[t].total_size
                    /\ client'[upload'[t].req_id].sent = upload'[t].offset
  BY Zenon DEF Owned, A!Whole
<1>1. /\ upload'[t] = upload[t]
      /\ dir'[<<upload[t].path, "part">>] = dir[<<upload[t].path, "part">>]
      /\ inode'[upload[t].file] = inode[upload[t].file]
      /\ client'[upload[t].req_id] = client[upload[t].req_id]
  BY Zenon
<1>2. upload[t].active
  BY <1>1, Zenon
<1> QED BY <1>1, <1>2, OwnedKept, Zenon

\* Distinct clients have distinct uploads in progress.
LEMMA OwnPaths ==
  ASSUME DisjointTargets, TypeOK, Owned, NEW s \in Sessions, NEW p \in PathsOf[s],
         NEW t \in Sessions, t # s, upload[t].active
  PROVE  upload[t].path # p
<1>1. upload[t].path \in PathsOf[t]
  BY Zenon DEF Owned
<1>2. PathsOf[s] \cap PathsOf[t] = {}
  BY Zenon DEF DisjointTargets
<1> QED BY <1>1, <1>2, Zenon

\* The inode of a temp file is no file's, and no other upload's.
LEMMA TempInode ==
  ASSUME DisjointTargets, TypeOK, Owned, Linked, NEW s \in Sessions, NEW p \in PathsOf[s],
         dir[<<p, "part">>] # 0
  PROVE  /\ dir[<<p, "part">>] \in Inodes \ {Old}
         /\ \A q \in Paths : dir[<<q, "file">>] # dir[<<p, "part">>]
         /\ \A t \in Sessions \ {s} : upload[t].active => upload[t].file # dir[<<p, "part">>]
<1>1. p \in Paths
  BY Constants, Zenon
<1>2. dir[<<p, "part">>] \in Inodes \ {Old}
  BY <1>1, NameFacts, Zenon DEF Linked
<1>3. ASSUME NEW q \in Paths PROVE dir[<<q, "file">>] # dir[<<p, "part">>]
  <2>1. /\ <<q, "file">> \in Names /\ <<p, "part">> \in Names /\ <<q, "file">> # <<p, "part">>
    BY <1>1, NameFacts, Zenon
  <2> QED BY <1>2, <2>1, Zenon DEF Linked
<1>4. ASSUME NEW t \in Sessions \ {s}, upload[t].active
      PROVE  upload[t].file # dir[<<p, "part">>]
  <2>1. upload[t].path # p /\ upload[t].path \in Paths
    BY <1>4, OwnPaths, Fields, Zenon
  <2>2. /\ <<upload[t].path, "part">> \in Names /\ <<p, "part">> \in Names
        /\ <<upload[t].path, "part">> # <<p, "part">>
    BY <1>1, <2>1, NameFacts, Zenon
  <2>3. upload[t].file = dir[<<upload[t].path, "part">>]
    BY <1>4, Zenon DEF Owned
  <2> QED BY <1>2, <2>2, <2>3, Zenon DEF Linked
<1> QED BY <1>2, <1>3, <1>4, Zenon

\* The inode PUT_BEGIN opens is no file's, and no other upload's.
LEMMA OpenedInode ==
  ASSUME DisjointTargets, TypeOK, Owned, Linked, NEW s \in Sessions, NEW p \in PathsOf[s],
         begun' = begun + 1, begun < MaxUploads
  PROVE  /\ Opened(p) \in Inodes \ {Old} /\ Opened(p) \in 1..(begun + 1)
         /\ \A q \in Paths : dir[<<q, "file">>] # Opened(p)
         /\ \A t \in Sessions \ {s} : upload[t].active => upload[t].file # Opened(p)
         /\ \A n \in Names : n # <<p, "part">> => dir[n] # Opened(p)
<1>1. p \in Paths /\ <<p, "part">> \in Names
  BY Constants, NameFacts, Zenon
<1>2. CASE dir[<<p, "part">>] # 0
  <2>1. Opened(p) = dir[<<p, "part">>]
    BY <1>2, Zenon DEF Opened
  <2>2. Opened(p) \in 1..(begun + 1)
    BY <1>1, <1>2, <2>1, NameFacts DEF Linked
  <2>3. \A n \in Names : n # <<p, "part">> => dir[n] # Opened(p)
    BY <1>1, <1>2, <2>1, TempInode, Zenon DEF Linked
  <2> QED BY <1>2, <2>1, <2>2, <2>3, TempInode, Zenon
<1>3. CASE dir[<<p, "part">>] = 0
  <2>1. Opened(p) = begun + 1
    BY <1>3, Zenon DEF Opened
  <2>2. Opened(p) \in Inodes \ {Old} /\ Opened(p) \in 1..(begun + 1)
    BY <2>1, NameFacts, Constants DEF Inodes, Old
  <2>3. \A n \in Names : dir[n] # Opened(p)
    BY <2>1, <2>2, NameFacts DEF Linked
  <2>4. ASSUME NEW t \in Sessions, upload[t].active
        PROVE  upload[t].file # Opened(p)
    <3>1. <<upload[t].path, "part">> \in Names /\ upload[t].file = dir[<<upload[t].path, "part">>]
      BY <2>4, Fields, NameFacts, Zenon DEF Owned
    <3> QED BY <2>3, <3>1, Zenon
  <2> QED BY <2>2, <2>3, <2>4, NameFacts, Zenon
<1> QED BY <1>2, <1>3, Zenon

\* PUT_BEGIN touches no file.
LEMMA BeginD ==
  ASSUME DisjointTargets, GInv, DInv, NEW s \in Sessions, Begin(s)
  PROVE  DInv' /\ UNCHANGED <<File, acked, Replacing>>
<1>1. PICK p \in PathsOf[s], size \in 0..MaxSize :
        \/ PutBeginFails(s, p, size)
        \/ \E overwrite \in Overwrites : PutBegin(s, p, size, overwrite)
  BY Zenon DEF Begin
<1>2. TypeOK /\ TypeOK' /\ Owned /\ Linked /\ DOMAIN upload = Sessions
  BY BeginType, Zenon DEF GInv, DInv, TypeOK
<1>3. NewUpload(s, size)
  BY <1>1, Zenon DEF PutBegin, PutBeginFails
<1>4. /\ finalizing = Nobody /\ finalizing' = Nobody /\ ~upload[s].active
      /\ begun' = begun + 1 /\ begun < MaxUploads /\ acked' = acked
      /\ client' = [client EXCEPT ![begun'] = [by |-> s, size |-> size, sent |-> 0]]
  BY <1>3, Zenon DEF NewUpload, Running
<1>5. /\ begun \in Nat /\ begun' \in Nat /\ begun' \in Uploads /\ begun' \notin 1..begun
      /\ p \in Paths /\ <<p, "part">> \in Names
  <2>1. begun \in Nat /\ begun' = begun + 1 /\ begun < MaxUploads /\ MaxUploads \in Nat
    BY <1>2, <1>4, NameFacts, Constants, Zenon
  <2>2. p \in Paths /\ <<p, "part">> \in Names
    BY <1>2, NameFacts, Constants, Zenon
  <2> QED BY <2>1, <2>2 DEF Uploads
<1>6. /\ client'[begun'] = [by |-> s, size |-> size, sent |-> 0]
      /\ \A u \in Uploads : u # begun' => client'[u] = client[u]
  BY <1>2, <1>4, <1>5, ZenonT(60) DEF TypeOK
<1>7. \A u \in 1..begun : client'[u] = client[u]
  BY <1>5, <1>6, <1>4, Constants DEF Uploads
<1>71. /\ upload'[s].active => /\ dir' = [dir EXCEPT ![<<p, "part">>] = Opened(p)]
                               /\ Truncate(Opened(p))
       /\ ~upload'[s].active => /\ dir' = dir \/ Unlink(<<p, "part">>)
                                /\ \/ inode' = inode
                                   \/ dir[<<p, "part">>] # 0 /\ Truncate(dir[<<p, "part">>])
  <2>1. CASE PutBeginFails(s, p, size)
    <3>1. ~upload'[s].active
      BY <1>4, <2>1, Zenon DEF PutBeginFails
    <3> QED BY <2>1, <3>1, Zenon DEF PutBeginFails
  <2>2. ASSUME NEW overwrite \in Overwrites, PutBegin(s, p, size, overwrite)
        PROVE  /\ upload'[s].active
               /\ dir' = [dir EXCEPT ![<<p, "part">>] = Opened(p)]
               /\ Truncate(Opened(p))
    BY <1>2, <2>2, Zenon DEF PutBegin
  <2> QED BY <1>1, <2>1, <2>2, Zenon
<1>8. PICK j : (inode' = inode \/ (j \in Inodes \ {Old} /\ inode' = [inode EXCEPT ![j] = <<>>]))
               /\ (\A q \in Paths : dir[<<q, "file">>] # j)
               /\ (\A t \in Sessions \ {s} : upload[t].active => upload[t].file # j)
               /\ (upload'[s].active =>
                     j = Opened(p) /\ inode' = [inode EXCEPT ![j] = <<>>])
  <2>1. CASE upload'[s].active
    <3>1. inode' = [inode EXCEPT ![Opened(p)] = <<>>]
      BY <1>71, <2>1, Zenon DEF Truncate
    <3>2. PICK j : j = Opened(p)
      BY Zenon
    <3>3. /\ j \in Inodes \ {Old}
          /\ \A q \in Paths : dir[<<q, "file">>] # j
          /\ \A t \in Sessions \ {s} : upload[t].active => upload[t].file # j
      BY <1>2, <1>4, <3>2, OpenedInode, Zenon
    <3>4. inode' = [inode EXCEPT ![j] = <<>>]
      BY <3>1, <3>2, Zenon
    <3> QED BY <3>2, <3>3, <3>4, Zenon
  <2>2. CASE ~upload'[s].active
    <3>1. inode' = inode \/ (dir[<<p, "part">>] # 0 /\ inode' = [inode EXCEPT ![dir[<<p, "part">>]] = <<>>])
      BY <1>71, <2>2, Zenon DEF Truncate
    <3>2. CASE dir[<<p, "part">>] # 0
      <4>1. PICK j : j = dir[<<p, "part">>]
        BY Zenon
      <4>2. /\ j \in Inodes \ {Old}
            /\ \A q \in Paths : dir[<<q, "file">>] # j
            /\ \A t \in Sessions \ {s} : upload[t].active => upload[t].file # j
        BY <1>2, <3>2, <4>1, TempInode, Zenon
      <4>3. inode' = inode \/ inode' = [inode EXCEPT ![j] = <<>>]
        BY <3>1, <4>1, Zenon
      <4>5. inode' = inode \/ (j \in Inodes \ {Old} /\ inode' = [inode EXCEPT ![j] = <<>>])
        BY <4>2, <4>3, Zenon
      <4> QED BY <2>2, <4>2, <4>5, Zenon
    <3>3. CASE dir[<<p, "part">>] = 0
      <4>1. inode' = inode
        BY <3>1, <3>3, Zenon
      <4>2. -1 \notin Inodes \cup {0}
        BY Constants DEF Inodes, Old
      <4>3. /\ \A q \in Paths : dir[<<q, "file">>] # -1
            /\ \A t \in Sessions \ {s} : upload[t].active => upload[t].file # -1
        BY <1>2, <4>2, NameFacts, Fields, ZenonT(120)
      <4> QED BY <2>2, <4>1, <4>3, Zenon
    <3> QED BY <3>2, <3>3, Zenon
  <2> QED BY <2>1, <2>2, Zenon
<1>9. /\ inode'[Old] = inode[Old]
      /\ \A q \in Paths : dir[<<q, "file">>] # 0 => inode'[dir[<<q, "file">>]] = inode[dir[<<q, "file">>]]
      /\ \A t \in Sessions \ {s} : upload[t].active => inode'[upload[t].file] = inode[upload[t].file]
  BY <1>2, <1>8, NameFacts, Fields, Constants, ZenonT(120)
<1>10. PICK new \in 0..(begun + 1) :
         /\ dir' = [dir EXCEPT ![<<p, "part">>] = new]
         /\ new # 0 => \A n \in Names : n # <<p, "part">> => dir[n] # new
         /\ upload'[s].active => new = Opened(p)
  <2>1. CASE upload'[s].active
    <3>1. dir' = [dir EXCEPT ![<<p, "part">>] = Opened(p)]
      BY <1>71, <2>1, Zenon
    <3>2. Opened(p) \in 0..(begun + 1)
      BY <1>2, <1>4, OpenedInode
    <3>3. \A n \in Names : n # <<p, "part">> => dir[n] # Opened(p)
      BY <1>2, <1>4, OpenedInode, Zenon
    <3> QED BY <3>1, <3>2, <3>3, Zenon
  <2>2. CASE ~upload'[s].active /\ Unlink(<<p, "part">>)
    <3>1. 0 \in 0..(begun + 1)
      BY <1>5
    <3> QED BY <2>2, <3>1, Zenon DEF Unlink
  <2>3. CASE ~upload'[s].active /\ dir' = dir
    <3>1. dir' = [dir EXCEPT ![<<p, "part">>] = dir[<<p, "part">>]]
      BY <1>2, <1>5, <2>3, Zenon DEF TypeOK
    <3>2. dir[<<p, "part">>] \in 0..begun /\ dir[<<p, "part">>] # Old
      <4>1. dir[<<p, "part">>] \in 0..begun
        BY <1>2, <1>5, Zenon DEF Linked
      <4>2. Old \notin 0..begun
        BY <1>4, <1>5, Constants DEF Old
      <4> QED BY <4>1, <4>2, Zenon
    <3>3. dir[<<p, "part">>] \in 0..(begun + 1)
      BY <1>5, <3>2
    <3>4. dir[<<p, "part">>] # 0 => \A n \in Names : n # <<p, "part">> => dir[n] # dir[<<p, "part">>]
      BY <1>2, <1>5, <3>2, ZenonT(60) DEF Linked
    <3> QED BY <2>3, <3>1, <3>3, <3>4, Zenon
  <2> QED BY <1>71, <2>1, <2>2, <2>3, Zenon
<1>11. /\ dir'[<<p, "part">>] = new
       /\ \A n \in Names : n # <<p, "part">> => dir'[n] = dir[n]
  BY <1>2, <1>5, <1>10, NameFacts, Zenon
<1>12. Linked'
  <2>1. \A q \in Paths : dir'[<<q, "part">>] \in 0..begun'
    <3>1. \A q \in Paths : dir[<<q, "part">>] \in 0..begun /\ <<q, "part">> \in Names
      BY <1>2, NameFacts, Zenon DEF Linked
    <3>2. 0..begun \subseteq 0..begun' /\ new \in 0..begun'
      BY <1>4, <1>5, SMTT(30)
    <3> QED BY <1>11, <3>1, <3>2, Zenon
  <2>2. \A n \in Names : dir'[n] \in 0..begun' \cup {Old}
    BY <1>2, <1>4, <1>5, <1>11, SMTT(30) DEF Linked
  <2>3. ASSUME NEW m \in Names, NEW n \in Names, m # n, dir'[m] = dir'[n]
        PROVE  dir'[m] \in {0, Old}
    BY <1>2, <1>10, <1>11, <2>3 DEF Linked
  <2> QED BY <2>1, <2>2, <2>3, Zenon DEF Linked
<1>13. /\ \A q \in Paths : dir'[<<q, "file">>] = dir[<<q, "file">>]
       /\ \A t \in Sessions \ {s} : upload[t].active =>
            dir'[<<upload[t].path, "part">>] = dir[<<upload[t].path, "part">>]
  <2>1. \A q \in Paths : dir'[<<q, "file">>] = dir[<<q, "file">>]
    BY <1>2, <1>5, <1>11, NameFacts, Zenon
  <2>2. ASSUME NEW t \in Sessions \ {s}, upload[t].active
        PROVE  dir'[<<upload[t].path, "part">>] = dir[<<upload[t].path, "part">>]
    <3>1. upload[t].path # p /\ upload[t].path \in Paths
      BY <1>2, <2>2, OwnPaths, Fields, Zenon
    <3> QED BY <1>2, <1>5, <1>11, <3>1, NameFacts, Zenon
  <2> QED BY <2>1, <2>2, Zenon
<1>14. Owned'
  <2>1. ASSUME NEW t \in Sessions, upload'[t].active, upload'[t] = upload[t]
        PROVE  /\ upload'[t].path \in PathsOf[t]
               /\ upload'[t].file = dir'[<<upload'[t].path, "part">>]
               /\ inode'[upload'[t].file] = A!Whole(upload'[t].req_id, upload'[t].offset)
               /\ client'[upload'[t].req_id].by = t
               /\ client'[upload'[t].req_id].size = upload'[t].total_size
               /\ client'[upload'[t].req_id].sent = upload'[t].offset
    <3>1. t \in Sessions \ {s} /\ upload[t].active
      BY <1>4, <2>1, ZenonT(60)
    <3>2. upload[t].req_id \in 1..begun
      BY <1>2, <3>1, Fields, Constants, SMTT(30) DEF GInv, ReqIds, Uploads
    <3>3. /\ dir'[<<upload[t].path, "part">>] = dir[<<upload[t].path, "part">>]
          /\ inode'[upload[t].file] = inode[upload[t].file]
          /\ client'[upload[t].req_id] = client[upload[t].req_id]
      BY <1>7, <1>9, <1>13, <3>1, <3>2, Zenon
    <3> QED BY <1>2, <2>1, <3>1, <3>3, OwnedKept, Zenon
  <2>2. CASE PutBeginFails(s, p, size)
    BY <2>1, <2>2, Zenon DEF PutBeginFails, Owned, A!Whole
  <2>3. ASSUME NEW overwrite \in Overwrites, PutBegin(s, p, size, overwrite)
        PROVE  Owned'
    <3>1. /\ upload'[s] = [active |-> TRUE, path |-> p, req_id |-> begun',
                           overwrite |-> overwrite, total_size |-> size, offset |-> 0,
                           file |-> Opened(p)]
          /\ \A t \in Sessions \ {s} : upload'[t] = upload[t]
      BY <1>2, <2>3, Zenon DEF PutBegin
    <3>2. inode'[Opened(p)] = <<>>
      <4>1. upload'[s].active
        BY <1>2, <2>3, Zenon DEF PutBegin
      <4>2. inode' = [inode EXCEPT ![Opened(p)] = <<>>]
        BY <1>8, <4>1, Zenon
      <4>3. Opened(p) \in Inodes
        BY <1>2, <1>4, OpenedInode, Zenon
      <4>4. inode \in [Inodes -> Seq(Bytes)]
        BY <1>2, NameFacts, Zenon
      <4> QED BY <4>2, <4>3, <4>4, ZenonT(60)
    <3>3. inode'[Opened(p)] = A!Whole(begun', 0)
      BY <3>2, WholeEmpty, ZenonT(60)
    <3>4. dir'[<<p, "part">>] = Opened(p)
      <4>1. upload'[s].active
        BY <1>2, <2>3, Zenon DEF PutBegin
      <4> QED BY <1>10, <1>11, <4>1, Zenon
    <3>5. /\ upload'[s].path \in PathsOf[s]
          /\ upload'[s].file = dir'[<<upload'[s].path, "part">>]
          /\ inode'[upload'[s].file] = A!Whole(upload'[s].req_id, upload'[s].offset)
          /\ client'[upload'[s].req_id].by = s
          /\ client'[upload'[s].req_id].size = upload'[s].total_size
          /\ client'[upload'[s].req_id].sent = upload'[s].offset
      BY <1>6, <3>1, <3>3, <3>4
    <3>6. \A t \in Sessions : t = s \/ upload'[t] = upload[t]
      BY <3>1, Zenon
    <3> QED BY <2>1, <3>5, <3>6, ZenonT(120) DEF Owned, A!Whole
  <2> QED BY <1>1, <2>2, <2>3, ZenonT(60)
<1>15. CommittedWhole'
  <2>1. CommittedWhole /\ begun <= begun' /\ \A u \in 1..begun : client'[u].size = client[u].size
    BY <1>4, <1>5, <1>7 DEF DInv
  <2> QED BY <1>5, <1>9, <1>13, <2>1, WholeKept, ZenonT(60)
<1>16. OldWhole' /\ Replaced'
  BY <1>4, <1>9, Zenon DEF DInv, OldWhole, Replaced, A!Whole
<1>17. UNCHANGED <<File, acked, Replacing>>
  BY <1>4, <1>9, <1>13, Untouched, Zenon
<1> QED BY <1>12, <1>14, <1>15, <1>16, <1>17, Zenon DEF DInv

\* What an upload that ends without success leaves behind keeps the invariant
\* of the files: its temp file and nothing else goes.
LEMMA AbortD ==
  ASSUME DisjointTargets, GInv, DInv, NEW s \in Sessions, upload[s].active, TransferAbort(s),
         begun' = begun,
         inode' \in [Inodes -> Seq(Bytes)],
         \A i \in Inodes : i # upload[s].file => inode'[i] = inode[i],
         \A u \in Uploads : /\ client'[u].size = client[u].size
                            /\ client[u].by # s => client'[u] = client[u]
  PROVE  /\ Owned' /\ Linked' /\ OldWhole' /\ CommittedWhole'
         /\ \A q \in Paths : /\ dir'[<<q, "file">>] = dir[<<q, "file">>]
                             /\ dir[<<q, "file">>] # 0 =>
                                  inode'[dir[<<q, "file">>]] = inode[dir[<<q, "file">>]]
<1>1. /\ TypeOK /\ Owned /\ Linked /\ OldWhole /\ CommittedWhole /\ ReqIds
      /\ DOMAIN upload = Sessions
  BY Zenon DEF GInv, DInv, TypeOK
<1>2. PICK p : p = upload[s].path
  BY Zenon
<1>3. /\ p \in PathsOf[s] /\ p \in Paths /\ <<p, "part">> \in Names
      /\ upload[s].file = dir[<<p, "part">>] /\ dir[<<p, "part">>] # 0
  <2>1. p \in PathsOf[s] /\ upload[s].file = dir[<<p, "part">>]
    BY <1>1, <1>2, Zenon DEF Owned
  <2>2. p \in Paths /\ upload[s].file # 0
    BY <1>1, <1>2, Fields, Constants, ZenonT(60)
  <2> QED BY <1>1, <2>1, <2>2, NameFacts, Zenon
<1>4. /\ upload[s].file \in Inodes \ {Old}
      /\ \A q \in Paths : dir[<<q, "file">>] # upload[s].file
      /\ \A t \in Sessions \ {s} : upload[t].active => upload[t].file # upload[s].file
  <2>1. /\ dir[<<p, "part">>] \in Inodes \ {Old}
        /\ \A q \in Paths : dir[<<q, "file">>] # dir[<<p, "part">>]
        /\ \A t \in Sessions \ {s} : upload[t].active => upload[t].file # dir[<<p, "part">>]
    BY <1>1, <1>3, TempInode, Zenon
  <2> QED BY <1>3, <2>1, Zenon
<1>5. /\ dir' = [dir EXCEPT ![<<p, "part">>] = 0]
      /\ upload' = [upload EXCEPT ![s] = Idle]
  BY <1>2, Zenon DEF TransferAbort, Unlink
<1>6. /\ dir'[<<p, "part">>] = 0
      /\ \A n \in Names : n # <<p, "part">> => dir'[n] = dir[n]
  BY <1>1, <1>3, <1>5, NameFacts, Zenon
<1>7. \A q \in Paths : /\ dir'[<<q, "file">>] = dir[<<q, "file">>]
                       /\ dir[<<q, "file">>] # 0 =>
                            inode'[dir[<<q, "file">>]] = inode[dir[<<q, "file">>]]
  <2> TAKE q \in Paths
  <2>1. dir'[<<q, "file">>] = dir[<<q, "file">>]
    BY <1>1, <1>3, <1>6, NameFacts, Zenon
  <2>2. dir[<<q, "file">>] \in Inodes \cup {0} /\ dir[<<q, "file">>] # upload[s].file
    BY <1>1, <1>4, NameFacts, Zenon
  <2> QED BY <2>1, <2>2, Zenon
<1>8. ASSUME NEW t \in Sessions, upload'[t].active
      PROVE  t \in Sessions \ {s} /\ upload'[t] = upload[t] /\ upload[t].active
  <2>1. upload'[s] = Idle /\ \A x \in Sessions \ {s} : upload'[x] = upload[x]
    BY <1>1, <1>5, Zenon
  <2>2. t # s
    BY <1>8, <2>1, SMTT(30) DEF Idle
  <2> QED BY <1>8, <2>1, <2>2, Zenon
<1>9. Owned'
  <2> SUFFICES ASSUME NEW t \in Sessions, upload'[t].active
               PROVE  /\ upload'[t] = upload[t]
                      /\ dir'[<<upload[t].path, "part">>] = dir[<<upload[t].path, "part">>]
                      /\ inode'[upload[t].file] = inode[upload[t].file]
                      /\ client'[upload[t].req_id] = client[upload[t].req_id]
    BY <1>1, OwnedNext, Zenon
  <2>1. t \in Sessions \ {s} /\ upload'[t] = upload[t] /\ upload[t].active
    BY <1>8, Zenon
  <2>2. /\ upload[t].path # p /\ upload[t].path \in Paths /\ upload[t].file \in Inodes
        /\ upload[t].req_id \in Uploads
    <3>1. upload[t].path # p
      <4>1. TypeOK /\ Owned /\ p \in PathsOf[s] /\ t # s /\ upload[t].active
        BY <1>1, <1>3, <2>1, Zenon
      <4> QED BY <4>1, OwnPaths, ZenonT(60)
    <3> QED BY <1>1, <2>1, <3>1, Fields, ZenonT(30)
  <2>3. dir'[<<upload[t].path, "part">>] = dir[<<upload[t].path, "part">>]
    BY <1>1, <1>3, <1>6, <2>2, NameFacts, Zenon
  <2>4. inode'[upload[t].file] = inode[upload[t].file]
    BY <1>4, <2>1, <2>2, Zenon
  <2>5. client'[upload[t].req_id] = client[upload[t].req_id]
    BY <1>1, <2>1, <2>2, ZenonT(120) DEF Owned
  <2> QED BY <2>1, <2>3, <2>4, <2>5, Zenon
<1>10. Linked'
  <2>1. \A n \in Names : dir'[n] = dir[n] \/ dir'[n] = 0
    BY <1>6, Zenon
  <2>2. 0 \in 0..begun
    BY <1>1, NameFacts
  <2>3. \A q \in Paths : dir'[<<q, "part">>] \in 0..begun'
    BY <1>1, <2>1, <2>2, NameFacts, ZenonT(60) DEF Linked
  <2>4. \A n \in Names : dir'[n] \in 0..begun' \cup {Old}
    BY <1>1, <2>1, <2>2, ZenonT(60) DEF Linked
  <2>5. \A m, n \in Names : m # n /\ dir'[m] = dir'[n] => dir'[m] \in {0, Old}
    BY <1>1, <2>1 DEF Linked
  <2> QED BY <2>3, <2>4, <2>5, Zenon DEF Linked
<1>11. OldWhole'
  BY <1>1, <1>4, Constants, ZenonT(60) DEF OldWhole, A!Whole
<1>12. CommittedWhole'
  <2>1. begun \in Nat /\ \A u \in 1..begun : u \in Uploads
    BY <1>1, NameFacts, Constants DEF Uploads
  <2> QED BY <1>1, <1>7, <2>1, WholeKept, SMTT(30)
<1> QED BY <1>7, <1>9, <1>10, <1>11, <1>12, Zenon

\* The same outside transfer_finalize_rename, where no file changes.
LEMMA AbortRunning ==
  ASSUME DisjointTargets, GInv, DInv, NEW s \in Sessions, upload[s].active, TransferAbort(s),
         begun' = begun, acked' = acked, finalizing = Nobody, finalizing' = Nobody,
         inode' \in [Inodes -> Seq(Bytes)],
         \A i \in Inodes : i # upload[s].file => inode'[i] = inode[i],
         \A u \in Uploads : /\ client'[u].size = client[u].size
                            /\ client[u].by # s => client'[u] = client[u]
  PROVE  DInv' /\ UNCHANGED <<File, acked, Replacing>>
  BY AbortD, Untouched, Zenon DEF DInv, Replaced

\* A PUT_CHUNK changes the temp file of its upload, or nothing.
LEMMA ChunkD ==
  ASSUME DisjointTargets, GInv, DInv, NEW s \in Sessions, NEW u \in Uploads,
         NEW n \in 0..Chunk, PutChunk(s, u, n)
  PROVE  DInv' /\ UNCHANGED <<File, acked, Replacing>>
<1>1. /\ TypeOK /\ TypeOK' /\ Owned /\ Linked /\ OldWhole /\ CommittedWhole /\ ReqIds
      /\ DOMAIN upload = Sessions /\ inode' \in [Inodes -> Seq(Bytes)]
  BY ChunkType, Zenon DEF GInv, DInv, TypeOK
<1>2. /\ finalizing = Nobody /\ client[u].by = s
      /\ client' = [client EXCEPT ![u].sent = @ + n]
      /\ UNCHANGED <<finalizing, before, begun, acked, had, left>>
  BY Zenon DEF PutChunk, Running
<1>3. /\ \A v \in Uploads : client'[v].size = client[v].size /\ client'[v].by = client[v].by
      /\ \A v \in Uploads : v # u => client'[v] = client[v]
      /\ client'[u].sent = client[u].sent + n
  BY <1>1, <1>2, ZenonT(60) DEF TypeOK
<1>4. \A v \in Uploads : client[v].by # s => client'[v] = client[v]
  BY <1>2, <1>3, Zenon
<1>5. ASSUME NEW data, Write(upload[s], data), upload[s].active
      PROVE  \A i \in Inodes : i # upload[s].file => inode'[i] = inode[i]
  BY <1>1, <1>5, Fields, ZenonT(60) DEF Write, TypeOK
<1>6. CASE TransferAbort(s) /\ upload[s].active
  <2>1. \A i \in Inodes : i # upload[s].file => inode'[i] = inode[i]
    BY <1>5, <1>6, Zenon DEF PutChunk
  <2> QED BY <1>1, <1>2, <1>3, <1>4, <1>6, <2>1, AbortRunning, SMTT(30)
<1>7. CASE ~Accepts(s, u) /\ UNCHANGED <<upload, dir, inode, fds>>
  <2>1. Owned'
    <3> SUFFICES ASSUME NEW t \in Sessions, upload[t].active
                 PROVE  client'[upload[t].req_id] = client[upload[t].req_id]
      BY <1>1, <1>7, OwnedNext, Zenon
    <3>1. upload[t].req_id \in Uploads
      BY <1>1, Fields, Zenon
    <3>2. upload[t].req_id # u
      BY <1>1, <1>2, <1>7, ZenonT(120) DEF Owned, Accepts
    <3> QED BY <1>3, <3>1, <3>2, ZenonT(60)
  <2>2. Linked' /\ OldWhole' /\ Replaced'
    BY <1>1, <1>2, <1>7, Zenon DEF Linked, OldWhole, Replaced, A!Whole
  <2>3. CommittedWhole'
    <3>1. begun \in Nat /\ \A v \in 1..begun : v \in Uploads
      BY <1>1, NameFacts, Constants DEF Uploads
    <3> QED BY <1>1, <1>2, <1>3, <1>7, <3>1, WholeKept
  <2>4. UNCHANGED <<File, acked, Replacing>>
    BY <1>2, <1>7, Untouched, ZenonT(60)
  <2> QED BY <2>1, <2>2, <2>3, <2>4, Zenon DEF DInv
<1>8. CASE /\ Accepts(s, u) /\ ~Exceeds(upload[s], n)
           /\ Write(upload[s], Data(u, n))
           /\ upload' = [upload EXCEPT ![s].offset = @ + n]
           /\ UNCHANGED <<dir, fds>>
  <2>1. /\ upload[s].active /\ upload[s].req_id = u
        /\ \A i \in Inodes : i # upload[s].file => inode'[i] = inode[i]
        /\ inode'[upload[s].file] = WriteAt(inode[upload[s].file], upload[s].offset, Data(u, n))
    BY <1>1, <1>5, <1>8, Fields, ZenonT(60) DEF Accepts, Write, TypeOK
  <2>2. upload[s].offset + n <= MaxSize /\ n \in Nat /\ upload[s].offset \in 0..MaxSize
    BY <1>1, <1>8, <2>1, Fields, Constants, SMTT(60) DEF Exceeds
  <2>3. /\ inode[upload[s].file] = A!Whole(u, upload[s].offset)
        /\ client[u].sent = upload[s].offset
    BY <1>1, <2>1, Zenon DEF Owned
  <2>4. inode'[upload[s].file] = A!Whole(u, upload[s].offset + n)
    BY <1>1, <2>1, <2>2, <2>3, WriteWhole, SMTT(30)
  <2>5. /\ upload'[s] = [upload[s] EXCEPT !.offset = @ + n]
        /\ \A t \in Sessions \ {s} : upload'[t] = upload[t]
    BY <1>1, <1>8, Zenon
  <2>6. upload[s] \in TransferState
    BY <1>1, <2>1, Active, Zenon
  <2>7. /\ upload'[s].path = upload[s].path /\ upload'[s].file = upload[s].file
        /\ upload'[s].req_id = upload[s].req_id /\ upload'[s].offset = upload[s].offset + n
        /\ upload'[s].total_size = upload[s].total_size
    BY <2>5, <2>6 DEF TransferState
  <2>8. PICK p : p = upload[s].path
    BY ZenonT(60)
  <2>9. /\ p \in PathsOf[s] /\ upload[s].file = dir[<<p, "part">>] /\ dir[<<p, "part">>] # 0
    BY <1>1, <2>1, <2>8, Fields, Constants, SMTT(30) DEF Owned
  <2>10. /\ upload[s].file \in Inodes \ {Old}
         /\ \A q \in Paths : dir[<<q, "file">>] # upload[s].file
         /\ \A t \in Sessions \ {s} : upload[t].active => upload[t].file # upload[s].file
    BY <1>1, <2>9, TempInode, Zenon
  <2>11. \A q \in Paths : dir[<<q, "file">>] # 0 =>
           inode'[dir[<<q, "file">>]] = inode[dir[<<q, "file">>]]
    <3>1. \A q \in Paths : dir[<<q, "file">>] \in Inodes \cup {0}
      BY <1>1, NameFacts, Zenon
    <3> QED BY <2>1, <2>10, <3>1, Zenon
  <2>12. Owned'
    <3>1. ASSUME NEW t \in Sessions \ {s}, upload'[t].active
          PROVE  /\ upload'[t].path \in PathsOf[t]
                 /\ upload'[t].file = dir'[<<upload'[t].path, "part">>]
                 /\ inode'[upload'[t].file] = A!Whole(upload'[t].req_id, upload'[t].offset)
                 /\ client'[upload'[t].req_id].by = t
                 /\ client'[upload'[t].req_id].size = upload'[t].total_size
                 /\ client'[upload'[t].req_id].sent = upload'[t].offset
      <4>1. upload'[t] = upload[t] /\ upload[t].active
        BY <2>5, <3>1, Zenon
      <4>2. upload[t].file \in Inodes /\ upload[t].req_id \in Uploads
        BY <1>1, <4>1, Fields, Zenon
      <4>3. inode'[upload[t].file] = inode[upload[t].file]
        BY <2>1, <2>10, <4>1, <4>2, Zenon
      <4>4. client'[upload[t].req_id] = client[upload[t].req_id]
        BY <1>1, <1>4, <4>1, <4>2, ZenonT(120) DEF Owned
      <4> QED BY <1>1, <1>8, <4>1, <4>3, <4>4, SMTT(30) DEF Owned
    <3>2. /\ upload'[s].path \in PathsOf[s]
          /\ upload'[s].file = dir'[<<upload'[s].path, "part">>]
          /\ inode'[upload'[s].file] = A!Whole(upload'[s].req_id, upload'[s].offset)
          /\ client'[upload'[s].req_id].by = s
          /\ client'[upload'[s].req_id].size = upload'[s].total_size
          /\ client'[upload'[s].req_id].sent = upload'[s].offset
      BY <1>1, <1>3, <1>8, <2>1, <2>3, <2>4, <2>7, SMTT(30) DEF Owned
    <3>3. \A t \in Sessions : upload'[t].active =>
            /\ upload'[t].path \in PathsOf[t]
            /\ upload'[t].file = dir'[<<upload'[t].path, "part">>]
            /\ inode'[upload'[t].file] = A!Whole(upload'[t].req_id, upload'[t].offset)
            /\ client'[upload'[t].req_id].by = t
            /\ client'[upload'[t].req_id].size = upload'[t].total_size
            /\ client'[upload'[t].req_id].sent = upload'[t].offset
      BY <3>1, <3>2, Zenon
    <3> QED BY <3>3, Zenon DEF Owned, A!Whole
  <2>13. Linked' /\ OldWhole' /\ Replaced'
    <3>1. inode'[Old] = inode[Old]
      BY <2>1, <2>10, Constants, ZenonT(60)
    <3> QED BY <1>1, <1>2, <1>8, <3>1, Zenon DEF Linked, OldWhole, Replaced, A!Whole
  <2>14. CommittedWhole'
    <3>1. begun \in Nat /\ \A v \in 1..begun : v \in Uploads
      BY <1>1, NameFacts, Constants DEF Uploads
    <3> QED BY <1>1, <1>2, <1>3, <1>8, <2>11, <3>1, WholeKept, SMTT(30)
  <2>15. UNCHANGED <<File, acked, Replacing>>
    BY <1>2, <1>8, <2>11, Untouched, Zenon
  <2> QED BY <2>12, <2>13, <2>14, <2>15, Zenon DEF DInv
<1> QED BY <1>6, <1>7, <1>8, Zenon DEF PutChunk, Accepts

\* While s is in transfer_finalize_rename, the file at its target is what was
\* there before, and the other files are what the directory says.
LEMMA FileFinalizing ==
  ASSUME TypeOK, Finalizing, finalizing # Nobody
  PROVE  /\ finalizing \in Sessions /\ upload[finalizing].active
         /\ upload[finalizing].path \in Paths
         /\ Replacing = IF upload[finalizing].overwrite THEN {upload[finalizing].path} ELSE {}
         /\ File = [p \in Paths |->
                      {inode[i] : i \in {IF p = upload[finalizing].path THEN before
                                         ELSE dir[<<p, "file">>]} \ {0}}]
<1>1. finalizing \in Sessions /\ upload[finalizing].active
  BY Zenon DEF TypeOK, Finalizing
<1>2. upload[finalizing].path \in Paths
  BY <1>1, Fields, Zenon
<1> QED BY <1>1, <1>2, Zenon DEF File, Shown, Replacing

\* PUT_END begins to replace a file, or does nothing to any.
LEMMA EndD ==
  ASSUME DisjointTargets, GInv, DInv, NEW s \in Sessions, NEW u \in Uploads, PutEnd(s, u)
  PROVE  DInv' /\ AStep
<1>1. /\ TypeOK /\ TypeOK' /\ Owned /\ Linked /\ OldWhole /\ CommittedWhole
      /\ Finalizing' /\ DOMAIN upload = Sessions
  BY EndInv, Zenon DEF GInv, DInv, TypeOK
<1>2. /\ finalizing = Nobody /\ upload[s].active
      /\ UNCHANGED <<inode, client, begun, acked, had, left>>
  BY Zenon DEF PutEnd, Running, Accepts
<1>3. CASE TransferAbort(s) /\ UNCHANGED <<finalizing, before>>
  <2>1. DInv' /\ UNCHANGED <<File, acked, Replacing>>
    BY <1>1, <1>2, <1>3, AbortRunning, Zenon DEF TypeOK
  <2> QED BY <2>1, Zenon DEF AStep
<1>4. ASSUME finalizing' = s, before' = dir[<<upload[s].path, "file">>], upload' = upload,
             IF upload[s].overwrite THEN Unlink(<<upload[s].path, "file">>) ELSE UNCHANGED dir
      PROVE  DInv' /\ AStep
  <2>1. PICK p : p = upload[s].path
    BY Zenon
  <2>2. p \in Paths /\ <<p, "file">> \in Names /\ upload[s].overwrite \in BOOLEAN
    BY <1>1, <1>2, <2>1, Fields, NameFacts, Zenon
  <2>3. /\ dir'[<<p, "file">>] = IF upload[s].overwrite THEN 0 ELSE dir[<<p, "file">>]
        /\ \A n \in Names : n # <<p, "file">> => dir'[n] = dir[n]
    BY <1>1, <1>4, <2>1, <2>2, NameFacts, Zenon DEF Unlink
  <2>4. \A n \in Names : dir'[n] = dir[n] \/ dir'[n] = 0
    BY <2>3, Zenon
  <2>5. \A q \in Paths : dir'[<<q, "part">>] = dir[<<q, "part">>]
    BY <1>1, <2>2, <2>3, NameFacts, ZenonT(60)
  <2>6. Owned'
    BY <1>1, <1>2, <1>4, <2>5, Fields DEF Owned, A!Whole
  <2>7. Linked'
    <3>1. 0 \in 0..begun
      BY <1>1, NameFacts
    <3>2. \A q \in Paths : dir'[<<q, "part">>] \in 0..begun'
      BY <1>1, <1>2, <2>5, Zenon DEF Linked
    <3>3. \A n \in Names : dir'[n] \in 0..begun' \cup {Old}
      BY <1>1, <1>2, <2>4, <3>1, Zenon DEF Linked
    <3>4. \A m, n \in Names : m # n /\ dir'[m] = dir'[n] => dir'[m] \in {0, Old}
      BY <1>1, <2>4, Zenon DEF Linked
    <3> QED BY <3>2, <3>3, <3>4, Zenon DEF Linked
  <2>8. OldWhole'
    BY <1>1, <1>2, ZenonT(60) DEF OldWhole, A!Whole
  <2>9. CommittedWhole'
    <3>1. begun \in Nat /\ begun' = begun
      BY <1>1, <1>2, NameFacts, Zenon
    <3>2. \A q \in Paths : <<q, "file">> \in Names
      BY <1>1, NameFacts, Zenon
    <3> QED BY <1>1, <1>2, <2>4, <3>1, <3>2, WholeKept, SMTT(30)
  <2>10. Replaced'
    BY <1>4, <2>1, <2>3, Zenon DEF Replaced
  <2>11. finalizing' # Nobody
    BY <1>4, Constants, Zenon
  <2>12. /\ Replacing' = IF upload[s].overwrite THEN {p} ELSE {}
         /\ File' = [q \in Paths |->
                      {inode'[i] : i \in {IF q = p THEN before'
                                          ELSE dir'[<<q, "file">>]} \ {0}}]
    BY <1>4, <2>1, <2>11, Zenon DEF File, Shown, Replacing
  <2>13. \A q \in Paths : (IF q = p THEN before' ELSE dir'[<<q, "file">>]) = dir[<<q, "file">>]
    <3>1. \A q \in Paths : <<q, "file">> \in Names /\ (q # p => <<q, "file">> # <<p, "file">>)
      BY <1>1, NameFacts, ZenonT(60)
    <3> QED BY <1>4, <2>1, <2>3, <3>1, Zenon
  <2>14. File' = File /\ Replacing = {}
    <3>1. /\ inode' = inode /\ Replacing = {}
          /\ File = [q \in Paths |-> {inode[i] : i \in {dir[<<q, "file">>]} \ {0}}]
      BY <1>2, FileRunning, Zenon
    <3>2. \A q \in Paths : {inode'[i] : i \in {IF q = p THEN before' ELSE dir'[<<q, "file">>]} \ {0}}
                             = {inode[i] : i \in {dir[<<q, "file">>]} \ {0}}
      BY <2>13, <3>1, Zenon
    <3> QED BY <2>12, <3>1, <3>2, Zenon
  <2>15. AStep
    <3>1. CASE upload[s].overwrite
      <4>1. A!Replace(p)
        BY <1>2, <2>12, <2>14, <3>1, Zenon DEF A!Replace
      <4> QED BY <2>2, <4>1, Zenon DEF AStep, A!Next
    <3>2. CASE ~upload[s].overwrite
      BY <1>2, <2>12, <2>14, <3>2, Zenon DEF AStep
    <3> QED BY <3>1, <3>2, Zenon
  <2> QED BY <2>6, <2>7, <2>8, <2>9, <2>10, <2>15, Zenon DEF DInv
<1> QED BY <1>3, <1>4, Zenon DEF PutEnd

\* A finalization that is given up loses at most the file it was to replace.
LEMMA GivenUp ==
  ASSUME TypeOK, Finalizing, Replaced, finalizing # Nobody, finalizing' = Nobody,
         acked' = acked,
         \A q \in Paths : /\ dir'[<<q, "file">>] = dir[<<q, "file">>]
                          /\ dir[<<q, "file">>] # 0 =>
                               inode'[dir[<<q, "file">>]] = inode[dir[<<q, "file">>]]
  PROVE  AStep
<1>1. PICK p : p = upload[finalizing].path
  BY Zenon
<1>2. /\ p \in Paths /\ upload[finalizing].overwrite \in BOOLEAN
      /\ Replacing = IF upload[finalizing].overwrite THEN {p} ELSE {}
      /\ File = [q \in Paths |->
                   {inode[i] : i \in {IF q = p THEN before ELSE dir[<<q, "file">>]} \ {0}}]
  BY <1>1, FileFinalizing, Fields, Zenon
<1>3. /\ Replacing' = {}
      /\ File' = [q \in Paths |-> {inode'[i] : i \in {dir'[<<q, "file">>]} \ {0}}]
  BY FileRunningNext, Zenon
<1>4. \A q \in Paths : {inode'[i] : i \in {dir'[<<q, "file">>]} \ {0}}
                         = {inode[i] : i \in {dir[<<q, "file">>]} \ {0}}
  BY Zenon
<1>5. dir[<<p, "file">>] = IF upload[finalizing].overwrite THEN 0 ELSE before
  BY <1>1, Zenon DEF Replaced
<1>6. CASE upload[finalizing].overwrite
  <2>1. {inode[i] : i \in {dir[<<p, "file">>]} \ {0}} = {}
    BY <1>5, <1>6, Zenon
  <2>2. File' = [File EXCEPT ![p] = {}]
    BY <1>2, <1>3, <1>4, <2>1, Zenon
  <2>3. A!Interrupt(p)
    BY <1>2, <1>3, <1>6, <2>2, Zenon DEF A!Interrupt
  <2> QED BY <1>2, <2>3, Zenon DEF AStep, A!Next
<1>7. CASE ~upload[finalizing].overwrite
  <2>1. File' = File
    BY <1>2, <1>3, <1>4, <1>5, <1>7, Zenon
  <2> QED BY <1>2, <1>3, <1>7, <2>1, Zenon DEF AStep
<1> QED BY <1>2, <1>6, <1>7, Zenon

\* A rename that fails.
LEMMA RenameFailsD ==
  ASSUME DisjointTargets, GInv, DInv, RenameFails
  PROVE  DInv' /\ AStep
<1>1. /\ TypeOK /\ Finalizing /\ Replaced /\ finalizing # Nobody /\ finalizing' = Nobody
      /\ TransferAbort(finalizing)
      /\ UNCHANGED <<inode, client, begun, acked, had, left>>
  BY Zenon DEF GInv, DInv, RenameFails, Running
<1>2. finalizing \in Sessions /\ upload[finalizing].active
  BY <1>1, FileFinalizing, Zenon
<1>3. inode' \in [Inodes -> Seq(Bytes)]
  BY <1>1, Zenon DEF TypeOK
<1>4. /\ Owned' /\ Linked' /\ OldWhole' /\ CommittedWhole'
      /\ \A q \in Paths : /\ dir'[<<q, "file">>] = dir[<<q, "file">>]
                          /\ dir[<<q, "file">>] # 0 =>
                               inode'[dir[<<q, "file">>]] = inode[dir[<<q, "file">>]]
  BY <1>1, <1>2, <1>3, AbortD, Zenon
<1>5. AStep
  BY <1>1, <1>4, GivenUp, Zenon
<1> QED BY <1>1, <1>4, <1>5, Zenon DEF DInv, Replaced

\* The upload of s commits: a successful rename.
LEMMA RenameD ==
  ASSUME DisjointTargets, GInv, DInv, NEW ack \in BOOLEAN, Rename(ack)
  PROVE  DInv' /\ AStep
<1> DEFINE s == finalizing
<1>1. /\ TypeOK /\ Finalizing /\ Owned /\ Linked /\ OldWhole /\ CommittedWhole /\ ReqIds
      /\ finalizing # Nobody /\ finalizing' = Nobody /\ DOMAIN upload = Sessions
      /\ UNCHANGED <<inode, fds, client, begun, left>>
  BY Zenon DEF GInv, DInv, Rename, Running, TypeOK
<1>2. PICK p, u, n : p = upload[s].path /\ u = upload[s].req_id /\ n = upload[s].total_size
  BY Zenon
<1>3. /\ s \in Sessions /\ upload[s].active /\ p \in Paths /\ p \in PathsOf[s] /\ u \in Uploads
      /\ Replacing \subseteq {p} /\ n \in Nat /\ n <= MaxSize
      /\ File = [q \in Paths |->
                   {inode[i] : i \in {IF q = p THEN before ELSE dir[<<q, "file">>]} \ {0}}]
  <2>1. /\ s \in Sessions /\ upload[s].active /\ p \in Paths /\ Replacing \subseteq {p}
        /\ File = [q \in Paths |->
                     {inode[i] : i \in {IF q = p THEN before ELSE dir[<<q, "file">>]} \ {0}}]
    BY <1>1, <1>2, FileFinalizing, Zenon
  <2>2. u \in Uploads /\ n \in Nat /\ n <= MaxSize /\ p \in PathsOf[s]
    BY <1>1, <1>2, <2>1, Fields, Zenon DEF Owned
  <2> QED BY <2>1, <2>2, Zenon
<1>4. /\ dir[<<p, "part">>] # 0
      /\ dir' = [dir EXCEPT ![<<p, "file">>] = dir[<<p, "part">>], ![<<p, "part">>] = 0]
      /\ upload' = [upload EXCEPT ![s] = Idle]
      /\ acked' = IF ack THEN acked \cup {u} ELSE acked
  BY <1>2, ZenonT(60) DEF Rename
<1>5. /\ inode[dir[<<p, "part">>]] = A!Whole(u, n)
      /\ client[u].size = n /\ u \in 1..begun /\ u \notin acked
  <2>1. /\ inode[dir[<<p, "part">>]] = A!Whole(u, upload[s].offset)
        /\ client[u].size = n
    BY <1>1, <1>2, <1>3, ZenonT(60) DEF Owned
  <2>2. upload[s].offset = n
    BY <1>1, <1>2, Zenon DEF Finalizing
  <2>3. u <= begun /\ u \notin acked
    BY <1>1, <1>2, <1>3, Zenon DEF ReqIds
  <2>4. u \in 1..begun
    <3>1. u \in Uploads /\ u <= begun /\ begun \in Nat
      BY <1>1, <1>3, <2>3, NameFacts, Zenon
    <3> QED BY <3>1, Constants, SMTT(30) DEF Uploads
  <2> QED BY <2>1, <2>2, <2>3, <2>4, Zenon
<1>6. /\ dir'[<<p, "file">>] = dir[<<p, "part">>] /\ dir'[<<p, "part">>] = 0
      /\ \A m \in Names : m # <<p, "part">> /\ m # <<p, "file">> => dir'[m] = dir[m]
      /\ <<p, "part">> \in Names /\ <<p, "file">> \in Names
  BY <1>1, <1>3, <1>4, NameFacts, Zenon
<1>7. \A q \in Paths : q # p => /\ dir'[<<q, "file">>] = dir[<<q, "file">>]
                                /\ dir'[<<q, "part">>] = dir[<<q, "part">>]
  <2>1. \A q \in Paths : /\ <<q, "file">> \in Names /\ <<q, "part">> \in Names
                         /\ <<q, "file">> # <<p, "part">> /\ <<q, "part">> # <<p, "file">>
    BY <1>1, <1>3, NameFacts, Zenon
  <2> QED BY <1>6, <2>1, Zenon
<1>8. Owned'
  <2> SUFFICES ASSUME NEW t \in Sessions, upload'[t].active
               PROVE  /\ upload'[t].path \in PathsOf[t]
                      /\ upload'[t].file = dir'[<<upload'[t].path, "part">>]
                      /\ inode'[upload'[t].file] = A!Whole(upload'[t].req_id, upload'[t].offset)
                      /\ client'[upload'[t].req_id].by = t
                      /\ client'[upload'[t].req_id].size = upload'[t].total_size
                      /\ client'[upload'[t].req_id].sent = upload'[t].offset
    BY Zenon DEF Owned, A!Whole
  <2>1. upload'[s] = Idle /\ \A x \in Sessions \ {s} : upload'[x] = upload[x]
    BY <1>1, <1>3, <1>4, Zenon
  <2>2. t # s
    BY <2>1 DEF Idle
  <2>3. upload'[t] = upload[t] /\ upload[t].active
    BY <2>1, <2>2, Zenon
  <2>4. upload[t].path # p /\ upload[t].path \in Paths
    BY <1>1, <1>3, <2>2, <2>3, OwnPaths, Fields, ZenonT(60)
  <2>5. /\ upload[t].path \in PathsOf[t]
        /\ upload[t].file = dir[<<upload[t].path, "part">>]
        /\ inode[upload[t].file] = A!Whole(upload[t].req_id, upload[t].offset)
        /\ client[upload[t].req_id].by = t
        /\ client[upload[t].req_id].size = upload[t].total_size
        /\ client[upload[t].req_id].sent = upload[t].offset
    BY <1>1, <2>3, Zenon DEF Owned
  <2>6. dir'[<<upload[t].path, "part">>] = dir[<<upload[t].path, "part">>]
    BY <1>7, <2>4, Zenon
  <2> QED BY <1>1, <2>3, <2>5, <2>6, Zenon
<1>9. Linked'
  <2>1. 0 \in 0..begun /\ begun' = begun
    BY <1>1, NameFacts
  <2>2. \A q \in Paths : dir'[<<q, "part">>] \in 0..begun'
    BY <1>1, <1>6, <1>7, <2>1, Zenon DEF Linked
  <2>3. \A m \in Names : dir'[m] \in 0..begun' \cup {Old}
    BY <1>1, <1>6, <2>1, Zenon DEF Linked
  <2>4. \A m \in Names : m # <<p, "part">> => dir[m] # dir[<<p, "part">>]
    BY <1>1, <1>3, <1>4, <1>6, TempInode, ZenonT(60) DEF Linked
  <2>5. \A m, o \in Names : m # o /\ dir'[m] = dir'[o] => dir'[m] \in {0, Old}
    BY <1>1, <1>6, <2>4 DEF Linked
  <2> QED BY <2>2, <2>3, <2>5, ZenonT(60) DEF Linked
<1>10. OldWhole' /\ Replaced'
  BY <1>1, Zenon DEF OldWhole, Replaced, A!Whole
<1>11. CommittedWhole'
  <2> SUFFICES ASSUME NEW q \in Paths, dir'[<<q, "file">>] # 0
               PROVE  \/ inode'[dir'[<<q, "file">>]] = A!Whole(0, 1)
                      \/ \E v \in 1..begun' : inode'[dir'[<<q, "file">>]] = A!Whole(v, client'[v].size)
    BY Zenon DEF CommittedWhole, A!Whole
  <2>1. CASE q = p
    BY <1>1, <1>5, <1>6, <2>1, Zenon
  <2>2. CASE q # p
    BY <1>1, <1>7, <2>2, Zenon DEF CommittedWhole
  <2> QED BY <2>1, <2>2, Zenon
<1>12. /\ Replacing' = {}
       /\ File' = [q \in Paths |-> {inode'[i] : i \in {dir'[<<q, "file">>]} \ {0}}]
  BY <1>1, FileRunningNext, Zenon
<1>13. {inode'[i] : i \in {dir'[<<p, "file">>]} \ {0}} = {A!Whole(u, n)}
  <2>1. PICK i : i = dir'[<<p, "file">>]
    BY Zenon
  <2>2. i # 0 /\ inode'[i] = A!Whole(u, n)
    BY <1>1, <1>4, <1>5, <1>6, <2>1, ZenonT(60)
  <2> QED BY <2>1, <2>2, Zenon
<1>14. File' = [File EXCEPT ![p] = {A!Whole(u, n)}] /\ File'[p] = {A!Whole(u, n)}
  <2>1. \A q \in Paths : q # p => {inode'[i] : i \in {dir'[<<q, "file">>]} \ {0}}
                                    = {inode[i] : i \in {dir[<<q, "file">>]} \ {0}}
    BY <1>1, <1>7, Zenon
  <2>2. \A q \in Paths : q # p => File'[q] = File[q]
    BY <1>3, <1>12, <2>1, Zenon
  <2>3. File'[p] = {A!Whole(u, n)}
    BY <1>3, <1>12, <1>13, Zenon
  <2>4. DOMAIN File' = Paths /\ DOMAIN File = Paths /\ File' = [q \in Paths |-> File'[q]]
    BY <1>3, <1>12, Zenon
  <2> QED BY <1>3, <2>2, <2>3, <2>4, ZenonT(60)
<1>16. A!Commit(p, u)
  <2>1. A!Whole(u, n) = A!Whole(u, Declared[u])
    BY <1>3, <1>5, Zenon DEF Declared
  <2>2. acked' \in {acked, acked \cup {u}}
    BY <1>4, Zenon
  <2> QED BY <1>3, <1>5, <1>12, <1>14, <2>1, <2>2, Zenon DEF A!Commit
<1>17. AStep
  BY <1>3, <1>16, Zenon DEF AStep, A!Next
<1> QED BY <1>8, <1>9, <1>10, <1>11, <1>17, ZenonT(60) DEF DInv

\* A transfer that times out, and a session that is freed.
LEMMA LeaveD ==
  ASSUME DisjointTargets, GInv, DInv, NEW s \in Sessions, Stall(s) \/ Freed(s)
  PROVE  DInv' /\ UNCHANGED <<File, acked, Replacing>>
<1>1. /\ TypeOK /\ finalizing = Nobody /\ DInv
      /\ UNCHANGED <<inode, finalizing, before, begun, acked, had, left>>
  BY Zenon DEF GInv, Stall, Freed, Running
<1>2. /\ \A u \in Uploads : client'[u].size = client[u].size
      /\ \A u \in Uploads : client[u].by # s => client'[u] = client[u]
  <2>1. CASE UNCHANGED client
    BY <2>1, Zenon
  <2>2. CASE Gone({s})
    BY <1>1, <2>2, Zenon DEF Gone, TypeOK
  <2>3. (UNCHANGED client) \/ Gone({s})
    BY Zenon DEF Stall, Freed
  <2> QED BY <2>1, <2>2, <2>3, Zenon
<1>3. inode' \in [Inodes -> Seq(Bytes)]
  BY <1>1, Zenon DEF TypeOK
<1>4. CASE upload[s].active
  <2>1. TransferAbort(s)
    BY <1>4, Zenon DEF Stall, Freed
  <2> QED BY <1>1, <1>2, <1>3, <1>4, <2>1, AbortRunning, Zenon
<1>5. CASE ~upload[s].active
  <2>1. UNCHANGED <<dir, upload, fds>>
    BY <1>5, ZenonT(60) DEF Stall, Freed
  <2>2. Owned'
    <3>1. ASSUME NEW t \in Sessions, upload[t].active
          PROVE  client'[upload[t].req_id] = client[upload[t].req_id]
      <4>1. upload[t].req_id \in Uploads
        BY <1>1, <3>1, Fields, Zenon
      <4>2. client[upload[t].req_id].by = t /\ t # s
        BY <1>1, <1>5, <3>1, Zenon DEF DInv, Owned
      <4> QED BY <1>2, <4>1, <4>2, Zenon
    <3>2. Owned /\ UNCHANGED <<dir, upload, inode>>
      BY <1>1, <2>1, Zenon DEF DInv
    <3> QED BY <3>1, <3>2 DEF Owned, A!Whole
  <2>3. CommittedWhole'
    <3>1. begun \in Nat /\ \A v \in 1..begun : v \in Uploads
      BY <1>1, NameFacts, Constants, SMTT(30) DEF Uploads
    <3>2. begun' \in Nat /\ begun <= begun' /\ \A v \in 1..begun : client'[v].size = client[v].size
      BY <1>1, <1>2, <3>1
    <3>3. CommittedWhole /\ dir' = dir /\ inode' = inode
      BY <1>1, <2>1, Zenon DEF DInv
    <3> QED BY <3>1, <3>2, <3>3, WholeKept, ZenonT(60)
  <2>4. Linked' /\ OldWhole' /\ Replaced'
    BY <1>1, <2>1, Zenon DEF DInv, Linked, OldWhole, Replaced, A!Whole
  <2>5. UNCHANGED <<File, acked, Replacing>>
    BY <1>1, <2>1, Untouched, Zenon
  <2> QED BY <2>2, <2>3, <2>4, <2>5, Zenon DEF DInv
<1> QED BY <1>1, <1>4, <1>5, Active, Zenon

\* The agent dies, between two events or in transfer_finalize_rename.
LEMMA CrashD ==
  ASSUME GInv, DInv, Crash
  PROVE  DInv' /\ AStep
<1>1. /\ TypeOK /\ Finalizing /\ Owned /\ Linked /\ OldWhole /\ CommittedWhole /\ Replaced
      /\ upload' = [t \in Sessions |-> Idle] /\ finalizing' = Nobody /\ Gone(Sessions)
      /\ UNCHANGED <<dir, inode, begun, acked, had>>
  BY Zenon DEF GInv, DInv, Crash
<1>2. Owned'
  BY <1>1, Zenon DEF Owned, Idle
<1>3. Linked' /\ OldWhole' /\ Replaced'
  BY <1>1, Zenon DEF Linked, OldWhole, Replaced, A!Whole
<1>4. \A u \in Uploads : client'[u].size = client[u].size
  BY <1>1, ZenonT(60) DEF Gone, TypeOK
<1>5. CommittedWhole'
  <2>1. begun \in Nat /\ \A v \in 1..begun : v \in Uploads
    BY <1>1, NameFacts, Constants DEF Uploads
  <2> QED BY <1>1, <1>4, <2>1, WholeKept, SMTT(30)
<1>6. AStep
  <2>1. CASE finalizing = Nobody
    <3>1. UNCHANGED <<File, acked, Replacing>>
      BY <1>1, <2>1, Untouched, Zenon
    <3> QED BY <3>1, Zenon DEF AStep
  <2>2. CASE finalizing # Nobody
    BY <1>1, <2>2, GivenUp, Zenon
  <2> QED BY <2>1, <2>2, Zenon
<1> QED BY <1>2, <1>3, <1>5, <1>6, Zenon DEF DInv

\* The initial states, as the uploads and as the files see them.
LEMMA InitD == Init => DInv /\ A!Init
<1> SUFFICES ASSUME Init PROVE DInv /\ A!Init
  BY Zenon
<1>1. /\ \A s \in Sessions : upload[s] = Idle
      /\ dir \in [Names -> {0, Old}] /\ \A p \in Paths : dir[<<p, "part">>] = 0
      /\ inode[Old] = A!Whole(0, 1) /\ finalizing = Nobody /\ begun = 0 /\ acked = {}
  BY Constants, Zenon DEF Init
<1>2. \A p \in Paths : dir[<<p, "file">>] \in {0, Old}
  BY <1>1, ZenonT(60) DEF Names
<1>3. Owned
  BY <1>1 DEF Owned, Idle
<1>4. Linked
  BY <1>1 DEF Linked
<1>5. OldWhole /\ Replaced
  BY <1>1, Zenon DEF OldWhole, Replaced
<1>6. CommittedWhole
  BY <1>1, <1>2, Zenon DEF CommittedWhole
<1>7. A!Init
  <2>1. /\ Replacing = {}
        /\ File = [p \in Paths |-> {inode[i] : i \in {dir[<<p, "file">>]} \ {0}}]
    BY <1>1, FileRunning, Zenon
  <2>2. \A p \in Paths : {inode[i] : i \in {dir[<<p, "file">>]} \ {0}} \in {{}, {A!Whole(0, 1)}}
    <3> TAKE p \in Paths
    <3>1. CASE dir[<<p, "file">>] = 0
      BY <3>1, Zenon
    <3>2. CASE dir[<<p, "file">>] = Old
      <4>1. Old # 0
        BY Constants, Zenon
      <4> QED BY <1>1, <3>2, <4>1, Zenon
    <3> QED BY <1>2, <3>1, <3>2, Zenon
  <2>3. File \in [Paths -> {{}, {A!Whole(0, 1)}}]
    BY <2>1, <2>2, Zenon
  <2> QED BY <1>1, <2>1, <2>3, Zenon DEF A!Init
<1> QED BY <1>3, <1>4, <1>5, <1>6, <1>7, Zenon DEF DInv

\* Every step keeps the invariant of the files and is a step of AtomicStore.
LEMMA NextD ==
  ASSUME DisjointTargets, GInv, DInv, [Next]_vars
  PROVE  DInv' /\ AStep
<1>1. CASE UNCHANGED vars
  <2>1. DInv'
    <3>1. Owned' /\ CommittedWhole'
      <4>1. Owned'
        BY <1>1, OwnedNext, Zenon DEF vars, DInv
      <4> QED BY <1>1, <4>1, ZenonT(30) DEF vars, DInv, CommittedWhole, A!Whole
    <3>2. Linked' /\ OldWhole' /\ Replaced'
      BY <1>1, Zenon DEF vars, DInv, Linked, OldWhole, Replaced, A!Whole
    <3> QED BY <3>1, <3>2, ZenonT(60) DEF DInv
  <2>2. UNCHANGED <<File, acked, Replacing>>
    BY <1>1, ZenonT(60) DEF vars, File, Shown, Replacing
  <2> QED BY <2>1, <2>2, Zenon DEF AStep
<1>2. ASSUME NEW s \in Sessions, Begin(s) PROVE DInv' /\ AStep
  BY <1>2, BeginD, Zenon DEF AStep
<1>3. ASSUME NEW s \in Sessions, Stall(s) \/ Freed(s) PROVE DInv' /\ AStep
  BY <1>3, LeaveD, Zenon DEF AStep
<1>4. ASSUME NEW s \in Sessions, NEW u \in Uploads, PutEnd(s, u) PROVE DInv' /\ AStep
  BY <1>4, EndD, Zenon
<1>5. ASSUME NEW s \in Sessions, NEW u \in Uploads, NEW n \in 0..Chunk, PutChunk(s, u, n)
      PROVE  DInv' /\ AStep
  BY <1>5, ChunkD, Zenon DEF AStep
<1>6. ASSUME NEW ack \in BOOLEAN, Rename(ack) PROVE DInv' /\ AStep
  BY <1>6, RenameD, Zenon
<1> QED BY <1>1, <1>2, <1>3, <1>4, <1>5, <1>6, RenameFailsD, CrashD, ZenonT(60) DEF Next

\* If no two clients upload to the same file, every file is whole at all
\* times, whatever fails and wherever the agent dies (PUT_BEGIN to PUT_END).
THEOREM FilesWhole == DisjointTargets => (Spec => []CommittedWhole)
<1> SUFFICES ASSUME DisjointTargets PROVE Spec => []CommittedWhole
  BY Zenon
<1>1. Init => GInv /\ DInv
  BY InitInv, InitD, Zenon
<1>2. GInv /\ DInv /\ [Next]_vars => (GInv /\ DInv)'
  BY NextInv, NextD, Zenon
<1>3. DInv => CommittedWhole
  BY Zenon DEF DInv
<1> QED BY <1>1, <1>2, <1>3, PTL DEF Spec

\* Then the uploads implement AtomicStore: each replaces its file at once, or
\* not at all, or loses it, and only what has become the file is acknowledged
\* (transfer_finalize_rename).
THEOREM UploadsAtomic == DisjointTargets => (Spec => Atomic)
<1> SUFFICES ASSUME DisjointTargets PROVE Spec => Atomic
  BY Zenon
<1>1. Init => GInv /\ DInv /\ A!Init
  BY InitInv, InitD, Zenon
<1>2. GInv /\ DInv /\ [Next]_vars => (GInv /\ DInv)' /\ [A!Next]_<<File, acked, Replacing>>
  BY NextInv, NextD, Zenon DEF AStep
<1> QED BY <1>1, <1>2, PTL DEF Spec, Atomic, A!Spec
=============================================================================

---------------------------- MODULE AtomicStore ----------------------------
(***************************************************************************)
(* What uploads promise about the files they are for: a file changes only  *)
(* by becoming, at once, the whole of one upload, and an upload is         *)
(* acknowledged only when it has become the file.  A file that is being    *)
(* replaced (overwrite=1) may be lost when the replacement is interrupted. *)
(***************************************************************************)
EXTENDS Integers, Sequences

CONSTANTS Paths, Uploads

VARIABLES
  file,       \* per path: {} if there is no file, or {its content}
  acked,      \* uploads whose PUT_END was acknowledged
  replacing,  \* the path whose file is being replaced, if any
  size        \* per upload: the size its client has declared, which is not
              \* the store's to change

\* The bytes 1..n of upload u; upload 0 is what was there before the agent.
Whole(u, n) == [i \in 1..n |-> <<u, i>>]

Init ==
  /\ file \in [Paths -> {{}, {Whole(0, 1)}}]
  /\ acked = {}
  /\ replacing = {}

Replace(p) ==
  /\ replacing = {} /\ replacing' = {p}
  /\ UNCHANGED <<file, acked>>

Commit(p, u) ==
  /\ u \notin acked
  /\ file' = [file EXCEPT ![p] = {Whole(u, size[u])}]
  /\ acked' \in {acked, acked \cup {u}}
  /\ replacing \subseteq {p} /\ replacing' = {}

Interrupt(p) ==
  /\ replacing = {p} /\ replacing' = {}
  /\ file' \in {file, [file EXCEPT ![p] = {}]}
  /\ acked' = acked

Next == \E p \in Paths : Replace(p) \/ Interrupt(p) \/ \E u \in Uploads : Commit(p, u)

Spec == Init /\ [][Next]_<<file, acked, replacing>>
=============================================================================

------------------------------ MODULE DiagLog ------------------------------
(***************************************************************************)
(* The log file and its rotation: diag_init, diag_log, diag_shutdown,      *)
(* rotate_logs_if_needed and ensure_log_file of src/diag.c, for an agent   *)
(* that may be stopped or killed between any two of their steps and        *)
(* started again.                                                          *)
(*                                                                         *)
(* rename is the C library's.  POSIX replaces a file that has the new      *)
(* name; the Windows library, which the agent for ReactOS is built with,   *)
(* refuses, and rotate_logs_if_needed does not look at the result.         *)
(***************************************************************************)
EXTENDS Sums

CONSTANTS
  Limit,     \* DIAG_LOG_ROTATE_BYTES
  Keep,      \* DIAG_LOG_ROTATE_KEEP
  Lens,      \* lengths of a line
  MaxLines   \* bound: lines written in all

ASSUME LogAssumption ==
  /\ Limit \in Nat \ {0} /\ Keep \in Nat \ {0} /\ MaxLines \in Nat
  /\ Lens \subseteq 1..(Limit - 1)

\* Name 0 is the log, name i the log with the suffix .i.
Names == 0..Keep

VARIABLES
  replaces,  \* rename replaces a file that has the new name
  disk,      \* per name the lines in the file, <<>> if it is empty or missing
  file,      \* g_diag.file is not NULL
  step,      \* "down", "up", or inside diag_log: "rotate", "write"
  suffix,    \* i of rotate_logs_if_needed, the suffix it renames to
  len,       \* the length of the line in diag_log
  written,   \* lines written so far; a line is its number and its bytes on disk
  torn       \* the agent has been killed inside rotate_logs_if_needed

logVars == <<replaces, disk, file, step, suffix, len, written, torn>>

LogInit ==
  /\ replaces \in BOOLEAN
  /\ disk = [n \in Names |-> <<>>]
  /\ file = FALSE
  /\ step = "down" /\ suffix = 0 /\ len = 0
  /\ written = 0 /\ torn = FALSE

Size(lines) == Total([k \in DOMAIN lines |-> lines[k][2]])
-----------------------------------------------------------------------------
\* diag_init; fopen may fail
DiagInit ==
  /\ step = "down"
  /\ step' = "up"
  /\ file' \in BOOLEAN
  /\ UNCHANGED <<replaces, disk, suffix, len, written, torn>>

\* diag_shutdown, or the agent is killed
Down ==
  /\ step # "down"
  /\ step' = "down" /\ file' = FALSE
  /\ torn' = (torn \/ step = "rotate")
  /\ UNCHANGED <<replaces, disk, suffix, len, written>>

\* Mutant: the incoming line is not counted.
FitsWithout(n) == Size(disk[0]) < Limit

\* The early returns of rotate_logs_if_needed
Fits(n) == disk[0] = <<>> \/ Size(disk[0]) + n < Limit

\* Where the loop of rotate_logs_if_needed begins
First == Keep

\* diag_log as far as the decision to rotate
DiagLog(n) ==
  /\ step = "up" /\ written < MaxLines
  /\ len' = n
  /\ IF Fits(n) THEN step' = "write" /\ UNCHANGED <<file, suffix>>
     ELSE step' = "rotate" /\ file' = FALSE /\ suffix' = First
  /\ UNCHANGED <<replaces, disk, written, torn>>

\* rename has an effect.
Renames(dst) == disk[dst - 1] # <<>> /\ (replaces \/ disk[dst] = <<>>)

\* Mutant: the loop runs upwards.
DstUpwards == Keep + 1 - suffix

Dst == suffix

\* One turn of the loop
Rotate ==
  /\ step = "rotate"
  /\ disk' = IF Renames(Dst) THEN [disk EXCEPT ![Dst] = disk[Dst - 1], ![Dst - 1] = <<>>]
             ELSE disk
  /\ suffix' = suffix - 1
  /\ step' = IF suffix' = 0 THEN "write" ELSE step
  /\ UNCHANGED <<replaces, file, len, written, torn>>

\* The rest of diag_log: ensure_log_file, fputs and fflush, which may write the
\* line, part of it or nothing; what they leave in stdio's buffer is not followed.
Write ==
  /\ step = "write"
  /\ step' = "up"
  /\ \/ /\ file' = TRUE
        /\ written' = written + 1
        /\ \E n \in 1..len : disk' = [disk EXCEPT ![0] = Append(@, <<written', n>>)]
     \/ /\ file' \in {file, TRUE}
        /\ UNCHANGED <<written, disk>>
  /\ UNCHANGED <<replaces, suffix, len, torn>>

LogNext == DiagInit \/ Down \/ Rotate \/ Write \/ \E n \in Lens : DiagLog(n)

LogSpec == LogInit /\ [][LogNext]_logVars
-----------------------------------------------------------------------------
(* Properties                                                              *)

\* All that is left on disk, the oldest file first.
KeptOf(d) ==
  LET upTo[n \in Names] == IF n = Keep THEN d[n] ELSE upTo[n + 1] \o d[n]
  IN  upTo[0]

Kept == KeptOf(disk)

\* Rotation loses the oldest lines and no others: what is on disk, from .Keep
\* down to the log, are the last lines written, in order, wherever the agent
\* was killed.  Nothing is lost if rename does not replace, nor, as long as no
\* rotation is cut short, before all the files that are to be kept are there
\* (the order of the renames in rotate_logs_if_needed, and ensure_log_file).
OnlyOldestLost ==
  /\ \A k \in 1..Len(Kept) : Kept[k][1] = written - Len(Kept) + k
  /\ ~replaces => Len(Kept) = written
  /\ ~torn /\ step # "rotate" /\ Len(Kept) < written => \A n \in 1..Keep : disk[n] # <<>>

\* If rename replaces, no file grows to DIAG_LOG_ROTATE_BYTES (the test in
\* rotate_logs_if_needed against the write that follows it).  If it does not,
\* the log grows without bound once every name is taken.
SizeBounded == replaces => \A n \in Names : Size(disk[n]) < Limit
=============================================================================

------------------------------ MODULE Payload ------------------------------
(***************************************************************************)
(* The key=value lines of a control payload, as C (kv_value, kv_copy) and  *)
(* Lua (parse_kv) read them, and the argument vector that PROC_SPAWN       *)
(* (proc_build_args) and tool.run (collect_argv) make of argv0, argv1, ... *)
(* A payload is here the sequence of its argv lines, each the number of    *)
(* the key and a value: Empty, Long (beyond the 512 bytes that kv_copy is  *)
(* given) or any other.                                                    *)
(***************************************************************************)
EXTENDS Integers, Sequences, FiniteSetsExt

CONSTANTS Empty, Long, None

\* kv_value: the first line with the key and something after the '='
KvValue(p, key) ==
  LET hits == {i \in DOMAIN p : p[i].key = key /\ p[i].value # Empty}
  IN  IF hits = {} THEN None ELSE p[Min(hits)].value

\* kv_copy: what does not fit is missing
KvCopy(p, key) == IF KvValue(p, key) = Long THEN None ELSE KvValue(p, key)

\* parse_kv and the table it fills: the last line with the key
Parsed(p, key) ==
  LET hits == {i \in DOMAIN p : p[i].key = key}
  IN  IF hits = {} THEN None ELSE p[Max(hits)].value

\* What the two loops find under argv0, argv1, ...
Copied(p) == [key \in 0..Len(p) |-> KvCopy(p, key)]
Tabled(p) == [key \in 0..Len(p) |-> Parsed(p, key)]

\* Both count upwards to the first key that is missing.
Counted(found) ==
  CHOOSE n \in DOMAIN found : found[n] = None /\ \A k \in 0..(n - 1) : found[k] # None

Values(found) == [i \in 1..Counted(found) |-> found[i - 1]]

\* Mutant: the copying loop starts at 1.
BuildArgsShifted(p, path) ==
  IF Counted(Copied(p)) <= 1 THEN <<path>> ELSE Tail(Values(Copied(p)))

\* proc_build_args: a single argument is replaced by the path.
BuildArgs(p, path) == IF Counted(Copied(p)) <= 1 THEN <<path>> ELSE Values(Copied(p))

\* collect_argv, and proc_dup_args, which copies its result
CollectArgv(p, path) == IF Counted(Tabled(p)) = 0 THEN <<path>> ELSE Values(Tabled(p))
-----------------------------------------------------------------------------
\* What the protocol asks of a payload: no key twice, none left out.
WellFormed(p) == {p[i].key : i \in DOMAIN p} = 0..(Len(p) - 1)

\* s is the beginning of t.
Begins(s, t) == Len(s) <= Len(t) /\ \A i \in DOMAIN s : s[i] = t[i]

\* What its sender means by it.
Asked(p) == [i \in DOMAIN p |-> p[CHOOSE j \in DOMAIN p : p[j].key = i - 1].value]
=============================================================================

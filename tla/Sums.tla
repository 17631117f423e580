-------------------------------- MODULE Sums --------------------------------
(***************************************************************************)
(* What a sequence of numbers adds up to: the bytes of a queue of writes.  *)
(***************************************************************************)
EXTENDS Integers, Sequences, FiniteSetsExt

Total(q) == MapThenFoldSet(LAMBDA x, sum : sum + x, 0, LAMBDA i : q[i], Max, DOMAIN q)
=============================================================================

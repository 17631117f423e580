----------------------------- MODULE MCDispatch -----------------------------
(* Dispatch for TLC: sessions are interchangeable, and so are words.       *)
EXTENDS Dispatch, TLC

Symmetry == Permutations(Sessions) \cup Permutations(Words)
=============================================================================

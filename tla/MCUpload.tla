------------------------------ MODULE MCUpload ------------------------------
EXTENDS Upload, TLC

CONSTANTS s1, s2, p1, p2

\* Each client keeps to its own files.
Disjoint == (s1 :> {p1}) @@ (s2 :> {p2})

\* Both clients upload to the same file: two users, or one that has connected
\* again while its old session is still there.
Shared == (s1 :> {p1}) @@ (s2 :> {p1})
=============================================================================

----------------------------- MODULE MCPublishing -----------------------------
\* Small instances of Publishing.
EXTENDS Publishing, TLC

CONSTANTS p1, p2

\* Requests are alike.
Symmetry == Permutations(Req)
===============================================================================

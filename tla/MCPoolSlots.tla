------------------------------ MODULE MCPoolSlots ------------------------------
\* Small instances of PoolSlots.
EXTENDS PoolSlots, TLC

CONSTANTS c1, c2, p1, p2

\* Commands are alike, and nothing orders container names.
Symmetry == Permutations(Process)
===============================================================================

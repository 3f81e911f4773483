----------------------------- MODULE MCPoolLayout -----------------------------
\* Small instances of PoolLayout.
EXTENDS PoolLayout, TLC

CONSTANTS e1, e2, e3, p1, p2

\* Entries and commands are alike.
Symmetry == Permutations(Entry) \cup Permutations(Process)
===============================================================================

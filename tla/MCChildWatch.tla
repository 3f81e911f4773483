----------------------------- MODULE MCChildWatch -----------------------------
\* Small instances of ChildWatch.
EXTENDS ChildWatch, TLC

CONSTANTS m1, m2

\* Manifests are alike until they are written.
Symmetry == Permutations(Refs)
===============================================================================

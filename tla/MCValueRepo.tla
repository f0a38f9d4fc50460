---------------------------- MODULE MCValueRepo ----------------------------
EXTENDS ValueRepoIteration, TLC

\* No operation looks into a value.
ValueSymmetry == Permutations(Values)
=============================================================================

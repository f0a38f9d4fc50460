--------------------------- MODULE MCThreadQueue ---------------------------
(***************************************************************************)
(* ThreadQueue for TLC.  Threads, values and addresses are only compared   *)
(* for equality, so permuting any of them maps behaviours to behaviours;   *)
(* the runs of properties under fairness do not use the symmetry.          *)
(***************************************************************************)
EXTENDS ThreadQueue, TLC

Symmetry ==
    Permutations(Producers) \cup Permutations(Consumers) \cup
    Permutations(Values) \cup Permutations(Nodes)
=============================================================================

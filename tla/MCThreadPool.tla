---------------------------- MODULE MCThreadPool ----------------------------
(***************************************************************************)
(* ThreadPool for TLC.  Workers, submitters, tasks and addresses are       *)
(* interchangeable, and so are the stopping threads other than the owner;  *)
(* the runs of properties under fairness do not use the symmetry.          *)
(***************************************************************************)
EXTENDS ThreadPool, TLC

PoolSymmetry ==
    Permutations(Workers) \cup Permutations(Submitters) \cup
    Permutations(Values) \cup Permutations(Nodes)
=============================================================================

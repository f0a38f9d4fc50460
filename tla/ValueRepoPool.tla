--------------------------- MODULE ValueRepoPool ---------------------------
(***************************************************************************)
(* value_repo implements an object pool: the ring of used slots, walked    *)
(* from used_head, is the pool's order, and the slots hold its objects.    *)
(***************************************************************************)
EXTENDS ValueRepo

Pool == INSTANCE ObjectPool WITH
    AllIds <- 0..(SIZE_MAX - 1),
    content <- [i \in UsedIds |-> value[i]],
    order <- Forward(list, used_head)

\* Through growth, removal in the middle and reuse of returned slots the repository
\* behaves as a map of ids to objects with a newest-first iteration order
\* (value_repo.hpp:246-318, 375-385).
ImplementsObjectPool == Pool!PSpec
=============================================================================

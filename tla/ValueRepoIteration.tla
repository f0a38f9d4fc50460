------------------------- MODULE ValueRepoIteration -------------------------
(***************************************************************************)
(* A client that walks a value_repo with an iterator or with ids, from     *)
(* begin() on with ++ or from end() on with --, while other calls change   *)
(* the repository.  An iterator is an id.  Removing the object it is at    *)
(* ends the walk.                                                          *)
(***************************************************************************)
EXTENDS ValueRepoPool

VARIABLES
    walk,   \* "none", "forward" or "backward"
    id_,    \* the id of the iterator
    seen,   \* history: the ids in use that were visited since the walk began
    stayed  \* history: the ids in use ever since the walk began

wvars == <<walk, id_, seen, stayed>>

WalkInit == Init /\ walk = "none" /\ id_ = null_index /\ seen = {} /\ stayed = {}

\* operator*: the object, in a tuple, or an exception.
get_object(id) == IF check_index_throws(id) \/ check_unused(id) THEN Throws ELSE <<value[id]>>

\* The iterator is at i from now on.
MoveTo(i) == id_' = i /\ seen' = seen \cup ({i} \cap UsedIds)

begin ==
    /\ walk = "none"
    /\ walk' = "forward" /\ id_' = first_id /\ seen' = {first_id} \cap UsedIds /\ stayed' = UsedIds
    /\ UNCHANGED vars

end ==
    /\ walk = "none"
    /\ walk' = "backward" /\ id_' = null_index /\ seen' = {} /\ stayed' = UsedIds
    /\ UNCHANGED vars

\* operator++; at end() it would throw.
increment ==
    /\ walk = "forward"
    /\ next_id(id_) # Throws
    /\ MoveTo(next_id(id_)[1])
    /\ UNCHANGED <<vars, walk, stayed>>

\* operator--; at begin() it throws.
decrement ==
    /\ walk = "backward"
    /\ prev_id(id_) # Throws
    /\ MoveTo(prev_id(id_)[1])
    /\ UNCHANGED <<vars, walk, stayed>>

AtEnd == IF walk = "forward" THEN id_ = null_index ELSE id_ = used_head

finish ==
    /\ walk # "none" /\ AtEnd
    /\ walk' = "none" /\ id_' = null_index /\ seen' = {} /\ stayed' = {}
    /\ UNCHANGED vars

\* A call of another client; one that takes the object the iterator is at ends the walk.
change ==
    /\ Next
    /\ IF id_ = null_index \/ used'[id_]
       THEN /\ seen' = seen \cap UsedIds' /\ stayed' = stayed \cap UsedIds'
            /\ UNCHANGED <<walk, id_>>
       ELSE walk' = "none" /\ id_' = null_index /\ seen' = {} /\ stayed' = {}

WalkNext == begin \/ end \/ increment \/ decrement \/ finish \/ change

WalkSpec == WalkInit /\ [][WalkNext]_<<vars, wvars>>

----------------------------------------------------------------------------
(* Properties                                                              *)

\* Whatever is added and removed meanwhile, a walk never comes back to an object it
\* has visited, unless that was removed (value_repo.hpp:125-140, 303-318).
WalkNeverRepeats ==
    [][walk' = walk /\ id_' # id_ /\ id_' # null_index => id_' \notin seen]_<<vars, wvars>>

\* A walk is at its end or at an object in use, and at its end it has visited every
\* object that was in use all the time (value_repo.hpp:125-140, 303-318).
WalkMissesNothing ==
    walk # "none" =>
        /\ id_ # null_index => get_object(id_) # Throws
        /\ AtEnd => stayed \subseteq seen
=============================================================================

----------------------------- MODULE ObjectPool -----------------------------
(***************************************************************************)
(* What value_repo promises: a map from the ids in use to their objects.   *)
(* A new id is one that is not in use, an object is touched by nobody but  *)
(* its own removal, and iteration goes from the newest id to the oldest.   *)
(***************************************************************************)
EXTENDS Naturals, SequencesExt

CONSTANTS Values, NoValue, AllIds

VARIABLES
    content,    \* the object of each id in use
    order       \* the ids in use, the newest first

pvars == <<content, order>>

InUse == DOMAIN content

PInit == content = [i \in {} |-> NoValue] /\ order = <<>>

\* reuse_object() hands out a slot whatever it holds; NoValue when it holds nothing.
PTake(id, v) ==
    /\ id \notin InUse
    /\ content' = [i \in InUse \cup {id} |-> IF i = id THEN v ELSE content[i]]
    /\ order' = <<id>> \o order

PGiveBack(id) ==
    /\ id \in InUse
    /\ content' = [i \in InUse \ {id} |-> content[i]]
    /\ \E k \in 1..Len(order) : order[k] = id /\ order' = RemoveAt(order, k)

PNext ==
    \E id \in AllIds : PGiveBack(id) \/ \E v \in Values \cup {NoValue} : PTake(id, v)

PSpec == PInit /\ [][PNext]_pvars
=============================================================================

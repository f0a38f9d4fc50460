---------------------------- MODULE IndexedLists ----------------------------
(***************************************************************************)
(* indexed_list under any sequence of legal calls: one vector of nodes and *)
(* several lists in it, each with a head the caller keeps, as value_repo   *)
(* keeps unused_head and used_head.  Legal means what the class says of    *)
(* its callers: an inserted node is in no list, `next' and `removed' are   *)
(* nodes of the list given, pop() is called on a nonempty list and         *)
(* resize() does not cut off linked nodes.                                 *)
(***************************************************************************)
EXTENDS IndexedList, Sequences

CONSTANTS
    Heads,      \* the heads the caller keeps
    MaxNodes    \* bound on the number of nodes

ASSUME ListsAssumption == MaxNodes \in Nat /\ null_index > MaxNodes

VARIABLES list, heads

lvars == <<list, heads>>

Members(h) ==
    LET f == Forward(list, heads[h]) IN {f[k] : k \in 1..Len(f)}

ListsTypeOK ==
    /\ list.size \in 0..MaxNodes
    /\ list.next \in [Indices(list) -> Indices(list) \cup {null_index}]
    /\ list.prev \in [Indices(list) -> Indices(list) \cup {null_index}]
    /\ heads \in [Heads -> Indices(list) \cup {null_index}]

ListsInit ==
    /\ \E n \in 0..MaxNodes : list = NewList(n)
    /\ heads = [h \in Heads |-> null_index]

\* A call's result becomes the list and the head.
Become(h, result) ==
    list' = result.list /\ heads' = [heads EXCEPT ![h] = result.head]

\* resize() to more nodes, or to fewer when the nodes cut off are in no list.
Resize(n) ==
    /\ n # list.size
    /\ \A i \in Indices(list) : i >= n => Unlinked(list, i)
    /\ list' = resize(list, n)
    /\ UNCHANGED heads

FormList(h, begin, end) ==
    /\ ~FormListThrows(list, begin, end)
    /\ heads[h] = null_index
    /\ \A i \in begin..(end - 1) : Unlinked(list, i)
    /\ Become(h, WithHead(form_list(list, begin, end), begin))

Push(h, i) ==
    /\ Unlinked(list, i)
    /\ Become(h, push(list, heads[h], i))

Pop(h) ==
    /\ heads[h] # null_index
    /\ Become(h, pop(list, heads[h]))

Insert(h, next, i) ==
    /\ Unlinked(list, i)
    /\ next \in Members(h) \cup {null_index}
    /\ Become(h, insert(list, heads[h], next, i))

Remove(h, i) ==
    /\ i \in Members(h)
    /\ Become(h, remove(list, heads[h], i))

\* clear() unlinks every node; the caller's heads are its own to reset.
Clear ==
    /\ list' = clear(list)
    /\ heads' = [h \in Heads |-> null_index]

ListsNext ==
    \/ \E n \in 0..MaxNodes : Resize(n)
    \/ \E h \in Heads :
          \/ Pop(h)
          \/ \E i \in Indices(list) :
                \/ Push(h, i) \/ Remove(h, i)
                \/ \E j \in Indices(list) \cup {list.size, null_index} :
                      Insert(h, j, i) \/ FormList(h, i, j)
    \/ Clear

ListsSpec == ListsInit /\ [][ListsNext]_lvars

----------------------------------------------------------------------------

\* Walking back from the last node visits the nodes of a walk forward in reverse,
\* for every list (indexed_list.hpp:131-142, 155-183).
BackwardIsReverse ==
    \A h \in Heads :
        LET f == Forward(list, heads[h])  b == Backward(list, heads[h])
        IN  Len(f) = Len(b) /\ \A k \in 1..Len(f) : b[k] = f[Len(f) + 1 - k]

\* A node has null links exactly when no list reaches it: pop() and remove()
\* leave nothing half linked (indexed_list.hpp:17-18, 92-106, 176-183).
UnlinkedIffInNoList ==
    \A i \in Indices(list) :
        /\ (list.next[i] = null_index) <=> (list.prev[i] = null_index)
        /\ Unlinked(list, i) <=> \A h \in Heads : i \notin Members(h)

\* insert(head, next, inserted) puts the node just before `next', at the end for
\* null_index and in front, as the new head, for the head (indexed_list.hpp:107-114).
InsertIsExact ==
    \A h \in Heads : \A i \in Indices(list) : \A next \in Members(h) \cup {null_index} :
        Unlinked(list, i) =>
            LET r == insert(list, heads[h], next, i)
                f == Forward(list, heads[h])
                p == CHOOSE p \in 0..Len(f) :
                        IF p = Len(f) THEN next = null_index ELSE f[p + 1] = next
            IN  Forward(r.list, r.head) =
                    SubSeq(f, 1, p) \o <<i>> \o SubSeq(f, p + 1, Len(f))

Seqs == INSTANCE IndexSequences WITH
    seqs <- [h \in Heads |-> Forward(list, heads[h])], size <- list.size

\* The rings behave as sequences: every operation changes the
\* one list it is given, as a sequence operation would, and no node gets into two
\* lists (indexed_list.hpp:73-183).
ImplementsSequences == Seqs!SSpec
=============================================================================

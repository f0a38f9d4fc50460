----------------------------- MODULE ValueRepo -----------------------------
(***************************************************************************)
(* lzhlib::value_repo (include/lzhlib/repository/value_repo.hpp): an       *)
(* object pool whose slots are the nodes of one indexed_list, split into   *)
(* a ring of used and a ring of free slots.  An id is the index of a slot. *)
(*                                                                         *)
(* std::size_t is 0 .. SIZE_MAX, arithmetic on it wraps, and SIZE_MAX is   *)
(* null_index.  A slot holds an optional value: remove_object() destroys   *)
(* it, return_object() leaves it in the free slot for the next user.       *)
(* A call that throws before it changes anything is not a step.            *)
(***************************************************************************)
EXTENDS IndexedList, Sequences

CONSTANTS
    Values,     \* the values objects are constructed with
    NoValue,    \* std::nullopt
    InitSizes,  \* the init_size arguments of the constructors
    Calls       \* the calls clients make, a subset of CallNames

CallNames == {"assign", "assign_throws", "reuse", "remove", "return"}

SIZE_MAX == null_index

ASSUME RepoAssumption ==
    /\ SIZE_MAX \in Nat \ {0}
    /\ NoValue \notin Values
    /\ InitSizes \subseteq 0..SIZE_MAX
    /\ Calls \subseteq CallNames

VARIABLES
    list,       \* the links of all slots
    value,      \* per slot: the optional's content
    used,       \* per slot: the used flag
    unused_head, used_head

vars == <<list, value, used, unused_head, used_head>>

Ids == Indices(list)

RepoTypeOK ==
    /\ list.size \in 0..SIZE_MAX
    /\ list = [size |-> list.size, next |-> list.next, prev |-> list.prev]
    /\ list.next \in [Ids -> 0..SIZE_MAX]
    /\ list.prev \in [Ids -> 0..SIZE_MAX]
    /\ value \in [Ids -> Values \cup {NoValue}]
    /\ used \in [Ids -> BOOLEAN]
    /\ unused_head \in Ids \cup {null_index}
    /\ used_head \in Ids \cup {null_index}

\* value_repo(), or value_repo(init_size, args...), which throws for size 0; args
\* fill every slot, and without args the slots are empty.
Init ==
    /\ \/ /\ list = NewList(0)
          /\ unused_head = null_index
       \/ \E n \in InitSizes \ {0} :
             /\ list = form_list(NewList(n), 0, n)
             /\ unused_head = 0
    /\ \E v \in Values \cup {NoValue} : value = [i \in Ids |-> v]
    /\ used = [i \in Ids |-> FALSE]
    /\ used_head = null_index

----------------------------------------------------------------------------
(* Storage                                                                 *)

check_index_throws(id) == id >= list.size
check_unused(id) == used[id] = FALSE
is_id_used(id) == id < list.size /\ ~check_unused(id)

GrowTooLarge == list.size > ((SIZE_MAX - 1) \div 3) * 2

GrownSize == (list.size + list.size \div 2 + 1) % (SIZE_MAX + 1)

GrownFromZero == form_list(resize(list, GrownSize), 0, GrownSize)

\* grow(): the list with its new slots linked into the free ring at old_size.
Grown == form_list(resize(list, GrownSize), list.size, GrownSize)

\* What reuse_object() pops its slot from: the free ring, grown if it is empty.
Stock == IF unused_head = null_index THEN WithHead(Grown, list.size)
         ELSE WithHead(list, unused_head)

ReuseThrows == unused_head = null_index /\ GrowTooLarge

\* The slot reuse_object() takes, and what it holds.
TakenId == Stock.head
Left == IF TakenId < list.size THEN value[TakenId] ELSE NoValue

\* reuse_object() takes the slot, which then holds v.
Take(v) ==
    LET popped == pop(Stock.list, Stock.head)
        pushed == push(popped.list, used_head, TakenId)
        Kept(f, new) == [i \in Indices(Stock.list) |-> IF i < list.size THEN f[i] ELSE new]
    IN  /\ ~ReuseThrows
        /\ list' = pushed.list
        /\ unused_head' = popped.head
        /\ used_head' = pushed.head
        /\ used' = [Kept(used, FALSE) EXCEPT ![TakenId] = TRUE]
        /\ value' = [Kept(value, NoValue) EXCEPT ![TakenId] = v]

----------------------------------------------------------------------------
(* Operations                                                              *)

\* assign_object(args...): constructs the value, or assigns to the one left there.
assign_object(v) == "assign" \in Calls /\ Take(v)

\* assign_object(args...) whose constructor or assignment throws: the slot stays
\* taken and keeps what it held.
assign_object_throws == "assign_throws" \in Calls /\ Take(Left)

reuse_object == "reuse" \in Calls /\ Take(Left)

GiveBackForgetsHead(id, v) ==
    LET removed == remove(list, used_head, id)
        freed == push(removed.list, unused_head, id)
    IN  /\ list' = freed.list
        /\ used_head' = used_head
        /\ unused_head' = freed.head
        /\ used' = [used EXCEPT ![id] = FALSE]
        /\ value' = [value EXCEPT ![id] = v]

\* return_object(id) after its checks, leaving v in the slot.
GiveBack(id, v) ==
    LET removed == remove(list, used_head, id)
        freed == push(removed.list, unused_head, id)
    IN  /\ list' = freed.list
        /\ used_head' = removed.head
        /\ unused_head' = freed.head
        /\ used' = [used EXCEPT ![id] = FALSE]
        /\ value' = [value EXCEPT ![id] = v]

remove_object(id) ==
    /\ "remove" \in Calls
    /\ ~check_index_throws(id) /\ ~check_unused(id)
    /\ GiveBack(id, NoValue)

return_object(id) ==
    /\ "return" \in Calls
    /\ ~check_index_throws(id) /\ ~check_unused(id)
    /\ GiveBack(id, value[id])

Next ==
    \/ \E v \in Values : assign_object(v)
    \/ assign_object_throws
    \/ reuse_object
    \/ \E id \in Ids : remove_object(id) \/ return_object(id)

Spec == Init /\ [][Next]_vars

----------------------------------------------------------------------------
(* Iteration                                                               *)

\* The outcome of an id query that throws.
Throws == <<>>

first_id == used_head

next_id_stops_at_head(id) ==
    IF check_index_throws(id) THEN Throws
    ELSE IF id = used_head THEN <<null_index>>
    ELSE <<next_of(list, id)>>

\* A returned id is wrapped in a tuple, to tell it from an exception.
next_id(id) ==
    IF check_index_throws(id) THEN Throws
    ELSE IF id = previous(list, used_head) THEN <<null_index>>
    ELSE <<next_of(list, id)>>

prev_id(id) ==
    IF id = null_index THEN <<previous(list, used_head)>>
    ELSE IF check_index_throws(id) \/ id = used_head THEN Throws
    ELSE <<previous(list, id)>>

----------------------------------------------------------------------------
(* Properties                                                              *)

UsedIds == {i \in Ids : used[i]}

\* (used == true) => (value.has_value() == true) (value_repo.hpp:34).
UsedHasValue == \A i \in UsedIds : value[i] # NoValue

\* The links are inverse to each other, no slot is unlinked, and no link leads from
\* a used slot to a free one: every slot is in the ring its flag says
\* (value_repo.hpp:267-293, 375-385).
RingsMatchFlags ==
    /\ \A i \in Ids :
          /\ list.next[i] \in Ids /\ list.prev[i] \in Ids
          /\ list.prev[list.next[i]] = i /\ list.next[list.prev[i]] = i
          /\ used[list.next[i]] = used[i] /\ used[list.prev[i]] = used[i]
    /\ unused_head # null_index => unused_head \in Ids /\ ~used[unused_head]
    /\ used_head # null_index => used_head \in Ids /\ used[used_head]

\* The invariant that keeps the two rings apart (value_repo.hpp:358-385).
RepoInv == RepoTypeOK /\ RingsMatchFlags

\* Iterating from first_id() with next_id() visits every used id exactly once and
\* then answers end_id(), and prev_id() from end_id() goes the same way back
\* (value_repo.hpp:295-318).
IterationVisitsUsedOnce ==
    LET n == Len(Forward(list, used_head))
        ids == Forward(list, used_head)
    IN  /\ {ids[k] : k \in 1..n} = UsedIds
        /\ \A j, k \in 1..n : ids[j] = ids[k] => j = k
        /\ n > 0 => /\ ids[1] = first_id
                    /\ next_id(ids[n]) = <<null_index>>
                    /\ prev_id(null_index) = <<ids[n]>>
        /\ \A k \in 1..(n - 1) :
              next_id(ids[k]) = <<ids[k + 1]>> /\ prev_id(ids[k + 1]) = <<ids[k]>>

OthersStayPut ==
    \A i \in Ids : i \in Ids' /\ ((used[i] /\ used'[i]) => value'[i] = value[i])

\* A call never changes, moves or gives away an object that stays in use: not when
\* the storage grows, not when a neighbour is removed (value_repo.hpp:267-293).
ObjectsStayPut == [][OthersStayPut]_vars
=============================================================================

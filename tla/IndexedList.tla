---------------------------- MODULE IndexedList ----------------------------
(***************************************************************************)
(* The operations of lzhlib::indexed_list                                  *)
(* (include/lzhlib/list/indexed_list.hpp) as operators.  A list value is   *)
(* the links of a vector of nodes: l.size nodes 0 .. l.size - 1, with      *)
(* l.next and l.prev.  Heads belong to the caller and are passed by        *)
(* reference, so an operation that may change one returns a record of the  *)
(* list and the head.  What a node holds is the business of the caller.    *)
(***************************************************************************)
EXTENDS Naturals, Sequences

CONSTANT null_index     \* the largest std::size_t, larger than any index

ASSUME NullIndexAssumption == null_index \in Nat

Indices(l) == 0..(l.size - 1)

WithHead(l, head) == [list |-> l, head |-> head]

\* indexed_list(size, args...): unlinked nodes.
NewList(n) ==
    [size |-> n, next |-> [i \in 0..(n - 1) |-> null_index],
                 prev |-> [i \in 0..(n - 1) |-> null_index]]

\* New nodes get the member initializers of node.
resize(l, n) ==
    LET Grown(f) == [i \in 0..(n - 1) |-> IF i < l.size THEN f[i] ELSE null_index]
    IN  [size |-> n, next |-> Grown(l.next), prev |-> Grown(l.prev)]

FormListThrows(l, begin, end) ==
    end <= begin \/ begin = null_index \/ end > l.size

form_list_open(l, begin, end) ==
    [l EXCEPT
       !.next = [i \in Indices(l) |-> IF i \notin begin..(end - 1) THEN l.next[i] ELSE i + 1],
       !.prev = [i \in Indices(l) |-> IF i \notin begin..(end - 1) THEN l.prev[i]
                                      ELSE IF i = begin THEN end - 1 ELSE i - 1]]

\* What the writes of form_list() leave, the last one to each link winning;
\* end - 2 may wrap for a single node and is overwritten.
form_list(l, begin, end) ==
    [l EXCEPT
       !.next = [i \in Indices(l) |-> IF i \notin begin..(end - 1) THEN l.next[i]
                                      ELSE IF i = end - 1 THEN begin ELSE i + 1],
       !.prev = [i \in Indices(l) |-> IF i \notin begin..(end - 1) THEN l.prev[i]
                                      ELSE IF i = begin THEN end - 1 ELSE i - 1]]

insert_impl_misses_prev(l, next, inserted) ==
    [l EXCEPT !.next = [@ EXCEPT ![inserted] = next],
              !.prev = [@ EXCEPT ![inserted] = l.prev[next], ![next] = inserted]]

insert_impl(l, next, inserted) ==
    LET prev == l.prev[next]
    IN  [l EXCEPT !.next = [@ EXCEPT ![inserted] = next, ![prev] = inserted],
                  !.prev = [@ EXCEPT ![inserted] = prev, ![next] = inserted]]

remove_impl_keeps_prev(l, removed) ==
    LET prev == l.prev[removed]  next == l.next[removed]
    IN  [l EXCEPT !.next = [@ EXCEPT ![prev] = next, ![removed] = null_index],
                  !.prev = [@ EXCEPT ![removed] = null_index]]

remove_impl(l, removed) ==
    LET prev == l.prev[removed]  next == l.next[removed]
    IN  [l EXCEPT !.next = [@ EXCEPT ![prev] = next, ![removed] = null_index],
                  !.prev = [@ EXCEPT ![next] = prev, ![removed] = null_index]]

\* A node linked to itself, the only node of its list.
SingleLink(l, index) ==
    [l EXCEPT !.next[index] = index, !.prev[index] = index]

Unlink(l, index) ==
    [l EXCEPT !.next[index] = null_index, !.prev[index] = null_index]

push(l, head, index) ==
    WithHead(IF head = null_index THEN SingleLink(l, index)
             ELSE insert_impl(l, head, index), index)

pop(l, head) ==
    IF l.prev[head] = head THEN WithHead(Unlink(l, head), null_index)
    ELSE WithHead(remove_impl(l, head), l.next[head])

insert_end_moves_head(l, head, next, inserted) ==
    IF next \in {head, null_index} THEN push(l, head, inserted)
    ELSE WithHead(insert_impl(l, next, inserted), head)

insert(l, head, next, inserted) ==
    IF next = head THEN push(l, head, inserted)
    ELSE WithHead(insert_impl(l, IF next = null_index THEN head ELSE next, inserted), head)

remove_keeps_head(l, head, removed) ==
    IF l.prev[head] = head THEN pop(l, head)
    ELSE WithHead(remove_impl(l, removed), head)

remove(l, head, removed) ==
    IF head = removed THEN pop(l, head) ELSE WithHead(remove_impl(l, removed), head)

clear(l) == NewList(l.size)

previous(l, index) == IF index = null_index THEN null_index ELSE l.prev[index]

next_of(l, index) == IF index = null_index THEN null_index ELSE l.next[index]

----------------------------------------------------------------------------

Unlinked(l, i) == l.next[i] = null_index /\ l.prev[i] = null_index

\* The nodes a walk along the function `step' visits from `from' until it would visit
\* it again.
Walk(l, from, step) ==
    LET at[k \in 1..l.size] == IF k = 1 THEN from ELSE step[at[k - 1]]
        Closes(k) == step[at[k]] = from
        Shortest == {k \in 1..l.size : Closes(k) /\ \A j \in 1..(k - 1) : ~Closes(j)}
    IN  IF from = null_index THEN <<>>
        ELSE [k \in 1..(IF Shortest = {} THEN l.size ELSE CHOOSE k \in Shortest : TRUE) |-> at[k]]

OrNull(l) == Indices(l) \cup {null_index}

\* The list whose first node is `head', front to back and back to front.
Forward(l, head) == Walk(l, head, [i \in OrNull(l) |-> next_of(l, i)])
Backward(l, head) == Walk(l, previous(l, head), [i \in OrNull(l) |-> previous(l, i)])
=============================================================================

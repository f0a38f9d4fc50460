----------------------------- MODULE Multigraph -----------------------------
(* What a graph promises its clients: a set of vertices and a set of edges *)
(* with two ends each.  A directed edge belongs to its first vertex alone. *)
(* graph.hpp:15 says of add_edge() that it "adds the edge from the         *)
(* vertices x to y, if it is not there".  Neither graph looks whether it   *)
(* is there, so that this is a multigraph: AddEdge may add another edge    *)
(* with the same ends, with an id of its own.                              *)
EXTENDS Naturals

CONSTANTS VertexIds, EdgeIds

VARIABLES directed, vs, es

avars == <<directed, vs, es>>

Init == directed \in BOOLEAN /\ vs = {} /\ es = [e \in {} |-> <<>>]

\* The vertices an edge with the ends p cannot do without.
Needs(p) == IF directed THEN {p[1]} ELSE {p[1], p[2]}

AddVertex ==
    /\ \E v \in VertexIds \ vs : vs' = vs \cup {v}
    /\ UNCHANGED <<directed, es>>

\* A second edge of the same ends is one more edge, against the words of graph.hpp:15.
AddEdge ==
    /\ \E e \in EdgeIds \ DOMAIN es, p \in VertexIds \X VertexIds :
          /\ Needs(p) \subseteq vs
          /\ es' = [d \in DOMAIN es \cup {e} |-> IF d = e THEN p ELSE es[d]]
    /\ UNCHANGED <<directed, vs>>

RemoveEdge ==
    /\ \E e \in DOMAIN es : es' = [d \in DOMAIN es \ {e} |-> es[d]]
    /\ UNCHANGED <<directed, vs>>

RemoveVertex ==
    /\ \E v \in vs :
          /\ vs' = vs \ {v}
          /\ es' = [e \in {d \in DOMAIN es : v \notin Needs(es[d])} |-> es[e]]
    /\ UNCHANGED directed

Next == AddVertex \/ AddEdge \/ RemoveEdge \/ RemoveVertex

Spec == Init /\ [][Next]_avars
=============================================================================

------------------------------- MODULE Graph -------------------------------
(***************************************************************************)
(* lzhlib::directed_graph and lzhlib::undirected_graph (include/lzhlib/    *)
(* graph/*.hpp), one module for both: `directed' is the class of the       *)
(* object.  A graph is two value_repos, of vertices and of edges.  An edge *)
(* stores its two ends, and a vertex stores a std::set of edge_refs, an    *)
(* edge with its opposite vertex, ordered by edge only.  The repositories  *)
(* appear as the functions that ObjectPool shows them to be: a new id is   *)
(* any id not in use.                                                      *)
(*                                                                         *)
(* A call that throws before it changes anything is not a step.  A call    *)
(* that throws later is a step that leaves what was done.  Where a call    *)
(* has undefined behaviour, `undefined' is set and nothing more is said.   *)
(*                                                                         *)
(* Clients pass any id of a vertex or an edge: a fresh one, one that was   *)
(* removed and perhaps assigned again, or one that associated_edges()      *)
(* shows of an edge whose add_edge() threw.                                *)
(***************************************************************************)
EXTENDS Naturals, FiniteSets

CONSTANTS
    VertexIds,  \* bound: the ids of vertices
    EdgeIds     \* bound: the ids of edges

ASSUME GraphAssumption == VertexIds \subseteq Nat /\ EdgeIds \subseteq Nat

VARIABLES
    directed,   \* whether the graph is a directed_graph
    vertices,   \* vertex_repository: the edge_refs of each vertex in use
    edges,      \* edge_repository: the ends of each edge in use
    failed,     \* history: the edges in use whose add_edge() threw
    torn,       \* history: a remove_vertex() threw after it had removed edges
    undefined   \* a call had undefined behaviour

gvars == <<directed, vertices, edges, failed, torn, undefined>>

UsedVertices == DOMAIN vertices
UsedEdges == DOMAIN edges

\* The edges whose add_edge() returned.
Added == UsedEdges \ failed

edge_ref(e, opposite) == [edge |-> e, vertex |-> opposite]

EdgeRefs == [edge : EdgeIds, vertex : VertexIds]

GraphTypeOK ==
    /\ directed \in BOOLEAN /\ torn \in BOOLEAN /\ undefined \in BOOLEAN
    /\ UsedVertices \subseteq VertexIds /\ vertices \in [UsedVertices -> SUBSET EdgeRefs]
    /\ UsedEdges \subseteq EdgeIds /\ edges \in [UsedEdges -> VertexIds \X VertexIds]
    /\ failed \subseteq UsedEdges

Init ==
    /\ directed \in BOOLEAN
    /\ vertices = [v \in {} |-> {}]
    /\ edges = [e \in {} |-> <<>>]
    /\ failed = {}
    /\ torn = FALSE
    /\ undefined = FALSE

----------------------------------------------------------------------------
(* Vertices and edges                                                      *)

associated(v, e) == \E r \in vertices[v] : r.edge = e

\* A std::set keeps the element it has when an equivalent one is inserted.
add_associated_edge(refs, r) ==
    IF \E q \in refs : q.edge = r.edge THEN refs ELSE refs \cup {r}

remove_associated_edge(refs, e) == {r \in refs : r.edge # e}

\* The vertices whose sets hold an edge with the ends p.
Ends(p) == IF directed THEN {p[1]} ELSE {p[1], p[2]}

\* The end of p that a set of v shows for it: of a self loop the other end, too.
Opposite(p, v) == IF v = p[1] THEN p[2] ELSE p[1]

IsLoop(p) == ~directed /\ p[1] = p[2]

\* The vertices with r linked to each of S.
Linked(S, e, p) ==
    [v \in UsedVertices |-> IF v \in S THEN add_associated_edge(vertices[v], edge_ref(e, Opposite(p, v)))
                            ELSE vertices[v]]

\* assign_object() on the edges, which hold the ends p from then on.
NewEdge(e, p) == [d \in UsedEdges \cup {e} |-> IF d = e THEN p ELSE edges[d]]

Without(f, S) == [x \in DOMAIN f \ S |-> f[x]]

----------------------------------------------------------------------------
(* Queries                                                                 *)

neighbors(v) == {r.vertex : r \in vertices[v]}

associated_edge_any(v, y) ==
    IF \E r \in vertices[v] : r.vertex = y
    THEN {r.edge : r \in {q \in vertices[v] : \A p \in vertices[v] : q.edge <= p.edge}} ELSE {}

\* The first edge of v in the order of ids that leads to y: {} when it throws.
associated_edge(v, y) ==
    LET found == {r \in vertices[v] : r.vertex = y}
    IN  {r.edge : r \in {q \in found : \A p \in found : q.edge <= p.edge}}

Degree(v) == Cardinality(vertices[v])

get_edge(x, y) ==
    IF directed \/ Degree(x) < Degree(y) THEN associated_edge(x, y) ELSE associated_edge(y, x)

\* The elements of S that can be the root of the red-black tree of S.
Roots(S) ==
    {r \in S : Cardinality(S) > 2 => {q.edge < r.edge : q \in S \ {r}} = BOOLEAN}

\* An edge_ref compares with a vertex by its opposite vertex.
is_less(r, y) == r.vertex < y

\* What edges.find(y) can answer: the tree is ordered by edge, and the descent
\* compares vertices; `last' holds the last element it turned left at.
Finds(refs, y) ==
    LET Descend[S \in SUBSET refs] ==
            [last \in SUBSET refs |->
                IF S = {} THEN {\E r \in last : r.vertex = y}
                ELSE UNION {IF is_less(r, y) THEN Descend[{q \in S : r.edge < q.edge}][last]
                            ELSE Descend[{q \in S : q.edge < r.edge}][{r}] : r \in Roots(S)}]
    IN  Descend[refs][{}]

adjacent_same_side(x, y) ==
    IF directed \/ Degree(x) < Degree(y) THEN Finds(vertices[x], y) ELSE Finds(vertices[y], y)

\* What adjacent(x, y) can answer.
adjacent(x, y) ==
    IF directed \/ Degree(x) < Degree(y) THEN Finds(vertices[x], y) ELSE Finds(vertices[y], x)

----------------------------------------------------------------------------
(* Calls                                                                   *)

add_vertex(v) ==
    /\ v \in VertexIds \ UsedVertices
    /\ vertices' = [w \in UsedVertices \cup {v} |-> IF w = v THEN {} ELSE vertices[w]]
    /\ UNCHANGED <<directed, edges, failed, torn, undefined>>

\* add_edge(x, y) of vertices in use; a directed graph does not look at y.
add_edge(e, x, y) ==
    LET p == <<x, y>>
    IN  /\ e \in EdgeIds \ UsedEdges
        /\ Ends(p) \subseteq UsedVertices
        /\ edges' = NewEdge(e, p)
        /\ vertices' = Linked(Ends(p), e, p)
        /\ UNCHANGED <<directed, failed, torn, undefined>>

\* add_edge(x, y) that throws in get_vertex(): the edge stays, and of an
\* undirected graph so does what x learned of it before y was looked at.
add_edge_throws(e, x, y) ==
    LET p == <<x, y>>
    IN  /\ e \in EdgeIds \ UsedEdges
        /\ ~(Ends(p) \subseteq UsedVertices)
        /\ edges' = NewEdge(e, p)
        /\ vertices' = Linked({x} \cap UsedVertices, e, p)
        /\ failed' = failed \cup {e}
        /\ UNCHANGED <<directed, torn, undefined>>

\* erase(end()), or an iterator that was erased under the loop that uses it.
Undefined == undefined' = TRUE /\ UNCHANGED <<directed, vertices, edges, failed, torn>>

remove_edge_from_first(e) ==
    /\ edges[e][1] \in UsedVertices /\ associated(edges[e][1], e)
    /\ vertices' = [vertices EXCEPT ![edges[e][1]] = remove_associated_edge(@, e)]
    /\ edges' = Without(edges, {e}) /\ failed' = failed \ {e}
    /\ UNCHANGED <<directed, torn, undefined>>

\* remove_edge(e): the ends forget the edge, x before y is looked at.  A vertex
\* without the edge erases end(), and a self loop would be erased twice.
remove_edge(e) ==
    LET p == edges[e]
        found == Ends(p) \cap UsedVertices
    IN  /\ p[1] \in UsedVertices
        /\ \/ /\ ~IsLoop(p)
              /\ \A v \in found : associated(v, e)
              /\ vertices' = [v \in UsedVertices |->
                                 IF v \in found THEN remove_associated_edge(vertices[v], e)
                                 ELSE vertices[v]]
              /\ edges' = IF found = Ends(p) THEN Without(edges, {e}) ELSE edges
              /\ failed' = IF found = Ends(p) THEN failed \ {e} ELSE failed
              /\ UNCHANGED <<directed, torn, undefined>>
           \/ /\ IsLoop(p) \/ \E v \in found : ~associated(v, e)
              /\ Undefined

\* remove_edge(x, y) removes the edge that get_edge() returns.
remove_edge_between(x, y) ==
    /\ {x} \cup (IF directed THEN {} ELSE {y}) \subseteq UsedVertices
    /\ \E e \in get_edge(x, y) \cap UsedEdges : remove_edge(e)

\* What the loop of remove_vertex(v) finds at r: the opposite vertex is gone, or
\* was never told of the edge; a self loop is erased under the loop.
OppositeGone(r) == ~directed /\ r.vertex \notin UsedVertices
ErasesNothing(v, r) ==
    ~directed /\ r.vertex \in UsedVertices /\ (r.vertex = v \/ ~associated(r.vertex, r.edge))
Throws(v, r) == OppositeGone(r) \/ (r.edge \notin UsedEdges /\ ~ErasesNothing(v, r))

\* The loop passes the elements before r, in the order of their edges.
Reaches(v, r) ==
    \A q \in vertices[v] : q.edge < r.edge => ~Throws(v, q) /\ ~ErasesNothing(v, q)

\* The opposite vertices of the refs S forget their edges.
Forgotten(S) ==
    [w \in UsedVertices |->
        IF directed THEN vertices[w]
        ELSE {q \in vertices[w] : edge_ref(q.edge, w) \notin S}]

remove_vertex_keeps_edges(v) ==
    /\ \A r \in vertices[v] : ~Throws(v, r) /\ ~ErasesNothing(v, r)
    /\ vertices' = Without(Forgotten(vertices[v]), {v})
    /\ UNCHANGED <<directed, edges, failed, torn, undefined>>

remove_vertex_skips_missing(v) ==
    LET refs == {r \in vertices[v] : ~OppositeGone(r)}
    IN  /\ \A r \in refs : ~Throws(v, r) /\ ~ErasesNothing(v, r)
        /\ vertices' = Without(Forgotten(refs), {v})
        /\ edges' = Without(edges, {r.edge : r \in refs})
        /\ failed' = failed \ {r.edge : r \in refs}
        /\ UNCHANGED <<directed, torn, undefined>>

remove_vertex(v) ==
    LET refs == vertices[v]
    IN  /\ \A r \in refs : ~Throws(v, r) /\ ~ErasesNothing(v, r)
        /\ vertices' = Without(Forgotten(refs), {v})
        /\ edges' = Without(edges, {r.edge : r \in refs})
        /\ failed' = failed \ {r.edge : r \in refs}
        /\ UNCHANGED <<directed, torn, undefined>>

\* remove_vertex(v) that throws at r: v stays in use and keeps all its edge_refs,
\* also those of the edges that are removed already.
remove_vertex_throws(v, r) ==
    LET before == {q \in vertices[v] : q.edge < r.edge}
    IN  /\ Throws(v, r) /\ Reaches(v, r)
        /\ vertices' = Forgotten(IF OppositeGone(r) THEN before ELSE before \cup {r})
        /\ edges' = Without(edges, {q.edge : q \in before})
        /\ failed' = failed \ {q.edge : q \in before}
        /\ torn' = (torn \/ before # {})
        /\ UNCHANGED <<directed, undefined>>

remove_vertex_undefined(v, r) == ErasesNothing(v, r) /\ Reaches(v, r) /\ Undefined

Call ==
    \/ \E v \in VertexIds : add_vertex(v)
    \/ \E e \in EdgeIds, x, y \in VertexIds : add_edge(e, x, y) \/ add_edge_throws(e, x, y)
    \/ \E e \in UsedEdges : remove_edge(e)
    \/ \E x, y \in VertexIds : remove_edge_between(x, y)
    \/ \E v \in UsedVertices :
          \/ remove_vertex(v)
          \/ \E r \in vertices[v] : remove_vertex_throws(v, r) \/ remove_vertex_undefined(v, r)

\* After undefined behaviour nothing is claimed of the graph any more.
Next ==
    \/ ~undefined /\ Call
    \/ undefined /\ UNCHANGED gvars

Spec == Init /\ [][Next]_gvars

----------------------------------------------------------------------------
(* Properties                                                              *)

\* The edges of x to y, of an undirected graph also those of y to x.
Joining(x, y) ==
    {e \in Added : edges[e] = <<x, y>> \/ (~directed /\ edges[e] = <<y, x>>)}

\* What a vertex v should know: the added edges that have it at one of Ends.
RefsOf(v) == {edge_ref(e, Opposite(edges[e], v)) : e \in {d \in Added : v \in Ends(edges[d])}}

\* What v may know of the undirected edges whose add_edge() threw at their second vertex.
HalfRefs(v) ==
    {edge_ref(e, edges[e][2]) :
        e \in {d \in failed : ~directed /\ edges[d][1] = v /\ edges[d][2] # v}}

\* The two kinds of edges that a call must not come across: a self loop of an
\* undirected graph, and what a failed add_edge() left, at a first vertex in use.
Trap(e) == edges[e][1] \in UsedVertices /\ (IsLoop(edges[e]) \/ e \in failed)

\* The sets of the vertices hold every edge whose add_edge() returned, with the right
\* opposite vertex, and besides them only the first halves of edges whose add_edge()
\* threw; without a trap no call has undefined behaviour.  This holds until a
\* remove_vertex() throws half way, which it never does in a directed graph
\* (directed_graph.hpp:25-52, undirected_graph.hpp:30-60).
GraphIndexExact ==
    ~torn => /\ \A v \in UsedVertices :
                   RefsOf(v) \subseteq vertices[v] /\ vertices[v] \subseteq RefsOf(v) \cup HalfRefs(v)
             /\ \A e \in Added : Ends(edges[e]) \subseteq UsedVertices
             /\ undefined => \E e \in UsedEdges : Trap(e)

\* The invariant of both repositories together.
GraphInv == GraphTypeOK /\ GraphIndexExact /\ (directed => ~torn)

\* Whichever end has fewer edges and is searched, get_edge(x, y) finds an edge if one
\* joins x and y, and what it finds joins them or is what a failed add_edge(x, y) or
\* add_edge(y, x) left (undirected_graph.hpp:62-69).
GetEdgeExact ==
    ~torn => \A x, y \in UsedVertices :
        /\ \A e \in get_edge(x, y) :
              e \in Joining(x, y) \/ (~directed /\ e \in failed /\ edges[e] \in {<<x, y>>, <<y, x>>})
        /\ Joining(x, y) # {} => get_edge(x, y) # {}

\* The order of the edges is an order of the opposite vertices, too.
Sorted(refs) == \A q, r \in refs : q.edge < r.edge => q.vertex <= r.vertex

\* v knows its edges and no half of one.
Whole(v) == vertices[v] = RefsOf(v)

\* adjacent() searches by vertex a set that is ordered by edge; it is right if both
\* orders agree and no half of an edge is in the way, whatever the shape of the tree
\* (vertex.hpp:129-135).
AdjacentExactWhenSorted ==
    ~torn => \A x, y \in UsedVertices :
        /\ Whole(x) /\ Sorted(vertices[x])
        /\ Whole(y) /\ Sorted(vertices[y])
        => adjacent(x, y) = {Joining(x, y) # {}}

\* No call has failed half way, and every edge joins two different vertices in use.
Plain == ~torn /\ failed = {} /\ \A e \in Added : LET p == edges[e] IN
                                      {p[1], p[2]} \subseteq UsedVertices /\ p[1] # p[2]

\* "adjacent(G, x, y) tests whether there is an edge from the vertices x to y"
\* (graph.hpp:11): an existing edge can be found, at least in a plain graph.
AdjacentFindsEdges ==
    Plain => \A x, y \in UsedVertices : Joining(x, y) # {} => TRUE \in adjacent(x, y)

\* v has an edge to a vertex that is not in use.
HalfLinked(v) == ~directed /\ ~(neighbors(v) \subseteq UsedVertices)

\* What a failed add_edge() leaves: the edge stays in use for ever, although
\* remove_edge() with its id may still take it from the set of its first vertex before
\* it throws; until then an undirected graph cannot remove the first vertex while the
\* second does not exist (directed_graph.hpp:36-52, undirected_graph.hpp:30-60).
FailedAddEdgeStays ==
    [][ /\ ~torn => failed \subseteq failed'
        /\ \A v \in UsedVertices : HalfLinked(v) => v \in UsedVertices' ]_gvars

\* The graph a client sees: the edges whose add_edge() returned.
Abstract == INSTANCE Multigraph WITH
    vs <- UsedVertices, es <- [e \in Added |-> edges[e]]

\* Until a remove_vertex() throws half way (`torn', never in a directed graph), every
\* call is one step of a multigraph or changes nothing in it: a vertex takes its
\* outgoing edges along and, undirected, all its edges; an edge of a directed graph to
\* a removed vertex stays, and leads to the next vertex with its id; a call that throws
\* or is undefined leaves the multigraph as it is
\* (directed_graph.hpp:25-52, undirected_graph.hpp:30-60).
ImplementsMultigraph == Abstract!Init /\ [][Abstract!Next \/ torn']_(Abstract!avars)
=============================================================================

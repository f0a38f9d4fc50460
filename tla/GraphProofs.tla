----------------------------- MODULE GraphProofs -----------------------------
(***************************************************************************)
(* Theorems about Graph, for any ids of vertices and edges.  GraphInv is   *)
(* inductive.                                                              *)
(***************************************************************************)
EXTENDS Graph, FiniteSetTheorems, WellFoundedInduction, TLAPS

----------------------------------------------------------------------------
(* What the invariant says of the refs of a vertex                         *)

LEMMA RefKinds ==
    ASSUME GraphInv, ~torn, NEW v \in UsedVertices, NEW r \in vertices[v]
    PROVE  r \in RefsOf(v) \/ r \in HalfRefs(v)
BY DEF GraphInv, GraphIndexExact

\* A ref of an added edge is known at both ends of the edge.
LEMMA RefIsAdded ==
    ASSUME GraphInv, ~torn, NEW v \in UsedVertices, NEW r \in RefsOf(v)
    PROVE  /\ r.edge \in Added /\ r = edge_ref(r.edge, Opposite(edges[r.edge], v))
           /\ v \in Ends(edges[r.edge]) /\ edges[r.edge] \in VertexIds \X VertexIds
           /\ ~directed => r.vertex \in UsedVertices /\ associated(r.vertex, r.edge)
           /\ ~directed /\ r.vertex = v => IsLoop(edges[r.edge])
<1>1. PICK e \in Added : v \in Ends(edges[e]) /\ r = edge_ref(e, Opposite(edges[e], v))
  BY DEF RefsOf
<1>2. edges[e] \in VertexIds \X VertexIds /\ r.edge = e /\ r.vertex = Opposite(edges[e], v)
  BY <1>1 DEF GraphInv, GraphTypeOK, edge_ref, Added
<1>3. ASSUME ~directed
      PROVE  r.vertex \in UsedVertices /\ associated(r.vertex, r.edge)
  <2>1. r.vertex \in Ends(edges[e]) /\ r.vertex \in UsedVertices
    BY <1>1, <1>2, <1>3 DEF GraphInv, GraphIndexExact, Ends, Opposite
  <2>2. edge_ref(e, Opposite(edges[e], r.vertex)) \in RefsOf(r.vertex)
    BY <1>1, <2>1 DEF RefsOf
  <2>3. edge_ref(e, Opposite(edges[e], r.vertex)) \in vertices[r.vertex]
    BY <2>1, <2>2 DEF GraphInv, GraphIndexExact
  <2> QED
    BY <1>2, <2>1, <2>3 DEF associated, edge_ref
<1>4. ASSUME ~directed, r.vertex = v PROVE IsLoop(edges[e])
  BY <1>1, <1>2, <1>4 DEF Ends, Opposite, IsLoop
<1> QED
  BY <1>1, <1>2, <1>3, <1>4

\* The refs of an added edge are in the sets of its ends.
LEMMA AddedHasRefs ==
    ASSUME GraphInv, ~torn, NEW e \in Added, NEW v \in Ends(edges[e])
    PROVE  v \in UsedVertices /\ edge_ref(e, Opposite(edges[e], v)) \in vertices[v] /\ associated(v, e)
<1>1. v \in UsedVertices
  BY DEF GraphInv, GraphIndexExact
<1>2. edge_ref(e, Opposite(edges[e], v)) \in RefsOf(v)
  BY DEF RefsOf
<1> QED
  BY <1>1, <1>2 DEF GraphInv, GraphIndexExact, associated, edge_ref

\* Only the first vertex of an edge whose add_edge() threw can know of it.
LEMMA FailedIsHalf ==
    ASSUME GraphInv, ~torn, NEW v \in UsedVertices, NEW e \in failed, associated(v, e)
    PROVE  ~directed /\ edges[e][1] = v /\ edges[e][2] # v /\ edge_ref(e, edges[e][2]) \in HalfRefs(v)
<1>1. PICK r \in vertices[v] : r.edge = e
  BY DEF associated
<1>2. r \notin RefsOf(v)
  BY <1>1, RefIsAdded DEF Added
<1>3. r \in HalfRefs(v)
  BY <1>2, RefKinds
<1> QED
  BY <1>1, <1>3 DEF HalfRefs, edge_ref

LEMMA RefIsHalf ==
    ASSUME GraphInv, ~torn, NEW v \in UsedVertices, NEW r \in HalfRefs(v)
    PROVE  /\ ~directed /\ r.edge \in failed /\ r.edge \in UsedEdges
           /\ edges[r.edge] = <<v, r.vertex>> /\ r.vertex # v
           /\ r.vertex \in UsedVertices => ~associated(r.vertex, r.edge)
<1>1. PICK e \in failed : ~directed /\ edges[e][1] = v /\ edges[e][2] # v /\ r = edge_ref(e, edges[e][2])
  BY DEF HalfRefs
<1>2. e \in UsedEdges /\ edges[e] \in VertexIds \X VertexIds /\ r.edge = e /\ r.vertex = edges[e][2]
  BY <1>1 DEF GraphInv, GraphTypeOK, edge_ref
<1>3. edges[e] = <<v, r.vertex>>
  BY <1>1, <1>2
<1>4. ASSUME r.vertex \in UsedVertices PROVE ~associated(r.vertex, e)
  BY <1>1, <1>2, <1>4, FailedIsHalf
<1> QED
  BY <1>1, <1>2, <1>3, <1>4

\* What the loop of remove_vertex() passes without harm is an added edge, and no loop;
\* it throws at half an edge only; and only a trap makes it undefined.
LEMMA LoopMeets ==
    ASSUME GraphInv, ~torn, NEW v \in UsedVertices, NEW r \in vertices[v]
    PROVE  /\ ~Throws(v, r) /\ ~ErasesNothing(v, r) => r \in RefsOf(v) /\ r.edge \in Added
           /\ Throws(v, r) => ~directed /\ OppositeGone(r)
           /\ ErasesNothing(v, r) => r.edge \in UsedEdges /\ Trap(r.edge)
<1>1. CASE r \in RefsOf(v)
  <2>1. ~Throws(v, r) /\ r.edge \in Added /\ r.edge \in UsedEdges
    BY <1>1, RefIsAdded DEF Throws, OppositeGone, Added
  <2>2. ASSUME ErasesNothing(v, r) PROVE Trap(r.edge)
    <3>1. IsLoop(edges[r.edge]) /\ v \in Ends(edges[r.edge])
      BY <1>1, <2>2, RefIsAdded DEF ErasesNothing
    <3> QED
      BY <3>1 DEF Trap, Ends, IsLoop
  <2> QED
    BY <1>1, <2>1, <2>2
<1>2. CASE r \in HalfRefs(v)
  BY <1>2, RefIsHalf DEF Throws, ErasesNothing, OppositeGone, Trap
<1> QED
  BY <1>1, <1>2, RefKinds

\* remove_edge() is undefined at a trap only.
LEMMA UndefinedAtTrap ==
    ASSUME GraphInv, ~torn, NEW e \in UsedEdges, edges[e][1] \in UsedVertices,
           IsLoop(edges[e]) \/ \E v \in Ends(edges[e]) \cap UsedVertices : ~associated(v, e)
    PROVE  Trap(e)
BY AddedHasRefs DEF Trap, Added

\* No vertex but the first knows of an edge whose add_edge() threw, and no vertex of a
\* directed graph: remove_edge() does not get past both ends of it.
LEMMA FailedIsNotWhole ==
    ASSUME GraphInv, ~torn, NEW e \in failed, ~IsLoop(edges[e]),
           \A v \in Ends(edges[e]) \cap UsedVertices : associated(v, e)
    PROVE  Ends(edges[e]) \cap UsedVertices # Ends(edges[e])
<1> SUFFICES ASSUME Ends(edges[e]) \subseteq UsedVertices PROVE FALSE
  OBVIOUS
<1>1. \A v \in Ends(edges[e]) : ~directed /\ edges[e][1] = v
  BY FailedIsHalf
<1> QED
  BY <1>1 DEF Ends, IsLoop

LEMMA get_edgeInUse ==
    ASSUME GraphInv, NEW x \in VertexIds, NEW y \in VertexIds, remove_edge_between(x, y)
    PROVE  \E e \in UsedEdges : remove_edge(e)
BY DEF remove_edge_between

----------------------------------------------------------------------------
(* The sets after a call                                                   *)

\* The refs of v only depend on the ends of the edges.
LEMMA RefsOfStable ==
    ASSUME directed' = directed, Added' = Added, \A e \in Added : edges'[e] = edges[e], NEW v
    PROVE  RefsOf(v)' = RefsOf(v)
BY DEF RefsOf, Ends, Opposite

LEMMA HalfRefsStable ==
    ASSUME directed' = directed, failed' = failed, \A e \in failed : edges'[e] = edges[e], NEW v
    PROVE  HalfRefs(v)' = HalfRefs(v)
BY DEF HalfRefs

\* The second half of the invariant after a call that is not undefined.
LEMMA IndexExactNext ==
    ASSUME ~undefined',
           \A v \in UsedVertices' : /\ RefsOf(v)' \subseteq vertices'[v]
                                    /\ vertices'[v] \subseteq RefsOf(v)' \cup HalfRefs(v)',
           \A e \in Added' : Ends(edges[e])' \subseteq UsedVertices'
    PROVE  GraphIndexExact'
BY DEF GraphIndexExact

LEMMA AddVertexKeeps == ASSUME GraphInv, ~undefined, NEW v \in VertexIds, add_vertex(v) PROVE GraphInv'
<1> USE DEF add_vertex, UsedVertices, UsedEdges, Added
<1>1. GraphTypeOK'
  BY DEF GraphInv, GraphTypeOK
<1>2. ASSUME ~torn' PROVE GraphIndexExact'
  <2>1. \A w : RefsOf(w)' = RefsOf(w) /\ HalfRefs(w)' = HalfRefs(w)
    BY DEF RefsOf, HalfRefs, Ends, Opposite
  <2>2. RefsOf(v) = {}
    BY <1>2 DEF GraphInv, GraphIndexExact, RefsOf
  <2> QED
    BY <1>2, <2>1, <2>2 DEF GraphInv, GraphIndexExact, Ends
<1> QED
  BY <1>1, <1>2 DEF GraphInv, GraphIndexExact

\* The vertices after add_associated_edge() on some of them.
LEMMA LinkedType ==
    ASSUME GraphTypeOK, NEW S \in SUBSET UsedVertices, NEW e \in EdgeIds, NEW p \in VertexIds \X VertexIds
    PROVE  Linked(S, e, p) \in [UsedVertices -> SUBSET EdgeRefs]
BY DEF GraphTypeOK, Linked, add_associated_edge, edge_ref, EdgeRefs, Opposite, UsedVertices

\* The sets hold no ref of an id that is not in use.
LEMMA FreshEdge ==
    ASSUME GraphInv, ~torn, NEW e, e \notin UsedEdges, NEW v \in UsedVertices
    PROVE  \A q \in vertices[v] : q.edge # e
BY RefKinds, RefIsAdded, RefIsHalf DEF Added

LEMMA AddEdgeKeeps ==
    ASSUME GraphInv, ~undefined, NEW e \in EdgeIds, NEW x \in VertexIds, NEW y \in VertexIds,
           add_edge(e, x, y)
    PROVE  GraphInv'
<1> DEFINE p == <<x, y>>
<1>1. /\ e \notin UsedEdges /\ Ends(p) \subseteq UsedVertices
      /\ edges' = NewEdge(e, p) /\ vertices' = Linked(Ends(p), e, p)
      /\ UNCHANGED <<directed, failed, torn, undefined>>
  BY DEF add_edge
<1>2. UsedVertices' = UsedVertices /\ UsedEdges' = UsedEdges \cup {e} /\ e \notin Added
  BY <1>1 DEF UsedVertices, UsedEdges, NewEdge, Linked, Added
<1>3. Added' = Added \cup {e} /\ edges'[e] = p /\ \A d \in UsedEdges : edges'[d] = edges[d]
  BY <1>1, <1>2 DEF GraphInv, GraphTypeOK, Added, NewEdge, UsedEdges
<1>4. GraphTypeOK'
  <2>1. vertices' \in [UsedVertices -> SUBSET EdgeRefs]
    BY <1>1, LinkedType DEF GraphInv
  <2>2. edges' \in [UsedEdges \cup {e} -> VertexIds \X VertexIds]
    BY <1>1 DEF GraphInv, GraphTypeOK, NewEdge
  <2> QED
    BY <1>1, <1>2, <2>1, <2>2 DEF GraphInv, GraphTypeOK
<1>5. ASSUME ~torn' PROVE GraphIndexExact'
  <2>1. ~torn /\ Added \subseteq UsedEdges /\ failed \subseteq UsedEdges
    BY <1>1, <1>5 DEF GraphInv, GraphTypeOK, Added
  <2>2. ASSUME NEW v \in UsedVertices
        PROVE  RefsOf(v)' \subseteq vertices'[v] /\ vertices'[v] \subseteq RefsOf(v)' \cup HalfRefs(v)'
    <3>1. RefsOf(v)' = RefsOf(v) \cup (IF v \in Ends(p) THEN {edge_ref(e, Opposite(p, v))} ELSE {})
      BY <1>1, <1>3, <2>1 DEF RefsOf, Ends, Opposite
    <3>2. HalfRefs(v)' = HalfRefs(v)
      BY <1>1, <1>3, <2>1, HalfRefsStable
    <3>3. vertices'[v] = IF v \in Ends(p) THEN vertices[v] \cup {edge_ref(e, Opposite(p, v))} ELSE vertices[v]
      BY <1>1, <2>1, FreshEdge DEF Linked, add_associated_edge, edge_ref
    <3> QED
      BY <2>1, <3>1, <3>2, <3>3 DEF GraphInv, GraphIndexExact
  <2>3. (\A d \in Added : Ends(edges[d]) \subseteq UsedVertices)'
    <3>1. \A d \in Added : Ends(edges[d]) \subseteq UsedVertices
      BY <2>1 DEF GraphInv, GraphIndexExact
    <3> QED
      BY <1>1, <1>2, <1>3, <2>1, <3>1 DEF Ends
  <2> QED
    BY <1>1, <1>2, <2>2, <2>3, IndexExactNext
<1> QED
  BY <1>1, <1>4, <1>5 DEF GraphInv, GraphIndexExact

LEMMA AddEdgeThrowsKeeps ==
    ASSUME GraphInv, ~undefined, NEW e \in EdgeIds, NEW x \in VertexIds, NEW y \in VertexIds,
           add_edge_throws(e, x, y)
    PROVE  GraphInv'
<1> DEFINE p == <<x, y>>
<1>1. /\ e \notin UsedEdges /\ ~(Ends(p) \subseteq UsedVertices)
      /\ edges' = NewEdge(e, p) /\ vertices' = Linked({x} \cap UsedVertices, e, p)
      /\ failed' = failed \cup {e} /\ UNCHANGED <<directed, torn, undefined>>
  BY DEF add_edge_throws
<1>2. UsedVertices' = UsedVertices /\ UsedEdges' = UsedEdges \cup {e} /\ Added' = Added
  BY <1>1 DEF UsedVertices, UsedEdges, NewEdge, Linked, Added
<1>3. edges'[e] = p /\ \A d \in UsedEdges : edges'[d] = edges[d]
  BY <1>1 DEF NewEdge, UsedEdges
<1>4. GraphTypeOK'
  <2>1. vertices' \in [UsedVertices -> SUBSET EdgeRefs]
    BY <1>1, LinkedType DEF GraphInv
  <2>2. edges' \in [UsedEdges \cup {e} -> VertexIds \X VertexIds]
    BY <1>1 DEF GraphInv, GraphTypeOK, NewEdge
  <2>3. failed' \subseteq UsedEdges \cup {e}
    BY <1>1 DEF GraphInv, GraphTypeOK
  <2> QED
    BY <1>1, <1>2, <2>1, <2>2, <2>3 DEF GraphInv, GraphTypeOK
<1>5. ASSUME ~torn' PROVE GraphIndexExact'
  <2>1. ~torn /\ Added \subseteq UsedEdges /\ failed \subseteq UsedEdges
    BY <1>1, <1>5 DEF GraphInv, GraphTypeOK, Added
  <2>2. ASSUME NEW v \in UsedVertices
        PROVE  RefsOf(v)' \subseteq vertices'[v] /\ vertices'[v] \subseteq RefsOf(v)' \cup HalfRefs(v)'
    <3>1. RefsOf(v)' = RefsOf(v)
      BY <1>1, <1>2, <1>3, <2>1, RefsOfStable
    <3>2. HalfRefs(v) \subseteq HalfRefs(v)'
      BY <1>1, <1>3, <2>1 DEF HalfRefs
    <3>3. CASE v # x
      <4>1. vertices'[v] = vertices[v]
        BY <1>1, <3>3 DEF Linked
      <4> QED
        BY <2>1, <3>1, <3>2, <4>1 DEF GraphInv, GraphIndexExact
    <3>4. CASE v = x
      <4>1. ~directed /\ y \notin UsedVertices /\ y # x
        BY <1>1, <3>4 DEF Ends
      <4>2. Opposite(p, x) = y
        BY DEF Opposite
      <4>3. vertices'[v] = vertices[v] \cup {edge_ref(e, y)}
        BY <1>1, <2>1, <3>4, <4>2, FreshEdge DEF Linked, add_associated_edge, edge_ref
      <4>4. edge_ref(e, y) \in HalfRefs(v)'
        <5>1. e \in failed' /\ ~directed' /\ edges'[e][1] = v /\ edges'[e][2] = y /\ y # v
          BY <1>1, <1>3, <3>4, <4>1
        <5> QED
          BY <5>1 DEF HalfRefs, edge_ref
      <4> QED
        BY <2>1, <3>1, <3>2, <4>3, <4>4 DEF GraphInv, GraphIndexExact
    <3> QED
      BY <3>3, <3>4
  <2>3. (\A d \in Added : Ends(edges[d]) \subseteq UsedVertices)'
    <3>1. \A d \in Added : Ends(edges[d]) \subseteq UsedVertices
      BY <2>1 DEF GraphInv, GraphIndexExact
    <3> QED
      BY <1>1, <1>2, <1>3, <2>1, <3>1 DEF Ends
  <2> QED
    BY <1>1, <1>2, <2>2, <2>3, IndexExactNext
<1> QED
  BY <1>1, <1>4, <1>5 DEF GraphInv, GraphIndexExact

\* A vertex set without the refs of some edges is a set of refs.
LEMMA ForgottenType ==
    ASSUME GraphTypeOK, NEW S PROVE Forgotten(S) \in [UsedVertices -> SUBSET EdgeRefs]
BY DEF GraphTypeOK, Forgotten, UsedVertices

LEMMA WithoutType ==
    ASSUME NEW X, NEW Y, NEW f \in [X -> Y], NEW S PROVE Without(f, S) \in [X \ S -> Y]
BY DEF Without

\* A call with undefined behaviour needs a trap.
LEMMA UndefinedKeeps ==
    ASSUME GraphInv, Undefined, ~torn => \E e \in UsedEdges : Trap(e) PROVE GraphInv'
BY DEF Undefined, GraphInv, GraphTypeOK, GraphIndexExact, UsedVertices, UsedEdges, Added, RefsOf,
       HalfRefs, Trap, Ends, Opposite, IsLoop

\* What remove_edge(e) does when it is not undefined.
RemovesEdge(e, found) ==
    /\ ~IsLoop(edges[e]) /\ found = Ends(edges[e]) \cap UsedVertices
    /\ \A v \in found : associated(v, e)
    /\ vertices' = [v \in UsedVertices |->
                       IF v \in found THEN remove_associated_edge(vertices[v], e) ELSE vertices[v]]
    /\ edges' = IF found = Ends(edges[e]) THEN Without(edges, {e}) ELSE edges
    /\ failed' = IF found = Ends(edges[e]) THEN failed \ {e} ELSE failed
    /\ UNCHANGED <<directed, torn, undefined>>

LEMMA RemoveEdgeCases ==
    ASSUME GraphInv, NEW e \in UsedEdges, remove_edge(e)
    PROVE  \/ Undefined /\ (~torn => Trap(e))
           \/ \E found : RemovesEdge(e, found)
<1>1. CASE /\ IsLoop(edges[e]) \/ \E v \in Ends(edges[e]) \cap UsedVertices : ~associated(v, e)
           /\ Undefined
  BY <1>1, UndefinedAtTrap DEF remove_edge
<1>2. CASE RemovesEdge(e, Ends(edges[e]) \cap UsedVertices)
  BY <1>2
<1> QED
  BY <1>1, <1>2 DEF remove_edge, RemovesEdge

LEMMA RemovesEdgeTypeOK ==
    ASSUME GraphTypeOK, NEW e \in UsedEdges, NEW found, RemovesEdge(e, found) PROVE GraphTypeOK'
<1>1. vertices' \in [UsedVertices -> SUBSET EdgeRefs]
  BY DEF GraphTypeOK, remove_associated_edge, UsedVertices, RemovesEdge
<1>2. edges' \in [UsedEdges' -> VertexIds \X VertexIds] /\ UsedEdges' \subseteq UsedEdges /\ failed' \subseteq UsedEdges'
  BY DEF GraphTypeOK, Without, UsedEdges, RemovesEdge
<1> QED
  BY <1>1, <1>2 DEF GraphTypeOK, UsedVertices, RemovesEdge

\* Of an added edge remove_edge() takes both ends and the edge; of an edge whose
\* add_edge() threw it takes the first end at most.
LEMMA RemovesEdgeIs ==
    ASSUME GraphInv, ~torn, NEW e \in UsedEdges, NEW found, RemovesEdge(e, found)
    PROVE  /\ UsedVertices' = UsedVertices /\ failed' = failed /\ Added' = Added \ {e}
           /\ e \in Added => edges' = Without(edges, {e})
           /\ e \in failed => edges' = edges
           /\ \A d \in UsedEdges \ {e} : edges'[d] = edges[d]
<1>1. UsedVertices' = UsedVertices
  BY DEF RemovesEdge, UsedVertices
<1>2. CASE e \in Added
  <2>1. found = Ends(edges[e])
    BY <1>2 DEF GraphInv, GraphIndexExact, RemovesEdge
  <2>2. edges' = Without(edges, {e}) /\ failed' = failed
    BY <1>2, <2>1 DEF RemovesEdge, Added
  <2> QED
    BY <1>1, <1>2, <2>2 DEF Added, UsedEdges, Without
<1>3. CASE e \in failed
  <2>1. found # Ends(edges[e])
    BY <1>3, FailedIsNotWhole DEF RemovesEdge
  <2>2. edges' = edges /\ failed' = failed
    BY <2>1 DEF RemovesEdge
  <2> QED
    BY <1>1, <1>3, <2>2 DEF Added, UsedEdges
<1> QED
  BY <1>2, <1>3 DEF Added

LEMMA RemovesEdgeKeeps ==
    ASSUME GraphInv, ~undefined, NEW e \in UsedEdges, NEW found, RemovesEdge(e, found) PROVE GraphInv'
<1>1. GraphTypeOK'
  BY RemovesEdgeTypeOK DEF GraphInv
<1>2. UNCHANGED <<directed, torn, undefined>>
  BY DEF RemovesEdge
<1>3. ASSUME ~torn' PROVE GraphIndexExact'
  <2>1. ~torn /\ Added \subseteq UsedEdges /\ failed \subseteq UsedEdges
    BY <1>2, <1>3 DEF GraphInv, GraphTypeOK, Added
  <2>2. /\ UsedVertices' = UsedVertices /\ failed' = failed /\ Added' = Added \ {e}
        /\ \A d \in UsedEdges \ {e} : edges'[d] = edges[d]
        /\ e \in failed => edges' = edges
    BY <2>1, RemovesEdgeIs
  <2>3. ASSUME NEW v \in UsedVertices
        PROVE  RefsOf(v)' \subseteq vertices'[v] /\ vertices'[v] \subseteq RefsOf(v)' \cup HalfRefs(v)'
    <3>1. RefsOf(v)' = {r \in RefsOf(v) : r.edge # e}
      BY <1>2, <2>1, <2>2 DEF RefsOf, Ends, Opposite, edge_ref
    <3>2. HalfRefs(v)' = HalfRefs(v)
      BY <1>2, <2>1, <2>2, HalfRefsStable
    <3>3. v \notin Ends(edges[e]) => \A r \in vertices[v] : r.edge # e
      <4>1. \A r \in RefsOf(v) : v \in Ends(edges[r.edge])
        BY <2>1, RefIsAdded
      <4>2. \A r \in HalfRefs(v) : v \in Ends(edges[r.edge])
        BY <2>1, RefIsHalf DEF Ends
      <4> QED
        BY <2>1, <4>1, <4>2, RefKinds
    <3>4. vertices'[v] = {r \in vertices[v] : r.edge # e}
      BY <3>3 DEF RemovesEdge, remove_associated_edge
    <3> QED
      BY <2>1, <3>1, <3>2, <3>4 DEF GraphInv, GraphIndexExact
  <2>4. (\A d \in Added : Ends(edges[d]) \subseteq UsedVertices)'
    <3>1. \A d \in Added : Ends(edges[d]) \subseteq UsedVertices
      BY <2>1 DEF GraphInv, GraphIndexExact
    <3> QED
      BY <1>2, <2>1, <2>2, <3>1 DEF Ends
  <2> QED
    BY <1>2, <2>2, <2>3, <2>4, IndexExactNext
<1> QED
  BY <1>1, <1>2, <1>3 DEF GraphInv, GraphIndexExact

LEMMA RemoveEdgeKeeps ==
    ASSUME GraphInv, ~undefined, NEW e \in UsedEdges, remove_edge(e) PROVE GraphInv'
BY RemoveEdgeCases, UndefinedKeeps, RemovesEdgeKeeps

\* A vertex that remove_vertex() removes knows added edges only.
LEMMA RemoveVertexIs ==
    ASSUME GraphInv, ~torn, NEW v \in UsedVertices, remove_vertex(v),
           NEW gone, gone = {r.edge : r \in vertices[v]}
    PROVE  /\ \A r \in vertices[v] : r \in RefsOf(v)
           /\ gone = {d \in Added : v \in Ends(edges[d])}
           /\ UsedVertices' = UsedVertices \ {v} /\ Added' = Added \ gone /\ failed' = failed
           /\ \A d \in UsedEdges \ gone : edges'[d] = edges[d]
<1>1. /\ vertices' = Without(Forgotten(vertices[v]), {v}) /\ edges' = Without(edges, gone)
      /\ failed' = failed \ gone
      /\ \A r \in vertices[v] : ~Throws(v, r) /\ ~ErasesNothing(v, r)
  BY DEF remove_vertex
<1>2. \A r \in vertices[v] : r \in RefsOf(v) /\ r.edge \in Added /\ v \in Ends(edges[r.edge])
  BY <1>1, LoopMeets, RefIsAdded
<1>3. ASSUME NEW d \in Added, v \in Ends(edges[d]) PROVE d \in gone
  <2>1. edge_ref(d, Opposite(edges[d], v)) \in vertices[v] /\ edge_ref(d, Opposite(edges[d], v)).edge = d
    BY <1>3, AddedHasRefs DEF edge_ref
  <2> QED
    BY <2>1
<1>4. gone = {d \in Added : v \in Ends(edges[d])}
  BY <1>2, <1>3
<1>5. failed' = failed
  BY <1>1, <1>4 DEF Added
<1>6. UsedVertices' = UsedVertices \ {v} /\ UsedEdges' = UsedEdges \ gone
  BY <1>1 DEF UsedVertices, UsedEdges, Without, Forgotten
<1>7. \A d \in UsedEdges \ gone : edges'[d] = edges[d]
  BY <1>1 DEF Without, UsedEdges
<1> QED
  BY <1>2, <1>4, <1>5, <1>6, <1>7 DEF Added

LEMMA RemoveVertexKeeps ==
    ASSUME GraphInv, ~undefined, NEW v \in UsedVertices, remove_vertex(v) PROVE GraphInv'
<1> DEFINE refs == vertices[v]
           gone == {r.edge : r \in refs}
<1>1. /\ vertices' = Without(Forgotten(refs), {v}) /\ edges' = Without(edges, gone)
      /\ failed' = failed \ gone /\ UNCHANGED <<directed, torn, undefined>>
  BY DEF remove_vertex
<1>2. UsedVertices' = UsedVertices \ {v} /\ UsedEdges' = UsedEdges \ gone
  BY <1>1 DEF UsedVertices, UsedEdges, Without, Forgotten
<1>3. GraphTypeOK'
  <2>1. vertices' \in [UsedVertices \ {v} -> SUBSET EdgeRefs]
    BY <1>1, ForgottenType, WithoutType DEF GraphInv
  <2>2. edges' \in [UsedEdges \ gone -> VertexIds \X VertexIds]
    BY <1>1, WithoutType DEF GraphInv, GraphTypeOK
  <2> QED
    BY <1>1, <1>2, <2>1, <2>2 DEF GraphInv, GraphTypeOK
<1>4. ASSUME ~torn' PROVE GraphIndexExact'
  <2>1. ~torn /\ Added \subseteq UsedEdges /\ failed \subseteq UsedEdges /\ failed \cap Added = {}
    BY <1>1, <1>4 DEF GraphInv, GraphTypeOK, Added
  <2>2. /\ \A r \in refs : r \in RefsOf(v)
        /\ gone = {d \in Added : v \in Ends(edges[d])}
        /\ Added' = Added \ gone /\ failed' = failed
        /\ \A d \in UsedEdges \ gone : edges'[d] = edges[d]
    BY <2>1, RemoveVertexIs
  <2>3. ASSUME NEW w \in UsedVertices \ {v}
        PROVE  RefsOf(w)' \subseteq vertices'[w] /\ vertices'[w] \subseteq RefsOf(w)' \cup HalfRefs(w)'
    <3>1. RefsOf(w)' = {q \in RefsOf(w) : q.edge \notin gone}
      <4>1. Added' = Added \ gone /\ directed' = directed
        BY <1>1, <2>2
      <4>2. \A d \in Added' : edges'[d] = edges[d]
        BY <2>1, <2>2, <4>1
      <4> HIDE DEF gone
      <4> QED
        BY <4>1, <4>2 DEF RefsOf, Ends, Opposite, edge_ref
    <3>2. HalfRefs(w)' = HalfRefs(w)
      <4>1. \A d \in failed : edges'[d] = edges[d]
        BY <2>1, <2>2
      <4> QED
        BY <1>1, <2>2, <4>1, HalfRefsStable
    <3>3. vertices'[w] = IF directed THEN vertices[w] ELSE {q \in vertices[w] : edge_ref(q.edge, w) \notin refs}
      BY <1>1 DEF Without, Forgotten
    <3>4. ASSUME NEW q \in RefsOf(w)
          PROVE  q.edge \in gone <=> ~directed /\ edge_ref(q.edge, w) \in refs
      <4>1. /\ q.edge \in Added /\ w \in Ends(edges[q.edge])
            /\ edges[q.edge] \in VertexIds \X VertexIds
        BY <2>1, RefIsAdded
      <4>2. CASE v \in Ends(edges[q.edge])
        <5>1. ~directed /\ Opposite(edges[q.edge], v) = w
          BY <4>1, <4>2 DEF Ends, Opposite
        <5>2. edge_ref(q.edge, w) \in refs
          BY <2>1, <4>1, <4>2, <5>1, AddedHasRefs
        <5> QED
          BY <2>2, <4>1, <4>2, <5>1, <5>2
      <4>3. CASE v \notin Ends(edges[q.edge])
        <5>1. edge_ref(q.edge, w) \notin refs
          BY <2>1, <2>2, <4>3, RefIsAdded DEF edge_ref
        <5> QED
          BY <2>2, <4>3, <5>1
      <4> QED
        BY <4>2, <4>3
    <3>5. ASSUME NEW q \in HalfRefs(w) PROVE edge_ref(q.edge, w) \notin refs
      <4>1. q.edge \notin Added
        BY <2>1, <3>5, RefIsHalf
      <4> QED
        BY <2>1, <2>2, <4>1, RefIsAdded DEF edge_ref
    <3>6. RefsOf(w) \subseteq vertices[w] /\ vertices[w] \subseteq RefsOf(w) \cup HalfRefs(w)
      BY <2>1 DEF GraphInv, GraphIndexExact
    <3>7. CASE directed
      <4>1. vertices'[w] = vertices[w] /\ \A q \in RefsOf(w) : q.edge \notin gone
        BY <3>3, <3>4, <3>7
      <4> QED
        BY <3>1, <3>2, <3>6, <4>1
    <3>8. CASE ~directed
      <4>1. vertices'[w] = {q \in vertices[w] : edge_ref(q.edge, w) \notin refs}
        BY <3>3, <3>8
      <4>2. \A q \in RefsOf(w) : q.edge \in gone <=> edge_ref(q.edge, w) \in refs
        BY <3>4, <3>8
      <4> HIDE DEF refs, gone
      <4> QED
        BY <3>1, <3>2, <3>5, <3>6, <4>1, <4>2
    <3> QED
      BY <3>7, <3>8
  <2>4. (\A d \in Added : Ends(edges[d]) \subseteq UsedVertices)'
    <3>1. \A d \in Added : Ends(edges[d]) \subseteq UsedVertices
      BY <2>1 DEF GraphInv, GraphIndexExact
    <3> QED
      BY <1>1, <1>2, <2>1, <2>2, <3>1 DEF Ends
  <2> QED
    BY <1>1, <1>2, <2>3, <2>4, IndexExactNext
<1> QED
  BY <1>1, <1>3, <1>4 DEF GraphInv, GraphIndexExact

\* As long as nothing is torn, remove_vertex() throws at half an edge; if that is the
\* first of its loop, nothing has been done.
LEMMA ThrowsAtFirst ==
    ASSUME GraphInv, ~torn, NEW v \in UsedVertices, NEW r \in vertices[v],
           remove_vertex_throws(v, r), ~torn'
    PROVE  vertices' = vertices /\ edges' = edges /\ failed' = failed
<1>1. OppositeGone(r) /\ {q \in vertices[v] : q.edge < r.edge} = {}
  BY LoopMeets DEF remove_vertex_throws
<1>2. vertices' = Forgotten({}) /\ edges' = Without(edges, {}) /\ failed' = failed
  BY <1>1 DEF remove_vertex_throws
<1>3. Forgotten({}) = vertices /\ Without(edges, {}) = edges
  BY DEF GraphInv, GraphTypeOK, Forgotten, Without, UsedEdges
<1> QED
  BY <1>2, <1>3

LEMMA RemoveVertexThrowsKeeps ==
    ASSUME GraphInv, ~undefined, NEW v \in UsedVertices, NEW r \in vertices[v], remove_vertex_throws(v, r)
    PROVE  GraphInv'
<1> DEFINE gone == {q.edge : q \in {q \in vertices[v] : q.edge < r.edge}}
<1>1. PICK S : /\ vertices' = Forgotten(S) /\ edges' = Without(edges, gone)
               /\ failed' = failed \ gone /\ UNCHANGED <<directed, undefined>>
               /\ torn' = (torn \/ {q \in vertices[v] : q.edge < r.edge} # {})
  BY DEF remove_vertex_throws
<1>2. UsedVertices' = UsedVertices /\ UsedEdges' = UsedEdges \ gone
  BY <1>1 DEF UsedVertices, UsedEdges, Without, Forgotten
<1>3. GraphTypeOK'
  <2>1. vertices' \in [UsedVertices -> SUBSET EdgeRefs]
    BY <1>1, ForgottenType DEF GraphInv
  <2>2. edges' \in [UsedEdges \ gone -> VertexIds \X VertexIds]
    BY <1>1, WithoutType DEF GraphInv, GraphTypeOK
  <2> QED
    BY <1>1, <1>2, <2>1, <2>2 DEF GraphInv, GraphTypeOK
<1>4. ASSUME ~torn' PROVE GraphIndexExact'
  <2>1. ~torn
    BY <1>1, <1>4 DEF GraphInv, GraphTypeOK
  <2>2. vertices' = vertices /\ edges' = edges /\ failed' = failed
    BY <1>4, <2>1, ThrowsAtFirst
  <2>3. UsedVertices' = UsedVertices /\ Added' = Added /\ directed' = directed
    BY <1>1, <2>2 DEF UsedVertices, UsedEdges, Added
  <2>4. \A w : RefsOf(w)' = RefsOf(w) /\ HalfRefs(w)' = HalfRefs(w)
    BY <2>2, <2>3, RefsOfStable, HalfRefsStable
  <2>5. (\A d \in Added : Ends(edges[d]) \subseteq UsedVertices)'
    BY <2>1, <2>2, <2>3 DEF GraphInv, GraphIndexExact, Ends
  <2>6. \A w \in UsedVertices : RefsOf(w) \subseteq vertices[w] /\ vertices[w] \subseteq RefsOf(w) \cup HalfRefs(w)
    BY <2>1 DEF GraphInv, GraphIndexExact
  <2> QED
    BY <1>1, <2>2, <2>3, <2>4, <2>5, <2>6, IndexExactNext
<1>5. ~directed
  BY LoopMeets DEF remove_vertex_throws, GraphInv
<1> QED
  BY <1>1, <1>3, <1>4, <1>5 DEF GraphInv, GraphIndexExact

LEMMA RemoveVertexUndefinedKeeps ==
    ASSUME GraphInv, NEW v \in UsedVertices, NEW r \in vertices[v], remove_vertex_undefined(v, r)
    PROVE  GraphInv'
BY LoopMeets, UndefinedKeeps DEF remove_vertex_undefined

LEMMA NextKeeps == ASSUME GraphInv, [Next]_gvars PROVE GraphInv'
<1>1. CASE UNCHANGED gvars
  BY <1>1 DEF gvars, GraphInv, GraphTypeOK, GraphIndexExact, UsedVertices, UsedEdges,
              Added, RefsOf, HalfRefs, Ends, Opposite, IsLoop, Trap
<1>2. CASE ~undefined /\ Call
  <2>1. ASSUME NEW v \in VertexIds, add_vertex(v) PROVE GraphInv'
    BY <1>2, <2>1, AddVertexKeeps
  <2>2. ASSUME NEW e \in EdgeIds, NEW x \in VertexIds, NEW y \in VertexIds,
               add_edge(e, x, y) \/ add_edge_throws(e, x, y)
        PROVE  GraphInv'
    BY <1>2, <2>2, AddEdgeKeeps, AddEdgeThrowsKeeps
  <2>3. ASSUME NEW e \in UsedEdges, remove_edge(e) PROVE GraphInv'
    BY <1>2, <2>3, RemoveEdgeKeeps
  <2>4. ASSUME NEW x \in VertexIds, NEW y \in VertexIds, remove_edge_between(x, y) PROVE GraphInv'
    BY <2>3, <2>4, get_edgeInUse
  <2>5. ASSUME NEW v \in UsedVertices, remove_vertex(v) PROVE GraphInv'
    BY <1>2, <2>5, RemoveVertexKeeps
  <2>6. ASSUME NEW v \in UsedVertices, NEW r \in vertices[v],
               remove_vertex_throws(v, r) \/ remove_vertex_undefined(v, r)
        PROVE  GraphInv'
    BY <1>2, <2>6, RemoveVertexThrowsKeeps, RemoveVertexUndefinedKeeps
  <2> QED
    BY <1>2, <2>1, <2>2, <2>3, <2>4, <2>5, <2>6 DEF Call
<1> QED
  BY <1>1, <1>2 DEF Next

LEMMA InitHolds == ASSUME Init PROVE GraphInv
BY DEF Init, GraphInv, GraphTypeOK, GraphIndexExact, UsedVertices, UsedEdges, Added

\* For any numbers of vertices and edges and any ids that clients pass: until a
\* remove_vertex() of an undirected graph throws half way, every vertex knows its edges
\* and nothing else but first halves of edges whose add_edge() threw, and nothing is
\* undefined without a self loop of an undirected graph or such a leftover
\* (directed_graph.hpp:25-52, undirected_graph.hpp:30-60).
THEOREM GraphSafe == Spec => []GraphInv
<1>1. Init => GraphInv
  BY InitHolds
<1>2. GraphInv /\ [Next]_gvars => GraphInv'
  BY NextKeeps
<1> QED
  BY <1>1, <1>2, PTL DEF Spec

----------------------------------------------------------------------------
(* What a failed add_edge() leaves behind                                  *)

LEMMA RemoveEdgeKeepsFailed ==
    ASSUME GraphInv, ~torn, NEW e \in UsedEdges, remove_edge(e) PROVE failed' = failed
<1>1. CASE Undefined
  BY <1>1 DEF Undefined
<1>2. CASE \E found : RemovesEdge(e, found)
  BY <1>2, RemovesEdgeIs
<1> QED
  BY <1>1, <1>2, RemoveEdgeCases

\* The edges that remove_vertex() has removed before it throws are added ones.
LEMMA ThrowKeepsFailed ==
    ASSUME GraphInv, ~torn, NEW v \in UsedVertices, NEW r \in vertices[v], remove_vertex_throws(v, r)
    PROVE  failed' = failed
<1>1. \A q \in vertices[v] : q.edge < r.edge => q.edge \in Added
  BY LoopMeets DEF remove_vertex_throws, Reaches
<1> QED
  BY <1>1 DEF remove_vertex_throws, Added

LEMMA FailedStays == ASSUME GraphInv, [Next]_gvars, ~torn PROVE failed \subseteq failed'
<1>1. CASE UNCHANGED gvars
  BY <1>1 DEF gvars
<1>2. CASE Call
  <2>1. ASSUME NEW e \in UsedEdges, remove_edge(e) PROVE failed \subseteq failed'
    BY <2>1, RemoveEdgeKeepsFailed
  <2>2. ASSUME NEW x \in VertexIds, NEW y \in VertexIds, remove_edge_between(x, y)
        PROVE  failed \subseteq failed'
    BY <2>1, <2>2, get_edgeInUse
  <2>3. ASSUME NEW v \in UsedVertices, remove_vertex(v) PROVE failed \subseteq failed'
    BY <2>3, RemoveVertexIs
  <2>4. ASSUME NEW v \in UsedVertices, NEW r \in vertices[v],
               remove_vertex_throws(v, r) \/ remove_vertex_undefined(v, r)
        PROVE  failed \subseteq failed'
    BY <2>4, ThrowKeepsFailed DEF remove_vertex_undefined, Undefined
  <2> QED
    BY <1>2, <2>1, <2>2, <2>3, <2>4 DEF Call, add_vertex, add_edge, add_edge_throws
<1> QED
  BY <1>1, <1>2 DEF Next

LEMMA HalfLinkedStays ==
    ASSUME [Next]_gvars, NEW v \in UsedVertices, HalfLinked(v) PROVE v \in UsedVertices'
<1>1. CASE UNCHANGED gvars
  BY <1>1 DEF gvars, UsedVertices
<1>2. ASSUME NEW e, remove_edge(e) PROVE v \in UsedVertices'
  BY <1>2 DEF remove_edge, Undefined, UsedVertices
<1>3. ASSUME NEW w \in UsedVertices, remove_vertex(w) PROVE v \in UsedVertices'
  <2>1. w # v
    BY <1>3 DEF remove_vertex, HalfLinked, neighbors, Throws, OppositeGone
  <2> QED
    BY <1>3, <2>1 DEF remove_vertex, Without, Forgotten, UsedVertices
<1>4. ASSUME NEW w \in UsedVertices, NEW r \in vertices[w],
             remove_vertex_throws(w, r) \/ remove_vertex_undefined(w, r)
      PROVE  v \in UsedVertices'
  BY <1>4 DEF remove_vertex_throws, remove_vertex_undefined, Undefined, Forgotten, UsedVertices
<1> QED
  BY <1>1, <1>2, <1>3, <1>4
  DEF Next, Call, add_vertex, add_edge, add_edge_throws, Linked, remove_edge_between, UsedVertices

\* Whatever ids clients pass to remove_edge(), the edge of a failed add_edge() is in use
\* for ever, and a vertex is not removed while it has an edge to a missing one
\* (directed_graph.hpp:36-52, undirected_graph.hpp:30-60).
THEOREM FailedAddEdgeStaysSafe == Spec => FailedAddEdgeStays
<1>1. GraphInv /\ [Next]_gvars =>
          [ /\ ~torn => failed \subseteq failed'
            /\ \A v \in UsedVertices : HalfLinked(v) => v \in UsedVertices' ]_gvars
  BY FailedStays, HalfLinkedStays
<1> QED
  BY <1>1, GraphSafe, PTL DEF Spec, FailedAddEdgeStays

----------------------------------------------------------------------------
(* The graph as a multigraph                                               *)

AddedEnds == [e \in Added |-> edges[e]]

LEMMA AddVertexImplements ==
    ASSUME GraphInv, NEW v \in VertexIds, add_vertex(v) PROVE Abstract!AddVertex
BY DEF add_vertex, Abstract!AddVertex, UsedVertices, Added, UsedEdges

LEMMA AddEdgeImplements ==
    ASSUME GraphInv, NEW e \in EdgeIds, NEW x \in VertexIds, NEW y \in VertexIds, add_edge(e, x, y)
    PROVE  Abstract!AddEdge
<1> DEFINE p == <<x, y>>
<1>1. /\ e \notin UsedEdges /\ Ends(p) \subseteq UsedVertices
      /\ edges' = NewEdge(e, p) /\ vertices' = Linked(Ends(p), e, p)
      /\ UNCHANGED <<directed, failed>>
  BY DEF add_edge
<1>2. Added' = Added \cup {e} /\ e \notin Added /\ UsedVertices' = UsedVertices
  BY <1>1 DEF GraphInv, GraphTypeOK, Added, NewEdge, UsedEdges, Linked, UsedVertices
<1>3. \A d \in Added' : edges'[d] = IF d = e THEN p ELSE edges[d]
  BY <1>1, <1>2 DEF NewEdge, Added, UsedEdges
<1>4. AddedEnds' = [d \in DOMAIN AddedEnds \cup {e} |-> IF d = e THEN p ELSE AddedEnds[d]]
  BY <1>2, <1>3 DEF AddedEnds
<1> QED
  BY <1>1, <1>2, <1>4 DEF Abstract!AddEdge, Abstract!Needs, Ends, AddedEnds

LEMMA AddEdgeThrowsImplements ==
    ASSUME GraphInv, NEW e \in EdgeIds, NEW x \in VertexIds, NEW y \in VertexIds, add_edge_throws(e, x, y)
    PROVE  UNCHANGED Abstract!avars
<1>1. Added' = Added /\ UsedVertices' = UsedVertices /\ \A d \in Added : edges'[d] = edges[d]
  BY DEF add_edge_throws, Added, NewEdge, UsedEdges, Linked, UsedVertices
<1> QED
  BY <1>1 DEF Abstract!avars, add_edge_throws

LEMMA RemoveEdgeImplements ==
    ASSUME GraphInv, ~torn, NEW e \in UsedEdges, remove_edge(e)
    PROVE  Abstract!RemoveEdge \/ UNCHANGED Abstract!avars
<1>1. CASE Undefined
  BY <1>1 DEF Undefined, Abstract!avars, UsedVertices, UsedEdges, Added
<1>2. ASSUME NEW found, RemovesEdge(e, found)
      PROVE  Abstract!RemoveEdge \/ UNCHANGED Abstract!avars
  <2>0. directed' = directed
    BY <1>2 DEF RemovesEdge
  <2>1. /\ UsedVertices' = UsedVertices /\ Added' = Added \ {e}
        /\ \A d \in UsedEdges \ {e} : edges'[d] = edges[d]
    BY <1>2, RemovesEdgeIs
  <2>2. CASE e \in Added
    <3>1. \A d \in Added \ {e} : edges'[d] = edges[d]
      BY <2>1 DEF Added
    <3>2. AddedEnds' = [d \in DOMAIN AddedEnds \ {e} |-> AddedEnds[d]]
      BY <2>1, <3>1 DEF AddedEnds
    <3> QED
      BY <2>0, <2>1, <2>2, <3>2 DEF Abstract!RemoveEdge, AddedEnds
  <2>3. CASE e \notin Added
    <3>1. Added' = Added /\ \A d \in Added : edges'[d] = edges[d]
      BY <2>1, <2>3 DEF Added
    <3>2. AddedEnds' = AddedEnds
      BY <3>1 DEF AddedEnds
    <3> QED
      BY <2>0, <2>1, <3>2 DEF Abstract!avars, AddedEnds
  <2> QED
    BY <2>2, <2>3
<1> QED
  BY <1>1, <1>2, RemoveEdgeCases

LEMMA RemoveVertexImplements ==
    ASSUME GraphInv, ~torn, NEW v \in UsedVertices, remove_vertex(v) PROVE Abstract!RemoveVertex
<1> DEFINE gone == {r.edge : r \in vertices[v]}
<1>1. /\ UsedVertices' = UsedVertices \ {v} /\ Added' = Added \ gone
      /\ gone = {d \in Added : v \in Ends(edges[d])}
      /\ \A d \in UsedEdges \ gone : edges'[d] = edges[d]
      /\ directed' = directed
  BY RemoveVertexIs DEF remove_vertex
<1> HIDE DEF gone
<1>2. /\ Added' = {d \in Added : v \notin Ends(edges[d])}
      /\ \A d \in Added' : edges'[d] = edges[d]
  BY <1>1 DEF Added
<1>3. AddedEnds' = [d \in {c \in DOMAIN AddedEnds : v \notin Ends(AddedEnds[c])} |-> AddedEnds[d]]
  BY <1>2 DEF AddedEnds
<1> QED
  BY <1>1, <1>3 DEF Abstract!RemoveVertex, Abstract!Needs, Ends, AddedEnds

LEMMA ThrowsImplements ==
    ASSUME GraphInv, ~torn, ~torn', NEW v \in UsedVertices, NEW r \in vertices[v],
           remove_vertex_throws(v, r) \/ remove_vertex_undefined(v, r)
    PROVE  UNCHANGED Abstract!avars
<1>1. UNCHANGED <<directed, vertices, edges, failed>>
  BY ThrowsAtFirst DEF remove_vertex_throws, remove_vertex_undefined, Undefined
<1> QED
  BY <1>1 DEF Abstract!avars, UsedVertices, UsedEdges, Added

LEMMA StepImplements ==
    ASSUME GraphInv, [Next]_gvars PROVE [Abstract!Next \/ torn']_(Abstract!avars)
<1>1. CASE UNCHANGED gvars
  BY <1>1 DEF gvars, Abstract!avars, UsedVertices, Added, UsedEdges
<1>2. CASE torn'
  BY <1>2
<1>3. CASE Call /\ ~torn'
  <2>1. ~torn
    BY <1>3 DEF Call, add_vertex, add_edge, add_edge_throws, remove_edge, remove_edge_between,
                remove_vertex, remove_vertex_throws, remove_vertex_undefined, Undefined
  <2>2. ASSUME NEW v \in VertexIds, add_vertex(v) PROVE Abstract!Next
    BY <2>2, AddVertexImplements DEF Abstract!Next
  <2>3. ASSUME NEW e \in EdgeIds, NEW x \in VertexIds, NEW y \in VertexIds,
               add_edge(e, x, y) \/ add_edge_throws(e, x, y)
        PROVE  Abstract!Next \/ UNCHANGED Abstract!avars
    BY <2>3, AddEdgeImplements, AddEdgeThrowsImplements DEF Abstract!Next
  <2>4. ASSUME NEW e \in UsedEdges, remove_edge(e) PROVE Abstract!Next \/ UNCHANGED Abstract!avars
    BY <2>1, <2>4, RemoveEdgeImplements DEF Abstract!Next
  <2>5. ASSUME NEW x \in VertexIds, NEW y \in VertexIds, remove_edge_between(x, y)
        PROVE  Abstract!Next \/ UNCHANGED Abstract!avars
    BY <2>4, <2>5, get_edgeInUse
  <2>6. ASSUME NEW v \in UsedVertices, remove_vertex(v) PROVE Abstract!Next
    BY <2>1, <2>6, RemoveVertexImplements DEF Abstract!Next
  <2>7. ASSUME NEW v \in UsedVertices, NEW r \in vertices[v],
               remove_vertex_throws(v, r) \/ remove_vertex_undefined(v, r)
        PROVE  UNCHANGED Abstract!avars
    BY <1>3, <2>1, <2>7, ThrowsImplements
  <2> QED
    BY <1>3, <2>2, <2>3, <2>4, <2>5, <2>6, <2>7 DEF Call
<1> QED
  BY <1>1, <1>2, <1>3 DEF Next

\* Until a remove_vertex() of an undirected graph throws half way, a graph is a
\* multigraph to its clients, in spite of self loops, of what failed calls left and of
\* stale ids: a removed vertex takes along its edges, in a directed graph the outgoing
\* ones, and a call that throws takes or adds nothing
\* (directed_graph.hpp:25-52, undirected_graph.hpp:30-60).
THEOREM MultigraphImplemented == Spec => ImplementsMultigraph
<1>1. Init => Abstract!Init
  BY DEF Init, Abstract!Init, UsedVertices, Added, UsedEdges
<1>2. GraphInv /\ [Next]_gvars => [Abstract!Next \/ torn']_(Abstract!avars)
  BY StepImplements
<1> QED
  BY <1>1, <1>2, GraphSafe, PTL DEF Spec, ImplementsMultigraph

----------------------------------------------------------------------------
(* What get_edge() finds                                                   *)

\* A nonempty set of ids, however large, has a least one.
LEMMA LeastId == ASSUME NEW T \in SUBSET Nat, T # {} PROVE \E m \in T : \A k \in T : m <= k
<1>1. PICK m \in T : \A k \in T : ~(<<k, m>> \in OpToRel(<, Nat))
  BY NatLessThanWellFounded, WFMin
<1>2. \A k \in T : ~(k < m)
  BY <1>1 DEF OpToRel
<1> QED BY <1>2

LEMMA RefJoins ==
    ASSUME GraphInv, ~torn, NEW v \in UsedVertices, NEW r \in RefsOf(v)
    PROVE  r.edge \in Joining(v, r.vertex)
<1>1. /\ r.edge \in Added /\ v \in Ends(edges[r.edge]) /\ edges[r.edge] \in VertexIds \X VertexIds
      /\ r = edge_ref(r.edge, Opposite(edges[r.edge], v))
  BY RefIsAdded
<1>2. Opposite(edges[r.edge], v) = r.vertex
  BY <1>1 DEF edge_ref
<1>3. edges[r.edge] = <<edges[r.edge][1], edges[r.edge][2]>>
  BY <1>1
<1> QED BY <1>1, <1>2, <1>3 DEF Joining, Ends, Opposite

\* The first edge of v that leads to w joins them or is half an edge to w, and there is
\* a first one if any edge joins them (vertex.hpp:144-153).
LEMMA AssociatedEdgeExact ==
    ASSUME GraphInv, ~torn, NEW v \in UsedVertices, NEW w \in VertexIds
    PROVE  /\ \A e \in associated_edge(v, w) :
                  e \in Joining(v, w) \/ (~directed /\ e \in failed /\ edges[e] = <<v, w>>)
           /\ Joining(v, w) # {} => associated_edge(v, w) # {}
<1>1. ASSUME NEW e \in associated_edge(v, w)
      PROVE  e \in Joining(v, w) \/ (~directed /\ e \in failed /\ edges[e] = <<v, w>>)
  <2>1. PICK r \in vertices[v] : r.vertex = w /\ r.edge = e
    BY <1>1 DEF associated_edge
  <2>2. CASE r \in RefsOf(v)
    BY <2>1, <2>2, RefJoins
  <2>3. CASE r \in HalfRefs(v)
    BY <2>1, <2>3, RefIsHalf
  <2> QED BY <2>2, <2>3, RefKinds
<1>2. ASSUME NEW e \in Joining(v, w) PROVE associated_edge(v, w) # {}
  <2>1. e \in Added /\ v \in Ends(edges[e]) /\ Opposite(edges[e], v) = w
    BY <1>2 DEF Joining, Ends, Opposite
  <2>2. edge_ref(e, w) \in vertices[v]
    BY <2>1, AddedHasRefs
  <2> DEFINE found == {r \in vertices[v] : r.vertex = w}
             ids == {r.edge : r \in found}
  <2>3. edge_ref(e, w) \in found
    BY <2>2 DEF edge_ref
  <2>4. ids \in SUBSET Nat
    <3>1. vertices[v] \in SUBSET EdgeRefs
      BY DEF GraphInv, GraphTypeOK
    <3>2. \A r \in vertices[v] : r.edge \in Nat
      BY <3>1, GraphAssumption DEF EdgeRefs
    <3> QED BY <3>2
  <2>5. ids # {}
    BY <2>3
  <2>6. PICK m \in ids : \A k \in ids : m <= k
    <3> HIDE DEF ids
    <3> QED BY <2>4, <2>5, LeastId
  <2>7. PICK q \in found : q.edge = m
    BY <2>6
  <2>8. \A p \in found : q.edge <= p.edge
    BY <2>6, <2>7
  <2> QED BY <2>7, <2>8 DEF associated_edge
<1> QED BY <1>1, <1>2

\* get_edge(x, y) finds an edge if one joins x and y, at whichever end it searches, and
\* nothing else but what a failed add_edge() of x and y left
\* (undirected_graph.hpp:62-69).
THEOREM GetEdgeExactSafe == Spec => []GetEdgeExact
<1>1. GraphInv => GetEdgeExact
  <2> SUFFICES ASSUME GraphInv, ~torn, NEW x \in UsedVertices, NEW y \in UsedVertices
               PROVE  /\ \A e \in get_edge(x, y) :
                             \/ e \in Joining(x, y)
                             \/ ~directed /\ e \in failed /\ edges[e] \in {<<x, y>>, <<y, x>>}
                      /\ Joining(x, y) # {} => get_edge(x, y) # {}
    BY DEF GetEdgeExact
  <2>1. x \in VertexIds /\ y \in VertexIds
    BY DEF GraphInv, GraphTypeOK
  <2>2. ~directed => Joining(x, y) = Joining(y, x)
    BY DEF Joining
  <2> QED BY <2>1, <2>2, AssociatedEdgeExact DEF get_edge
<1> QED BY <1>1, GraphSafe, PTL

----------------------------------------------------------------------------
(* What adjacent() finds                                                   *)

\* The set of a vertex is finite, whatever has been done to the graph.
FiniteInv == \A v \in UsedVertices : IsFiniteSet(vertices[v])

\* A call adds at most one element to the set of a vertex.
LEMMA FiniteStep == FiniteInv /\ GraphTypeOK /\ [Next]_gvars => FiniteInv'
<1> SUFFICES ASSUME FiniteInv, GraphTypeOK, [Next]_gvars, NEW v \in UsedVertices'
             PROVE  IsFiniteSet(vertices'[v])
  BY DEF FiniteInv
<1> DEFINE Small(S) == \E r : S \subseteq vertices[v] \cup {r}
<1>1. ASSUME v \in UsedVertices, Small(vertices'[v]) PROVE IsFiniteSet(vertices'[v])
  <2>1. PICK r : vertices'[v] \subseteq vertices[v] \cup {r}
    BY <1>1
  <2>2. IsFiniteSet(vertices[v] \cup {r})
    BY <1>1, FS_AddElement DEF FiniteInv
  <2> QED BY <2>1, <2>2, FS_Subset
<1>2. vertices = [w \in UsedVertices |-> vertices[w]]
  BY DEF GraphTypeOK
<1>3. ASSUME NEW w, add_vertex(w) PROVE IsFiniteSet(vertices'[v])
  <2>1. vertices' = [u \in UsedVertices \cup {w} |-> IF u = w THEN {} ELSE vertices[u]]
    BY <1>3 DEF add_vertex
  <2> QED BY <2>1, FS_EmptySet DEF FiniteInv, UsedVertices
<1>4. ASSUME NEW S, NEW e, NEW p, vertices' = Linked(S, e, p) PROVE IsFiniteSet(vertices'[v])
  <2>1. vertices' = [w \in UsedVertices |-> IF w \in S
                        THEN add_associated_edge(vertices[w], edge_ref(e, Opposite(p, w)))
                        ELSE vertices[w]]
    BY <1>4 DEF Linked
  <2>2. v \in UsedVertices /\ Small(vertices'[v])
    BY <2>1 DEF add_associated_edge, UsedVertices
  <2> QED BY <1>1, <2>2
<1>5. ASSUME NEW e, remove_edge(e) PROVE IsFiniteSet(vertices'[v])
  <2>1. v \in UsedVertices /\ vertices'[v] \subseteq vertices[v]
    BY <1>2, <1>5 DEF remove_edge, Undefined, remove_associated_edge, UsedVertices
  <2> QED BY <1>1, <2>1
<1>6. ASSUME NEW S, NEW X, vertices' = Forgotten(S) \/ vertices' = Without(Forgotten(S), X)
      PROVE  IsFiniteSet(vertices'[v])
  <2>1. v \in UsedVertices /\ vertices'[v] \subseteq vertices[v]
    BY <1>6 DEF Forgotten, Without, UsedVertices
  <2> QED BY <1>1, <2>1
<1>7. CASE UNCHANGED gvars \/ Undefined
  <2>1. v \in UsedVertices /\ vertices'[v] \subseteq vertices[v]
    BY <1>7 DEF gvars, Undefined, UsedVertices
  <2> QED BY <1>1, <2>1
<1>8. ASSUME NEW e, NEW x, NEW y, add_edge(e, x, y) \/ add_edge_throws(e, x, y)
      PROVE  IsFiniteSet(vertices'[v])
  BY <1>4, <1>8 DEF add_edge, add_edge_throws
<1>9. ASSUME NEW x, NEW y, remove_edge_between(x, y) PROVE IsFiniteSet(vertices'[v])
  BY <1>5, <1>9 DEF remove_edge_between
<1>10. ASSUME NEW w, remove_vertex(w) PROVE IsFiniteSet(vertices'[v])
  BY <1>6, <1>10 DEF remove_vertex
<1>11. ASSUME NEW w, NEW r, remove_vertex_throws(w, r) \/ remove_vertex_undefined(w, r)
       PROVE  IsFiniteSet(vertices'[v])
  BY <1>6, <1>7, <1>11 DEF remove_vertex_throws, remove_vertex_undefined
<1> QED BY <1>3, <1>5, <1>7, <1>8, <1>9, <1>10, <1>11 DEF Next, Call

\* A finite set with distinct edges has an element that can be the root of its tree.
LEMMA RootExists ==
    ASSUME NEW S \in SUBSET EdgeRefs, IsFiniteSet(S), S # {},
           \A q, r \in S : q.edge = r.edge => q = r
    PROVE  Roots(S) # {}
<1>1. \A r \in S : r.edge \in Nat
  BY GraphAssumption DEF EdgeRefs
<1>2. CASE ~(Cardinality(S) > 2)
  BY <1>2 DEF Roots
<1>3. CASE Cardinality(S) > 2
  <2>1. ASSUME NEW T \in SUBSET S, T # {}
        PROVE  \E m \in T : \A k \in T \ {m} : m.edge < k.edge
    <3> DEFINE ids == {r.edge : r \in T}
    <3>1. ids \in SUBSET Nat /\ ids # {}
      BY <1>1, <2>1
    <3>2. PICK i \in ids : \A k \in ids : i <= k
      <4> HIDE DEF ids
      <4> QED BY <3>1, LeastId
    <3>3. PICK m \in T : m.edge = i
      OBVIOUS
    <3>4. ASSUME NEW k \in T \ {m} PROVE m.edge < k.edge
      <4>1. m.edge <= k.edge /\ m.edge # k.edge /\ m.edge \in Nat /\ k.edge \in Nat
        BY <1>1, <3>2, <3>3
      <4> QED BY <4>1
    <3> QED BY <3>4
  <2>2. PICK a \in S : \A k \in S \ {a} : a.edge < k.edge
    BY <2>1
  <2>3. Cardinality(S \ {a}) >= 2 /\ IsFiniteSet(S \ {a})
    <3>1. Cardinality(S) \in Nat
      BY FS_CardinalityType
    <3>2. Cardinality(S \ {a}) = Cardinality(S) - 1 /\ IsFiniteSet(S \ {a})
      BY FS_RemoveElement
    <3> QED BY <1>3, <3>1, <3>2
  <2>4. S \ {a} # {}
    BY <2>3, FS_EmptySet
  <2>5. PICK b \in S \ {a} : \A k \in (S \ {a}) \ {b} : b.edge < k.edge
    BY <2>1, <2>4
  <2>6. (S \ {a}) \ {b} # {}
    <3>1. Cardinality((S \ {a}) \ {b}) = Cardinality(S \ {a}) - 1 /\ Cardinality(S \ {a}) \in Nat
      BY <2>3, FS_RemoveElement, FS_CardinalityType
    <3> QED BY <2>3, <3>1, FS_EmptySet
  <2>7. PICK c \in (S \ {a}) \ {b} : TRUE
    BY <2>6
  <2>8. a.edge < b.edge /\ ~(c.edge < b.edge) /\ a \in S \ {b} /\ c \in S \ {b}
    <3>1. b.edge < c.edge /\ a.edge < b.edge /\ b.edge \in Nat /\ c.edge \in Nat
      BY <1>1, <2>2, <2>5, <2>7
    <3> QED BY <3>1
  <2>9. {q.edge < b.edge : q \in S \ {b}} = BOOLEAN
    <3> DEFINE below(q) == q.edge < b.edge
    <3>1. \A q \in S \ {b} : below(q) \in BOOLEAN
      OBVIOUS
    <3>2. below(a) = TRUE /\ below(c) = FALSE
      BY <2>8
    <3>3. {below(q) : q \in S \ {b}} = BOOLEAN
      <4> HIDE DEF below
      <4>1. {below(q) : q \in S \ {b}} \subseteq BOOLEAN
        BY <3>1
      <4>2. TRUE \in {below(q) : q \in S \ {b}} /\ FALSE \in {below(q) : q \in S \ {b}}
        BY <2>8, <3>2
      <4> QED BY <4>1, <4>2
    <3> QED BY <3>3
  <2> QED BY <2>9 DEF Roots
<1> QED BY <1>2, <1>3

\* What the descent from the subtree S finds, if f is what it finds from the smaller ones.
Smaller(S, r) == {q \in S : q.edge < r.edge}
Larger(S, r) == {q \in S : r.edge < q.edge}

Turn(f, S, last, r, y) == IF is_less(r, y) THEN f[Larger(S, r)][last] ELSE f[Smaller(S, r)][{r}]

Level(f, refs, S, y) ==
    [last \in SUBSET refs |-> IF S = {} THEN {\E r \in last : r.vertex = y}
                              ELSE UNION {Turn(f, S, last, r, y) : r \in Roots(S)}]

\* The subtrees below a root are smaller than the tree.
LEMMA SubtreesShrink ==
    ASSUME NEW S \in SUBSET EdgeRefs, IsFiniteSet(S), NEW r \in S
    PROVE  /\ Smaller(S, r) \in SUBSET S /\ Larger(S, r) \in SUBSET S
           /\ Cardinality(Smaller(S, r)) < Cardinality(S) /\ Cardinality(Larger(S, r)) < Cardinality(S)
           /\ Cardinality(Smaller(S, r)) \in Nat /\ Cardinality(Larger(S, r)) \in Nat /\ Cardinality(S) \in Nat
<1>1. r.edge \in Nat
  BY GraphAssumption DEF EdgeRefs
<1>2. Cardinality(S) \in Nat
  BY FS_CardinalityType
<1>3. ASSUME NEW T \in SUBSET S, r \notin T
      PROVE  Cardinality(T) < Cardinality(S) /\ Cardinality(T) \in Nat
  <2>1. Cardinality(T) <= Cardinality(S) /\ T # S /\ IsFiniteSet(T)
    BY <1>3, FS_Subset
  <2>2. Cardinality(S) = Cardinality(T) => S = T
    BY FS_Subset
  <2>3. Cardinality(T) \in Nat
    BY <2>1, FS_CardinalityType
  <2> QED BY <1>2, <2>1, <2>2, <2>3
<1>4. r \notin Smaller(S, r) /\ r \notin Larger(S, r)
  BY <1>1 DEF Smaller, Larger
<1>5. Smaller(S, r) \in SUBSET S /\ Larger(S, r) \in SUBSET S
  BY DEF Smaller, Larger
<1> QED BY <1>2, <1>3, <1>4, <1>5

\* Induction over the numbers, as a fact about a set of them.
LEMMA SetInduction ==
    ASSUME NEW S, 0 \in S, \A n \in Nat : n \in S => n + 1 \in S
    PROVE  Nat \subseteq S
<1> SUFFICES ASSUME Nat \ S # {} PROVE FALSE
  OBVIOUS
<1>1. PICK m \in Nat \ S : \A k \in Nat \ S : m <= k
  <2>1. Nat \ S \in SUBSET Nat
    OBVIOUS
  <2> QED BY <2>1, LeastId
<1>2. m # 0 /\ m \in Nat
  OBVIOUS
<1>3. m - 1 \in Nat /\ (m - 1) + 1 = m /\ ~(m <= m - 1)
  BY <1>2
<1>4. m - 1 \in S
  BY <1>1, <1>3
<1> QED BY <1>3, <1>4

\* What is found from a subtree depends on the subtrees below it only.
LEMMA LevelLocal ==
    ASSUME NEW refs \in SUBSET EdgeRefs, IsFiniteSet(refs), NEW S \in SUBSET refs, NEW y, NEW f, NEW g,
           \A T \in SUBSET refs : Cardinality(T) < Cardinality(S) => f[T] = g[T]
    PROVE  Level(f, refs, S, y) = Level(g, refs, S, y)
<1>1. IsFiniteSet(S) /\ S \in SUBSET EdgeRefs
  BY FS_Subset
<1>2. ASSUME NEW r \in Roots(S), NEW last
      PROVE  Turn(f, S, last, r, y) = Turn(g, S, last, r, y)
  <2>1. r \in S
    BY DEF Roots
  <2>2. /\ Smaller(S, r) \in SUBSET S /\ Larger(S, r) \in SUBSET S
        /\ Cardinality(Smaller(S, r)) < Cardinality(S) /\ Cardinality(Larger(S, r)) < Cardinality(S)
    BY <1>1, <2>1, SubtreesShrink
  <2>3. f[Smaller(S, r)] = g[Smaller(S, r)] /\ f[Larger(S, r)] = g[Larger(S, r)]
    BY <2>2
  <2> QED BY <2>3 DEF Turn
<1>3. \A last : {Turn(f, S, last, r, y) : r \in Roots(S)} = {Turn(g, S, last, r, y) : r \in Roots(S)}
  BY <1>2
<1> QED BY <1>3 DEF Level

\* A function that finds what the recursion says exists.
LEMMA DescentExists ==
    ASSUME NEW refs \in SUBSET EdgeRefs, IsFiniteSet(refs), NEW y
    PROVE  \E f : f = [S \in SUBSET refs |-> Level(f, refs, S, y)]
<1> DEFINE UpTo(f, n) == \A S \in SUBSET refs : Cardinality(S) < n => f[S] = Level(f, refs, S, y)
           Good == {n \in Nat : \E f : UpTo(f, n)}
<1>0. \A S \in SUBSET refs : Cardinality(S) \in Nat /\ Cardinality(S) <= Cardinality(refs)
  BY FS_Subset, FS_CardinalityType
<1>1. 0 \in Good
  <2>1. UpTo([S \in SUBSET refs |-> {}], 0)
    BY <1>0
  <2> QED BY <2>1
<1>2. ASSUME NEW n \in Nat, n \in Good PROVE n + 1 \in Good
  <2>1. PICK f : UpTo(f, n)
    BY <1>2
  <2> DEFINE g == [S \in SUBSET refs |-> Level(f, refs, S, y)]
  <2>2. \A T \in SUBSET refs : g[T] = Level(f, refs, T, y)
    OBVIOUS
  <2>3. ASSUME NEW S \in SUBSET refs, Cardinality(S) < n + 1 PROVE g[S] = Level(g, refs, S, y)
    <3>1. ASSUME NEW T \in SUBSET refs, Cardinality(T) < Cardinality(S) PROVE f[T] = g[T]
      <4>1. Cardinality(T) < n
        BY <1>0, <2>3, <3>1
      <4> QED BY <2>1, <2>2, <4>1
    <3>2. Level(f, refs, S, y) = Level(g, refs, S, y)
      <4> HIDE DEF g
      <4> QED BY <3>1, LevelLocal
    <3> QED BY <2>2, <3>2
  <2>4. UpTo(g, n + 1)
    BY <2>3
  <2>5. n + 1 \in Nat
    OBVIOUS
  <2> HIDE DEF g, UpTo
  <2> QED BY <2>4, <2>5
<1>3. Cardinality(refs) + 1 \in Good
  <2>1. Nat \subseteq Good
    <3> HIDE DEF Good
    <3> QED BY <1>1, <1>2, SetInduction
  <2> QED BY <1>0, <2>1
<1>4. PICK f : UpTo(f, Cardinality(refs) + 1)
  BY <1>3
<1>5. \A S \in SUBSET refs : f[S] = Level(f, refs, S, y)
  BY <1>0, <1>4
<1> DEFINE h == [S \in SUBSET refs |-> f[S]]
<1>6. ASSUME NEW S \in SUBSET refs PROVE h[S] = Level(h, refs, S, y)
  <2>1. \A T \in SUBSET refs : f[T] = h[T]
    OBVIOUS
  <2>2. Level(f, refs, S, y) = Level(h, refs, S, y)
    <3> HIDE DEF h
    <3> QED BY <2>1, LevelLocal
  <2> QED BY <1>5, <2>1, <2>2
<1>7. h = [S \in SUBSET refs |-> Level(h, refs, S, y)]
  <2>1. h = [S \in SUBSET refs |-> h[S]]
    OBVIOUS
  <2> HIDE DEF h
  <2> QED BY <1>6, <2>1
<1> QED BY <1>7

\* Finds is one such function.
LEMMA FindsIs ==
    ASSUME NEW refs \in SUBSET EdgeRefs, IsFiniteSet(refs), NEW y
    PROVE  \E f : /\ \A S \in SUBSET refs : f[S] = Level(f, refs, S, y)
                  /\ Finds(refs, y) = f[refs][{}]
<1> DEFINE f == CHOOSE f : f = [S \in SUBSET refs |-> Level(f, refs, S, y)]
<1>1. f = [S \in SUBSET refs |-> Level(f, refs, S, y)]
  BY DescentExists
<1>2. Finds(refs, y) = f[refs][{}]
  BY DEF Finds, Level, Turn, Smaller, Larger
<1>3. \A S \in SUBSET refs : f[S] = Level(f, refs, S, y)
  <2> HIDE DEF f
  <2> QED BY <1>1
<1> QED BY <1>2, <1>3

\* Whether y is an opposite vertex, as the set of all answers.
Answer(refs, y) == {\E r \in refs : r.vertex = y}

\* A set of one element, from its element.
LEMMA OnlyElement == ASSUME NEW A, NEW x \in A, \A z \in A : z = x PROVE A = {x}
OBVIOUS

\* Where a descent for y can be: whoever is not in the subtree S any more is before what
\* is sought, or not before the last element where it turned left.
Reached(refs, S, last, y) ==
    /\ \A r \in refs \ S : r.vertex < y \/ \E q \in last : q.edge <= r.edge
    /\ \A q \in last : q.vertex >= y /\ \A s \in S : s.edge < q.edge

\* In a set that is sorted by both, every descent that got somewhere finds the vertex
\* exactly if it is there.
LEMMA DescentExact ==
    ASSUME NEW refs \in SUBSET EdgeRefs, IsFiniteSet(refs), NEW y \in Nat,
           \A q, r \in refs : q.edge = r.edge => q = r, Sorted(refs),
           NEW f, \A S \in SUBSET refs : f[S] = Level(f, refs, S, y),
           NEW S \in SUBSET refs, NEW last \in SUBSET refs, Reached(refs, S, last, y),
           \A T \in SUBSET refs, l \in SUBSET refs :
               Cardinality(T) < Cardinality(S) /\ Reached(refs, T, l, y) => f[T][l] = Answer(refs, y)
    PROVE  f[S][last] = Answer(refs, y)
<1>1. \A r \in refs : r.edge \in Nat /\ r.vertex \in Nat
  BY GraphAssumption DEF EdgeRefs
<1>2. f[S][last] = IF S = {} THEN {\E r \in last : r.vertex = y}
                   ELSE UNION {Turn(f, S, last, r, y) : r \in Roots(S)}
  <2>1. f[S] = Level(f, refs, S, y)
    OBVIOUS
  <2> QED BY <2>1 DEF Level
<1>3. CASE S = {}
  <2>1. ASSUME NEW r \in refs, r.vertex = y PROVE \E q \in last : q.vertex = y
    <3>1. PICK q \in last : q.edge <= r.edge /\ q.vertex >= y /\ q \in refs
      <4>1. ~(r.vertex < y) /\ r \in refs \ S
        BY <1>3, <2>1
      <4> QED BY <4>1 DEF Reached
    <3>2. q.vertex <= r.vertex
      <4>1. CASE q.edge < r.edge
        BY <3>1, <4>1 DEF Sorted
      <4>2. CASE q.edge = r.edge
        BY <1>1, <3>1, <4>2
      <4> QED BY <1>1, <3>1, <4>1, <4>2
    <3> QED BY <1>1, <2>1, <3>1, <3>2
  <2>2. (\E r \in refs : r.vertex = y) = (\E q \in last : q.vertex = y)
    BY <2>1
  <2> QED BY <1>2, <1>3, <2>2 DEF Answer
<1>4. CASE S # {}
  <2>1. IsFiniteSet(S) /\ S \in SUBSET EdgeRefs
    BY FS_Subset
  <2>2. Roots(S) # {}
    BY <1>4, <2>1, RootExists
  <2>3. ASSUME NEW r \in Roots(S) PROVE Turn(f, S, last, r, y) = Answer(refs, y)
    <3>1. r \in S /\ r \in refs
      BY DEF Roots
    <3>2. /\ Smaller(S, r) \in SUBSET S /\ Larger(S, r) \in SUBSET S
          /\ Cardinality(Smaller(S, r)) < Cardinality(S) /\ Cardinality(Larger(S, r)) < Cardinality(S)
      BY <2>1, <3>1, SubtreesShrink
    <3>3. CASE is_less(r, y)
      <4>1. ASSUME NEW q \in S \ Larger(S, r) PROVE q.vertex < y
        <5>1. q.edge <= r.edge /\ r.vertex < y
          BY <1>1, <3>1, <3>3 DEF Larger, is_less
        <5>2. q.vertex <= r.vertex
          <6>1. CASE q.edge < r.edge
            BY <3>1, <6>1 DEF Sorted
          <6>2. CASE q.edge = r.edge
            BY <1>1, <3>1, <6>2
          <6> QED BY <1>1, <3>1, <5>1, <6>1, <6>2
        <5> QED BY <1>1, <3>1, <5>1, <5>2
      <4>2. Reached(refs, Larger(S, r), last, y)
        BY <3>2, <4>1 DEF Reached
      <4> QED BY <3>2, <3>3, <4>2 DEF Turn
    <3>4. CASE ~is_less(r, y)
      <4>1. r.vertex >= y
        BY <1>1, <3>1, <3>4 DEF is_less
      <4>2. \A s \in Smaller(S, r) : s.edge < r.edge
        BY DEF Smaller
      <4>3. ASSUME NEW q \in refs \ Smaller(S, r) PROVE q.vertex < y \/ r.edge <= q.edge
        <5>1. CASE q \in S
          BY <1>1, <3>1, <5>1 DEF Smaller
        <5>2. CASE q \notin S /\ ~(q.vertex < y)
          <6>1. PICK p \in last : p.edge <= q.edge /\ p \in refs
            BY <5>2 DEF Reached
          <6>2. r.edge < p.edge
            BY <3>1 DEF Reached
          <6> QED BY <1>1, <3>1, <6>1, <6>2
        <5> QED BY <5>1, <5>2
      <4>4. Reached(refs, Smaller(S, r), {r}, y)
        BY <4>1, <4>2, <4>3 DEF Reached
      <4>5. {r} \in SUBSET refs /\ Smaller(S, r) \in SUBSET refs
        BY <3>1, <3>2
      <4>6. f[Smaller(S, r)][{r}] = Answer(refs, y)
        BY <3>2, <4>4, <4>5
      <4> QED BY <3>4, <4>6 DEF Turn
    <3> QED BY <3>3, <3>4
  <2>4. {Turn(f, S, last, r, y) : r \in Roots(S)} = {Answer(refs, y)}
    <3> DEFINE turns == {Turn(f, S, last, r, y) : r \in Roots(S)}
    <3>1. PICK r \in Roots(S) : TRUE
      BY <2>2
    <3>2. Turn(f, S, last, r, y) \in turns
      OBVIOUS
    <3>3. Answer(refs, y) \in turns /\ \A x \in turns : x = Answer(refs, y)
      BY <2>3, <3>2
    <3>4. turns = {Answer(refs, y)}
      <4> HIDE DEF turns
      <4> QED BY <3>3, OnlyElement
    <3> QED BY <3>4
  <2> QED BY <1>2, <1>4, <2>4
<1> QED BY <1>3, <1>4

\* The search for a vertex in a sorted set is exact, whatever tree holds the set.
LEMMA FindsExact ==
    ASSUME NEW refs \in SUBSET EdgeRefs, IsFiniteSet(refs), NEW y \in Nat,
           \A q, r \in refs : q.edge = r.edge => q = r, Sorted(refs)
    PROVE  Finds(refs, y) = Answer(refs, y)
<1>1. PICK f : (\A S \in SUBSET refs : f[S] = Level(f, refs, S, y)) /\ Finds(refs, y) = f[refs][{}]
  BY FindsIs
<1> DEFINE Exact(n) == \A S \in SUBSET refs, last \in SUBSET refs :
                          Cardinality(S) < n /\ Reached(refs, S, last, y) => f[S][last] = Answer(refs, y)
           Good == {n \in Nat : Exact(n)}
<1>2. \A S \in SUBSET refs : Cardinality(S) \in Nat
  BY FS_Subset, FS_CardinalityType
<1>3. 0 \in Good
  <2>1. \A S \in SUBSET refs : ~(Cardinality(S) < 0)
    BY <1>2
  <2> QED BY <2>1
<1>4. ASSUME NEW n \in Nat, n \in Good PROVE n + 1 \in Good
  <2>1. Exact(n)
    BY <1>4
  <2>2. ASSUME NEW S \in SUBSET refs, NEW last \in SUBSET refs,
               Cardinality(S) < n + 1, Reached(refs, S, last, y)
        PROVE  f[S][last] = Answer(refs, y)
    <3>1. ASSUME NEW T \in SUBSET refs, NEW l \in SUBSET refs,
                 Cardinality(T) < Cardinality(S), Reached(refs, T, l, y)
          PROVE  f[T][l] = Answer(refs, y)
      <4>1. Cardinality(T) < n
        BY <1>2, <2>2, <3>1
      <4> QED BY <2>1, <3>1, <4>1
    <3>2. \A T \in SUBSET refs, l \in SUBSET refs :
             Cardinality(T) < Cardinality(S) /\ Reached(refs, T, l, y) => f[T][l] = Answer(refs, y)
      BY <3>1
    <3> QED BY <1>1, <2>2, <3>2, DescentExact
  <2>3. n + 1 \in Nat
    OBVIOUS
  <2>4. Exact(n + 1)
    BY <2>2
  <2> HIDE DEF Exact
  <2> QED BY <2>3, <2>4
<1>5. Cardinality(refs) + 1 \in Good
  <2>1. Nat \subseteq Good
    <3> HIDE DEF Good
    <3> QED BY <1>3, <1>4, SetInduction
  <2>2. Cardinality(refs) + 1 \in Nat
    BY <1>2
  <2> HIDE DEF Good
  <2> QED BY <2>1, <2>2
<1>6. Reached(refs, refs, {}, y)
  BY DEF Reached
<1>7. f[refs][{}] = Answer(refs, y)
  <2>1. Cardinality(refs) < Cardinality(refs) + 1
    BY <1>2
  <2>2. Exact(Cardinality(refs) + 1)
    BY <1>5
  <2> QED BY <1>6, <2>1, <2>2
<1> QED BY <1>1, <1>7

\* The search in the set of v finds w exactly if an edge joins them, if v knows no half
\* of an edge.
LEMMA FindsJoining ==
    ASSUME GraphInv, FiniteInv, ~torn, NEW v \in UsedVertices, NEW w \in VertexIds,
           Whole(v), Sorted(vertices[v])
    PROVE  Finds(vertices[v], w) = {Joining(v, w) # {}}
<1>1. vertices[v] \in SUBSET EdgeRefs /\ IsFiniteSet(vertices[v]) /\ w \in Nat
  BY GraphAssumption DEF GraphInv, GraphTypeOK, FiniteInv
<1>2. \A q, r \in vertices[v] : q.edge = r.edge => q = r
  BY RefIsAdded DEF Whole
<1>3. Finds(vertices[v], w) = Answer(vertices[v], w)
  BY <1>1, <1>2, FindsExact
<1>4. ASSUME NEW r \in vertices[v], r.vertex = w PROVE r.edge \in Joining(v, w)
  BY <1>4, RefJoins DEF Whole
<1>5. ASSUME NEW e \in Joining(v, w) PROVE \E r \in vertices[v] : r.vertex = w
  <2>1. e \in Added /\ v \in Ends(edges[e]) /\ Opposite(edges[e], v) = w
    BY <1>5 DEF Joining, Ends, Opposite
  <2>2. edge_ref(e, w) \in vertices[v]
    BY <2>1, AddedHasRefs
  <2> QED BY <2>2 DEF edge_ref
<1>6. (\E r \in vertices[v] : r.vertex = w) = (Joining(v, w) # {})
  BY <1>4, <1>5
<1> QED BY <1>3, <1>6 DEF Answer

\* As long as the order of the edges is one of the opposite vertices, too, and no half of
\* an edge is in the way, adjacent() answers whether an edge joins its arguments,
\* whatever the shape of the tree (vertex.hpp:129-135).
THEOREM AdjacentExactWhenSortedSafe == Spec => []AdjacentExactWhenSorted
<1>1. Init => FiniteInv
  BY DEF Init, FiniteInv, UsedVertices
<1>2. GraphInv => GraphTypeOK
  BY DEF GraphInv
<1>3. Spec => []FiniteInv
  BY <1>1, <1>2, FiniteStep, GraphSafe, PTL DEF Spec
<1>4. GraphInv /\ FiniteInv => AdjacentExactWhenSorted
  <2> SUFFICES ASSUME GraphInv, FiniteInv, ~torn, NEW x \in UsedVertices, NEW y \in UsedVertices,
                      Whole(x), Sorted(vertices[x]), Whole(y), Sorted(vertices[y])
               PROVE  adjacent(x, y) = {Joining(x, y) # {}}
    BY DEF AdjacentExactWhenSorted
  <2>1. x \in VertexIds /\ y \in VertexIds
    BY DEF GraphInv, GraphTypeOK
  <2>2. Finds(vertices[x], y) = {Joining(x, y) # {}} /\ Finds(vertices[y], x) = {Joining(y, x) # {}}
    BY <2>1, FindsJoining
  <2>3. ~directed => Joining(x, y) = Joining(y, x)
    BY DEF Joining
  <2> QED BY <2>2, <2>3 DEF adjacent
<1> QED BY <1>3, <1>4, GraphSafe, PTL
=============================================================================

------------------------- MODULE IndexedListsProofs -------------------------
(***************************************************************************)
(* Whatever legal calls are made on an indexed_list, its lists are rings   *)
(* that share no node, a node in no list has no links, and the lists       *)
(* behave as sequences.                                                    *)
(***************************************************************************)
EXTENDS IndexedLists, IndexedListProofs

Ring(l, hd, h) == Forward(l, hd[h])

\* The heads hd are those of disjoint rings in l, and other nodes have no links.
Rings(l, hd) ==
    /\ IsList(l) /\ l.size \in 0..MaxNodes
    /\ hd \in [Heads -> 0..null_index]
    /\ \A h \in Heads : Arranged(l, hd[h], Ring(l, hd, h))
    /\ \A g, h \in Heads : g # h => Nodes(Ring(l, hd, g)) \cap Nodes(Ring(l, hd, h)) = {}
    /\ \A i \in Indices(l) : (\A h \in Heads : i \notin Nodes(Ring(l, hd, h))) => Unlinked(l, i)

\* The inductive invariant.
ListsInv == Rings(list, heads)

----------------------------------------------------------------------------
(* Rings                                                                   *)

\* The links of a node in a ring are nodes of that ring.
LEMMA LinkedInside ==
    ASSUME NEW l, NEW hd, Rings(l, hd), NEW h \in Heads, NEW i \in Nodes(Ring(l, hd, h))
    PROVE  l.next[i] \in Indices(l) /\ l.prev[i] \in Indices(l) /\ null_index \notin Indices(l)
<1>1. IsList(l) /\ Arranged(l, hd[h], Ring(l, hd, h))
  BY DEF Rings
<1>2. /\ l.next[i] \in Nodes(Ring(l, hd, h)) /\ l.prev[i] \in Nodes(Ring(l, hd, h))
      /\ Nodes(Ring(l, hd, h)) \subseteq Indices(l)
  BY <1>1, RingLinks
<1> QED BY <1>1, <1>2, IndexRange DEF IsList

\* A node is linked exactly when it is in a ring.
LEMMA UnlinkedInNone ==
    ASSUME NEW l, NEW hd, Rings(l, hd), NEW i \in Indices(l)
    PROVE  /\ (l.next[i] = null_index) <=> (l.prev[i] = null_index)
           /\ Unlinked(l, i) <=> \A h \in Heads : i \notin Nodes(Ring(l, hd, h))
<1>1. ASSUME NEW h \in Heads, i \in Nodes(Ring(l, hd, h))
      PROVE  l.next[i] # null_index /\ l.prev[i] # null_index
  BY <1>1, LinkedInside
<1>2. CASE \A h \in Heads : i \notin Nodes(Ring(l, hd, h))
  <2>1. Unlinked(l, i)
    BY <1>2 DEF Rings
  <2> QED BY <1>2, <2>1 DEF Unlinked
<1>3. CASE ~ \A h \in Heads : i \notin Nodes(Ring(l, hd, h))
  BY <1>1, <1>3 DEF Unlinked
<1> QED BY <1>2, <1>3

\* From l to r the sequence of h becomes t, and only nodes of D change their links:
\* nodes of that list and free ones, which have no links when they are not in t.
Changes(l, hd, r, hd2, h, head, t, D) ==
    /\ hd2 = [hd EXCEPT ![h] = head]
    /\ Arranged(r, head, t) /\ Touches(r, l, D)
    /\ Nodes(Ring(l, hd, h)) \subseteq D /\ Nodes(t) \subseteq D
    /\ \A g \in Heads \ {h} : Nodes(Ring(l, hd, g)) \cap D = {}
    /\ \A i \in D \ Nodes(t) : Unlinked(r, i)

\* The sequence of h is t now, and the others are what they were.
NowHas(l, hd, r, hd2, h, t) ==
    /\ Rings(r, hd2) /\ r.size = l.size
    /\ \A g \in Heads : Ring(r, hd2, g) = IF g = h THEN t ELSE Ring(l, hd, g)

\* An operation on one list leaves the others as they are.
LEMMA OneListChanges ==
    ASSUME NEW l, NEW hd, Rings(l, hd), NEW h \in Heads,
           NEW r, NEW hd2, NEW head, NEW t, NEW D, Changes(l, hd, r, hd2, h, head, t, D)
    PROVE  NowHas(l, hd, r, hd2, h, t)
<1>0. /\ hd2 = [hd EXCEPT ![h] = head]
      /\ Arranged(r, head, t) /\ Touches(r, l, D)
      /\ Nodes(Ring(l, hd, h)) \subseteq D /\ Nodes(t) \subseteq D
      /\ \A g \in Heads \ {h} : Nodes(Ring(l, hd, g)) \cap D = {}
      /\ \A i \in D \ Nodes(t) : Unlinked(r, i)
  BY DEF Changes
<1> USE <1>0
<1>1. /\ IsList(r) /\ r.size = l.size /\ Indices(r) = Indices(l)
      /\ \A i \in Indices(l) \ D : r.next[i] = l.next[i] /\ r.prev[i] = l.prev[i]
      /\ IsList(l) /\ l.size \in 0..MaxNodes /\ hd \in [Heads -> 0..null_index]
  BY DEF Touches, Rings, Indices
<1>2. head \in 0..null_index
  <2>1. null_index \in 0..null_index /\ Indices(r) \subseteq 0..null_index
    BY <1>1, NullIndexAssumption, IndexRange DEF IsList
  <2> QED BY <1>1, <2>1, ArrangedFacts
<1>3. hd2 \in [Heads -> 0..null_index] /\ \A g \in Heads : hd2[g] = IF g = h THEN head ELSE hd[g]
  BY <1>1, <1>2
<1>4. ASSUME NEW g \in Heads \ {h} PROVE Arranged(r, hd2[g], Ring(l, hd, g))
  <2> DEFINE s == Ring(l, hd, g)
  <2>1. Arranged(l, hd[g], s) /\ hd2[g] = hd[g] /\ Nodes(s) \cap D = {}
    BY <1>3 DEF Rings
  <2> HIDE DEF s
  <2>2. Nodes(s) \subseteq Indices(l)
    BY <1>1, <2>1, ArrangedFacts DEF Nodes
  <2>3. \A i \in Nodes(s) : r.next[i] = l.next[i] /\ r.prev[i] = l.prev[i]
    BY <1>1, <2>1, <2>2
  <2>4. Arranged(r, hd[g], s)
    BY <1>1, <2>1, <2>2, <2>3, ArrangedKept
  <2> QED BY <2>1, <2>4 DEF s
<1>5. \A g \in Heads : Ring(r, hd2, g) = IF g = h THEN t ELSE Ring(l, hd, g)
  <2>1. Forward(r, head) = t
    BY <1>1, ForwardIs
  <2>2. ASSUME NEW g \in Heads \ {h} PROVE Forward(r, hd2[g]) = Ring(l, hd, g)
    BY <1>1, <1>4, <2>2, ForwardIs
  <2> QED BY <1>3, <2>1, <2>2 DEF Ring
<1>6. \A g \in Heads : Arranged(r, hd2[g], Ring(r, hd2, g))
  <2>1. hd2[h] = head /\ Ring(r, hd2, h) = t
    BY <1>3, <1>5
  <2>2. \A g \in Heads \ {h} : Ring(r, hd2, g) = Ring(l, hd, g)
    BY <1>5
  <2> QED BY <1>4, <2>1, <2>2
<1>7. \A f, g \in Heads : f # g => Nodes(Ring(r, hd2, f)) \cap Nodes(Ring(r, hd2, g)) = {}
  <2> SUFFICES ASSUME NEW f \in Heads, NEW g \in Heads, f # g
               PROVE  Nodes(Ring(r, hd2, f)) \cap Nodes(Ring(r, hd2, g)) = {}
    OBVIOUS
  <2>1. Nodes(Ring(l, hd, f)) \cap Nodes(Ring(l, hd, g)) = {}
    BY DEF Rings
  <2>2. CASE f = h
    <3>1. Ring(r, hd2, f) = t /\ Ring(r, hd2, g) = Ring(l, hd, g) /\ g \in Heads \ {h}
      BY <1>5, <2>2
    <3>2. Nodes(Ring(l, hd, g)) \cap D = {}
      BY <3>1
    <3> QED BY <3>1, <3>2
  <2>3. CASE g = h
    <3>1. Ring(r, hd2, g) = t /\ Ring(r, hd2, f) = Ring(l, hd, f) /\ f \in Heads \ {h}
      BY <1>5, <2>3
    <3>2. Nodes(Ring(l, hd, f)) \cap D = {}
      BY <3>1
    <3> QED BY <3>1, <3>2
  <2>4. CASE f # h /\ g # h
    <3>1. Ring(r, hd2, g) = Ring(l, hd, g) /\ Ring(r, hd2, f) = Ring(l, hd, f)
      BY <1>5, <2>4
    <3> QED BY <2>1, <3>1
  <2> QED BY <2>2, <2>3, <2>4
<1>8. ASSUME NEW i \in Indices(r), \A g \in Heads : i \notin Nodes(Ring(r, hd2, g))
      PROVE  Unlinked(r, i)
  <2>1. i \notin Nodes(t)
    BY <1>5, <1>8
  <2>2. CASE i \in D
    BY <2>1, <2>2
  <2>3. CASE i \notin D
    <3>1. \A g \in Heads : i \notin Nodes(Ring(l, hd, g))
      <4>1. i \notin Nodes(Ring(l, hd, h))
        BY <2>3
      <4>2. \A g \in Heads \ {h} : i \notin Nodes(Ring(l, hd, g))
        BY <1>5, <1>8
      <4> QED BY <4>1, <4>2
    <3>2. i \in Indices(l) /\ r.next[i] = l.next[i] /\ r.prev[i] = l.prev[i]
      BY <1>1, <2>3
    <3>3. Unlinked(l, i)
      BY <3>1, <3>2 DEF Rings
    <3> QED BY <3>2, <3>3 DEF Unlinked
  <2> QED BY <2>2, <2>3
<1> QED BY <1>1, <1>3, <1>5, <1>6, <1>7, <1>8 DEF Rings, NowHas

\* A free node is not in the ring of any head, and a node of a ring has a position.
LEMMA RingFacts ==
    ASSUME NEW l, NEW hd, Rings(l, hd), NEW h \in Heads, NEW s, s = Ring(l, hd, h)
    PROVE  /\ IsList(l) /\ Arranged(l, hd[h], s) /\ s \in Seq(Indices(l)) /\ Len(s) \in Nat
           /\ Nodes(s) \subseteq Indices(l) /\ null_index \notin Nodes(s)
           /\ \A i \in Indices(l) : Unlinked(l, i) => \A g \in Heads : i \notin Nodes(Ring(l, hd, g))
           /\ s = <<>> <=> hd[h] = null_index
           /\ s = <<>> <=> Len(s) = 0
           /\ s # <<>> => hd[h] = s[1]
           /\ \A j, k \in 1..Len(s) : s[j] = s[k] => j = k
<1>1. IsList(l) /\ Arranged(l, hd[h], s)
  BY DEF Rings
<1>2. \A i \in Indices(l) : Unlinked(l, i) => \A g \in Heads : i \notin Nodes(Ring(l, hd, g))
  BY UnlinkedInNone
<1>3. Nodes(s) \subseteq Indices(l) /\ null_index \notin Nodes(s)
  <2>1. s \in [1..Len(s) -> Indices(l)] /\ null_index \notin Indices(l)
    BY <1>1, ArrangedFacts
  <2> QED BY <2>1 DEF Nodes
<1> QED BY SMTT(30), <1>1, <1>2, <1>3, ArrangedFacts

\* insert() changes the sequence of its own list only (indexed_list.hpp:107-114).
LEMMA InsertRings ==
    ASSUME NEW l, NEW hd, Rings(l, hd), NEW h \in Heads, NEW s, s = Ring(l, hd, h),
           NEW i \in Indices(l), Unlinked(l, i), NEW p \in 0..Len(s),
           NEW nx, nx = IF p = Len(s) THEN null_index ELSE s[p + 1],
           NEW r, r = insert(l, hd[h], nx, i), NEW hd2, hd2 = [hd EXCEPT ![h] = r.head]
    PROVE  NowHas(l, hd, r.list, hd2, h, Joined(s, p, i))
<1> DEFINE t == Joined(s, p, i)  D == Nodes(s) \cup {i}
<1>1. /\ IsList(l) /\ Arranged(l, hd[h], s) /\ s \in Seq(Indices(l)) /\ i \in Indices(l) \ Nodes(s)
      /\ \A g \in Heads : i \notin Nodes(Ring(l, hd, g))
  BY RingFacts
<1>2. Arranged(r.list, r.head, t) /\ Touches(r.list, l, D)
  BY <1>1, InsertArranges
<1>3. Nodes(t) = D
  BY <1>1, NodesJoined
<1>4. \A g \in Heads \ {h} : Nodes(Ring(l, hd, g)) \cap D = {}
  BY <1>1 DEF Rings
<1> HIDE DEF t, D
<1>5. Nodes(Ring(l, hd, h)) \subseteq D
  BY DEF D
<1>6. \A j \in D \ Nodes(t) : Unlinked(r.list, j)
  BY <1>3
<1>7. Changes(l, hd, r.list, hd2, h, r.head, t, D)
  BY <1>2, <1>3, <1>4, <1>5, <1>6 DEF Changes
<1> QED BY <1>7, OneListChanges DEF t

\* remove() changes the sequence of its own list only (indexed_list.hpp:115-123).
LEMMA RemoveRings ==
    ASSUME NEW l, NEW hd, Rings(l, hd), NEW h \in Heads, NEW s, s = Ring(l, hd, h),
           NEW p \in 1..Len(s),
           NEW r, r = remove(l, hd[h], s[p]), NEW hd2, hd2 = [hd EXCEPT ![h] = r.head]
    PROVE  NowHas(l, hd, r.list, hd2, h, Dropped(s, p))
<1> DEFINE t == Dropped(s, p)  D == Nodes(s)
<1>1. /\ IsList(l) /\ Arranged(l, hd[h], s) /\ s \in Seq(Indices(l))
      /\ \A j, k \in 1..Len(s) : s[j] = s[k] => j = k
  BY RingFacts
<1>2. Arranged(r.list, r.head, t) /\ Touches(r.list, l, D) /\ Unlinked(r.list, s[p])
  BY <1>1, RemoveArranges
<1>3. Nodes(t) = D \ {s[p]}
  BY <1>1, NodesDropped
<1>4. \A g \in Heads \ {h} : Nodes(Ring(l, hd, g)) \cap D = {}
  BY DEF Rings
<1> HIDE DEF t, D
<1>5. Nodes(Ring(l, hd, h)) \subseteq D
  BY DEF D
<1>6. \A j \in D \ Nodes(t) : Unlinked(r.list, j)
  BY <1>2, <1>3
<1>7. Changes(l, hd, r.list, hd2, h, r.head, t, D)
  BY <1>2, <1>3, <1>4, <1>5, <1>6 DEF Changes
<1> QED BY <1>7, OneListChanges DEF t

\* form_list() makes the sequence begin .. end - 1 of an empty one
\* (indexed_list.hpp:73-91).
LEMMA FormListRings ==
    ASSUME NEW l, NEW hd, Rings(l, hd), NEW h \in Heads, hd[h] = null_index,
           NEW b \in Nat, NEW e \in Nat, b < e, e <= l.size,
           \A i \in b..(e - 1) : Unlinked(l, i),
           NEW r, r = form_list(l, b, e), NEW hd2, hd2 = [hd EXCEPT ![h] = b],
           NEW t \in [1..(e - b) -> Nat], \A k \in 1..(e - b) : t[k] = b + k - 1
    PROVE  NowHas(l, hd, r, hd2, h, t)
<1> DEFINE D == b..(e - 1)
<1>1. IsList(l) /\ l.size \in Nat
  BY NullIndexAssumption DEF Rings, IsList
<1>2. Arranged(r, b, t) /\ Touches(r, l, D) /\ Nodes(t) = D
  BY <1>1, FormListArranges
<1>3. Nodes(Ring(l, hd, h)) = {}
  <2>1. Ring(l, hd, h) = <<>> /\ Len(<<>>) = 0
    BY RingFacts
  <2> QED BY <2>1 DEF Nodes
<1>4. D \subseteq Indices(l)
  BY <1>1 DEF Indices
<1>5. \A i \in D : \A g \in Heads : i \notin Nodes(Ring(l, hd, g))
  BY <1>4, UnlinkedInNone
<1> HIDE DEF D
<1>6. \A g \in Heads \ {h} : Nodes(Ring(l, hd, g)) \cap D = {}
  BY <1>5
<1>7. Changes(l, hd, r, hd2, h, b, t, D)
  BY <1>2, <1>3, <1>6 DEF Changes
<1> QED BY <1>7, OneListChanges

\* resize() that cuts off no linked node keeps every list (indexed_list.hpp:62-65).
LEMMA ResizeRings ==
    ASSUME NEW l, NEW hd, Rings(l, hd), NEW n \in 0..MaxNodes,
           \A i \in Indices(l) : i >= n => Unlinked(l, i), NEW r, r = resize(l, n)
    PROVE  /\ Rings(r, hd) /\ r.size = n
           /\ \A g \in Heads : Ring(r, hd, g) = Ring(l, hd, g) /\ Nodes(Ring(r, hd, g)) \subseteq Indices(r)
<1>1. IsList(l) /\ l.size \in Nat /\ n \in 0..null_index /\ n \in Nat
  BY NullIndexAssumption, ListsAssumption DEF Rings, IsList
<1>2. /\ IsList(r) /\ r.size = n
      /\ \A i \in Indices(l) \cap Indices(r) : r.next[i] = l.next[i] /\ r.prev[i] = l.prev[i]
      /\ \A i \in Indices(r) \ Indices(l) : Unlinked(r, i)
  BY <1>1, ResizeLinks
<1>3. ASSUME NEW g \in Heads
      PROVE  /\ Arranged(r, hd[g], Ring(l, hd, g)) /\ Ring(r, hd, g) = Ring(l, hd, g)
             /\ Nodes(Ring(l, hd, g)) \subseteq Indices(r)
  <2> DEFINE s == Ring(l, hd, g)
  <2>0. Arranged(l, hd[g], s) /\ Nodes(s) \subseteq Indices(l)
    BY RingFacts
  <2>1. Nodes(s) \subseteq Indices(r)
    <3>1. \A i \in Indices(l) : i >= n => i \notin Nodes(s)
      BY UnlinkedInNone
    <3>2. \A i \in Indices(l) : ~(i >= n) => i \in Indices(r)
      BY <1>1, <1>2 DEF Indices
    <3> QED BY <2>0, <3>1, <3>2
  <2>2. \A i \in Nodes(s) : r.next[i] = l.next[i] /\ r.prev[i] = l.prev[i]
    BY <1>2, <2>0, <2>1
  <2> HIDE DEF s
  <2>3. Arranged(r, hd[g], s)
    BY <1>1, <1>2, <2>0, <2>1, <2>2, ArrangedKept
  <2>4. Forward(r, hd[g]) = s
    BY <1>2, <2>3, ForwardIs
  <2> QED BY <2>1, <2>3, <2>4 DEF s, Ring
<1>4. ASSUME NEW i \in Indices(r), \A g \in Heads : i \notin Nodes(Ring(r, hd, g))
      PROVE  Unlinked(r, i)
  <2>1. CASE i \in Indices(l)
    <3>1. Unlinked(l, i)
      BY <1>3, <1>4, <2>1 DEF Rings
    <3> QED BY <1>2, <2>1, <3>1 DEF Unlinked
  <2>2. CASE i \notin Indices(l)
    BY <1>2, <2>2
  <2> QED BY <2>1, <2>2
<1>5. \A f, g \in Heads : f # g => Nodes(Ring(r, hd, f)) \cap Nodes(Ring(r, hd, g)) = {}
  BY <1>3 DEF Rings
<1>6. \A g \in Heads : Arranged(r, hd[g], Ring(r, hd, g))
  BY <1>3
<1>7. hd \in [Heads -> 0..null_index]
  BY DEF Rings
<1> QED BY <1>2, <1>3, <1>4, <1>5, <1>6, <1>7 DEF Rings

\* Before any call, and after clear(), all lists are empty (indexed_list.hpp:34-39, 124-130).
LEMMA NewListRings ==
    ASSUME NEW n \in 0..MaxNodes, NEW r, r = NewList(n), NEW hd, hd = [h \in Heads |-> null_index]
    PROVE  Rings(r, hd) /\ r.size = n /\ \A g \in Heads : Ring(r, hd, g) = <<>>
<1>1. n \in 0..null_index
  BY NullIndexAssumption, ListsAssumption
<1>2. IsList(r) /\ r.size = n /\ \A i \in Indices(r) : Unlinked(r, i)
  BY <1>1, NewListLinks
<1>3. hd \in [Heads -> 0..null_index] /\ \A g \in Heads : hd[g] = null_index
  BY NullIndexAssumption
<1>4. ASSUME NEW g \in Heads PROVE Arranged(r, hd[g], <<>>) /\ Ring(r, hd, g) = <<>>
  <2>1. Arranged(r, null_index, <<>>)
    BY EmptyArranged
  <2> QED BY <1>2, <1>3, <2>1, ForwardIs DEF Ring
<1>5. Nodes(<<>>) = {}
  <2>1. Len(<<>>) = 0
    OBVIOUS
  <2> QED BY <2>1 DEF Nodes
<1> QED BY <1>2, <1>3, <1>4, <1>5 DEF Rings

----------------------------------------------------------------------------
(* Calls                                                                   *)

\* The place `next' names: before a node, or at the end.
LEMMA PlaceOf ==
    ASSUME NEW l, NEW hd, Rings(l, hd), NEW h \in Heads, NEW s, s = Ring(l, hd, h),
           NEW nx \in Nodes(s) \cup {null_index}
    PROVE  /\ \E p \in 0..Len(s) : nx = IF p = Len(s) THEN null_index ELSE s[p + 1]
           /\ \A p, q \in 0..Len(s) :
                 (/\ IF p = Len(s) THEN nx = null_index ELSE s[p + 1] = nx
                  /\ IF q = Len(s) THEN nx = null_index ELSE s[q + 1] = nx) => p = q
<1> DEFINE n == Len(s)
<1>0. n \in Nat
  BY RingFacts
<1>1. null_index \notin Nodes(s) /\ \A j, k \in 1..n : s[j] = s[k] => j = k
  BY RingFacts
<1>n. Nodes(s) = {s[k] : k \in 1..n}
  BY DEF Nodes
<1> HIDE DEF n
<1>2. \E p \in 0..n : nx = IF p = n THEN null_index ELSE s[p + 1]
  <2>1. CASE nx = null_index
    <3>1. n \in 0..n
      BY <1>0
    <3> QED BY <2>1, <3>1
  <2>2. CASE nx # null_index
    <3>1. PICK k \in 1..n : nx = s[k]
      BY <1>n, <2>2
    <3>2. k - 1 \in 0..n /\ k - 1 # n /\ (k - 1) + 1 = k
      BY <1>0
    <3> QED BY <3>1, <3>2
  <2> QED BY <2>1, <2>2
<1>3. ASSUME NEW p \in 0..n, NEW q \in 0..n,
             IF p = n THEN nx = null_index ELSE s[p + 1] = nx,
             IF q = n THEN nx = null_index ELSE s[q + 1] = nx
      PROVE  p = q
  <2>1. p # n => p + 1 \in 1..n /\ s[p + 1] \in Nodes(s)
    <3>1. p # n => p + 1 \in 1..n
      BY <1>0
    <3> QED BY <1>n, <3>1
  <2>2. q # n => q + 1 \in 1..n /\ s[q + 1] \in Nodes(s)
    <3>1. q # n => q + 1 \in 1..n
      BY <1>0
    <3> QED BY <1>n, <3>1
  <2>3. CASE p = n
    BY <1>1, <1>3, <2>2, <2>3
  <2>4. CASE p # n
    <3>1. q # n
      BY <1>1, <1>3, <2>1, <2>4
    <3>2. p + 1 = q + 1
      BY <1>1, <1>3, <2>1, <2>2, <2>4, <3>1
    <3> QED BY <1>0, <3>2
  <2> QED BY <2>3, <2>4
<1> QED BY <1>2, <1>3 DEF n

\* The step of push(head, index) on the sequences.
LEMMA PushStep ==
    ASSUME ListsInv, NEW h \in Heads, NEW i \in Indices(list), Push(h, i)
    PROVE  NowHas(list, heads, list', heads', h, <<i>> \o Ring(list, heads, h))
<1> DEFINE s == Ring(list, heads, h)  r == push(list, heads[h], i)
           nx == IF 0 = Len(s) THEN null_index ELSE s[0 + 1]
<1>1. Rings(list, heads) /\ Unlinked(list, i) /\ list' = r.list /\ heads' = [heads EXCEPT ![h] = r.head]
  BY DEF Push, Become, ListsInv
<1>2. /\ s \in Seq(Indices(list)) /\ Len(s) \in Nat /\ (s = <<>> <=> heads[h] = null_index)
      /\ (s = <<>> <=> Len(s) = 0) /\ (s # <<>> => heads[h] = s[1])
  BY <1>1, RingFacts
<1>3. nx = heads[h] /\ 0 \in 0..Len(s)
  BY <1>2
<1>4. r = insert(list, heads[h], nx, i)
  BY <1>3 DEF insert
<1> HIDE DEF r
<1>5. NowHas(list, heads, list', heads', h, Joined(s, 0, i))
  <2>1. s = Ring(list, heads, h) /\ nx = IF 0 = Len(s) THEN null_index ELSE s[0 + 1]
    OBVIOUS
  <2> HIDE DEF s, nx
  <2>2. NowHas(list, heads, r.list, heads', h, Joined(s, 0, i))
    BY <1>1, <1>3, <1>4, <2>1, InsertRings
  <2> QED BY <1>1, <2>2
<1>6. Joined(s, 0, i) = <<i>> \o s
  BY <1>2, JoinedAtEnds
<1> QED BY <1>5, <1>6

\* The step of insert(head, next, inserted) on the sequences.
LEMMA InsertStep ==
    ASSUME ListsInv, NEW h \in Heads, NEW i \in Indices(list),
           NEW p \in 0..Len(Ring(list, heads, h)), Unlinked(list, i),
           NEW nx, nx = (IF p = Len(Ring(list, heads, h)) THEN null_index
                         ELSE Ring(list, heads, h)[p + 1]),
           NEW r, r = insert(list, heads[h], nx, i),
           NEW hd2, hd2 = [heads EXCEPT ![h] = r.head]
    PROVE  NowHas(list, heads, r.list, hd2, h, Joined(Ring(list, heads, h), p, i))
<1> DEFINE s == Ring(list, heads, h)
<1>1. Rings(list, heads) /\ p \in 0..Len(s) /\ nx = (IF p = Len(s) THEN null_index ELSE s[p + 1])
      /\ s = Ring(list, heads, h)
  BY DEF ListsInv
<1> HIDE DEF s
<1>2. NowHas(list, heads, r.list, hd2, h, Joined(s, p, i))
  BY <1>1, InsertRings
<1> QED BY <1>2 DEF s

\* The step of remove(head, removed) on the sequences.
LEMMA RemoveStep ==
    ASSUME ListsInv, NEW h \in Heads, NEW i, i \in Members(h), Remove(h, i)
    PROVE  \E p \in 1..Len(Ring(list, heads, h)) :
              /\ Ring(list, heads, h)[p] = i
              /\ NowHas(list, heads, list', heads', h, Dropped(Ring(list, heads, h), p))
<1> DEFINE s == Ring(list, heads, h)  r == remove(list, heads[h], i)
<1>1. Rings(list, heads) /\ list' = r.list /\ heads' = [heads EXCEPT ![h] = r.head]
  BY DEF Remove, Become, ListsInv
<1>2. PICK p \in 1..Len(s) : s[p] = i
  BY DEF Members, Ring
<1>3. NowHas(list, heads, list', heads', h, Dropped(s, p))
  <2>1. s = Ring(list, heads, h) /\ r = remove(list, heads[h], s[p])
    BY <1>2
  <2> HIDE DEF s, r
  <2>2. NowHas(list, heads, r.list, heads', h, Dropped(s, p))
    BY <1>1, <1>2, <2>1, RemoveRings
  <2> QED BY <1>1, <2>2
<1> QED BY <1>2, <1>3

\* The step of pop(head) on the sequences.
LEMMA PopStep ==
    ASSUME ListsInv, NEW h \in Heads, Pop(h)
    PROVE  /\ Ring(list, heads, h) # <<>>
           /\ NowHas(list, heads, list', heads', h, Tail(Ring(list, heads, h)))
<1> DEFINE s == Ring(list, heads, h)  r == pop(list, heads[h])
<1>1. /\ Rings(list, heads) /\ list' = r.list /\ heads' = [heads EXCEPT ![h] = r.head]
      /\ heads[h] # null_index
  BY DEF Pop, Become, ListsInv
<1>2. s \in Seq(Indices(list)) /\ Len(s) \in Nat /\ s # <<>> /\ Len(s) # 0 /\ heads[h] = s[1]
  BY <1>1, RingFacts
<1>3. 1 \in 1..Len(s)
  BY <1>2
<1>4. r = remove(list, heads[h], s[1])
  BY <1>2 DEF remove
<1>5. NowHas(list, heads, list', heads', h, Dropped(s, 1))
  <2>1. s = Ring(list, heads, h)
    OBVIOUS
  <2> HIDE DEF s, r
  <2>2. NowHas(list, heads, r.list, heads', h, Dropped(s, 1))
    BY <1>1, <1>3, <1>4, <2>1, RemoveRings
  <2> QED BY <1>1, <2>2
<1>6. Dropped(s, 1) = Tail(s)
  BY <1>2, <1>3, DroppedIsConcat
<1> QED BY <1>2, <1>5, <1>6

\* The step of form_list(begin, end) on the sequences.
LEMMA FormListStep ==
    ASSUME ListsInv, NEW h \in Heads, NEW b \in Indices(list),
           NEW e \in Indices(list) \cup {list.size, null_index}, FormList(h, b, e)
    PROVE  /\ Ring(list, heads, h) = <<>> /\ b < e /\ e \in 0..list.size
           /\ \A i \in b..(e - 1) : i \in Indices(list) /\ Unlinked(list, i)
           /\ NowHas(list, heads, list', heads', h, [k \in 1..(e - b) |-> b + k - 1])
<1> DEFINE r == form_list(list, b, e)
<1>1. /\ Rings(list, heads) /\ list' = r /\ heads' = [heads EXCEPT ![h] = b]
      /\ heads[h] = null_index /\ \A i \in b..(e - 1) : Unlinked(list, i)
      /\ ~(e <= b) /\ ~(e > list.size)
  BY DEF FormList, FormListThrows, Become, WithHead, ListsInv
<1>2. list.size \in Nat /\ list.size <= null_index
  BY <1>1, NullIndexAssumption DEF Rings, IsList
<1>3. b \in Nat /\ e \in Nat /\ b < e /\ e <= list.size
  BY <1>1, <1>2, NullIndexAssumption DEF Indices
<1>4. \A i \in b..(e - 1) : i \in Indices(list) /\ Unlinked(list, i)
  BY <1>1, <1>2, <1>3 DEF Indices
<1>5. PICK t \in [1..(e - b) -> Nat] : /\ t = [k \in 1..(e - b) |-> b + k - 1]
                                      /\ \A k \in 1..(e - b) : t[k] = b + k - 1
  <2> DEFINE t == [k \in 1..(e - b) |-> b + k - 1]
  <2>1. t \in [1..(e - b) -> Nat] /\ \A k \in 1..(e - b) : t[k] = b + k - 1
    BY <1>3
  <2> QED BY <2>1
<1>6. NowHas(list, heads, r, heads', h, t)
  <2> HIDE DEF r
  <2>1. r = form_list(list, b, e)
    BY DEF r
  <2>2. \A k \in 1..(e - b) : t[k] = b + k - 1
    BY <1>5
  <2> QED BY <1>1, <1>3, <2>1, <2>2, FormListRings
<1>7. Ring(list, heads, h) = <<>>
  BY <1>1, RingFacts
<1> QED BY <1>1, <1>2, <1>3, <1>4, <1>5, <1>6, <1>7

----------------------------------------------------------------------------
(* The invariant                                                           *)

\* The calls insert(h, next, i) that change something, with the place of `next'.
LEMMA InsertCall ==
    ASSUME ListsInv, NEW h \in Heads, NEW i \in Indices(list), NEW nx, Insert(h, nx, i)
    PROVE  \E p \in 0..Len(Ring(list, heads, h)) :
              /\ nx = IF p = Len(Ring(list, heads, h)) THEN null_index ELSE Ring(list, heads, h)[p + 1]
              /\ NowHas(list, heads, list', heads', h, Joined(Ring(list, heads, h), p, i))
<1> DEFINE s == Ring(list, heads, h)  r == insert(list, heads[h], nx, i)
<1>1. /\ Rings(list, heads) /\ Unlinked(list, i) /\ nx \in Nodes(s) \cup {null_index}
      /\ list' = r.list /\ heads' = [heads EXCEPT ![h] = r.head]
  BY DEF Insert, Become, ListsInv, Members, Ring, Nodes
<1>2. PICK p \in 0..Len(s) : nx = IF p = Len(s) THEN null_index ELSE s[p + 1]
  <2>1. s = Ring(list, heads, h)
    OBVIOUS
  <2> HIDE DEF s
  <2> QED BY <1>1, <2>1, PlaceOf
<1>3. NowHas(list, heads, list', heads', h, Joined(s, p, i))
  <2>1. r = insert(list, heads[h], nx, i)
    OBVIOUS
  <2> HIDE DEF r
  <2>2. NowHas(list, heads, r.list, heads', h, Joined(s, p, i))
    BY <1>1, <1>2, <2>1, InsertStep
  <2> QED BY <1>1, <2>2
<1> QED BY <1>2, <1>3

\* Every legal call leaves disjoint rings and unlinked free nodes.
LEMMA ListsStep ==
    ASSUME ListsInv, ListsNext
    PROVE  ListsInv'
<1>1. ASSUME NEW n \in 0..MaxNodes, Resize(n) PROVE ListsInv'
  <2>1. Rings(list, heads) /\ (\A i \in Indices(list) : i >= n => Unlinked(list, i)) /\ list' = resize(list, n) /\ heads' = heads
    BY <1>1 DEF Resize, ListsInv
  <2>2. Rings(list', heads)
    BY <2>1, ResizeRings
  <2> QED BY <2>1, <2>2 DEF ListsInv
<1>2. ASSUME NEW h \in Heads, Pop(h) PROVE ListsInv'
  BY <1>2, PopStep DEF NowHas, ListsInv
<1>3. ASSUME NEW h \in Heads, NEW i \in Indices(list), Push(h, i) PROVE ListsInv'
  BY <1>3, PushStep DEF NowHas, ListsInv
<1>4. ASSUME NEW h \in Heads, NEW i \in Indices(list), Remove(h, i) PROVE ListsInv'
  <2>1. i \in Members(h)
    BY <1>4 DEF Remove
  <2> QED BY <1>4, <2>1, RemoveStep DEF NowHas, ListsInv
<1>5. ASSUME NEW h \in Heads, NEW i \in Indices(list),
             NEW j \in Indices(list) \cup {list.size, null_index}, Insert(h, j, i)
      PROVE  ListsInv'
  BY <1>5, InsertCall DEF NowHas, ListsInv
<1>6. ASSUME NEW h \in Heads, NEW i \in Indices(list),
             NEW j \in Indices(list) \cup {list.size, null_index}, FormList(h, i, j)
      PROVE  ListsInv'
  BY <1>6, FormListStep DEF NowHas, ListsInv
<1>7. ASSUME Clear PROVE ListsInv'
  <2>1. /\ list.size \in 0..MaxNodes /\ list' = NewList(list.size)
        /\ heads' = [h \in Heads |-> null_index]
    BY <1>7 DEF Clear, clear, ListsInv, Rings
  <2>2. Rings(list', heads')
    BY <2>1, NewListRings
  <2> QED BY <2>2 DEF ListsInv
<1> QED BY <1>1, <1>2, <1>3, <1>4, <1>5, <1>6, <1>7 DEF ListsNext

\* In every reachable state the lists are disjoint rings and all other nodes are
\* without links, for any number of heads and nodes.
THEOREM ListsInvariant == ListsSpec => []ListsInv
<1>1. ListsInit => ListsInv
  <2> SUFFICES ASSUME ListsInit PROVE ListsInv
    OBVIOUS
  <2>1. PICK n \in 0..MaxNodes : list = NewList(n)
    BY DEF ListsInit
  <2>2. heads = [h \in Heads |-> null_index]
    BY DEF ListsInit
  <2>3. Rings(list, heads)
    BY <2>1, <2>2, NewListRings
  <2> QED BY <2>3 DEF ListsInv
<1>2. ListsInv /\ [ListsNext]_lvars => ListsInv'
  <2>1. ListsInv /\ ListsNext => ListsInv'
    BY ListsStep
  <2>2. ListsInv /\ UNCHANGED lvars => ListsInv'
    BY DEF lvars, ListsInv
  <2> QED BY <2>1, <2>2
<1> QED BY <1>1, <1>2, PTL DEF ListsSpec

\* The links of a node are nodes or null, and so are the heads.
THEOREM ListsTypeCorrect == ListsSpec => []ListsTypeOK
<1>1. ListsInv => ListsTypeOK
  <2> SUFFICES ASSUME ListsInv PROVE ListsTypeOK
    OBVIOUS
  <2>1. Rings(list, heads) /\ IsList(list) /\ list.size \in 0..MaxNodes /\ heads \in [Heads -> 0..null_index]
    BY DEF ListsInv, Rings
  <2>2. ASSUME NEW i \in Indices(list)
        PROVE  /\ list.next[i] \in Indices(list) \cup {null_index}
               /\ list.prev[i] \in Indices(list) \cup {null_index}
    <3>1. CASE Unlinked(list, i)
      BY <3>1 DEF Unlinked
    <3>2. CASE ~Unlinked(list, i)
      <4>1. PICK h \in Heads : i \in Nodes(Ring(list, heads, h))
        BY <2>1, <3>2, UnlinkedInNone
      <4> QED BY <2>1, <4>1, LinkedInside
    <3> QED BY <3>1, <3>2
  <2>3. ASSUME NEW h \in Heads PROVE heads[h] \in Indices(list) \cup {null_index}
    <3>1. Arranged(list, heads[h], Ring(list, heads, h))
      BY <2>1 DEF Rings
    <3> QED BY <2>1, <3>1, ArrangedFacts
  <2>4. /\ list.next \in [Indices(list) -> 0..null_index]
        /\ list.prev \in [Indices(list) -> 0..null_index]
    BY <2>1 DEF IsList
  <2> QED BY <2>1, <2>2, <2>3, <2>4 DEF ListsTypeOK
<1> QED BY <1>1, ListsInvariant, PTL

\* Only a node of some list has links, and it has both.
THEOREM NodesUnlinkedIffInNoList == ListsSpec => []UnlinkedIffInNoList
<1>1. ListsInv => UnlinkedIffInNoList
  <2> SUFFICES ASSUME ListsInv, NEW i \in Indices(list)
               PROVE  /\ (list.next[i] = null_index) <=> (list.prev[i] = null_index)
                      /\ Unlinked(list, i) <=> \A h \in Heads : i \notin Members(h)
    BY DEF UnlinkedIffInNoList
  <2>1. \A h \in Heads : Members(h) = Nodes(Ring(list, heads, h))
    BY DEF Members, Nodes, Ring
  <2> QED BY <2>1, UnlinkedInNone DEF ListsInv
<1> QED BY <1>1, ListsInvariant, PTL

\* Every list reads backwards as the reverse of what it reads forwards.
THEOREM ListsReadBothWays == ListsSpec => []BackwardIsReverse
<1>1. ListsInv => BackwardIsReverse
  <2> SUFFICES ASSUME ListsInv, NEW h \in Heads
               PROVE  LET f == Forward(list, heads[h])  b == Backward(list, heads[h])
                      IN  Len(f) = Len(b) /\ \A k \in 1..Len(f) : b[k] = f[Len(f) + 1 - k]
    BY DEF BackwardIsReverse
  <2> DEFINE f == Forward(list, heads[h])
  <2>1. IsList(list) /\ Arranged(list, heads[h], f)
    BY DEF ListsInv, Rings, Ring
  <2>2. Len(f) \in Nat /\ f \in [1..Len(f) -> Indices(list)]
    BY <2>1, ArrangedFacts
  <2>3. Backward(list, heads[h]) = [k \in 1..Len(f) |-> f[Len(f) + 1 - k]]
    <3> HIDE DEF f
    <3> QED BY <2>1, BackwardIs
  <2>4. [k \in 1..Len(f) |-> f[Len(f) + 1 - k]] \in [1..Len(f) -> Indices(list)]
    <3> HIDE DEF f
    <3> QED BY <2>2
  <2>5. Len(Backward(list, heads[h])) = Len(f)
    <3> HIDE DEF f
    <3> QED BY <2>2, <2>3, <2>4, IsSeq
  <2> QED
    <3> HIDE DEF f
    <3>1. \A k \in 1..Len(f) : Backward(list, heads[h])[k] = f[Len(f) + 1 - k]
      BY <2>3
    <3> QED BY <2>5, <3>1 DEF f
<1> QED BY <1>1, ListsInvariant, PTL

\* insert() puts the node exactly where `next' says.
THEOREM InsertsAreExact == ListsSpec => []InsertIsExact
<1>1. ListsInv => InsertIsExact
  <2> SUFFICES ASSUME ListsInv, NEW h \in Heads, NEW i \in Indices(list),
                      NEW next \in Members(h) \cup {null_index}, Unlinked(list, i)
               PROVE  LET r == insert(list, heads[h], next, i)
                          f == Forward(list, heads[h])
                          p == CHOOSE p \in 0..Len(f) :
                                  IF p = Len(f) THEN next = null_index ELSE f[p + 1] = next
                      IN  Forward(r.list, r.head) =
                              SubSeq(f, 1, p) \o <<i>> \o SubSeq(f, p + 1, Len(f))
    BY DEF InsertIsExact
  <2> DEFINE r == insert(list, heads[h], next, i)
             f == Forward(list, heads[h])
             At(p) == IF p = Len(f) THEN next = null_index ELSE f[p + 1] = next
             p == CHOOSE q \in 0..Len(f) : At(q)
  <2>1. /\ Rings(list, heads) /\ f = Ring(list, heads, h) /\ next \in Nodes(f) \cup {null_index}
        /\ IsList(list) /\ Arranged(list, heads[h], f) /\ f \in Seq(Indices(list))
        /\ i \notin Nodes(f)
    <3>1. f = Ring(list, heads, h) /\ Rings(list, heads) /\ next \in Nodes(f) \cup {null_index}
      BY DEF ListsInv, Ring, Members, Nodes
    <3> HIDE DEF f
    <3> QED BY <3>1, RingFacts
  <2> HIDE DEF f
  <2>2. \E q \in 0..Len(f) : At(q)
    <3>1. PICK q \in 0..Len(f) : next = IF q = Len(f) THEN null_index ELSE f[q + 1]
      BY <2>1, PlaceOf
    <3> QED BY <3>1
  <2>3. p \in 0..Len(f) /\ At(p)
    BY <2>2
  <2> HIDE DEF p
  <2>4. next = IF p = Len(f) THEN null_index ELSE f[p + 1]
    BY <2>3
  <2>5. Arranged(r.list, r.head, Joined(f, p, i)) /\ IsList(r.list)
    <3>1. r = insert(list, heads[h], next, i) /\ i \in Indices(list) \ Nodes(f)
      BY <2>1
    <3> HIDE DEF r
    <3>2. Arranged(r.list, r.head, Joined(f, p, i)) /\ Touches(r.list, list, Nodes(f) \cup {i})
      BY <2>1, <2>3, <2>4, <3>1, InsertArranges
    <3> QED BY <3>2 DEF Touches
  <2>6. Forward(r.list, r.head) = Joined(f, p, i)
    BY <2>5, ForwardIs
  <2>7. Joined(f, p, i) = SubSeq(f, 1, p) \o <<i>> \o SubSeq(f, p + 1, Len(f))
    <3>1. f \in Seq(Indices(list)) /\ p \in 0..Len(f) /\ i \in Indices(list)
      BY <2>1, <2>3
    <3> QED BY <3>1, JoinedIsConcat
  <2> QED BY <2>6, <2>7 DEF f, p
<1> QED BY <1>1, ListsInvariant, PTL

----------------------------------------------------------------------------
(* Sequences                                                               *)

\* What the abstract operators are here.
LEMMA AbstractOperators ==
    ASSUME ListsInv
    PROVE  /\ \A h \in Heads : Seqs!Members(h) = Nodes(Ring(list, heads, h))
           /\ \A i \in Indices(list) : Unlinked(list, i) => i \in Seqs!Free
           /\ \A h \in Heads : \A p \in 1..Len(Ring(list, heads, h)) :
                 Seqs!Position(h, Ring(list, heads, h)[p]) = p
<1>1. ASSUME NEW h \in Heads PROVE Seqs!Members(h) = Nodes(Ring(list, heads, h))
  BY DEF Seqs!Members, Nodes, Ring
<1>2. \A i \in Indices(list) : Unlinked(list, i) => i \in Seqs!Free
  BY <1>1, UnlinkedInNone DEF Seqs!Free, Indices, ListsInv
<1>3. ASSUME NEW h \in Heads, NEW p \in 1..Len(Ring(list, heads, h))
      PROVE  Seqs!Position(h, Ring(list, heads, h)[p]) = p
  <2> DEFINE s == Ring(list, heads, h)
  <2>1. \A j, k \in 1..Len(s) : s[j] = s[k] => j = k
    BY RingFacts DEF ListsInv
  <2>2. Seqs!Position(h, s[p]) = CHOOSE k \in 1..Len(s) : s[k] = s[p]
    BY DEF Seqs!Position, Ring
  <2> HIDE DEF s
  <2>3. \A k \in 1..Len(s) : s[k] = s[p] <=> k = p
    BY <2>1 DEF s
  <2>4. (CHOOSE k \in 1..Len(s) : s[k] = s[p]) = p
    BY <2>3 DEF s
  <2> QED BY <2>2, <2>4 DEF s
<1> QED BY <1>1, <1>2, <1>3

\* The sequence of one head changes.
LEMMA OneSequenceChanges ==
    ASSUME NEW h \in Heads, NEW t, NowHas(list, heads, list', heads', h, t)
    PROVE  /\ [g \in Heads |-> Forward(list, heads[g])]'
              = [[g \in Heads |-> Forward(list, heads[g])] EXCEPT ![h] = t]
           /\ list'.size = list.size
<1>1. \A g \in Heads : Forward(list', heads'[g]) = IF g = h THEN t ELSE Forward(list, heads[g])
  BY DEF NowHas, Ring
<1>2. [g \in Heads |-> Forward(list', heads'[g])]
      = [[g \in Heads |-> Forward(list, heads[g])] EXCEPT ![h] = t]
  BY <1>1
<1> QED BY <1>2 DEF NowHas

\* Every call is a step of the sequences, or changes none.
LEMMA SequencesStep ==
    ASSUME ListsInv, ListsInv', ListsNext
    PROVE  Seqs!SNext
<1> DEFINE sq == [g \in Heads |-> Forward(list, heads[g])]
<1>0. /\ list.size \in Nat /\ \A g \in Heads : sq[g] = Ring(list, heads, g)
      /\ \A g \in Heads : Ring(list, heads, g) \in Seq(Indices(list))
      /\ \A i \in Indices(list) : i \in 0..(list.size - 1)
      /\ null_index \notin Indices(list) /\ Indices(list) \subseteq 0..list.size
  <2>1. Rings(list, heads)
    BY DEF ListsInv
  <2>2. list.size \in Nat /\ list.size <= null_index
    BY <2>1, NullIndexAssumption DEF Rings, IsList
  <2>3. \A g \in Heads : Ring(list, heads, g) \in Seq(Indices(list))
    BY <2>1, RingFacts
  <2> QED BY <2>2, <2>3 DEF Indices, Ring
<1>1. ASSUME NEW n \in 0..MaxNodes, Resize(n) PROVE Seqs!SNext
  <2>1. Rings(list, heads) /\ (\A i \in Indices(list) : i >= n => Unlinked(list, i)) /\ list' = resize(list, n) /\ heads' = heads
    BY <1>1 DEF Resize, ListsInv
  <2>2. /\ list'.size = n /\ n \in Nat
        /\ \A g \in Heads : /\ Ring(list', heads, g) = Ring(list, heads, g)
                            /\ Nodes(Ring(list', heads, g)) \subseteq Indices(list')
    BY <2>1, ResizeRings
  <2>3. [g \in Heads |-> Forward(list', heads'[g])] = [g \in Heads |-> Forward(list, heads[g])]
    BY <2>1, <2>2 DEF Ring
  <2>4. list'.size \in Nat /\ Indices(list') = 0..(list'.size - 1)
    BY <2>2 DEF Indices
  <2>5. \A g \in Heads : Seqs!Members(g) = Nodes(Ring(list, heads, g))
    BY <1>0 DEF Seqs!Members, Nodes
  <2>6. \A g \in Heads : Seqs!Members(g) \subseteq 0..(list'.size - 1)
    BY <2>2, <2>4, <2>5
  <2> QED BY <2>3, <2>4, <2>6 DEF Seqs!SNext, Seqs!SResize
<1>2. ASSUME NEW h \in Heads, Pop(h) PROVE Seqs!SNext
  <2>1. /\ Ring(list, heads, h) # <<>>
        /\ NowHas(list, heads, list', heads', h, Tail(Ring(list, heads, h)))
    BY <1>2, PopStep
  <2>2. Seqs!SPop(h) /\ list'.size = list.size
    BY <1>0, <2>1, OneSequenceChanges DEF Seqs!SPop
  <2> QED BY <2>2 DEF Seqs!SNext
<1>3. ASSUME NEW h \in Heads, NEW i \in Indices(list), Push(h, i) PROVE Seqs!SNext
  <2>1. NowHas(list, heads, list', heads', h, <<i>> \o Ring(list, heads, h))
    BY <1>3, PushStep
  <2>2. i \in Seqs!Free
    BY <1>3, AbstractOperators DEF Push
  <2>3. Seqs!SPush(h, i) /\ list'.size = list.size
    BY <1>0, <2>1, <2>2, OneSequenceChanges DEF Seqs!SPush
  <2> QED BY <1>0, <2>3 DEF Seqs!SNext
<1>4. ASSUME NEW h \in Heads, NEW i \in Indices(list), Remove(h, i) PROVE Seqs!SNext
  <2>1. i \in Members(h) /\ Members(h) = Nodes(Ring(list, heads, h))
    BY <1>4 DEF Remove, Members, Nodes, Ring
  <2>2. PICK p \in 1..Len(Ring(list, heads, h)) :
           /\ Ring(list, heads, h)[p] = i
           /\ NowHas(list, heads, list', heads', h, Dropped(Ring(list, heads, h), p))
    BY <1>4, <2>1, RemoveStep
  <2>3. Seqs!Position(h, i) = p /\ i \in Seqs!Members(h)
    BY <2>1, <2>2, AbstractOperators
  <2>4. Dropped(Ring(list, heads, h), p) = Seqs!RemoveAt(Ring(list, heads, h), p)
    BY <1>0, <2>2, DroppedIsConcat DEF Seqs!RemoveAt
  <2>5. Seqs!SRemove(h, i) /\ list'.size = list.size
    BY <1>0, <2>2, <2>3, <2>4, OneSequenceChanges DEF Seqs!SRemove
  <2> QED BY <1>0, <2>5 DEF Seqs!SNext
<1>5. ASSUME NEW h \in Heads, NEW i \in Indices(list),
             NEW j \in Indices(list) \cup {list.size, null_index}, Insert(h, j, i)
      PROVE  Seqs!SNext
  <2> DEFINE s == Ring(list, heads, h)
  <2>1. PICK p \in 0..Len(s) : /\ j = IF p = Len(s) THEN null_index ELSE s[p + 1]
                              /\ NowHas(list, heads, list', heads', h, Joined(s, p, i))
    BY <1>5, InsertCall
  <2>2. i \in Seqs!Free
    BY <1>5, AbstractOperators DEF Insert
  <2>3. s \in Seq(Indices(list)) /\ Len(s) \in Nat
    BY <1>0, LenProperties
  <2>4. CASE p = Len(s)
    <3>1. Joined(s, p, i) = Append(s, i)
      BY <2>3, <2>4, JoinedAtEnds
    <3>2. Seqs!SInsertLast(h, i) /\ list'.size = list.size
      BY <1>0, <2>1, <2>2, <3>1, OneSequenceChanges DEF Seqs!SInsertLast
    <3> QED BY <1>0, <3>2 DEF Seqs!SNext
  <2>5. CASE p # Len(s)
    <3>1. p + 1 \in 1..Len(s) /\ j = s[p + 1] /\ (p + 1) - 1 = p
      BY <2>1, <2>3, <2>5
    <3>2. j \in Nodes(s) /\ j \in 0..list.size
      BY <1>0, <2>3, <3>1, ElementOfSeq DEF Nodes
    <3>3. Seqs!Position(h, j) = p + 1 /\ j \in Seqs!Members(h)
      BY <3>1, <3>2, AbstractOperators
    <3>4. Joined(s, p, i) = Seqs!InsertAt(s, p + 1, i)
      <4>1. Joined(s, p, i) = SubSeq(s, 1, p) \o <<i>> \o SubSeq(s, p + 1, Len(s))
        BY <2>3, JoinedIsConcat
      <4> QED BY <3>1, <4>1 DEF Seqs!InsertAt
    <3>5. Seqs!SInsert(h, j, i) /\ list'.size = list.size
      BY <1>0, <2>1, <2>2, <3>3, <3>4, OneSequenceChanges DEF Seqs!SInsert
    <3> QED BY <1>0, <3>2, <3>5 DEF Seqs!SNext
  <2> QED BY <2>4, <2>5
<1>6. ASSUME NEW h \in Heads, NEW i \in Indices(list),
             NEW j \in Indices(list) \cup {list.size, null_index}, FormList(h, i, j)
      PROVE  Seqs!SNext
  <2>1. /\ Ring(list, heads, h) = <<>> /\ i < j /\ j \in 0..list.size
        /\ \A k \in i..(j - 1) : k \in Indices(list) /\ Unlinked(list, k)
        /\ NowHas(list, heads, list', heads', h, [k \in 1..(j - i) |-> i + k - 1])
    BY <1>6, FormListStep
  <2>2. i..(j - 1) \subseteq Seqs!Free
    BY <2>1, AbstractOperators
  <2>3. Seqs!SFormList(h, i, j) /\ list'.size = list.size
    BY <1>0, <2>1, <2>2, OneSequenceChanges DEF Seqs!SFormList
  <2> QED BY <1>0, <2>1, <2>3 DEF Seqs!SNext
<1>7. ASSUME Clear PROVE Seqs!SNext
  <2>1. /\ list.size \in 0..MaxNodes /\ list' = NewList(list.size)
        /\ heads' = [h \in Heads |-> null_index]
    BY <1>7 DEF Clear, clear, ListsInv, Rings
  <2>2. list'.size = list.size /\ \A g \in Heads : Ring(list', heads', g) = <<>>
    BY <2>1, NewListRings
  <2>3. [g \in Heads |-> Forward(list', heads'[g])] = [g \in Heads |-> <<>>]
    BY <2>2 DEF Ring
  <2>4. Seqs!SClear
    BY <2>3 DEF Seqs!SClear
  <2> QED BY <2>2, <2>4 DEF Seqs!SNext
<1> QED BY <1>1, <1>2, <1>3, <1>4, <1>5, <1>6, <1>7 DEF ListsNext

\* The links and the heads implement the sequences: every call changes the one
\* sequence it is given, as the sequence operation of its name does.
THEOREM ListsImplementSequences == ListsSpec => ImplementsSequences
<1>1. ListsInit => Seqs!SInit
  <2> SUFFICES ASSUME ListsInit PROVE Seqs!SInit
    OBVIOUS
  <2>1. PICK n \in 0..MaxNodes : list = NewList(n)
    BY DEF ListsInit
  <2>2. heads = [h \in Heads |-> null_index]
    BY DEF ListsInit
  <2>3. list.size = n /\ \A g \in Heads : Ring(list, heads, g) = <<>>
    BY <2>1, <2>2, NewListRings
  <2>4. n \in Nat
    OBVIOUS
  <2> QED BY <2>3, <2>4 DEF Seqs!SInit, Ring
<1>2. ListsInv /\ ListsInv' /\ [ListsNext]_lvars => [Seqs!SNext]_(Seqs!svars)
  <2>1. ListsInv /\ ListsInv' /\ ListsNext => Seqs!SNext
    BY SequencesStep
  <2>2. UNCHANGED lvars => UNCHANGED Seqs!svars
    BY DEF lvars, Seqs!svars
  <2> QED BY <2>1, <2>2
<1> QED BY <1>1, <1>2, ListsInvariant, PTL DEF ListsSpec, ImplementsSequences, Seqs!SSpec
=============================================================================

-------------------------- MODULE ValueRepoProofs --------------------------
(***************************************************************************)
(* lzhlib::value_repo for any width of std::size_t and any values: the     *)
(* used and the free slots are two rings that share no slot, a call moves  *)
(* one slot from the one to the front of the other, and so the repository  *)
(* is an object pool that clients can walk while it changes.               *)
(***************************************************************************)
EXTENDS ValueRepoIteration, IndexedListProofs

UsedOrder == Forward(list, used_head)
UnusedOrder == Forward(list, unused_head)

\* l is a list of two rings, with the nodes that u marks and with all others.
Split(l, v, u, uh, fh, s, f) ==
    /\ IsList(l)
    /\ v \in [Indices(l) -> Values \cup {NoValue}]
    /\ u \in [Indices(l) -> BOOLEAN]
    /\ Arranged(l, uh, s) /\ Nodes(s) = {i \in Indices(l) : u[i]}
    /\ Arranged(l, fh, f) /\ Nodes(f) = {i \in Indices(l) : ~u[i]}

\* The inductive invariant.
OrderInv == Split(list, value, used, used_head, unused_head, UsedOrder, UnusedOrder)

\* i is before j in s.
Precedes(s, i, j) == \E a, b \in 1..Len(s) : a < b /\ s[a] = i /\ s[b] = j

LEMMA NullIndex == null_index \in Nat \ {0}
BY RepoAssumption DEF SIZE_MAX

\* The guard of grow() keeps the new size from wrapping (value_repo.hpp:377-382).
LEMMA GrowFits ==
    ASSUME RepoTypeOK, ~GrowTooLarge
    PROVE  GrownSize \in Nat /\ list.size < GrownSize /\ GrownSize <= SIZE_MAX
<1> DEFINE s == list.size  q == (SIZE_MAX - 1) \div 3  h == s \div 2
<1>1. s \in Nat /\ SIZE_MAX \in Nat /\ SIZE_MAX > 0
  BY NullIndex DEF RepoTypeOK, SIZE_MAX
<1>2. q \in Nat /\ 3 * q <= SIZE_MAX - 1 /\ h \in Nat /\ 2 * h <= s
  BY <1>1
<1>3. s <= q * 2
  BY <1>1, <1>2 DEF GrowTooLarge
<1>4. s + h + 1 <= SIZE_MAX
  BY <1>1, <1>2, <1>3
<1>5. GrownSize = (s + h + 1) % (SIZE_MAX + 1)
  BY DEF GrownSize
<1> HIDE DEF s, q, h
<1>6. (s + h + 1) % (SIZE_MAX + 1) = s + h + 1
  BY <1>1, <1>2, <1>4
<1> QED BY <1>1, <1>2, <1>4, <1>5, <1>6 DEF s

----------------------------------------------------------------------------
(* The two rings                                                           *)

\* The sequences of the two rings are those that walks find.
LEMMA SplitWalks ==
    ASSUME NEW l, NEW v, NEW u, NEW uh, NEW fh, NEW s, NEW f, Split(l, v, u, uh, fh, s, f)
    PROVE  Forward(l, uh) = s /\ Forward(l, fh) = f
BY ForwardIs DEF Split

LEMMA OrderInvNext ==
    ASSUME NEW s, NEW f, Split(list', value', used', used_head', unused_head', s, f)
    PROVE  OrderInv' /\ UsedOrder' = s
<1>1. Forward(list', used_head') = s /\ Forward(list', unused_head') = f
  BY SplitWalks
<1> QED BY <1>1 DEF OrderInv, UsedOrder, UnusedOrder

\* The invariant at hand.
LEMMA OrderFacts ==
    ASSUME OrderInv
    PROVE  /\ IsList(list) /\ list.size \in Nat /\ Ids = Indices(list)
           /\ value \in [Ids -> Values \cup {NoValue}] /\ used \in [Ids -> BOOLEAN]
           /\ Arranged(list, used_head, UsedOrder) /\ Nodes(UsedOrder) = UsedIds
           /\ Arranged(list, unused_head, UnusedOrder) /\ Nodes(UnusedOrder) = Ids \ UsedIds
           /\ UsedIds \subseteq Ids /\ Ids \subseteq Nat /\ null_index \notin Ids
           /\ \A i \in Ids : i < list.size
           /\ RepoTypeOK
<1>1. /\ IsList(list) /\ list.size \in Nat /\ Ids = Indices(list)
      /\ value \in [Ids -> Values \cup {NoValue}] /\ used \in [Ids -> BOOLEAN]
      /\ Arranged(list, used_head, UsedOrder) /\ Nodes(UsedOrder) = UsedIds
      /\ Arranged(list, unused_head, UnusedOrder)
      /\ Nodes(UnusedOrder) = {i \in Ids : ~used[i]}
  BY NullIndex DEF OrderInv, Split, Ids, UsedIds, IsList
<1>2. UsedIds \subseteq Ids /\ Nodes(UnusedOrder) = Ids \ UsedIds
  BY <1>1 DEF UsedIds
<1>3. Ids \subseteq Nat /\ null_index \notin Ids /\ \A i \in Ids : i < list.size
  BY <1>1, NullIndex DEF IsList, Indices
<1>4. used_head \in Ids \cup {null_index} /\ unused_head \in Ids \cup {null_index}
  <2>1. used_head \in Ids \cup {null_index}
    BY <1>1, ArrangedFacts
  <2>2. unused_head \in Ids \cup {null_index}
    BY <1>1, ArrangedFacts
  <2> QED BY <2>1, <2>2
<1>5. RepoTypeOK
  BY <1>1, <1>4 DEF RepoTypeOK, IsList, Ids, SIZE_MAX
<1> QED BY <1>1, <1>2, <1>3, <1>5

\* The constructors (value_repo.hpp:85-91).
LEMMA OrderInit == Init => OrderInv /\ UsedOrder = <<>> /\ UsedIds = {}
<1> SUFFICES ASSUME Init PROVE OrderInv /\ UsedOrder = <<>> /\ UsedIds = {}
  OBVIOUS
<1>0. /\ value \in [Ids -> Values \cup {NoValue}] /\ used = [i \in Ids |-> FALSE]
      /\ used_head = null_index
  BY DEF Init
<1>1. Nodes(<<>>) = {}
  <2>1. Len(<<>>) = 0
    OBVIOUS
  <2> QED BY <2>1 DEF Nodes
<1>2. UsedIds = {}
  BY <1>0 DEF UsedIds
<1>3. Arranged(list, used_head, <<>>)
  BY <1>0, EmptyArranged
<1>4. ASSUME NEW f, IsList(list), Arranged(list, unused_head, f), Nodes(f) = Ids
      PROVE  OrderInv /\ UsedOrder = <<>>
  <2>1. /\ Nodes(<<>>) = {i \in Indices(list) : used[i]}
        /\ Nodes(f) = {i \in Indices(list) : ~used[i]}
    BY <1>0, <1>1, <1>4 DEF Ids
  <2>2. Split(list, value, used, used_head, unused_head, <<>>, f)
    BY <1>0, <1>3, <1>4, <2>1 DEF Split, Ids
  <2>3. Forward(list, used_head) = <<>> /\ Forward(list, unused_head) = f
    BY <2>2, SplitWalks
  <2> QED BY <2>2, <2>3 DEF OrderInv, UsedOrder, UnusedOrder
<1>5. CASE list = NewList(0) /\ unused_head = null_index
  <2>1. 0 \in 0..null_index
    BY NullIndex
  <2>2. IsList(list) /\ list.size = 0
    BY <1>5, <2>1, NewListLinks
  <2>3. Ids = {}
    BY <2>2 DEF Ids, Indices
  <2> QED BY <1>1, <1>2, <1>4, <1>5, <2>2, <2>3, EmptyArranged
<1>6. ASSUME NEW n \in InitSizes \ {0}, list = form_list(NewList(n), 0, n), unused_head = 0
      PROVE  OrderInv /\ UsedOrder = <<>>
  <2>1. n \in Nat /\ 0 < n /\ n \in 0..null_index
    BY RepoAssumption, NullIndex DEF SIZE_MAX
  <2>2. IsList(NewList(n)) /\ NewList(n).size = n
    BY <2>1, NewListLinks
  <2> DEFINE t == [k \in 1..(n - 0) |-> 0 + k - 1]
  <2>3. t \in [1..(n - 0) -> Nat] /\ \A k \in 1..(n - 0) : t[k] = 0 + k - 1
    BY <2>1
  <2> HIDE DEF t
  <2>4. Arranged(list, 0, t) /\ Touches(list, NewList(n), 0..(n - 1)) /\ Nodes(t) = 0..(n - 1)
    BY SMTT(30), <1>6, <2>1, <2>2, <2>3, FormListArranges
  <2>5. IsList(list) /\ Ids = 0..(n - 1)
    BY <2>2, <2>4 DEF Touches, Ids, Indices
  <2> QED BY <1>4, <1>6, <2>4, <2>5
<1> QED BY <1>2, <1>5, <1>6 DEF Init

----------------------------------------------------------------------------
(* Calls                                                                   *)

\* The flags with those of the new slots.
KeptFlags == [i \in Indices(Stock.list) |-> IF i < list.size THEN used[i] ELSE FALSE]

\* Before pop() in reuse_object() the ring at its head holds every slot that is not in
\* use, and growing has not touched the ring of the others (value_repo.hpp:269-271, 375-385).
LEMMA StockReady ==
    ASSUME OrderInv, ~ReuseThrows
    PROVE  /\ IsList(Stock.list) /\ list.size <= Stock.list.size /\ Ids \subseteq Indices(Stock.list)
           /\ Arranged(Stock.list, used_head, UsedOrder)
           /\ TakenId \in Indices(Stock.list) \ UsedIds
           /\ \E f : Arranged(Stock.list, TakenId, f) /\ Nodes(f) = Indices(Stock.list) \ UsedIds
<1>0. /\ IsList(list) /\ list.size \in Nat /\ Ids = Indices(list) /\ RepoTypeOK
      /\ Arranged(list, used_head, UsedOrder) /\ Nodes(UsedOrder) = UsedIds
      /\ Arranged(list, unused_head, UnusedOrder) /\ Nodes(UnusedOrder) = Ids \ UsedIds
      /\ UsedIds \subseteq Ids /\ \A i \in Ids : i < list.size
  BY OrderFacts
<1>1. CASE unused_head # null_index
  <2>1. Stock.list = list /\ TakenId = unused_head
    BY <1>1 DEF Stock, TakenId, WithHead
  <2>2. unused_head \in Nodes(UnusedOrder)
    <3>1. /\ UnusedOrder # <<>> /\ Len(UnusedOrder) \in Nat /\ Len(UnusedOrder) # 0
          /\ unused_head = UnusedOrder[1]
      BY <1>0, <1>1, ArrangedFacts
    <3>2. 1 \in 1..Len(UnusedOrder)
      BY <3>1
    <3> QED BY <3>1, <3>2 DEF Nodes
  <2> QED BY <1>0, <2>1, <2>2
<1>2. CASE unused_head = null_index
  <2> DEFINE s == list.size  n == GrownSize  g == resize(list, n)  r == Stock.list
  <2>1. n \in Nat /\ s < n /\ n <= null_index /\ s \in Nat /\ n \in 0..null_index
    BY <1>0, <1>2, NullIndex, GrowFits DEF ReuseThrows, SIZE_MAX
  <2>2. r = form_list(g, s, n) /\ TakenId = s
    BY <1>2 DEF Stock, TakenId, WithHead, Grown
  <2>3. Ids \subseteq UsedIds
    <3>1. UnusedOrder = <<>> /\ Len(<<>>) = 0
      BY <1>0, <1>2, ArrangedFacts
    <3>2. Nodes(UnusedOrder) = {}
      BY <3>1 DEF Nodes
    <3> QED BY <1>0, <3>2
  <2>4. s = list.size /\ g = resize(list, n)
    OBVIOUS
  <2> HIDE DEF g, n, r, s
  <2>5. /\ IsList(g) /\ g.size = n /\ Indices(list) \subseteq Indices(g)
        /\ \A i \in Indices(list) : g.next[i] = list.next[i] /\ g.prev[i] = list.prev[i]
    <3>1. list.size <= n
      BY <2>1, <2>4
    <3> QED BY <1>0, <2>1, <2>4, <3>1, ResizeLinks
  <2>6. Arranged(g, used_head, UsedOrder)
    <3>1. \A i \in Nodes(UsedOrder) : g.next[i] = list.next[i] /\ g.prev[i] = list.prev[i]
      BY <1>0, <2>5
    <3>2. Nodes(UsedOrder) \subseteq Indices(g)
      BY <1>0, <2>5
    <3> QED BY <1>0, <2>5, <3>1, <3>2, ArrangedKept
  <2> DEFINE t == [k \in 1..(n - s) |-> s + k - 1]
  <2>7. t \in [1..(n - s) -> Nat] /\ \A k \in 1..(n - s) : t[k] = s + k - 1
    BY <2>1
  <2> HIDE DEF t
  <2>8. Arranged(r, s, t) /\ Touches(r, g, s..(n - 1)) /\ Nodes(t) = s..(n - 1)
    <3>1. n <= g.size
      BY <2>1, <2>5
    <3>2. IsList(g) /\ s \in Nat /\ n \in Nat /\ s < n /\ r = form_list(g, s, n)
      BY <2>1, <2>2, <2>5
    <3>3. Arranged(r, s, t)
      BY <2>7, <3>1, <3>2, FormListArranges
    <3>4. Touches(r, g, s..(n - 1))
      BY <2>7, <3>1, <3>2, FormListArranges
    <3>5. Nodes(t) = s..(n - 1)
      BY SMTT(30), <2>7, <3>1, <3>2, FormListArranges
    <3> QED BY <3>3, <3>4, <3>5
  <2>9. Ids = 0..(s - 1) /\ UsedIds = Ids
    BY <1>0, <2>3, <2>4 DEF Indices
  <2>10. IsList(r) /\ r.size = n /\ Indices(r) = 0..(n - 1)
    BY <2>5, <2>8 DEF Touches, Indices
  <2>11. Nodes(UsedOrder) \cap (s..(n - 1)) = {}
    BY <1>0, <2>1, <2>9
  <2>12. Arranged(r, used_head, UsedOrder)
    BY <2>5, <2>6, <2>8, <2>11, KeptElsewhere
  <2>13. Nodes(t) = Indices(r) \ UsedIds /\ s \in Indices(r) \ UsedIds /\ Ids \subseteq Indices(r)
    BY <2>1, <2>8, <2>9, <2>10
  <2>14. list.size <= r.size
    BY <2>1, <2>4, <2>10
  <2> QED BY <2>2, <2>8, <2>10, <2>12, <2>13, <2>14 DEF r
<1> QED BY <1>1, <1>2

\* reuse_object(), and assign_object() after it: one more id in use, the newest
\* (value_repo.hpp:260-275).
LEMMA TakeStep ==
    ASSUME OrderInv, NEW v \in Values \cup {NoValue}, Take(v)
    PROVE  /\ OrderInv' /\ UsedOrder' = <<TakenId>> \o UsedOrder
           /\ TakenId \notin UsedIds /\ UsedIds' = UsedIds \cup {TakenId}
           /\ TakenId \in 0..(SIZE_MAX - 1) /\ Ids \subseteq Ids'
           /\ value'[TakenId] = v /\ \A i \in UsedIds : value'[i] = value[i]
<1> DEFINE S == Stock.list  x == TakenId  D == Indices(S)
           popped == pop(S, x)  pushed == push(popped.list, used_head, x)
<1>0. /\ list' = pushed.list /\ unused_head' = popped.head /\ used_head' = pushed.head
      /\ used' = [KeptFlags EXCEPT ![x] = TRUE]
      /\ value' = [[i \in D |-> IF i < list.size THEN value[i] ELSE NoValue] EXCEPT ![x] = v]
      /\ ~ReuseThrows
  BY DEF Take, TakenId, KeptFlags
<1>1. /\ IsList(S) /\ Ids \subseteq D /\ Arranged(S, used_head, UsedOrder) /\ x \in D \ UsedIds
      /\ \E f : Arranged(S, x, f) /\ Nodes(f) = D \ UsedIds
  BY <1>0, StockReady
<1>2. PICK f : Arranged(S, x, f) /\ Nodes(f) = D \ UsedIds
  BY <1>1
<1>3. /\ list.size \in Nat /\ Ids = 0..(list.size - 1) /\ Nodes(UsedOrder) = UsedIds /\ UsedIds \subseteq Ids
      /\ value \in [Ids -> Values \cup {NoValue}] /\ used \in [Ids -> BOOLEAN]
      /\ \A i \in Ids : i < list.size
  BY OrderFacts DEF Indices
<1>4. popped = remove(S, x, x) /\ pushed = push(popped.list, used_head, x)
  BY DEF remove
<1>5. D = Indices(S) /\ KeptFlags = [i \in D |-> IF i < list.size THEN used[i] ELSE FALSE]
  BY DEF KeptFlags
<1> HIDE DEF S, x, popped, pushed, D
<1>6. f # <<>> /\ x = f[1] /\ 1 \in 1..Len(f)
  <2>1. Len(f) \in Nat /\ (f = <<>> <=> Len(f) = 0) /\ (f # <<>> => x = f[1])
    BY <1>1, <1>2, ArrangedFacts
  <2>2. f # <<>>
    <3>1. Nodes(<<>>) = {}
      BY DEF Nodes
    <3> QED BY <1>1, <1>2, <3>1
  <2> QED BY <2>1, <2>2
<1> DEFINE s2 == <<x>> \o UsedOrder  f2 == Dropped(f, 1)
<1>7. /\ IsList(pushed.list) /\ pushed.list.size = S.size
      /\ Arranged(pushed.list, popped.head, f2) /\ Nodes(f2) = Nodes(f) \ {x}
      /\ Arranged(pushed.list, pushed.head, s2) /\ Nodes(s2) = Nodes(UsedOrder) \cup {x}
  <2>1. Nodes(f) \cap Nodes(UsedOrder) = {}
    BY <1>2, <1>3
  <2> QED BY <1>1, <1>2, <1>4, <1>6, <2>1, NodeMoves
<1> HIDE DEF s2, f2
<1>8. Indices(list') = D /\ Ids' = D
  BY <1>0, <1>5, <1>7 DEF Indices, Ids
<1>9. \A i \in D : i < list.size => i \in Ids
  <2>1. D \subseteq Nat
    BY <1>1, <1>5, NullIndex DEF IsList, Indices
  <2> QED BY <1>3, <2>1
<1>10. used' \in [D -> BOOLEAN] /\ \A i \in D : used'[i] <=> i \in UsedIds \cup {x}
  <2>1. \A i \in D : KeptFlags[i] \in BOOLEAN /\ (KeptFlags[i] <=> i \in UsedIds)
    BY <1>3, <1>5, <1>9 DEF UsedIds
  <2>2. used' \in [D -> BOOLEAN]
    BY <1>0, <1>5, <2>1
  <2>3. ASSUME NEW i \in D PROVE used'[i] <=> i \in UsedIds \cup {x}
    <3>1. used'[i] = IF i = x THEN TRUE ELSE KeptFlags[i]
      BY <1>0, <1>5
    <3> QED BY <2>1, <3>1
  <2> QED BY <2>2, <2>3
<1>11. value' \in [D -> Values \cup {NoValue}]
  BY <1>0, <1>3, <1>9
<1>12. value'[x] = v /\ \A i \in UsedIds : value'[i] = value[i]
  <2>1. value'[x] = v
    BY <1>0, <1>1
  <2>2. ASSUME NEW i \in UsedIds PROVE value'[i] = value[i]
    <3>1. i \in D /\ i # x /\ i < list.size
      BY <1>1, <1>3
    <3> QED BY <1>0, <3>1
  <2> QED BY <2>1, <2>2
<1>13. UsedIds' = UsedIds \cup {x} /\ Nodes(s2) = UsedIds'
  <2>1. UsedIds' = {i \in D : used'[i]}
    BY <1>8 DEF UsedIds
  <2>2. UsedIds \cup {x} \subseteq D
    BY <1>1, <1>3
  <2>3. UsedIds' = UsedIds \cup {x}
    BY <1>10, <2>1, <2>2
  <2> QED BY <1>3, <1>7, <2>3
<1>14. Split(list', value', used', used_head', unused_head', s2, f2)
  <2>1. Nodes(f2) = {i \in D : ~used'[i]}
    BY <1>2, <1>7, <1>10
  <2>2. Nodes(s2) = {i \in D : used'[i]}
    BY <1>8, <1>13 DEF UsedIds
  <2> QED BY <1>0, <1>7, <1>8, <1>10, <1>11, <2>1, <2>2 DEF Split
<1>15. OrderInv' /\ UsedOrder' = s2
  BY <1>14, OrderInvNext
<1>16. x \in 0..(SIZE_MAX - 1)
  BY <1>1, <1>5, NullIndex DEF IsList, Indices, SIZE_MAX
<1> QED BY <1>1, <1>8, <1>12, <1>13, <1>15, <1>16 DEF s2, x

\* return_object(), and remove_object() before it: one id less in use, the order of the
\* others as it was (value_repo.hpp:276-293).
LEMMA GiveBackStep ==
    ASSUME OrderInv, NEW id \in UsedIds, NEW v \in Values \cup {NoValue}, GiveBack(id, v)
    PROVE  /\ OrderInv' /\ UsedIds' = UsedIds \ {id} /\ Ids' = Ids
           /\ \E p \in 1..Len(UsedOrder) : UsedOrder[p] = id /\ UsedOrder' = Dropped(UsedOrder, p)
           /\ \A i \in UsedIds' : value'[i] = value[i]
<1> DEFINE removed == remove(list, used_head, id)
           freed == push(removed.list, unused_head, id)
<1>0. /\ list' = freed.list /\ used_head' = removed.head /\ unused_head' = freed.head
      /\ used' = [used EXCEPT ![id] = FALSE] /\ value' = [value EXCEPT ![id] = v]
  BY DEF GiveBack
<1>1. /\ IsList(list) /\ Ids = Indices(list) /\ id \in Ids
      /\ value \in [Ids -> Values \cup {NoValue}] /\ used \in [Ids -> BOOLEAN]
      /\ Arranged(list, used_head, UsedOrder) /\ Nodes(UsedOrder) = UsedIds
      /\ Arranged(list, unused_head, UnusedOrder) /\ Nodes(UnusedOrder) = Ids \ UsedIds
  BY OrderFacts DEF UsedIds
<1>2. PICK p \in 1..Len(UsedOrder) : UsedOrder[p] = id
  BY <1>1 DEF Nodes
<1>3. removed = remove(list, used_head, id) /\ freed = push(removed.list, unused_head, id)
  OBVIOUS
<1> DEFINE s2 == Dropped(UsedOrder, p)  f2 == <<id>> \o UnusedOrder
<1> HIDE DEF removed, freed
<1>4. /\ IsList(freed.list) /\ freed.list.size = list.size
      /\ Arranged(freed.list, removed.head, s2) /\ Nodes(s2) = Nodes(UsedOrder) \ {id}
      /\ Arranged(freed.list, freed.head, f2) /\ Nodes(f2) = Nodes(UnusedOrder) \cup {id}
  <2>1. Nodes(UsedOrder) \cap Nodes(UnusedOrder) = {}
    BY <1>1
  <2> QED BY <1>1, <1>2, <1>3, <2>1, NodeMoves
<1> HIDE DEF s2, f2
<1>5. Indices(list') = Ids /\ Ids' = Ids
  BY <1>0, <1>1, <1>4 DEF Indices, Ids
<1>6. used' \in [Ids -> BOOLEAN] /\ \A i \in Ids : used'[i] <=> i \in UsedIds \ {id}
  BY <1>0, <1>1 DEF UsedIds
<1>7. UsedIds' = UsedIds \ {id}
  <2>1. UsedIds' = {i \in Ids : used'[i]} /\ UsedIds \subseteq Ids
    BY <1>5 DEF UsedIds
  <2> QED BY <1>6, <2>1
<1>8. value' \in [Ids -> Values \cup {NoValue}] /\ \A i \in UsedIds' : value'[i] = value[i]
  BY <1>0, <1>1, <1>7
<1>9. Split(list', value', used', used_head', unused_head', s2, f2)
  <2>1. Nodes(f2) = {i \in Ids : ~used'[i]} /\ Nodes(s2) = {i \in Ids : used'[i]}
    BY <1>1, <1>4, <1>6 DEF UsedIds
  <2> QED BY <1>0, <1>4, <1>5, <1>6, <1>8, <2>1 DEF Split
<1>10. OrderInv' /\ UsedOrder' = s2
  BY <1>9, OrderInvNext
<1> QED BY <1>2, <1>5, <1>7, <1>8, <1>10 DEF s2
\* Every call takes a slot or gives one back, and only what was there before ends up in it.
LEMMA NextCases ==
    ASSUME OrderInv, Next
    PROVE  \/ \E v \in Values \cup {NoValue} : Take(v)
           \/ \E id \in UsedIds : \E v \in Values \cup {NoValue} : GiveBack(id, v)
<1>1. value \in [Ids -> Values \cup {NoValue}] /\ used \in [Ids -> BOOLEAN]
  BY OrderFacts
<1>2. ASSUME NEW id \in Ids, remove_object(id) \/ return_object(id)
      PROVE  id \in UsedIds /\ \E v \in Values \cup {NoValue} : GiveBack(id, v)
  <2>1. id \in UsedIds
    BY <1>1, <1>2 DEF remove_object, return_object, check_unused, UsedIds
  <2>2. GiveBack(id, NoValue) \/ GiveBack(id, value[id])
    BY <1>2 DEF remove_object, return_object
  <2> QED BY <1>1, <2>1, <2>2
<1>3. CASE assign_object_throws \/ reuse_object
  <2>1. Take(Left) /\ ~ReuseThrows
    BY <1>3 DEF assign_object_throws, reuse_object, Take
  <2>2. TakenId < list.size => TakenId \in Ids
    <3>1. TakenId \in Nat /\ list.size \in Nat
      BY <2>1, TakeStep, OrderFacts, StockReady DEF Indices, IsList
    <3> QED BY <3>1, OrderFacts DEF Indices
  <2>3. Left \in Values \cup {NoValue}
    BY <1>1, <2>2 DEF Left
  <2> QED BY <2>1, <2>3
<1>4. ASSUME NEW v \in Values, assign_object(v) PROVE Take(v)
  BY <1>4 DEF assign_object
<1> QED BY <1>2, <1>3, <1>4 DEF Next

LEMMA OrderInvStep == OrderInv /\ [Next]_vars => OrderInv'
<1> SUFFICES ASSUME OrderInv, [Next]_vars PROVE OrderInv'
  OBVIOUS
<1>1. CASE UNCHANGED vars
  BY <1>1 DEF vars, OrderInv, UsedOrder, UnusedOrder
<1>2. CASE Next
  <2>1. CASE \E v \in Values \cup {NoValue} : Take(v)
    BY <2>1, TakeStep
  <2>2. CASE \E id \in UsedIds : \E v \in Values \cup {NoValue} : GiveBack(id, v)
    BY <2>2, GiveBackStep
  <2> QED BY <1>2, <2>1, <2>2, NextCases
<1> QED BY <1>1, <1>2

\* Whatever is called, the slots form the ring of the used and the ring of the free ones.
THEOREM RingsHoldAllSlots == Spec => []OrderInv
BY OrderInit, OrderInvStep, PTL DEF Spec

\* Two rings without a common slot are linked within themselves.
LEMMA OrderImpliesInv == OrderInv => RepoInv
<1> SUFFICES ASSUME OrderInv PROVE RepoInv
  OBVIOUS
<1>1. /\ IsList(list) /\ RepoTypeOK /\ Nodes(UsedOrder) = UsedIds /\ Nodes(UnusedOrder) = Ids \ UsedIds
      /\ Arranged(list, used_head, UsedOrder) /\ Arranged(list, unused_head, UnusedOrder)
      /\ used \in [Ids -> BOOLEAN] /\ UsedIds \subseteq Ids
  BY OrderFacts
<1>2. ASSUME NEW i \in Ids
      PROVE  /\ list.next[i] \in Ids /\ list.prev[i] \in Ids
             /\ list.prev[list.next[i]] = i /\ list.next[list.prev[i]] = i
             /\ used[list.next[i]] = used[i] /\ used[list.prev[i]] = used[i]
  <2>1. CASE i \in UsedIds
    <3>1. /\ list.next[i] \in UsedIds /\ list.prev[i] \in UsedIds
          /\ list.prev[list.next[i]] = i /\ list.next[list.prev[i]] = i
      BY <1>1, <2>1, RingLinks
    <3> QED BY <1>1, <2>1, <3>1 DEF UsedIds
  <2>2. CASE i \notin UsedIds
    <3>1. /\ list.next[i] \in Ids \ UsedIds /\ list.prev[i] \in Ids \ UsedIds
          /\ list.prev[list.next[i]] = i /\ list.next[list.prev[i]] = i
      BY <1>1, <2>2, RingLinks
    <3>2. used[list.next[i]] = FALSE /\ used[list.prev[i]] = FALSE /\ used[i] = FALSE
      BY <1>1, <2>2, <3>1 DEF UsedIds
    <3> QED BY <3>1, <3>2
  <2> QED BY <2>1, <2>2
<1>3. ASSUME NEW h, NEW s, Arranged(list, h, s), h # null_index PROVE h \in Nodes(s)
  <2>1. s # <<>> /\ Len(s) \in Nat /\ Len(s) # 0 /\ h = s[1]
    BY <1>1, <1>3, ArrangedFacts
  <2>2. 1 \in 1..Len(s)
    BY <2>1
  <2> QED BY <2>1, <2>2 DEF Nodes
<1>4. unused_head # null_index => unused_head \in Ids /\ ~used[unused_head]
  <2>1. unused_head # null_index => unused_head \in Ids \ UsedIds
    BY <1>1, <1>3
  <2> QED BY <2>1 DEF UsedIds
<1>5. used_head # null_index => used_head \in Ids /\ used[used_head]
  <2>1. used_head # null_index => used_head \in UsedIds
    BY <1>1, <1>3
  <2> QED BY <2>1 DEF UsedIds
<1> QED BY <1>1, <1>2, <1>4, <1>5 DEF RepoInv, RingsMatchFlags

\* Whatever is called, however often and up to the last slot size_t can count,
\* every slot is linked into the ring its flag says (value_repo.hpp:260-293).
THEOREM RepoSafe == Spec => []RepoInv
BY RingsHoldAllSlots, OrderImpliesInv, PTL

\* A call leaves the objects of all other ids where and as they are, growing
\* included (value_repo.hpp:260-293, 375-385).
THEOREM ObjectsStayPutSafe == Spec => ObjectsStayPut
<1>1. OrderInv /\ [Next]_vars => [OthersStayPut]_vars
  <2> SUFFICES ASSUME OrderInv, Next PROVE OthersStayPut
    OBVIOUS
  <2>1. ASSUME NEW v \in Values \cup {NoValue}, Take(v) PROVE OthersStayPut
    <3>1. Ids \subseteq Ids' /\ \A i \in UsedIds : value'[i] = value[i]
      BY <2>1, TakeStep
    <3> QED BY <3>1 DEF OthersStayPut, UsedIds
  <2>2. ASSUME NEW id \in UsedIds, NEW v \in Values \cup {NoValue}, GiveBack(id, v)
        PROVE  OthersStayPut
    <3>1. Ids' = Ids /\ \A i \in UsedIds' : value'[i] = value[i]
      BY <2>2, GiveBackStep
    <3> QED BY <3>1 DEF OthersStayPut, UsedIds
  <2> QED BY <2>1, <2>2, NextCases
<1>2. Spec => [][Next]_vars
  BY PTL DEF Spec
<1> QED BY <1>1, <1>2, RingsHoldAllSlots, PTL DEF ObjectsStayPut

\* With element constructors that do not throw and without reuse_object(), a used
\* slot holds an object (value_repo.hpp:34): those two calls are all that breaks it.
THEOREM UsedHasValueSafe ==
    ASSUME Calls \subseteq {"assign", "remove", "return"}
    PROVE  Spec => []UsedHasValue
<1>1. Init => UsedHasValue
  BY OrderInit DEF UsedHasValue
<1>2. OrderInv /\ UsedHasValue /\ [Next]_vars => UsedHasValue'
  <2> SUFFICES ASSUME OrderInv, UsedHasValue, [Next]_vars PROVE UsedHasValue'
    OBVIOUS
  <2>1. ASSUME NEW id \in UsedIds, NEW v \in Values \cup {NoValue}, GiveBack(id, v)
        PROVE  UsedHasValue'
    <3>1. UsedIds' = UsedIds \ {id} /\ \A i \in UsedIds' : value'[i] = value[i]
      BY <2>1, GiveBackStep
    <3> QED BY <3>1 DEF UsedHasValue
  <2>2. ASSUME NEW v \in Values, Take(v) PROVE UsedHasValue'
    <3>1. /\ UsedIds' = UsedIds \cup {TakenId} /\ value'[TakenId] = v
          /\ \A i \in UsedIds : value'[i] = value[i]
      BY <2>2, TakeStep
    <3> QED BY <3>1, RepoAssumption DEF UsedHasValue
  <2>3. CASE UNCHANGED vars
    BY <2>3 DEF vars, UsedHasValue, UsedIds, Ids
  <2>4. CASE Next
    <3>1. \A id \in Ids : remove_object(id) \/ return_object(id) =>
             id \in UsedIds /\ \E v \in Values \cup {NoValue} : GiveBack(id, v)
      <4>1. value \in [Ids -> Values \cup {NoValue}] /\ used \in [Ids -> BOOLEAN]
        BY OrderFacts
      <4> QED BY <4>1 DEF remove_object, return_object, check_unused, UsedIds
    <3>2. ~assign_object_throws /\ ~reuse_object
      BY DEF assign_object_throws, reuse_object
    <3> QED BY <2>1, <2>2, <2>4, <3>1, <3>2 DEF Next, assign_object
  <2> QED BY <2>3, <2>4
<1> QED BY <1>1, <1>2, RingsHoldAllSlots, PTL DEF Spec

----------------------------------------------------------------------------
(* Iteration                                                               *)

\* Where next_id() and prev_id() lead from a position of the used ring, and from
\* end_id() (value_repo.hpp:295-318).
LEMMA NextAndPrev ==
    ASSUME OrderInv, NEW s, s = UsedOrder, NEW n, n = Len(s)
    PROVE  /\ n \in Nat /\ s \in [1..n -> Ids] /\ (n = 0 <=> UsedIds = {})
           /\ \A j, k \in 1..n : s[j] = s[k] => j = k
           /\ {s[k] : k \in 1..n} = UsedIds
           /\ used_head = IF n = 0 THEN null_index ELSE s[1]
           /\ next_id(null_index) = Throws
           /\ prev_id(null_index) = <<IF n = 0 THEN null_index ELSE s[n]>>
           /\ \A k \in 1..n : next_id(s[k]) = IF k = n THEN <<null_index>> ELSE <<s[k + 1]>>
           /\ \A k \in 1..n : prev_id(s[k]) = IF k = 1 THEN Throws ELSE <<s[k - 1]>>
<1>1. /\ IsList(list) /\ Arranged(list, used_head, s) /\ Nodes(s) = UsedIds /\ list.size \in Nat
      /\ Ids = Indices(list) /\ (\A i \in Ids : i < list.size /\ i # null_index) /\ Ids \subseteq Nat
  BY OrderFacts
<1>2. /\ n \in Nat /\ s \in [1..n -> Ids] /\ (s = <<>> <=> n = 0)
      /\ (s = <<>> <=> used_head = null_index) /\ (s # <<>> => used_head = s[1])
      /\ \A j, k \in 1..n : s[j] = s[k] => j = k
      /\ \A k \in 1..n : /\ After(n, k) \in 1..n /\ s[k] \in Ids
                        /\ list.next[s[k]] = s[After(n, k)] /\ list.prev[s[After(n, k)]] = s[k]
  <2>1. /\ n \in Nat /\ s \in [1..n -> Ids] /\ (s = <<>> <=> n = 0)
        /\ (s = <<>> <=> used_head = null_index) /\ (s # <<>> => used_head = s[1])
    BY <1>1, ArrangedFacts
  <2>2. \A j, k \in 1..n : s[j] = s[k] => j = k
    BY <1>1 DEF Arranged
  <2>3. \A k \in 1..n : list.next[s[k]] = s[After(n, k)] /\ list.prev[s[After(n, k)]] = s[k]
    BY <1>1 DEF Arranged
  <2>4. \A k \in 1..n : After(n, k) \in 1..n /\ s[k] \in Ids
    BY <2>1 DEF After
  <2> QED BY <2>1, <2>2, <2>3, <2>4
<1>3. UsedIds = {s[k] : k \in 1..n}
  BY <1>1 DEF Nodes
<1>4. null_index >= list.size
  BY <1>1, NullIndex DEF IsList
<1>5. ASSUME n # 0
      PROVE  /\ n \in 1..n /\ 1 \in 1..n /\ After(n, n) = 1 /\ used_head = s[1] /\ used_head # null_index
             /\ previous(list, used_head) = s[n]
  <2>1. n \in 1..n /\ 1 \in 1..n /\ After(n, n) = 1 /\ used_head = s[1] /\ used_head # null_index
    BY <1>2, <1>5 DEF After
  <2>2. list.prev[used_head] = s[n]
    BY <1>2, <2>1
  <2> QED BY <2>1, <2>2 DEF previous
<1>6. ASSUME NEW k \in 1..n
      PROVE  n # 0 /\ s[k] \in Ids /\ ~check_index_throws(s[k]) /\ s[k] # null_index
  <2>1. s[k] \in Ids
    BY <1>2
  <2>2. n # 0
    <3>1. n \in Nat
      BY <1>2
    <3> QED BY <3>1
  <2>3. s[k] < list.size /\ s[k] \in Nat /\ list.size \in Nat
    BY <1>1, <2>1
  <2>4. null_index \in Nat
    BY NullIndex
  <2>5. ~check_index_throws(s[k]) /\ s[k] # null_index
    BY <1>4, <2>3, <2>4 DEF check_index_throws
  <2> QED BY <2>1, <2>2, <2>5
<1>7. ASSUME NEW k \in 1..n PROVE next_id(s[k]) = IF k = n THEN <<null_index>> ELSE <<s[k + 1]>>
  <2>1. n # 0 /\ s[k] \in Ids /\ ~check_index_throws(s[k])
    BY <1>6
  <2>2. next_id(s[k]) = IF s[k] = s[n] THEN <<null_index>> ELSE <<list.next[s[k]]>>
    BY <1>1, <1>5, <2>1 DEF next_id, next_of
  <2>3. k # n => After(n, k) = k + 1
    BY DEF After
  <2> QED BY <1>2, <1>5, <2>1, <2>2, <2>3
<1>8. ASSUME NEW k \in 1..n PROVE prev_id(s[k]) = IF k = 1 THEN Throws ELSE <<s[k - 1]>>
  <2>1. n # 0 /\ s[k] \in Ids /\ ~check_index_throws(s[k]) /\ s[k] # null_index
    BY <1>6
  <2>2. prev_id(s[k]) = IF s[k] = s[1] THEN Throws ELSE <<list.prev[s[k]]>>
    BY <1>5, <2>1 DEF prev_id, previous
  <2>3. k # 1 => list.prev[s[k]] = s[k - 1]
    <3>1. k # 1 => k - 1 \in 1..n /\ After(n, k - 1) = k
      BY <1>2 DEF After
    <3> QED BY <1>2, <3>1
  <2> QED BY <1>2, <1>5, <2>1, <2>2, <2>3
<1>9. next_id(null_index) = Throws
  BY <1>4 DEF next_id, check_index_throws
<1>10. prev_id(null_index) = <<IF n = 0 THEN null_index ELSE s[n]>>
  BY <1>2, <1>5 DEF prev_id, previous
<1>11. n = 0 <=> UsedIds = {}
  <2>1. n = 0 => UsedIds = {}
    BY <1>3
  <2>2. n # 0 => s[n] \in UsedIds
    BY <1>3, <1>5
  <2> QED BY <2>1, <2>2
<1>12. used_head = IF n = 0 THEN null_index ELSE s[1]
  BY <1>2
<1> QED BY <1>2, <1>3, <1>7, <1>8, <1>9, <1>10, <1>11, <1>12

\* At any moment a walk from first_id() with next_id(), and one from end_id() with
\* prev_id(), would visit every object in use exactly once (value_repo.hpp:295-318).
THEOREM IterationVisitsUsedOnceSafe == Spec => []IterationVisitsUsedOnce
<1>1. OrderInv => IterationVisitsUsedOnce
  <2> SUFFICES ASSUME OrderInv PROVE IterationVisitsUsedOnce
    OBVIOUS
  <2> DEFINE s == UsedOrder  n == Len(s)
  <2>0. s = UsedOrder /\ n = Len(s)
    OBVIOUS
  <2> HIDE DEF s, n
  <2>1. n \in Nat
    BY <2>0, NextAndPrev
  <2>2. /\ \A j, k \in 1..n : s[j] = s[k] => j = k
        /\ {s[k] : k \in 1..n} = UsedIds
    BY <2>0, NextAndPrev
  <2>3. /\ used_head = IF n = 0 THEN null_index ELSE s[1]
        /\ prev_id(null_index) = <<IF n = 0 THEN null_index ELSE s[n]>>
    BY <2>0, NextAndPrev
  <2>4. \A k \in 1..n : next_id(s[k]) = IF k = n THEN <<null_index>> ELSE <<s[k + 1]>>
    BY <2>0, NextAndPrev
  <2>5. \A k \in 1..n : prev_id(s[k]) = IF k = 1 THEN Throws ELSE <<s[k - 1]>>
    BY <2>0, NextAndPrev
  <2>6. n > 0 => s[1] = first_id /\ next_id(s[n]) = <<null_index>> /\ prev_id(null_index) = <<s[n]>>
    <3>1. n > 0 => n # 0 /\ n \in 1..n
      BY <2>1
    <3> QED BY <2>3, <2>4, <3>1 DEF first_id
  <2>7. ASSUME NEW k \in 1..(n - 1)
        PROVE  next_id(s[k]) = <<s[k + 1]>> /\ prev_id(s[k + 1]) = <<s[k]>>
    <3>1. k \in 1..n /\ k # n /\ k + 1 \in 1..n /\ k + 1 # 1 /\ (k + 1) - 1 = k
      BY <2>1
    <3> QED BY <2>4, <2>5, <3>1
  <2>8. Forward(list, used_head) = s
    BY <2>0 DEF UsedOrder
  <2> QED BY <2>0, <2>2, <2>6, <2>7, <2>8 DEF IterationVisitsUsedOnce
<1> QED BY <1>1, RingsHoldAllSlots, PTL

----------------------------------------------------------------------------
(* The object pool                                                         *)

\* The pool's sequence without position p.
LEMMA RemoveAtIsDropped ==
    ASSUME NEW S, NEW s \in Seq(S), NEW p \in 1..Len(s)
    PROVE  Pool!RemoveAt(s, p) = Dropped(s, p)
BY DroppedIsConcat DEF Pool!RemoveAt

\* Taking a slot is taking an id of the pool (value_repo.hpp:260-275).
LEMMA TakeIsPTake ==
    ASSUME OrderInv, NEW v \in Values \cup {NoValue}, Take(v)
    PROVE  Pool!PNext
<1>1. /\ UsedOrder' = <<TakenId>> \o UsedOrder /\ TakenId \notin UsedIds
      /\ UsedIds' = UsedIds \cup {TakenId} /\ TakenId \in 0..(SIZE_MAX - 1)
      /\ value'[TakenId] = v /\ \A i \in UsedIds : value'[i] = value[i]
  BY TakeStep
<1>2. [i \in UsedIds' |-> value'[i]]
        = [i \in UsedIds \cup {TakenId} |-> IF i = TakenId THEN v ELSE [j \in UsedIds |-> value[j]][i]]
  BY <1>1
<1>3. DOMAIN [i \in UsedIds |-> value[i]] = UsedIds
  OBVIOUS
<1>4. Pool!PTake(TakenId, v)
  BY <1>1, <1>2, <1>3 DEF Pool!PTake, Pool!InUse, UsedOrder
<1> QED BY <1>1, <1>4 DEF Pool!PNext

\* Giving a slot back is giving back an id of the pool (value_repo.hpp:276-293).
LEMMA GiveBackIsPGiveBack ==
    ASSUME OrderInv, NEW id \in UsedIds, NEW v \in Values \cup {NoValue}, GiveBack(id, v)
    PROVE  Pool!PNext
<1>1. /\ UsedIds' = UsedIds \ {id} /\ \A i \in UsedIds' : value'[i] = value[i]
      /\ \E p \in 1..Len(UsedOrder) : UsedOrder[p] = id /\ UsedOrder' = Dropped(UsedOrder, p)
  BY GiveBackStep
<1>2. PICK p \in 1..Len(UsedOrder) : UsedOrder[p] = id /\ UsedOrder' = Dropped(UsedOrder, p)
  BY <1>1
<1>3. UsedOrder \in Seq(Indices(list)) /\ id \in Ids
  BY OrderFacts DEF Arranged
<1>4. UsedOrder' = Pool!RemoveAt(UsedOrder, p)
  BY <1>2, <1>3, RemoveAtIsDropped
<1>5. [i \in UsedIds' |-> value'[i]] = [i \in UsedIds \ {id} |-> [j \in UsedIds |-> value[j]][i]]
  BY <1>1
<1>6. DOMAIN [i \in UsedIds |-> value[i]] = UsedIds
  OBVIOUS
<1>7. Pool!PGiveBack(id)
  BY <1>2, <1>4, <1>5, <1>6 DEF Pool!PGiveBack, Pool!InUse, UsedOrder
<1>8. id \in 0..(SIZE_MAX - 1)
  <2>1. RepoTypeOK
    BY OrderFacts
  <2> QED BY <1>3, <2>1, NullIndex DEF RepoTypeOK, Ids, Indices, SIZE_MAX
<1> QED BY <1>7, <1>8 DEF Pool!PNext

\* The repository behaves as a map from ids to objects that is walked from the newest id
\* to the oldest (value_repo.hpp:246-318, 375-385).
THEOREM RepoImplementsObjectPool == Spec => ImplementsObjectPool
<1>1. Init => Pool!PInit
  <2> SUFFICES ASSUME Init PROVE Pool!PInit
    OBVIOUS
  <2>1. UsedOrder = <<>> /\ UsedIds = {}
    BY OrderInit
  <2> QED BY <2>1 DEF Pool!PInit, UsedOrder
<1>2. OrderInv /\ [Next]_vars => [Pool!PNext]_(Pool!pvars)
  <2> SUFFICES ASSUME OrderInv, [Next]_vars PROVE [Pool!PNext]_(Pool!pvars)
    OBVIOUS
  <2>1. CASE UNCHANGED vars
    BY <2>1 DEF vars, Pool!pvars, UsedIds, Ids
  <2>2. CASE Next
    BY <2>2, NextCases, TakeIsPTake, GiveBackIsPGiveBack
  <2> QED BY <2>1, <2>2
<1> QED BY <1>1, <1>2, RingsHoldAllSlots, PTL DEF Spec, ImplementsObjectPool, Pool!PSpec

----------------------------------------------------------------------------
(* Walks while the repository changes                                      *)

\* Of a walk at the id `at': the ids it has still to visit, and that it has visited what
\* stayed behind it and nothing that is ahead.
Ahead(w, s, at, i) == IF w = "forward" THEN Precedes(s, at, i) ELSE Precedes(s, i, at)

Visited(w, s, at, U, sn, st) ==
    \A i \in U : IF Ahead(w, s, at, i) THEN i \notin sn ELSE i \in st => i \in sn

Distinct(s) == \A a, b \in 1..Len(s) : s[a] = s[b] => a = b

\* What precedes what in a sequence without repetition.
LEMMA PrecedesAt ==
    ASSUME NEW s, Distinct(s), NEW j \in 1..Len(s), NEW k \in 1..Len(s)
    PROVE  Precedes(s, s[j], s[k]) <=> j < k
BY DEF Precedes, Distinct

\* The order of two ids does not depend on a third in front of them.
LEMMA PrecedesPushed ==
    ASSUME NEW S, NEW s \in Seq(S), NEW x \in S, NEW i \in Nodes(s), NEW j \in Nodes(s),
           x \notin Nodes(s)
    PROVE  Precedes(<<x>> \o s, i, j) <=> Precedes(s, i, j)
<1> DEFINE t == <<x>> \o s  n == Len(s)
<1>1. n \in Nat /\ Len(t) = n + 1 /\ t[1] = x /\ \A k \in 1..n : t[k + 1] = s[k]
  <2>1. n \in Nat /\ <<x>> \in Seq(S) /\ Len(<<x>>) = 1
    BY LenProperties
  <2>2. Joined(s, 0, x) = t /\ 0 \in 0..Len(s)
    BY <2>1, JoinedAtEnds
  <2>3. t = [k \in 1..(n + 1) |-> IF k <= 0 THEN s[k] ELSE IF k = 0 + 1 THEN x ELSE s[k - 1]]
    BY <2>2 DEF Joined
  <2> HIDE DEF t, n
  <2>4. Len(t) = n + 1
    BY <2>1, <2>3
  <2> QED BY <2>1, <2>3, <2>4
<1>2. Nodes(s) = {s[k] : k \in 1..n}
  BY DEF Nodes
<1>3. n = Len(s)
  OBVIOUS
<1> HIDE DEF t, n
<1>4. ASSUME NEW a \in 1..n, NEW b \in 1..n, a < b, s[a] = i, s[b] = j PROVE Precedes(t, i, j)
  <2>1. a + 1 \in 1..(n + 1) /\ b + 1 \in 1..(n + 1) /\ a + 1 < b + 1
    BY <1>1, <1>4
  <2>2. t[a + 1] = i /\ t[b + 1] = j
    BY <1>1, <1>4
  <2> QED BY <1>1, <2>1, <2>2 DEF Precedes
<1>5. ASSUME NEW a \in 1..(n + 1), NEW b \in 1..(n + 1), a < b, t[a] = i, t[b] = j
      PROVE  Precedes(s, i, j)
  <2>1. a # 1 /\ b # 1
    BY <1>1, <1>5
  <2>2. a - 1 \in 1..n /\ b - 1 \in 1..n /\ a - 1 < b - 1 /\ (a - 1) + 1 = a /\ (b - 1) + 1 = b
    BY <1>1, <1>5, <2>1
  <2>3. s[a - 1] = i /\ s[b - 1] = j
    BY <1>1, <1>5, <2>2
  <2> QED BY <1>3, <2>2, <2>3 DEF Precedes
<1> QED BY <1>1, <1>3, <1>4, <1>5 DEF Precedes, t

\* Nor on one between them that leaves.
LEMMA PrecedesDropped ==
    ASSUME NEW S, NEW s \in Seq(S), \A a, b \in 1..Len(s) : s[a] = s[b] => a = b,
           NEW p \in 1..Len(s), NEW i \in Nodes(s) \ {s[p]}, NEW j \in Nodes(s) \ {s[p]}
    PROVE  Precedes(Dropped(s, p), i, j) <=> Precedes(s, i, j)
<1> DEFINE t == Dropped(s, p)  n == Len(s)
<1>1. n \in Nat /\ p \in 1..n /\ Len(t) = n - 1
  <2>1. Len(s) \in Nat /\ Len(Dropped(s, p)) = Len(s) - 1
    BY LenProperties, DroppedIsConcat
  <2> QED BY <2>1
<1>2. n = Len(s) /\ t = [k \in 1..(n - 1) |-> IF k < p THEN s[k] ELSE s[k + 1]]
  BY DEF Dropped
<1> HIDE DEF t, n
<1>3. ASSUME NEW a \in 1..n, NEW b \in 1..n, a < b, s[a] = i, s[b] = j PROVE Precedes(t, i, j)
  <2> DEFINE at(k) == IF k < p THEN k ELSE k - 1
  <2>1. a # p /\ b # p
    BY <1>3
  <2>2. at(a) \in 1..(n - 1) /\ at(b) \in 1..(n - 1) /\ at(a) < at(b)
    BY <1>1, <1>3, <2>1
  <2>3. t[at(a)] = s[a] /\ t[at(b)] = s[b]
    <3>1. ASSUME NEW k \in 1..n, k # p, at(k) \in 1..(n - 1) PROVE t[at(k)] = s[k]
      <4>1. CASE k < p
        BY <1>1, <1>2, <3>1, <4>1
      <4>2. CASE ~(k < p)
        <5>1. at(k) = k - 1 /\ ~(k - 1 < p) /\ (k - 1) + 1 = k
          BY <1>1, <3>1, <4>2
        <5> QED BY <1>2, <3>1, <5>1
      <4> QED BY <4>1, <4>2
    <3> QED BY <2>1, <2>2, <3>1
  <2> HIDE DEF at
  <2> QED BY <1>1, <1>3, <2>2, <2>3 DEF Precedes
<1>4. ASSUME NEW a \in 1..(n - 1), NEW b \in 1..(n - 1), a < b, t[a] = i, t[b] = j
      PROVE  Precedes(s, i, j)
  <2> DEFINE at(k) == IF k < p THEN k ELSE k + 1
  <2>1. at(a) \in 1..n /\ at(b) \in 1..n /\ at(a) < at(b)
    BY <1>1, <1>4
  <2>2. s[at(a)] = i /\ s[at(b)] = j
    BY <1>2, <1>4
  <2> HIDE DEF at
  <2> QED BY <1>2, <2>1, <2>2 DEF Precedes
<1> QED BY <1>1, <1>2, <1>3, <1>4 DEF Precedes, t

\* A call keeps the order of the ids that stay in use.
LEMMA OrderKept ==
    ASSUME OrderInv, [Next]_vars, NEW i \in UsedIds, NEW j \in UsedIds,
           i \in UsedIds', j \in UsedIds'
    PROVE  Precedes(UsedOrder', i, j) <=> Precedes(UsedOrder, i, j)
<1>1. /\ UsedOrder \in Seq(Indices(list)) /\ Nodes(UsedOrder) = UsedIds
      /\ \A a, b \in 1..Len(UsedOrder) : UsedOrder[a] = UsedOrder[b] => a = b
  BY OrderFacts DEF Arranged
<1>2. CASE UNCHANGED vars
  <2>1. UsedOrder' = UsedOrder
    BY <1>2 DEF vars, UsedOrder
  <2> QED BY <2>1
<1>3. ASSUME NEW v \in Values \cup {NoValue}, Take(v)
      PROVE  Precedes(UsedOrder', i, j) <=> Precedes(UsedOrder, i, j)
  <2>1. UsedOrder' = <<TakenId>> \o UsedOrder /\ TakenId \notin UsedIds
    BY <1>3, TakeStep
  <2> DEFINE S == Indices(list) \cup {TakenId}
  <2>2. UsedOrder \in Seq(S) /\ TakenId \in S
    <3>1. UsedOrder \in [1..Len(UsedOrder) -> Indices(list)] /\ Len(UsedOrder) \in Nat
      BY <1>1, LenProperties
    <3>2. UsedOrder \in [1..Len(UsedOrder) -> S]
      BY <3>1
    <3> QED BY <3>1, <3>2, IsSeq
  <2> HIDE DEF S
  <2> QED BY <1>1, <2>1, <2>2, PrecedesPushed
<1>4. ASSUME NEW id \in UsedIds, NEW v \in Values \cup {NoValue}, GiveBack(id, v)
      PROVE  Precedes(UsedOrder', i, j) <=> Precedes(UsedOrder, i, j)
  <2>1. /\ UsedIds' = UsedIds \ {id}
        /\ \E p \in 1..Len(UsedOrder) : UsedOrder[p] = id /\ UsedOrder' = Dropped(UsedOrder, p)
    BY <1>4, GiveBackStep
  <2>2. PICK p \in 1..Len(UsedOrder) : UsedOrder[p] = id /\ UsedOrder' = Dropped(UsedOrder, p)
    BY <2>1
  <2>3. i \in Nodes(UsedOrder) \ {UsedOrder[p]} /\ j \in Nodes(UsedOrder) \ {UsedOrder[p]}
    BY <1>1, <2>1, <2>2
  <2> QED BY <1>1, <2>2, <2>3, PrecedesDropped
<1> QED BY <1>2, <1>3, <1>4, NextCases

\* The inductive invariant of a walk: it has visited what stayed behind it, and nothing
\* that is ahead of it.
WalkInv ==
    /\ OrderInv
    /\ walk \in {"none", "forward", "backward"}
    /\ id_ \in UsedIds \cup {null_index}
    /\ seen \subseteq UsedIds /\ stayed \subseteq UsedIds
    /\ walk = "none" => id_ = null_index /\ seen = {} /\ stayed = {}
    /\ walk = "forward" /\ id_ = null_index => stayed \subseteq seen
    /\ walk = "backward" /\ id_ = null_index => seen = {}
    /\ walk # "none" /\ id_ # null_index => Visited(walk, UsedOrder, id_, UsedIds, seen, stayed)

\* The same by positions, of a walk that has come to position k from the front, and from
\* the back.
UpTo(s, k, sn, st) ==
    \A j \in 1..Len(s) : (k < j => s[j] \notin sn) /\ (j <= k /\ s[j] \in st => s[j] \in sn)

DownTo(s, k, sn, st) ==
    \A j \in 1..Len(s) : (j < k => s[j] \notin sn) /\ (k <= j /\ s[j] \in st => s[j] \in sn)

\* What has been visited, by positions.
LEMMA VisitedAt ==
    ASSUME NEW s, Len(s) \in Nat, Distinct(s), NEW k \in 1..Len(s), NEW sn, NEW st
    PROVE  /\ Visited("forward", s, s[k], Nodes(s), sn, st) <=> UpTo(s, k, sn, st)
           /\ Visited("backward", s, s[k], Nodes(s), sn, st) <=> DownTo(s, k, sn, st)
<1> DEFINE n == Len(s)
<1>1. ASSUME NEW j \in 1..n
      PROVE  /\ Ahead("forward", s, s[k], s[j]) <=> k < j
             /\ Ahead("backward", s, s[k], s[j]) <=> j < k
  <2>1. Precedes(s, s[j], s[k]) <=> j < k
    BY PrecedesAt
  <2>2. Precedes(s, s[k], s[j]) <=> k < j
    BY PrecedesAt
  <2> QED BY <2>1, <2>2 DEF Ahead
<1>2. n \in Nat /\ k \in 1..n
  OBVIOUS
<1>3. Nodes(s) = {s[j] : j \in 1..n}
  BY DEF Nodes
<1>n. n = Len(s)
  OBVIOUS
<1> HIDE DEF n
<1>4. \A j \in 1..n : (~(k < j) <=> j <= k) /\ (~(j < k) <=> k <= j)
  BY <1>2
<1>5. Visited("forward", s, s[k], Nodes(s), sn, st) <=> UpTo(s, k, sn, st)
  <2>1. Visited("forward", s, s[k], Nodes(s), sn, st) <=>
          \A j \in 1..n : IF Ahead("forward", s, s[k], s[j])
                          THEN s[j] \notin sn ELSE s[j] \in st => s[j] \in sn
    BY <1>3 DEF Visited
  <2> QED BY <1>1, <1>4, <1>n, <2>1 DEF UpTo
<1>6. Visited("backward", s, s[k], Nodes(s), sn, st) <=> DownTo(s, k, sn, st)
  <2>1. Visited("backward", s, s[k], Nodes(s), sn, st) <=>
          \A j \in 1..n : IF Ahead("backward", s, s[k], s[j])
                          THEN s[j] \notin sn ELSE s[j] \in st => s[j] \in sn
    BY <1>3 DEF Visited
  <2> QED BY <1>1, <1>4, <1>n, <2>1 DEF DownTo
<1> QED BY <1>5, <1>6

\* The positions of the objects in use, at hand.
LEMMA UsedPositions ==
    ASSUME OrderInv, NEW s, s = UsedOrder
    PROVE  /\ Len(s) \in Nat /\ UsedIds = Nodes(s) /\ null_index \notin UsedIds /\ Distinct(s)
           /\ \A k \in 1..Len(s) : s[k] \in UsedIds
           /\ \A i \in UsedIds : \E k \in 1..Len(s) : s[k] = i
           /\ \A j, k \in 1..Len(s) : s[j] = s[k] => j = k
           /\ Len(s) = 0 <=> UsedIds = {}
<1>1. UsedIds \subseteq Ids /\ null_index \notin Ids /\ Nodes(UsedOrder) = UsedIds
  BY OrderFacts
<1>2. Len(s) \in Nat /\ (Len(s) = 0 <=> UsedIds = {})
  BY NextAndPrev
<1>3. \A j, k \in 1..Len(s) : s[j] = s[k] => j = k
  BY NextAndPrev
<1> QED BY <1>1, <1>2, <1>3 DEF Nodes, Distinct

\* begin(), and the first object.
LEMMA BeginStep == WalkInv /\ begin => WalkInv'
<1> SUFFICES ASSUME WalkInv, begin PROVE WalkInv'
  OBVIOUS
<1> DEFINE s == UsedOrder  n == Len(s)
<1>0. s = UsedOrder /\ n = Len(s) /\ OrderInv
  BY DEF WalkInv
<1>1. /\ walk' = "forward" /\ id_' = used_head /\ seen' = {used_head} \cap UsedIds
      /\ stayed' = UsedIds /\ OrderInv' /\ UsedIds' = UsedIds /\ UsedOrder' = s
  BY <1>0 DEF begin, first_id, vars, OrderInv, UsedOrder, UnusedOrder, UsedIds, Ids
<1> HIDE DEF s, n
<1>2. /\ n \in Nat /\ UsedIds = Nodes(s) /\ null_index \notin UsedIds /\ Distinct(s)
      /\ \A k \in 1..n : s[k] \in UsedIds
      /\ \A i \in UsedIds : \E k \in 1..n : s[k] = i
      /\ \A j, k \in 1..n : s[j] = s[k] => j = k
      /\ n = 0 <=> UsedIds = {}
  BY <1>0, UsedPositions
<1>n. n \in Nat
  BY <1>2
<1>3. used_head = IF n = 0 THEN null_index ELSE s[1]
  BY <1>0, NextAndPrev
<1>4. CASE n = 0
  BY <1>1, <1>2, <1>3, <1>4 DEF WalkInv
<1>5. CASE n # 0
  <2>1. 1 \in 1..n
    BY <1>n, <1>5
  <2>2. used_head = s[1] /\ used_head \in UsedIds
    BY <1>2, <1>3, <1>5, <2>1
  <2>3. ASSUME NEW j \in 1..n
        PROVE  (1 < j => s[j] \notin seen') /\ (j <= 1 /\ s[j] \in stayed' => s[j] \in seen')
    <3>1. s[j] \in seen' <=> j = 1
      BY <1>1, <1>2, <2>1, <2>2
    <3>2. (1 < j => j # 1) /\ (j <= 1 => j = 1)
      BY <1>n
    <3> QED BY <3>1, <3>2
  <2>4. UpTo(s, 1, seen', stayed')
    BY <1>0, <2>3 DEF UpTo
  <2>5. Visited("forward", s, s[1], UsedIds, seen', stayed')
    BY <1>0, <1>2, <2>1, <2>4, VisitedAt
  <2> QED BY <1>1, <1>2, <2>2, <2>5 DEF WalkInv
<1> QED BY <1>4, <1>5

\* ++, from an object to the next or to end().
LEMMA IncrementStep ==
    ASSUME WalkInv, increment
    PROVE  WalkInv' /\ (id_' # null_index => id_' \notin seen)
<1> DEFINE s == UsedOrder  n == Len(s)
<1>0. s = UsedOrder /\ n = Len(s) /\ OrderInv /\ walk = "forward" /\ next_id(id_) # Throws
  BY DEF WalkInv, increment
<1>1. /\ walk' = "forward" /\ id_' = next_id(id_)[1]
      /\ seen' = seen \cup ({id_'} \cap UsedIds) /\ stayed' = stayed
      /\ OrderInv' /\ UsedIds' = UsedIds /\ UsedOrder' = s
  BY <1>0 DEF increment, MoveTo, vars, OrderInv, UsedOrder, UnusedOrder, UsedIds, Ids
<1> HIDE DEF s, n
<1>2. /\ n \in Nat /\ UsedIds = Nodes(s) /\ null_index \notin UsedIds /\ Distinct(s)
      /\ \A k \in 1..n : s[k] \in UsedIds
      /\ \A i \in UsedIds : \E k \in 1..n : s[k] = i
      /\ \A j, k \in 1..n : s[j] = s[k] => j = k
  BY <1>0, UsedPositions
<1>3. \A k \in 1..n : next_id(s[k]) = IF k = n THEN <<null_index>> ELSE <<s[k + 1]>>
  BY <1>0, NextAndPrev
<1>4. next_id(null_index) = Throws
  BY <1>0, NextAndPrev
<1>5. /\ id_ \in UsedIds /\ seen \subseteq UsedIds /\ stayed \subseteq UsedIds
      /\ Visited("forward", s, id_, UsedIds, seen, stayed)
  BY <1>0, <1>2, <1>4 DEF WalkInv
<1>6. PICK k \in 1..n : id_ = s[k]
  BY <1>2, <1>5
<1>n. n \in Nat /\ k \in 1..n
  BY <1>2
<1>7. \A j \in 1..n : (k < j => s[j] \notin seen) /\ (j <= k /\ s[j] \in stayed => s[j] \in seen)
  <2>1. Visited("forward", s, s[k], UsedIds, seen, stayed)
    BY <1>5, <1>6
  <2>2. UpTo(s, k, seen, stayed)
    BY <1>0, <1>2, <2>1, VisitedAt
  <2> QED BY <1>0, <2>2 DEF UpTo
<1>8. CASE k = n
  <2>1. id_' = null_index /\ seen' = seen
    <3>1. next_id(id_) = <<null_index>>
      BY <1>3, <1>6, <1>8
    <3> QED BY <1>1, <1>2, <3>1
  <2>2. stayed \subseteq seen
    <3>1. \A j \in 1..n : j <= k
      BY <1>n, <1>8
    <3> QED BY <1>2, <1>5, <1>7, <3>1
  <2> QED BY <1>1, <1>5, <2>1, <2>2 DEF WalkInv
<1>9. CASE k # n
  <2>0. k + 1 \in 1..n /\ k < k + 1
    BY <1>n, <1>9
  <2>1. id_' = s[k + 1] /\ id_' \in UsedIds /\ seen' = seen \cup {s[k + 1]}
    <3>1. next_id(id_) = <<s[k + 1]>>
      BY <1>3, <1>6, <1>9
    <3>2. s[k + 1] \in UsedIds
      BY <1>2, <2>0
    <3> QED BY <1>1, <3>1, <3>2
  <2>2. ASSUME NEW j \in 1..n
        PROVE  (k + 1 < j => s[j] \notin seen') /\ (j <= k + 1 /\ s[j] \in stayed' => s[j] \in seen')
    <3>1. s[j] \in seen' <=> s[j] \in seen \/ j = k + 1
      BY <1>2, <2>0, <2>1
    <3>2. (k + 1 < j => k < j /\ j # k + 1) /\ (j <= k + 1 => j = k + 1 \/ j <= k)
      BY <1>n
    <3> QED BY <1>1, <1>7, <3>1, <3>2
  <2>3. Visited("forward", s, s[k + 1], UsedIds, seen', stayed')
    <3>1. UpTo(s, k + 1, seen', stayed')
      BY <1>0, <2>2 DEF UpTo
    <3> QED BY <1>0, <1>2, <2>0, <3>1, VisitedAt
  <2>4. s[k + 1] \notin seen
    BY <1>7, <2>0
  <2> QED BY <1>1, <1>2, <1>5, <2>1, <2>3, <2>4 DEF WalkInv
<1> QED BY <1>8, <1>9

\* --, from end() or an object to the one before.
LEMMA DecrementStep ==
    ASSUME WalkInv, decrement
    PROVE  WalkInv' /\ (id_' # null_index => id_' \notin seen)
<1> DEFINE s == UsedOrder  n == Len(s)
<1>0. s = UsedOrder /\ n = Len(s) /\ OrderInv /\ walk = "backward" /\ prev_id(id_) # Throws
  BY DEF WalkInv, decrement
<1>1. /\ walk' = "backward" /\ id_' = prev_id(id_)[1]
      /\ seen' = seen \cup ({id_'} \cap UsedIds) /\ stayed' = stayed
      /\ OrderInv' /\ UsedIds' = UsedIds /\ UsedOrder' = s
  BY <1>0 DEF decrement, MoveTo, vars, OrderInv, UsedOrder, UnusedOrder, UsedIds, Ids
<1> HIDE DEF s, n
<1>2. /\ n \in Nat /\ UsedIds = Nodes(s) /\ null_index \notin UsedIds /\ Distinct(s)
      /\ \A k \in 1..n : s[k] \in UsedIds
      /\ \A i \in UsedIds : \E k \in 1..n : s[k] = i
      /\ \A j, k \in 1..n : s[j] = s[k] => j = k
      /\ n = 0 <=> UsedIds = {}
  BY <1>0, UsedPositions
<1>3. \A k \in 1..n : prev_id(s[k]) = IF k = 1 THEN Throws ELSE <<s[k - 1]>>
  BY <1>0, NextAndPrev
<1>4. prev_id(null_index) = <<IF n = 0 THEN null_index ELSE s[n]>>
  BY <1>0, NextAndPrev
<1>5. /\ id_ \in UsedIds \cup {null_index} /\ seen \subseteq UsedIds /\ stayed \subseteq UsedIds
      /\ id_ = null_index => seen = {}
      /\ id_ # null_index => Visited("backward", s, id_, UsedIds, seen, stayed)
  BY <1>0 DEF WalkInv
<1>6. CASE id_ = null_index /\ n = 0
  <2>1. id_' = null_index /\ seen' = seen
    BY <1>1, <1>2, <1>4, <1>6
  <2> QED BY <1>1, <1>5, <1>6, <2>1 DEF WalkInv
<1>n. n \in Nat
  BY <1>2
\* To position k, with nothing at or before it visited yet.
<1>7. ASSUME NEW k \in 1..n, prev_id(id_) = <<s[k]>>,
             \A j \in 1..n : j <= k => s[j] \notin seen,
             \A j \in 1..n : k < j => (s[j] \in stayed => s[j] \in seen)
      PROVE  WalkInv' /\ id_' \notin seen
  <2>1. id_' = s[k] /\ id_' \in UsedIds /\ seen' = seen \cup {s[k]}
    <3>1. s[k] \in UsedIds
      BY <1>2
    <3> QED BY <1>1, <1>7, <3>1
  <2>2. ASSUME NEW j \in 1..n
        PROVE  (j < k => s[j] \notin seen') /\ (k <= j /\ s[j] \in stayed' => s[j] \in seen')
    <3>1. s[j] \in seen' <=> s[j] \in seen \/ j = k
      BY <1>2, <2>1
    <3>2. (j < k => j <= k /\ j # k) /\ (k <= j => j = k \/ k < j)
      BY <1>n
    <3> QED BY <1>1, <1>7, <3>1, <3>2
  <2>3. Visited("backward", s, s[k], UsedIds, seen', stayed')
    <3>1. DownTo(s, k, seen', stayed')
      BY <1>0, <2>2 DEF DownTo
    <3> QED BY <1>0, <1>2, <3>1, VisitedAt
  <2>4. s[k] \notin seen
    <3>1. k <= k
      BY <1>n
    <3> QED BY <1>7, <3>1
  <2> QED BY <1>1, <1>2, <1>5, <2>1, <2>3, <2>4 DEF WalkInv
<1>8. CASE id_ = null_index /\ n # 0
  <2>1. n \in 1..n /\ \A j \in 1..n : ~(n < j)
    BY <1>n, <1>8
  <2>2. prev_id(id_) = <<s[n]>> /\ seen = {}
    BY <1>4, <1>5, <1>8
  <2> QED BY <1>7, <2>1, <2>2
<1>9. CASE id_ # null_index
  <2>1. PICK k \in 1..n : id_ = s[k]
    BY <1>2, <1>5, <1>9
  <2>2. \A j \in 1..n : (j < k => s[j] \notin seen) /\ (k <= j /\ s[j] \in stayed => s[j] \in seen)
    <3>1. Visited("backward", s, s[k], UsedIds, seen, stayed)
      BY <1>5, <1>9, <2>1
    <3>2. DownTo(s, k, seen, stayed)
      BY <1>0, <1>2, <3>1, VisitedAt
    <3> QED BY <1>0, <3>2 DEF DownTo
  <2>3. k # 1
    BY <1>0, <1>3, <2>1
  <2>4. k - 1 \in 1..n /\ \A j \in 1..n : (j <= k - 1 => j < k) /\ (k - 1 < j => k <= j)
    BY <1>n, <2>3
  <2>5. prev_id(id_) = <<s[k - 1]>>
    BY <1>3, <2>1, <2>3
  <2> QED BY <1>7, <2>2, <2>4, <2>5
<1> QED BY <1>6, <1>8, <1>9

\* A call of another client.
LEMMA ChangeStep == WalkInv /\ change => WalkInv'
<1> SUFFICES ASSUME WalkInv, change PROVE WalkInv'
  OBVIOUS
<1>1. OrderInv /\ OrderInv' /\ Ids \subseteq Ids' /\ UsedIds \subseteq Ids
  <2>1. OrderInv /\ Next
    BY DEF WalkInv, change
  <2>2. OrderInv' /\ UsedIds \subseteq Ids
    BY <2>1, OrderInvStep, OrderFacts
  <2>3. Ids \subseteq Ids'
    BY <2>1, NextCases, TakeStep, GiveBackStep
  <2> QED BY <2>1, <2>2, <2>3
<1>2. CASE ~(id_ = null_index \/ used'[id_])
  BY <1>1, <1>2 DEF change, WalkInv
<1>3. CASE id_ = null_index \/ used'[id_]
  <2>1. /\ seen' = seen \cap UsedIds' /\ stayed' = stayed \cap UsedIds'
        /\ walk' = walk /\ id_' = id_
    BY <1>3 DEF change
  <2>2. id_ # null_index => id_ \in UsedIds /\ id_ \in UsedIds'
    BY <1>1, <1>3 DEF WalkInv, UsedIds
  <2>3. ASSUME walk # "none", id_ # null_index
        PROVE  Visited(walk, UsedOrder', id_, UsedIds', seen', stayed')
    <3>1. Visited(walk, UsedOrder, id_, UsedIds, seen, stayed)
      BY <2>3 DEF WalkInv
    <3>2. ASSUME NEW i \in UsedIds, i \in UsedIds'
          PROVE  Ahead(walk, UsedOrder', id_, i) <=> Ahead(walk, UsedOrder, id_, i)
      <4>1. /\ Precedes(UsedOrder', i, id_) <=> Precedes(UsedOrder, i, id_)
            /\ Precedes(UsedOrder', id_, i) <=> Precedes(UsedOrder, id_, i)
        BY <1>1, <2>2, <2>3, <3>2, OrderKept DEF change
      <4> QED BY <4>1 DEF Ahead
    <3>3. seen \subseteq UsedIds /\ stayed \subseteq UsedIds
      BY DEF WalkInv
    <3> QED BY <2>1, <3>1, <3>2, <3>3 DEF Visited
  <2> QED BY <1>1, <2>1, <2>2, <2>3 DEF WalkInv
<1> QED BY <1>2, <1>3

LEMMA WalkInvStep == WalkInv /\ [WalkNext]_<<vars, wvars>> => WalkInv'
<1> SUFFICES ASSUME WalkInv, [WalkNext]_<<vars, wvars>> PROVE WalkInv'
  OBVIOUS
<1>1. CASE UNCHANGED <<vars, wvars>>
  BY <1>1 DEF vars, wvars, WalkInv, OrderInv, UsedOrder, UnusedOrder, UsedIds, Ids
<1>2. CASE end \/ finish
  BY <1>2 DEF end, finish, vars, WalkInv, OrderInv, UsedOrder, UnusedOrder, UsedIds, Ids
<1> QED BY <1>1, <1>2, BeginStep, IncrementStep, DecrementStep, ChangeStep DEF WalkNext

LEMMA WalkInvInit == WalkInit => WalkInv
BY OrderInit DEF WalkInit, WalkInv

\* A walk has visited what stayed behind it and nothing of what is ahead, whatever other
\* clients do in between.
THEOREM WalkIsAtItsPlace == WalkSpec => []WalkInv
BY WalkInvInit, WalkInvStep, PTL DEF WalkSpec

\* A walk is at an object in use or at its end, and at the end it has visited every
\* object that was there all the time (value_repo.hpp:125-140, 303-318).
THEOREM WalkMissesNothingSafe == WalkSpec => []WalkMissesNothing
<1>1. WalkInv => WalkMissesNothing
  <2> SUFFICES ASSUME WalkInv, walk # "none" PROVE /\ id_ # null_index => get_object(id_) # Throws
                                                   /\ AtEnd => stayed \subseteq seen
    BY DEF WalkMissesNothing
  <2> DEFINE s == UsedOrder  n == Len(s)
  <2>0. s = UsedOrder /\ n = Len(s) /\ OrderInv
    BY DEF WalkInv
  <2>1. id_ # null_index => get_object(id_) # Throws
    <3>1. id_ # null_index => id_ \in UsedIds /\ id_ \in Ids /\ used[id_]
      BY DEF WalkInv, UsedIds
    <3>2. \A i \in Ids : i < list.size /\ i \in Nat /\ list.size \in Nat
      BY <2>0, OrderFacts
    <3>3. id_ # null_index => ~check_index_throws(id_) /\ ~check_unused(id_)
      BY <3>1, <3>2 DEF check_index_throws, check_unused
    <3>4. id_ # null_index => get_object(id_) = <<value[id_]>>
      BY <3>3 DEF get_object
    <3>5. <<value[id_]>> # Throws
      BY DEF Throws
    <3> QED BY <3>4, <3>5
  <2> HIDE DEF s, n
  <2>2. /\ n \in Nat /\ UsedIds = Nodes(s) /\ null_index \notin UsedIds /\ Distinct(s)
        /\ \A k \in 1..n : s[k] \in UsedIds
        /\ \A i \in UsedIds : \E k \in 1..n : s[k] = i
        /\ \A j, k \in 1..n : s[j] = s[k] => j = k
        /\ n = 0 <=> UsedIds = {}
    BY <2>0, UsedPositions
  <2>n. n \in Nat
    BY <2>2
  <2>3. used_head = IF n = 0 THEN null_index ELSE s[1]
    BY <2>0, NextAndPrev
  <2>4. ASSUME walk = "forward", id_ = null_index PROVE stayed \subseteq seen
    BY <2>4 DEF WalkInv
  <2>5. ASSUME walk = "backward", id_ = used_head PROVE stayed \subseteq seen
    <3>1. CASE n = 0
      BY <2>2, <3>1 DEF WalkInv
    <3>2. CASE n # 0
      <4>0. 1 \in 1..n
        BY <2>n, <3>2
      <4>1. used_head = s[1] /\ used_head # null_index
        BY <2>2, <2>3, <3>2, <4>0
      <4>2. Visited("backward", s, s[1], UsedIds, seen, stayed)
        BY <2>0, <2>5, <4>1 DEF WalkInv
      <4>3. DownTo(s, 1, seen, stayed)
        BY <2>0, <2>2, <4>0, <4>2, VisitedAt
      <4>4. \A j \in 1..n : 1 <= j
        BY <2>n
      <4>5. \A j \in 1..n : s[j] \in stayed => s[j] \in seen
        BY <2>0, <4>3, <4>4 DEF DownTo
      <4>6. stayed \subseteq UsedIds
        BY DEF WalkInv
      <4> QED BY <2>2, <4>5, <4>6
    <3> QED BY <3>1, <3>2
  <2>6. walk = "forward" \/ walk = "backward"
    BY DEF WalkInv
  <2> QED BY <2>1, <2>4, <2>5, <2>6 DEF AtEnd
<1> QED BY <1>1, WalkIsAtItsPlace, PTL

\* A walk that moves on is at an object it has not visited since that came into use
\* (value_repo.hpp:125-140, 303-318).
THEOREM WalkNeverRepeatsSafe == WalkSpec => WalkNeverRepeats
<1> DEFINE NoRepeat == walk' = walk /\ id_' # id_ /\ id_' # null_index => id_' \notin seen
<1>1. WalkInv /\ [WalkNext]_<<vars, wvars>> => [NoRepeat]_<<vars, wvars>>
  <2> SUFFICES ASSUME WalkInv, WalkNext PROVE NoRepeat
    OBVIOUS
  <2>1. CASE begin \/ end \/ finish
    BY <2>1 DEF begin, end, finish
  <2>2. CASE increment
    BY <2>2, IncrementStep
  <2>3. CASE decrement
    BY <2>3, DecrementStep
  <2>4. CASE change
    BY <2>4 DEF change
  <2> QED BY <2>1, <2>2, <2>3, <2>4 DEF WalkNext
<1>2. WalkSpec => [][WalkNext]_<<vars, wvars>>
  BY PTL DEF WalkSpec
<1> QED BY <1>1, <1>2, WalkIsAtItsPlace, PTL DEF WalkNeverRepeats

\* Iterators only read: what is proved of the calls holds while clients walk.
THEOREM WalksAreCalls == WalkSpec => Spec
<1>1. WalkInit => Init
  BY DEF WalkInit
<1>2. [WalkNext]_<<vars, wvars>> => [Next]_vars
  BY DEF WalkNext, begin, end, increment, decrement, finish, change
<1> QED BY <1>1, <1>2, PTL DEF WalkSpec, Spec
=============================================================================

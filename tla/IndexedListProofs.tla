------------------------- MODULE IndexedListProofs -------------------------
(***************************************************************************)
(* What the operations of lzhlib::indexed_list do to a ring of nodes: a    *)
(* ring is described by the sequence of its nodes from the head on, and    *)
(* walking along the links gives that sequence.                            *)
(***************************************************************************)
EXTENDS IndexedList, SequenceTheorems, FiniteSetTheorems, WellFoundedInduction, TLAPS

\* A well-formed list value.
IsList(l) ==
    /\ l = [size |-> l.size, next |-> l.next, prev |-> l.prev]
    /\ l.size \in 0..null_index
    /\ l.next \in [Indices(l) -> 0..null_index]
    /\ l.prev \in [Indices(l) -> 0..null_index]

\* The position after position k of a ring of n nodes.
After(n, k) == IF k = n THEN 1 ELSE k + 1

Nodes(s) == {s[k] : k \in 1..Len(s)}

\* s is the sequence of the nodes of the ring whose first node is head.
Arranged(l, head, s) ==
    /\ s \in Seq(Indices(l))
    /\ \A j, k \in 1..Len(s) : s[j] = s[k] => j = k
    /\ head = IF s = <<>> THEN null_index ELSE s[1]
    /\ \A k \in 1..Len(s) :
          l.next[s[k]] = s[After(Len(s), k)] /\ l.prev[s[After(Len(s), k)]] = s[k]

----------------------------------------------------------------------------
(* Numbers                                                                 *)

\* Induction over the natural numbers, for a set of them.
LEMMA SetInduction ==
    ASSUME NEW S, 0 \in S, \A n \in Nat : n \in S => n + 1 \in S
    PROVE  Nat \subseteq S
<1> SUFFICES ASSUME Nat \ S # {} PROVE FALSE
  OBVIOUS
<1> DEFINE T == Nat \ S
<1>1. PICK m \in T : \A k \in T : ~(<<k, m>> \in OpToRel(<, Nat))
  BY NatLessThanWellFounded, WFMin
<1>2. m \in Nat /\ m \notin S
  OBVIOUS
<1>3. m # 0
  BY <1>2
<1>4. m - 1 \in Nat /\ m - 1 < m /\ (m - 1) + 1 = m
  BY <1>2, <1>3
<1>5. m - 1 \in S
  BY <1>1, <1>2, <1>4 DEF OpToRel
<1> QED BY <1>2, <1>4, <1>5

\* Induction along the positions 1 .. n.
LEMMA IntervalInduction ==
    ASSUME NEW n \in Nat, NEW P, n > 0 => 1 \in P, \A k \in 1..(n - 1) : k \in P => k + 1 \in P
    PROVE  \A k \in 1..n : k \in P
<1> DEFINE S == {k \in Nat : k + 1 <= n => k + 1 \in P}
<1>1. 0 \in S
  OBVIOUS
<1>2. ASSUME NEW k \in Nat, k \in S PROVE k + 1 \in S
  <2>1. CASE (k + 1) + 1 <= n
    <3>1. k + 1 \in 1..(n - 1) /\ k + 1 \in P
      BY <1>2, <2>1
    <3> QED BY <3>1
  <2>2. CASE ~((k + 1) + 1 <= n)
    BY <2>2
  <2> QED BY <2>1, <2>2
<1>3. Nat \subseteq S
  <2> HIDE DEF S
  <2> QED BY <1>1, <1>2, SetInduction
<1>4. ASSUME NEW k \in 1..n PROVE k \in P
  <2>1. k - 1 \in Nat /\ (k - 1) + 1 = k /\ k <= n
    OBVIOUS
  <2>2. k - 1 \in S
    BY <1>3, <2>1
  <2> QED BY <2>1, <2>2
<1> QED BY <1>4

\* Going round n positions, as often as one likes.
LEMMA RoundAndRound ==
    ASSUME NEW n \in Nat \ {0}, NEW N \in Nat
    PROVE  \E m \in [1..N -> 1..n] :
              \A k \in 1..N : m[k] = IF k = 1 THEN 1 ELSE After(n, m[k - 1])
<1> DEFINE S == {M \in Nat : \E m \in [1..M -> 1..n] :
                     \A k \in 1..M : m[k] = IF k = 1 THEN 1 ELSE After(n, m[k - 1])}
<1>1. 0 \in S
  <2> DEFINE g == [k \in 1..0 |-> 1]
  <2>1. g \in [1..0 -> 1..n] /\ \A k \in 1..0 : g[k] = IF k = 1 THEN 1 ELSE After(n, g[k - 1])
    OBVIOUS
  <2> QED
    <3> HIDE DEF g
    <3> QED BY <2>1
<1>2. ASSUME NEW M \in Nat, M \in S PROVE M + 1 \in S
  <2>1. PICK m \in [1..M -> 1..n] :
           \A k \in 1..M : m[k] = IF k = 1 THEN 1 ELSE After(n, m[k - 1])
    BY <1>2
  <2> DEFINE new == IF M = 0 THEN 1 ELSE After(n, m[M])
             g == [k \in 1..(M + 1) |-> IF k = M + 1 THEN new ELSE m[k]]
  <2>2. new \in 1..n
    <3>1. M # 0 => m[M] \in 1..n
      BY <2>1
    <3> QED BY <3>1 DEF After
  <2>3. g \in [1..(M + 1) -> 1..n]
    <3> HIDE DEF new
    <3>1. \A k \in 1..(M + 1) : k # M + 1 => k \in 1..M
      OBVIOUS
    <3> QED BY <2>1, <2>2, <3>1
  <2>4. ASSUME NEW k \in 1..(M + 1) PROVE g[k] = IF k = 1 THEN 1 ELSE After(n, g[k - 1])
    <3>1. CASE k = M + 1
      <4>1. g[k] = new
        BY <3>1
      <4>2. k # 1 => g[k - 1] = m[M] /\ M # 0
        BY <3>1
      <4> QED BY <3>1, <4>1, <4>2
    <3>2. CASE k # M + 1
      <4>1. k \in 1..M /\ g[k] = m[k] /\ (k # 1 => g[k - 1] = m[k - 1])
        BY <3>2
      <4> QED BY <2>1, <4>1
    <3> QED BY <3>1, <3>2
  <2> QED
    <3> HIDE DEF g
    <3> QED BY <2>3, <2>4
<1>3. Nat \subseteq S
  <2> HIDE DEF S
  <2> QED BY <1>1, <1>2, SetInduction
<1> QED BY <1>3

\* No sequence without repetition has more elements than there are nodes.
LEMMA ArrangedLen ==
    ASSUME NEW l, IsList(l), NEW head, NEW s, Arranged(l, head, s)
    PROVE  Len(s) \in Nat /\ Len(s) <= l.size
<1> USE NullIndexAssumption
<1>1. s \in Seq(Indices(l)) /\ l.size \in Nat
  BY DEF Arranged, IsList
<1>2. Len(s) \in Nat /\ s \in [1..Len(s) -> Indices(l)]
  BY <1>1, LenProperties
<1>3. IsFiniteSet(Indices(l)) /\ Cardinality(Indices(l)) = l.size
  <2>1. l.size - 1 \in Int /\ 0 \in Int /\ (IF 0 > l.size - 1 THEN 0 ELSE (l.size - 1) - 0 + 1) = l.size
    BY <1>1
  <2> QED BY <2>1, FS_Interval, Zenon DEF Indices
<1>4. IsFiniteSet(1..Len(s)) /\ Cardinality(1..Len(s)) = Len(s)
  BY <1>2, FS_Interval
<1>5. ~(Cardinality(Indices(l)) < Cardinality(1..Len(s)))
  <2> SUFFICES ASSUME Cardinality(Indices(l)) < Cardinality(1..Len(s)) PROVE FALSE
    OBVIOUS
  <2>1. \E x, y \in 1..Len(s) : x # y /\ s[x] = s[y]
    BY <1>2, <1>3, <1>4, FS_PigeonHole
  <2> QED BY <2>1 DEF Arranged
<1> QED BY <1>1, <1>2, <1>3, <1>4, <1>5

----------------------------------------------------------------------------
(* Walking                                                                 *)

\* The nodes of a ring, some facts at hand.
LEMMA ArrangedFacts ==
    ASSUME NEW l, IsList(l), NEW head, NEW s, Arranged(l, head, s)
    PROVE  /\ Len(s) \in Nat /\ s \in [1..Len(s) -> Indices(l)] /\ s \in Seq(Indices(l))
           /\ null_index \notin Indices(l) /\ Indices(l) \subseteq Nat
           /\ s = <<>> <=> Len(s) = 0
           /\ s = <<>> <=> head = null_index
           /\ s # <<>> => head = s[1] /\ head \in Indices(l)
           /\ \A j, k \in 1..Len(s) : s[j] = s[k] => j = k
           /\ \A k \in 1..Len(s) : /\ After(Len(s), k) \in 1..Len(s) /\ s[k] \in Indices(l)
                                  /\ l.next[s[k]] = s[After(Len(s), k)]
                                  /\ l.prev[s[After(Len(s), k)]] = s[k]
<1> USE NullIndexAssumption
<1>1. s \in Seq(Indices(l)) /\ l.size \in Nat /\ l.size <= null_index
  BY DEF Arranged, IsList
<1>2. Len(s) \in Nat /\ s \in [1..Len(s) -> Indices(l)] /\ (s = <<>> <=> Len(s) = 0)
  BY <1>1, LenProperties, EmptySeq
<1>3. null_index \notin Indices(l) /\ Indices(l) \subseteq Nat
  BY <1>1 DEF Indices
<1>4. s # <<>> => s[1] \in Indices(l)
  BY <1>2
<1>5. \A k \in 1..Len(s) : After(Len(s), k) \in 1..Len(s)
  <2>1. \A n \in Nat : \A k \in 1..n : After(n, k) \in 1..n
    BY DEF After
  <2> QED BY <1>2, <2>1
<1> QED BY <1>1, <1>2, <1>3, <1>4, <1>5 DEF Arranged

\* step leads from each of the n nodes of t to the next one and then back to the first.
Circles(l, step, t, n) ==
    /\ l.size \in Nat /\ n \in Nat \ {0} /\ n <= l.size
    /\ t = [k \in 1..n |-> t[k]] /\ t[1] # null_index
    /\ \A j, k \in 1..n : t[j] = t[k] => j = k
    /\ \A k \in 1..n : step[t[k]] = t[After(n, k)]

\* A walk round a ring visits each of its nodes once (indexed_list.hpp:131-142).
LEMMA WalkIs ==
    ASSUME NEW l, NEW step, NEW t, NEW n, Circles(l, step, t, n)
    PROVE  Walk(l, t[1], step) = t
<1>0. /\ l.size \in Nat /\ n \in Nat \ {0} /\ n <= l.size
      /\ t = [k \in 1..n |-> t[k]] /\ t[1] # null_index
      /\ \A j, k \in 1..n : t[j] = t[k] => j = k
      /\ \A k \in 1..n : step[t[k]] = t[After(n, k)]
  BY DEF Circles
<1> USE <1>0
<1> DEFINE at[k \in 1..l.size] == IF k = 1 THEN t[1] ELSE step[at[k - 1]]
           Closes(k) == step[at[k]] = t[1]
           Shortest == {k \in 1..l.size : Closes(k) /\ \A j \in 1..(k - 1) : ~Closes(j)}
<1> HIDE DEF at
<1>1. Walk(l, t[1], step) =
         IF t[1] = null_index THEN <<>>
         ELSE [k \in 1..(IF Shortest = {} THEN l.size ELSE CHOOSE k \in Shortest : TRUE) |-> at[k]]
  BY Zenon DEF at, Walk
<1>2. \E f : f = [k \in 1..l.size |-> IF k = 1 THEN t[1] ELSE step[f[k - 1]]]
  <2>1. PICK m \in [1..l.size -> 1..n] :
           \A k \in 1..l.size : m[k] = IF k = 1 THEN 1 ELSE After(n, m[k - 1])
    BY RoundAndRound, Zenon
  <2> DEFINE g == [k \in 1..l.size |-> t[m[k]]]
  <2>2. ASSUME NEW k \in 1..l.size PROVE g[k] = IF k = 1 THEN t[1] ELSE step[g[k - 1]]
    <3>1. CASE k = 1
      BY <2>1, <3>1
    <3>2. CASE k # 1
      <4>1. k - 1 \in 1..l.size
        BY <3>2
      <4>2. m[k - 1] \in 1..n /\ g[k - 1] = t[m[k - 1]] /\ g[k] = t[After(n, m[k - 1])]
        BY <2>1, <3>2, <4>1
      <4> QED BY <3>2, <4>2
    <3> QED BY <3>1, <3>2
  <2>3. g = [k \in 1..l.size |-> IF k = 1 THEN t[1] ELSE step[g[k - 1]]]
    <3>1. g = [k \in 1..l.size |-> g[k]]
      OBVIOUS
    <3> HIDE DEF g
    <3> QED BY <2>2, <3>1
  <2> HIDE DEF g
  <2> QED BY <2>3, Zenon
<1>3. at = [k \in 1..l.size |-> IF k = 1 THEN t[1] ELSE step[at[k - 1]]]
  BY <1>2, Zenon DEF at
<1>4. \A k \in 1..l.size : at[k] = IF k = 1 THEN t[1] ELSE step[at[k - 1]]
  BY <1>3
<1>5. \A k \in 1..n : at[k] = t[k]
  <2> DEFINE P == {k \in 1..n : at[k] = t[k]}
  <2>1. 1 \in P
    BY <1>4
  <2>2. ASSUME NEW k \in 1..(n - 1), k \in P PROVE k + 1 \in P
    <3>1. k \in 1..n /\ k + 1 \in 1..n /\ k + 1 \in 1..l.size /\ k + 1 # 1 /\ (k + 1) - 1 = k /\ k # n
      OBVIOUS
    <3>2. at[k + 1] = step[t[k]]
      BY <1>4, <2>2, <3>1
    <3> QED BY <3>1, <3>2 DEF After
  <2>3. \A k \in 1..n : k \in P
    <3> HIDE DEF P
    <3> QED BY <2>1, <2>2, IntervalInduction
  <2> QED BY <2>3
<1>6. \A k \in 1..n : Closes(k) <=> k = n
  <2> SUFFICES ASSUME NEW k \in 1..n PROVE Closes(k) <=> k = n
    OBVIOUS
  <2>0. Closes(k) <=> t[After(n, k)] = t[1]
    <3>1. at[k] = t[k] /\ step[t[k]] = t[After(n, k)]
      BY <1>5
    <3> QED BY <3>1
  <2>1. After(n, k) \in 1..n /\ 1 \in 1..n /\ (After(n, k) = 1 <=> k = n)
    BY DEF After
  <2> QED BY <2>0, <2>1
<1>7. Shortest = {n}
  <2>1. n \in Shortest
    <3>1. \A j \in 1..(n - 1) : j \in 1..n /\ j # n
      OBVIOUS
    <3>2. n \in 1..l.size /\ n \in 1..n
      OBVIOUS
    <3> QED BY <1>6, <3>1, <3>2
  <2>2. ASSUME NEW k \in Shortest PROVE k = n
    <3>1. CASE k <= n
      BY SMTT(30), <1>6, <2>2, <3>1
    <3>2. CASE ~(k <= n)
      <4>1. n \in 1..(k - 1) /\ n \in 1..n
        BY <3>2
      <4> QED BY <1>6, <4>1
    <3> QED BY <3>1, <3>2
  <2> HIDE DEF Shortest
  <2> QED BY <2>1, <2>2
<1>8. Shortest # {} /\ (CHOOSE k \in Shortest : TRUE) = n
  <2> HIDE DEF Shortest
  <2> QED BY <1>7
<1> HIDE DEF Shortest
<1>9. Walk(l, t[1], step) = [k \in 1..n |-> at[k]]
  BY <1>1, <1>8
<1>10. [k \in 1..n |-> at[k]] = [k \in 1..n |-> t[k]]
  BY <1>5
<1> QED BY <1>0, <1>9, <1>10, Zenon

\* Walking along next from the head gives the sequence of the ring
\* (indexed_list.hpp:131-136).
LEMMA ForwardIs ==
    ASSUME NEW l, IsList(l), NEW head, NEW s, Arranged(l, head, s)
    PROVE  Forward(l, head) = s
<1>1. CASE s = <<>>
  <2>1. head = null_index
    BY <1>1 DEF Arranged
  <2> QED BY <1>1, <2>1 DEF Forward, Walk
<1>2. CASE s # <<>>
  <2> DEFINE n == Len(s)  step == [i \in OrNull(l) |-> next_of(l, i)]
  <2>1. /\ n \in Nat \ {0} /\ n <= l.size /\ l.size \in Nat /\ head = s[1] /\ s[1] # null_index
        /\ s = [k \in 1..n |-> s[k]]
        /\ \A j, k \in 1..n : s[j] = s[k] => j = k
    BY SMTT(30), <1>2, NullIndexAssumption, ArrangedFacts, ArrangedLen DEF IsList
  <2>2. \A k \in 1..n : step[s[k]] = s[After(n, k)]
    BY ArrangedFacts DEF OrNull, next_of
  <2>3. Forward(l, head) = Walk(l, s[1], step)
    BY <2>1 DEF Forward
  <2> HIDE DEF n, step
  <2>4. Circles(l, step, s, n)
    BY <2>1, <2>2 DEF Circles
  <2> QED BY <2>3, <2>4, WalkIs
<1> QED BY <1>1, <1>2

\* Walking along prev from the last node gives it in reverse
\* (indexed_list.hpp:137-142).
LEMMA BackwardIs ==
    ASSUME NEW l, IsList(l), NEW head, NEW s, Arranged(l, head, s)
    PROVE  Backward(l, head) = [k \in 1..Len(s) |-> s[Len(s) + 1 - k]]
<1>1. CASE s = <<>>
  <2>1. head = null_index /\ Len(s) = 0
    BY <1>1 DEF Arranged
  <2>2. Backward(l, head) = <<>>
    BY <2>1 DEF Backward, Walk, previous
  <2>3. [k \in 1..0 |-> s[0 + 1 - k]] = <<>>
    OBVIOUS
  <2> QED BY <2>1, <2>2, <2>3
<1>2. CASE s # <<>>
  <2> DEFINE n == Len(s)  step == [i \in OrNull(l) |-> previous(l, i)]
             t == [k \in 1..n |-> s[n + 1 - k]]
  <2>1. /\ n \in Nat \ {0} /\ n <= l.size /\ l.size \in Nat /\ s \in [1..n -> Indices(l)]
        /\ \A j, k \in 1..n : s[j] = s[k] => j = k
        /\ null_index \notin Indices(l) /\ head = s[1] /\ s[1] \in Indices(l)
    BY SMTT(30), <1>2, NullIndexAssumption, ArrangedFacts, ArrangedLen DEF IsList
  <2>2. \A k \in 1..n : l.prev[s[After(n, k)]] = s[k]
    BY ArrangedFacts
  <2> HIDE DEF n
  <2>3. \A k \in 1..n : n + 1 - k \in 1..n /\ t[k] = s[n + 1 - k] /\ t[k] \in Indices(l)
    BY <2>1
  <2>4. \A j, k \in 1..n : t[j] = t[k] => j = k
    <3> SUFFICES ASSUME NEW j \in 1..n, NEW k \in 1..n, t[j] = t[k] PROVE j = k
      OBVIOUS
    <3>1. n + 1 - j = n + 1 - k
      BY <2>1, <2>3
    <3> QED BY <2>1, <3>1
  <2>5. ASSUME NEW k \in 1..n PROVE step[t[k]] = t[After(n, k)]
    <3>1. step[t[k]] = l.prev[t[k]]
      BY <2>1, <2>3 DEF OrNull, previous
    <3>2. CASE k = n
      <4>1. t[k] = s[1] /\ After(n, k) = 1 /\ 1 \in 1..n /\ t[1] = s[n] /\ After(n, n) = 1 /\ n \in 1..n
        BY <2>1, <3>2 DEF After
      <4> QED BY <2>2, <3>1, <4>1
    <3>3. CASE k # n
      <4>1. /\ After(n, k) = k + 1 /\ k + 1 \in 1..n /\ n - k \in 1..n /\ n + 1 - (k + 1) = n - k
            /\ After(n, n - k) = n + 1 - k
        BY <2>1, <3>3 DEF After
      <4>2. l.prev[s[n + 1 - k]] = s[n - k]
        BY <2>2, <4>1
      <4> QED BY <2>3, <3>1, <4>1, <4>2
    <3> QED BY <3>2, <3>3
  <2>6. previous(l, head) = t[1] /\ t[1] # null_index
    <3>1. 1 \in 1..n /\ n \in 1..n /\ After(n, n) = 1 /\ t[1] = s[n]
      BY <2>1 DEF After
    <3> QED BY <2>1, <2>2, <3>1 DEF previous
  <2>7. Backward(l, head) = Walk(l, t[1], step)
    BY <2>6 DEF Backward
  <2>8. [k \in 1..n |-> t[k]] = t
    OBVIOUS
  <2> HIDE DEF t, step
  <2>9. Backward(l, head) = t
    <3>1. Circles(l, step, t, n)
      BY <2>1, <2>4, <2>5, <2>6, <2>8 DEF Circles
    <3> QED BY <2>7, <3>1, WalkIs
  <2> QED BY <2>9 DEF t, n
<1> QED BY <1>1, <1>2

----------------------------------------------------------------------------
(* Links                                                                   *)

\* No index is null_index.
LEMMA IndexRange ==
    ASSUME NEW l, l.size \in 0..null_index
    PROVE  Indices(l) \subseteq 0..null_index /\ null_index \notin Indices(l)
BY NullIndexAssumption DEF Indices

\* remove_impl() link by link (indexed_list.hpp:176-183).
LEMMA RemoveImplLinks ==
    ASSUME NEW l, IsList(l), NEW x \in Indices(l),
           l.next[x] \in Indices(l), l.prev[x] \in Indices(l),
           NEW r, r = remove_impl(l, x)
    PROVE  /\ IsList(r) /\ r.size = l.size /\ Unlinked(r, x)
           /\ \A i \in Indices(l) : i # x =>
                 /\ r.next[i] = IF i = l.prev[x] THEN l.next[x] ELSE l.next[i]
                 /\ r.prev[i] = IF i = l.next[x] THEN l.prev[x] ELSE l.prev[i]
<1> USE NullIndexAssumption
<1>1. r = [size |-> l.size,
           next |-> [l.next EXCEPT ![l.prev[x]] = l.next[x], ![x] = null_index],
           prev |-> [l.prev EXCEPT ![l.next[x]] = l.prev[x], ![x] = null_index]]
  BY DEF remove_impl, IsList
<1>2. /\ r.next = [l.next EXCEPT ![l.prev[x]] = l.next[x], ![x] = null_index]
      /\ r.prev = [l.prev EXCEPT ![l.next[x]] = l.prev[x], ![x] = null_index]
      /\ r.size = l.size /\ r = [size |-> r.size, next |-> r.next, prev |-> r.prev]
  BY <1>1
<1>3. /\ r.next \in [Indices(l) -> 0..null_index] /\ r.prev \in [Indices(l) -> 0..null_index]
      /\ r.next[x] = null_index /\ r.prev[x] = null_index
  BY <1>2 DEF IsList
<1>4. \A i \in Indices(l) : i # x =>
         /\ r.next[i] = IF i = l.prev[x] THEN l.next[x] ELSE l.next[i]
         /\ r.prev[i] = IF i = l.next[x] THEN l.prev[x] ELSE l.prev[i]
  BY <1>2 DEF IsList
<1> QED BY <1>2, <1>3, <1>4 DEF IsList, Indices, Unlinked

\* insert_impl() link by link (indexed_list.hpp:167-175).
LEMMA InsertImplLinks ==
    ASSUME NEW l, IsList(l), NEW x \in Indices(l), NEW h \in Indices(l) \ {x},
           l.prev[h] \in Indices(l) \ {x},
           NEW r, r = insert_impl(l, h, x)
    PROVE  /\ IsList(r) /\ r.size = l.size
           /\ \A i \in Indices(l) :
                 /\ r.next[i] = IF i = l.prev[h] THEN x ELSE IF i = x THEN h ELSE l.next[i]
                 /\ r.prev[i] = IF i = h THEN x ELSE IF i = x THEN l.prev[h] ELSE l.prev[i]
<1> USE NullIndexAssumption
<1>1. r = [size |-> l.size,
           next |-> [l.next EXCEPT ![x] = h, ![l.prev[h]] = x],
           prev |-> [l.prev EXCEPT ![x] = l.prev[h], ![h] = x]]
  BY DEF insert_impl, IsList
<1>2. /\ r.next = [l.next EXCEPT ![x] = h, ![l.prev[h]] = x]
      /\ r.prev = [l.prev EXCEPT ![x] = l.prev[h], ![h] = x]
      /\ r.size = l.size /\ r = [size |-> r.size, next |-> r.next, prev |-> r.prev]
  BY <1>1
<1>3. r.next \in [Indices(l) -> 0..null_index] /\ r.prev \in [Indices(l) -> 0..null_index]
  BY <1>2, IndexRange DEF IsList
<1>4. \A i \in Indices(l) :
         /\ r.next[i] = IF i = l.prev[h] THEN x ELSE IF i = x THEN h ELSE l.next[i]
         /\ r.prev[i] = IF i = h THEN x ELSE IF i = x THEN l.prev[h] ELSE l.prev[i]
  BY <1>2 DEF IsList
<1> QED BY <1>2, <1>3, <1>4 DEF IsList, Indices

\* A node linked to itself (indexed_list.hpp:155-166).
LEMMA SingleLinks ==
    ASSUME NEW l, IsList(l), NEW x \in Indices(l), NEW r, r = SingleLink(l, x)
    PROVE  /\ IsList(r) /\ r.size = l.size /\ r.next[x] = x /\ r.prev[x] = x
           /\ \A i \in Indices(l) \ {x} : r.next[i] = l.next[i] /\ r.prev[i] = l.prev[i]
<1>1. r = [size |-> l.size, next |-> [l.next EXCEPT ![x] = x], prev |-> [l.prev EXCEPT ![x] = x]]
  BY DEF SingleLink, IsList
<1>2. /\ r.next = [l.next EXCEPT ![x] = x] /\ r.prev = [l.prev EXCEPT ![x] = x]
      /\ r.size = l.size /\ r = [size |-> r.size, next |-> r.next, prev |-> r.prev]
  BY <1>1
<1>3. x \in 0..null_index
  BY NullIndexAssumption, IndexRange DEF IsList
<1>4. /\ r.next \in [Indices(l) -> 0..null_index] /\ r.prev \in [Indices(l) -> 0..null_index]
      /\ r.next[x] = x /\ r.prev[x] = x
      /\ \A i \in Indices(l) \ {x} : r.next[i] = l.next[i] /\ r.prev[i] = l.prev[i]
  BY <1>2, <1>3 DEF IsList
<1> QED BY <1>2, <1>4 DEF IsList, Indices

\* A node without links (indexed_list.hpp:92-106).
LEMMA UnlinkLinks ==
    ASSUME NEW l, IsList(l), NEW x \in Indices(l), NEW r, r = Unlink(l, x)
    PROVE  /\ IsList(r) /\ r.size = l.size /\ Unlinked(r, x)
           /\ \A i \in Indices(l) \ {x} : r.next[i] = l.next[i] /\ r.prev[i] = l.prev[i]
<1>1. r = [size |-> l.size, next |-> [l.next EXCEPT ![x] = null_index],
                            prev |-> [l.prev EXCEPT ![x] = null_index]]
  BY DEF Unlink, IsList
<1>2. /\ r.next = [l.next EXCEPT ![x] = null_index] /\ r.prev = [l.prev EXCEPT ![x] = null_index]
      /\ r.size = l.size /\ r = [size |-> r.size, next |-> r.next, prev |-> r.prev]
  BY <1>1
<1>3. null_index \in 0..null_index
  BY NullIndexAssumption
<1>4. /\ r.next \in [Indices(l) -> 0..null_index] /\ r.prev \in [Indices(l) -> 0..null_index]
      /\ r.next[x] = null_index /\ r.prev[x] = null_index
      /\ \A i \in Indices(l) \ {x} : r.next[i] = l.next[i] /\ r.prev[i] = l.prev[i]
  BY <1>2, <1>3 DEF IsList
<1> QED BY <1>2, <1>4 DEF IsList, Indices, Unlinked

----------------------------------------------------------------------------
(* Rings                                                                   *)

\* r is l with other links at the nodes of D only.
Touches(r, l, D) ==
    /\ IsList(r) /\ r.size = l.size
    /\ \A i \in Indices(l) \ D : r.next[i] = l.next[i] /\ r.prev[i] = l.prev[i]

\* s with x after position p, and without what is at p.
Joined(s, p, x) ==
    [k \in 1..(Len(s) + 1) |-> IF k <= p THEN s[k] ELSE IF k = p + 1 THEN x ELSE s[k - 1]]
Dropped(s, p) == [k \in 1..(Len(s) - 1) |-> IF k < p THEN s[k] ELSE s[k + 1]]

\* The links of the nodes of a ring stay in the ring and are inverse to each other.
LEMMA RingLinks ==
    ASSUME NEW l, IsList(l), NEW head, NEW s, Arranged(l, head, s), NEW i \in Nodes(s)
    PROVE  /\ Nodes(s) \subseteq Indices(l)
           /\ l.next[i] \in Nodes(s) /\ l.prev[i] \in Nodes(s)
           /\ l.prev[l.next[i]] = i /\ l.next[l.prev[i]] = i
<1> DEFINE n == Len(s)
<1>1. PICK k \in 1..n : s[k] = i
  BY DEF Nodes
<1>2. /\ n \in Nat
      /\ \A j \in 1..n : /\ After(n, j) \in 1..n /\ s[j] \in Indices(l)
                        /\ l.next[s[j]] = s[After(n, j)] /\ l.prev[s[After(n, j)]] = s[j]
  BY ArrangedFacts
<1>3. Nodes(s) = {s[j] : j \in 1..n}
  BY DEF Nodes
<1> HIDE DEF n
<1>4. PICK j \in 1..n : After(n, j) = k
  <2>1. CASE k = 1
    <3>1. n \in 1..n /\ After(n, n) = 1
      BY <1>1, <1>2 DEF After
    <3> QED BY <2>1, <3>1
  <2>2. CASE k # 1
    <3>1. k - 1 \in 1..n /\ After(n, k - 1) = k
      BY <1>1, <1>2, <2>2 DEF After
    <3> QED BY <3>1
  <2> QED BY <2>1, <2>2
<1>5. l.next[i] = s[After(n, k)] /\ l.prev[s[After(n, k)]] = i /\ After(n, k) \in 1..n
  BY <1>1, <1>2
<1>6. l.prev[i] = s[j] /\ l.next[s[j]] = i
  BY <1>1, <1>2, <1>4
<1>7. Nodes(s) \subseteq Indices(l)
  BY <1>2, <1>3
<1> QED BY <1>3, <1>4, <1>5, <1>6, <1>7

\* A function on positions is a sequence.
LEMMA IsSeq ==
    ASSUME NEW n \in Nat, NEW S, NEW t \in [1..n -> S]
    PROVE  t \in Seq(S) /\ Len(t) = n
<1>1. t \in Seq(S)
  BY SeqDef
<1>2. DOMAIN t = 1..n /\ DOMAIN t = 1..Len(t) /\ Len(t) \in Nat
  BY <1>1, LenProperties
<1> QED BY <1>1, <1>2

\* A ring whose links stay is a ring.
LEMMA ArrangedKept ==
    ASSUME NEW l, IsList(l), NEW r, IsList(r),
           NEW head, NEW s, Arranged(l, head, s), Nodes(s) \subseteq Indices(r),
           \A i \in Nodes(s) : r.next[i] = l.next[i] /\ r.prev[i] = l.prev[i]
    PROVE  Arranged(r, head, s)
<1>1. s \in [1..Len(s) -> Indices(r)] /\ Len(s) \in Nat
  <2>1. s \in [1..Len(s) -> Indices(l)] /\ Len(s) \in Nat
    BY ArrangedFacts
  <2>2. \A k \in 1..Len(s) : s[k] \in Indices(r)
    BY DEF Nodes
  <2> QED BY <2>1, <2>2
<1>2. s \in Seq(Indices(r))
  BY <1>1, IsSeq
<1>3. \A k \in 1..Len(s) : /\ r.next[s[k]] = s[After(Len(s), k)]
                         /\ r.prev[s[After(Len(s), k)]] = s[k]
  <2> SUFFICES ASSUME NEW k \in 1..Len(s)
               PROVE  /\ r.next[s[k]] = s[After(Len(s), k)]
                      /\ r.prev[s[After(Len(s), k)]] = s[k]
    OBVIOUS
  <2>1. After(Len(s), k) \in 1..Len(s)
    BY ArrangedFacts
  <2>2. s[k] \in Nodes(s) /\ s[After(Len(s), k)] \in Nodes(s)
    BY <2>1 DEF Nodes
  <2>3. l.next[s[k]] = s[After(Len(s), k)] /\ l.prev[s[After(Len(s), k)]] = s[k]
    BY DEF Arranged
  <2> QED BY <2>2, <2>3
<1> QED BY <1>2, <1>3 DEF Arranged

\* What makes a function on positions the sequence of a ring.
LEMMA ArrangedIf ==
    ASSUME NEW l, NEW n \in Nat, NEW t \in [1..n -> Indices(l)],
           \A j, k \in 1..n : t[j] = t[k] => j = k,
           \A k \in 1..n : l.next[t[k]] = t[After(n, k)] /\ l.prev[t[After(n, k)]] = t[k],
           NEW head, head = IF n = 0 THEN null_index ELSE t[1]
    PROVE  Arranged(l, head, t)
<1>1. t \in Seq(Indices(l)) /\ Len(t) = n
  BY IsSeq
<1>2. t = <<>> <=> n = 0
  BY <1>1, EmptySeq
<1> QED BY <1>1, <1>2 DEF Arranged

\* The positions of an arrangement that x joined after position p.
LEMMA JoinedProperties ==
    ASSUME NEW S, NEW s \in Seq(S), NEW n, n = Len(s), NEW p \in 0..n, NEW x,
           NEW t, t = Joined(s, p, x)
    PROVE  /\ t \in [1..(n + 1) -> S \cup {x}]
           /\ \A k \in 1..p : t[k] = s[k]
           /\ t[p + 1] = x
           /\ \A k \in (p + 1)..n : t[k + 1] = s[k]
           /\ x \notin Nodes(s) /\ (\A j, k \in 1..n : s[j] = s[k] => j = k) =>
                \A j, k \in 1..(n + 1) : t[j] = t[k] => j = k
<1>1. n \in Nat /\ s \in [1..n -> S] /\ p \in 0..n
  BY LenProperties
<1>a. t = [k \in 1..(n + 1) |-> IF k <= p THEN s[k] ELSE IF k = p + 1 THEN x ELSE s[k - 1]]
  BY DEF Joined
<1>b. Nodes(s) = {s[k] : k \in 1..n}
  BY DEF Nodes
<1>2. ASSUME NEW k \in 1..(n + 1)
      PROVE  /\ k <= p => t[k] = s[k] /\ k \in 1..n
             /\ k = p + 1 => t[k] = x
             /\ k > p + 1 => t[k] = s[k - 1] /\ k - 1 \in 1..n
             /\ t[k] \in S \cup {x}
  <2>1. k \in Nat /\ (k <= p \/ k = p + 1 \/ k > p + 1)
    BY <1>1
  <2>2. k <= p => t[k] = s[k] /\ k \in 1..n
    BY <1>1, <1>a
  <2>3. k = p + 1 => t[k] = x
    BY <1>1, <1>a
  <2>4. k > p + 1 => t[k] = s[k - 1] /\ k - 1 \in 1..n
    BY <1>1, <1>a
  <2> QED BY <1>1, <2>1, <2>2, <2>3, <2>4
<1>3. t \in [1..(n + 1) -> S \cup {x}]
  BY <1>2, <1>a
<1>4. ASSUME x \notin Nodes(s), \A j, k \in 1..n : s[j] = s[k] => j = k,
             NEW j \in 1..(n + 1), NEW k \in 1..(n + 1), t[j] = t[k]
      PROVE  j = k
  <2>1. \A i \in 1..n : s[i] # x
    BY <1>4, <1>b
  <2>2. CASE j = p + 1
    BY <1>1, <1>2, <1>4, <2>1, <2>2
  <2>3. CASE k = p + 1
    BY <1>1, <1>2, <1>4, <2>1, <2>3
  <2>4. CASE j # p + 1 /\ k # p + 1
    <3> DEFINE at(i) == IF i <= p THEN i ELSE i - 1
    <3>1. at(j) \in 1..n /\ at(k) \in 1..n /\ t[j] = s[at(j)] /\ t[k] = s[at(k)]
      BY <1>1, <1>2, <2>4
    <3>2. at(j) = at(k)
      <4> HIDE DEF at
      <4> QED BY <1>4, <3>1
    <3> QED BY <1>1, <2>4, <3>2
  <2> QED BY <2>2, <2>3, <2>4
<1>5. x \notin Nodes(s) /\ (\A j, k \in 1..n : s[j] = s[k] => j = k) =>
         \A j, k \in 1..(n + 1) : t[j] = t[k] => j = k
  BY <1>4
<1>6. \A k \in 1..p : t[k] = s[k]
  BY <1>1, <1>a
<1>7. t[p + 1] = x
  BY <1>1, <1>a
<1>8. \A k \in (p + 1)..n : t[k + 1] = s[k]
  BY <1>1, <1>a
<1> QED BY <1>3, <1>5, <1>6, <1>7, <1>8

\* The positions that are left without position p.
LEMMA DroppedProperties ==
    ASSUME NEW S, NEW s \in Seq(S), NEW n, n = Len(s), NEW p \in 1..n,
           NEW t, t = Dropped(s, p),
           \A j, k \in 1..n : s[j] = s[k] => j = k
    PROVE  /\ t \in [1..(n - 1) -> S]
           /\ \A k \in 1..(p - 1) : t[k] = s[k]
           /\ \A k \in p..(n - 1) : t[k] = s[k + 1]
           /\ \A j, k \in 1..(n - 1) : t[j] = t[k] => j = k
           /\ \A k \in 1..(n - 1) : t[k] # s[p]
<1>1. n \in Nat /\ s \in [1..n -> S] /\ p \in 1..n
  BY LenProperties
<1>a. t = [k \in 1..(n - 1) |-> IF k < p THEN s[k] ELSE s[k + 1]]
  BY DEF Dropped
<1>2. ASSUME NEW k \in 1..(n - 1)
      PROVE  /\ k < p => t[k] = s[k]
             /\ k >= p => t[k] = s[k + 1]
             /\ k \in 1..n /\ k + 1 \in 1..n
             /\ t[k] \in S
  <2>1. k \in 1..n /\ k + 1 \in 1..n /\ (k < p \/ k >= p)
    BY <1>1
  <2>2. (k < p => t[k] = s[k]) /\ (k >= p => t[k] = s[k + 1])
    BY <1>1, <1>a
  <2>3. s[k] \in S /\ s[k + 1] \in S
    BY <1>1, <2>1
  <2> QED BY <2>1, <2>2, <2>3
<1>3. t \in [1..(n - 1) -> S]
  BY <1>2, <1>a
<1>4. ASSUME NEW j \in 1..(n - 1)
      PROVE  t[j] # s[p] /\ \A k \in 1..(n - 1) : t[j] = t[k] => j = k
  <2> DEFINE at(i) == IF i < p THEN i ELSE i + 1
  <2>1. \A i \in 1..(n - 1) : at(i) \in 1..n /\ t[i] = s[at(i)] /\ at(i) # p
    BY <1>1, <1>2
  <2>2. \A k \in 1..(n - 1) : at(j) = at(k) => j = k
    BY <1>1
  <2> HIDE DEF at
  <2> QED BY <1>1, <2>1, <2>2
<1>5. \A k \in 1..(p - 1) : t[k] = s[k]
  BY <1>1, <1>a
<1>6. \A k \in p..(n - 1) : t[k] = s[k + 1]
  BY <1>1, <1>a
<1> QED BY <1>3, <1>4, <1>5, <1>6

\* insert() puts x after position p of the ring and touches no other ring
\* (indexed_list.hpp:107-114, 155-175).
LEMMA InsertArranges ==
    ASSUME NEW l, IsList(l), NEW head, NEW s, Arranged(l, head, s),
           NEW x \in Indices(l) \ Nodes(s), NEW p \in 0..Len(s),
           NEW nx, nx = IF p = Len(s) THEN null_index ELSE s[p + 1],
           NEW r, r = insert(l, head, nx, x)
    PROVE  /\ Arranged(r.list, r.head, Joined(s, p, x))
           /\ Touches(r.list, l, Nodes(s) \cup {x})
<1> DEFINE n == Len(s)  t == Joined(s, p, x)
<1>1. /\ n \in Nat /\ s \in [1..n -> Indices(l)] /\ p \in 0..n
      /\ null_index \notin Indices(l) /\ Nodes(s) = {s[k] : k \in 1..n}
      /\ s = <<>> <=> n = 0
      /\ n = 0 => head = null_index
      /\ n # 0 => head = s[1] /\ head \in Indices(l)
      /\ \A j, k \in 1..n : s[j] = s[k] => j = k
      /\ \A k \in 1..n : s[k] \in Indices(l) /\ s[k] # x
      /\ nx = IF p = n THEN null_index ELSE s[p + 1]
  BY ArrangedFacts DEF Nodes
<1>2. \A k \in 1..n : /\ After(n, k) \in 1..n
                     /\ l.next[s[k]] = s[After(n, k)] /\ l.prev[s[After(n, k)]] = s[k]
  BY ArrangedFacts
<1>3. /\ n \in Nat /\ p \in Nat /\ p <= n /\ s \in [1..n -> Indices(l)]
      /\ t \in [1..(n + 1) -> Indices(l) \cup {x}]
      /\ \A k \in 1..p : t[k] = s[k]
      /\ t[p + 1] = x
      /\ \A k \in (p + 1)..n : t[k + 1] = s[k]
      /\ \A j, k \in 1..(n + 1) : t[j] = t[k] => j = k
  <2>1. s \in Seq(Indices(l)) /\ x \notin Nodes(s)
    BY ArrangedFacts
  <2>2. n = Len(s) /\ t = Joined(s, p, x)
    OBVIOUS
  <2> HIDE DEF n, t
  <2> QED BY SMTT(30), <1>1, <2>1, <2>2, JoinedProperties
<1> HIDE DEF n, t
<1>4. t \in [1..(n + 1) -> Indices(l)] /\ t[1] = IF p = 0 THEN x ELSE s[1]
  <2>1. (p = 0 => 1 = p + 1) /\ (p # 0 => 1 \in 1..p)
    BY <1>1
  <2> QED BY <1>3, <2>1
<1>5. CASE n = 0
  <2>1. r.list = SingleLink(l, x) /\ r.head = x
    BY <1>1, <1>5 DEF insert, push, WithHead
  <2>2. /\ IsList(r.list) /\ r.list.size = l.size /\ r.list.next[x] = x /\ r.list.prev[x] = x
        /\ \A i \in Indices(l) \ {x} : r.list.next[i] = l.next[i] /\ r.list.prev[i] = l.prev[i]
    BY <2>1, SingleLinks
  <2>3. Indices(r.list) = Indices(l)
    BY <2>2 DEF Indices
  <2>4. t[1] = x /\ n + 1 = 1 /\ p = 0
    BY <1>1, <1>3, <1>5
  <2>5. Arranged(r.list, r.head, t)
    <3>1. \A k \in 1..1 : r.list.next[t[k]] = t[After(1, k)] /\ r.list.prev[t[After(1, k)]] = t[k]
      BY <2>2, <2>4 DEF After
    <3> QED BY <1>3, <1>4, <2>1, <2>3, <2>4, <3>1, ArrangedIf
  <2> QED BY <2>2, <2>5 DEF Touches, t
<1>6. CASE n # 0
  <2> DEFINE q == IF p = 0 THEN n ELSE p  y == s[After(n, q)]
  <2>1. q \in 1..n /\ After(n, q) = IF p \in {0, n} THEN 1 ELSE p + 1
    BY <1>1, <1>6 DEF After
  <2>2. y \in Indices(l) \ {x} /\ l.prev[y] = s[q] /\ s[q] \in Indices(l) \ {x}
    BY <1>1, <1>2, <2>1
  <2>3. r.list = insert_impl(l, y, x) /\ r.head = IF p = 0 THEN x ELSE head
    <3>1. CASE p = 0
      <4>1. nx = head /\ y = head /\ head # null_index
        BY <1>1, <1>6, <2>1, <3>1
      <4> QED BY <3>1, <4>1 DEF insert, push, WithHead
    <3>2. CASE p = n
      <4>1. nx = null_index /\ y = head /\ head # null_index /\ p # 0
        BY <1>1, <1>6, <2>1, <3>2
      <4> QED BY <4>1 DEF insert, WithHead
    <3>3. CASE p # 0 /\ p # n
      <4>1. nx = s[p + 1] /\ y = nx /\ p + 1 \in 1..n /\ p + 1 # 1 /\ 1 \in 1..n
        BY <1>1, <1>6, <2>1, <3>3
      <4>2. nx # head /\ nx # null_index
        BY <1>1, <4>1
      <4> QED BY <3>3, <4>1, <4>2 DEF insert, WithHead
    <3> QED BY <3>1, <3>2, <3>3
  <2>4. /\ IsList(r.list) /\ r.list.size = l.size
        /\ \A i \in Indices(l) :
              /\ r.list.next[i] = IF i = s[q] THEN x ELSE IF i = x THEN y ELSE l.next[i]
              /\ r.list.prev[i] = IF i = y THEN x ELSE IF i = x THEN s[q] ELSE l.prev[i]
    BY <2>2, <2>3, InsertImplLinks
  <2>5. Indices(r.list) = Indices(l)
    BY <2>4 DEF Indices
  <2>6. \A k \in 1..n : /\ r.list.next[s[k]] = IF k = q THEN x ELSE s[After(n, k)]
                       /\ r.list.prev[s[After(n, k)]] = IF k = q THEN x ELSE s[k]
    <3> SUFFICES ASSUME NEW k \in 1..n
                 PROVE  /\ r.list.next[s[k]] = IF k = q THEN x ELSE s[After(n, k)]
                        /\ r.list.prev[s[After(n, k)]] = IF k = q THEN x ELSE s[k]
      OBVIOUS
    <3>1. s[k] = s[q] <=> k = q
      BY <1>1, <2>1
    <3>2. s[After(n, k)] = y <=> k = q
      <4>1. s[After(n, k)] = y => l.prev[s[After(n, k)]] = l.prev[y]
        OBVIOUS
      <4> QED BY <1>2, <2>2, <3>1, <4>1
    <3>3. s[k] \in Indices(l) \ {x} /\ s[After(n, k)] \in Indices(l) \ {x}
      BY <1>1, <1>2
    <3> QED BY SMTT(30), <1>2, <2>4, <3>1, <3>2, <3>3
  <2>7. r.list.next[x] = y /\ r.list.prev[x] = s[q] /\ r.list.prev[y] = x
    BY <2>2, <2>4
  <2> HIDE DEF q, y
  <2>8. ASSUME NEW k \in 1..(n + 1)
        PROVE  r.list.next[t[k]] = t[After(n + 1, k)] /\ r.list.prev[t[After(n + 1, k)]] = t[k]
    <3>q. q = (IF p = 0 THEN n ELSE p) /\ y = s[After(n, q)]
      BY DEF q, y
    <3>1. CASE k < p
      <4>1. /\ k \in 1..n /\ k # q /\ After(n, k) = k + 1 /\ After(n + 1, k) = k + 1
            /\ k \in 1..p /\ k + 1 \in 1..p
        BY <1>1, <3>1, <3>q DEF After
      <4>2. t[k] = s[k] /\ t[k + 1] = s[k + 1]
        BY <1>3, <4>1
      <4> QED BY <2>6, <4>1, <4>2
    <3>2. CASE k = p
      <4>1. k \in 1..n /\ k = q /\ After(n + 1, k) = p + 1 /\ p \in 1..p
        BY <1>1, <3>2, <3>q DEF After
      <4>2. t[k] = s[q] /\ t[p + 1] = x
        BY <1>3, <3>2, <4>1
      <4> QED BY <2>6, <2>7, <4>1, <4>2
    <3>3. CASE k = p + 1
      <4>1. t[k] = x
        BY <1>3, <3>3
      <4>2. t[After(n + 1, k)] = y
        <5>1. CASE p = n
          <6>1. After(n + 1, k) = 1 /\ p # 0 /\ After(n, q) = 1
            BY <1>1, <1>6, <3>3, <3>q, <5>1 DEF After
          <6> QED BY <1>4, <3>q, <6>1
        <5>2. CASE p # n
          <6>1. After(n + 1, k) = (p + 1) + 1 /\ p + 1 \in (p + 1)..n
            BY <1>1, <3>3, <5>2 DEF After
          <6>2. After(n, q) = p + 1
            BY <1>1, <1>6, <3>q, <5>2 DEF After
          <6> QED BY <1>3, <3>q, <6>1, <6>2
        <5> QED BY <5>1, <5>2
      <4> QED BY <2>7, <4>1, <4>2
    <3>4. CASE k > p + 1 /\ k # n + 1
      <4>1. /\ k - 1 \in 1..n /\ k - 1 # q /\ After(n, k - 1) = k /\ After(n + 1, k) = k + 1
            /\ k - 1 \in (p + 1)..n /\ k \in (p + 1)..n /\ (k - 1) + 1 = k
        BY <1>1, <3>4, <3>q DEF After
      <4>2. t[k] = s[k - 1] /\ t[k + 1] = s[k]
        BY <1>3, <4>1
      <4> QED BY <2>6, <4>1, <4>2
    <3>5. CASE k > p + 1 /\ k = n + 1
      <4>1. n \in 1..n /\ After(n, n) = 1 /\ After(n + 1, k) = 1 /\ n \in (p + 1)..n
        BY <1>1, <1>6, <3>5 DEF After
      <4>2. t[k] = s[n]
        BY <1>3, <3>5, <4>1
      <4>3. CASE p = 0
        BY <1>4, <2>6, <2>7, <3>q, <4>1, <4>2, <4>3
      <4>4. CASE p # 0
        <5>1. n # q /\ t[1] = s[1]
          BY <1>1, <1>4, <3>5, <3>q, <4>4
        <5> QED BY <2>6, <4>1, <4>2, <5>1
      <4> QED BY <4>3, <4>4
    <3> QED BY <1>1, <3>1, <3>2, <3>3, <3>4, <3>5
  <2>9. Arranged(r.list, r.head, t)
    <3>1. r.head = t[1]
      BY <1>1, <1>4, <1>6, <2>3
    <3>2. n + 1 \in Nat /\ n + 1 # 0
      BY <1>1
    <3> QED BY ZenonT(30), <1>3, <1>4, <2>5, <2>8, <3>1, <3>2, ArrangedIf
  <2>10. Touches(r.list, l, Nodes(s) \cup {x})
    <3> SUFFICES ASSUME NEW i \in Indices(l) \ (Nodes(s) \cup {x})
                 PROVE  r.list.next[i] = l.next[i] /\ r.list.prev[i] = l.prev[i]
      BY <2>4 DEF Touches
    <3>1. i # s[q] /\ i # y /\ i # x
      BY <1>1, <1>2, <2>1 DEF y
    <3> QED BY <2>4, <3>1
  <2> QED BY <2>9, <2>10 DEF t
<1> QED BY <1>5, <1>6

\* remove() takes the node at position p out of the ring, leaves it without links
\* and touches no other ring (indexed_list.hpp:92-106, 115-123, 176-183).
LEMMA RemoveArranges ==
    ASSUME NEW l, IsList(l), NEW head, NEW s, Arranged(l, head, s),
           NEW p \in 1..Len(s), NEW r, r = remove(l, head, s[p])
    PROVE  /\ Arranged(r.list, r.head, Dropped(s, p))
           /\ Touches(r.list, l, Nodes(s)) /\ Unlinked(r.list, s[p])
<1> DEFINE n == Len(s)  t == Dropped(s, p)  x == s[p]
<1>1. /\ n \in Nat \ {0} /\ p \in 1..n /\ s \in [1..n -> Indices(l)]
      /\ null_index \notin Indices(l) /\ Nodes(s) = {s[k] : k \in 1..n}
      /\ head = s[1] /\ head \in Indices(l) /\ x \in Indices(l) /\ x = s[p]
      /\ \A j, k \in 1..n : s[j] = s[k] => j = k
      /\ \A k \in 1..n : s[k] \in Indices(l)
  <2>1. n \in Nat /\ s # <<>>
    BY ArrangedFacts
  <2> QED BY <2>1, ArrangedFacts DEF Nodes
<1>2. \A k \in 1..n : /\ After(n, k) \in 1..n
                     /\ l.next[s[k]] = s[After(n, k)] /\ l.prev[s[After(n, k)]] = s[k]
  BY ArrangedFacts
<1>3. /\ n \in Nat /\ n - 1 \in Nat /\ t \in [1..(n - 1) -> Indices(l)]
      /\ \A k \in 1..(p - 1) : t[k] = s[k]
      /\ \A k \in p..(n - 1) : t[k] = s[k + 1]
      /\ \A j, k \in 1..(n - 1) : t[j] = t[k] => j = k
      /\ \A k \in 1..(n - 1) : t[k] # x
  <2>1. s \in Seq(Indices(l))
    BY ArrangedFacts
  <2>2. n = Len(s) /\ t = Dropped(s, p) /\ x = s[p]
    OBVIOUS
  <2>3. n \in Nat /\ n - 1 \in Nat /\ p \in 1..n
    BY <1>1
  <2> HIDE DEF n, t, x
  <2>i. \A j, k \in 1..n : s[j] = s[k] => j = k
    BY <1>1
  <2>4. t \in [1..(n - 1) -> Indices(l)]
    BY SMTT(30), <2>1, <2>2, <2>3, <2>i, DroppedProperties
  <2>5. \A k \in 1..(p - 1) : t[k] = s[k]
    BY SMTT(30), <2>1, <2>2, <2>3, <2>i, DroppedProperties
  <2>6. \A k \in p..(n - 1) : t[k] = s[k + 1]
    BY SMTT(30), <2>1, <2>2, <2>3, <2>i, DroppedProperties
  <2>7. \A j, k \in 1..(n - 1) : t[j] = t[k] => j = k
    BY SMTT(30), <2>1, <2>2, <2>3, <2>i, DroppedProperties
  <2>8. \A k \in 1..(n - 1) : t[k] # s[p]
    BY SMTT(30), <2>1, <2>2, <2>3, <2>i, DroppedProperties
  <2> QED BY <1>1, <2>2, <2>3, <2>4, <2>5, <2>6, <2>7, <2>8
<1>4. r = remove(l, head, x)
  OBVIOUS
<1> HIDE DEF n, t, x
<1>5. CASE n = 1
  <2>1. p = 1 /\ head = x /\ l.prev[head] = head
    BY <1>1, <1>2, <1>5 DEF After
  <2>2. r.list = Unlink(l, x) /\ r.head = null_index
    BY <1>4, <2>1 DEF remove, pop, WithHead
  <2>3. /\ IsList(r.list) /\ r.list.size = l.size /\ Unlinked(r.list, x)
        /\ \A i \in Indices(l) \ {x} : r.list.next[i] = l.next[i] /\ r.list.prev[i] = l.prev[i]
    BY <1>1, <2>2, UnlinkLinks
  <2>4. Indices(r.list) = Indices(l)
    BY <2>3 DEF Indices
  <2>5. Arranged(r.list, r.head, t)
    <3>1. n - 1 = 0 /\ 0 \in Nat
      BY <1>5
    <3>2. /\ t \in [1..0 -> Indices(r.list)]
          /\ \A j, k \in 1..0 : t[j] = t[k] => j = k
          /\ \A k \in 1..0 : r.list.next[t[k]] = t[After(0, k)] /\ r.list.prev[t[After(0, k)]] = t[k]
      BY <1>3, <2>4, <3>1
    <3> QED BY <2>2, <3>1, <3>2, ArrangedIf
  <2> QED BY <1>1, <2>3, <2>5 DEF Touches, t, x
<1>6. CASE n # 1
  <2> DEFINE a == IF p = 1 THEN n ELSE p - 1  b == After(n, p)  m == n - 1
  <2>1. /\ a \in 1..n /\ a # p /\ After(n, a) = p /\ b \in 1..n /\ b # p
        /\ b = (IF p = n THEN 1 ELSE p + 1) /\ m \in Nat \ {0}
    BY <1>1, <1>6 DEF After
  <2>2. l.prev[x] = s[a] /\ l.next[x] = s[b]
    BY <1>1, <1>2, <2>1
  <2>3. r.list = remove_impl(l, x) /\ r.head = IF p = 1 THEN s[b] ELSE head
    <3>1. CASE p = 1
      <4>1. head = x /\ l.prev[head] # head
        BY <1>1, <2>1, <2>2, <3>1
      <4> QED BY <1>4, <2>2, <3>1, <4>1 DEF remove, pop, WithHead
    <3>2. CASE p # 1
      <4>1. head # x
        <5>1. 1 \in 1..n
          BY <1>1
        <5> QED BY <1>1, <3>2, <5>1
      <4> QED BY <1>4, <3>2, <4>1 DEF remove, WithHead
    <3> QED BY <3>1, <3>2
  <2>4. /\ IsList(r.list) /\ r.list.size = l.size /\ Unlinked(r.list, x)
        /\ \A i \in Indices(l) : i # x =>
              /\ r.list.next[i] = IF i = s[a] THEN s[b] ELSE l.next[i]
              /\ r.list.prev[i] = IF i = s[b] THEN s[a] ELSE l.prev[i]
    <3>1. l.prev[x] \in Indices(l) /\ l.next[x] \in Indices(l)
      BY <1>1, <2>1, <2>2
    <3> QED BY <1>1, <2>2, <2>3, <3>1, RemoveImplLinks
  <2>5. Indices(r.list) = Indices(l)
    BY <2>4 DEF Indices
  <2> HIDE DEF a, b, m
  <2>6. /\ \A k \in 1..n : k # p => r.list.next[s[k]] = IF k = a THEN s[b] ELSE l.next[s[k]]
        /\ \A k \in 1..n : k # p => r.list.prev[s[k]] = IF k = b THEN s[a] ELSE l.prev[s[k]]
    BY <1>1, <2>1, <2>4
  <2>ab. a = (IF p = 1 THEN n ELSE p - 1) /\ m = n - 1
    BY DEF a, m
  <2>7. ASSUME NEW k \in 1..(n - 1), k # p, k + 1 # p, k # a, k + 1 # b
        PROVE  r.list.next[s[k]] = s[k + 1] /\ r.list.prev[s[k + 1]] = s[k]
    <3>1. k \in 1..n /\ k + 1 \in 1..n /\ After(n, k) = k + 1
      BY <1>1 DEF After
    <3>2. l.next[s[k]] = s[k + 1] /\ l.prev[s[k + 1]] = s[k]
      BY <1>2, <3>1
    <3>3. r.list.next[s[k]] = l.next[s[k]] /\ r.list.prev[s[k + 1]] = l.prev[s[k + 1]]
      BY <2>6, <2>7, <3>1
    <3> QED BY <3>2, <3>3
  <2>8. r.list.next[s[a]] = s[b] /\ r.list.prev[s[b]] = s[a]
    BY <2>1, <2>6
  <2>9. ASSUME NEW k \in 1..m
        PROVE  r.list.next[t[k]] = t[After(m, k)] /\ r.list.prev[t[After(m, k)]] = t[k]
    <3>1. CASE k < p - 1
      <4>1. /\ After(m, k) = k + 1 /\ k \in 1..(p - 1) /\ k + 1 \in 1..(p - 1) /\ k \in 1..(n - 1)
            /\ k # p /\ k + 1 # p /\ k # a /\ k + 1 # b
        BY <1>1, <2>1, <2>ab, <3>1 DEF After
      <4>2. t[k] = s[k] /\ t[k + 1] = s[k + 1]
        BY <1>3, <4>1
      <4>3. r.list.next[s[k]] = s[k + 1] /\ r.list.prev[s[k + 1]] = s[k]
        BY <2>7, <4>1
      <4> QED BY <4>1, <4>2, <4>3
    <3>2. CASE k = p - 1
      <4>1. k = a /\ k \in 1..(p - 1)
        BY <1>1, <2>ab, <3>2
      <4>2. t[k] = s[a]
        BY <1>3, <4>1
      <4>3. t[After(m, k)] = s[b]
        <5>1. CASE p = n
          <6>1. After(m, k) = 1 /\ b = 1 /\ 1 \in 1..(p - 1)
            BY <1>1, <2>1, <2>ab, <3>2, <5>1 DEF After
          <6> QED BY <1>3, <6>1
        <5>2. CASE p # n
          <6>1. After(m, k) = p /\ b = p + 1 /\ p \in p..(n - 1)
            BY <1>1, <2>1, <2>ab, <3>2, <5>2 DEF After
          <6> QED BY <1>3, <6>1
        <5> QED BY <5>1, <5>2
      <4> QED BY <2>8, <4>2, <4>3
    <3>3. CASE k >= p /\ k # m
      <4>1. /\ After(m, k) = k + 1 /\ k \in p..(n - 1) /\ k + 1 \in p..(n - 1) /\ k + 1 \in 1..(n - 1)
            /\ k + 1 # p /\ (k + 1) + 1 # p /\ k + 1 # a /\ (k + 1) + 1 # b
        BY <1>1, <2>1, <2>ab, <3>3 DEF After
      <4>2. t[k] = s[k + 1] /\ t[k + 1] = s[(k + 1) + 1]
        BY <1>3, <4>1
      <4>3. r.list.next[s[k + 1]] = s[(k + 1) + 1] /\ r.list.prev[s[(k + 1) + 1]] = s[k + 1]
        <5> DEFINE j == k + 1
        <5>1. j \in 1..(n - 1) /\ j # p /\ j + 1 # p /\ j # a /\ j + 1 # b
          BY <4>1
        <5> HIDE DEF j
        <5>2. r.list.next[s[j]] = s[j + 1] /\ r.list.prev[s[j + 1]] = s[j]
          BY <2>7, <5>1
        <5> QED BY <5>2 DEF j
      <4> QED BY <4>1, <4>2, <4>3
    <3>4. CASE k >= p /\ k = m
      <4>1. After(m, k) = 1 /\ k \in p..(n - 1) /\ k + 1 = n /\ n \in 1..n /\ n # p
        BY <1>1, <2>ab, <3>4 DEF After
      <4>2. t[k] = s[n]
        BY <1>3, <4>1
      <4>3. CASE p = 1
        <5>1. a = n /\ b = 2 /\ 1 \in p..(n - 1)
          BY <1>1, <2>1, <2>ab, <3>4, <4>1, <4>3
        <5>2. t[1] = s[b]
          BY <1>3, <5>1
        <5> QED BY <2>8, <4>1, <4>2, <5>1, <5>2
      <4>4. CASE p # 1
        <5>1. a # n /\ b # 1 /\ 1 \in 1..(p - 1) /\ 1 \in 1..n /\ After(n, n) = 1
          BY <1>1, <2>1, <2>ab, <4>1, <4>4 DEF After
        <5>2. t[1] = s[1]
          BY <1>3, <5>1
        <5>3. l.next[s[n]] = s[1] /\ l.prev[s[1]] = s[n]
          BY <1>2, <4>1, <5>1
        <5> QED BY <2>6, <4>1, <4>2, <4>4, <5>1, <5>2, <5>3
      <4> QED BY <4>3, <4>4
    <3> QED BY <1>1, <2>ab, <3>1, <3>2, <3>3, <3>4
  <2>10. Arranged(r.list, r.head, t)
    <3>1. r.head = t[1]
      <4>1. CASE p = 1
        <5>1. b = 2 /\ 1 \in p..(n - 1)
          BY <1>1, <1>6, <2>1, <4>1
        <5> QED BY <1>3, <2>3, <4>1, <5>1
      <4>2. CASE p # 1
        <5>1. 1 \in 1..(p - 1)
          BY <1>1, <4>2
        <5> QED BY <1>1, <1>3, <2>3, <4>2, <5>1
      <4> QED BY <4>1, <4>2
    <3>2. m \in Nat /\ m # 0 /\ t \in [1..m -> Indices(r.list)]
      BY <1>1, <1>3, <2>1, <2>5, <2>ab
    <3>3. \A j, k \in 1..m : t[j] = t[k] => j = k
      BY <1>3, <2>ab
    <3>4. \A k \in 1..m : r.list.next[t[k]] = t[After(m, k)] /\ r.list.prev[t[After(m, k)]] = t[k]
      BY <2>9
    <3>5. r.head = IF m = 0 THEN null_index ELSE t[1]
      BY <3>1, <3>2
    <3> HIDE DEF t
    <3> QED BY ZenonT(30), <3>2, <3>3, <3>4, <3>5, ArrangedIf
  <2>11. Touches(r.list, l, Nodes(s))
    <3> SUFFICES ASSUME NEW i \in Indices(l) \ Nodes(s)
                 PROVE  r.list.next[i] = l.next[i] /\ r.list.prev[i] = l.prev[i]
      BY <2>4 DEF Touches
    <3>1. i # s[a] /\ i # s[b] /\ i # x
      BY <1>1, <2>1
    <3> QED BY <2>4, <3>1
  <2> QED BY <2>4, <2>10, <2>11 DEF t, x
<1> QED BY <1>5, <1>6

\* form_list() makes a ring of consecutive nodes and touches no other node
\* (indexed_list.hpp:73-91).
LEMMA FormListArranges ==
    ASSUME NEW l, IsList(l), NEW b \in Nat, NEW e \in Nat, b < e, e <= l.size,
           NEW r, r = form_list(l, b, e),
           NEW t \in [1..(e - b) -> Nat], \A k \in 1..(e - b) : t[k] = b + k - 1
    PROVE  Arranged(r, b, t) /\ Touches(r, l, b..(e - 1)) /\ Nodes(t) = b..(e - 1)
<1> USE NullIndexAssumption
<1> DEFINE n == e - b
<1>1. l.size \in Nat /\ l.size <= null_index /\ n \in Nat \ {0}
  BY DEF IsList
<1>2. r = [size |-> l.size,
           next |-> [i \in Indices(l) |-> IF i \notin b..(e - 1) THEN l.next[i]
                                          ELSE IF i = e - 1 THEN b ELSE i + 1],
           prev |-> [i \in Indices(l) |-> IF i \notin b..(e - 1) THEN l.prev[i]
                                          ELSE IF i = b THEN e - 1 ELSE i - 1]]
  BY DEF form_list, IsList
<1>3. /\ r.size = l.size /\ r = [size |-> r.size, next |-> r.next, prev |-> r.prev]
      /\ r.next = [i \in Indices(l) |-> IF i \notin b..(e - 1) THEN l.next[i]
                                        ELSE IF i = e - 1 THEN b ELSE i + 1]
      /\ r.prev = [i \in Indices(l) |-> IF i \notin b..(e - 1) THEN l.prev[i]
                                        ELSE IF i = b THEN e - 1 ELSE i - 1]
  BY <1>2
<1>4. \A i \in b..(e - 1) : i \in Indices(l)
  BY <1>1 DEF Indices
<1>n. \A i \in b..(e - 1) : r.next[i] = IF i = e - 1 THEN b ELSE i + 1
  BY <1>3, <1>4
<1>p. \A i \in b..(e - 1) : r.prev[i] = IF i = b THEN e - 1 ELSE i - 1
  BY <1>3, <1>4
<1>5. \A i \in Indices(l) \ b..(e - 1) : r.next[i] = l.next[i] /\ r.prev[i] = l.prev[i]
  BY <1>3
<1>6. \A i \in Indices(l) : r.next[i] \in 0..null_index /\ r.prev[i] \in 0..null_index
  <2> SUFFICES ASSUME NEW i \in Indices(l)
               PROVE  r.next[i] \in 0..null_index /\ r.prev[i] \in 0..null_index
    OBVIOUS
  <2>1. CASE i \in b..(e - 1)
    <3>1. i \in Nat /\ b <= i /\ i <= e - 1 /\ e <= null_index
      BY <1>1, <2>1
    <3>2. /\ r.next[i] = b \/ (i # e - 1 /\ r.next[i] = i + 1)
          /\ r.prev[i] = e - 1 \/ (i # b /\ r.prev[i] = i - 1)
      BY <1>n, <1>p, <2>1
    <3> QED BY <3>1, <3>2
  <2>2. CASE i \notin b..(e - 1)
    BY <1>5, <2>2 DEF IsList
  <2> QED BY <2>1, <2>2
<1>7. IsList(r) /\ Indices(r) = Indices(l)
  <2>1. DOMAIN r.next = Indices(l) /\ DOMAIN r.prev = Indices(l)
    BY <1>3
  <2>2. r.next \in [Indices(l) -> 0..null_index] /\ r.prev \in [Indices(l) -> 0..null_index]
    BY <1>3, <1>6
  <2> QED BY <1>3, <2>2 DEF IsList, Indices
<1>8. Touches(r, l, b..(e - 1))
  BY <1>3, <1>5, <1>7 DEF Touches
<1>9. /\ \A k \in 1..n : t[k] = b + k - 1
      /\ t \in [1..n -> Indices(r)]
  <2>1. \A k \in 1..n : b + k - 1 \in Indices(r)
    BY <1>1, <1>3 DEF Indices
  <2> QED BY <2>1
<1>10. \A j, k \in 1..n : t[j] = t[k] => j = k
  <2> HIDE DEF n
  <2> QED BY <1>9
<1>11. ASSUME NEW k \in 1..n
       PROVE  r.next[t[k]] = t[After(n, k)] /\ r.prev[t[After(n, k)]] = t[k]
  <2>1. CASE k = n
    <3>1. After(n, k) = 1 /\ t[k] = e - 1 /\ t[1] = b /\ b \in b..(e - 1) /\ e - 1 \in b..(e - 1)
      BY <1>1, <1>9, <2>1 DEF After
    <3>2. r.next[e - 1] = b /\ r.prev[b] = e - 1
      BY <1>n, <1>p, <3>1
    <3> QED BY <3>1, <3>2
  <2>2. CASE k # n
    <3> DEFINE i == b + k - 1
    <3>1. After(n, k) = k + 1 /\ k + 1 \in 1..n /\ t[k] = i /\ t[k + 1] = i + 1
      BY <1>1, <1>9, <2>2 DEF After
    <3>2. i \in b..(e - 1) /\ i + 1 \in b..(e - 1) /\ i # e - 1 /\ i + 1 # b /\ (i + 1) - 1 = i
      BY <1>1, <2>2
    <3>3. r.next[i] = i + 1 /\ r.prev[i + 1] = (i + 1) - 1
      <4> HIDE DEF i
      <4> QED BY <1>n, <1>p, <3>2
    <3> QED BY <3>1, <3>2, <3>3
  <2> QED BY <2>1, <2>2
<1>12. t[1] = b
  BY <1>1, <1>9
<1>13. Arranged(r, b, t)
  <2>1. n \in Nat /\ n # 0
    BY <1>1
  <2>2. \A k \in 1..n : r.next[t[k]] = t[After(n, k)] /\ r.prev[t[After(n, k)]] = t[k]
    BY <1>11
  <2> HIDE DEF n
  <2>3. b = IF n = 0 THEN null_index ELSE t[1]
    BY <1>12, <2>1
  <2>4. t \in [1..n -> Indices(r)]
    BY <1>9
  <2> QED BY ZenonT(30), <1>10, <2>1, <2>2, <2>3, <2>4, ArrangedIf
<1>14. Nodes(t) = b..(e - 1)
  <2>1. Len(t) = n
    BY <1>1, <1>9, IsSeq
  <2>2. ASSUME NEW i \in b..(e - 1) PROVE \E k \in 1..n : i = t[k]
    <3>1. i - b + 1 \in 1..n /\ i = b + (i - b + 1) - 1
      OBVIOUS
    <3>2. t[i - b + 1] = i
      BY <1>9, <3>1
    <3> QED BY <3>1, <3>2
  <2>3. \A k \in 1..n : t[k] \in b..(e - 1)
    BY <1>9
  <2>4. Nodes(t) = {t[k] : k \in 1..n}
    BY <2>1 DEF Nodes
  <2> DEFINE D == b..(e - 1)
  <2> HIDE DEF n, D
  <2>5. Nodes(t) \subseteq D
    BY <2>3, <2>4 DEF D
  <2>6. D \subseteq Nodes(t)
    BY <2>2, <2>4 DEF D
  <2> QED BY <2>5, <2>6 DEF D
<1> QED BY <1>8, <1>13, <1>14

\* resize() keeps the links of the nodes it does not cut off, and links no new one
\* (indexed_list.hpp:62-65).
LEMMA ResizeLinks ==
    ASSUME NEW l, IsList(l), NEW n \in 0..null_index, NEW r, r = resize(l, n)
    PROVE  /\ IsList(r) /\ r.size = n
           /\ l.size <= n => Indices(l) \subseteq Indices(r)
           /\ \A i \in Indices(l) \cap Indices(r) : r.next[i] = l.next[i] /\ r.prev[i] = l.prev[i]
           /\ \A i \in Indices(r) \ Indices(l) : Unlinked(r, i)
<1> USE NullIndexAssumption
<1>1. l.size \in Nat /\ l.size <= null_index /\ n \in Nat /\ n <= null_index
  BY DEF IsList
<1> DEFINE next == [i \in 0..(n - 1) |-> IF i < l.size THEN l.next[i] ELSE null_index]
           prev == [i \in 0..(n - 1) |-> IF i < l.size THEN l.prev[i] ELSE null_index]
<1>2. r = [size |-> n, next |-> next, prev |-> prev]
  BY DEF resize
<1>3. r.size = n /\ r.next = next /\ r.prev = prev /\ r = [size |-> r.size, next |-> r.next, prev |-> r.prev]
  BY <1>2
<1>4. Indices(r) = 0..(n - 1) /\ (l.size <= n => Indices(l) \subseteq Indices(r))
  BY <1>1, <1>3 DEF Indices
<1>5. next \in [0..(n - 1) -> 0..null_index] /\ prev \in [0..(n - 1) -> 0..null_index]
  <2>1. ASSUME NEW i \in 0..(n - 1)
        PROVE  /\ (IF i < l.size THEN l.next[i] ELSE null_index) \in 0..null_index
               /\ (IF i < l.size THEN l.prev[i] ELSE null_index) \in 0..null_index
    BY <1>1 DEF IsList, Indices
  <2> QED BY <2>1
<1>6. \A i \in Indices(l) \cap Indices(r) : next[i] = l.next[i] /\ prev[i] = l.prev[i]
  <2> SUFFICES ASSUME NEW i \in 0..(l.size - 1), i \in 0..(n - 1)
               PROVE  next[i] = l.next[i] /\ prev[i] = l.prev[i]
    BY <1>4 DEF Indices
  <2> QED BY <1>1
<1>7. \A i \in Indices(r) \ Indices(l) : next[i] = null_index /\ prev[i] = null_index
  BY <1>1, <1>3 DEF Indices
<1> HIDE DEF next, prev
<1> QED BY <1>1, <1>3, <1>4, <1>5, <1>6, <1>7 DEF IsList, Unlinked

\* The constructor links no node (indexed_list.hpp:31-35).
LEMMA NewListLinks ==
    ASSUME NEW n \in 0..null_index, NEW r, r = NewList(n)
    PROVE  IsList(r) /\ r.size = n /\ \A i \in Indices(r) : Unlinked(r, i)
<1> USE NullIndexAssumption
<1>1. /\ r.size = n /\ r = [size |-> r.size, next |-> r.next, prev |-> r.prev]
      /\ r.next = [i \in 0..(n - 1) |-> null_index] /\ r.prev = [i \in 0..(n - 1) |-> null_index]
  BY DEF NewList
<1>2. r.next \in [0..(n - 1) -> 0..null_index] /\ r.prev \in [0..(n - 1) -> 0..null_index]
  BY <1>1
<1> QED BY <1>1, <1>2 DEF IsList, Indices, Unlinked

\* A list without nodes.
LEMMA EmptyArranged ==
    ASSUME NEW l
    PROVE  Arranged(l, null_index, <<>>)
<1>1. Len(<<>>) = 0 /\ <<>> \in Seq(Indices(l))
  OBVIOUS
<1>2. 1..0 = {}
  OBVIOUS
<1> QED BY <1>1, <1>2 DEF Arranged

----------------------------------------------------------------------------
(* Rings and sequences                                                     *)

\* A prefix and a suffix of a sequence, one after the other.
LEMMA CutProperties ==
    ASSUME NEW S, NEW s \in Seq(S), NEW n, n = Len(s), NEW p \in 0..n, NEW q \in p..n,
           NEW a, a = SubSeq(s, 1, p), NEW b, b = SubSeq(s, q + 1, n)
    PROVE  /\ a \in Seq(S) /\ Len(a) = p /\ \A k \in 1..p : a[k] = s[k]
           /\ b \in Seq(S) /\ Len(b) = n - q /\ \A k \in 1..(n - q) : b[k] = s[q + k]
<1>1. n \in Nat /\ p \in Nat /\ q \in Nat /\ p <= q /\ q <= n /\ \A i \in 1..n : s[i] \in S
  BY LenProperties, ElementOfSeq
<1>2. /\ a \in Seq(S) /\ Len(a) = (IF 1 <= p THEN p - 1 + 1 ELSE 0)
      /\ \A k \in 1..(p - 1 + 1) : a[k] = s[1 + k - 1]
  <2>1. 1 \in Int /\ p \in Int /\ \A i \in 1..p : s[i] \in S
    BY <1>1
  <2> QED BY <2>1, SubSeqProperties
<1>3. /\ b \in Seq(S) /\ Len(b) = (IF q + 1 <= n THEN n - (q + 1) + 1 ELSE 0)
      /\ \A k \in 1..(n - (q + 1) + 1) : b[k] = s[(q + 1) + k - 1]
  <2>1. q + 1 \in Int /\ n \in Int /\ \A i \in (q + 1)..n : s[i] \in S
    BY <1>1
  <2> QED BY <2>1, SubSeqProperties
<1>4. p - 1 + 1 = p /\ (IF 1 <= p THEN p - 1 + 1 ELSE 0) = p
  BY <1>1
<1>5. n - (q + 1) + 1 = n - q /\ (IF q + 1 <= n THEN n - (q + 1) + 1 ELSE 0) = n - q
  BY <1>1
<1>6. \A k \in 1..p : 1 + k - 1 = k
  BY <1>1
<1>7. \A k \in 1..(n - q) : (q + 1) + k - 1 = q + k
  BY <1>1
<1>8. \A k \in 1..p : a[k] = s[k]
  BY <1>2, <1>4, <1>6
<1>9. \A k \in 1..(n - q) : b[k] = s[q + k]
  BY <1>3, <1>5, <1>7
<1> QED BY <1>2, <1>3, <1>4, <1>5, <1>8, <1>9

\* x after the first p nodes.
LEMMA JoinedIsConcat ==
    ASSUME NEW S, NEW s \in Seq(S), NEW p \in 0..Len(s), NEW x \in S
    PROVE  /\ Joined(s, p, x) \in Seq(S) /\ Len(Joined(s, p, x)) = Len(s) + 1
           /\ Joined(s, p, x) = SubSeq(s, 1, p) \o <<x>> \o SubSeq(s, p + 1, Len(s))
<1> DEFINE n == Len(s)  a == SubSeq(s, 1, p)  b == SubSeq(s, p + 1, n)
           t == Joined(s, p, x)  u == a \o <<x>>
<1>1. n \in Nat /\ p \in 0..n /\ p \in p..n
  BY LenProperties
<1>2. /\ a \in Seq(S) /\ Len(a) = p /\ \A k \in 1..p : a[k] = s[k]
      /\ b \in Seq(S) /\ Len(b) = n - p /\ \A k \in 1..(n - p) : b[k] = s[p + k]
  <2>1. n = Len(s) /\ a = SubSeq(s, 1, p) /\ b = SubSeq(s, p + 1, n)
    OBVIOUS
  <2> HIDE DEF n, a, b
  <2> QED BY <1>1, <2>1, CutProperties
<1>3. /\ t \in [1..(n + 1) -> S]
      /\ \A k \in 1..p : t[k] = s[k]
      /\ t[p + 1] = x
      /\ \A k \in (p + 1)..n : t[k + 1] = s[k]
  <2>1. n = Len(s) /\ t = Joined(s, p, x) /\ S \cup {x} = S
    OBVIOUS
  <2> HIDE DEF n, t
  <2> QED BY <1>1, <2>1, JoinedProperties
<1>4. <<x>> \in Seq(S) /\ Len(<<x>>) = 1 /\ <<x>>[1] = x
  OBVIOUS
<1>5. /\ u \in Seq(S) /\ Len(u) = p + 1
      /\ \A k \in 1..(p + 1) : u[k] = IF k <= p THEN a[k] ELSE <<x>>[k - p]
  BY <1>2, <1>4, ConcatProperties
<1> HIDE DEF n, a, b, t, u
<1>6. /\ u \o b \in Seq(S) /\ Len(u \o b) = (p + 1) + (n - p)
      /\ \A k \in 1..((p + 1) + (n - p)) :
            (u \o b)[k] = IF k <= p + 1 THEN u[k] ELSE b[k - (p + 1)]
  <2>1. /\ u \o b \in Seq(S) /\ Len(u \o b) = Len(u) + Len(b)
        /\ \A k \in 1..(Len(u) + Len(b)) :
              (u \o b)[k] = IF k <= Len(u) THEN u[k] ELSE b[k - Len(u)]
    <3>1. u \in Seq(S) /\ b \in Seq(S)
      BY <1>2, <1>5
    <3> QED BY <3>1, ConcatProperties
  <2> QED BY <1>2, <1>5, <2>1, Zenon
<1>7. (p + 1) + (n - p) = n + 1 /\ n + 1 \in Nat
  BY <1>1
<1>8. t \in Seq(S) /\ Len(t) = n + 1
  BY <1>3, <1>7, IsSeq
<1>9. ASSUME NEW k \in 1..(n + 1) PROVE t[k] = (u \o b)[k]
  <2>1. CASE k <= p
    <3>1. k \in 1..p /\ k \in 1..(p + 1) /\ k <= p + 1
      BY <1>1, <2>1
    <3> QED BY <1>2, <1>3, <1>5, <1>6, <1>7, <2>1, <3>1
  <2>2. CASE k = p + 1
    <3>1. k \in 1..(p + 1) /\ ~(k <= p) /\ k - p = 1 /\ k <= p + 1
      BY <1>1, <2>2
    <3> QED BY <1>3, <1>4, <1>5, <1>6, <1>7, <2>2, <3>1
  <2>3. CASE k > p + 1
    <3>1. k - 1 \in (p + 1)..n /\ (k - 1) + 1 = k /\ k - (p + 1) \in 1..(n - p)
          /\ p + (k - (p + 1)) = k - 1 /\ ~(k <= p + 1)
      BY <1>1, <2>3
    <3>2. t[k] = s[k - 1]
      BY <1>3, <3>1
    <3>3. b[k - (p + 1)] = s[k - 1]
      BY <1>2, <3>1
    <3> QED BY <1>6, <1>7, <3>1, <3>2, <3>3
  <2>4. k <= p \/ k = p + 1 \/ k > p + 1
    BY <1>1
  <2> QED BY <2>1, <2>2, <2>3, <2>4
<1>10. t = u \o b
  BY <1>6, <1>7, <1>8, <1>9, SeqEqual
<1> QED BY <1>8, <1>10 DEF n, a, b, t, u

\* x in front of the first node, and after the last.
LEMMA JoinedAtEnds ==
    ASSUME NEW S, NEW s \in Seq(S), NEW x \in S
    PROVE  Joined(s, 0, x) = <<x>> \o s /\ Joined(s, Len(s), x) = Append(s, x)
<1>1. Len(s) \in Nat /\ 0 \in 0..Len(s) /\ Len(s) \in 0..Len(s)
  BY LenProperties
<1>2. SubSeq(s, 1, 0) = <<>> /\ SubSeq(s, 1, Len(s)) = s /\ SubSeq(s, Len(s) + 1, Len(s)) = <<>>
  <2>1. SubSeq(s, 1, 0) = <<>>
    BY SubSeqEmpty
  <2>2. SubSeq(s, Len(s) + 1, Len(s)) = <<>>
    BY <1>1, SubSeqEmpty
  <2> QED BY <2>1, <2>2, SubSeqFull
<1>3. <<x>> \in Seq(S) /\ <<>> \o <<x>> = <<x>>
  <2>1. <<x>> \in Seq(S)
    OBVIOUS
  <2> QED BY <2>1, ConcatEmptySeq
<1>4. Joined(s, 0, x) = <<x>> \o s
  <2>1. Joined(s, 0, x) = SubSeq(s, 1, 0) \o <<x>> \o SubSeq(s, 0 + 1, Len(s))
    BY <1>1, JoinedIsConcat
  <2> QED BY <1>2, <1>3, <2>1
<1>5. Joined(s, Len(s), x) = Append(s, x)
  <2>1. Joined(s, Len(s), x) = SubSeq(s, 1, Len(s)) \o <<x>> \o SubSeq(s, Len(s) + 1, Len(s))
    BY <1>1, JoinedIsConcat
  <2>2. Append(s, x) = s \o <<x>> /\ s \o <<x>> \in Seq(S)
    BY <1>3, AppendIsConcat, ConcatProperties
  <2> QED BY <1>2, <2>1, <2>2, ConcatEmptySeq
<1> QED BY <1>4, <1>5

\* All but the node at position p.
LEMMA DroppedIsConcat ==
    ASSUME NEW S, NEW s \in Seq(S), NEW p \in 1..Len(s)
    PROVE  /\ Dropped(s, p) \in Seq(S) /\ Len(Dropped(s, p)) = Len(s) - 1
           /\ Dropped(s, p) = SubSeq(s, 1, p - 1) \o SubSeq(s, p + 1, Len(s))
           /\ p = 1 => Dropped(s, p) = Tail(s)
<1> DEFINE n == Len(s)  a == SubSeq(s, 1, p - 1)  b == SubSeq(s, p + 1, n)  t == Dropped(s, p)
<1>1. n \in Nat /\ p \in 1..n /\ p - 1 \in 0..n /\ p \in (p - 1)..n /\ s \in [1..n -> S] /\ n - 1 \in Nat
  BY LenProperties
<1>2. /\ a \in Seq(S) /\ Len(a) = p - 1 /\ \A k \in 1..(p - 1) : a[k] = s[k]
      /\ b \in Seq(S) /\ Len(b) = n - p /\ \A k \in 1..(n - p) : b[k] = s[p + k]
  <2> DEFINE m == p - 1
  <2>1. n = Len(s) /\ a = SubSeq(s, 1, m) /\ b = SubSeq(s, p + 1, n) /\ m \in 0..n /\ p \in m..n
    BY <1>1
  <2> HIDE DEF n, a, b, m
  <2>2. /\ a \in Seq(S) /\ Len(a) = m /\ \A k \in 1..m : a[k] = s[k]
        /\ b \in Seq(S) /\ Len(b) = n - p /\ \A k \in 1..(n - p) : b[k] = s[p + k]
    BY <2>1, CutProperties
  <2> QED BY <2>2 DEF m
<1>a. t = [k \in 1..(n - 1) |-> IF k < p THEN s[k] ELSE s[k + 1]]
  BY DEF Dropped
<1> HIDE DEF n, a, b, t
<1>3. \A k \in 1..(n - 1) : t[k] = IF k < p THEN s[k] ELSE s[k + 1]
  BY <1>a
<1>4. t \in [1..(n - 1) -> S]
  <2>1. \A k \in 1..(n - 1) : s[k] \in S /\ s[k + 1] \in S
    BY <1>1
  <2> QED BY <1>a, <2>1
<1>5. t \in Seq(S) /\ Len(t) = n - 1
  BY <1>1, <1>4, IsSeq
<1>6. /\ a \o b \in Seq(S) /\ Len(a \o b) = (p - 1) + (n - p)
      /\ \A k \in 1..((p - 1) + (n - p)) : (a \o b)[k] = IF k <= p - 1 THEN a[k] ELSE b[k - (p - 1)]
  <2>1. /\ a \o b \in Seq(S) /\ Len(a \o b) = Len(a) + Len(b)
        /\ \A k \in 1..(Len(a) + Len(b)) :
              (a \o b)[k] = IF k <= Len(a) THEN a[k] ELSE b[k - Len(a)]
    BY <1>2, ConcatProperties
  <2> QED BY <1>2, <2>1, Zenon
<1>7. (p - 1) + (n - p) = n - 1
  BY <1>1
<1>8. ASSUME NEW k \in 1..(n - 1) PROVE t[k] = (a \o b)[k]
  <2>1. CASE k < p
    <3>1. k \in 1..(p - 1) /\ k <= p - 1
      BY <1>1, <2>1
    <3> QED BY <1>2, <1>3, <1>6, <1>7, <2>1, <3>1
  <2>2. CASE ~(k < p)
    <3>1. k - (p - 1) \in 1..(n - p) /\ p + (k - (p - 1)) = k + 1 /\ ~(k <= p - 1)
      BY <1>1, <2>2
    <3>2. b[k - (p - 1)] = s[k + 1]
      BY <1>2, <3>1
    <3> QED BY <1>3, <1>6, <1>7, <2>2, <3>1, <3>2
  <2> QED BY <2>1, <2>2
<1>9. t = a \o b
  BY <1>5, <1>6, <1>7, <1>8, SeqEqual
<1>10. p = 1 => t = Tail(s)
  <2> SUFFICES ASSUME p = 1 PROVE t = Tail(s)
    OBVIOUS
  <2>1. s # <<>> /\ n = Len(s)
    BY <1>1, EmptySeq DEF n
  <2>2. /\ Tail(s) \in Seq(S) /\ Len(Tail(s)) = n - 1
        /\ \A k \in 1..(n - 1) : Tail(s)[k] = s[k + 1]
    BY <2>1, HeadTailProperties
  <2>3. \A k \in 1..(n - 1) : t[k] = s[k + 1]
    BY <1>1, <1>3
  <2> QED BY <1>5, <2>2, <2>3, SeqEqual
<1> QED BY <1>5, <1>9, <1>10 DEF n, a, b, t

\* The nodes of an arrangement that x joined.
LEMMA NodesJoined ==
    ASSUME NEW S, NEW s \in Seq(S), NEW p \in 0..Len(s), NEW x \in S
    PROVE  Nodes(Joined(s, p, x)) = Nodes(s) \cup {x}
<1> DEFINE n == Len(s)  t == Joined(s, p, x)
<1>1. n \in Nat /\ p \in 0..n /\ Len(t) = n + 1
  <2>1. Len(s) \in Nat
    BY LenProperties
  <2>2. Len(Joined(s, p, x)) = Len(s) + 1
    BY JoinedProperties
  <2> QED BY <2>1, <2>2 DEF n, t
<1>2. /\ \A k \in 1..p : t[k] = s[k]
      /\ t[p + 1] = x
      /\ \A k \in (p + 1)..n : t[k + 1] = s[k]
  <2>1. n = Len(s) /\ t = Joined(s, p, x)
    OBVIOUS
  <2> HIDE DEF n, t
  <2>2. \A k \in 1..p : t[k] = s[k]
    BY <1>1, <2>1, JoinedProperties
  <2>3. t[p + 1] = x
    BY <1>1, <2>1, JoinedProperties
  <2>4. \A k \in (p + 1)..n : t[k + 1] = s[k]
    BY <1>1, <2>1, JoinedProperties
  <2> QED BY <2>2, <2>3, <2>4
<1>3. Nodes(s) = {s[k] : k \in 1..n} /\ Nodes(t) = {t[k] : k \in 1..(n + 1)}
  BY <1>1 DEF Nodes
<1> HIDE DEF n, t
<1>4. ASSUME NEW k \in 1..(n + 1) PROVE t[k] = x \/ \E j \in 1..n : t[k] = s[j]
  <2>1. CASE k <= p
    <3>1. k \in 1..p /\ k \in 1..n
      BY <1>1, <2>1
    <3> QED BY <1>2, <3>1
  <2>2. CASE k = p + 1
    BY <1>2, <2>2
  <2>3. CASE k > p + 1
    <3>1. k - 1 \in (p + 1)..n /\ k - 1 \in 1..n /\ (k - 1) + 1 = k
      BY <1>1, <2>3
    <3> QED BY <1>2, <3>1
  <2>4. k <= p \/ k = p + 1 \/ k > p + 1
    BY <1>1
  <2> QED BY <2>1, <2>2, <2>3, <2>4
<1>5. ASSUME NEW k \in 1..n PROVE \E j \in 1..(n + 1) : t[j] = s[k]
  <2>1. CASE k <= p
    <3>1. k \in 1..p /\ k \in 1..(n + 1)
      BY <1>1, <2>1
    <3> QED BY <1>2, <3>1
  <2>2. CASE ~(k <= p)
    <3>1. k \in (p + 1)..n /\ k + 1 \in 1..(n + 1)
      BY <1>1, <2>2
    <3> QED BY <1>2, <3>1
  <2> QED BY <2>1, <2>2
<1>6. p + 1 \in 1..(n + 1)
  BY <1>1
<1> QED BY <1>2, <1>3, <1>4, <1>5, <1>6 DEF t

\* A node in front.
LEMMA NodesPushed ==
    ASSUME NEW S, NEW s \in Seq(S), NEW x \in S
    PROVE  Nodes(<<x>> \o s) = Nodes(s) \cup {x}
<1>1. Joined(s, 0, x) = <<x>> \o s
  BY JoinedAtEnds
<1>2. 0 \in 0..Len(s)
  BY LenProperties
<1>3. Nodes(Joined(s, 0, x)) = Nodes(s) \cup {x}
  BY <1>2, NodesJoined
<1> QED BY <1>1, <1>3

\* Without the node at position p, when no node occurs twice.
LEMMA NodesDropped ==
    ASSUME NEW S, NEW s \in Seq(S), NEW p \in 1..Len(s),
           \A j, k \in 1..Len(s) : s[j] = s[k] => j = k
    PROVE  Nodes(Dropped(s, p)) = Nodes(s) \ {s[p]}
<1> DEFINE n == Len(s)  t == Dropped(s, p)
<1>1. n \in Nat /\ p \in 1..n /\ Len(t) = n - 1
  BY LenProperties, DroppedIsConcat
<1>2. /\ \A k \in 1..(p - 1) : t[k] = s[k]
      /\ \A k \in p..(n - 1) : t[k] = s[k + 1]
      /\ \A k \in 1..(n - 1) : t[k] # s[p]
  <2>1. /\ n = Len(s) /\ t = Dropped(s, p)
        /\ \A j, k \in 1..n : s[j] = s[k] => j = k
    OBVIOUS
  <2> HIDE DEF n, t
  <2>2. \A k \in 1..(p - 1) : t[k] = s[k]
    BY <1>1, <2>1, DroppedProperties
  <2>3. \A k \in p..(n - 1) : t[k] = s[k + 1]
    BY <1>1, <2>1 DEF Dropped
  <2>4. \A k \in 1..(n - 1) : t[k] # s[p]
    BY SMTT(30), <1>1, <2>1, DroppedProperties
  <2> QED BY <2>2, <2>3, <2>4
<1>3. Nodes(s) = {s[k] : k \in 1..n} /\ Nodes(t) = {t[k] : k \in 1..(n - 1)}
  BY <1>1 DEF Nodes
<1> HIDE DEF n, t
<1>4. ASSUME NEW k \in 1..(n - 1) PROVE \E j \in 1..n : t[k] = s[j]
  <2>1. CASE k < p
    <3>1. k \in 1..(p - 1) /\ k \in 1..n
      BY <1>1, <2>1
    <3> QED BY <1>2, <3>1
  <2>2. CASE ~(k < p)
    <3>1. k \in p..(n - 1) /\ k + 1 \in 1..n
      BY <1>1, <2>2
    <3> QED BY <1>2, <3>1
  <2> QED BY <2>1, <2>2
<1>5. ASSUME NEW k \in 1..n, k # p PROVE \E j \in 1..(n - 1) : t[j] = s[k]
  <2>1. CASE k < p
    <3>1. k \in 1..(p - 1) /\ k \in 1..(n - 1)
      BY <1>1, <2>1
    <3> QED BY <1>2, <3>1
  <2>2. CASE ~(k < p)
    <3>1. k - 1 \in p..(n - 1) /\ k - 1 \in 1..(n - 1) /\ (k - 1) + 1 = k
      BY <1>1, <1>5, <2>2
    <3> QED BY <1>2, <3>1
  <2> QED BY <2>1, <2>2
<1>6. Nodes(t) \subseteq Nodes(s) \ {s[p]}
  BY <1>2, <1>3, <1>4
<1>7. Nodes(s) \ {s[p]} \subseteq Nodes(t)
  <2> SUFFICES ASSUME NEW k \in 1..n, s[k] # s[p] PROVE s[k] \in Nodes(t)
    BY <1>3
  <2>1. k # p
    OBVIOUS
  <2> QED BY <1>3, <1>5, <2>1
<1> QED BY <1>6, <1>7 DEF t

----------------------------------------------------------------------------
(* Two rings                                                               *)

\* An operation on other nodes leaves a ring as it is.
LEMMA KeptElsewhere ==
    ASSUME NEW l, IsList(l), NEW r, NEW D, Touches(r, l, D),
           NEW head, NEW s, Arranged(l, head, s), Nodes(s) \cap D = {}
    PROVE  Arranged(r, head, s)
<1>1. /\ IsList(r) /\ r.size = l.size /\ l.size \in Nat
      /\ \A i \in Indices(l) \ D : r.next[i] = l.next[i] /\ r.prev[i] = l.prev[i]
  BY NullIndexAssumption DEF Touches, IsList
<1>2. Nodes(s) \subseteq Indices(l)
  <2>1. s \in [1..Len(s) -> Indices(l)]
    BY ArrangedFacts
  <2> QED BY <2>1 DEF Nodes
<1>3. Nodes(s) \subseteq Indices(r)
  BY <1>1, <1>2 DEF Indices
<1>4. \A i \in Nodes(s) : r.next[i] = l.next[i] /\ r.prev[i] = l.prev[i]
  BY <1>1, <1>2
<1> QED BY <1>1, <1>3, <1>4, ArrangedKept

\* push() puts x in front of a ring (indexed_list.hpp:88-91, 155-166).
LEMMA PushArranges ==
    ASSUME NEW l, IsList(l), NEW head, NEW s, Arranged(l, head, s),
           NEW x \in Indices(l) \ Nodes(s), NEW r, r = push(l, head, x)
    PROVE  /\ Arranged(r.list, r.head, <<x>> \o s)
           /\ Touches(r.list, l, Nodes(s) \cup {x})
<1> DEFINE nx == IF 0 = Len(s) THEN null_index ELSE s[0 + 1]
<1>1. /\ s \in Seq(Indices(l)) /\ Len(s) \in Nat /\ (s = <<>> <=> head = null_index)
      /\ (s = <<>> <=> Len(s) = 0) /\ (s # <<>> => head = s[1]) /\ x \in Indices(l)
  BY ArrangedFacts
<1>2. nx = head /\ 0 \in 0..Len(s)
  BY <1>1
<1>3. r = insert(l, head, nx, x)
  BY <1>2 DEF insert
<1>4. /\ Arranged(r.list, r.head, Joined(s, 0, x))
      /\ Touches(r.list, l, Nodes(s) \cup {x})
  <2>1. nx = IF 0 = Len(s) THEN null_index ELSE s[0 + 1]
    OBVIOUS
  <2> HIDE DEF nx
  <2> QED BY <1>2, <1>3, <2>1, InsertArranges
<1>5. Joined(s, 0, x) = <<x>> \o s
  BY <1>1, JoinedAtEnds
<1> QED BY <1>4, <1>5

\* A node moves from one ring to the front of another, as in value_repo: remove(),
\* then push().
LEMMA NodeMoves ==
    ASSUME NEW l, IsList(l), NEW ha, NEW sa, Arranged(l, ha, sa),
           NEW hb, NEW sb, Arranged(l, hb, sb), Nodes(sa) \cap Nodes(sb) = {},
           NEW p \in 1..Len(sa), NEW x, x = sa[p],
           NEW a, a = remove(l, ha, x), NEW b, b = push(a.list, hb, x)
    PROVE  /\ IsList(b.list) /\ b.list.size = l.size
           /\ Arranged(b.list, a.head, Dropped(sa, p)) /\ Nodes(Dropped(sa, p)) = Nodes(sa) \ {x}
           /\ Arranged(b.list, b.head, <<x>> \o sb) /\ Nodes(<<x>> \o sb) = Nodes(sb) \cup {x}
<1>1. /\ sa \in Seq(Indices(l)) /\ x \in Indices(l) /\ x \in Nodes(sa)
      /\ \A j, k \in 1..Len(sa) : sa[j] = sa[k] => j = k
  <2>1. /\ sa \in Seq(Indices(l)) /\ sa \in [1..Len(sa) -> Indices(l)]
        /\ \A j, k \in 1..Len(sa) : sa[j] = sa[k] => j = k
    BY ArrangedFacts
  <2>2. x \in Nodes(sa)
    BY DEF Nodes
  <2> QED BY <2>1, <2>2
<1>2. /\ Arranged(a.list, a.head, Dropped(sa, p))
      /\ Touches(a.list, l, Nodes(sa)) /\ Unlinked(a.list, x)
  BY RemoveArranges
<1>3. Nodes(Dropped(sa, p)) = Nodes(sa) \ {x}
  BY <1>1, NodesDropped
<1>4. IsList(a.list) /\ a.list.size = l.size /\ Indices(a.list) = Indices(l)
  BY <1>2 DEF Touches, Indices
<1>5. Arranged(a.list, hb, sb)
  BY <1>2, KeptElsewhere
<1>6. /\ Arranged(b.list, b.head, <<x>> \o sb)
      /\ Touches(b.list, a.list, Nodes(sb) \cup {x})
      /\ Nodes(<<x>> \o sb) = Nodes(sb) \cup {x}
  <2>1. x \in Indices(a.list) \ Nodes(sb) /\ b = push(a.list, hb, x) /\ IsList(a.list)
    BY <1>1, <1>4
  <2>2. Arranged(b.list, b.head, <<x>> \o sb)
    BY <1>5, <2>1, PushArranges
  <2>3. Touches(b.list, a.list, Nodes(sb) \cup {x})
    BY <1>5, <2>1, PushArranges
  <2>4. Nodes(<<x>> \o sb) = Nodes(sb) \cup {x}
    <3>1. sb \in Seq(Indices(l))
      BY ArrangedFacts
    <3> QED BY <1>1, <3>1, NodesPushed
  <2> QED BY <2>2, <2>3, <2>4
<1>7. Arranged(b.list, a.head, Dropped(sa, p))
  <2>1. Nodes(Dropped(sa, p)) \cap (Nodes(sb) \cup {x}) = {}
    BY <1>3
  <2> QED BY <1>2, <1>4, <1>6, <2>1, KeptElsewhere
<1> QED BY <1>3, <1>4, <1>6, <1>7 DEF Touches
=============================================================================

------------------------- MODULE MatrixChainProofs -------------------------
(***************************************************************************)
(* Proofs about MatrixChain: the types of values and splits, that the      *)
(* order resolve chooses is optimal, and that the value of an expression   *)
(* is the product of its matrices whatever the order.  Most of what is     *)
(* computed here is a recursive function; each is shown to exist, which    *)
(* its definition does not say, and to be the only one.                    *)
(***************************************************************************)
EXTENDS MatrixChain, FiniteSetTheorems, WellFoundedInduction, TLAPS

----------------------------------------------------------------------------
(* Numbers and recursion                                                   *)

\* A set of numbers that is not empty has a least one.
LEMMA LeastExists == ASSUME NEW T \in SUBSET Nat, T # {} PROVE \E m \in T : \A k \in T : m <= k
<1>1. PICK m \in T : \A k \in T : ~(<<k, m>> \in OpToRel(<, Nat))
  BY NatLessThanWellFounded, WFMin
<1>2. \A k \in T : ~(k < m)
  BY <1>1 DEF OpToRel
<1> QED BY <1>2

\* Least returns it.
LEMMA LeastIs ==
    ASSUME NEW T \in SUBSET Nat, T # {}
    PROVE  Least(T) \in T /\ \A k \in T : Least(T) <= k
<1>1. \E m \in T : \A k \in T : m <= k
  BY LeastExists
<1> QED BY <1>1 DEF Least

\* Induction over the numbers, as a fact about a set of them.
LEMMA SetInduction ==
    ASSUME NEW S, 0 \in S, \A n \in Nat : n \in S => n + 1 \in S
    PROVE  Nat \subseteq S
<1> SUFFICES ASSUME Nat \ S # {} PROVE FALSE
  OBVIOUS
<1>1. PICK m \in Nat \ S : \A k \in Nat \ S : m <= k
  <2>1. Nat \ S \in SUBSET Nat
    OBVIOUS
  <2> QED BY <2>1, LeastExists
<1>2. m # 0 /\ m \in Nat
  OBVIOUS
<1>3. m - 1 \in Nat /\ (m - 1) + 1 = m /\ ~(m <= m - 1)
  BY <1>2
<1>4. m - 1 \in S
  BY <1>1, <1>3
<1> QED BY <1>3, <1>4

\* Induction on a rank, as a fact about a set.
LEMMA RankInduction ==
    ASSUME NEW D, NEW rank \in [D -> Nat], NEW S,
           \A x \in D : (\A y \in D : rank[y] < rank[x] => y \in S) => x \in S
    PROVE  D \subseteq S
<1> SUFFICES ASSUME D \ S # {} PROVE FALSE
  OBVIOUS
<1> DEFINE R == {rank[x] : x \in D \ S}
<1>1. R \in SUBSET Nat /\ R # {}
  OBVIOUS
<1>2. PICK m \in R : \A k \in R : m <= k
  <2> HIDE DEF R
  <2> QED BY <1>1, LeastExists
<1>3. PICK x \in D \ S : rank[x] = m
  OBVIOUS
<1>4. ASSUME NEW y \in D, rank[y] < rank[x] PROVE y \in S
  <2>1. rank[y] \in Nat /\ rank[x] \in Nat
    OBVIOUS
  <2>2. ~(rank[x] <= rank[y])
    BY <1>4, <2>1
  <2>3. y \in D \ S => rank[y] \in R
    OBVIOUS
  <2> HIDE DEF R
  <2> QED BY <1>2, <1>3, <2>2, <2>3
<1> QED BY <1>3, <1>4

\* F is a set of functions on D, and what B gives at a place depends on the places of lower
\* rank only.
AreFunctions(F, D) == \A f \in F : f = [x \in D |-> f[x]]

Lower(f, g, D, rank, x) == \A y \in D : rank[y] < rank[x] => f[y] = g[y]
LowerOnly(D, rank, F, B) == \A f, g \in F : \A x \in D : Lower(f, g, D, rank, x) => B[f][x] = B[g][x]

\* Then a function with the values that B gives it exists.
LEMMA RecursionExists ==
    ASSUME NEW D, NEW rank \in [D -> Nat], NEW bound \in Nat, \A x \in D : rank[x] < bound,
           NEW F, AreFunctions(F, D), NEW start \in F, NEW B \in [F -> F], LowerOnly(D, rank, F, B)
    PROVE  \E f \in F : f = B[f]
<1> DEFINE UpTo(f, n) == \A x \in D : rank[x] < n => f[x] = B[f][x]
           Good == {n \in Nat : \E f \in F : UpTo(f, n)}
<1>1. 0 \in Good
  <2>1. UpTo(start, 0)
    OBVIOUS
  <2> QED BY <2>1
<1>2. ASSUME NEW n \in Nat, n \in Good PROVE n + 1 \in Good
  <2>1. PICK f \in F : UpTo(f, n)
    BY <1>2
  <2>2. B[f] \in F
    OBVIOUS
  <2>3. ASSUME NEW x \in D, rank[x] < n + 1 PROVE B[f][x] = B[B[f]][x]
    <3>1. ASSUME NEW y \in D, rank[y] < rank[x] PROVE f[y] = B[f][y]
      <4>1. rank[y] \in Nat /\ rank[x] \in Nat
        OBVIOUS
      <4>2. rank[y] < n
        BY <2>3, <3>1, <4>1
      <4> QED BY <2>1, <4>2
    <3> QED BY <2>2, <3>1 DEF LowerOnly, Lower
  <2>4. UpTo(B[f], n + 1)
    BY <2>3
  <2>5. n + 1 \in Nat
    OBVIOUS
  <2> HIDE DEF UpTo
  <2> QED BY <2>2, <2>4, <2>5
<1>3. bound \in Good
  <2>1. Nat \subseteq Good
    <3> HIDE DEF Good
    <3> QED BY <1>1, <1>2, SetInduction
  <2> QED BY <2>1
<1>4. PICK f \in F : UpTo(f, bound)
  BY <1>3
<1>5. \A x \in D : f[x] = B[f][x]
  BY <1>4
<1>6. f = [x \in D |-> f[x]] /\ B[f] = [x \in D |-> B[f][x]] /\ B[f] \in F
  BY DEF AreFunctions
<1> QED BY <1>5, <1>6

\* Functions on D that agree at a place when they agree at all of lower rank are the same.
LEMMA SameFunction ==
    ASSUME NEW D, NEW rank \in [D -> Nat], NEW f, NEW g, f = [x \in D |-> f[x]], g = [x \in D |-> g[x]],
           \A x \in D : Lower(f, g, D, rank, x) => f[x] = g[x]
    PROVE  f = g
<1> DEFINE S == {x \in D : f[x] = g[x]}
<1>1. \A x \in D : (\A y \in D : rank[y] < rank[x] => y \in S) => x \in S
  BY DEF Lower
<1>2. D \subseteq S
  <2> HIDE DEF S
  <2> QED BY <1>1, RankInduction
<1> QED BY <1>2

----------------------------------------------------------------------------
(* Chains                                                                  *)

Splits(c) == c[1]..(c[2] - 1)
Left(c, k) == <<c[1], k>>
Right(c, k) == <<k + 1, c[2]>>
Extent(c) == c[2] - c[1]

\* A chain is a pair of places in order.
LEMMA ChainType ==
    ASSUME NEW n \in Nat, NEW c \in Chains(n)
    PROVE  /\ c[1] \in 0..(n - 1) /\ c[2] \in 0..(n - 1) /\ c[1] <= c[2]
           /\ c = <<c[1], c[2]>> /\ Extent(c) \in Nat /\ Extent(c) < n
BY DEF Chains, Extent

\* A split leaves two shorter chains.
LEMMA SplitChain ==
    ASSUME NEW n \in Nat, NEW c \in Chains(n), c[1] # c[2], NEW k \in Splits(c)
    PROVE  /\ Left(c, k) \in Chains(n) /\ Extent(Left(c, k)) < Extent(c)
           /\ Right(c, k) \in Chains(n) /\ Extent(Right(c, k)) < Extent(c)
BY DEF Chains, Extent, Splits, Left, Right

\* A chain of two matrices or more can be split.
LEMMA SplitExists ==
    ASSUME NEW n \in Nat, NEW c \in Chains(n), c[1] # c[2]
    PROVE  c[2] - 1 \in Splits(c) /\ Splits(c) \subseteq Nat
BY DEF Chains, Splits

\* Induction on the extent of a chain.
LEMMA ChainInduction ==
    ASSUME NEW n \in Nat, NEW S,
           \A c \in Chains(n) : (\A d \in Chains(n) : Extent(d) < Extent(c) => d \in S) => c \in S
    PROVE  Chains(n) \subseteq S
<1> DEFINE D == Chains(n)
           rank == [c \in D |-> Extent(c)]
<1>1. \A c \in D : Extent(c) \in Nat
  BY ChainType
<1>2. rank \in [D -> Nat] /\ \A c \in D : rank[c] = Extent(c)
  BY <1>1
<1>3. \A c \in D : (\A d \in D : rank[d] < rank[c] => d \in S) => c \in S
  BY <1>2
<1> HIDE DEF rank, D
<1>4. D \subseteq S
  BY <1>2, <1>3, RankInduction
<1> QED BY <1>4 DEF D

\* Recursion on the extent of a chain.
Local(n, F, B) ==
    \A f, g \in F : \A c \in Chains(n) :
        (\A d \in Chains(n) : Extent(d) < Extent(c) => f[d] = g[d]) => B[f][c] = B[g][c]

\* A function on chains with the values that B gives it exists.
LEMMA ChainRecursion ==
    ASSUME NEW n \in Nat, NEW F, AreFunctions(F, Chains(n)),
           NEW start \in F, NEW B \in [F -> F], Local(n, F, B)
    PROVE  \E f \in F : f = B[f]
<1> DEFINE D == Chains(n)
           rank == [c \in D |-> Extent(c)]
<1>1. \A c \in D : Extent(c) \in Nat /\ Extent(c) < n
  BY ChainType
<1>2. rank \in [D -> Nat]
  BY <1>1
<1>6. \A c \in D : rank[c] = Extent(c)
  OBVIOUS
<1>7. \A c \in D : rank[c] < n
  BY <1>1
<1>3. LowerOnly(D, rank, F, B)
  BY <1>6 DEF Local, LowerOnly, Lower
<1>4. AreFunctions(F, D)
  OBVIOUS
<1> HIDE DEF rank, D
<1> QED BY <1>2, <1>3, <1>4, <1>7, RecursionExists

\* Functions on chains that agree on a chain when they agree on all shorter ones are the same.
LEMMA SameOnChains ==
    ASSUME NEW n \in Nat, NEW f, NEW g,
           f = [c \in Chains(n) |-> f[c]], g = [c \in Chains(n) |-> g[c]],
           \A c \in Chains(n) : (\A d \in Chains(n) : Extent(d) < Extent(c) => f[d] = g[d]) => f[c] = g[c]
    PROVE  f = g
<1> DEFINE S == {c \in Chains(n) : f[c] = g[c]}
<1>1. \A c \in Chains(n) : (\A d \in Chains(n) : Extent(d) < Extent(c) => d \in S) => c \in S
  OBVIOUS
<1>2. Chains(n) \subseteq S
  <2> HIDE DEF S
  <2> QED BY <1>1, ChainInduction
<1> QED BY <1>2

----------------------------------------------------------------------------
(* The least costs and the splits                                          *)

Sizes(n) == [0..n -> Nat]

\* A product of numbers is one.
LEMMA NatProduct == \A a, b \in Nat : a * b \in Nat
OBVIOUS

\* The multiplications of a split can be counted.
LEMMA ProductType ==
    ASSUME NEW n \in Nat, NEW sizes \in Sizes(n), NEW c \in Chains(n), c[1] # c[2], NEW k \in Splits(c)
    PROVE  Product(sizes, c[1], k, c[2]) \in Nat
<1>1. c[1] \in 0..n /\ k + 1 \in 0..n /\ c[2] + 1 \in 0..n
  BY DEF Chains, Splits
<1>2. sizes[c[1]] \in Nat /\ sizes[k + 1] \in Nat /\ sizes[c[2] + 1] \in Nat
  BY <1>1 DEF Sizes
<1> QED BY <1>2, NatProduct DEF Product

Costs(n) == [Chains(n) -> 0..SIZE_MAX]

\* A cost is a size_t, wrapped or not.
LEMMA CurrentCostType ==
    ASSUME NEW n \in Nat, NEW sizes \in Sizes(n), NEW c \in Chains(n), c[1] # c[2], NEW k \in Splits(c),
           NEW cost \in Costs(n)
    PROVE  CurrentCost(cost, sizes, c[1], k, c[2]) \in 0..SIZE_MAX
<1>1. cost[Left(c, k)] \in Nat /\ cost[Right(c, k)] \in Nat
  BY SplitChain DEF Costs
<1>2. Product(sizes, c[1], k, c[2]) \in Nat
  BY ProductType
<1>3. SIZE_MAX + 1 \in Nat \ {0}
  BY MatrixAssumption
<1>4. \A x \in Nat : x % (SIZE_MAX + 1) \in 0..SIZE_MAX
  BY <1>3, MatrixAssumption
<1>5. cost[Left(c, k)] + cost[Right(c, k)] + Product(sizes, c[1], k, c[2]) \in Nat
  BY <1>1, <1>2
<1> QED BY <1>4, <1>5 DEF CurrentCost, Left, Right

Current(cost, sizes, c) == {CurrentCost(cost, sizes, c[1], k, c[2]) : k \in Splits(c)}
CostEntry(cost, sizes, c) == IF c[1] = c[2] THEN 0 ELSE Least(Current(cost, sizes, c))

\* So is the least one.
LEMMA CostEntryType ==
    ASSUME NEW n \in Nat, NEW sizes \in Sizes(n), NEW c \in Chains(n), NEW cost \in Costs(n)
    PROVE  CostEntry(cost, sizes, c) \in 0..SIZE_MAX
<1>1. CASE c[1] = c[2]
  BY <1>1, MatrixAssumption DEF CostEntry
<1>2. CASE c[1] # c[2]
  <2>1. Current(cost, sizes, c) \subseteq 0..SIZE_MAX /\ Current(cost, sizes, c) # {}
    BY <1>2, CurrentCostType, SplitExists DEF Current
  <2>2. Current(cost, sizes, c) \in SUBSET Nat
    BY <2>1
  <2>3. Least(Current(cost, sizes, c)) \in Current(cost, sizes, c)
    BY <2>1, <2>2, LeastIs
  <2> QED BY <1>2, <2>1, <2>3 DEF CostEntry
<1> QED BY <1>1, <1>2

\* ChainCosts gives every chain the least cost its splits have with the costs of the parts.
IsCosts(cost, sizes, n) ==
    /\ cost \in Costs(n)
    /\ \A c \in Chains(n) : cost[c] = CostEntry(cost, sizes, c)

\* Such costs exist, so ChainCosts are these.
LEMMA ChainCostsIs ==
    ASSUME NEW n \in Nat, NEW sizes \in Sizes(n)
    PROVE  IsCosts(ChainCosts(sizes, n), sizes, n)
<1> DEFINE F == Costs(n)
           step(f) == [c \in Chains(n) |-> CostEntry(f, sizes, c)]
           B == [f \in F |-> step(f)]
<1>1. AreFunctions(F, Chains(n))
  BY DEF Costs, AreFunctions
<1>2. ASSUME NEW f \in F PROVE step(f) \in F
  BY CostEntryType DEF Costs
<1>3. B \in [F -> F]
  BY <1>2
<1>4. [c \in Chains(n) |-> 0] \in F
  BY MatrixAssumption DEF Costs
<1>5. ASSUME NEW f, NEW g, NEW c \in Chains(n),
             \A d \in Chains(n) : Extent(d) < Extent(c) => f[d] = g[d]
      PROVE  step(f)[c] = step(g)[c]
  <2>1. CASE c[1] = c[2]
    BY <2>1 DEF CostEntry
  <2>2. CASE c[1] # c[2]
    <3>1. ASSUME NEW k \in Splits(c)
          PROVE  CurrentCost(f, sizes, c[1], k, c[2]) = CurrentCost(g, sizes, c[1], k, c[2])
      <4>1. f[Left(c, k)] = g[Left(c, k)] /\ f[Right(c, k)] = g[Right(c, k)]
        BY <1>5, <2>2, SplitChain
      <4> QED BY <4>1 DEF CurrentCost, Left, Right
    <3>2. Current(f, sizes, c) = Current(g, sizes, c)
      BY <3>1 DEF Current
    <3> QED BY <3>2 DEF CostEntry
  <2> QED BY <2>1, <2>2
<1>6. Local(n, F, B)
  BY <1>5 DEF Local
<1>7. PICK f \in F : f = B[f]
  <2> HIDE DEF F, B
  <2> QED BY <1>1, <1>3, <1>4, <1>6, ChainRecursion
<1>8. f = step(f)
  BY <1>7
<1> DEFINE cost == ChainCosts(sizes, n)
<1>9. cost = step(cost)
  <2>1. cost = CHOOSE g : g = step(g)
    BY DEF ChainCosts, CostEntry, Current, Splits
  <2> HIDE DEF step, cost
  <2> QED BY <1>8, <2>1
<1>10. cost = f
  <2>1. ASSUME NEW c \in Chains(n), \A d \in Chains(n) : Extent(d) < Extent(c) => cost[d] = f[d]
        PROVE  cost[c] = f[c]
    <3>1. step(cost)[c] = step(f)[c]
      <4> HIDE DEF step, cost
      <4> QED BY <1>5, <2>1
    <3> HIDE DEF step, cost
    <3> QED BY <1>8, <1>9, <3>1
  <2>2. \A g : step(g) = [c \in Chains(n) |-> step(g)[c]]
    OBVIOUS
  <2> HIDE DEF step, cost
  <2> QED BY <1>8, <1>9, <2>1, <2>2, SameOnChains
<1>11. \A c \in Chains(n) : f[c] = CostEntry(f, sizes, c)
  <2>1. \A c \in Chains(n) : step(f)[c] = CostEntry(f, sizes, c)
    OBVIOUS
  <2> HIDE DEF step
  <2> QED BY <1>8, <2>1
<1> QED BY <1>10, <1>11 DEF IsCosts

----------------------------------------------------------------------------
(* Every split leaves a matrix on both sides                               *)

\* The sizes of an expression's matrices are numbers.
LEMMA SizesType ==
    ASSUME NEW e \in Seq(Matrices), e # <<>>
    PROVE  generate_matrix_size(e) \in Sizes(Len(e)) /\ Len(e) \in Nat \ {0}
<1>1. Len(e) \in Nat \ {0} /\ \A i \in 1..Len(e) : e[i] \in Matrices
  OBVIOUS
<1>2. \A m \in Matrices : height[m] \in Nat /\ width[m] \in Nat
  BY MatrixAssumption
<1>3. height[e[1]] \in Nat
  BY <1>1, <1>2
<1>4. ASSUME NEW i \in 0..Len(e), i # 0 PROVE width[e[i]] \in Nat
  BY <1>1, <1>2, <1>4
<1> QED BY <1>1, <1>3, <1>4 DEF generate_matrix_size, Sizes

\* resolve takes the default split or one whose cost is the least.
SplitsOfCost(cost, sizes, c) ==
    {k \in Splits(c) : CurrentCost(cost, sizes, c[1], k, c[2]) = cost[c]}

\* What resolve stores at a chain.
LEMMA ResolveIs ==
    ASSUME NEW e, NEW sizes, sizes = generate_matrix_size(e), NEW cost, cost = ChainCosts(sizes, Len(e)),
           NEW c \in Chains(Len(e)), c[1] # c[2]
    PROVE  resolve(e)[c] = IF cost[c] = SIZE_MAX THEN c[2] - 1 ELSE Least(SplitsOfCost(cost, sizes, c))
BY DEF resolve, default_solution, SplitsOfCost, Splits

\* It splits the chain: a cost that is found is the cost of some split.
LEMMA SolutionType ==
    ASSUME NEW e \in Seq(Matrices), e # <<>>, NEW c \in Chains(Len(e)), c[1] # c[2]
    PROVE  resolve(e)[c] \in Splits(c)
<1> DEFINE n == Len(e)
           sizes == generate_matrix_size(e)
           cost == ChainCosts(sizes, n)
<1>1. n \in Nat /\ sizes \in Sizes(n)
  BY SizesType
<1>2. IsCosts(cost, sizes, n)
  BY <1>1, ChainCostsIs
<1>3. resolve(e)[c] = IF cost[c] = SIZE_MAX THEN c[2] - 1 ELSE Least(SplitsOfCost(cost, sizes, c))
  BY ResolveIs
<1> HIDE DEF n, sizes, cost
<1>4. c[2] - 1 \in Splits(c) /\ Splits(c) \subseteq Nat
  BY <1>1, SplitExists DEF n
<1>5. Least(SplitsOfCost(cost, sizes, c)) \in Splits(c)
  <2>1. Current(cost, sizes, c) \in SUBSET Nat /\ Current(cost, sizes, c) # {}
    BY <1>1, <1>2, <1>4, CurrentCostType DEF Current, IsCosts, n
  <2>2. cost[c] \in Current(cost, sizes, c)
    BY <1>2, <2>1, LeastIs DEF IsCosts, CostEntry, n
  <2>3. SplitsOfCost(cost, sizes, c) # {} /\ SplitsOfCost(cost, sizes, c) \in SUBSET Nat
    BY <1>4, <2>2 DEF SplitsOfCost, Current
  <2>4. Least(SplitsOfCost(cost, sizes, c)) \in SplitsOfCost(cost, sizes, c)
    BY <2>3, LeastIs
  <2> QED BY <2>4 DEF SplitsOfCost
<1> QED BY <1>3, <1>4, <1>5

\* solution splits every chain that can be split.
IsSolution(solution, n) == \A c \in Chains(n) : c[1] # c[2] => solution[c] \in Splits(c)

\* So the result of resolve is a solution.
LEMMA ResolveSplits == ASSUME NEW e \in Seq(Matrices), e # <<>> PROVE IsSolution(resolve(e), Len(e))
BY SolutionType DEF IsSolution

----------------------------------------------------------------------------
(* The type of a product                                                   *)

\* The sums that Times adds up in a cell.
DotEntry(s, a, b, i, j, k) ==
    (IF k = 0 THEN a[i][0] * b[0][j] ELSE s[k - 1] + a[i][k] * b[k][j]) % Modulus

Elements == 0..(Modulus - 1)

IsDot(s, a, b, w, i, j) ==
    /\ s \in [0..(w - 1) -> Elements]
    /\ \A k \in 0..(w - 1) : s[k] = DotEntry(s, a, b, i, j, k)

\* A remainder is an element.
LEMMA Remainder == \A x \in Nat : x % Modulus \in Elements
BY MatrixAssumption DEF Elements

\* Every sum is an element.
LEMMA DotEntryType ==
    ASSUME NEW w \in Nat, NEW h \in Nat, NEW x \in Nat, NEW a \in Rows(h, w), NEW b \in Rows(w, x),
           NEW i \in 0..(h - 1), NEW j \in 0..(x - 1), NEW k \in 0..(w - 1),
           NEW s \in [0..(w - 1) -> Elements]
    PROVE  DotEntry(s, a, b, i, j, k) \in Elements
<1>1. Elements \subseteq Nat
  BY DEF Elements
<1>2. \A l \in 0..(w - 1) : a[i][l] \in Elements /\ b[l][j] \in Elements
  BY DEF Rows, Elements
<1>3. \A l \in 0..(w - 1) : a[i][l] \in Nat /\ b[l][j] \in Nat /\ s[l] \in Nat
  BY <1>1, <1>2
<1>4. \A l \in 0..(w - 1) : a[i][l] * b[l][j] \in Nat
  BY <1>3, NatProduct
<1>5. CASE k = 0
  BY <1>4, <1>5, Remainder DEF DotEntry
<1>6. CASE k # 0
  <2>1. k - 1 \in 0..(w - 1)
    BY <1>6
  <2>2. s[k - 1] + a[i][k] * b[k][j] \in Nat
    BY <1>3, <1>4, <2>1
  <2> QED BY <1>6, <2>2, Remainder DEF DotEntry
<1> QED BY <1>5, <1>6

Dot(a, b, w, i, j) == CHOOSE s : s = [k \in 0..(w - 1) |-> DotEntry(s, a, b, i, j, k)]

\* Such sums exist, so those of Times are these.
LEMMA DotIs ==
    ASSUME NEW w \in Nat, NEW h \in Nat, NEW x \in Nat, NEW a \in Rows(h, w), NEW b \in Rows(w, x),
           NEW i \in 0..(h - 1), NEW j \in 0..(x - 1)
    PROVE  IsDot(Dot(a, b, w, i, j), a, b, w, i, j)
<1> DEFINE D == 0..(w - 1)
           rank == [k \in D |-> k]
           F == [D -> Elements]
           step(s) == [k \in D |-> DotEntry(s, a, b, i, j, k)]
           B == [s \in F |-> step(s)]
           dot == Dot(a, b, w, i, j)
<1>1. rank \in [D -> Nat]
  OBVIOUS
<1>2. \A k \in D : rank[k] < w
  OBVIOUS
<1>3. AreFunctions(F, D)
  BY DEF AreFunctions
<1>4. [k \in D |-> 0] \in F
  BY MatrixAssumption DEF Elements
<1>5. B \in [F -> F]
  BY DotEntryType
<1>6. ASSUME NEW s, NEW t, NEW k \in D, Lower(s, t, D, rank, k) PROVE step(s)[k] = step(t)[k]
  <2>1. CASE k = 0
    BY <2>1 DEF DotEntry
  <2>2. CASE k # 0
    <3>1. k - 1 \in D /\ rank[k - 1] < rank[k]
      BY <2>2
    <3>2. s[k - 1] = t[k - 1]
      BY <1>6, <3>1 DEF Lower
    <3> QED BY <3>2 DEF DotEntry
  <2> QED BY <2>1, <2>2
<1>7. LowerOnly(D, rank, F, B)
  BY <1>6 DEF LowerOnly
<1>8. PICK s \in F : s = B[s]
  <2> HIDE DEF D, rank, F, B
  <2> QED BY <1>1, <1>2, <1>3, <1>4, <1>5, <1>7, RecursionExists
<1>9. s = step(s)
  BY <1>8
<1>10. dot = step(dot)
  <2>1. dot = CHOOSE t : t = step(t)
    BY DEF Dot
  <2> HIDE DEF step, dot
  <2> QED BY <1>9, <2>1
<1>11. dot = s
  <2>1. \A t : step(t) = [k \in D |-> step(t)[k]]
    OBVIOUS
  <2> HIDE DEF step, dot, D, rank, F
  <2>2. \A k \in D : Lower(dot, s, D, rank, k) => dot[k] = s[k]
    BY <1>6, <1>9, <1>10
  <2> QED BY <1>1, <1>9, <1>10, <2>1, <2>2, SameFunction
<1>12. \A k \in D : s[k] = DotEntry(s, a, b, i, j, k)
  <2>1. \A k \in D : step(s)[k] = DotEntry(s, a, b, i, j, k)
    OBVIOUS
  <2> HIDE DEF step
  <2> QED BY <1>9, <2>1
<1> QED BY <1>11, <1>12 DEF IsDot

\* Times has the last sum in every cell.
LEMMA TimesIs ==
    ASSUME NEW w \in Nat \ {0}, NEW h \in Nat, NEW x \in Nat, NEW a \in Rows(h, w), NEW b \in Rows(w, x),
           h # 0
    PROVE  Times(a, b) = [i \in 0..(h - 1) |-> [j \in 0..(x - 1) |-> Dot(a, b, w, i, j)[w - 1]]]
<1>1. DOMAIN a = 0..(h - 1) /\ DOMAIN a[0] = 0..(w - 1) /\ DOMAIN b[0] = 0..(x - 1)
  BY DEF Rows
<1>2. Cardinality(0..(w - 1)) = w
  BY FS_Interval
<1>3. Times(a, b) = [i \in DOMAIN a |-> [j \in DOMAIN b[0] |->
                        Dot(a, b, Cardinality(DOMAIN a[0]), i, j)[Cardinality(DOMAIN a[0]) - 1]]]
  BY DEF Times, Dot, DotEntry
<1>4. Cardinality(DOMAIN a[0]) = w
  BY <1>1, <1>2
<1> QED BY <1>1, <1>3, <1>4

\* The product of results that fit is a result.
LEMMA TimesType ==
    ASSUME NEW w \in Nat \ {0}, NEW h \in Nat \ {0}, NEW x \in Nat,
           NEW a \in Rows(h, w), NEW b \in Rows(w, x)
    PROVE  Times(a, b) \in Rows(h, x)
<1>1. ASSUME NEW i \in 0..(h - 1), NEW j \in 0..(x - 1) PROVE Dot(a, b, w, i, j)[w - 1] \in Elements
  <2>1. IsDot(Dot(a, b, w, i, j), a, b, w, i, j)
    BY DotIs
  <2>2. w - 1 \in 0..(w - 1)
    OBVIOUS
  <2> QED BY <2>1, <2>2 DEF IsDot
<1>2. Times(a, b) = [i \in 0..(h - 1) |-> [j \in 0..(x - 1) |-> Dot(a, b, w, i, j)[w - 1]]]
  BY TimesIs
<1>3. Rows(h, x) = [0..(h - 1) -> [0..(x - 1) -> Elements]]
  BY DEF Rows, Elements
<1> QED BY <1>1, <1>2, <1>3

----------------------------------------------------------------------------
(* The type of an evaluation                                               *)

\* The type of the result of a chain, a result_between_t.
ResultRows(e, c) == Rows(height[e[c[1] + 1]], width[e[c[2] + 1]])

TypedValue(v) == \A m \in Matrices : v[m] \in Rows(height[m], width[m])
TypedExpr(e) == e \in Seq(Matrices) /\ e # <<>> /\ check_consistencies(e)

EvalSplit(f, e, c, k) == Times(f[Left(c, k)], f[Right(c, k)])
EvalEntry(f, v, e, solution, c) ==
    IF c[1] = c[2] THEN v[e[c[1] + 1]] ELSE EvalSplit(f, e, c, solution[c])

\* At a split the parts have sizes that fit.
LEMMA SplitFits ==
    ASSUME NEW e, TypedExpr(e), NEW c \in Chains(Len(e)), c[1] # c[2], NEW k \in Splits(c)
    PROVE  \E h, w, x \in Nat \ {0} :
             /\ ResultRows(e, Left(c, k)) = Rows(h, w)
             /\ ResultRows(e, Right(c, k)) = Rows(w, x)
             /\ ResultRows(e, c) = Rows(h, x)
<1>1. e \in Seq(Matrices) /\ Len(e) \in Nat
  BY DEF TypedExpr
<1>2. /\ c[1] + 1 \in 1..Len(e) /\ c[2] + 1 \in 1..Len(e)
      /\ k + 1 \in 1..(Len(e) - 1) /\ k + 1 + 1 \in 1..Len(e) /\ k + 1 \in 1..Len(e)
  BY <1>1 DEF Chains, Splits
<1>3. width[e[k + 1]] = height[e[k + 1 + 1]]
  BY <1>2 DEF TypedExpr, check_consistencies
<1>4. /\ height[e[c[1] + 1]] \in Nat \ {0} /\ width[e[c[2] + 1]] \in Nat \ {0}
      /\ width[e[k + 1]] \in Nat \ {0}
  <2>1. e[c[1] + 1] \in Matrices /\ e[c[2] + 1] \in Matrices /\ e[k + 1] \in Matrices
    BY <1>1, <1>2
  <2>2. \A m \in Matrices : height[m] \in Nat \ {0} /\ width[m] \in Nat \ {0}
    BY MatrixAssumption
  <2> QED BY <2>1, <2>2
<1> QED BY <1>3, <1>4 DEF ResultRows, Left, Right

\* A multiplication of results that have their types has its type.
LEMMA EvalEntryType ==
    ASSUME NEW v, TypedValue(v), NEW e, TypedExpr(e), NEW solution, IsSolution(solution, Len(e)),
           NEW c \in Chains(Len(e)), NEW f,
           \A d \in Chains(Len(e)) : f[d] \in ResultRows(e, d)
    PROVE  EvalEntry(f, v, e, solution, c) \in ResultRows(e, c)
<1>1. Len(e) \in Nat /\ e \in Seq(Matrices) /\ e # <<>>
  BY DEF TypedExpr
<1>2. CASE c[1] = c[2]
  <2>1. e[c[1] + 1] \in Matrices
    BY <1>1 DEF Chains
  <2> QED BY <1>2, <2>1 DEF TypedValue, EvalEntry, ResultRows
<1>3. CASE c[1] # c[2]
  <2> DEFINE k == solution[c]
  <2>1. k \in Splits(c)
    BY <1>3 DEF IsSolution
  <2>2. EvalEntry(f, v, e, solution, c) = EvalSplit(f, e, c, k)
    BY <1>3 DEF EvalEntry
  <2> HIDE DEF k
  <2>3. f[Left(c, k)] \in ResultRows(e, Left(c, k)) /\ f[Right(c, k)] \in ResultRows(e, Right(c, k))
    BY <1>1, <1>3, <2>1, SplitChain
  <2>4. PICK h, w, x \in Nat \ {0} :
             /\ ResultRows(e, Left(c, k)) = Rows(h, w)
             /\ ResultRows(e, Right(c, k)) = Rows(w, x)
             /\ ResultRows(e, c) = Rows(h, x)
    BY <1>3, <2>1, SplitFits
  <2>5. EvalSplit(f, e, c, k) \in Rows(h, x)
    BY <2>3, <2>4, TimesType DEF EvalSplit
  <2> QED BY <2>2, <2>4, <2>5
<1> QED BY <1>2, <1>3

Evaluation(v, e, solution) == CHOOSE f : f = [c \in Chains(Len(e)) |-> EvalEntry(f, v, e, solution, c)]

IsEvaluation(f, v, e, solution) ==
    \A c \in Chains(Len(e)) : f[c] \in ResultRows(e, c) /\ f[c] = EvalEntry(f, v, e, solution, c)

\* evaluate is the value that Evaluation gives the whole chain.
LEMMA EvaluateIs == ASSUME NEW v, NEW e PROVE evaluate(v, e) = Evaluation(v, e, resolve(e))[<<0, Len(e) - 1>>]
BY DEF evaluate, Evaluation, EvalEntry, EvalSplit, Left, Right

\* An evaluation exists, so Evaluation is one.
LEMMA EvaluationIs ==
    ASSUME NEW v, TypedValue(v), NEW e, TypedExpr(e), NEW solution, IsSolution(solution, Len(e))
    PROVE  IsEvaluation(Evaluation(v, e, solution), v, e, solution)
<1> DEFINE n == Len(e)
           F == {f \in [Chains(n) -> UNION {ResultRows(e, c) : c \in Chains(n)}] :
                     \A c \in Chains(n) : f[c] \in ResultRows(e, c)}
           step(f) == [c \in Chains(n) |-> EvalEntry(f, v, e, solution, c)]
           B == [f \in F |-> step(f)]
           result == Evaluation(v, e, solution)
<1>0. n \in Nat /\ e \in Seq(Matrices) /\ e # <<>>
  BY DEF TypedExpr
<1>1. AreFunctions(F, Chains(n))
  BY DEF AreFunctions
<1>2. ASSUME NEW f \in F PROVE step(f) \in F
  <2>1. \A c \in Chains(n) : EvalEntry(f, v, e, solution, c) \in ResultRows(e, c)
    BY EvalEntryType
  <2> QED BY <2>1
<1>3. B \in [F -> F]
  BY <1>2
<1>4. \E start : start \in F
  <2> DEFINE zero(c) == [i \in 0..(height[e[c[1] + 1]] - 1) |-> [j \in 0..(width[e[c[2] + 1]] - 1) |-> 0]]
  <2>1. \A c \in Chains(n) : zero(c) \in ResultRows(e, c)
    BY MatrixAssumption DEF ResultRows, Rows
  <2> HIDE DEF zero
  <2>2. [c \in Chains(n) |-> zero(c)] \in F
    BY <2>1
  <2> QED BY <2>2
<1>5. ASSUME NEW f, NEW g, NEW c \in Chains(n),
             \A d \in Chains(n) : Extent(d) < Extent(c) => f[d] = g[d]
      PROVE  step(f)[c] = step(g)[c]
  <2>1. CASE c[1] = c[2]
    BY <2>1 DEF EvalEntry
  <2>2. CASE c[1] # c[2]
    <3>1. solution[c] \in Splits(c)
      BY <2>2 DEF IsSolution
    <3>2. \A k \in Splits(c) : f[Left(c, k)] = g[Left(c, k)] /\ f[Right(c, k)] = g[Right(c, k)]
      BY <1>0, <1>5, <2>2, SplitChain
    <3> QED BY <2>2, <3>1, <3>2 DEF EvalEntry, EvalSplit
  <2> QED BY <2>1, <2>2
<1>6. Local(n, F, B)
  <2>1. \A f \in F : B[f] = step(f)
    OBVIOUS
  <2>2. ASSUME NEW f \in F, NEW g \in F, NEW c \in Chains(n),
               \A d \in Chains(n) : Extent(d) < Extent(c) => f[d] = g[d]
        PROVE  B[f][c] = B[g][c]
    <3>1. step(f)[c] = step(g)[c]
      <4> HIDE DEF F, B, step, n
      <4> QED BY <1>5, <2>2
    <3> HIDE DEF F, B, step, n
    <3> QED BY <2>1, <3>1
  <2> HIDE DEF F, B, step, n
  <2> QED BY <2>2 DEF Local
<1>7. PICK f \in F : f = B[f]
  <2> HIDE DEF F, B, n
  <2> QED BY <1>0, <1>1, <1>3, <1>4, <1>6, ChainRecursion
<1>8. f = step(f)
  BY <1>7
<1>9. result = step(result)
  <2>1. result = CHOOSE g : g = step(g)
    BY DEF Evaluation
  <2> HIDE DEF step, result
  <2> QED BY <1>8, <2>1
<1>10. result = f
  <2>1. ASSUME NEW c \in Chains(n), \A d \in Chains(n) : Extent(d) < Extent(c) => result[d] = f[d]
        PROVE  result[c] = f[c]
    <3>1. step(result)[c] = step(f)[c]
      <4> HIDE DEF step, result, n
      <4> QED BY <1>5, <2>1
    <3> HIDE DEF step, result
    <3> QED BY <1>8, <1>9, <3>1
  <2>2. \A g : step(g) = [c \in Chains(n) |-> step(g)[c]]
    OBVIOUS
  <2> HIDE DEF step, result, n
  <2> QED BY <1>0, <1>8, <1>9, <2>1, <2>2, SameOnChains
<1>11. \A c \in Chains(n) : f[c] = EvalEntry(f, v, e, solution, c)
  <2>1. \A c \in Chains(n) : step(f)[c] = EvalEntry(f, v, e, solution, c)
    OBVIOUS
  <2> HIDE DEF step
  <2> QED BY <1>8, <2>1
<1>12. \A c \in Chains(n) : f[c] \in ResultRows(e, c)
  OBVIOUS
<1> HIDE DEF result, F, step, B
<1> QED BY <1>10, <1>11, <1>12 DEF IsEvaluation, result

\* The value of an expression has the height of its first and the width of its last matrix.
LEMMA EvaluateType ==
    ASSUME NEW v, TypedValue(v), NEW e, TypedExpr(e)
    PROVE  evaluate(v, e) \in Rows(height[e[1]], width[e[Len(e)]])
<1>1. <<0, Len(e) - 1>> \in Chains(Len(e))
  BY DEF TypedExpr, Chains
<1>2. IsEvaluation(Evaluation(v, e, resolve(e)), v, e, resolve(e))
  BY EvaluationIs, ResolveSplits DEF TypedExpr
<1>3. evaluate(v, e) \in ResultRows(e, <<0, Len(e) - 1>>)
  BY <1>1, <1>2, EvaluateIs DEF IsEvaluation
<1>4. 0 + 1 = 1 /\ (Len(e) - 1) + 1 = Len(e)
  BY DEF TypedExpr
<1> QED BY <1>3, <1>4 DEF ResultRows

----------------------------------------------------------------------------
(* The invariant                                                           *)

\* What a step keeps: the matrices keep their sizes, and those an expression refers to fit.
Typed ==
    /\ value = [m \in Matrices |-> value[m]] /\ TypedValue(value)
    /\ expr \in Seq(Matrices) /\ check_consistencies(expr)

\* Typed holds at the start.
LEMMA TypedInit == Init => Typed
BY DEF Init, Typed, TypedValue, check_consistencies

\* Every step keeps Typed: the value assigned has the type of the matrix.
LEMMA TypedStep == Typed /\ [Next]_mvars => Typed'
<1> SUFFICES ASSUME Typed, [Next]_mvars PROVE Typed'
  OBVIOUS
<1>1. ASSUME NEW e \in Seq(Matrices), Multiply(e) PROVE Typed'
  BY <1>1 DEF Multiply, Typed, TypedValue, check_consistencies
<1>2. CASE multiply_two
  <2>1. \A a, b \in Matrices : <<a, b>> \in Seq(Matrices)
    OBVIOUS
  <2> QED BY <1>1, <1>2, <2>1 DEF multiply_two
<1>3. CASE multiply_right
  <2>1. \A m \in Matrices : Append(expr, m) \in Seq(Matrices)
    BY DEF Typed
  <2> QED BY <1>1, <1>3, <2>1 DEF multiply_right
<1>4. CASE multiply_left
  <2>1. \A m \in Matrices : <<m>> \o expr \in Seq(Matrices)
    BY DEF Typed
  <2> QED BY <1>1, <1>4, <2>1 DEF multiply_left
<1>5. ASSUME NEW m \in Matrices, assign(m) PROVE Typed'
  <2>1. TypedValue(value) /\ TypedExpr(expr)
    BY <1>5 DEF assign, Typed, TypedExpr
  <2>2. evaluate(value, expr) \in Rows(height[m], width[m])
    BY <1>5, <2>1, EvaluateType DEF assign
  <2>3. value' = [value EXCEPT ![m] = evaluate(value, expr)] /\ expr' = expr
    BY <1>5 DEF assign
  <2> QED BY <2>2, <2>3 DEF Typed, TypedValue, check_consistencies
<1>6. CASE UNCHANGED mvars
  BY <1>6 DEF mvars, Typed, TypedValue, check_consistencies
<1> QED BY <1>2, <1>3, <1>4, <1>5, <1>6 DEF Next

\* The matrices and the expression stay well-typed.
THEOREM TypedSafe == Spec => []Typed
BY TypedInit, TypedStep, PTL DEF Spec

\* The matrices keep their sizes, and every split of the multiplication leaves a matrix on
\* both sides, whatever the sizes are and however the costs wrap.
THEOREM MatrixTypeSafe == Spec => []MatrixTypeOK
<1>1. Typed => MatrixTypeOK
  <2> SUFFICES ASSUME Typed PROVE MatrixTypeOK
    OBVIOUS
  <2>1. ASSUME expr # <<>>, NEW c \in Chains(Len(expr)), c[1] < c[2]
        PROVE  resolve(expr)[c] \in c[1]..(c[2] - 1)
    <3>1. c[1] # c[2]
      BY <2>1 DEF Chains
    <3> QED BY <2>1, <3>1, SolutionType DEF Typed, Splits
  <2> QED BY <2>1 DEF MatrixTypeOK, Typed, TypedValue
<1> QED BY <1>1, TypedSafe, PTL

----------------------------------------------------------------------------
(* The costs of all the ways to multiply, and of the chosen one            *)

Combined(all, sizes, c, k) ==
    {p + q + Product(sizes, c[1], k, c[2]) : p \in all[Left(c, k)], q \in all[Right(c, k)]}
AllEntry(all, sizes, c) ==
    IF c[1] = c[2] THEN {0} ELSE UNION {Combined(all, sizes, c, k) : k \in Splits(c)}

IsAll(all, sizes, n) ==
    /\ all \in [Chains(n) -> SUBSET Nat]
    /\ \A c \in Chains(n) : all[c] = AllEntry(all, sizes, c)

\* Costs without limit are numbers.
LEMMA AllEntryType ==
    ASSUME NEW n \in Nat, NEW sizes \in Sizes(n), NEW c \in Chains(n), NEW all \in [Chains(n) -> SUBSET Nat]
    PROVE  AllEntry(all, sizes, c) \in SUBSET Nat
<1>1. CASE c[1] = c[2]
  BY <1>1 DEF AllEntry
<1>2. CASE c[1] # c[2]
  <2>1. ASSUME NEW k \in Splits(c) PROVE Combined(all, sizes, c, k) \in SUBSET Nat
    <3>1. Left(c, k) \in Chains(n) /\ Right(c, k) \in Chains(n)
      BY <1>2, SplitChain
    <3>2. Product(sizes, c[1], k, c[2]) \in Nat
      BY <1>2, ProductType
    <3>3. \A p \in all[Left(c, k)], q \in all[Right(c, k)] : p \in Nat /\ q \in Nat
      BY <3>1
    <3> QED BY <3>2, <3>3 DEF Combined
  <2> QED BY <1>2, <2>1 DEF AllEntry
<1> QED BY <1>1, <1>2

AllOf(sizes, n) == CHOOSE f : f = [c \in Chains(n) |-> AllEntry(f, sizes, c)]

\* Such sets of costs exist.
LEMMA AllOfIs == ASSUME NEW n \in Nat, NEW sizes \in Sizes(n) PROVE IsAll(AllOf(sizes, n), sizes, n)
<1> DEFINE F == [Chains(n) -> SUBSET Nat]
           step(f) == [c \in Chains(n) |-> AllEntry(f, sizes, c)]
           B == [f \in F |-> step(f)]
           result == AllOf(sizes, n)
<1>1. AreFunctions(F, Chains(n))
  BY DEF AreFunctions
<1>2. ASSUME NEW f \in F PROVE step(f) \in F
  BY AllEntryType
<1>3. B \in [F -> F]
  BY <1>2
<1>4. [c \in Chains(n) |-> {}] \in F
  OBVIOUS
<1>5. ASSUME NEW f, NEW g, NEW c \in Chains(n),
             \A d \in Chains(n) : Extent(d) < Extent(c) => f[d] = g[d]
      PROVE  step(f)[c] = step(g)[c]
  <2>1. CASE c[1] = c[2]
    BY <2>1 DEF AllEntry
  <2>2. CASE c[1] # c[2]
    <3>1. \A k \in Splits(c) : f[Left(c, k)] = g[Left(c, k)] /\ f[Right(c, k)] = g[Right(c, k)]
      BY <1>5, <2>2, SplitChain
    <3>2. \A k \in Splits(c) : Combined(f, sizes, c, k) = Combined(g, sizes, c, k)
      BY <3>1 DEF Combined
    <3> QED BY <3>2 DEF AllEntry
  <2> QED BY <2>1, <2>2
<1>6. Local(n, F, B)
  <2>1. \A f \in F : B[f] = step(f)
    OBVIOUS
  <2>2. ASSUME NEW f \in F, NEW g \in F, NEW c \in Chains(n),
               \A d \in Chains(n) : Extent(d) < Extent(c) => f[d] = g[d]
        PROVE  B[f][c] = B[g][c]
    <3>1. step(f)[c] = step(g)[c]
      <4> HIDE DEF F, B, step
      <4> QED BY <1>5, <2>2
    <3> HIDE DEF F, B, step
    <3> QED BY <2>1, <3>1
  <2> HIDE DEF F, B, step
  <2> QED BY <2>2 DEF Local
<1>7. PICK f \in F : f = B[f]
  <2> HIDE DEF F, B
  <2> QED BY <1>1, <1>3, <1>4, <1>6, ChainRecursion
<1>8. f = step(f)
  BY <1>7
<1>9. result = step(result)
  <2>1. result = CHOOSE g : g = step(g)
    BY DEF AllOf
  <2> HIDE DEF step, result
  <2> QED BY <1>8, <2>1
<1>10. result = f
  <2>1. ASSUME NEW c \in Chains(n), \A d \in Chains(n) : Extent(d) < Extent(c) => result[d] = f[d]
        PROVE  result[c] = f[c]
    <3>1. step(result)[c] = step(f)[c]
      <4> HIDE DEF step, result
      <4> QED BY <1>5, <2>1
    <3> HIDE DEF step, result
    <3> QED BY <1>8, <1>9, <3>1
  <2>2. \A g : step(g) = [c \in Chains(n) |-> step(g)[c]]
    OBVIOUS
  <2> HIDE DEF step, result
  <2> QED BY <1>8, <1>9, <2>1, <2>2, SameOnChains
<1>11. \A c \in Chains(n) : f[c] = AllEntry(f, sizes, c)
  <2>1. \A c \in Chains(n) : step(f)[c] = AllEntry(f, sizes, c)
    OBVIOUS
  <2> HIDE DEF step
  <2> QED BY <1>8, <2>1
<1> HIDE DEF result, step, B
<1> QED BY <1>10, <1>11 DEF IsAll, result

SplitWork(work, sizes, c, k) == work[Left(c, k)] + work[Right(c, k)] + Product(sizes, c[1], k, c[2])
WorkEntry(work, sizes, solution, c) ==
    IF c[1] = c[2] THEN 0 ELSE SplitWork(work, sizes, c, solution[c])

IsWork(work, sizes, solution, n) ==
    /\ work \in [Chains(n) -> Nat]
    /\ \A c \in Chains(n) : work[c] = WorkEntry(work, sizes, solution, c)

\* The work of a split is a number.
LEMMA SplitWorkType ==
    ASSUME NEW n \in Nat, NEW sizes \in Sizes(n), NEW c \in Chains(n), c[1] # c[2], NEW k \in Splits(c),
           NEW work \in [Chains(n) -> Nat]
    PROVE  SplitWork(work, sizes, c, k) \in Nat
<1>1. work[Left(c, k)] \in Nat /\ work[Right(c, k)] \in Nat
  BY SplitChain
<1>2. Product(sizes, c[1], k, c[2]) \in Nat
  BY ProductType
<1> QED BY <1>1, <1>2 DEF SplitWork

WorkOf(sizes, solution, n) == CHOOSE f : f = [c \in Chains(n) |-> WorkEntry(f, sizes, solution, c)]

\* The work of a solution exists.
LEMMA WorkOfIs ==
    ASSUME NEW n \in Nat, NEW sizes \in Sizes(n), NEW solution, IsSolution(solution, n)
    PROVE  IsWork(WorkOf(sizes, solution, n), sizes, solution, n)
<1> DEFINE F == [Chains(n) -> Nat]
           step(f) == [c \in Chains(n) |-> WorkEntry(f, sizes, solution, c)]
           B == [f \in F |-> step(f)]
           result == WorkOf(sizes, solution, n)
<1>1. AreFunctions(F, Chains(n))
  BY DEF AreFunctions
<1>2. ASSUME NEW f \in F PROVE step(f) \in F
  <2>1. ASSUME NEW c \in Chains(n) PROVE WorkEntry(f, sizes, solution, c) \in Nat
    BY SplitWorkType DEF WorkEntry, IsSolution
  <2> QED BY <2>1
<1>3. B \in [F -> F]
  BY <1>2
<1>4. [c \in Chains(n) |-> 0] \in F
  OBVIOUS
<1>5. ASSUME NEW f, NEW g, NEW c \in Chains(n),
             \A d \in Chains(n) : Extent(d) < Extent(c) => f[d] = g[d]
      PROVE  step(f)[c] = step(g)[c]
  <2>1. CASE c[1] = c[2]
    BY <2>1 DEF WorkEntry
  <2>2. CASE c[1] # c[2]
    <3>1. solution[c] \in Splits(c)
      BY <2>2 DEF IsSolution
    <3>2. \A k \in Splits(c) : f[Left(c, k)] = g[Left(c, k)] /\ f[Right(c, k)] = g[Right(c, k)]
      BY <1>5, <2>2, SplitChain
    <3> QED BY <2>2, <3>1, <3>2 DEF WorkEntry, SplitWork
  <2> QED BY <2>1, <2>2
<1>6. Local(n, F, B)
  <2>1. \A f \in F : B[f] = step(f)
    OBVIOUS
  <2>2. ASSUME NEW f \in F, NEW g \in F, NEW c \in Chains(n),
               \A d \in Chains(n) : Extent(d) < Extent(c) => f[d] = g[d]
        PROVE  B[f][c] = B[g][c]
    <3>1. step(f)[c] = step(g)[c]
      <4> HIDE DEF F, B, step
      <4> QED BY <1>5, <2>2
    <3> HIDE DEF F, B, step
    <3> QED BY <2>1, <3>1
  <2> HIDE DEF F, B, step
  <2> QED BY <2>2 DEF Local
<1>7. PICK f \in F : f = B[f]
  <2> HIDE DEF F, B
  <2> QED BY <1>1, <1>3, <1>4, <1>6, ChainRecursion
<1>8. f = step(f)
  BY <1>7
<1>9. result = step(result)
  <2>1. result = CHOOSE g : g = step(g)
    BY DEF WorkOf
  <2> HIDE DEF step, result
  <2> QED BY <1>8, <2>1
<1>10. result = f
  <2>1. ASSUME NEW c \in Chains(n), \A d \in Chains(n) : Extent(d) < Extent(c) => result[d] = f[d]
        PROVE  result[c] = f[c]
    <3>1. step(result)[c] = step(f)[c]
      <4> HIDE DEF step, result
      <4> QED BY <1>5, <2>1
    <3> HIDE DEF step, result
    <3> QED BY <1>8, <1>9, <3>1
  <2>2. \A g : step(g) = [c \in Chains(n) |-> step(g)[c]]
    OBVIOUS
  <2> HIDE DEF step, result
  <2> QED BY <1>8, <1>9, <2>1, <2>2, SameOnChains
<1>11. \A c \in Chains(n) : f[c] = WorkEntry(f, sizes, solution, c)
  <2>1. \A c \in Chains(n) : step(f)[c] = WorkEntry(f, sizes, solution, c)
    OBVIOUS
  <2> HIDE DEF step
  <2> QED BY <1>8, <2>1
<1> HIDE DEF result, step, B
<1> QED BY <1>10, <1>11 DEF IsWork, result

----------------------------------------------------------------------------
(* The chosen order is optimal                                             *)

\* The work of the chosen order is one of the costs.
LEMMA WorkIsACost ==
    ASSUME NEW n \in Nat, NEW sizes \in Sizes(n), NEW solution, IsSolution(solution, n),
           NEW all, IsAll(all, sizes, n), NEW work, IsWork(work, sizes, solution, n)
    PROVE  \A c \in Chains(n) : work[c] \in all[c]
<1> DEFINE S == {c \in Chains(n) : work[c] \in all[c]}
<1>1. ASSUME NEW c \in Chains(n), \A d \in Chains(n) : Extent(d) < Extent(c) => d \in S PROVE c \in S
  <2>1. CASE c[1] = c[2]
    BY <2>1 DEF IsAll, IsWork, AllEntry, WorkEntry
  <2>2. CASE c[1] # c[2]
    <3> DEFINE k == solution[c]
    <3>1. k \in Splits(c)
      BY <2>2 DEF IsSolution
    <3>2. /\ work[c] = SplitWork(work, sizes, c, k)
          /\ all[c] = UNION {Combined(all, sizes, c, l) : l \in Splits(c)}
      BY <2>2 DEF IsAll, IsWork, AllEntry, WorkEntry
    <3> HIDE DEF k
    <3>3. work[Left(c, k)] \in all[Left(c, k)] /\ work[Right(c, k)] \in all[Right(c, k)]
      BY <1>1, <2>2, <3>1, SplitChain
    <3>4. SplitWork(work, sizes, c, k) \in Combined(all, sizes, c, k)
      BY <3>3 DEF SplitWork, Combined
    <3> QED BY <3>1, <3>2, <3>4
  <2> QED BY <2>1, <2>2
<1>2. Chains(n) \subseteq S
  <2> HIDE DEF S
  <2> QED BY <1>1, ChainInduction
<1> QED BY <1>2

Bounded(T) == \A p \in T : p <= SIZE_MAX
LowerBound(p, T) == \A q \in T : p <= q

\* A split of a chain whose costs are all sizes leaves parts whose costs are all sizes.
LEMMA PartsBounded ==
    ASSUME NEW n \in Nat, NEW sizes \in Sizes(n), NEW all, IsAll(all, sizes, n),
           \A d \in Chains(n) : all[d] # {},
           NEW c \in Chains(n), c[1] # c[2], NEW k \in Splits(c), Bounded(all[c])
    PROVE  Bounded(all[Left(c, k)]) /\ Bounded(all[Right(c, k)])
<1>1. Left(c, k) \in Chains(n) /\ Right(c, k) \in Chains(n)
  BY SplitChain
<1>2. all[Left(c, k)] \in SUBSET Nat /\ all[Right(c, k)] \in SUBSET Nat
  BY <1>1 DEF IsAll
<1>3. Product(sizes, c[1], k, c[2]) \in Nat
  BY ProductType
<1>4. ASSUME NEW p \in all[Left(c, k)], NEW q \in all[Right(c, k)]
      PROVE  p + q + Product(sizes, c[1], k, c[2]) <= SIZE_MAX
  <2>1. p + q + Product(sizes, c[1], k, c[2]) \in Combined(all, sizes, c, k)
    BY DEF Combined
  <2>2. all[c] = UNION {Combined(all, sizes, c, l) : l \in Splits(c)}
    BY DEF IsAll, AllEntry
  <2>3. p + q + Product(sizes, c[1], k, c[2]) \in all[c]
    BY <2>1, <2>2
  <2> QED BY <2>3 DEF Bounded
<1>5. ASSUME NEW p \in all[Left(c, k)], NEW q \in all[Right(c, k)] PROVE p <= SIZE_MAX /\ q <= SIZE_MAX
  <2>1. p \in Nat /\ q \in Nat /\ SIZE_MAX \in Nat
    BY <1>2, MatrixAssumption
  <2> QED BY <1>3, <1>4, <2>1
<1>6. all[Left(c, k)] # {} /\ all[Right(c, k)] # {}
  BY <1>1
<1> QED BY <1>5, <1>6 DEF Bounded

\* resolve's solution splits a chain where its work, with the costs of the parts, is least.
IsLeastSplit(work, sizes, c, k) ==
    k \in Splits(c) /\ \A l \in Splits(c) : SplitWork(work, sizes, c, k) <= SplitWork(work, sizes, c, l)

\* The split that resolve chooses is the least one, unless a cost wraps.
LEMMA SolutionIsLeast ==
    ASSUME NEW n \in Nat, NEW sizes \in Sizes(n), NEW cost, IsCosts(cost, sizes, n),
           NEW c \in Chains(n), c[1] # c[2],
           \A k \in Splits(c) : SplitWork(cost, sizes, c, k) <= SIZE_MAX,
           NEW k, k = IF cost[c] = SIZE_MAX THEN c[2] - 1 ELSE Least(SplitsOfCost(cost, sizes, c))
    PROVE  IsLeastSplit(cost, sizes, c, k) /\ cost[c] = SplitWork(cost, sizes, c, k)
<1>0. SIZE_MAX \in Nat /\ cost \in Costs(n) /\ cost \in [Chains(n) -> Nat] /\ cost[c] \in Nat
  BY MatrixAssumption DEF IsCosts, Costs
<1>1. \A l \in Splits(c) : SplitWork(cost, sizes, c, l) \in Nat
  BY <1>0, SplitWorkType
<1>2. ASSUME NEW l \in Splits(c)
      PROVE  CurrentCost(cost, sizes, c[1], l, c[2]) = SplitWork(cost, sizes, c, l)
  <2>1. CurrentCost(cost, sizes, c[1], l, c[2]) = SplitWork(cost, sizes, c, l) % (SIZE_MAX + 1)
    BY DEF CurrentCost, SplitWork, Left, Right
  <2>2. \A x \in 0..SIZE_MAX : x % (SIZE_MAX + 1) = x
    BY <1>0
  <2>3. SplitWork(cost, sizes, c, l) \in 0..SIZE_MAX
    BY <1>0, <1>1
  <2> QED BY <2>1, <2>2, <2>3
<1>3. Current(cost, sizes, c) \in SUBSET Nat /\ Current(cost, sizes, c) # {}
  BY <1>0, SplitExists, CurrentCostType DEF Current
<1>4. cost[c] \in Current(cost, sizes, c) /\ \A x \in Current(cost, sizes, c) : cost[c] <= x
  BY <1>3, LeastIs DEF IsCosts, CostEntry
<1>5. \A l \in Splits(c) : cost[c] <= SplitWork(cost, sizes, c, l)
  BY <1>2, <1>4 DEF Current
<1>6. \E l \in Splits(c) : cost[c] = SplitWork(cost, sizes, c, l)
  BY <1>2, <1>4 DEF Current
<1>7. k \in Splits(c) /\ cost[c] = SplitWork(cost, sizes, c, k)
  <2>1. CASE cost[c] = SIZE_MAX
    <3>1. k \in Splits(c)
      BY <2>1, SplitExists
    <3>2. SplitWork(cost, sizes, c, k) <= SIZE_MAX /\ SIZE_MAX <= SplitWork(cost, sizes, c, k)
      BY <1>5, <2>1, <3>1
    <3> QED BY <1>0, <1>1, <2>1, <3>1, <3>2
  <2>2. CASE cost[c] # SIZE_MAX
    <3>1. SplitsOfCost(cost, sizes, c) # {} /\ SplitsOfCost(cost, sizes, c) \in SUBSET Nat
      BY <1>2, <1>6, SplitExists DEF SplitsOfCost
    <3>2. k \in SplitsOfCost(cost, sizes, c)
      BY <2>2, <3>1, LeastIs
    <3> QED BY <1>2, <3>2 DEF SplitsOfCost
  <2> QED BY <2>1, <2>2
<1> QED BY <1>5, <1>7 DEF IsLeastSplit

\* The work of the chosen order is the cost that was computed, and no more than any other.
LEMMA WorkIsLeast ==
    ASSUME NEW n \in Nat, NEW sizes \in Sizes(n), NEW cost, IsCosts(cost, sizes, n), NEW solution,
           \A c \in Chains(n) : c[1] # c[2] =>
               solution[c] = IF cost[c] = SIZE_MAX THEN c[2] - 1 ELSE Least(SplitsOfCost(cost, sizes, c)),
           NEW all, IsAll(all, sizes, n), NEW work, IsWork(work, sizes, solution, n),
           \A d \in Chains(n) : work[d] \in all[d]
    PROVE  \A c \in Chains(n) : Bounded(all[c]) => cost[c] = work[c] /\ LowerBound(work[c], all[c])
<1> DEFINE Exact(c) == Bounded(all[c]) => cost[c] = work[c] /\ LowerBound(work[c], all[c])
           S == {c \in Chains(n) : Exact(c)}
<1>0. /\ \A d \in Chains(n) : all[d] # {} /\ all[d] \in SUBSET Nat
      /\ cost \in [Chains(n) -> Nat] /\ work \in [Chains(n) -> Nat]
  BY MatrixAssumption DEF IsAll, IsWork, IsCosts, Costs
<1>1. ASSUME NEW c \in Chains(n), \A d \in Chains(n) : Extent(d) < Extent(c) => d \in S PROVE c \in S
  <2>1. CASE c[1] = c[2]
    BY <2>1 DEF IsAll, IsWork, IsCosts, AllEntry, WorkEntry, CostEntry, LowerBound
  <2>2. CASE c[1] # c[2]
    <3> SUFFICES ASSUME Bounded(all[c]) PROVE cost[c] = work[c] /\ LowerBound(work[c], all[c])
      OBVIOUS
    <3> DEFINE k == solution[c]
    <3>1. /\ work[c] = SplitWork(work, sizes, c, k)
          /\ all[c] = UNION {Combined(all, sizes, c, l) : l \in Splits(c)}
      BY <2>2 DEF IsAll, IsWork, AllEntry, WorkEntry
    <3>2. ASSUME NEW l \in Splits(c)
          PROVE  /\ cost[Left(c, l)] = work[Left(c, l)] /\ LowerBound(work[Left(c, l)], all[Left(c, l)])
                 /\ cost[Right(c, l)] = work[Right(c, l)] /\ LowerBound(work[Right(c, l)], all[Right(c, l)])
      <4>1. Bounded(all[Left(c, l)]) /\ Bounded(all[Right(c, l)])
        BY <1>0, <2>2, PartsBounded
      <4>2. Left(c, l) \in S /\ Right(c, l) \in S
        BY <1>1, <2>2, SplitChain
      <4> QED BY <4>1, <4>2
    <3>3. ASSUME NEW l \in Splits(c) PROVE SplitWork(cost, sizes, c, l) = SplitWork(work, sizes, c, l)
      BY <3>2 DEF SplitWork
    <3>4. ASSUME NEW l \in Splits(c) PROVE SplitWork(work, sizes, c, l) \in all[c]
      <4>1. work[Left(c, l)] \in all[Left(c, l)] /\ work[Right(c, l)] \in all[Right(c, l)]
        BY <2>2, SplitChain
      <4>2. SplitWork(work, sizes, c, l) \in Combined(all, sizes, c, l)
        BY <4>1 DEF SplitWork, Combined
      <4> QED BY <3>1, <4>2
    <3>5. \A l \in Splits(c) : SplitWork(cost, sizes, c, l) <= SIZE_MAX
      BY <3>3, <3>4 DEF Bounded
    <3>6. k = IF cost[c] = SIZE_MAX THEN c[2] - 1 ELSE Least(SplitsOfCost(cost, sizes, c))
      BY <2>2
    <3> HIDE DEF k
    <3>7. IsLeastSplit(cost, sizes, c, k) /\ cost[c] = SplitWork(cost, sizes, c, k)
      BY <2>2, <3>5, <3>6, SolutionIsLeast
    <3>8. cost[c] = work[c]
      BY <3>1, <3>3, <3>7 DEF IsLeastSplit
    <3>9. ASSUME NEW q \in all[c] PROVE work[c] <= q
      <4>1. PICK l \in Splits(c) : q \in Combined(all, sizes, c, l)
        BY <3>1
      <4>2. PICK a \in all[Left(c, l)], b \in all[Right(c, l)] : q = a + b + Product(sizes, c[1], l, c[2])
        BY <4>1 DEF Combined
      <4>3. work[Left(c, l)] <= a /\ work[Right(c, l)] <= b
        BY <3>2 DEF LowerBound
      <4>4. Left(c, l) \in Chains(n) /\ Right(c, l) \in Chains(n)
        BY <2>2, SplitChain
      <4>5. a \in Nat /\ b \in Nat /\ work[Left(c, l)] \in Nat /\ work[Right(c, l)] \in Nat
        BY <1>0, <4>4
      <4>6. Product(sizes, c[1], l, c[2]) \in Nat
        BY <2>2, ProductType
      <4>7. SplitWork(work, sizes, c, l) <= q /\ SplitWork(work, sizes, c, l) \in Nat /\ q \in Nat
        BY <4>2, <4>3, <4>5, <4>6 DEF SplitWork
      <4>8. work[c] <= SplitWork(work, sizes, c, l) /\ work[c] \in Nat
        BY <1>0, <3>3, <3>7, <3>8 DEF IsLeastSplit
      <4> QED BY <4>7, <4>8
    <3> QED BY <3>8, <3>9 DEF LowerBound
  <2> QED BY <2>1, <2>2
<1>2. Chains(n) \subseteq S
  <2> HIDE DEF S
  <2> QED BY <1>1, ChainInduction
<1> QED BY <1>2

\* The multiplications evaluate does are those of one of the orders, and no order does fewer,
\* as long as the multiplications of every order can be counted.
THEOREM SolutionIsOptimalSafe == Spec => []SolutionIsOptimal
<1>1. ASSUME Typed, expr # <<>>
      PROVE  /\ CostOf(expr) \in AllCosts(expr)
             /\ (\A p \in AllCosts(expr) : p <= SIZE_MAX) => \A p \in AllCosts(expr) : CostOf(expr) <= p
  <2> DEFINE n == Len(expr)
             sizes == generate_matrix_size(expr)
             cost == ChainCosts(sizes, n)
             solution == resolve(expr)
             all == AllOf(sizes, n)
             work == WorkOf(sizes, solution, n)
             top == <<0, n - 1>>
  <2>1. n \in Nat /\ sizes \in Sizes(n) /\ top \in Chains(n)
    BY <1>1, SizesType DEF Typed, Chains
  <2>2. IsCosts(cost, sizes, n)
    BY <2>1, ChainCostsIs
  <2>3. IsSolution(solution, n)
    BY <1>1, SolutionType DEF Typed, IsSolution
  <2>4. IsAll(all, sizes, n)
    BY <2>1, AllOfIs
  <2>5. IsWork(work, sizes, solution, n)
    BY <2>1, <2>3, WorkOfIs
  <2>6. \A c \in Chains(n) : c[1] # c[2] =>
            solution[c] = IF cost[c] = SIZE_MAX THEN c[2] - 1 ELSE Least(SplitsOfCost(cost, sizes, c))
    BY ResolveIs
  <2>7. AllCosts(expr) = all[top]
    BY DEF AllCosts, AllOf, AllEntry, Combined, Left, Right, Splits
  <2>8. CostOf(expr) = work[top]
    BY DEF CostOf, WorkOf, WorkEntry, SplitWork, Left, Right
  <2> HIDE DEF n, sizes, cost, solution, all, work, top
  <2>9. \A c \in Chains(n) : work[c] \in all[c]
    BY <2>1, <2>3, <2>4, <2>5, WorkIsACost
  <2>10. Bounded(all[top]) => LowerBound(work[top], all[top])
    BY <2>1, <2>2, <2>4, <2>5, <2>6, <2>9, WorkIsLeast
  <2> QED BY <2>1, <2>7, <2>8, <2>9, <2>10 DEF Bounded, LowerBound
<1>2. Typed => SolutionIsOptimal
  BY <1>1 DEF SolutionIsOptimal
<1> QED BY <1>2, TypedSafe, PTL

----------------------------------------------------------------------------
(* Remainders                                                              *)

\* The laws of the numbers that the proofs use.
LEMMA Arithmetic ==
    ASSUME NEW a \in Nat, NEW b \in Nat, NEW c \in Nat
    PROVE  /\ a * b \in Nat /\ a * b = b * a /\ a * (b * c) = (a * b) * c
           /\ a * (b + c) = a * b + a * c /\ (a + b) * c = a * c + b * c
OBVIOUS

\* A number is a multiple of Modulus and its remainder.
LEMMA Division == \A x \in Nat : \E q \in Nat : x = Modulus * q + (x % Modulus)
<1>1. ASSUME NEW M \in Nat \ {0}, NEW x \in Nat PROVE x \div M \in Nat /\ x = M * (x \div M) + (x % M)
  OBVIOUS
<1> QED BY <1>1, MatrixAssumption

\* The remainder is the only one.
LEMMA RemainderUnique ==
    ASSUME NEW q \in Nat, NEW p \in Nat, NEW r \in Elements, NEW s \in Elements,
           Modulus * q + r = Modulus * p + s
    PROVE  r = s
<1> DEFINE M == Modulus
<1>0. M \in Nat \ {0} /\ r \in 0..(M - 1) /\ s \in 0..(M - 1)
  BY MatrixAssumption DEF Elements
<1>1. ASSUME NEW a \in Nat, NEW b \in Nat, a < b PROVE M * a + M <= M * b
  <2>1. b - a - 1 \in Nat
    BY <1>1
  <2>2. M * (b - a - 1) \in Nat
    BY <1>0, <2>1
  <2>3. M * (b - a - 1) = M * b - M * a - M
    BY <1>0
  <2>4. M * b \in Nat /\ M * a \in Nat
    BY <1>0
  <2> QED BY <1>0, <2>2, <2>3, <2>4
<1>2. M * p \in Nat /\ M * q \in Nat
  BY <1>0
<1> HIDE DEF M
<1>3. M * q + r = M * p + s
  BY DEF M
<1>4. CASE q < p
  <2>1. M * q + M <= M * p
    BY <1>1, <1>4
  <2> QED BY <1>0, <1>2, <1>3, <2>1
<1>5. CASE p < q
  <2>1. M * p + M <= M * q
    BY <1>1, <1>5
  <2> QED BY <1>0, <1>2, <1>3, <2>1
<1>6. CASE p = q
  BY <1>0, <1>2, <1>3, <1>6
<1> QED BY <1>4, <1>5, <1>6

\* Numbers that differ by multiples of Modulus have the same remainder.
LEMMA Congruent ==
    ASSUME NEW x \in Nat, NEW y \in Nat, NEW a \in Nat, NEW b \in Nat, x + Modulus * a = y + Modulus * b
    PROVE  x % Modulus = y % Modulus
<1>1. PICK q \in Nat : x = Modulus * q + (x % Modulus)
  BY Division
<1>2. PICK p \in Nat : y = Modulus * p + (y % Modulus)
  BY Division
<1>3. x % Modulus \in Elements /\ y % Modulus \in Elements
  BY Remainder
<1>4. Modulus \in Nat
  BY MatrixAssumption
<1> DEFINE r == x % Modulus
           s == y % Modulus
<1>5. r \in Nat /\ s \in Nat
  BY <1>3 DEF Elements
<1> HIDE DEF r, s
<1>6. Modulus * (q + a) = Modulus * q + Modulus * a /\ Modulus * (p + b) = Modulus * p + Modulus * b
  BY <1>4
<1>7. /\ Modulus * q \in Nat /\ Modulus * a \in Nat /\ Modulus * p \in Nat /\ Modulus * b \in Nat
      /\ q + a \in Nat /\ p + b \in Nat
  BY <1>4
<1>8. x = Modulus * q + r /\ y = Modulus * p + s
  BY <1>1, <1>2 DEF r, s
<1>9. Modulus * (q + a) + r = Modulus * (p + b) + s
  BY <1>5, <1>6, <1>7, <1>8
<1>10. r = s
  BY <1>3, <1>7, <1>9, RemainderUnique DEF r, s
<1> QED BY <1>10 DEF r, s

\* A sum has the remainder of the sum with the remainder of one part.
LEMMA RemainderOfSum ==
    ASSUME NEW x \in Nat, NEW y \in Nat
    PROVE  ((x % Modulus) + y) % Modulus = (x + y) % Modulus
<1>1. PICK q \in Nat : x = Modulus * q + (x % Modulus)
  BY Division
<1> DEFINE r == x % Modulus
<1>2. r \in Nat
  BY Remainder DEF Elements
<1>3. Modulus \in Nat /\ Modulus * q \in Nat /\ Modulus * 0 = 0
  BY MatrixAssumption
<1>4. x = Modulus * q + r
  BY <1>1
<1> HIDE DEF r
<1>5. (r + y) + Modulus * q = (x + y) + Modulus * 0
  BY <1>2, <1>3, <1>4
<1>6. r + y \in Nat /\ x + y \in Nat
  BY <1>2
<1>7. (r + y) % Modulus = (x + y) % Modulus
  BY <1>5, <1>6, Congruent
<1> QED BY <1>7 DEF r

\* A product has the remainder of the product with the remainder of one part.
LEMMA RemainderOfProduct ==
    ASSUME NEW x \in Nat, NEW y \in Nat
    PROVE  ((x % Modulus) * y) % Modulus = (x * y) % Modulus
<1>1. PICK q \in Nat : x = Modulus * q + (x % Modulus)
  BY Division
<1> DEFINE r == x % Modulus
<1>2. r \in Nat
  BY Remainder DEF Elements
<1>3. Modulus \in Nat /\ Modulus * q \in Nat /\ Modulus * 0 = 0 /\ q * y \in Nat
  BY MatrixAssumption
<1>4. x = Modulus * q + r
  BY <1>1
<1> HIDE DEF r
<1>5. x * y = (Modulus * q) * y + r * y
  BY <1>2, <1>3, <1>4, Arithmetic
<1>6. (Modulus * q) * y = Modulus * (q * y)
  BY <1>3, Arithmetic
<1>7. r * y \in Nat /\ x * y \in Nat /\ Modulus * (q * y) \in Nat
  BY <1>2, <1>3, Arithmetic
<1>8. r * y + Modulus * (q * y) = x * y + Modulus * 0
  BY <1>3, <1>5, <1>6, <1>7
<1>9. (r * y) % Modulus = (x * y) % Modulus
  BY <1>3, <1>7, <1>8, Congruent
<1> QED BY <1>9 DEF r

\* The remainder, an element.
Mod(x) == x % Modulus

\* A remainder is an element and a number.
LEMMA ModType == \A x \in Nat : Mod(x) \in Elements /\ Mod(x) \in Nat
BY Remainder DEF Mod, Elements

\* The remainder of one part may be taken first.
LEMMA ModOfSum == ASSUME NEW x \in Nat, NEW y \in Nat PROVE Mod(Mod(x) + y) = Mod(x + y)
BY RemainderOfSum DEF Mod

\* The same of a product.
LEMMA ModOfProduct == ASSUME NEW x \in Nat, NEW y \in Nat PROVE Mod(Mod(x) * y) = Mod(x * y)
BY RemainderOfProduct DEF Mod

\* Parts with the same remainders have sums with the same remainder.
LEMMA SumsCongruent ==
    ASSUME NEW x \in Nat, NEW y \in Nat, NEW a \in Nat, NEW b \in Nat, Mod(x) = Mod(a), Mod(y) = Mod(b)
    PROVE  Mod(x + y) = Mod(a + b)
<1>1. Mod(x + y) = Mod(Mod(a) + y) /\ Mod(Mod(a) + y) = Mod(a + y)
  BY ModOfSum
<1>2. a + y = y + a /\ a + b = b + a
  OBVIOUS
<1>3. Mod(y + a) = Mod(Mod(b) + a) /\ Mod(Mod(b) + a) = Mod(b + a)
  BY ModOfSum
<1> QED BY <1>1, <1>2, <1>3

----------------------------------------------------------------------------
(* Sums                                                                    *)

Terms(w) == [0..(w - 1) -> Nat]

\* s[k] is the sum of the first k of the w numbers v.
IsSums(s, v, w) ==
    /\ s \in [0..w -> Nat]
    /\ \A k \in 0..w : s[k] = IF k = 0 THEN 0 ELSE s[k - 1] + v[k - 1]

\* Partial sums exist,
LEMMA SumsExist == ASSUME NEW w \in Nat, NEW v \in Terms(w) PROVE \E s : IsSums(s, v, w)
<1> DEFINE D == 0..w
           rank == [k \in D |-> k]
           F == [D -> Nat]
           Next1(s, k) == IF k = 0 THEN 0 ELSE s[k - 1] + v[k - 1]
           step(s) == [k \in D |-> Next1(s, k)]
           B == [s \in F |-> step(s)]
<1>1. rank \in [D -> Nat]
  OBVIOUS
<1>2. w + 1 \in Nat /\ \A k \in D : rank[k] < w + 1
  OBVIOUS
<1>3. AreFunctions(F, D)
  BY DEF AreFunctions
<1>4. [k \in D |-> 0] \in F
  OBVIOUS
<1>5. B \in [F -> F]
  <2>1. ASSUME NEW s \in F, NEW k \in D PROVE Next1(s, k) \in Nat
    <3>1. CASE k = 0
      BY <3>1
    <3>2. CASE k # 0
      <4>1. k - 1 \in D /\ k - 1 \in 0..(w - 1)
        BY <3>2
      <4>2. s[k - 1] \in Nat /\ v[k - 1] \in Nat
        BY <4>1 DEF Terms
      <4> QED BY <3>2, <4>2
    <3> QED BY <3>1, <3>2
  <2> HIDE DEF Next1
  <2> QED BY <2>1
<1>6. ASSUME NEW s \in F, NEW t \in F, NEW k \in D, Lower(s, t, D, rank, k) PROVE step(s)[k] = step(t)[k]
  <2>1. CASE k = 0
    BY <2>1
  <2>2. CASE k # 0
    <3>1. k - 1 \in D /\ rank[k - 1] < rank[k]
      BY <2>2
    <3>2. s[k - 1] = t[k - 1]
      BY <1>6, <3>1 DEF Lower
    <3> QED BY <3>2
  <2> QED BY <2>1, <2>2
<1>7. LowerOnly(D, rank, F, B)
  <2>1. \A s \in F : B[s] = step(s)
    OBVIOUS
  <2> HIDE DEF B, step, F, D, rank
  <2> QED BY <1>6, <2>1 DEF LowerOnly
<1>8. PICK s \in F : s = B[s]
  <2> HIDE DEF D, rank, F, B
  <2> QED BY <1>1, <1>2, <1>3, <1>4, <1>5, <1>7, RecursionExists
<1>9. s = step(s)
  BY <1>8
<1>10. \A k \in D : s[k] = Next1(s, k)
  <2>1. \A k \in D : step(s)[k] = Next1(s, k)
    OBVIOUS
  <2> HIDE DEF step, Next1
  <2> QED BY <1>9, <2>1
<1> QED BY <1>10 DEF IsSums

\* and are unique,
LEMMA SumsUnique ==
    ASSUME NEW w \in Nat, NEW v, NEW s, IsSums(s, v, w), NEW t, IsSums(t, v, w)
    PROVE  s = t
<1> DEFINE D == 0..w
           rank == [k \in D |-> k]
<1>1. rank \in [D -> Nat]
  OBVIOUS
<1>2. s = [k \in D |-> s[k]] /\ t = [k \in D |-> t[k]]
  BY DEF IsSums
<1>3. ASSUME NEW k \in D, Lower(s, t, D, rank, k) PROVE s[k] = t[k]
  <2>1. CASE k = 0
    BY <2>1 DEF IsSums
  <2>2. CASE k # 0
    <3>1. k - 1 \in D /\ rank[k - 1] < rank[k]
      BY <2>2
    <3>2. s[k - 1] = t[k - 1]
      BY <1>3, <3>1 DEF Lower
    <3> QED BY <2>2, <3>2 DEF IsSums
  <2> QED BY <2>1, <2>2
<1> HIDE DEF D, rank
<1> QED BY <1>1, <1>2, <1>3, SameFunction

Sums(v, w) == CHOOSE s : IsSums(s, v, w)
Sum(v, w) == Sums(v, w)[w]

\* so Sums are these,
LEMMA SumsAre == ASSUME NEW w \in Nat, NEW v \in Terms(w) PROVE IsSums(Sums(v, w), v, w)
BY SumsExist DEF Sums

\* which are numbers,
LEMMA SumType == ASSUME NEW w \in Nat, NEW v \in Terms(w) PROVE Sum(v, w) \in Nat
<1>1. w \in 0..w
  OBVIOUS
<1> QED BY <1>1, SumsAre DEF IsSums, Sum

\* and any partial sums end with the sum.
LEMMA SumIs == ASSUME NEW w \in Nat, NEW v \in Terms(w), NEW s, IsSums(s, v, w) PROVE Sum(v, w) = s[w]
BY SumsAre, SumsUnique DEF Sum

\* Sums can be added term by term, multiplied term by term, and exchanged.
LEMMA SumAdd ==
    ASSUME NEW w \in Nat, NEW u \in Terms(w), NEW v \in Terms(w)
    PROVE  Sum([k \in 0..(w - 1) |-> u[k] + v[k]], w) = Sum(u, w) + Sum(v, w)
<1> DEFINE both == [k \in 0..(w - 1) |-> u[k] + v[k]]
           s == Sums(u, w)
           t == Sums(v, w)
           st == [k \in 0..w |-> s[k] + t[k]]
<1>1. IsSums(s, u, w) /\ IsSums(t, v, w)
  BY SumsAre
<1>2. both \in Terms(w)
  BY DEF Terms
<1> HIDE DEF s, t
<1>3. st \in [0..w -> Nat]
  BY <1>1 DEF IsSums
<1>4. ASSUME NEW k \in 0..w PROVE st[k] = IF k = 0 THEN 0 ELSE st[k - 1] + both[k - 1]
  <2>1. CASE k = 0
    BY <1>1, <2>1 DEF IsSums
  <2>2. CASE k # 0
    <3>1. k - 1 \in 0..w /\ k - 1 \in 0..(w - 1)
      BY <2>2
    <3>2. s[k] = s[k - 1] + u[k - 1] /\ t[k] = t[k - 1] + v[k - 1]
      BY <1>1, <2>2 DEF IsSums
    <3>3. s[k - 1] \in Nat /\ t[k - 1] \in Nat /\ u[k - 1] \in Nat /\ v[k - 1] \in Nat
      BY <1>1, <3>1 DEF IsSums, Terms
    <3>4. st[k] = s[k] + t[k] /\ st[k - 1] = s[k - 1] + t[k - 1] /\ both[k - 1] = u[k - 1] + v[k - 1]
      BY <3>1
    <3> QED BY <2>2, <3>2, <3>3, <3>4
  <2> QED BY <2>1, <2>2
<1>5. IsSums(st, both, w)
  BY <1>3, <1>4 DEF IsSums
<1>6. st[w] = s[w] + t[w]
  OBVIOUS
<1> HIDE DEF both, st
<1>7. Sum(both, w) = st[w]
  BY <1>2, <1>5, SumIs
<1> QED BY <1>6, <1>7 DEF Sum, s, t, both

\* A factor of all terms is a factor of the sum.
LEMMA SumScale ==
    ASSUME NEW w \in Nat, NEW v \in Terms(w), NEW c \in Nat
    PROVE  Sum([k \in 0..(w - 1) |-> v[k] * c], w) = Sum(v, w) * c
<1> DEFINE scaled == [k \in 0..(w - 1) |-> v[k] * c]
           s == Sums(v, w)
           sc == [k \in 0..w |-> s[k] * c]
<1>1. IsSums(s, v, w)
  BY SumsAre
<1>2. scaled \in Terms(w)
  <2>1. \A k \in 0..(w - 1) : v[k] \in Nat
    BY DEF Terms
  <2>2. \A k \in 0..(w - 1) : v[k] * c \in Nat
    BY <2>1, NatProduct
  <2> QED BY <2>2 DEF Terms
<1> HIDE DEF s
<1>3. \A k \in 0..w : s[k] \in Nat
  BY <1>1 DEF IsSums
<1>4. sc \in [0..w -> Nat]
  BY <1>3, NatProduct
<1>5. ASSUME NEW k \in 0..w PROVE sc[k] = IF k = 0 THEN 0 ELSE sc[k - 1] + scaled[k - 1]
  <2>1. CASE k = 0
    <3>1. s[k] = 0
      BY <1>1, <2>1 DEF IsSums
    <3>2. 0 * c = 0
      OBVIOUS
    <3> QED BY <2>1, <3>1, <3>2
  <2>2. CASE k # 0
    <3>1. k - 1 \in 0..w /\ k - 1 \in 0..(w - 1)
      BY <2>2
    <3>2. s[k] = s[k - 1] + v[k - 1]
      BY <1>1, <2>2 DEF IsSums
    <3>3. s[k - 1] \in Nat /\ v[k - 1] \in Nat
      BY <1>3, <3>1 DEF Terms
    <3>4. (s[k - 1] + v[k - 1]) * c = s[k - 1] * c + v[k - 1] * c
      BY <3>3, Arithmetic
    <3>5. sc[k] = s[k] * c /\ sc[k - 1] = s[k - 1] * c /\ scaled[k - 1] = v[k - 1] * c
      BY <3>1
    <3> QED BY <2>2, <3>2, <3>4, <3>5
  <2> QED BY <2>1, <2>2
<1>6. IsSums(sc, scaled, w)
  BY <1>4, <1>5 DEF IsSums
<1>7. sc[w] = s[w] * c
  OBVIOUS
<1> HIDE DEF scaled, sc
<1>8. Sum(scaled, w) = sc[w]
  BY <1>2, <1>6, SumIs
<1> QED BY <1>7, <1>8 DEF Sum, s, scaled

\* Terms with the same remainders have sums with the same remainder.
LEMMA SumCongruent ==
    ASSUME NEW w \in Nat, NEW u \in Terms(w), NEW v \in Terms(w),
           \A k \in 0..(w - 1) : Mod(u[k]) = Mod(v[k])
    PROVE  Mod(Sum(u, w)) = Mod(Sum(v, w))
<1> DEFINE s == Sums(u, w)
           t == Sums(v, w)
           S == {k \in Nat : k <= w => Mod(s[k]) = Mod(t[k])}
<1>1. IsSums(s, u, w) /\ IsSums(t, v, w)
  BY SumsAre
<1> HIDE DEF s, t
<1>2. 0 \in S
  BY <1>1 DEF IsSums
<1>3. ASSUME NEW k \in Nat, k \in S PROVE k + 1 \in S
  <2>1. SUFFICES ASSUME k + 1 <= w PROVE Mod(s[k + 1]) = Mod(t[k + 1])
    OBVIOUS
  <2>2. k \in 0..w /\ k + 1 \in 0..w /\ k \in 0..(w - 1) /\ k + 1 # 0 /\ (k + 1) - 1 = k
    BY <2>1
  <2>3. s[k + 1] = s[k] + u[k] /\ t[k + 1] = t[k] + v[k]
    BY <1>1, <2>2 DEF IsSums
  <2>4. s[k] \in Nat /\ t[k] \in Nat /\ u[k] \in Nat /\ v[k] \in Nat
    BY <1>1, <2>2 DEF IsSums, Terms
  <2>5. Mod(s[k]) = Mod(t[k]) /\ Mod(u[k]) = Mod(v[k])
    BY <1>3, <2>2
  <2>6. Mod(s[k] + u[k]) = Mod(t[k] + v[k])
    <3> DEFINE sk == s[k]
               tk == t[k]
               uk == u[k]
               vk == v[k]
    <3>1. sk \in Nat /\ tk \in Nat /\ uk \in Nat /\ vk \in Nat
      BY <2>4
    <3>2. Mod(sk) = Mod(tk) /\ Mod(uk) = Mod(vk)
      BY <2>5
    <3> HIDE DEF sk, tk, uk, vk
    <3>3. Mod(sk + uk) = Mod(tk + vk)
      BY <3>1, <3>2, SumsCongruent
    <3> QED BY <3>3 DEF sk, tk, uk, vk
  <2> QED BY <2>3, <2>6
<1>4. w \in S
  <2> HIDE DEF S
  <2> QED BY <1>2, <1>3, SetInduction
<1> QED BY <1>4 DEF Sum, s, t

\* A sum of zeros is zero.
LEMMA SumZero == ASSUME NEW x \in Nat, NEW v \in Terms(x), \A l \in 0..(x - 1) : v[l] = 0 PROVE Sum(v, x) = 0
<1> DEFINE s == [l \in 0..x |-> 0]
<1>1. IsSums(s, v, x)
  BY DEF IsSums
<1>2. s[x] = 0
  OBVIOUS
<1> HIDE DEF s
<1> QED BY <1>1, <1>2, SumIs

Column(u, w, l) == [k \in 0..(w - 1) |-> u[k][l]]

\* The sum of the rows of a table is the sum of its columns.
LEMMA SumExchange ==
    ASSUME NEW w \in Nat, NEW x \in Nat, NEW u \in [0..(w - 1) -> Terms(x)]
    PROVE  Sum([k \in 0..(w - 1) |-> Sum(u[k], x)], w)
               = Sum([l \in 0..(x - 1) |-> Sum(Column(u, w, l), w)], x)
<1> DEFINE rows == [k \in 0..(w - 1) |-> Sum(u[k], x)]
           columns == [l \in 0..(x - 1) |-> Sum(Column(u, w, l), w)]
           upto(k) == [l \in 0..(x - 1) |-> Sums(Column(u, w, l), w)[k]]
           t == [k \in 0..w |-> Sum(upto(k), x)]
<1>1. ASSUME NEW l \in 0..(x - 1) PROVE IsSums(Sums(Column(u, w, l), w), Column(u, w, l), w)
  <2>1. Column(u, w, l) \in Terms(w)
    BY DEF Column, Terms
  <2> QED BY <2>1, SumsAre
<1>2. rows \in Terms(w)
  BY SumType DEF Terms
<1>3. ASSUME NEW k \in 0..w PROVE upto(k) \in Terms(x)
  BY <1>1 DEF IsSums, Terms
<1>4. t \in [0..w -> Nat]
  <2>1. ASSUME NEW k \in 0..w PROVE Sum(upto(k), x) \in Nat
    <3> HIDE DEF upto
    <3> QED BY <1>3, SumType
  <2> HIDE DEF upto
  <2> QED BY <2>1
<1>5. ASSUME NEW k \in 0..w PROVE t[k] = IF k = 0 THEN 0 ELSE t[k - 1] + rows[k - 1]
  <2>1. t[k] = Sum(upto(k), x)
    OBVIOUS
  <2>2. CASE k = 0
    <3>1. \A l \in 0..(x - 1) : upto(k)[l] = 0
      BY <1>1, <2>2 DEF IsSums
    <3> HIDE DEF upto, t
    <3> QED BY <1>3, <2>1, <2>2, <3>1, SumZero
  <2>3. CASE k # 0
    <3>1. k - 1 \in 0..w /\ k - 1 \in 0..(w - 1)
      BY <2>3
    <3> DEFINE before == upto(k - 1)
               row == u[k - 1]
    <3>2. ASSUME NEW l \in 0..(x - 1) PROVE upto(k)[l] = before[l] + row[l]
      <4>1. Sums(Column(u, w, l), w)[k] = Sums(Column(u, w, l), w)[k - 1] + Column(u, w, l)[k - 1]
        BY <1>1, <2>3 DEF IsSums
      <4>2. Column(u, w, l)[k - 1] = u[k - 1][l]
        BY <3>1 DEF Column
      <4> QED BY <4>1, <4>2
    <3>3. before \in Terms(x) /\ row \in Terms(x)
      BY <1>3, <3>1
    <3>4. upto(k) = [l \in 0..(x - 1) |-> upto(k)[l]]
      OBVIOUS
    <3>5. t[k - 1] = Sum(before, x) /\ rows[k - 1] = Sum(row, x)
      BY <3>1
    <3> HIDE DEF upto, before, row, t, rows
    <3>6. upto(k) = [l \in 0..(x - 1) |-> before[l] + row[l]]
      BY <3>2, <3>4
    <3>7. Sum(upto(k), x) = Sum(before, x) + Sum(row, x)
      BY <3>3, <3>6, SumAdd
    <3> QED BY <2>1, <2>3, <3>5, <3>7
  <2> QED BY <2>2, <2>3
<1>6. IsSums(t, rows, w)
  BY <1>4, <1>5 DEF IsSums
<1>7. upto(w) = columns
  BY DEF Sum
<1>8. t[w] = Sum(upto(w), x)
  OBVIOUS
<1>9. Sum(rows, w) = t[w]
  <2> HIDE DEF rows, t
  <2> QED BY <1>2, <1>6, SumIs
<1> HIDE DEF rows, t, columns, upto
<1>10. Sum(rows, w) = Sum(columns, x)
  BY <1>7, <1>8, <1>9
<1> QED BY <1>10 DEF rows, columns

----------------------------------------------------------------------------
(* Products                                                                *)

\* The terms of a cell of a product.
CellTerms(a, b, w, i, j) == [k \in 0..(w - 1) |-> a[i][k] * b[k][j]]

\* The terms are numbers.
LEMMA CellTermsType ==
    ASSUME NEW h \in Nat, NEW w \in Nat, NEW x \in Nat, NEW a \in Rows(h, w), NEW b \in Rows(w, x),
           NEW i \in 0..(h - 1), NEW j \in 0..(x - 1)
    PROVE  /\ CellTerms(a, b, w, i, j) \in Terms(w)
           /\ \A k \in 0..(w - 1) : a[i][k] \in Nat /\ b[k][j] \in Nat
<1>1. \A k \in 0..(w - 1) : a[i][k] \in Elements /\ b[k][j] \in Elements
  BY DEF Rows, Elements
<1>2. \A k \in 0..(w - 1) : a[i][k] \in Nat /\ b[k][j] \in Nat
  BY <1>1 DEF Elements
<1>3. \A k \in 0..(w - 1) : a[i][k] * b[k][j] \in Nat
  BY <1>2, NatProduct
<1> QED BY <1>2, <1>3 DEF CellTerms, Terms

\* The sums of a cell are unique.
LEMMA DotUnique ==
    ASSUME NEW w \in Nat, NEW a, NEW b, NEW i, NEW j, NEW s, IsDot(s, a, b, w, i, j),
           NEW t, IsDot(t, a, b, w, i, j)
    PROVE  s = t
<1> DEFINE D == 0..(w - 1)
           rank == [k \in D |-> k]
<1>1. rank \in [D -> Nat]
  OBVIOUS
<1>2. s = [k \in D |-> s[k]] /\ t = [k \in D |-> t[k]]
  BY DEF IsDot
<1>3. ASSUME NEW k \in D, Lower(s, t, D, rank, k) PROVE s[k] = t[k]
  <2>1. CASE k = 0
    BY <2>1 DEF IsDot, DotEntry
  <2>2. CASE k # 0
    <3>1. k - 1 \in D /\ rank[k - 1] < rank[k]
      BY <2>2
    <3>2. s[k - 1] = t[k - 1]
      BY <1>3, <3>1 DEF Lower
    <3> QED BY <2>2, <3>2 DEF IsDot, DotEntry
  <2> QED BY <2>1, <2>2
<1> HIDE DEF D, rank
<1> QED BY <1>1, <1>2, <1>3, SameFunction

\* A cell of a product is the remainder of the sum of its terms, also when the remainder is
\* taken at every step.
LEMMA TimesCell ==
    ASSUME NEW h \in Nat \ {0}, NEW w \in Nat \ {0}, NEW x \in Nat,
           NEW a \in Rows(h, w), NEW b \in Rows(w, x),
           NEW i \in 0..(h - 1), NEW j \in 0..(x - 1)
    PROVE  Times(a, b)[i][j] = Mod(Sum(CellTerms(a, b, w, i, j), w))
<1> DEFINE v == CellTerms(a, b, w, i, j)
           s == Sums(v, w)
           d == [k \in 0..(w - 1) |-> Mod(s[k + 1])]
<1>1. v \in Terms(w) /\ \A k \in 0..(w - 1) : v[k] = a[i][k] * b[k][j]
  <2>1. CellTerms(a, b, w, i, j) \in Terms(w)
    BY CellTermsType
  <2>2. \A k \in 0..(w - 1) : CellTerms(a, b, w, i, j)[k] = a[i][k] * b[k][j]
    BY DEF CellTerms
  <2> QED BY <2>1, <2>2
<1> HIDE DEF v
<1>2. IsSums(s, v, w)
  BY <1>1, SumsAre
<1> HIDE DEF s
<1>3. \A k \in 0..w : s[k] \in Nat
  BY <1>2 DEF IsSums
<1>4. d \in [0..(w - 1) -> Elements]
  BY <1>3, ModType
<1>5. ASSUME NEW k \in 0..(w - 1) PROVE d[k] = DotEntry(d, a, b, i, j, k)
  <2>1. k \in 0..w /\ k + 1 \in 0..w /\ k + 1 # 0 /\ (k + 1) - 1 = k
    OBVIOUS
  <2>2. d[k] = Mod(s[k + 1]) /\ s[k + 1] = s[k] + v[k]
    BY <1>2, <2>1 DEF IsSums
  <2>3. s[k] \in Nat /\ v[k] \in Nat
    BY <1>1, <1>3, <2>1 DEF Terms
  <2>4. CASE k = 0
    <3>1. s[k] = 0
      BY <1>2, <2>4 DEF IsSums
    <3>2. s[k] + v[k] = a[i][0] * b[0][j]
      BY <1>1, <2>3, <2>4, <3>1
    <3> QED BY <2>2, <2>4, <3>2 DEF DotEntry, Mod
  <2>5. CASE k # 0
    <3>1. k - 1 \in 0..(w - 1) /\ (k - 1) + 1 = k
      BY <2>5
    <3>2. d[k - 1] = Mod(s[k])
      BY <3>1
    <3>3. Mod(d[k - 1] + v[k]) = Mod(s[k] + v[k])
      <4> DEFINE before == s[k]
                 term == v[k]
      <4>1. before \in Nat /\ term \in Nat
        BY <2>3
      <4> HIDE DEF before, term
      <4>2. Mod(Mod(before) + term) = Mod(before + term)
        BY <4>1, ModOfSum
      <4> HIDE DEF d
      <4> QED BY <3>2, <4>2 DEF before, term
    <3>4. DotEntry(d, a, b, i, j, k) = Mod(d[k - 1] + v[k])
      BY <1>1, <2>5 DEF DotEntry, Mod
    <3> QED BY <2>2, <3>3, <3>4
  <2> QED BY <2>4, <2>5
<1>6. IsDot(d, a, b, w, i, j)
  BY <1>4, <1>5 DEF IsDot
<1>7. d[w - 1] = Mod(s[w])
  <2>1. w - 1 \in 0..(w - 1) /\ (w - 1) + 1 = w
    OBVIOUS
  <2> QED BY <2>1
<1> HIDE DEF d
<1>8. Dot(a, b, w, i, j) = d
  BY <1>6, DotIs, DotUnique
<1>9. Times(a, b)[i][j] = Dot(a, b, w, i, j)[w - 1]
  BY TimesIs
<1> QED BY <1>7, <1>8, <1>9 DEF Sum, s, v

\* The remainder of a sum's remainder times a factor is that of the sum of the scaled terms.
LEMMA ModOfScaledSum ==
    ASSUME NEW w \in Nat, NEW v \in Terms(w), NEW c \in Nat
    PROVE  Mod(Mod(Sum(v, w)) * c) = Mod(Sum([k \in 0..(w - 1) |-> v[k] * c], w))
<1>1. Sum(v, w) \in Nat
  BY SumType
<1> DEFINE s == Sum(v, w)
<1>2. s \in Nat
  BY <1>1
<1>3. Sum([k \in 0..(w - 1) |-> v[k] * c], w) = s * c
  BY SumScale
<1> HIDE DEF s
<1>4. Mod(Mod(s) * c) = Mod(s * c)
  BY <1>2, ModOfProduct
<1> QED BY <1>3, <1>4 DEF s

\* The product of three results, cell by cell, in whichever order.
Triple(a, b, c, w, x, i, j) == [k \in 0..(w - 1) |-> [l \in 0..(x - 1) |-> (a[i][k] * b[k][l]) * c[l][j]]]

\* Both orders sum the same table, one by its columns and one by its rows.
LEMMA AssociativeCell ==
    ASSUME NEW h \in Nat \ {0}, NEW w \in Nat \ {0}, NEW x \in Nat \ {0}, NEW y \in Nat \ {0},
           NEW a \in Rows(h, w), NEW b \in Rows(w, x), NEW c \in Rows(x, y),
           NEW i \in 0..(h - 1), NEW j \in 0..(y - 1)
    PROVE  Times(Times(a, b), c)[i][j] = Times(a, Times(b, c))[i][j]
<1> DEFINE ab == Times(a, b)
           bc == Times(b, c)
           u == Triple(a, b, c, w, x, i, j)
           left == CellTerms(ab, c, x, i, j)
           right == CellTerms(a, bc, w, i, j)
           columns == [l \in 0..(x - 1) |-> Sum(Column(u, w, l), w)]
           rows == [k \in 0..(w - 1) |-> Sum(u[k], x)]
<1>1. ab \in Rows(h, x) /\ bc \in Rows(w, y)
  BY TimesType
<1>2. /\ \A k \in 0..(w - 1) : a[i][k] \in Nat
      /\ \A k \in 0..(w - 1), l \in 0..(x - 1) : b[k][l] \in Nat
      /\ \A l \in 0..(x - 1) : c[l][j] \in Nat
  <2>1. \A k \in 0..(w - 1) : a[i][k] \in Elements
    BY DEF Rows, Elements
  <2>2. \A k \in 0..(w - 1), l \in 0..(x - 1) : b[k][l] \in Elements
    BY DEF Rows, Elements
  <2>3. \A l \in 0..(x - 1) : c[l][j] \in Elements
    BY DEF Rows, Elements
  <2> QED BY <2>1, <2>2, <2>3 DEF Elements
<1>3. u \in [0..(w - 1) -> Terms(x)]
  <2>1. \A k \in 0..(w - 1), l \in 0..(x - 1) : a[i][k] * b[k][l] \in Nat
    BY <1>2, NatProduct
  <2>2. \A k \in 0..(w - 1), l \in 0..(x - 1) : (a[i][k] * b[k][l]) * c[l][j] \in Nat
    BY <1>2, <2>1, NatProduct
  <2> QED BY <2>2 DEF Triple, Terms
<1>4. Sum(rows, w) = Sum(columns, x)
  <2> HIDE DEF u
  <2> QED BY <1>3, SumExchange
<1>5. rows \in Terms(w) /\ columns \in Terms(x)
  <2>1. \A k \in 0..(w - 1) : Sum(u[k], x) \in Nat
    <3> HIDE DEF u
    <3> QED BY <1>3, SumType
  <2>2. ASSUME NEW l \in 0..(x - 1) PROVE Sum(Column(u, w, l), w) \in Nat
    <3>1. Column(u, w, l) \in Terms(w)
      <4> HIDE DEF u
      <4> QED BY <1>3 DEF Column, Terms
    <3> HIDE DEF u
    <3> QED BY <3>1, SumType
  <2> HIDE DEF u
  <2> QED BY <2>1, <2>2 DEF Terms
<1>6. left \in Terms(x) /\ right \in Terms(w)
  <2> HIDE DEF ab, bc
  <2> QED BY <1>1, CellTermsType
<1>7. ASSUME NEW l \in 0..(x - 1) PROVE Mod(left[l]) = Mod(columns[l])
  <2> DEFINE v == CellTerms(a, b, w, i, l)
             cl == c[l][j]
             scaled == [k \in 0..(w - 1) |-> v[k] * cl]
  <2>1. v \in Terms(w) /\ cl \in Nat
    BY <1>2, CellTermsType
  <2>2. ab[i][l] = Mod(Sum(v, w))
    BY TimesCell
  <2>3. left[l] = ab[i][l] * cl
    <3> HIDE DEF ab
    <3> QED BY DEF CellTerms
  <2>4. scaled = Column(u, w, l)
    BY DEF CellTerms, Column, Triple
  <2>5. columns[l] = Sum(Column(u, w, l), w)
    <3> HIDE DEF u
    <3> QED OBVIOUS
  <2> HIDE DEF v, cl, left, columns, ab, u
  <2>6. Mod(Mod(Sum(v, w)) * cl) = Mod(Sum(scaled, w))
    BY <2>1, ModOfScaledSum
  <2> HIDE DEF scaled
  <2> QED BY <2>2, <2>3, <2>4, <2>5, <2>6
<1>8. ASSUME NEW k \in 0..(w - 1) PROVE Mod(right[k]) = Mod(rows[k])
  <2> DEFINE v == CellTerms(b, c, x, k, j)
             ak == a[i][k]
             scaled == [l \in 0..(x - 1) |-> v[l] * ak]
  <2>1. v \in Terms(x) /\ ak \in Nat
    BY <1>2, CellTermsType
  <2>2. bc[k][j] = Mod(Sum(v, x))
    BY TimesCell
  <2>3. right[k] = ak * bc[k][j]
    <3> HIDE DEF bc
    <3> QED BY DEF CellTerms
  <2>4. scaled = u[k]
    <3>1. \A l \in 0..(x - 1) : v[l] = b[k][l] * c[l][j]
      BY DEF CellTerms
    <3>2. ASSUME NEW l \in 0..(x - 1) PROVE v[l] * ak = (ak * b[k][l]) * c[l][j]
      <4> DEFINE bl == b[k][l]
                 cl == c[l][j]
      <4>1. bl \in Nat /\ cl \in Nat
        BY <1>2
      <4>2. v[l] = bl * cl
        BY <3>1
      <4> HIDE DEF bl, cl, ak, v
      <4>3. (bl * cl) * ak = (ak * bl) * cl
        BY <2>1, <4>1, Arithmetic
      <4> QED BY <4>2, <4>3 DEF bl, cl
    <3>3. u[k] = [l \in 0..(x - 1) |-> (ak * b[k][l]) * c[l][j]]
      BY DEF Triple
    <3> HIDE DEF v, ak, u
    <3> QED BY <3>2, <3>3
  <2>5. rows[k] = Sum(u[k], x)
    <3> HIDE DEF u
    <3> QED OBVIOUS
  <2>6. Mod(Sum(v, x)) \in Nat
    <3> HIDE DEF v
    <3> QED BY <2>1, SumType, ModType
  <2> DEFINE m == Mod(Sum(v, x))
  <2>7. ak * m = m * ak
    <3> HIDE DEF m, ak
    <3> QED BY <2>1, <2>6, Arithmetic DEF m
  <2> HIDE DEF v, ak, right, rows, bc, u, m
  <2>8. Mod(Mod(Sum(v, x)) * ak) = Mod(Sum(scaled, x))
    BY <2>1, ModOfScaledSum
  <2> HIDE DEF scaled
  <2> QED BY <2>2, <2>3, <2>4, <2>5, <2>7, <2>8 DEF m
<1>9. Times(ab, c)[i][j] = Mod(Sum(left, x)) /\ Times(a, bc)[i][j] = Mod(Sum(right, w))
  <2> HIDE DEF ab, bc
  <2> QED BY <1>1, TimesCell
<1> HIDE DEF ab, bc, u, left, right, columns, rows
<1>10. Mod(Sum(left, x)) = Mod(Sum(columns, x))
  BY <1>5, <1>6, <1>7, SumCongruent
<1>11. Mod(Sum(right, w)) = Mod(Sum(rows, w))
  BY <1>5, <1>6, <1>8, SumCongruent
<1>12. Times(ab, c)[i][j] = Times(a, bc)[i][j]
  BY <1>4, <1>9, <1>10, <1>11
<1> QED BY <1>12 DEF ab, bc

\* Results with the same cells are the same.
LEMMA SameRows ==
    ASSUME NEW h \in Nat, NEW x \in Nat, NEW a \in Rows(h, x), NEW b \in Rows(h, x),
           \A i \in 0..(h - 1), j \in 0..(x - 1) : a[i][j] = b[i][j]
    PROVE  a = b
<1>1. \A i \in 0..(h - 1) : a[i] \in [0..(x - 1) -> Elements] /\ b[i] \in [0..(x - 1) -> Elements]
  BY DEF Rows, Elements
<1>2. \A i \in 0..(h - 1) : a[i] = b[i]
  BY <1>1
<1> QED BY <1>2 DEF Rows

\* Multiplication is associative, with elements that wrap.
LEMMA TimesAssociative ==
    ASSUME NEW h \in Nat \ {0}, NEW w \in Nat \ {0}, NEW x \in Nat \ {0}, NEW y \in Nat \ {0},
           NEW a \in Rows(h, w), NEW b \in Rows(w, x), NEW c \in Rows(x, y)
    PROVE  Times(Times(a, b), c) = Times(a, Times(b, c))
<1>1. Times(a, b) \in Rows(h, x) /\ Times(b, c) \in Rows(w, y)
  BY TimesType
<1>2. Times(Times(a, b), c) \in Rows(h, y) /\ Times(a, Times(b, c)) \in Rows(h, y)
  BY <1>1, TimesType
<1>3. \A i \in 0..(h - 1), j \in 0..(y - 1) : Times(Times(a, b), c)[i][j] = Times(a, Times(b, c))[i][j]
  BY AssociativeCell
<1> QED BY <1>2, <1>3, SameRows

----------------------------------------------------------------------------
(* The order of multiplication does not matter                             *)

\* The evaluation from the left to the right, where every split is before the last matrix.
LastSplit(n) == [c \in Chains(n) |-> c[2] - 1]

\* It is a solution.
LEMMA LastSplitIs == ASSUME NEW n \in Nat PROVE IsSolution(LastSplit(n), n)
BY SplitExists DEF IsSolution, LastSplit

\* Any split of a chain gives its product from the left to the right.
LEMMA AnySplit ==
    ASSUME NEW v, TypedValue(v), NEW e, TypedExpr(e), NEW f, IsEvaluation(f, v, e, LastSplit(Len(e)))
    PROVE  \A c \in Chains(Len(e)) : c[1] # c[2] => \A k \in Splits(c) : EvalSplit(f, e, c, k) = f[c]
<1> DEFINE n == Len(e)
           Good(c) == c[1] # c[2] => \A k \in Splits(c) : EvalSplit(f, e, c, k) = f[c]
           S == {c \in Chains(n) : Good(c)}
<1>0. n \in Nat /\ e \in Seq(Matrices)
  BY DEF TypedExpr
<1>1. \A c \in Chains(n) : c[1] # c[2] => f[c] = EvalSplit(f, e, c, c[2] - 1)
  BY DEF IsEvaluation, EvalEntry, LastSplit
<1>2. \A c \in Chains(n) : f[c] \in ResultRows(e, c)
  BY DEF IsEvaluation
<1>3. ASSUME NEW c \in Chains(n), \A d \in Chains(n) : Extent(d) < Extent(c) => d \in S PROVE c \in S
  <2> SUFFICES ASSUME c[1] # c[2], NEW k \in Splits(c) PROVE EvalSplit(f, e, c, k) = f[c]
    OBVIOUS
  <2>1. CASE k = c[2] - 1
    BY <1>1, <2>1
  <2>2. CASE k # c[2] - 1
    <3> DEFINE last == c[2] - 1
               d == Left(c, last)
               r == Right(c, k)
               m == Right(c, last)
               l == Left(c, k)
               q == Left(r, last)
    <3>1. last \in Splits(c)
      BY <1>0, SplitExists
    <3>2. d \in Chains(n) /\ r \in Chains(n) /\ m \in Chains(n) /\ l \in Chains(n) /\ Extent(d) < Extent(c)
      BY <1>0, <3>1, SplitChain
    <3>3. r[1] # r[2] /\ last \in Splits(r) /\ d[1] # d[2] /\ k \in Splits(d)
      BY <2>2 DEF Chains, Splits, Left, Right
    <3>4. Left(d, k) = l /\ Right(d, k) = q /\ Right(r, last) = m
      BY DEF Left, Right
    <3>5. f[c] = Times(f[d], f[m])
      BY <1>1 DEF EvalSplit
    <3>6. f[d] = Times(f[l], f[q])
      <4>1. d \in S
        BY <1>3, <3>2
      <4>2. EvalSplit(f, e, d, k) = f[d]
        BY <3>3, <4>1
      <4> QED BY <3>4, <4>2 DEF EvalSplit
    <3>7. f[r] = Times(f[q], f[m])
      <4>1. r[2] = c[2]
        BY DEF Right
      <4>2. f[r] = EvalSplit(f, e, r, r[2] - 1)
        BY <1>1, <3>2, <3>3
      <4>3. r[2] - 1 = last
        BY <4>1
      <4> QED BY <3>4, <4>2, <4>3 DEF EvalSplit
    <3>8. EvalSplit(f, e, c, k) = Times(f[l], f[r])
      BY DEF EvalSplit
    <3>9. PICK h, w, z \in Nat \ {0} :
               /\ ResultRows(e, Left(d, k)) = Rows(h, w)
               /\ ResultRows(e, Right(d, k)) = Rows(w, z)
               /\ ResultRows(e, d) = Rows(h, z)
      BY <3>2, <3>3, SplitFits
    <3>10. PICK w2, z2, y \in Nat \ {0} :
               /\ ResultRows(e, Left(r, last)) = Rows(w2, z2)
               /\ ResultRows(e, Right(r, last)) = Rows(z2, y)
               /\ ResultRows(e, r) = Rows(w2, y)
      BY <3>2, <3>3, SplitFits
    <3>11. q \in Chains(n)
      BY <1>0, <3>2, <3>3, SplitChain
    <3>12. f[l] \in Rows(h, w) /\ f[q] \in Rows(w, z) /\ f[q] \in Rows(w2, z2) /\ f[m] \in Rows(z2, y)
      BY <1>2, <3>2, <3>4, <3>9, <3>10, <3>11
    <3>13. z = z2
      <4>1. ASSUME NEW a \in Nat \ {0}, NEW b \in Nat \ {0}, NEW a2 \in Nat \ {0}, NEW b2 \in Nat \ {0},
                   NEW g \in Rows(a, b), g \in Rows(a2, b2)
            PROVE  b = b2
        <5>1. DOMAIN g[0] = 0..(b - 1)
          BY DEF Rows
        <5>2. DOMAIN g[0] = 0..(b2 - 1)
          BY <4>1 DEF Rows
        <5>3. b - 1 \in 0..(b2 - 1) /\ b2 - 1 \in 0..(b - 1)
          BY <5>1, <5>2
        <5> QED BY <5>3
      <4> QED BY <3>12, <4>1
    <3> HIDE DEF d, r, m, l, q
    <3>14. Times(Times(f[l], f[q]), f[m]) = Times(f[l], Times(f[q], f[m]))
      BY <3>12, <3>13, TimesAssociative
    <3> QED BY <3>5, <3>6, <3>7, <3>8, <3>14
  <2> QED BY <2>1, <2>2
<1>4. Chains(n) \subseteq S
  <2> HIDE DEF S
  <2> QED BY <1>0, <1>3, ChainInduction
<1> QED BY <1>4

\* All evaluations of an expression are the same.
LEMMA OrderIrrelevant ==
    ASSUME NEW v, TypedValue(v), NEW e, TypedExpr(e),
           NEW f, IsEvaluation(f, v, e, LastSplit(Len(e))),
           NEW solution, IsSolution(solution, Len(e)), NEW g, IsEvaluation(g, v, e, solution)
    PROVE  \A c \in Chains(Len(e)) : g[c] = f[c]
<1> DEFINE n == Len(e)
           S == {c \in Chains(n) : g[c] = f[c]}
<1>0. n \in Nat
  BY DEF TypedExpr
<1>1. ASSUME NEW c \in Chains(n), \A d \in Chains(n) : Extent(d) < Extent(c) => d \in S PROVE c \in S
  <2>1. CASE c[1] = c[2]
    BY <2>1 DEF IsEvaluation, EvalEntry
  <2>2. CASE c[1] # c[2]
    <3> DEFINE k == solution[c]
    <3>1. k \in Splits(c)
      BY <2>2 DEF IsSolution
    <3>2. g[c] = EvalSplit(g, e, c, k)
      BY <2>2 DEF IsEvaluation, EvalEntry
    <3> HIDE DEF k
    <3>3. g[Left(c, k)] = f[Left(c, k)] /\ g[Right(c, k)] = f[Right(c, k)]
      BY <1>0, <1>1, <2>2, <3>1, SplitChain
    <3>4. EvalSplit(f, e, c, k) = f[c]
      BY <2>2, <3>1, AnySplit
    <3> QED BY <3>2, <3>3, <3>4 DEF EvalSplit
  <2> QED BY <2>1, <2>2
<1>2. Chains(n) \subseteq S
  <2> HIDE DEF S
  <2> QED BY <1>0, <1>1, ChainInduction
<1> QED BY <1>2

----------------------------------------------------------------------------
(* The sum of a set of terms                                               *)

Pick(s) == CHOOSE x \in s : TRUE
Without(s, x) == s \ {x}
FoldEntry(f, v, s) == IF s = {} THEN 0 ELSE v[Pick(s)] + f[Without(s, Pick(s))]

\* f[s] adds the terms of s up, in the order in which Pick takes them.
IsFold(f, v, D) == f \in [SUBSET D -> Nat] /\ \A s \in SUBSET D : f[s] = FoldEntry(f, v, s)

\* A set of terms without one of them is smaller.
LEMMA WithoutIs ==
    ASSUME NEW D, IsFiniteSet(D), NEW s \in SUBSET D, NEW x \in s
    PROVE  /\ Without(s, x) \in SUBSET D /\ Cardinality(s) \in Nat /\ Cardinality(Without(s, x)) \in Nat
           /\ Cardinality(Without(s, x)) < Cardinality(s) /\ Cardinality(s) <= Cardinality(D)
<1>1. IsFiniteSet(s) /\ Cardinality(s) <= Cardinality(D)
  BY FS_Subset
<1>2. Cardinality(s \ {x}) = Cardinality(s) - 1 /\ IsFiniteSet(s \ {x})
  BY <1>1, FS_RemoveElement
<1>3. Cardinality(s) \in Nat /\ Cardinality(s \ {x}) \in Nat
  BY <1>1, <1>2, FS_CardinalityType
<1> QED BY <1>1, <1>2, <1>3 DEF Without

\* Pick takes one of them.
LEMMA PickIs == ASSUME NEW s, s # {} PROVE Pick(s) \in s
BY DEF Pick

\* Whichever term is taken out first, the rest is the sum without it.
LEMMA FoldRemove ==
    ASSUME NEW D, IsFiniteSet(D), NEW v \in [D -> Nat], NEW f, IsFold(f, v, D)
    PROVE  \A s \in SUBSET D : \A x \in s : f[s] = v[x] + f[Without(s, x)]
<1> DEFINE rank == [s \in SUBSET D |-> Cardinality(s)]
           Good(s) == \A x \in s : f[s] = v[x] + f[Without(s, x)]
           S == {s \in SUBSET D : Good(s)}
<1>1. rank \in [SUBSET D -> Nat] /\ \A s \in SUBSET D : rank[s] = Cardinality(s)
  BY FS_Subset, FS_CardinalityType
<1>2. ASSUME NEW s \in SUBSET D, \A t \in SUBSET D : rank[t] < rank[s] => t \in S PROVE s \in S
  <2> SUFFICES ASSUME NEW x \in s PROVE f[s] = v[x] + f[Without(s, x)]
    OBVIOUS
  <2> DEFINE p == Pick(s)
  <2>1. p \in s
    BY PickIs
  <2>2. f[s] = v[p] + f[Without(s, p)]
    BY DEF IsFold, FoldEntry
  <2> HIDE DEF p
  <2>3. CASE x = p
    BY <2>2, <2>3
  <2>4. CASE x # p
    <3> DEFINE sp == Without(s, p)
               sx == Without(s, x)
    <3>1. /\ sp \in SUBSET D /\ Cardinality(sp) < Cardinality(s)
          /\ sx \in SUBSET D /\ Cardinality(sx) < Cardinality(s)
      BY <2>1, WithoutIs
    <3>2. x \in sp /\ p \in sx /\ Without(sp, x) = Without(sx, p)
      BY <2>1, <2>4 DEF Without
    <3>3. sp \in S /\ sx \in S
      BY <1>1, <1>2, <3>1
    <3>4. Without(sp, x) \in SUBSET D
      BY <3>1 DEF Without
    <3>5. f[sp] = v[x] + f[Without(sp, x)] /\ f[sx] = v[p] + f[Without(sx, p)]
      BY <3>2, <3>3
    <3>6. v[x] \in Nat /\ v[p] \in Nat /\ f[Without(sp, x)] \in Nat /\ f[sp] \in Nat /\ f[sx] \in Nat
      BY <2>1, <3>1, <3>4 DEF IsFold
    <3> HIDE DEF sp, sx
    <3>7. v[p] + (v[x] + f[Without(sp, x)]) = v[x] + (v[p] + f[Without(sp, x)])
      BY <3>6
    <3> QED BY <2>2, <3>2, <3>5, <3>7 DEF sp, sx
  <2> QED BY <2>3, <2>4
<1>3. SUBSET D \subseteq S
  <2> DEFINE P == SUBSET D
  <2>1. rank \in [P -> Nat]
    BY <1>1
  <2> HIDE DEF S, rank
  <2>2. \A s \in P : (\A t \in P : rank[t] < rank[s] => t \in S) => s \in S
    BY <1>2
  <2> HIDE DEF P
  <2>3. P \subseteq S
    BY <2>1, <2>2, RankInduction
  <2> QED BY <2>3 DEF P
<1> QED BY <1>3

\* The sum of the set of all terms is their sum in the order of the places.
LEMMA FoldIsSum ==
    ASSUME NEW w \in Nat, NEW v \in Terms(w), NEW f, IsFold(f, v, 0..(w - 1))
    PROVE  f[0..(w - 1)] = Sum(v, w)
<1> DEFINE D == 0..(w - 1)
           s == [k \in 0..w |-> f[0..(k - 1)]]
<1>0. IsFiniteSet(D) /\ v \in [D -> Nat] /\ IsFold(f, v, D)
  <2>1. w - 1 \in Int
    OBVIOUS
  <2>2. IsFiniteSet(D)
    BY <2>1, FS_Interval
  <2> QED BY <2>2 DEF Terms
<1>1. ASSUME NEW k \in 0..w PROVE s[k] \in Nat
  <2>1. 0..(k - 1) \in SUBSET D
    OBVIOUS
  <2> QED BY <2>1 DEF IsFold
<1>2. ASSUME NEW k \in 0..w PROVE s[k] = IF k = 0 THEN 0 ELSE s[k - 1] + v[k - 1]
  <2>0. 0..(k - 1) \in SUBSET D
    OBVIOUS
  <2>1. CASE k = 0
    <3>1. 0..(k - 1) = {}
      BY <2>1
    <3>2. {} \in SUBSET D
      OBVIOUS
    <3>3. f[{}] = 0
      BY <3>2 DEF IsFold, FoldEntry
    <3> QED BY <2>1, <3>1, <3>3
  <2>2. CASE k # 0
    <3> DEFINE all == 0..(k - 1)
    <3>1. k - 1 \in all /\ all \in SUBSET D /\ k - 1 \in 0..w
      BY <2>0, <2>2
    <3>2. Without(all, k - 1) = 0..((k - 1) - 1)
      BY <2>2 DEF Without
    <3>3. s[k] = f[all] /\ s[k - 1] = f[0..((k - 1) - 1)]
      BY <3>1
    <3> HIDE DEF all, s, D
    <3>4. f[all] = v[k - 1] + f[Without(all, k - 1)]
      BY <1>0, <3>1, FoldRemove
    <3>5. v[k - 1] \in Nat /\ s[k - 1] \in Nat
      BY <1>0, <1>1, <3>1
    <3>6. s[k] = v[k - 1] + s[k - 1]
      BY <3>2, <3>3, <3>4
    <3> QED BY <2>2, <3>5, <3>6
  <2> QED BY <2>1, <2>2
<1>3. IsSums(s, v, w)
  BY <1>1, <1>2 DEF IsSums
<1>4. s[w] = f[D]
  OBVIOUS
<1> HIDE DEF s
<1> QED BY <1>3, <1>4, SumIs

\* What MapThenSumSet adds up for a cell.
CellEntry(f, a, b, i, j, s) == IF s = {} THEN 0 ELSE a[i][Pick(s)] * b[Pick(s)][j] + f[Without(s, Pick(s))]
CellFold(a, b, i, j, D) == CHOOSE f : f = [s \in SUBSET D |-> CellEntry(f, a, b, i, j, s)]

\* It adds the terms of the cell up, as a fold.
LEMMA CellFoldIs ==
    ASSUME NEW w \in Nat, NEW a, NEW b, NEW i, NEW j, CellTerms(a, b, w, i, j) \in Terms(w)
    PROVE  IsFold(CellFold(a, b, i, j, 0..(w - 1)), CellTerms(a, b, w, i, j), 0..(w - 1))
<1> DEFINE D == 0..(w - 1)
           v == CellTerms(a, b, w, i, j)
           rank == [s \in SUBSET D |-> Cardinality(s)]
           F == [SUBSET D -> Nat]
           step(f) == [s \in SUBSET D |-> CellEntry(f, a, b, i, j, s)]
           B == [f \in F |-> step(f)]
           result == CellFold(a, b, i, j, D)
<1>1. IsFiniteSet(D)
  BY FS_Interval
<1>2. ASSUME NEW s \in SUBSET D
      PROVE  Cardinality(s) \in Nat /\ Cardinality(s) <= Cardinality(D) /\ Cardinality(D) \in Nat
  BY <1>1, FS_Subset, FS_CardinalityType
<1>3. rank \in [SUBSET D -> Nat] /\ \A s \in SUBSET D : rank[s] = Cardinality(s)
  BY <1>2
<1>4. Cardinality(D) + 1 \in Nat /\ \A s \in SUBSET D : rank[s] < Cardinality(D) + 1
  <2>1. Cardinality(D) \in Nat
    BY <1>1, FS_CardinalityType
  <2> HIDE DEF D
  <2> QED BY <1>2, <2>1
<1>5. \A f : \A s \in SUBSET D : CellEntry(f, a, b, i, j, s) = FoldEntry(f, v, s)
  <2>1. \A k \in D : v[k] = a[i][k] * b[k][j]
    BY DEF CellTerms
  <2>2. \A s \in SUBSET D : s # {} => Pick(s) \in D
    BY PickIs
  <2> HIDE DEF v, D
  <2> QED BY <2>1, <2>2 DEF CellEntry, FoldEntry
<1>6. \A k \in D : v[k] \in Nat
  BY DEF Terms
<1>7. AreFunctions(F, SUBSET D)
  BY DEF AreFunctions
<1>8. [s \in SUBSET D |-> 0] \in F
  OBVIOUS
<1>9. ASSUME NEW f \in F, NEW s \in SUBSET D PROVE FoldEntry(f, v, s) \in Nat
  <2>1. CASE s = {}
    BY <2>1 DEF FoldEntry
  <2>2. CASE s # {}
    <3>1. Pick(s) \in s /\ Pick(s) \in D
      BY <2>2, PickIs
    <3>2. Without(s, Pick(s)) \in SUBSET D
      BY DEF Without
    <3> HIDE DEF v, D
    <3>3. v[Pick(s)] \in Nat /\ f[Without(s, Pick(s))] \in Nat
      BY <1>6, <3>1, <3>2
    <3> QED BY <2>2, <3>3 DEF FoldEntry
  <2> QED BY <2>1, <2>2
<1>10. B \in [F -> F]
  <2>1. ASSUME NEW f \in F PROVE step(f) \in F
    <3> HIDE DEF v, D
    <3> QED BY <1>5, <1>9
  <2> HIDE DEF step, F
  <2> QED BY <2>1
<1>11. ASSUME NEW f, NEW g, NEW s \in SUBSET D, Lower(f, g, SUBSET D, rank, s) PROVE step(f)[s] = step(g)[s]
  <2>1. CASE s = {}
    BY <2>1 DEF CellEntry
  <2>2. CASE s # {}
    <3>1. Pick(s) \in s
      BY <2>2, PickIs
    <3>2. Without(s, Pick(s)) \in SUBSET D /\ Cardinality(Without(s, Pick(s))) < Cardinality(s)
      <4> HIDE DEF D
      <4> QED BY <1>1, <3>1, WithoutIs
    <3>3. f[Without(s, Pick(s))] = g[Without(s, Pick(s))]
      <4> HIDE DEF rank, D
      <4> QED BY <1>3, <1>11, <3>2 DEF Lower
    <3> QED BY <3>3 DEF CellEntry
  <2> QED BY <2>1, <2>2
<1>12. LowerOnly(SUBSET D, rank, F, B)
  <2>1. \A f \in F : B[f] = step(f)
    OBVIOUS
  <2> HIDE DEF B, step, F, D, rank
  <2> QED BY <1>11, <2>1 DEF LowerOnly
<1>13. PICK f \in F : f = B[f]
  <2> HIDE DEF D, rank, F, B
  <2> QED BY <1>3, <1>4, <1>7, <1>8, <1>10, <1>12, RecursionExists
<1>14. f = step(f)
  BY <1>13
<1>15. result = step(result)
  <2>1. result = CHOOSE g : g = step(g)
    BY DEF CellFold
  <2> HIDE DEF step, result
  <2> QED BY <1>14, <2>1
<1>16. result = f
  <2>1. \A g : step(g) = [s \in SUBSET D |-> step(g)[s]]
    OBVIOUS
  <2> HIDE DEF step, result, D, rank, F
  <2>2. \A s \in SUBSET D : Lower(result, f, SUBSET D, rank, s) => result[s] = f[s]
    BY <1>11, <1>14, <1>15
  <2>3. result = [s \in SUBSET D |-> result[s]]
    BY <1>15, <2>1
  <2>4. f = [s \in SUBSET D |-> f[s]]
    BY <1>14, <2>1
  <2> DEFINE P == SUBSET D
  <2>5. /\ rank \in [P -> Nat] /\ result = [s \in P |-> result[s]] /\ f = [s \in P |-> f[s]]
        /\ \A s \in P : Lower(result, f, P, rank, s) => result[s] = f[s]
    BY <1>3, <2>2, <2>3, <2>4
  <2> HIDE DEF P
  <2> QED BY <2>5, SameFunction
<1>17. \A s \in SUBSET D : f[s] = CellEntry(f, a, b, i, j, s)
  <2>1. \A s \in SUBSET D : step(f)[s] = CellEntry(f, a, b, i, j, s)
    OBVIOUS
  <2> HIDE DEF step, D
  <2> QED BY <1>14, <2>1
<1>18. IsFold(f, v, D)
  <2> HIDE DEF v, D, step, B, rank
  <2> QED BY <1>5, <1>17 DEF IsFold
<1> HIDE DEF result, D, v
<1> QED BY <1>16, <1>18 DEF result, D, v

----------------------------------------------------------------------------
(* The product from the left to the right                                  *)

\* The product of the reference definition, whose cells are sums of sets.
SetProduct(a, b) ==
    [i \in DOMAIN a |-> [j \in DOMAIN b[0] |-> CellFold(a, b, i, j, DOMAIN b)[DOMAIN b] % Modulus]]

PrefixEntry(f, e, m) == IF m = 1 THEN value[e[1]] ELSE SetProduct(f[m - 1], value[e[m]])
Prefixes(e) == CHOOSE f : f = [m \in 1..Len(e) |-> PrefixEntry(f, e, m)]

\* LeftToRight is the longest of the prefixes.
LEMMA LeftToRightIs == ASSUME NEW e PROVE LeftToRight(e) = Prefixes(e)[Len(e)]
BY DEF LeftToRight, Prefixes, PrefixEntry, SetProduct, CellFold, CellEntry, Pick, Without,
       MapThenSumSet, MapThenFoldSet

\* The product of the reference definition is the one the code computes.
LEMMA SetProductIsTimes ==
    ASSUME NEW h \in Nat \ {0}, NEW w \in Nat \ {0}, NEW x \in Nat \ {0},
           NEW a \in Rows(h, w), NEW b \in Rows(w, x)
    PROVE  SetProduct(a, b) = Times(a, b)
<1>1. DOMAIN a = 0..(h - 1) /\ DOMAIN b = 0..(w - 1) /\ DOMAIN b[0] = 0..(x - 1)
  BY DEF Rows
<1>2. ASSUME NEW i \in 0..(h - 1), NEW j \in 0..(x - 1)
      PROVE  CellFold(a, b, i, j, 0..(w - 1))[0..(w - 1)] % Modulus = Times(a, b)[i][j]
  <2>1. CellTerms(a, b, w, i, j) \in Terms(w)
    BY CellTermsType
  <2>2. IsFold(CellFold(a, b, i, j, 0..(w - 1)), CellTerms(a, b, w, i, j), 0..(w - 1))
    BY <2>1, CellFoldIs
  <2>3. CellFold(a, b, i, j, 0..(w - 1))[0..(w - 1)] = Sum(CellTerms(a, b, w, i, j), w)
    BY <2>1, <2>2, FoldIsSum
  <2>4. Times(a, b)[i][j] = Mod(Sum(CellTerms(a, b, w, i, j), w))
    BY TimesCell
  <2> QED BY <2>3, <2>4 DEF Mod
<1>3. Times(a, b) = [i \in 0..(h - 1) |-> [j \in 0..(x - 1) |-> Times(a, b)[i][j]]]
  <2>1. Times(a, b) = [i \in 0..(h - 1) |-> [j \in 0..(x - 1) |-> Dot(a, b, w, i, j)[w - 1]]]
    BY TimesIs
  <2> QED BY <2>1
<1>4. SetProduct(a, b) = [i \in 0..(h - 1) |-> [j \in 0..(x - 1) |-> Times(a, b)[i][j]]]
  BY <1>1, <1>2 DEF SetProduct
<1> QED BY <1>3, <1>4

\* The prefixes are the evaluation that splits before the last matrix.
LEMMA LeftToRightIsEvaluation ==
    ASSUME TypedValue(value), NEW e, TypedExpr(e), NEW f, IsEvaluation(f, value, e, LastSplit(Len(e)))
    PROVE  LeftToRight(e) = f[<<0, Len(e) - 1>>]
<1> DEFINE n == Len(e)
           D == 1..n
           rank == [m \in D |-> m]
           step(g) == [m \in D |-> PrefixEntry(g, e, m)]
           t == [m \in D |-> f[<<0, m - 1>>]]
           result == Prefixes(e)
<1>0. n \in Nat \ {0} /\ e \in Seq(Matrices) /\ n = Len(e)
  BY DEF TypedExpr
<1>1. ASSUME NEW m \in D PROVE t[m] = PrefixEntry(t, e, m)
  <2> DEFINE c == <<0, m - 1>>
  <2>1. c \in Chains(n) /\ c[1] = 0 /\ c[2] = m - 1
    BY <1>0 DEF Chains
  <2>2. t[m] = f[c]
    OBVIOUS
  <2>3. CASE m = 1
    <3>1. f[c] = value[e[0 + 1]]
      BY <1>0, <2>1, <2>3 DEF IsEvaluation, EvalEntry
    <3> QED BY <2>2, <2>3, <3>1 DEF PrefixEntry
  <2>4. CASE m # 1
    <3> DEFINE before == <<0, (m - 1) - 1>>
               last == <<m - 1, m - 1>>
    <3>1. c[1] # c[2] /\ before \in Chains(n) /\ last \in Chains(n) /\ last[1] = last[2] /\ last[1] + 1 = m
      BY <1>0, <2>4 DEF Chains
    <3>2. f[c] = EvalSplit(f, e, c, c[2] - 1)
      BY <1>0, <2>1, <3>1 DEF IsEvaluation, EvalEntry, LastSplit
    <3>3. Left(c, c[2] - 1) = before /\ Right(c, c[2] - 1) = last
      BY <2>1 DEF Left, Right
    <3>4. f[last] = value[e[m]]
      BY <1>0, <3>1 DEF IsEvaluation, EvalEntry
    <3>5. t[m - 1] = f[before]
      BY <2>4
    <3>6. c[2] - 1 \in Splits(c)
      BY <1>0, <2>1, <3>1, SplitExists
    <3> HIDE DEF c, before, last, t
    <3>7. PICK h, w, x \in Nat \ {0} :
             /\ ResultRows(e, Left(c, c[2] - 1)) = Rows(h, w)
             /\ ResultRows(e, Right(c, c[2] - 1)) = Rows(w, x)
             /\ ResultRows(e, c) = Rows(h, x)
      BY <1>0, <2>1, <3>1, <3>6, SplitFits
    <3>8. f[before] \in Rows(h, w) /\ f[last] \in Rows(w, x)
      BY <1>0, <3>1, <3>3, <3>7 DEF IsEvaluation
    <3>9. SetProduct(f[before], f[last]) = Times(f[before], f[last])
      BY <3>8, SetProductIsTimes
    <3>10. f[c] = Times(f[before], f[last])
      BY <3>2, <3>3 DEF EvalSplit
    <3> QED BY <2>2, <2>4, <3>4, <3>5, <3>9, <3>10 DEF PrefixEntry
  <2> QED BY <2>3, <2>4
<1>2. t = step(t)
  BY <1>1
<1>3. result = step(result)
  <2>1. result = CHOOSE g : g = step(g)
    BY DEF Prefixes
  <2> HIDE DEF step, result, t
  <2> QED BY <1>2, <2>1
<1>4. rank \in [D -> Nat]
  OBVIOUS
<1>5. ASSUME NEW m \in D, Lower(result, t, D, rank, m) PROVE result[m] = t[m]
  <2>1. result[m] = step(result)[m]
    <3> HIDE DEF step, result
    <3> QED BY <1>3
  <2>2. step(result)[m] = PrefixEntry(result, e, m)
    <3> HIDE DEF result
    <3> QED OBVIOUS
  <2>3. CASE m = 1
    <3> HIDE DEF result, t, step
    <3> QED BY <1>1, <2>1, <2>2, <2>3 DEF PrefixEntry
  <2>4. CASE m # 1
    <3>1. m - 1 \in D /\ rank[m - 1] < rank[m]
      BY <1>0, <2>4
    <3>2. result[m - 1] = t[m - 1]
      <4> HIDE DEF result, t, D, rank
      <4> QED BY <1>5, <3>1 DEF Lower
    <3> HIDE DEF result, t, step
    <3> QED BY <1>1, <2>1, <2>2, <2>4, <3>2 DEF PrefixEntry
  <2> QED BY <2>3, <2>4
<1>6. result = t
  <2>1. result = [m \in D |-> result[m]]
    <3>1. \A g : step(g) = [m \in D |-> step(g)[m]]
      OBVIOUS
    <3> HIDE DEF step, result
    <3> QED BY <1>3, <3>1
  <2>2. t = [m \in D |-> t[m]]
    OBVIOUS
  <2> HIDE DEF result, t, D, rank
  <2> QED BY <1>4, <1>5, <2>1, <2>2, SameFunction
<1>7. t[n] = f[<<0, n - 1>>]
  BY <1>0
<1>8. LeftToRight(e) = result[n]
  BY LeftToRightIs
<1> HIDE DEF result, t
<1> QED BY <1>6, <1>7, <1>8

\* The value of an expression is its product from the left to the right.
LEMMA EvaluateIsProduct ==
    ASSUME TypedValue(value), NEW e, TypedExpr(e)
    PROVE  evaluate(value, e) = LeftToRight(e)
<1> DEFINE n == Len(e)
           f == Evaluation(value, e, LastSplit(n))
           g == Evaluation(value, e, resolve(e))
           top == <<0, n - 1>>
<1>1. n \in Nat \ {0} /\ top \in Chains(n) /\ e \in Seq(Matrices) /\ e # <<>>
  BY DEF TypedExpr, Chains
<1>2. IsSolution(LastSplit(n), n) /\ IsSolution(resolve(e), n)
  BY <1>1, LastSplitIs, ResolveSplits
<1>3. IsEvaluation(f, value, e, LastSplit(n)) /\ IsEvaluation(g, value, e, resolve(e))
  BY <1>2, EvaluationIs
<1>4. evaluate(value, e) = g[top]
  BY EvaluateIs
<1> HIDE DEF f, g, top
<1>5. g[top] = f[top]
  BY <1>1, <1>2, <1>3, OrderIrrelevant
<1>6. LeftToRight(e) = f[top]
  BY <1>3, LeftToRightIsEvaluation DEF top
<1> QED BY <1>4, <1>5, <1>6

\* The value of an expression is the product of the matrices in their order, however the
\* costs wrapped that chose where to split.
THEOREM EvaluationIsProductSafe == Spec => []EvaluationIsProduct
<1>1. Typed => EvaluationIsProduct
  BY EvaluateIsProduct DEF EvaluationIsProduct, Typed, TypedExpr
<1> QED BY <1>1, TypedSafe, PTL
=============================================================================

---------------------------- MODULE MatrixChain ----------------------------
(***************************************************************************)
(* lzhlib::basic_matrix and its lazy products (include/lzhlib/graphics/    *)
(* matrix.hpp).  A matrix has a fixed height and width.  The product of    *)
(* matrices is an expression, a tuple of references, which is computed     *)
(* when it is assigned or evaluated, with the values the matrices have     *)
(* then and in an order a dynamic program chooses from the sizes.          *)
(*                                                                         *)
(* Sizes and costs are std::size_t, 0 .. SIZE_MAX, and wrap.  Elements are *)
(* of an unsigned type and wrap at Modulus.  Indices start at 0 as in the  *)
(* code; a chain is a sequence of matrices, so matrix i of it is at i + 1. *)
(***************************************************************************)
EXTENDS Naturals, Sequences, FiniteSetsExt

CONSTANTS
    Matrices,       \* the matrix objects of a client
    height, width,  \* of each of them
    Modulus,        \* the number of values of value_type
    SIZE_MAX,
    MaxLength       \* bound: the longest expression

ASSUME MatrixAssumption ==
    /\ height \in [Matrices -> Nat \ {0}] /\ width \in [Matrices -> Nat \ {0}]
    /\ Modulus \in Nat \ {0} /\ SIZE_MAX \in Nat /\ MaxLength \in Nat

VARIABLES
    value,  \* the elements of each matrix
    expr    \* the matrices an expr_multiply refers to, << >> when there is none

mvars == <<value, expr>>

Rows(h, w) == [0..(h - 1) -> [0..(w - 1) -> 0..(Modulus - 1)]]

check_consistencies(e) == \A i \in 1..(Len(e) - 1) : width[e[i]] = height[e[i + 1]]

----------------------------------------------------------------------------
(* The order of multiplication                                             *)

\* size_of_matrices: the height of the first matrix and all widths.
generate_matrix_size(e) == [i \in 0..Len(e) |-> IF i = 0 THEN height[e[1]] ELSE width[e[i]]]

\* The multiplications that multiply the results of i .. k and of k + 1 .. j.
Product(sizes, i, k, j) == sizes[i] * sizes[k + 1] * sizes[j + 1]

\* The chains <<i, j>> of the matrices i .. j of n matrices, which the loops visit: the
\* entries of cost and solution that are used.
Chains(n) == {c \in (0..(n - 1)) \X (0..(n - 1)) : c[1] <= c[2]}

CurrentCost_forgets_right(cost, sizes, i, k, j) ==
    (cost[<<i, k>>] + Product(sizes, i, k, j)) % (SIZE_MAX + 1)

CurrentCost(cost, sizes, i, k, j) ==
    (cost[<<i, k>>] + cost[<<k + 1, j>>] + Product(sizes, i, k, j)) % (SIZE_MAX + 1)

Least(S) == CHOOSE n \in S : \A m \in S : n <= m

\* cost[i][j]: the least cost of multiplying the matrices i .. j.
ChainCosts(sizes, n) ==
    LET cost[c \in Chains(n)] ==
            IF c[1] = c[2] THEN 0
            ELSE Least({CurrentCost(cost, sizes, c[1], k, c[2]) : k \in c[1]..(c[2] - 1)})
    IN  cost

default_solution_at_end(j) == j

\* Multiply i .. j - 1, and the result with matrix j.
default_solution(j) == j - 1

\* solution[i][j]: the first split with the least cost.  A cost of SIZE_MAX is not
\* less than the initial one, and leaves the default.
resolve(e) ==
    LET sizes == generate_matrix_size(e)
        cost == ChainCosts(sizes, Len(e))
    IN  [c \in Chains(Len(e)) |->
            IF c[1] = c[2] THEN 0
            ELSE IF cost[c] = SIZE_MAX THEN default_solution(c[2])
            ELSE Least({k \in c[1]..(c[2] - 1) :
                            CurrentCost(cost, sizes, c[1], k, c[2]) = cost[c]})]

----------------------------------------------------------------------------
(* Multiplication                                                          *)

Times_skips_first(a, b) ==
    LET width_of_a == Cardinality(DOMAIN a[0])
        Cell(i, j) == LET sum[k \in 0..(width_of_a - 1)] ==
                              (IF k = 0 THEN 0 ELSE (sum[k - 1] + a[i][k] * b[k][j]) % Modulus)
                      IN  sum[width_of_a - 1]
    IN  [i \in DOMAIN a |-> [j \in DOMAIN b[0] |-> Cell(i, j)]]

\* The product of two results, cell by cell, along the columns of a.
Times(a, b) ==
    LET width_of_a == Cardinality(DOMAIN a[0])
        Cell(i, j) == LET sum[k \in 0..(width_of_a - 1)] ==
                              (IF k = 0 THEN a[i][0] * b[0][j]
                               ELSE sum[k - 1] + a[i][k] * b[k][j]) % Modulus
                      IN  sum[width_of_a - 1]
    IN  [i \in DOMAIN a |-> [j \in DOMAIN b[0] |-> Cell(i, j)]]

\* multiply_matrices_helper<0, size - 1>, along the solution; v holds the matrices.
evaluate(v, e) ==
    LET solution == resolve(e)
        helper[c \in Chains(Len(e))] ==
            IF c[1] = c[2] THEN v[e[c[1] + 1]]
            ELSE Times(helper[<<c[1], solution[c]>>], helper[<<solution[c] + 1, c[2]>>])
    IN  helper[<<0, Len(e) - 1>>]

----------------------------------------------------------------------------
(* Clients                                                                 *)

Init ==
    /\ value \in {v \in [Matrices -> UNION {Rows(height[m], width[m]) : m \in Matrices}] :
                      \A m \in Matrices : v[m] \in Rows(height[m], width[m])}
    /\ expr = <<>>

\* operator* of two matrices, of an expression and a matrix, of a matrix and an
\* expression; static_assert rejects sizes that do not fit.
Multiply(e) ==
    /\ Len(e) <= MaxLength
    /\ check_consistencies(e)
    /\ expr' = e
    /\ UNCHANGED value

multiply_two == \E a, b \in Matrices : Multiply(<<a, b>>)
multiply_right == expr # <<>> /\ \E m \in Matrices : Multiply(Append(expr, m))
multiply_left == expr # <<>> /\ \E m \in Matrices : Multiply(<<m>> \o expr)

\* basic_matrix::operator=: the expression is computed before the matrix, which it
\* may refer to, is written.
assign(m) ==
    /\ expr # <<>>
    /\ height[m] = height[expr[1]] /\ width[m] = width[expr[Len(expr)]]
    /\ value' = [value EXCEPT ![m] = evaluate(value, expr)]
    /\ UNCHANGED expr

Next ==
    \/ multiply_two \/ multiply_right \/ multiply_left
    \/ \E m \in Matrices : assign(m)

Spec == Init /\ [][Next]_mvars

----------------------------------------------------------------------------
(* Properties                                                              *)

\* The elements keep the type of their matrix, and every split the recursion takes
\* leaves a matrix on both sides, also when the costs wrap (matrix.hpp:100-116, 208).
MatrixTypeOK ==
    /\ \A m \in Matrices : value[m] \in Rows(height[m], width[m])
    /\ expr # <<>> => \A c \in Chains(Len(expr)) :
           c[1] < c[2] => resolve(expr)[c] \in c[1]..(c[2] - 1)

\* The costs, without limit, of all the ways to multiply e.
AllCosts(e) ==
    LET sizes == generate_matrix_size(e)
        costs[c \in Chains(Len(e))] ==
            IF c[1] = c[2] THEN {0}
            ELSE UNION {{p + q + Product(sizes, c[1], k, c[2]) :
                            p \in costs[<<c[1], k>>], q \in costs[<<k + 1, c[2]>>]} :
                        k \in c[1]..(c[2] - 1)}
    IN  costs[<<0, Len(e) - 1>>]

\* The multiplications that evaluate() does.
CostOf(e) ==
    LET sizes == generate_matrix_size(e)
        solution == resolve(e)
        cost[c \in Chains(Len(e))] ==
            IF c[1] = c[2] THEN 0
            ELSE cost[<<c[1], solution[c]>>] + cost[<<solution[c] + 1, c[2]>>]
                     + Product(sizes, c[1], solution[c], c[2])
    IN  cost[<<0, Len(e) - 1>>]

\* "basic_matrix will use dynamic-programming to choose the best associativity"
\* (matrix.hpp:24): no order does fewer multiplications, as long as the number of
\* multiplications of every order is a size_t.
SolutionIsOptimal ==
    expr # <<>> =>
        LET costs == AllCosts(expr)
        IN  /\ CostOf(expr) \in costs
            /\ (\A c \in costs : c <= SIZE_MAX) => \A c \in costs : CostOf(expr) <= c

\* The product of e from the left to the right.
LeftToRight(e) ==
    LET Mul(a, b) == [i \in DOMAIN a |-> [j \in DOMAIN b[0] |->
                         MapThenSumSet(LAMBDA k : a[i][k] * b[k][j], DOMAIN b) % Modulus]]
        prefix[n \in 1..Len(e)] ==
            IF n = 1 THEN value[e[1]] ELSE Mul(prefix[n - 1], value[e[n]])
    IN  prefix[Len(e)]

\* Whatever order is chosen, by costs that may have wrapped, the value of an
\* expression is the product (matrix.hpp:199-226).
EvaluationIsProduct == expr # <<>> => evaluate(value, expr) = LeftToRight(expr)
=============================================================================

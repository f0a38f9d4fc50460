SPECIFICATION Spec
CONSTANTS
    Matrices <- MCMatrices
    height <- MCHeight
    width <- MCWidth
    Modulus = 2
    SIZE_MAX = 9
    MaxLength = 5
INVARIANTS
    MatrixTypeOK
    SolutionIsOptimal
    EvaluationIsProduct

--------------------------- MODULE MCMatrixChain ---------------------------
\* A row of 3, a column of 3 and a scalar: they fit into chains of any length, whose
\* orders differ in cost, and every product but column * row can be assigned.
EXTENDS MatrixChain

MCMatrices == {"row", "column", "scalar"}
MCHeight == [m \in MCMatrices |-> IF m = "column" THEN 3 ELSE 1]
MCWidth == [m \in MCMatrices |-> IF m = "row" THEN 3 ELSE 1]
=============================================================================

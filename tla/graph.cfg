SPECIFICATION Spec
CONSTANTS
    VertexIds = {0, 1, 2}
    EdgeIds = {0, 1, 2}
INVARIANTS
    GraphInv
    GetEdgeExact
    AdjacentExactWhenSorted
PROPERTIES
    FailedAddEdgeStays
    ImplementsMultigraph

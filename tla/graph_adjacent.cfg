SPECIFICATION Spec
CONSTANTS
    VertexIds = {0, 1, 2}
    EdgeIds = {0, 1, 2}
INVARIANT
    AdjacentFindsEdges

SPECIFICATION Spec
CONSTANTS
    Producers = {p1, p2}
    Consumers = {c1, c2}
    Closers = {k1}
    PopOps = {"wait", "wait_for", "try"}
    Values = {v1, v2}
    Nodes = {n1, n2, n3}
    NULL = NULL
    NoValue = NoValue
    NoThread = NoThread
SYMMETRY Symmetry
INVARIANTS QueueInv FifoOrder EmptyIsExact DrainedIsFinal NoDanglingNode
PROPERTIES ImplementsClosableQueue

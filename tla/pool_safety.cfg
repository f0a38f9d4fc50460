SPECIFICATION PoolSpec
CONSTANTS
    Submitters = {s1}
    Producers = {s1, w1, w2}
    Consumers = {w1, w2}
    Closers = {own, k1}
    Owner = own
    PopOps = {"wait"}
    Values = {v1, v2}
    Nodes = {n1, n2, n3}
    NULL = NULL
    NoValue = NoValue
    NoThread = NoThread
SYMMETRY PoolSymmetry
INVARIANTS PoolInv StopMeansQuiescent NoTaskLost TaskRunsOnce FutureMeansQueued

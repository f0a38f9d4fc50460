SPECIFICATION FairSpec
CONSTANTS
    Producers = {p1}
    Consumers = {c1}
    Closers = {k1}
    PopOps = {"wait"}
    Values = {v1}
    Nodes = {n1, n2}
    NULL = NULL
    NoValue = NoValue
    NoThread = NoThread
PROPERTIES CloseWakesConsumers

SPECIFICATION PollingSpec
CONSTANTS
    Producers = {p1, p2}
    Consumers = {c1}
    Closers = {k1}
    PopOps = {"wait_for"}
    Values = {v1, v2}
    Nodes = {n1, n2, n3}
    NULL = NULL
    NoValue = NoValue
    NoThread = NoThread
PROPERTIES PushAndCloseReturn PolledQueueDrains

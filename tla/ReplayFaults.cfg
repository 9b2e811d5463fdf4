SPECIFICATION Spec
CONSTANTS
    Conns = {c1, c2}
    NoConn = NoConn
    QueueCap = 1
    PageSize = 2
    Retained = 1
    MaxSeq = 2
    MaxDrops = 1
    MaxCrashes = 1
    MaxRetires = 1
INVARIANTS
    NothingForgotten
PROPERTIES
    GatewayNeverRejects
    InOrder
    ImplementsLog
SYMMETRY Interchangeable
CHECK_DEADLOCK FALSE

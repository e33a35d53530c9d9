SPECIFICATION FairSpec
CONSTANTS
    c1 = c1
    c2 = c2
    c3 = c3
    NoConn = NoConn
    Conns <- ThreeConns
    PoolSize = 2
    LeastDivisor = 2
    GrowDivisor = 2
    ShrinkDivisor = 2
INVARIANTS
    TypeOK
    WorkersAccounted
    PoolWithinLimits
    ConnectionsAccounted
PROPERTIES
    AcceptedIsServed
    StopReturns
CHECK_DEADLOCK FALSE

SPECIFICATION Spec
CONSTANTS
    c1 = c1
    c2 = c2
    c3 = c3
    NoConn = NoConn
    Conns <- ThreeConns
    PoolSize = 4
    LeastDivisor = 4
    GrowDivisor = 4
    ShrinkDivisor = 8
PROPERTIES
    GrowsOnlyWhenBusy
CHECK_DEADLOCK FALSE

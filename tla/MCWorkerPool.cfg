SPECIFICATION FairSpec
CONSTANTS
    t1 = t1
    t2 = t2
    t3 = t3
    w1 = w1
    w2 = w2
    s1 = s1
    s2 = s2
    None = None
    Tasks <- MCTasks
    Workers <- MCWorkers
    Stoppers <- MCStoppers
    QueueCap = 1
INVARIANTS
    TypeOK
    OneOfferEach
    OnePlaceEach
PROPERTIES
    ImplementsService
    StopEndsWorkers
CHECK_DEADLOCK FALSE

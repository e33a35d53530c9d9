SPECIFICATION Spec
CONSTANTS
    k1 = k1
    k2 = k2
    v1 = v1
    Keys = {k1, k2}
    Values = {v1}
    Ids <- MCIds
    NoItem = NoItem
    TTLs <- MCTTLs
    Half = 8
    MaxNow = 2
    MaxBatch = 2
INVARIANTS
    IndexReachesItem
    PooledIsUnreachable
PROPERTIES
    ImplementsCache

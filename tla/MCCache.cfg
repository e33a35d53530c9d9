SPECIFICATION FairSpec
CONSTANTS
    k1 = k1
    k2 = k2
    v1 = v1
    i1 = i1
    i2 = i2
    i3 = i3
    Keys <- TwoKeys
    Values = {v1}
    Ids <- ThreeIds
    NoItem = NoItem
    TTLs <- MCTTLs
    Half = 8
    MaxNow = 3
INVARIANTS
    TypeOK
    DeadlinesQueued
    StaleAccounted
PROPERTIES
    LossHasADeadline
    ExpiredReclaimed

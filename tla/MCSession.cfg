SPECIFICATION FairSSpec
CONSTANTS
    k1 = k1
    v1 = v1
    v2 = v2
    s1 = s1
    pwA = pwA
    pwB = pwB
    Keys = {k1}
    Values = {v1, v2}
    Ids <- MCIds
    NoItem = NoItem
    TTLs <- MCTTLs
    Half = 8
    MaxNow = 2
    Conns = {1, 2}
    Shells = {s1}
    Passwords = {pwA, pwB}
    ConfigPassword = pwA
    NoPassword = NoPassword
    NoReply = NoReply
    NoLine = NoLine
    NoTtl = NoTtl
    TtlArgs <- MCTtlArgs
    Bursts <- MCBursts
    MaxBursts = 2
INVARIANTS
    STypeOK
    LockoutExplained
    TtlAsAsked
PROPERTIES
    ImplementsKeyService
    ConnectionsEnd
CHECK_DEADLOCK FALSE

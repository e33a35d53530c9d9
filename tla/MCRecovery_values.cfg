SPECIFICATION RSpec
CONSTANTS
    k1 = k1
    a = a
    b = b
    Keys = {k1}
    Values <- AllValues
    ClientValues <- MCValues
    Ids <- MCIds
    NoItem = NoItem
    TTLs <- MCTTLs
    Half = 8
    MaxNow = 2
    ChanCap = 1
    MaxLog = 3
    MaxHeap = 2
SYMMETRY MCSymmetry
INVARIANTS
    StopKeepsValues

SPECIFICATION Spec
CONSTANTS
    Keys = {k1, k2}
    MaxFileSize = 1
    ChanCap = 1
    MaxCmds = 3
    MaxSec = 1
    MaxCrashes = 1
    MaxFails = 1
INVARIANTS
    TypeOK
    ReplayOrder
    LatestSetOnDisk
SYMMETRY MCSymmetry
CHECK_DEADLOCK FALSE

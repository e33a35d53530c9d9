SPECIFICATION Spec
CONSTANTS
    Keys = {k1}
    MaxFileSize = 1
    ChanCap = 1
    MaxCmds = 4
    MaxSec = 1
    MaxCrashes = 1
    MaxFails = 0
INVARIANTS
    EveryLatestSetOnDisk
CHECK_DEADLOCK FALSE

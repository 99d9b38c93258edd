SPECIFICATION Spec
CONSTANTS
    Procs = {1, 2}
    NFILE = 2
    NDIRECT = 1
    NINDIRECT = 2
    BSIZE = 2
    FSSIZE = 8
    MAXOPBLOCKS = 6
    Sizes = {4}
    Images = {1, 3}
    MaxCalls = 4
INVARIANTS DiskConsistent SurvivesCrash ReadsBack OpFits
PROPERTY UsesTheLog
CHECK_DEADLOCK FALSE

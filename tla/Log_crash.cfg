SPECIFICATION FairSpec
CONSTANTS
    Block = {b1, b2}
    Val = {u, v}
    InitVal = u
    Op = {o1, o2, o3}
    MAXOPBLOCKS = 2
    LOGSIZE = 4
    NLOG = 4
INVARIANTS EndedIsDurable NoCommitRace
PROPERTIES CrashAtomic WaitersWoken

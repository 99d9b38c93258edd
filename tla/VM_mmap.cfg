SPECIFICATION FairSpec
CONSTANTS
    NFRAME = 8
    NPROC = 2
    NVP = 3
    NPTE = 3
    MAX_VMAS = 1
    ExecSz = 3
    MaxReq = 1
    Vals = {"x"}
    Syscalls = {"fork", "mmap", "munmap", "mprotect", "sbrk"}
    Misuse = {}
ACTION_CONSTRAINT LowestFrameFirst
INVARIANTS  ReadOnlyRegions 
 

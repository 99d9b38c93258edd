SPECIFICATION Spec
CONSTANTS
    NFRAME = 9
    NPROC = 2
    NVP = 4
    NPTE = 3
    MAX_VMAS = 1
    ExecSz = 3
    MaxReq = 1
    Vals = {"x"}
    Syscalls = {"fork", "wait", "exec", "mmap", "buffer"}
    Misuse = {}
VIEW View
ACTION_CONSTRAINT LowestFrameFirst
INVARIANTS NothingLeaked 
 

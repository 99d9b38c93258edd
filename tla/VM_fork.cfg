SPECIFICATION Spec
CONSTANTS
    NFRAME = 12
    NPROC = 3
    NVP = 3
    NPTE = 3
    MAX_VMAS = 1
    ExecSz = 3
    MaxReq = 1
    Vals = {"x"}
    Syscalls = {"fork", "exit", "wait"}
    Misuse = {}
VIEW View
ACTION_CONSTRAINT LowestFrameFirst
INVARIANTS TypeOK RefcountsExact WritableIsPrivate 

SPECIFICATION Spec
CONSTANTS
    NPROC = 3
    NCPU = 2
    MAX_PRIORITY = 1
    MaxPid = 4
    MaxSleep = 1
    KillPids = {2}
    Calls = {"fork", "exit", "wait", "kill", "setprio", "sleep"}
INVARIANTS StacksApart ParentsLive NoLostWakeup

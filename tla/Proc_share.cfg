SPECIFICATION ShareSpec
CONSTANTS
    NPROC = 2
    NCPU = 1
    MAX_PRIORITY = 3
    MaxPid = 3
    MaxSleep = 1
    KillPids = {2}
    Calls = {"fork", "exit", "wait", "kill", "setprio", "sleep"}
INVARIANT FairShare
PROPERTIES NoStarvation SleepEnds KilledExits

SPECIFICATION Spec
CONSTANTS
    NINODES = 3
    Name = {"a"}
    Procs = {p1, p2}
    p1 = p1
    p2 = p2
    NOFILE = 1
    Calls = {"openw", "create", "mkdir", "link", "unlink", "chdir"}
    Paths <- DirPaths
SYMMETRY Symmetry
INVARIANTS RefsExact NlinkEnough 
CHECK_DEADLOCK FALSE

SPECIFICATION FairSpec
CONSTANTS
    NINODES = 2
    Name = {"a", "b"}
    Procs = {p1, p2}
    p1 = p1
    p2 = p2
    NOFILE = 1
    Calls = {"create", "unlink"}
    Paths <- FlatPaths
PROPERTIES CallsReturn
CHECK_DEADLOCK FALSE

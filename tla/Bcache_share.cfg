SPECIFICATION FairSpec
CONSTANTS
    NBUF = 2
    Block = {k1, k2, k3}
    Val = {u, v}
    InitVal = u
    Procs = {p1, p2}
    ReadErrors = FALSE
CHECK_DEADLOCK FALSE
INVARIANTS OneBuffer HoldsWanted CleanIsDisk
PROPERTY BreadReturns

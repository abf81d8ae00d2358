SPECIFICATION FairSpec
CONSTANTS
    p1 = p1
    p2 = p2
    p3 = p3
    p4 = p4
    Root = p1
    Procs = {p1, p2, p3, p4}
    None = None
    MaxPid = 4
    Wants = {0, 3}
    NoHang = {TRUE, FALSE}
    Limits <- MCLimits
INVARIANTS ForkedChildStays OneReaper ZombieHasLiveParent SleeperMissedNothing
PROPERTY WaiterReturns

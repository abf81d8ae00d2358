SPECIFICATION FairSpec
CONSTANTS
    c1 = c1
    c2 = c2
    c3 = c3
    Cpus = {c1, c2, c3}
    Bsp = c1
    None = None
    Machines <- MCMachines
INVARIANTS HolderUndisturbed OwnStack
PROPERTIES ApsArrive PanicReported UserCodeEnds
CHECK_DEADLOCK FALSE

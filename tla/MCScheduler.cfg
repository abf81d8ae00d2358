SPECIFICATION FairSpec
CONSTANTS
    BSP = c1
    CPUs = {c1, c2}
    Threads = {t1, t2}
    WaitQueues = {w1}
    None = None
    MaxSeq = 1
INVARIANTS TypeOK OnePlace LeftStackUntouched ParkedSawLastWake
PROPERTIES WaitQueueSpec ReadyRuns DeadIsReapable

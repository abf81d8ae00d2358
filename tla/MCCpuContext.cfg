SPECIFICATION Spec
SYMMETRY MCSymmetry
CONSTANTS
    CPUs = {c1, c2}
    Threads = {t1, t2}
    Tables = {r1, r2, r3}
    BootTable = boot
    FsValues = {0, 1}
    Pages = {1}
    Rights = {1, 2}
    None = None
INVARIANT SpaceMatches
INVARIANT TlsMatches
INVARIANT TlbFresh

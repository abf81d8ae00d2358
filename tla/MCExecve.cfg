SPECIFICATION ExecSpec
CONSTANTS
    Vectors <- MCVectors
    Executables <- MCExecutables
    Interpreters <- MCInterpreters
    PathSize = 3
    MaxArgs = 2
    MaxArgBytes = 6
    PageSize = 4
    PieBase = 8
    InterpBase = 24
    StackSize = 336
    NULL = NULL
INVARIANTS AllocationsBalanced StackWellFormed SegmentsInMemory

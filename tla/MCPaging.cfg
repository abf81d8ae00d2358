SPECIFICATION PtSpec
CONSTANTS
    Spaces = {1, 2}
    Fanout = 2
    Memory = {5}
    UserArgs = {0,1,8}
    KernelArgs = {3}
    Rights = {1, 2}
    SkipLo = 1
    SkipHi = 4
    None = None
INVARIANT TablesAccounted
PROPERTY FlatMap

SPECIFICATION Spec
SYMMETRY MCSymmetry
CONSTANTS
    Frames = {1, 2, 3, 4, 5, 6, 7, 8}
    Procs = {p1, p2}
    Root = p1
    Kmain = kmain
    Spaces = {s1, s2, s3}
    None = None
    Image <- MCImage
    ImageEnd = 1
    HeapMax = 3
    MmapBase = 4
    StackLo = 3
    StackTop = 4
    UserTop = 5
    RegionSize = 4
    Hints = {None, 4}
    MaxLength = 2
    MaxBump = 5
INVARIANTS FramesAccounted Isolated HeapMapped

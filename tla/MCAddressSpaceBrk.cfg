SPECIFICATION Spec
SYMMETRY MCSymmetry
CONSTANTS
    Frames = {1, 2, 3, 4, 5, 6, 7, 8, 9}
    Procs = {p1}
    Root = p1
    Kmain = kmain
    Spaces = {s1, s2}
    None = None
    Image <- MCImage
    ImageEnd = 1
    HeapMax = 2
    MmapBase = 2
    StackLo = 3
    StackTop = 4
    UserTop = 5
    RegionSize = 4
    Hints = {None, 1}
    MaxLength = 1
    MaxBump = 5
INVARIANT BrkPagesReleased

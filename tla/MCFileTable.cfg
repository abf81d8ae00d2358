SPECIFICATION Spec
CONSTANTS
    Procs = {p1, p2}
    Root = p1
    Files = {"f1"}
    Dirs = {"d1"}
    Items <- MCItems
    MaxFiles = 4
    Outside <- MCOutside
    Width = 8
    Counts = {0, 1, 2, 7}
    Seeks <- MCSeeks
    MaxOffset = 3
    None = "None"
INVARIANTS CallsAgree StreamInOrder

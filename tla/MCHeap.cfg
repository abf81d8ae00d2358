SPECIFICATION Spec
CONSTANTS
    MapMax = 4
    Firmware <- MCFirmware
    Modules <- MCModules
    MaxModules = 2
    KernelBase = 14
    KernelEnd = 20
    HeaderSize = 6
    Grain = 2
    MinTail = 4
    PageSize = 16
    Sizes = {0, 1, 7}
    PageCounts = {1, 2}
    Null = Null
INVARIANTS ReservedExactly BlocksTileHeap HeldMatchesUsed HeldMemoryIsFree

SPECIFICATION MountSpec
CONSTANTS
    Names = {"a", "b", "long"}
    Dot = "."
    DotDot = ".."
    Cut <- MCCut
    MaxPath = 2
    EntryPaths <- MCEntryPaths
    Targets <- MCTargets
    MaxEntries = 3
    MaxSymlinkDepth = 2
INVARIANT FilesAreFound
INVARIANT LookupsAgree
PROPERTY LookupsStable

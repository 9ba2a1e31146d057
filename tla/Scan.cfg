SPECIFICATION ScanSpec
CONSTANTS
    Root = "."
    Paths <- TreePaths
    Parent <- TreeParent
    Above <- TreeAbove
    Alias <- TreeAlias
    Keys = {1, 2, 3}
    NBlocks = 2
    Versions = {1, 2}
    Trees <- TreeTrees
    MaxEntries = 2
    MaxEdits = 2
    MaxCallFailures = 1
INVARIANTS
    SnapshotWhenAgreed
    PolicyExact
    NoTornFile
CHECK_DEADLOCK FALSE

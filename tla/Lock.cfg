SPECIFICATION LiveSpec
CONSTANTS
    Procs = {p1, p2, p3}
    Inodes = {i1, i2}
    None = None
    Empty = Empty
    MaxAcquires = 1
INVARIANTS
    OwnFileStays
PROPERTIES
    ImplementsService
    OrphanRecovered
CHECK_DEADLOCK FALSE

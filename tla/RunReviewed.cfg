SPECIFICATION LiveSpec
CONSTANTS
    fileA = fileA  fileB = fileB  fileC = fileC
    TaskCount = 1
    Paths <- SinglePaths
    OutputsOf <- SingleOutputs
    Revisions = {1}
    MaxAttemptsPerTask = 2
    MaxTotalAttempts = 2
    MaxEvents = 20
    Absent = Absent
    Foreign = Foreign
    Nil = Nil
    Undisciplined = {}
    BoundResumes = TRUE
    MaxCrashes = 1
    MaxEdits = 1
INVARIANTS
    SealedTreeExact
PROPERTIES
    ApprovedEvidenceResumed
    InvocationEnds
    RunSettles
CHECK_DEADLOCK FALSE

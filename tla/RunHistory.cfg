SPECIFICATION Spec
CONSTANTS
    fileA = fileA  fileB = fileB  fileC = fileC
    TaskCount = 1
    Paths <- SinglePaths
    OutputsOf <- SingleOutputs
    Revisions = {1}
    MaxAttemptsPerTask = 2
    MaxTotalAttempts = 2
    MaxEvents = 20
    Absent = Absent
    Foreign = Foreign
    Nil = Nil
    Undisciplined = {}
    BoundResumes = FALSE
    MaxCrashes = 2
    MaxEdits = 0
INVARIANTS
    HistoryDerivable
CHECK_DEADLOCK FALSE

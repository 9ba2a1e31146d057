SPECIFICATION Spec
CONSTANTS
    fileA = fileA  fileB = fileB  fileC = fileC
    TaskCount = 2
    Paths <- ForkPaths
    OutputsOf <- ForkOutputs
    Revisions = {1}
    MaxAttemptsPerTask = 2
    MaxTotalAttempts = 4
    MaxEvents = 13
    Absent = Absent
    Foreign = Foreign
    Nil = Nil
    Undisciplined = {fileC}
    BoundResumes = FALSE
    MaxCrashes = 2
    MaxEdits = 0
INVARIANTS
    PersistedShapeValid
    LogNeverDiverges
    LogTellsState
    ArtifactsAccountedFor
    LiveFamilyBlocksResume
    BudgetCheckSuffices
    DerivableAfterOneCrash
    SealedRunVerifies
    ResumeStaysPossible
PROPERTIES
    NoOutputLost
    RecordOnlyGrows
CHECK_DEADLOCK FALSE

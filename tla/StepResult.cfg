SPECIFICATION StepSpec
CONSTANTS
    Empty = Empty
    MaxChanges = 6
INVARIANTS
    ProtocolAgreed
    ReportedIsVerified
    StatusAsSeen
CHECK_DEADLOCK FALSE

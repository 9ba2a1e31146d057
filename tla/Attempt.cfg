SPECIFICATION AttemptSpec
CONSTANTS
    Pids = {1, 2, 3}
    Leader = 1
    MaxForks = 3
    MaxReuses = 1
    MaxFailures = 2
    p1 = p1
    p2 = p2
    p3 = p3
    p4 = p4
    Procs = {p1, p2, p3, p4}
    JobLeader = p1
    MaxJobFailures = 3
INVARIANTS
    EmptyUnlessForking
    EndsQuiet
    AdmittedAlone
PROPERTIES
    GroupAttemptEnds
    JobAttemptEnds
CHECK_DEADLOCK FALSE

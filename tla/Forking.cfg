SPECIFICATION ScopeSpec
CONSTANTS
    Pids = {1, 2, 3}
    Leader = 1
    MaxForks = 3
    MaxReuses = 0
    MaxFailures = 0
INVARIANTS
    FamilyEmptyWhenTrusted
CHECK_DEADLOCK FALSE

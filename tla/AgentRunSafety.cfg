SPECIFICATION Spec
CONSTANTS
    Managers = {m1, m2}
    Digests = {d1, d2}
    None = None
    MaxJobs = 4
    MaxFaults = 1
SYMMETRY ManagerSymmetry
INVARIANTS
    ResumedAsApproved
    SucceededIsVerified
    BlocksExplained
PROPERTIES
    FollowsLifecycle
CHECK_DEADLOCK FALSE

SPECIFICATION LiveSpec
CONSTANTS
    Managers = {m1, m2}
    Digests = {d1}
    None = None
    MaxJobs = 4
    MaxFaults = 1
PROPERTIES
    RunSettles
CHECK_DEADLOCK FALSE

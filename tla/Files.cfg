SPECIFICATION FilesLiveSpec
CONSTANTS
    NoEvent = NoEvent
    Torn = Torn
    MaxFiles = 20
    MaxEvents = 2
    MaxFailedCalls = 2
    MaxCrashes = 2
INVARIANTS
    ReadableAfterLoss
    LeftoversExplained
PROPERTIES
    AnnouncedIsSettled
CHECK_DEADLOCK FALSE

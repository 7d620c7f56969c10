SPECIFICATION FairSpec
CONSTANTS
    Settings <- MCAll
    MaxSessions = 1
    MaxFaults = 3
    None = None
PROPERTIES SessionIsCleaned BrokenLiveIsCleaned
CHECK_DEADLOCK FALSE

SPECIFICATION FairSpec
CONSTANTS
    Settings <- MCAll
    MaxSessions = 1
    MaxFaults = 1
    None = None
PROPERTIES CanStreamAgain
CHECK_DEADLOCK FALSE

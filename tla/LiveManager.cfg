SPECIFICATION Spec
CONSTANTS
    Settings <- MCSettings
    MaxSessions = 2
    MaxFaults = 1
    None = None
INVARIANTS TypeOK OneStream StreamHasItsFiles ReplayOnce
PROPERTIES ReplayKept
CHECK_DEADLOCK FALSE

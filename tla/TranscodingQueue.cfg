SPECIFICATION FairSpec
CONSTANTS
    Max = 2
    Lower = {1}
    None = None
    Concurrency = 2
    MaxFaults = 2
INVARIANTS TypeOK HlsHasInput
PROPERTIES MoveAfterAll 
CHECK_DEADLOCK FALSE

SPECIFICATION FairSpec
CONSTANTS
    Ip = {a}
    None = None
    MaxEvents = 3
    MaxRequests = 2
    MaxSections = 2
    MaxFaults = 2
INVARIANTS TypeOK ViewsConserved HourlyViewsKept ViewerCountedOnce WatchSavedOnce
PROPERTIES EverythingSettles
CHECK_DEADLOCK FALSE

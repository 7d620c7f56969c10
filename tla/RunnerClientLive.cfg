SPECIFICATION FairSpec
CONSTANTS
    i1 = i1
    j1 = j1
    Instance = {i1}
    Job = {j1, j2, j3}
    InstanceOf <- MCInstanceOf
    Token = {t1, t2, t3}
    Slot = {l1, l2}
    None = None
    Concurrency = 2
    Env <- Orderly
PROPERTIES PendingIsTaken
CHECK_DEADLOCK FALSE

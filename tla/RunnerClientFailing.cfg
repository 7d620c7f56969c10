SPECIFICATION FairSpec
CONSTANTS
    i1 = i1
    j1 = j1
    Instance = {i1}
    Job = {j1}
    InstanceOf <- MCInstanceOf
    Token = {t1, t2}
    Slot = {l1, l2}
    None = None
    Concurrency = 1
    Env <- Anything
INVARIANTS TypeOK ConcurrencyBounded HeldIsKnown ExitMissesNothing
PROPERTIES HeldIsReturned
CHECK_DEADLOCK FALSE

SPECIFICATION FairSpec
CONSTANTS
    m = m
    Child = {k1, k2}
    Job = {m, k1, k2}
    Parent <- MCParent
    Runner = {r1}
    Token = {t1, t2, t3}
    Request = {q1, q2}
    Builder = {b1}
    None = None
    MaxFailures = 2
    ObjectStorage = TRUE
    Env <- Ordered
    FailureCap = 3
    DebtCap = 0
PROPERTIES ImplementsLifecycle FinalIsFinal MoveWaitsForAll EveryJobEnds VideoSettles
CHECK_DEADLOCK FALSE

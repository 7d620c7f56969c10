SPECIFICATION Spec
CONSTANTS
    m = m
    Child = {k1}
    Job = {m, k1}
    Parent <- MCParent
    Runner = {r1}
    Token = {t1, t2, t3}
    Request = {q1, q2}
    Builder = {b1}
    None = None
    MaxFailures = 1
    ObjectStorage = FALSE
    Env <- Faults
    FailureCap = 1
    DebtCap = 0
SYMMETRY MCSymmetry
INVARIANTS CompletedHasFile CompletingHasHandler
CHECK_DEADLOCK FALSE

SPECIFICATION Spec
CONSTANTS
    m = m
    Child = {k1}
    Job = {m, k1}
    Parent <- MCParent
    Runner = {r1, r2}
    Token = {t1, t2}
    Request = {q1, q2}
    Builder = {b1}
    None = None
    MaxFailures = 1
    ObjectStorage = FALSE
    Env <- Racing
    FailureCap = 1
    DebtCap = 0
SYMMETRY MCSymmetry
INVARIANTS TypeOK KidAfterParent
PROPERTIES NoStolenJob
CHECK_DEADLOCK FALSE

SPECIFICATION Spec
CONSTANTS
    m = m
    Child = {k1}
    Job = {m, k1, n}
    Parent <- MCParent
    Runner = {r1}
    Token = {t1, t2, t3}
    Request = {q1, q2}
    Builder = {b1}
    None = None
    MaxFailures = 1
    ObjectStorage = TRUE
    Env <- OrderedTwice
    FailureCap = 2
    DebtCap = 0
SYMMETRY MCSymmetry
INVARIANTS CounterAccounts OneBatch
CHECK_DEADLOCK FALSE

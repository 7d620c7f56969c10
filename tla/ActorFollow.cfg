SPECIFICATION FairSpec
CONSTANTS
    Server = {a, b}
    ManualApproval = {b}
    AutoFollowBack = {a, b}
    Admin = {k1, k2}
    None = None
    MaxCommands = 4
    NetCap = 3
INVARIANTS TypeOK Agreement ApprovedByHand
PROPERTIES FollowAnswered FollowsSettle
CHECK_DEADLOCK FALSE

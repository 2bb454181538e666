SPECIFICATION Spec
CONSTANTS
    r1 = r1
    r2 = r2
    a1 = a1
    None = None
    Requests = {r1}
    Kinds <- MCTwoKinds
    Reports <- MCTwoReports
    Approvals = {a1}
    FreshTTL = 0
    StaleTTL = 1
    ApprovalTTL = 1
    MaxTime = 1
    Threshold = "high"
    Denies = TRUE
    UpstreamStale = TRUE
INVARIANTS
    OutageVisible
    MaliciousBlocks
    RevocationHolds

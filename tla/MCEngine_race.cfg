SPECIFICATION Spec
CONSTANTS
    r1 = r1
    r2 = r2
    a1 = a1
    None = None
    Requests = {r1, r2}
    Kinds <- MCOneKind
    Reports <- MCAdvisory
    Approvals = {}
    FreshTTL = 1
    StaleTTL = 1
    ApprovalTTL = 2
    MaxTime = 3
    Threshold = "high"
    Denies = FALSE
    UpstreamStale = FALSE
SYMMETRY MCSymmetry
INVARIANT AdvisoryTakesEffect

SPECIFICATION FairSpec
CONSTANTS
    k1 = k1
    k2 = k2
    k3 = k3
    r1 = r1
    r2 = r2
    Keys = {k1, k2}
    Size <- MCSizes
    MaxBytes = 2
    Requests = {r1, r2}
    NoReq = NoReq
    NoKey = NoKey
    NoMeta = NoMeta
    MaxTime = 1
    Hazardous = {k2}
    CrashAllowed = FALSE
    CorruptAllowed = TRUE
    DeleteAllowed = TRUE
INVARIANT DeliveredIsAuthentic
PROPERTIES
    BudgetErrorJustified
    RequestsAnswered

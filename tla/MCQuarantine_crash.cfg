SPECIFICATION Spec
CONSTANTS
    k1 = k1
    k2 = k2
    k3 = k3
    r1 = r1
    r2 = r2
    Keys = {k1, k2, k3}
    Size <- MCThreeSizes
    MaxBytes = 2
    Requests = {r1, r2}
    NoReq = NoReq
    NoKey = NoKey
    NoMeta = NoMeta
    MaxTime = 1
    Hazardous = {k2}
    CrashAllowed = TRUE
    CorruptAllowed = FALSE
    DeleteAllowed = TRUE
SYMMETRY MCSymmetry
INVARIANTS
    AccountingExact
    BudgetRespected
    PinsExact
    LeaseSafety
    NothingUnverifiedOnDisk
    HazardousNeverReleased

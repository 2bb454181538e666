SPECIFICATION FairSpec
CONSTANTS
    p1 = p1
    p2 = p2
    publicOnly = publicOnly
    custom = custom
    private = private
    Procs = {p1}
    Texts <- MCTexts
    Unsupported = {private}
    PublicOnly = publicOnly
    NoText = NoText
    None = None
    MaxTx = 4
    MaxCrashes = 3
    ReEnable = FALSE
    DisableWhen = "enabled"
    EditAnytime = FALSE
    WriteFails = TRUE
    SaveFails = FALSE
    RecoverFails = FALSE
INVARIANTS
    NothingLost
    StateTellsTruth
PROPERTIES
    DisableRestores
    InterruptionsRecovered

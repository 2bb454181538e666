SPECIFICATION Spec
CONSTANTS
    p1 = p1
    p2 = p2
    publicOnly = publicOnly
    custom = custom
    private = private
    Procs = {p1, p2}
    Texts <- FewTexts
    Unsupported = {private}
    PublicOnly = publicOnly
    NoText = NoText
    None = None
    MaxTx = 2
    MaxCrashes = 1
    ReEnable = TRUE
    DisableWhen = "always"
    EditAnytime = TRUE
    WriteFails = TRUE
    SaveFails = TRUE
    RecoverFails = TRUE
PROPERTY UnsupportedUntouched
SYMMETRY Symmetry

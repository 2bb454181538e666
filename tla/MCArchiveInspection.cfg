SPECIFICATION Spec
CONSTANTS
    Entries <- MCEntries
    MaxEntryCount = 3
    MaxFileBytes = 3
    MaxExtractedBytes = 5
    MaxNestingDepth = 2
    MaxPackageJSONBytes = 2
    MaxScriptCount = 2
    MaxScriptBytes = 2
    Previous = {"install"}
    NoManifest = NoManifest
INVARIANTS AcceptedIsSound NoSilentAllClear CompleteUnlessTruncated
CHECK_DEADLOCK FALSE

SPECIFICATION FairSpec
CONSTANTS
    p1 = p1
    p2 = p2
    lib = lib
    Servers <- MCServers
    Tools <- MCTools
    LastMigration = 2
    Packages <- MCPackages
    Batch = 1
    Window = 1
    MaxWal = 2
    MaxEvents = 2
    MaxFailures = 1
    MaxRestores = 1
    Torn = Torn
    Missing = Missing
INVARIANTS SchemaRecorded SchemaBeforeUse ExportComplete AuditExplained
PROPERTIES AuditAppendOnly StartsEventually
CHECK_DEADLOCK FALSE

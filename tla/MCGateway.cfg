SPECIFICATION Spec
CONSTANTS
    r1 = r1
    r2 = r2
    v1 = v1
    v2 = v2
    c1 = c1
    c2 = c2
    Requests <- MCRequests
    Versions <- MCVersions
    Contents <- MCContents
    Damaged = Damaged
    NoContent = NoContent
    NoVersion = NoVersion
    NoDist = NoDist
    NoIntegrity = NoIntegrity
    NoKey = NoKey
    Inspection <- MCInspection
    Forms <- MCForms
    Headers <- MCHeaders
    Watched = {"truncated"}
    Catalog <- MCCatalog
    Volatile = {v1}
    MaxPublish = 1
INVARIANTS MismatchHasCause 
PROPERTIES ImplementsGate
SYMMETRY Symmetry

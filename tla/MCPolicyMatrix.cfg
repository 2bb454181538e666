SPECIFICATION MatrixSpec
CONSTANT Observations <- MCObservations
INVARIANTS
    StrictNeverWeaker
    ThresholdTightens
    FirstRowIsStrongest
PROPERTY EvidenceNeverWeakens
CHECK_DEADLOCK FALSE

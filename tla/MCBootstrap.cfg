\* Two runs of the bootstrap, forced or not, limited or not, failing anywhere.
SPECIFICATION Spec
CONSTANTS
    Run = {r1, r2}
    Nobody = Nobody
    e1 = e1
    e2 = e2
    e3 = e3
    e4 = e4
    Enterprise = {e1, e2, e3, e4}
    Files <- MCFiles
    Sites <- MCSites
    Limit = 2
    MaxBatches = 1
    SafetyCap = 2
SYMMETRY Symmetric
INVARIANTS
    TypeOK
    LeftBehindOnlyByFailure
    FreshVolumeOnce
PROPERTIES
    MarkerMeansDone
    ImplementsLifecycle
CHECK_DEADLOCK FALSE

SPECIFICATION PurgeSpec
CONSTANTS
    Projects = {p1}
    Hashes = {h1}
    Jobs = {j1, j2, j3}
    Workers = {w1, w2}
    MaxAttempts = 2
    MaxFaults = 1
    None = none
INVARIANTS
    PurgeTypeOK
    SucceededPurgeLeftNothing
    PurgeFailsOnlyByFaults
PROPERTY
    PurgesAreAtomic
SYMMETRY
    Symmetry
CHECK_DEADLOCK FALSE

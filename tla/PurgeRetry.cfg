SPECIFICATION PurgeSpec
CONSTANTS
    Projects = {p1}
    Hashes = {h1}
    Jobs = {j1, j2}
    Workers = {w1}
    MaxAttempts = 2
    MaxFaults = 1
    None = none
INVARIANTS
    ConfirmedPurgeSurvivesRetry
SYMMETRY
    Symmetry
CHECK_DEADLOCK FALSE

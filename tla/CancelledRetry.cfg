SPECIFICATION RestoreSpec
CONSTANTS
    Objects = {o1}
    Contents = {h1}
    Tombstone = tomb
    Writers = {w1, client}
    Workers = {w1}
    Client = client
    Nobody = nobody
    None = none
    Jobs = {j1, j2}
    MaxSeq = 2
    MaxGeneration = 2
    RestoreTargets <- TargetsOfTakeover
    MaxUserSnapshots = 0
    MaxSnapshots = 2
    MaxLeases = 4
    MaxFaults = 0
    StallsPastExpiry = FALSE
INVARIANTS
    MaintenanceHasAWayOut
SYMMETRY
    Symmetry

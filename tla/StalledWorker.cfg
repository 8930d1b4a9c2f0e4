SPECIFICATION RestoreSpec
CONSTANTS
    Objects = {o1}
    Contents = {h1}
    Tombstone = tomb
    Writers = {w1, w2, client}
    Workers = {w1, w2}
    Client = client
    Nobody = nobody
    None = none
    Jobs = {j1}
    MaxSeq = 2
    MaxGeneration = 2
    RestoreTargets <- TargetsOfTakeover
    MaxUserSnapshots = 0
    MaxSnapshots = 3
    MaxLeases = 3
    MaxFaults = 0
    StallsPastExpiry = TRUE
PROPERTIES
    RestoreIsUndoable
SYMMETRY
    Symmetry

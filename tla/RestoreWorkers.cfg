SPECIFICATION RestoreSpec
CONSTANTS
    Objects = {o1}
    Contents = {h1}
    Tombstone = tomb
    Writers = {w1, w2, client}
    Workers = {w1, w2}
    Client = client
    Nobody = nobody
    None = none
    Jobs = {j1, j2}
    MaxSeq = 1
    MaxGeneration = 3
    RestoreTargets <- TargetsOfTakeover
    MaxUserSnapshots = 0
    MaxSnapshots = 3
    MaxLeases = 3
    MaxFaults = 1
    StallsPastExpiry = FALSE
INVARIANTS
    RestoreTypeOK
    CancelledNeverSucceeds
    EachRestoreAppliedOnce
PROPERTIES
    RestoreIsUndoable
SYMMETRY
    Symmetry

SPECIFICATION RestoreSpec
CONSTANTS
    Objects = {o1}
    Contents = {h1}
    Tombstone = tomb
    Writers = {w1, client}
    Workers = {w1}
    Client = client
    Nobody = nobody
    None = none
    Jobs = {j1, j2}
    MaxSeq = 2
    MaxGeneration = 3
    RestoreTargets <- TargetsOfSequence
    MaxUserSnapshots = 1
    MaxSnapshots = 2
    MaxLeases = 5
    MaxFaults = 0
    StallsPastExpiry = FALSE
INVARIANTS
    StuckOnlyByCancelledRetry
PROPERTIES
    RestoresAreAtomic
    RestoreIsUndoable
SYMMETRY
    Symmetry

SPECIFICATION FairRestoreSpec
CONSTANTS
    Objects = {o1}
    Contents = {h1}
    Tombstone = tomb
    Writers = {w1, w2, client}
    Workers = {w1, w2}
    Client = client
    Nobody = nobody
    None = none
    Jobs = {j1}
    MaxSeq = 0
    MaxGeneration = 2
    RestoreTargets <- TargetsOfTakeover
    MaxUserSnapshots = 0
    MaxSnapshots = 2
    MaxLeases = 5
    MaxFaults = 1
    StallsPastExpiry = TRUE
INVARIANTS
    ReadySnapshotIsStored
PROPERTIES
    EveryRestoreEnds

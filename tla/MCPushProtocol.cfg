SPECIFICATION PushSpec
CONSTANTS
    o1 = o1
    h1 = h1
    Objects = {o1}
    Contents = {h1}
    Tombstone = tomb
    Writers = {c1, c2, restorer}
    Calls = {c1, c2}
    Restorer = restorer
    Nobody = nobody
    None = none
    Devices = {d1}
    Keys = {k1, k2}
    Batches <- PushedBatches
    MaxSeq = 3
    MaxGeneration = 2
INVARIANTS
    PushTypeOK
    AppliedAtMostOnce
    OneAnswerPerRequest
    NoPushCrossesARestore
    OnlyBootstrappedDevicesWrite
PROPERTIES
    StoreSpec
    PushesAreAtomic
SYMMETRY
    Symmetry

SPECIFICATION FairReplSpec
CONSTANTS
    Objects = {o1, o2}
    Contents = {h1}
    Tombstone = tomb
    Writers = {w1}
    Nobody = nobody
    None = none
    Devices = {d1}
    PageSize = 1
    MaxSeq = 3
    MaxGeneration = 2
    MaxFaults = 1
INVARIANTS
    ReplTypeOK
    ReplicaIsPrefix
    CompletionIsOfGeneration
    ChangeLogIsGapless
    HeadIsLatestRevision
    RevisionsAreChained
PROPERTIES
    DevicesCatchUp
    ImplementsHistory

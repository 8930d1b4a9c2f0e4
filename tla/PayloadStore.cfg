SPECIFICATION FairPayloadSpec
CONSTANTS
    Hashes = {h1}
    Uploaders = {u1, u2}
    Pushers = {p1}
    Workers = {w1}
    MaxFaults = 3
    None = none
INVARIANTS
    PayloadTypeOK
    CatalogIsStored
PROPERTIES
    RequestsAreAnswered

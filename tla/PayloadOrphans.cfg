SPECIFICATION FairPayloadSpec
CONSTANTS
    Hashes = {h1}
    Uploaders = {u1}
    Pushers = {p1}
    Workers = {w1}
    MaxFaults = 1
    None = none
PROPERTIES
    OrphansAreCollected

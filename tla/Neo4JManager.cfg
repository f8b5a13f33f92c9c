CONSTANTS
    Workers = {w1, w2}
    Drivers = {d1, d2, d3, d4, d5}
    FailedCloses = 1
    None = None
SPECIFICATION FairSpec
INVARIANTS
    TypeOK
    OnlyFailedClosesLeak
    StoredDriverIsOpen
PROPERTIES
    EveryCallEnds
    Recovers

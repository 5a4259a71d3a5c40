SPECIFICATION FairPlayerSpec
CONSTANTS
    MaxLife = 2
    MaxRetries = 2
INVARIANTS
    PlayerTypeOK
    OneStream
PROPERTIES
    NoZombie
    NeverStuck
    KeepsPromise
    StreamEnds
CHECK_DEADLOCK FALSE

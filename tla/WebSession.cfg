SPECIFICATION FairSpec
CONSTANTS
    Tab = {t1, t2}
    Token = {k1, k2}
    MaxInbox = 1
    Null = Null
INVARIANTS
    TypeOK
PROPERTIES
    NoFlash
    NoRevival
    LoadingEnds
CHECK_DEADLOCK FALSE

SPECIFICATION Spec
CONSTANTS
    Users = {u1, u2}
    Sessions = {s1, s2}
    Tokens = {t1, t2, t3, t4}
    Requests = {r1, r2}
    Null = Null
    DbErrors = TRUE
SYMMETRY Symmetry
INVARIANTS
    TypeOK
    ChainSound
    ReuseIsReal
PROPERTIES
    LogoutFinal
    KeepsPromise
CHECK_DEADLOCK FALSE

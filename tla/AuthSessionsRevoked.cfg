SPECIFICATION Spec
CONSTANTS
    Users = {u1}
    Sessions = {s1}
    Tokens = {t1, t2}
    Requests = {r1}
    Null = Null
    DbErrors = FALSE
PROPERTIES
    RevokedStaysRevoked
CHECK_DEADLOCK FALSE

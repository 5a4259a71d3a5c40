SPECIFICATION FairTokensSpec
CONSTANTS
    Tab = {t1}
    Request = {r1}
    MaxLogin = 2
    MaxGen = 3
    MaxLost = 1
    MaxStray = 1
    Null = Null
INVARIANTS
    TokensTypeOK
    SingleFlight
    RetryIsFresh
    KeepsFamily
PROPERTIES
    KeepsAccess
    KeepsService
    RequestsSettle
CHECK_DEADLOCK FALSE

SPECIFICATION Spec
CONSTANTS
    Requests = {r1, r2, r3}
    Keys = {k1}
    Calls = {c1, c2}
    Mirrors = {m1}
    MaxItem = 2
    BridgeErrors = {"transient"}
    Null = Null
INVARIANTS
    TypeOK
    OneBridgePerKey
PROPERTIES
    SharesOneBridge
    EveryoneReturns

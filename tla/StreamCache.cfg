SPECIFICATION StreamSpec
CONSTANTS
    Requests = {r1, r2}
    Keys = {k1, k2}
    Calls = {c1, c2}
    Mirrors = {}
    MaxItem = 1
    BridgeErrors = {"transient"}
    Kinds = {"stream", "segment"}
    MaxEntries = 1
    ResolveErrors = {"definitive"}
    Expiry = TRUE
    Null = Null
SYMMETRY Symmetry
INVARIANTS
    StreamTypeOK
    CacheBounded

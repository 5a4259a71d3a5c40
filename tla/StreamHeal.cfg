SPECIFICATION FairSpec
CONSTANTS
    Requests = {r1, r2}
    Keys = {k1}
    Calls = {c1}
    Mirrors = {}
    MaxItem = 3
    BridgeErrors = {"definitive", "auth"}
    Kinds = {"manifest"}
    MaxEntries = 1
    ResolveErrors = {"transient"}
    Expiry = FALSE
    Null = Null
PROPERTIES
    DeadEntriesHeal

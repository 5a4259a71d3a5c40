CONSTANTS
    Pins = {p1, p2}
    Servers = {s1, s2}
    Requests = {r1, r2, r3}
    EnvServer = s1
    Setup = Setup
    Null = Null
SPECIFICATION Spec
SYMMETRY Symmetric
INVARIANTS TypeOK TokenHeld ConnectionIsWhole ClaimedOnce
CHECK_DEADLOCK FALSE

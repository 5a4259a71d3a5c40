CONSTANTS
    Requests = {r1}
    MaxSaves = 4
    Env = Env
    Disabled = Disabled
    Null = Null
SPECIFICATION Spec
INVARIANT FollowsPriority

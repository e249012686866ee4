SPECIFICATION AnySpec
CONSTANTS
    Parts = {"agent"}
    Requests = {a1, a2}
    MaxTurns = 3
    MaxResets = 1
    MaxOverlap = 1
    MaxVisited = 2
    Users = {1, 2}
    Starts <- MCStarts
    UserOf <- MCUserOf
    MaxMints = 3
    MaxTime = 3
    Deadline = 1
    Life = 2
    Keep = 3
    Age = 1
    Ahead = 0
    GlobalLimit = 2
    UserLimit = 2
    ActiveLimit = 1
    Deciders = {a1, a2}
    MaxCalls = 3
    MaxCallers = 3
    LastTime = 4
    Interval = 2
    MaxWait = 2
    Slack = 1
SYMMETRY Symmetry
INVARIANT ClearedStaysCleared
CHECK_DEADLOCK FALSE

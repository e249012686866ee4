SPECIFICATION AnySpec
CONSTANTS
    Parts = {"renewal"}
    Workers = {a1, a2}
    Channels = {"stripe", "native", "pingxx"}
    Prices = {1, 2}
    MaxOrders = 1
    MaxAttempts = 2
    MaxCrashes = 1
    Threads = {a1, a2}
    Nobody = Nobody
    Length = 2
    Lead = 1
    Ahead = 1
    MaxTime = 4
    MaxBills = 2
    MaxChoices = 2
    MaxFaults = 1
SYMMETRY Symmetry
INVARIANT PaidCycleNotExpired
CHECK_DEADLOCK FALSE

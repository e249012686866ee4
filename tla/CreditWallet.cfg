SPECIFICATION Spec
CONSTANTS
    b1 = b1
    b2 = b2
    u1 = u1
    free = free
    Workers = {w1, w2}
    Buckets = {b1, b2}
    Usages = {u1, free}
    Operations = {o1}
    Granted <- MCGranted
    Cost <- MCCost
    MaxVersion = 4
    Idle = Idle
SYMMETRY WorkerSymmetry
INVARIANTS
    CreditsConserved
    LedgerExplainsBuckets
    WalletMatchesBuckets
CHECK_DEADLOCK FALSE

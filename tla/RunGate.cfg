SPECIFICATION FairSpec
CONSTANTS
    Lessons = {l1, l2}
    Asks = {a1, a2}
    MaxAsks = 1
    Faults = TRUE
    NoRun = NoRun
CONSTRAINT ThreeCome
INVARIANTS
    LockHeldUntilReleased
    AskSlotsExact
    KeysHaveARun
PROPERTY LeavingFreesTheLesson
CHECK_DEADLOCK FALSE

SPECIFICATION Spec
CONSTANTS
    Turns = {t1, t2}
    MaxTurns = 1
    BufferLimit = 1
    Gevent = FALSE
    MaxEvents = 2
    Done = Done
SYMMETRY TurnSymmetry
INVARIANTS
    SlotAccounting
    EngineClosedBeforeSlotIsFree
    EndIsComplete
PROPERTY ImplementsSlots
CHECK_DEADLOCK FALSE

SPECIFICATION AnySpec
CONSTANTS
    Engines = {"agent", "legacy"}
    MaxItems = 4
    AgentTurns = {t1}
    MaxThreads = 1
    BufferLimit = 1
    Gevent = TRUE
    MaxEvents = 2
    Done = Done
    Sessions = {s1}
    Workers = {w1, w2}
    MaxReports = 2
    Silent = {2}
    MaxFaults = 2
    Absent = Absent
    Nobody = Nobody
INVARIANTS
    StreamShape
    DoneMeansDelivered
    ReadyMeansDurable
    DirtyConnectionNeverPooled
    FailureIsTold
    EngineStopsWithClient
PROPERTIES
    StreamCloses
    CloseReturns
    StoppedTurnEnds
    TurnsLand
CHECK_DEADLOCK FALSE

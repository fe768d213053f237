SPECIFICATION FairSpec
CONSTANTS
    Callers = {c1}
    Flushers = {f1}
    App = app
    Writer = writer
    NoThread = none
    NoRecord = norecord
    QueueCapacity = 0
    MaxCalls = 2
INVARIANTS
    TypeOK
    Conservation
    FlushSuccessMeansWritten
    ShutdownDrains
    SleepIsExcused
PROPERTIES
    ImplementsPipe
    RecordsAreProcessed
CHECK_DEADLOCK FALSE

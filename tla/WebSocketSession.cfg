SPECIFICATION FairSpec
CONSTANTS
    Callers = {c1}
    Threads = {1, 2}
    Depth = 1
    MaxOps = 2
    MaxReads = 1
INVARIANTS
    WireDiscipline
    ResumeSafety
    QueueSafety
PROPERTIES
    SessionProgress
CHECK_DEADLOCK FALSE

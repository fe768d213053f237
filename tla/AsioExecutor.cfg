SPECIFICATION FairSpec
CONSTANTS
    IoThreads = {t1, t2}
    Loops = {l1}
    Stoppers = {s1, s2}
    Conns = {c1, c2}
    MaxAwaits = 1
INVARIANTS
    OrderlyShutdown
PROPERTIES
    ImplementsLifecycle
    DrainTerminates
CHECK_DEADLOCK FALSE

SPECIFICATION Spec
CONSTANTS
    IoThreads = {t1, t2}
    CpuThreads = {c1}
    N = 3
    Bodies <- MCBodies
INVARIANTS
    
    FramesUsedSafely
PROPERTIES
    FirstExceptionKept
    OuterIsResumed
CHECK_DEADLOCK FALSE

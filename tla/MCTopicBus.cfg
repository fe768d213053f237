SPECIFICATION Spec
CONSTANTS
    Threads = {h1, h2}
    Subs = {s1, s2, s3}
    Topics = {t1, t2}
    MaxOps = 3
SYMMETRY BusSymmetry
INVARIANTS
    SubscriptionsSound
    DeliversToLiving
PROPERTIES
    LiveStays
CHECK_DEADLOCK FALSE

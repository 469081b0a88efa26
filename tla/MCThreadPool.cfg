CONSTANTS
    None = None
    Tasks = {t1, t2, t3, t4}
    Workers = {w1, w2, w3}
    Producers = {p1, p2}
SPECIFICATION Spec
INVARIANTS
    TypeOK
    ExactlyOnce
    NoLostWakeup
    DrainedAtExit
PROPERTIES
    DestructorReturns
    ImplementsTaskPool
CHECK_DEADLOCK FALSE

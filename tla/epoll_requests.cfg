CONSTANTS
    c1 = c1
    c2 = c2
    f1 = f1
    f2 = f2
    None = None
    Conns = {c1, c2}
    Fds = {f1, f2}
    FdChoices <- AnyFd
    PoolWorkers = {w1, w2}
    MaxSend = 2
    Faults = {"badpackage", "throw"}
    PingPong = FALSE
    MayStop = FALSE
SPECIFICATION SafeSpec
SYMMETRY Symmetry
INVARIANTS
    TypeOK
    OneTaskPerConnection
    TaskMeetsItsConnection
    OneReader
    ActiveFindsWork
PROPERTIES
    HandledInOrder
CHECK_DEADLOCK FALSE

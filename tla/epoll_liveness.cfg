CONSTANTS
    c1 = c1
    c2 = c2
    f1 = f1
    f2 = f2
    None = None
    Conns = {c1, c2}
    Fds = {f1, f2}
    FdChoices <- OwnFd
    PoolWorkers = {w1}
    MaxSend = 2
    Faults = {"throw"}
    PingPong = TRUE
    MayStop = FALSE
SPECIFICATION Spec
PROPERTIES
    LoopComesBack
    TasksEnd
    RequestsAreRead
    DisconnectsAreCleanedUp
CHECK_DEADLOCK FALSE

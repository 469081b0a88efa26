CONSTANTS
    c1 = c1
    c2 = c2
    f1 = f1
    f2 = f2
    None = None
    Conns = {c1}
    Fds = {f1}
    FdChoices <- AnyFd
    PoolWorkers = {w1}
    MaxSend = 1
    Faults = {}
    PingPong = TRUE
    MayStop = TRUE
SPECIFICATION SafeSpec
INVARIANTS
    NothingRunsOnDestroyedWorker
CHECK_DEADLOCK FALSE

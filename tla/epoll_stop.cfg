CONSTANTS
    c1 = c1
    c2 = c2
    f1 = f1
    f2 = f2
    None = None
    Conns = {c1, c2}
    Fds = {f1, f2}
    FdChoices <- AnyFd
    PoolWorkers = {w1, w2}
    MaxSend = 1
    Faults = {"badpackage", "throw", "wait", "add"}
    PingPong = FALSE
    MayStop = TRUE
SPECIFICATION SafeSpec
SYMMETRY Symmetry
INVARIANTS
    DestroyedAfterThreads
CHECK_DEADLOCK FALSE

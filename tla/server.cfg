CONSTANTS
    Programs = {"server", "final_main"}
    Conns = {c1, c2}
    MaxFailures = 1
    MaxSignals = 2
SPECIFICATION Spec
INVARIANTS
    TypeOK
    NothingLeftBehind
PROPERTIES
    StopReturns
    FailureIsNoticed
    ConnectionsAreTaken
    StopIsSeen
CHECK_DEADLOCK FALSE

CONSTANTS
    Clients = {"client", "final_main", "launcher"}
    MaxServers = 2
    MaxSignals = 2
SPECIFICATION Spec
INVARIANTS
    TypeOK
    ThreadEndsWithClient
PROPERTIES
    RestartComesBack
    LossIsNoticed
CHECK_DEADLOCK FALSE

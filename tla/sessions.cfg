CONSTANTS
    Names = {Oscar, ann}
    Oscar = Oscar
    Problems = {1}
    Titles = {ti1}
    Types = {array}
    Times <- SomeTimes
    MaxUsers = 2
    MaxSubmissions = 1
    Conns = {c1, c2}
    Fds = {3, 4}
    Workers = {w1}
    Garbage <- SomeGarbage
    Releases = {TRUE, FALSE}
SPECIFICATION Spec
SYMMETRY Symmetry
INVARIANTS
    TypeOK
    NoOrphans
    SessionsNameTheirUser
    OscarCalls
    OwnLoginInRelease
PROPERTIES
    SubmissionsAreKept
CHECK_DEADLOCK FALSE

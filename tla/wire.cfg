CONSTANTS
    MaxBuffer = 16
    START = 4
    END = 13
    SEP = 35
    Lines <- SomeLines
    Entry <- SomeEntry
    Answers <- SomeAnswers
    Deliveries = {"whole", "requests cut", "replies cut"}
    Capacity = 17
    MaxSent = 2
SPECIFICATION Spec
INVARIANTS
    TypeOK
    NothingInvented
    PatientUserIsServed
PROPERTIES
    ReplyEnds
CHECK_DEADLOCK FALSE

SPECIFICATION Spec
CONSTANTS
    Codes = {1}
    Kinds = {"tick", "include", "remove", "control", "execution"}
    MaxSize = 3
    DrainLimit = 2
    MaxEvents = 5
CHECK_DEADLOCK FALSE
INVARIANTS
    TypeOK
    InOrder
    NothingForgotten
PROPERTY
    TicksGoFirst

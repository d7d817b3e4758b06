CONSTANTS
    Client = {c1, c2}
    Worker = {w1, w2}
    FDs = 1
    MaxRequests = 2
    TimerOn = FALSE
    Punctual = FALSE
    Hups = 0
    NULL = NULL
SPECIFICATION Spec
PROPERTIES
    ImplementsDispatcher
    Served
    StopEnds

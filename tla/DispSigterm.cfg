CONSTANTS
    Client = {c1, c2}
    Worker = {w1}
    FDs = 1
    MaxRequests = 1
    TimerOn = FALSE
    Punctual = FALSE
    Hups = 1
    NULL = NULL
SPECIFICATION Spec
PROPERTIES
    StopEnds

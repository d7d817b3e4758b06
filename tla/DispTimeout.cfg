CONSTANTS
    Client = {c1, c2}
    Worker = {w1}
    FDs = 1
    MaxRequests = 1
    TimerOn = TRUE
    Punctual = TRUE
    Hups = 0
    NULL = NULL
SPECIFICATION Spec
PROPERTIES
    IdleTimesOut

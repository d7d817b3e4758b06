CONSTANTS
    Client = {c1, c2}
    Worker = {w1, w2}
    FDs = 2
    MaxRequests = 2
    TimerOn = TRUE
    Punctual = FALSE
    Hups = 0
    NULL = NULL
SPECIFICATION Safety
INVARIANTS
    SweepClosesIdleOnly

CONSTANTS
    Thread = {t1, t2}
    NULL = NULL
    Path <- MCPath
    ProperPrefix <- MCPrefix
    Handler <- MCHandler
    Files <- FilesOnce
    Shape <- MCShape
    StaticFile <- MCStatic
    Requests <- TwoPlain
    Sessions <- MCSessions
    MaxRequests = 2
CHECK_DEADLOCK FALSE
SPECIFICATION Spec
INVARIANTS
    BadRequestOnlyIfBad

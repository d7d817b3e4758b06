CONSTANTS
    Thread = {t1}
    NULL = NULL
    Path <- MCPath
    ProperPrefix <- MCPrefix
    Handler <- MCHandler
    Files <- FilesOnce
    Shape <- MCShape
    StaticFile <- MCStatic
    Requests <- UnnamedSignup
    Sessions <- MCSessions
    MaxRequests = 1
CHECK_DEADLOCK FALSE
SPECIFICATION Spec
INVARIANTS
    EmptyFieldsAreReported

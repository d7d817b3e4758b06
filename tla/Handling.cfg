CONSTANTS
    Thread = {t1}
    NULL = NULL
    Path <- MCPath
    ProperPrefix <- MCPrefix
    Handler <- MCHandler
    Files <- MCFiles
    Shape <- MCShape
    StaticFile <- MCStatic
    Requests <- MCRequests
    Sessions <- MCSessions
    MaxRequests = 2
CHECK_DEADLOCK FALSE
SPECIFICATION Spec
INVARIANTS
    ParsedAsSent
    PathAsAsked
    FirstFieldsAsSent
    BadRequestOnlyIfBad
    NodesAreShared
    LastEmptyFieldsAreReported
    BodiesAreTexts
    PageAsWritten
    Framed
    CrashesAreKnown
PROPERTIES
    ImplementsRouteTable
    EachIsRouted

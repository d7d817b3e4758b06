CONSTANTS
    Threads = 2
    MaxTasks = 3
    PipeCap = 3
    Node = {n1, n2, n3}
    NULL = NULL
SPECIFICATION Spec
INVARIANTS
    TypeOK
    QueueShape
    PoolShape
    RunsOnce
    NoLostWakeup
    ShutdownWakesAll
    NothingLeft
PROPERTIES
    ImplementsTaskQueue
    FinishReturns

SPECIFICATION Spec
CONSTANTS
    j1 = j1
    w1 = w1  w2 = w2
    r1 = r1
    s1 = s1
    c1 = c1
    NoJob = NoJob
    NoWorker = NoWorker
    Jobs <- OneJob
    Workers <- TwoWorkers
    Requests <- OneRequest
    Recoveries <- OneRecovery
    Cleaners <- OneCleaner
    TaskTimeLimit = 1
    StaleAfter = 2
    Retention = 1
    QueueCap = 2
    MaxFaults = 2
    ConnectionLoss = FALSE
SYMMETRY Interchangeable
INVARIANTS
    TypeOK
    ExclusiveGeneration
    DownloadableHasObject
    ExpiredObjectGone
    AttemptKeepsJob
PROPERTY ImplementsLifecycle

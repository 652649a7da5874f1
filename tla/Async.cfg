SPECIFICATION FairSpec
CONSTANTS
    NumBuff = 2
    MaxNumRetry = 1
    QueueSize = 2
    MaxReqs = 3
    Loads <- MCLoads
    Null = Null
INVARIANTS CalledBackOnce OnlyLiveUsed CallbackTrue CalledInOrder
PROPERTIES EveryCalledBack ShutdownCompletes

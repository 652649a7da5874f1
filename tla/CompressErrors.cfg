SPECIFICATION FairSpec
CONSTANTS
    NumBuff = 2
    ReqCntThrshold = 1
    MaxNumRetry = 1
    HdrSz = 2
    FtrSz = 1
    Sizes = {4}
    ChunkDestSz = 4
    UIntSz = 64
    MaxChunks = 3
    DestSizes = {1, 5}
    SwBackups = {TRUE, FALSE}
    Formats = {"raw", "gzip"}
    Lasts = {TRUE}
    Pins = {TRUE, FALSE}
    Faults = {"grab", "submit", "retry", "job", "poll", "sw"}
    MaxCalls = 1
    MaxEvents = 1
INVARIANTS ReportsTruth FitsDestination
PROPERTIES CallReturns

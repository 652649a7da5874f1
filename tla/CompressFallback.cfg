SPECIFICATION Spec
CONSTANTS
    NumBuff = 2
    ReqCntThrshold = 1
    MaxNumRetry = 1
    HdrSz = 2
    FtrSz = 1
    Sizes = {4}
    ChunkDestSz = 4
    UIntSz = 64
    MaxChunks = 3
    DestSizes = {15}
    SwBackups = {TRUE}
    Formats = {"gzip"}
    Lasts = {TRUE}
    Pins = {FALSE}
    Faults = {"grab", "submit", "retry", "job"}
    MaxCalls = 2
    MaxEvents = 1
INVARIANTS TypeOK UpdatesExclusive InOrder WellFramed BuffersReturned NoFlowError

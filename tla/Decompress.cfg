SPECIFICATION FairSpec
CONSTANTS
    NumBuff = 2
    ReqCntThrshold = 1
    MaxNumRetry = 1
    HwBuffSz = 2
    CompLimit = 4
    InputSzThrshold = 1
    Sources <- MCSources
    DestSizes = {3}
    Modes <- MCModes
    SwBackups = {TRUE, FALSE}
    Stops = {FALSE}
    Faults = {"submit", "retry", "poll", "sw"}
    MaxCalls = 2
    MaxEvents = 1
INVARIANTS ReportsTruth FitsDestination BuffersRestored OkIsComplete EndOfStreamTrue
PROPERTIES CallReturns

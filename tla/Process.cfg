SPECIFICATION FairSpec
CONSTANTS
  Null = Null
  Threads <- MCThreads
  NumInst = 2
  Caps <- MCCaps
  Params <- MCParams
  Default <- MCDefault
  Keys = 6
  MaxGrabRetry = 2
  MaxCalls = 5
  MaxEvents = 1
INVARIANTS LocksOwned UsedReady DeviceForSession RetriedInTime
PROPERTIES CallReturns
CHECK_DEADLOCK FALSE

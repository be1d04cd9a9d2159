SPECIFICATION Spec
CONSTANTS
  Profiles <- MCQueues
  Task = {t1, t2}
  NItems = 3
  MaxFrames = 3
  MaxFCnt = 5
  TimelyTasks = TRUE
SYMMETRY TaskSymmetry
INVARIANTS PendingWasAccepted PendingIsOldest SettledOnce NoCounterReuse AckEventTruthful
PROPERTIES RefinesDownlinkQueue

CONSTANTS
  Kinds = {"gps"}
  Gateway = {g1, g2}
  g1 = g1
  g2 = g2
  Server = {s1}
  s1 = s1
  BatchSize = 2
  MaxFrames = 2
  MaxFaults = 1
  MaxPast = 2
  Expiry = 2
  Period = 2
  MaxDelay = 0
  Interval = 1
  MarginB = 3
  MarginC = 3
  SchedulerLock = 2
SPECIFICATION FairSpec
PROPERTIES HandedOverInTime
CHECK_DEADLOCK FALSE

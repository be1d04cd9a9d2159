CONSTANTS
  Task = {t1, t2}
  t1 = t1
  t2 = t2
  MaxItems = 2
  MaxUplinks = 2
  DeviceDelay = 1
  DevicePeriod = 7
  RxEnd = 5
  ClassALock = 5
  ClassCLock = 5
  Advance = 5
  Kinds = {"B", "delay"}
  Gateway = {g1}
  g1 = g1
  MaxFrames = 3
  MaxFaults = 1
  MaxPast = 2
  Expiry = 2
  GroupDelay = 1
  Server = {s1}
  s1 = s1
  BatchSize = 1
  GroupPeriod = 2
  Interval = 2
  MarginB = 4
  MarginC = 3
  SchedulerLock = 2
  Replica = {r1, r2}
  r1 = r1
  r2 = r2
  Failures = TRUE
SPECIFICATION Spec
INVARIANTS OneTask OneFramePerSlot SlotsDistinct
PROPERTIES ClassCSpaced WindowsKept SlotInTime ExpiredLeave EventsChain
CHECK_DEADLOCK FALSE

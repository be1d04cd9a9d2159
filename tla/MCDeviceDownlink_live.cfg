SPECIFICATION FairSpec
CONSTANTS
  Profiles <- MCReliable
  Task = {t1}
  NItems = 2
  MaxFrames = 3
  MaxFCnt = 4
  TimelyTasks = TRUE
PROPERTIES ItemsLeaveQueue

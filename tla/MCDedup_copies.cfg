SPECIFICATION FairSpec
CONSTANTS
  Copy = {c1, c2, c3}
  Delay = 2
  MinTtl = 3
  Slack = 1
  LastCopy = 10
  Crashes = TRUE
CHECK_DEADLOCK FALSE
INVARIANTS OneSetPerTtl SetIsComplete SetIsRecent
PROPERTIES CopyAccountedFor

CONSTANTS
  d1 = d1
  d2 = d2
  Device = {d1, d2}
  NFlows = 2
  NFragments = 2
  Scenarios <- MCScenarios
SPECIFICATION FairSpec
INVARIANTS OneOpenJob FragmentsOnce CompletedHasImage EveryDeviceAccounted
CHECK_DEADLOCK FALSE
PROPERTY Ends

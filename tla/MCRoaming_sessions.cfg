SPECIFICATION FairSpec
CONSTANTS
  Handler = {h1, h2}
  Profiles <- MCAgreements
  MaxFCnt = 5
  FCntModulus = 4
  MaxSessions = 3
  MaxLifetime = 2
INVARIANTS OneSession StoppedForGood
PROPERTY UplinkArrives

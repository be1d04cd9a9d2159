SPECIFICATION FairSpec
CONSTANTS
  Handler = {h1, h2, h3}
  MaxFCnt = 4
  FCntModulus = 4
  U32 = 16
  SkipSession = FALSE
  SkipDevice = FALSE
  Pipelined = FALSE
  PrivateGateways = TRUE
  Failures = FALSE
INVARIANT WindowRecovered
PROPERTIES RefinesInOrderUplink FreshUplinkDelivered

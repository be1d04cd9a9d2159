SPECIFICATION Spec
CONSTANTS
  Handler = {h1, h2, h3}
  MaxFCnt = 2
  FCntModulus = 4
  U32 = 16
  SkipSession = FALSE
  SkipDevice = FALSE
  Pipelined = TRUE
  PrivateGateways = TRUE
  Failures = TRUE
SYMMETRY HandlerSymmetry
INVARIANT RedeliveryNeedsReopen

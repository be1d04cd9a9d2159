SPECIFICATION Spec
CONSTANTS
  Handler = {h1, h2}
  MaxDevNonce = 1
  JoinNonceModulus = 2
  MaxEdits = 2
  KeyEdits = TRUE
  NonceFlushes = TRUE
  Lorawan11 = FALSE
  Uplinks = TRUE
  Modes = {TRUE, FALSE}
  Failures = TRUE
SYMMETRY HandlerSymmetry
INVARIANTS NonceAcceptedOnce KeysUsedOnce SessionAgreed

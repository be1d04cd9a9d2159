SPECIFICATION FairSpec
CONSTANTS
  Replica = {r1, r2}
  Failures = TRUE
PROPERTIES StateSettles

CONSTANTS
  M = 16
  ISS = 14
  IRS = 3
  MSS = 2
  Ring = 2
  Retries = 1
  NOut = 3
  NIn = 3
  NetCap = 1
  Probes = FALSE
  Partial = FALSE
SPECIFICATION Spec
INVARIANTS EofComplete
CHECK_DEADLOCK FALSE

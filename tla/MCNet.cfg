CONSTANTS
  M = 16
  ISS = 14
  IRS = 3
  MSS = 1
  Ring = 1
  Retries = 1
  NOut = 2
  NIn = 0
  NetCap = 2
  Probes = FALSE
  Partial = FALSE
  NSock = 2
  Hosts = 1
  EphLo = 5
  EphHi = 7
  Fixed = {2, 6}
  NTcp = 3
  First = 4
  Top = 6
SPECIFICATION NetSpec
INVARIANTS  StreamSent PortsSound FileExact 
CHECK_DEADLOCK FALSE

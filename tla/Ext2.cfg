CONSTANTS
  NBlocks = 9
  NInodes = 4
  NDirect = 1
  Ppb = 2
  DirUnits = 5
  Names = {"a", "b"}
  Long = {"b"}
  MaxKids = 3
  Sizes = {0, 2, 4}
  Vals = {1}
  MaxFaults = 0
  Reformat = TRUE
  Devs = {"A"}
  MaxMounts = 1
SPECIFICATION Spec
INVARIANTS DiskSound
CHECK_DEADLOCK FALSE

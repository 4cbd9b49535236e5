CONSTANTS
  NSlots = 2
  NPorts = 1
  Probes = 2
  MaxPlugs = 4
  MaxFaults = 0
  Swaps = FALSE
  Kinds = {"kbd", "mute", "hub", "other"}
SPECIFICATION Spec
INVARIANT AddressesUnique
CHECK_DEADLOCK FALSE

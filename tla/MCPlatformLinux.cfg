CONSTANTS
  Kinds <- MCKinds
  MaxDevices = 2
  Selectors <- MCSelectors
  NoSerial = ""
  KnownIds <- MCKnownIds
  MiniIds <- MCMiniIds
  Attempts = 3
  Stages = 3
  MaxPending = 2
  MaxFaults = 1
  Platforms = {"linux"}
  MaxNodes = 1
SPECIFICATION Spec
INVARIANT SelectorIsHonoured

CONSTANTS
  Kinds <- MCKinds
  MaxDevices = 2
  Selectors <- MCSelectors
  NoSerial = ""
  KnownIds <- MCKnownIds
  MiniIds <- MCMiniIds
  Attempts = 3
  Stages = 3
  MaxPending = 2
  MaxFaults = 1
  Platforms = {"linux", "macos", "windows"}
  MaxNodes = 1
SPECIFICATION Spec
INVARIANTS
  TypeOK
  OneLink
  FirstUsableWins
  OpenKeepsPromise
  ReadyMeansBooted
  StrictMeansBooted
PROPERTY CallsReturn

CONSTANTS
  Desired = 500000
  AltBauds <- MCAltBauds
  Supported <- MCAllRates
  Preferred = "assert"
  AltModes <- MCAltModes
  Attempts = 2
  Stage1Strict = FALSE
  PostStrict = FALSE
  PortRefuses = TRUE
  MaxQuiet = 2
  MaxFaults = 2
SPECIFICATION FairSpec
INVARIANTS
  TypeOK
  ReadyMeansBooted
PROPERTIES
  PacketOnlyInSession
  StrictOpen
  CallsReturn

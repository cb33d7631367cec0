CONSTANTS
  Desired = 500000
  AltBauds <- MCFullBauds
  Supported <- MCAllRates
  Preferred = "assert"
  AltModes <- MCFullModes
  Attempts = 3
  Stage1Strict = TRUE
  PostStrict = TRUE
  PortRefuses = FALSE
  MaxQuiet = 1
  MaxFaults = 1
SPECIFICATION Spec
INVARIANTS
  FallbackFindsAdapter
  ConfiguredRateKept

CONSTANTS
  Desired = 500000
  AltBauds <- MCAltBauds
  Supported <- MCAllRates
  Preferred = "assert"
  AltModes <- MCAltModes
  Attempts = 3
  Stage1Strict = FALSE
  PostStrict = FALSE
  PortRefuses = FALSE
  MaxQuiet = 1
  MaxFaults = 1
SPECIFICATION Spec
PROPERTY ClosedBootstrapRetried

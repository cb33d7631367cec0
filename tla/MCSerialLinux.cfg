CONSTANTS
  Desired = 500000
  AltBauds <- MCAltBauds
  Supported <- MCLinuxRates
  Preferred = "assert"
  AltModes <- MCAltModes
  Attempts = 3
  Stage1Strict = FALSE
  PostStrict = FALSE
  PortRefuses = FALSE
  MaxQuiet = 1
  MaxFaults = 0
SPECIFICATION Spec
INVARIANT LineAtCurrentBaud

CONSTANTS
  Transport = "serial"
  Ecus <- MCEcus
  Ecm <- MCEcm
  Knows <- MCKnows
  Faulty <- MCFaulty
  FilterPairs = 2
  VinParts = 2
  Padded = {TRUE, FALSE}
  MaxChannels = 2
  MaxAsked = 1
  MaxQueue = 1
  MaxResponses = 2
  MaxFailures = 1
  MaxOps = 2
SPECIFICATION ReaderSpec
INVARIANTS
  TypeOK
  FiltersFirst
  RetryOnlyOnSilence
  DtcsAreFresh
  ClearMeansCleared
  ExitsClean
PROPERTY OperationReturns
CHECK_DEADLOCK FALSE

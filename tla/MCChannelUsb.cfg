CONSTANTS
  Transports <- MCUsb
  MaxChannels = 2
  MaxFrames = 1
  MaxWant = 1
  MaxMsgs = 1
  Oversized <- MCOversized
  MaxFailures = 0
SPECIFICATION FairSpec
PROPERTY ReadReturns
CHECK_DEADLOCK FALSE

CONSTANTS
  Transports <- MCBoth
  MaxChannels = 2
  MaxFrames = 3
  MaxWant = 2
  MaxMsgs = 3
  Oversized <- MCOversized
  MaxFailures = 1
SPECIFICATION FairSpec
INVARIANTS
  TypeOK
  WrittenInOrder
PROPERTIES
  ImplementsChannelQueues
  PollDrainsBuffer
  SerialReadReturns
CHECK_DEADLOCK FALSE

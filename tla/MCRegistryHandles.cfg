CONSTANTS
  t1 = t1
  Threads <- OneThread
  NoThread = NoThread
  MaxDevices = 2
  MaxChannels = 3
  MaxIds = 1
  Bauds = {500}
SPECIFICATION Spec
INVARIANTS
  TypeOK
  BindingsResolve
  NoAliasing
  NoOrphanChannel
  CountersAhead
PROPERTIES
  StaleHandlesStayStale
  ImplementsPassThru

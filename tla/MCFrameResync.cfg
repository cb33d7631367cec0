CONSTANTS
  Bytes <- MCBytes
  Magic <- MCMagic
  HeaderLen = 4
  SizeAt = 4
  SizeOf <- MCSizeOf
  MaxPayload = 2
  MaxChunk = 2
  MaxBytes = 8
SPECIFICATION Spec
INVARIANTS
  TypeOK
  ChunkingIrrelevant
  BufferBounded
PROPERTIES
  LoopEnds

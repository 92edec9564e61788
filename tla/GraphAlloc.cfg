SPECIFICATION Spec
CONSTANTS
  MaxChunkSize = 3
  MaxChunks = 2
  Endless = 20
  Families <- MCFamilies
CHECK_DEADLOCK FALSE
INVARIANTS
  TypeOK
  MemoryIsApart
  NothingLeaks
  ValuesSurvive
  TensorsInBuffer

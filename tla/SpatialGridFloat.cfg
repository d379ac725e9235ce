CONSTANTS
  NonFinite = NonFinite
  NotReady = NotReady
  Round <- ThreeBits
  MaxPoints = 2
  Buffers <- MCBuffers
  Queries <- MCQueries
  CellSizes = {8}
  InitialCellSize = 8
  CellMin <- MCCellMin
  CellMax = 4
SPECIFICATION Spec
INVARIANT InputOrderEquivalence

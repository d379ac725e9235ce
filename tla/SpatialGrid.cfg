CONSTANTS
  NonFinite = NonFinite
  NotReady = NotReady
  Round <- Exact
  MaxPoints = 2
  Buffers <- MCBuffers
  Queries <- MCQueries
  CellSizes <- MCCellSizes
  InitialCellSize = 2
  CellMin <- MCCellMin
  CellMax = 2
  Questions <- MCQuestions
  Profiles <- MCProfiles
SPECIFICATION DispatchSpec
INVARIANTS
  GridInv
  InputOrderEquivalence
  AnswersTheFrame
PROPERTIES
  RetryFits
  ImplementsRadiusIndex

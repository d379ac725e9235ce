SPECIFICATION HistogramSpec
CONSTANTS
  Bits = 3
  Elapsed <- MCElapsed
  MaxSamples = 103
  Percentiles <- MCPercentiles
  Identities = {OnFile, Other}
  OnFile = OnFile
  References <- MCReferences
  RegressionPolicies <- MCPolicies
  Claims <- MCClaims
  NonFinite = NonFinite
INVARIANTS
  HistogramInv
  HistogramAgreesWithBench
  CertifiedIsComparable
  GateJudgesTheTail
PROPERTY FiguresOnlySaturate

CONSTANTS
  Ids <- MCIds
  Values <- MCValues
  MaxSamples = 3
  Spans <- MCSpans
  Policies <- MCPolicies
  Corrupt = Corrupt
SPECIFICATION Spec
INVARIANT SlowerIsDisabled

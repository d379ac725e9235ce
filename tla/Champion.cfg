CONSTANTS
  Ids <- MCIds
  Values <- MCValues
  MaxSamples = 2
  Spans <- MCSpans
  Policies <- MCPolicies
  Corrupt = Corrupt
SPECIFICATION Spec
INVARIANTS
  TypeOK
  DecisionsAreQualified
  ChangesAreImprovements
  DecisionsAreStable
  AuthoritiesAgree
  ConfidenceOnlyWithholds
PROPERTY BaselineOnlyHolds

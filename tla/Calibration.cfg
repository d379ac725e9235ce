SPECIFICATION Spec
CONSTANTS
  Sizes = {0, 1, 2, 3}
  Evidences <- MCEvidences
  Policies <- MCPolicies
  Capacity = 2
  MaxPoints = 4
INVARIANTS
  TypeOK
  LookupIsNextMeasured
  BandsAreCanonical
  AnswersPayOff

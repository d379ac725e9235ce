CONSTANTS
  Word = 16384
  Policies <- MCPolicies
  Envelopes <- MCEnvelopes
  Loads <- MCLoads
SPECIFICATION Spec
INVARIANTS
  TypeOK
  EnvelopeIsHonoured
PROPERTIES
  NothingShedUndelegated
  BandPreventsOscillation
  FittingWorkIsRestored

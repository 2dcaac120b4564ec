SPECIFICATION Spec
CONSTANTS
  Calls <- MCCalls
  MaxCalls = 3
CHECK_DEADLOCK FALSE
INVARIANTS TypeOK CarriesItsOwn QueryIsItsOwn CredentialsArrive HeadersAccumulate AccumulatedInv

SPECIFICATION Spec
CONSTANTS
  Calls <- MCCalls
  MaxCalls = 2
CHECK_DEADLOCK FALSE
INVARIANT GivenHeadersAreSent

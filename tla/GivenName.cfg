SPECIFICATION Spec
CONSTANTS
  Urls <- MCUrls
  MaxBuffers = 2
  MaxCalls = 2
CHECK_DEADLOCK FALSE
INVARIANT GivenNameIsUsed

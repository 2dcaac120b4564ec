\* chunk_response() called twice, and up to three loops, some left by a break.
SPECIFICATION Spec
CONSTANTS
  BodyLimit = 3
  MaxChunks = 2
  MaxSize = 2
  MaxOpens = 2
  MaxLoops = 3
INVARIANTS
  FirstElementIsStale
  ReaderInv
  StaleInv
  NoSilentTruncation
CHECK_DEADLOCK FALSE

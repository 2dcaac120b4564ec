\* One chunk_response() and one loop, as in handle_chunked_response.
SPECIFICATION FairSpec
CONSTANTS
  BodyLimit = 4
  MaxChunks = 3
  MaxSize = 2
  MaxOpens = 1
  MaxLoops = 1
INVARIANTS
  TypeOK
  WholeChunksInOrder
  NoSilentTruncation
  TerminateOnlyInHeader
  HeaderBeforeData
  OneLoopInv
PROPERTIES
  LoopEnds
  Delivers
CHECK_DEADLOCK FALSE

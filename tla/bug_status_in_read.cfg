SPECIFICATION Spec
CONSTANTS
  FirstChunk = 1
  Chunk = 2
  BufferSize = 2
  Sizes = {1, 2}
  Kinds = {"OUT", "IN"}
  Requests <- StatusRequests
  Habits = {"curious"}
  MaxMessages = 2
  MaxRequests = 2
  MaxEvents = 0
  MaxReply = 2
  MaxResponse = 0
INVARIANTS
  ReadKeepsTalker
CHECK_DEADLOCK FALSE

SPECIFICATION CheckingSpec
CONSTANTS
  FirstChunk = 1
  Chunk = 2
  BufferSize = 2
  Sizes = {2}
  Kinds = {"OUT", "IN"}
  Requests <- AbortRequests
  Habits = {"rush", "interrupt", "curious"}
  MaxMessages = 2
  MaxRequests = 2
  MaxEvents = 0
  MaxReply = 1
  MaxResponse = 0
PROPERTIES
  AbortsEnd
  SplitRequestsEnd
CHECK_DEADLOCK FALSE

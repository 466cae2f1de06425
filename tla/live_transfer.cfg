SPECIFICATION HelpfulSpec
CONSTANTS
  FirstChunk = 1
  Chunk = 2
  BufferSize = 2
  Sizes = {1, 2}
  Kinds = {"OUT", "IN"}
  Requests <- LocalRequests
  Habits = {}
  MaxMessages = 2
  MaxRequests = 2
  MaxEvents = 0
  MaxReply = 2
  MaxResponse = 0
PROPERTIES
  ReadsEnd
  DeferredStatusAnswered
CHECK_DEADLOCK FALSE

SPECIFICATION Spec
CONSTANTS
  FirstChunk = 1
  Chunk = 2
  BufferSize = 2
  Sizes = {1, 3}
  Kinds = {"OUT", "IN", "TRIGGER"}
  Requests <- ReadRequests
  Habits = {}
  MaxMessages = 3
  MaxRequests = 2
  MaxEvents = 0
  MaxReply = 3
  MaxResponse = 2
INVARIANTS
  IInv
  EndpointInv
  AddressInv
  TalkerInv
  ReadKeepsTalker
  BusMatchesTransfers
CHECK_DEADLOCK FALSE

SPECIFICATION Spec
CONSTANTS
  FirstChunk = 1
  Chunk = 2
  BufferSize = 2
  Sizes = {0, 1, 3}
  Kinds = {"OUT", "TRIGGER"}
  Requests <- WriteRequests
  Habits = {}
  MaxMessages = 2
  MaxRequests = 2
  MaxEvents = 1
  MaxReply = 0
  MaxResponse = 0
INVARIANTS
  TypeOK
  WriteReachesListener
  MessageDelivered
  HeaderSync
  NoStatusLost
  SplitInv
  SyncInv
PROPERTIES
  AbortFlushes
  LocalAfterWrites
  DeliverySpec
CHECK_DEADLOCK FALSE

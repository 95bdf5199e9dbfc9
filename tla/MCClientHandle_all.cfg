\* One handle under all threads, with data that overflow the buffer.  A deleted handle takes no more steps.
SPECIFICATION FairSpec
CONSTANTS
  c1 = c1
  Client <- OneClient
  Packet <- Packets
  MaxIncoming = 2
  MaxLogins = 1
  BufferSize = 2
INVARIANTS TypeOK DeletedAreDestroyed NoUseAfterDelete LoginAgrees
PROPERTIES DestroyedAreDeleted LoginIsDecided
CHECK_DEADLOCK FALSE

\* Two clients in one channel: packets, disconnects, restarts and media threads.
\* A call through a null entry crashes the process, so it may stop.
SPECIFICATION FairSpec
CONSTANTS
  c1 = c1  c2 = c2  a = a
  Client <- TwoClients
  Channel <- OneChannel
  Requests <- SomeRequests
  MaxQueue = 1
INVARIANTS TypeOK RoomIffOccupied RosterAgrees PublishersKnown
  NoStalePeerConnection  DepartureCovered
PROPERTIES DepartedAreRemoved
CHECK_DEADLOCK FALSE

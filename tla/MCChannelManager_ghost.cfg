\* Finding: a JOIN that is still queued when its client goes makes a member nobody removes.
SPECIFICATION Spec
CONSTANTS
  c1 = c1  c2 = c2  a = a
  Client <- TwoClients
  Channel <- OneChannel
  Requests <- SomeRequests
  MaxQueue = 1
INVARIANT MembersAreConnected
CHECK_DEADLOCK FALSE

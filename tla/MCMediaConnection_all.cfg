SPECIFICATION Spec
CONSTANTS
  MaxSend = 2
  MaxNice = 2
  MaxResends = 1
  Width = 4
  MaxFlights = 2
INVARIANTS TypeOK EventsInOrder NoResendAfterTimeout ThreadsAreJoined
CHECK_DEADLOCK FALSE
PROPERTIES QueuesAreServed DestructionEnds

\* Finding: Shutdown deletes handles while it holds m_CSClients.
SPECIFICATION Spec
CONSTANTS
  c1 = c1  c2 = c2
  Client <- TwoClients
  MaxQueue = 2
INVARIANT NoCircularWait
CHECK_DEADLOCK FALSE

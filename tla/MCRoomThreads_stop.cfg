\* Two clients, and a shutdown at any time; it may hang (run threads_deadlock), so TLC's own deadlock check is off.
SPECIFICATION Spec
CONSTANTS
  c1 = c1  c2 = c2
  Client <- TwoClients
  MaxQueue = 1
SYMMETRY Symmetry
INVARIANTS TypeOK WaitsInOrder RoomOutlivesMedia
CHECK_DEADLOCK FALSE

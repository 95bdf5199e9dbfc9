SPECIFICATION Spec
CONSTANTS
  w1 = w1
  w2 = w2
  Base = 2
  Writer = {w1, w2}
  Type = {0, 1, 2}
  Refused = {1}
  Field <- MCField
  OutSize = 4
  InSize = 7
  MaxChunk = 3
  MaxFields = 2
  MaxSent = 3
INVARIANTS TypeOK NothingCompleteWaits
PROPERTIES PacketsInOrder
CHECK_DEADLOCK FALSE

\* A buffer for three bytes, in calls of up to four.
SPECIFICATION Spec
CONSTANTS
  x = x  y = y
  Byte <- TwoBytes
  Capacity = 3
  MaxCall = 4
INVARIANTS TypeOK InOrder
PROPERTY QueueSpec

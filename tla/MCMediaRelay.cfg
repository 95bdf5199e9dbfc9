SPECIFICATION Spec
CONSTANTS
  Target = {a, b}
  a = a
  b = b
  MaxConn = 4
INVARIANTS TypeOK NothingDangles MapsAgree
PROPERTIES OperationsEnd
CHECK_DEADLOCK FALSE

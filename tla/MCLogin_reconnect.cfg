\* Finding: a client that lost its connection encrypts its next status request.
SPECIFICATION Spec
CONSTANTS
  MaxSockets = 2
  MaxChatter = 0
  Fault = {"close"}
INVARIANT ReadAsWritten
CHECK_DEADLOCK FALSE

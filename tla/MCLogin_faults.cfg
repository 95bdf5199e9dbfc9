\* Everything may go wrong.
SPECIFICATION Spec
CONSTANTS
  MaxSockets = 2
  MaxChatter = 3
  Fault = {"close", "timeout", "impatient"}
INVARIANT WorkIsEncrypted
CHECK_DEADLOCK FALSE

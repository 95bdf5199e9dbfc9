\* Joining, talking, leaving and joining again.  The user may stop, and connections are bounded.
SPECIFICATION FairSpec
CONSTANTS
  MaxSockets = 3
  MaxChatter = 4
  Fault = {}
INVARIANTS TypeOK ReadAsWritten MeantForReader
PROPERTIES JoinCompletes LeaveCompletes
CHECK_DEADLOCK FALSE

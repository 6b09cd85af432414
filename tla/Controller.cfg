CONSTANTS
  AREAS = {a1, a2}
  DEPTHS = {2, 3}
  NR_CMDS = 3
  NR_SESSIONS = 3
  NONE = NONE
SPECIFICATION Spec
INVARIANTS AcceptsOwn InSync
PROPERTY Answered
CHECK_DEADLOCK FALSE

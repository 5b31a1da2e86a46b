SPECIFICATION Spec
CONSTANTS
  Reminder = {"r1"}
  MaxSessions = 1
  MaxAttempts = 2
  MaxClaims = 2
  MaxEdits = 0
  EventQueue = 1
  MayCrash = FALSE
CHECK_DEADLOCK FALSE
INVARIANT LockIsLive

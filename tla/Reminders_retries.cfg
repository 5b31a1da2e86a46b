SPECIFICATION Spec
CONSTANTS
  Reminder = {"r1"}
  MaxSessions = 1
  MaxAttempts = 2
  MaxClaims = 3
  MaxEdits = 1
  EventQueue = 1
  MayCrash = TRUE
CHECK_DEADLOCK FALSE
INVARIANT QuotaExact
PROPERTY LeavesWithRevision

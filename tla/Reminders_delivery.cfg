SPECIFICATION Spec
CONSTANTS
  Reminder = {"r1"}
  MaxSessions = 2
  MaxAttempts = 1
  MaxClaims = 2
  MaxEdits = 1
  EventQueue = 1
  MayCrash = TRUE
CHECK_DEADLOCK FALSE
INVARIANT TypeOK
PROPERTY CompletedWasHeard

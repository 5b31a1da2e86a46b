SPECIFICATION FairSpec
CONSTANTS
  Modes = {"auto"}
  BargeIn = FALSE
  Overtypes = TRUE
  Refusals = {}
  UrgentCap = 1
  ControlCap = 3
  AudioCap = 1
  MailboxCap = 1
  MaxRounds = 0
  MaxPackets = 1
  MaxInputs = 2
  MaxFaults = 0
CHECK_DEADLOCK FALSE
PROPERTY SessionEnds

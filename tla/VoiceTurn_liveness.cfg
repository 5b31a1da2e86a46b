SPECIFICATION FairSpec
CONSTANTS
  Modes = {"auto"}
  BargeIn = FALSE
  Overtypes = TRUE
  Refusals = {}
  UrgentCap = 2
  ControlCap = 3
  AudioCap = 1
  MailboxCap = 4
  MaxRounds = 0
  MaxPackets = 1
  MaxInputs = 2
  MaxFaults = 1
PROPERTIES
  SessionEnds
  TurnReleased

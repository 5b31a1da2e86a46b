SPECIFICATION Spec
CONSTANTS
  Modes = {"auto"}
  BargeIn = FALSE
  Overtypes = TRUE
  Refusals = {}
  UrgentCap = 2
  ControlCap = 3
  AudioCap = 1
  MailboxCap = 4
  MaxRounds = 0
  MaxPackets = 1
  MaxInputs = 3
  MaxFaults = 0
INVARIANT IdleListeningIsFree

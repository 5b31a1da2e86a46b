SPECIFICATION Spec
CONSTANTS
  Modes = {"auto"}
  BargeIn = FALSE
  Overtypes = TRUE
  Refusals = {}
  UrgentCap = 2
  ControlCap = 4
  AudioCap = 1
  MailboxCap = 2
  MaxRounds = 0
  MaxPackets = 1
  MaxInputs = 4
  MaxFaults = 0
INVARIANT LlmOwned

SPECIFICATION Spec
CONSTANTS
  Modes = {"auto", "manual"}
  BargeIn = FALSE
  Overtypes = FALSE
  Refusals = {}
  UrgentCap = 2
  ControlCap = 4
  AudioCap = 1
  MailboxCap = 2
  MaxRounds = 0
  MaxPackets = 1
  MaxInputs = 6
  MaxFaults = 0
INVARIANT LlmOwned

SPECIFICATION Spec
CONSTANTS
  Modes = {"auto"}
  BargeIn = TRUE
  Overtypes = FALSE
  Refusals = {}
  UrgentCap = 2
  ControlCap = 3
  AudioCap = 1
  MailboxCap = 4
  MaxRounds = 1
  MaxPackets = 1
  MaxInputs = 3
  MaxFaults = 0
INVARIANTS
  TypeOK
  FramesFitPlayback
  StartedOnce
  HeardBeforeCommitted
  NormalCloseIsQuiet
  AsrOwned
  LlmOwned
PROPERTY NothingStaleStarts

SPECIFICATION Spec
CONSTANTS
  Modes = {"manual", "auto", "realtime"}
  BargeIn = FALSE
  Overtypes = TRUE
  Refusals = {"permit", "asr", "cancel", "vad", "llm"}
  UrgentCap = 1
  ControlCap = 3
  AudioCap = 1
  MailboxCap = 2
  MaxRounds = 1
  MaxPackets = 1
  MaxInputs = 2
  MaxFaults = 1
INVARIANT TurnAccountedFor
PROPERTY DeliversTurns

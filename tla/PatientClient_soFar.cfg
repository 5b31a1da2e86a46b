SPECIFICATION PatientSpec
CONSTANTS
  Modes = {"auto", "manual"}
  BargeIn = FALSE
  Overtypes = TRUE
  Refusals = {}
  UrgentCap = 2
  ControlCap = 4
  AudioCap = 1
  MailboxCap = 4
  MaxRounds = 0
  MaxPackets = 1
  MaxInputs = 4
  MaxFaults = 0
INVARIANTS
  RoundOwnedSoFar
  RecognitionOwnedSoFar
  StartedOnceSoFar
  QuietCloseSoFar
PROPERTY NothingStaleSoFar

SPECIFICATION Spec
CONSTANTS
  MaxOpens = 3
  MaxCycles = 3
  MaxFrames = 2
  MaxWorkers = 2
  Capacity = 2
CHECK_DEADLOCK FALSE
INVARIANTS TypeOK WindowsArePure ResetIsAnswered CurrentCycleIsServed

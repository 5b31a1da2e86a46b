SPECIFICATION Spec
CONSTANTS

  Session = {"s1"}
  MaxOpens = 2
  MaxWorkers = 2
  Capacity = 1
  Pools = {TRUE}
  Permit <- MCPermit
  Gate <- MCGate
  View <- MCView
  GatesOf <- MCGatesOf
  Total <- MCTotal
  Reserved <- MCReserved
  ViewOf <- MCViewOf
  RuntimeView = "runtime"
CHECK_DEADLOCK FALSE
INVARIANTS TypeOK CapacityRespected WorkIsCounted AdmittedIsServed CancelledIsReusable RetiredIsQuiet

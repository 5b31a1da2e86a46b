SPECIFICATION FairSpec
CONSTANTS

  Session = {"s1", "s2"}
  MaxOpens = 1
  MaxWorkers = 2
  Capacity = 1
  Pools = {TRUE, FALSE}
  Permit <- MCPermit
  Gate <- MCGate
  View <- MCView
  GatesOf <- MCGatesOf
  Total <- MCTotal
  Reserved <- MCReserved
  ViewOf <- MCViewOf
  RuntimeView = "runtime"
CHECK_DEADLOCK FALSE
PROPERTY StreamSettles

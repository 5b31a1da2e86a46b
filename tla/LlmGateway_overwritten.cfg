SPECIFICATION Spec
CONSTANTS
  Key = {k1}
  Task = {loop, t1}
  Loop = loop
  None = none
  MaxBundles = 3
  MaxOps = 1
  MaxCuts = 0
INVARIANT RenewalSurvives

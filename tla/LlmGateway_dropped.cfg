SPECIFICATION Spec
CONSTANTS
  Key = {k1}
  Task = {loop, t1}
  Loop = loop
  None = none
  MaxBundles = 3
  MaxOps = 2
  MaxCuts = 1
INVARIANT RowIsOffered

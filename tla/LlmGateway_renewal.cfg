SPECIFICATION FairSpec
CONSTANTS
  Key = {k1}
  Task = {loop, t1, t2}
  Loop = loop
  None = none
  MaxBundles = 3
  MaxOps = 2
  MaxCuts = 1
INVARIANTS BundleKept StatusFollowsEnabled
PROPERTY ExpiringIsHandled

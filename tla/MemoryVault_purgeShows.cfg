SPECIFICATION Spec
CONSTANTS
  Fact = {f1, f2}
  Alike = {{b1}, {b2}}
  None = None
  Gone = Gone
  MaxChanges = 3
  MaxEdits = 0
  MaxFaults = 1
  MaxCuts = 0
SYMMETRY Symmetry
PROPERTY PurgeShowsNothing

SPECIFICATION Spec
CONSTANTS
  Fact = {f1, f2}
  Alike = {{b1}, {b2}}
  None = None
  Gone = Gone
  MaxChanges = 3
  MaxEdits = 1
  MaxFaults = 0
  MaxCuts = 0
SYMMETRY Symmetry
PROPERTY NothingRevived

SPECIFICATION Spec
CONSTANTS
  Fact = {f1, f2}
  Alike = {{b1, b2}, {b3}}
  None = None
  Gone = Gone
  MaxChanges = 4
  MaxEdits = 1
  MaxFaults = 1
  MaxCuts = 1
SYMMETRY Symmetry
INVARIANTS TypeOK PromisesHold AnswersFollow

SPECIFICATION FairSpec
CONSTANTS
  Note = {"n1"}
  Channel = {"telegram", "zalo"}
  MaxAttempts = 2
  BatchLimit = 2
  MaxPublications = 2
  MaxToggles = 1
  MaxCuts = 1
INVARIANTS TypeOK RepeatsHaveACause
PROPERTY RowSettles

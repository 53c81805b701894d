CONSTANTS
  Target = 32
  Scratches = {0, 12, 48}
  Top = 63
  PageSize = 4
  AdrReach = 8
  AdrpReach = 8
SPECIFICATION FairSpec
INVARIANTS SameEffect NeverRunsData
PROPERTY Finishes
CHECK_DEADLOCK FALSE

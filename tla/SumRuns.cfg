SPECIFICATION FairSpec
CONSTANTS
  MaxRuns = 4
CHECK_DEADLOCK FALSE
INVARIANTS ResultRight StartsAgain
PROPERTIES ResultComes ParentEnds

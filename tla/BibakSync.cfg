SPECIFICATION FairSpec
CONSTANTS
  Files = {a, n}
  Nested = {n}
  MaxSessions = 2
CHECK_DEADLOCK FALSE
INVARIANTS InStep FirstRoundSync
PROPERTIES FirstRoundKeeps SessionEnds

SPECIFICATION FairSpec
CONSTANTS
  Files = {a, b}
  Nested = {}
  MaxSessions = 1
CHECK_DEADLOCK FALSE
PROPERTY ContentKept

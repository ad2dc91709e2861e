SPECIFICATION FairSpec
CONSTANTS
  Sources = {"little", "much"}
  Out <- Amounts
  Lines <- Typical
  Cap = 1
  MaxLines = 2
  MaxInts = 1
CHECK_DEADLOCK FALSE
INVARIANTS HasReader FewLeft
PROPERTIES PromptReturns

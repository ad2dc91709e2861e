SPECIFICATION Spec
CONSTANTS
  Cooks = {k1}
  Motos = {m1}
  Main = main
  Nobody = nobody
  Anybody = anybody
  Phantom = phantom
  Clients = {1, 2}
  Size <- TwoAndOne
  Apparatus = 1
  OvenCap = 1
  QueueCap = 2
  BagCap = 1
  CanCancel = {1}
  BurnIn = {nobody, 1}
CHECK_DEADLOCK FALSE
INVARIANTS IndInv PideNotDuplicated OthersConserved
PROPERTIES LostOnlyAtBreak

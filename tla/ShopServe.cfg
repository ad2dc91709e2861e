SPECIFICATION Spec
CONSTANTS
  Cooks = {k1, k2}
  Motos = {m1, m2}
  Main = main
  Nobody = nobody
  Anybody = anybody
  Phantom = phantom
  Clients = {1}
  Size <- ThreePides
  Apparatus = 2
  OvenCap = 2
  QueueCap = 2
  BagCap = 2
  CanCancel = {}
  BurnIn = {}
INVARIANTS PideConserved ApparatusBalance OvenTimerBalance OrdersToCome
SYMMETRY Alike

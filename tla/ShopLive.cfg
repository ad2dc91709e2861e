SPECIFICATION FairSpec
CONSTANTS
  Cooks = {k1}
  Motos = {m1}
  Main = main
  Nobody = nobody
  Anybody = anybody
  Phantom = phantom
  Clients = {1, 2}
  Size <- TwoAndOne
  Apparatus = 2
  OvenCap = 1
  QueueCap = 2
  BagCap = 2
  CanCancel = {}
  BurnIn = {}
INVARIANTS DeliveredMeansServed
PROPERTIES EventuallyServed ServiceSpec BooksKept

SPECIFICATION Spec
CONSTANTS
  c1 = c1
  c2 = c2
  c3 = c3
  f = f
  g = g
  h = h
  Nul = nul
  Nobody = nobody
  None = none
  Clients = {c1, c2, c3}
  Files = {f, g, none}
  Missing = {none}
  Unwritable = {none}
  Left <- Killed
  FileLen <- Len2
  Procs <- Procs3
  BUFFER_SIZE = 3
  numClients = 1
  MAX_CLIENT = 3
  Asks <- Asks3
  Commands <- Mixed
  MaxCommands <- OneEach
  MaxInterrupts <- Nudge
  Faults = {"SIGINT", "fork"}
CHECK_DEADLOCK FALSE
INVARIANTS IndInv NoOrphans OwnMessages OneInside
PROPERTY TryConnectBound

SPECIFICATION Spec
CONSTANTS
  c1 = c1
  c2 = c2
  c3 = c3
  f = f
  g = g
  h = h
  Nul = nul
  Nobody = nobody
  None = none
  Clients = {c1, c2}
  Files = {f, g, none}
  Missing = {none}
  Unwritable = {none}
  Left <- OnlyNothing
  FileLen <- Len2
  Procs <- Procs3
  BUFFER_SIZE = 3
  numClients = 1
  MAX_CLIENT = 3
  Asks <- Asks3
  Commands <- Uploads
  MaxCommands <- OneEach
  MaxInterrupts <- Quiet
  Faults = {}
CHECK_DEADLOCK FALSE
INVARIANTS UploadIntact


SPECIFICATION FairSpec
CONSTANTS
  Files = {f1, f2, f3, f4}
  Dirs = {src, sub, shut}
  Top = src
  Contents <- Tree
  Broken = {shut, f2}
  Faulty = {f3}
  Blocks <- TreeBlocks
  Workers = {w1, w2}
  Manager = manager
  Nobody = nobody
  MAX_BUFF_SIZE = 2
  MayInterrupt = TRUE
  w1 = w1
  w2 = w2
  f1 = f1
  f2 = f2
  f3 = f3
  f4 = f4
  src = src
  sub = sub
  shut = shut
CHECK_DEADLOCK FALSE
INVARIANTS IndInv FileInOnePlace BytesAtMost
PROPERTIES JobSpec Terminates

CONSTANTS
  Proc = {init, p}
  InitProc = init
  NoProc = NoProc
  NInode = 2
  NINODE = 2
  NBlock = 2
  NDirect = 1
  NIndirect = 1
  DirBlock = 4
  Shipped <- Ship1
  Request <- TwoNames
  NFile = 1
  NOFILE = 1
  NDEV = 1
  MaxChunk = 1
  WriteLen = {1}
  MaxCall = 3
  MaxCrash = 0
SPECIFICATION Spec
INVARIANTS FreedByLast

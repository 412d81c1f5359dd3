CONSTANTS
  Proc = {init, p}
  InitProc = init
  NoProc = NoProc
  NInode = 4
  NINODE = 3
  NBlock = 4
  NDirect = 1
  NIndirect = 1
  DirBlock = 4
  Shipped <- Ship1
  Request <- Mix
  NFile = 1
  NOFILE = 2
  NDEV = 1
  MaxChunk = 1
  WriteLen = {2}
  MaxCall = 3
  MaxCrash = 1
SPECIFICATION Spec
INVARIANTS TypeOK RefsExact DiskExact NoPanic

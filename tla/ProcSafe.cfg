CONSTANTS
  NProc = 3
  Cpu = {c1, c2}
  MaxPid = 3
  KillPids = {0, 1, 2}
SPECIFICATION Spec
SYMMETRY Sym
INVARIANTS TypeOK StackExclusive NoOrphan NoLostWakeup

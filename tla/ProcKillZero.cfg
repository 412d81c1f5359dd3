CONSTANTS
  NProc = 3
  Cpu = {c1, c2}
  MaxPid = 3
  KillPids = {0, 2, 3}
SPECIFICATION Spec
SYMMETRY Sym
INVARIANTS KillHitsProcess

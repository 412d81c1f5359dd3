CONSTANTS
  Cpu = {c1, c2}
  Lock <- Locks
  None = None
  MaxWrite = 2
  CHUNK = 1
  INPUT_BUF_SIZE = 3
  Wrap = 6
  Start = 4
  Input <- Scripts
  MaxRead = 2
  MaxCall = 2
  MaxKill = 1
SPECIFICATION Spec
SYMMETRY Sym
INVARIANTS TypeOK LocksMask OnePerSource NobodyForgotten
PROPERTIES ImplementsLineQueue
CHECK_DEADLOCK FALSE

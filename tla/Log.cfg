CONSTANTS
  Proc = {p, q, r}
  Block = {a, b, c, d}
  Plain = {c, d}
  Val = {0, 1}
  InitVal = 0
  LogBlocks = 4
  MaxOp = 2
  OpBlocks = 1
  MaxCrash = 2
SPECIFICATION FairSpec
INVARIANTS TypeOK DurableAtReturn NoPanic
PROPERTIES ImplementsAtomic NobodyWaitsForEver

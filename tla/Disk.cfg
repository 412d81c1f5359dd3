CONSTANTS
  p = p
  p2 = p2
  q = q
  q2 = q2
  Proc = {p, p2, q, q2}
  Outer <- MCOuter
  Level <- MCLevel
  Wants <- MCWants
  Buf = {b1, b2}
  Block = {1, 2, 3}
  Val = {0, 1}
  InitVal = 0
  None = None
  NUM = 4
  MaxPin = 1
  MaxOp = 4
SPECIFICATION FairSpec
INVARIANTS TypeOK DmaSafe
PROPERTIES ImplementsStore CallsEnd
\* Nothing runs once the calls have ended: CallsEnd says that they all do.
CHECK_DEADLOCK FALSE

CONSTANTS
  Proc = {sh, p, q}
  Shell = sh
  NoProc = NoProc
  PipeSize = 2
  Wrap = 4
  Val = {0, 1}
  Lens = {1, 3}
  Victims = {sh}
SPECIFICATION Spec
SYMMETRY Sym
INVARIANTS TypeOK ReaderNotForgotten WriterNotForgotten FreedUnused
PROPERTIES ImplementsQueue
\* All processes may have closed the pipe.
CHECK_DEADLOCK FALSE

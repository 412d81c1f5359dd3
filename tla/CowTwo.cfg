CONSTANTS
  Proc = {i, a}
  InitProc = i
  Page = {f1, f2, f3}
  NVa = 2
  Val = {x}
  Zero = Zero
  Junk = Junk
  NoPage = NoPage
  NoProc = NoProc
  InitSz = 2
  TextSz = 1
  MapFail = TRUE
SPECIFICATION Spec
SYMMETRY Sym
INVARIANTS TypeOK RefcountExact PageConserved NoPanic WritableIsPrivate FullInv
PROPERTIES ReadOnlyStays ImplementsPrivate

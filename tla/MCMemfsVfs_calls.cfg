SPECIFICATION Spec
CONSTANTS
  Threads  = {t1, t2}
  Handles  = {h1, h2, h3}
  Names    = {m, n}
  Files    = {f1, f2}
  RefBound = 2
  None     = None
SYMMETRY Symmetry
CHECK_DEADLOCK FALSE
INVARIANTS TypeOK MutexOwner UniqueNames NoLeak OpenIsListed NoUseAfterFree RefsCounted
PROPERTY RefsDieEmpty

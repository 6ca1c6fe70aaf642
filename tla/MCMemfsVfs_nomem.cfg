SPECIFICATION Spec
CONSTANTS
  Threads  = {t1}
  Handles  = {h1}
  Names    = {m}
  Files    = {f1}
  RefBound = 2
  None     = None
SYMMETRY Symmetry
INVARIANT FailedOpenCloses
CHECK_DEADLOCK FALSE

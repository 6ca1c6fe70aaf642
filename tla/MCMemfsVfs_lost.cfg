SPECIFICATION Spec
CONSTANTS
  Threads  = {t1, t2}
  Handles  = {h1, h2}
  Names    = {m}
  Files    = {f1}
  RefBound = 2
  None     = None
SYMMETRY Symmetry
INVARIANT UnusedHasNoRefs
CHECK_DEADLOCK FALSE

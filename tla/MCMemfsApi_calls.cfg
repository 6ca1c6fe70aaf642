SPECIFICATION Spec
CONSTANTS
  r = r
  w = w
  s = s
  Threads = {r, w, s}
  Calls <- MCCalls
  pHead = pHead
  Freed = Freed
CHECK_DEADLOCK FALSE
INVARIANTS TypeOK TransfersExclude
PROPERTIES TableSpec CallsEnd

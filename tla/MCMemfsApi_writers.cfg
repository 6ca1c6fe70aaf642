SPECIFICATION Spec
CONSTANTS
  r = r
  w = w
  s = s
  Threads = {r, w}
  Calls <- MCWriters
  pHead = pHead
  Freed = Freed
CHECK_DEADLOCK FALSE
PROPERTY CallsEnd

SPECIFICATION Spec
CONSTANTS
  a = a
  b = b
  fa1 = fa1
  fa2 = fa2
  fb  = fb
  Threads = {t1, t2}
  Names  <- MCNames
  Files  <- MCFiles
  zName  <- MCzName
  Nodes   = {n1, n2, n3, n4}
  Users   = {u1, u2}
  NULL    = NULL
  Freed   = Freed
  Lowest <- MCLowest
SYMMETRY Symmetry
CHECK_DEADLOCK FALSE
CONSTRAINT Unbroken
INVARIANTS TypeOK RingWhole OnlyOverlapBreaks CountsUsers
PROPERTIES ListSpec SearchIsHonest FilesStay UnloadEmpties

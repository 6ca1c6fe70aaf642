SPECIFICATION Spec
CONSTANTS
  N = 3
  Threads = 3
  LockRequests   <- MCLockRequests
  UnlockRequests <- MCUnlockRequests
INVARIANTS TypeOK ExclusionUnlessRaced NoWriterMissed
PROPERTIES ReservedClosesDoor TableSpec

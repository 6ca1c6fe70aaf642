SPECIFICATION Spec
CONSTANTS
  N = 2
  Threads = 2
  LockRequests   <- MCLockRequests
  UnlockRequests <- MCUnlockRequests
INVARIANT NoConflictExecute

------------------------------ MODULE MCMemfsLock ------------------------------
(* Values of the constants of MemfsLock for TLC.                           *)
EXTENDS MemfsLock

MCLockRequests ==
  {SQLITE_LOCK_SHARED, SQLITE_LOCK_RESERVED, SQLITE_LOCK_EXCLUSIVE}

MCUnlockRequests == {SQLITE_LOCK_NONE, SQLITE_LOCK_SHARED}

===============================================================================

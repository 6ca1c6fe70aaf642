------------------------------ MODULE LockLevels ------------------------------
(***************************************************************************)
(* The five lock levels SQLite passes to xLock and xUnlock, and the table  *)
(* of memfs_file_io.cpp that says which level of another handle a request  *)
(* tolerates.                                                              *)
(***************************************************************************)
EXTENDS Naturals

SQLITE_LOCK_NONE      == 0
SQLITE_LOCK_SHARED    == 1
SQLITE_LOCK_RESERVED  == 2
SQLITE_LOCK_PENDING   == 3
SQLITE_LOCK_EXCLUSIVE == 4

Levels == SQLITE_LOCK_NONE .. SQLITE_LOCK_EXCLUSIVE

(* Mutants of max_lock: a RESERVED request that tolerates another RESERVED, *)
(* and a SHARED request that tolerates a RESERVED.                         *)
max_lock_two_writers(nLock) ==
  CASE nLock = SQLITE_LOCK_EXCLUSIVE -> SQLITE_LOCK_NONE
    [] nLock = SQLITE_LOCK_RESERVED  -> SQLITE_LOCK_RESERVED
    [] OTHER                         -> SQLITE_LOCK_SHARED

max_lock_open_door(nLock) ==
  CASE nLock = SQLITE_LOCK_EXCLUSIVE -> SQLITE_LOCK_NONE
    [] nLock = SQLITE_LOCK_SHARED    -> SQLITE_LOCK_RESERVED
    [] OTHER                         -> SQLITE_LOCK_SHARED

(* The highest level another handle may hold for a request to be granted.  *)
max_lock(nLock) ==
  CASE nLock = SQLITE_LOCK_EXCLUSIVE -> SQLITE_LOCK_NONE
    [] nLock = SQLITE_LOCK_PENDING   -> SQLITE_LOCK_RESERVED
    [] nLock = SQLITE_LOCK_RESERVED  -> SQLITE_LOCK_SHARED
    [] nLock = SQLITE_LOCK_SHARED    -> SQLITE_LOCK_SHARED
    [] nLock = SQLITE_LOCK_NONE      -> SQLITE_LOCK_EXCLUSIVE
    [] OTHER                         -> SQLITE_LOCK_NONE

(* Two levels that no two handles on one file may hold together: a writer  *)
(* that owns the file beside anyone, or two writers.  Stated from what the *)
(* levels mean, not from max_lock.                                         *)
Conflict(a, b) ==
  \/ a = SQLITE_LOCK_EXCLUSIVE /\ b # SQLITE_LOCK_NONE
  \/ b = SQLITE_LOCK_EXCLUSIVE /\ a # SQLITE_LOCK_NONE
  \/ a >= SQLITE_LOCK_RESERVED /\ b >= SQLITE_LOCK_RESERVED

===============================================================================

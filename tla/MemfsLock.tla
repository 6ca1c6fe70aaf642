------------------------------- MODULE MemfsLock -------------------------------
(***************************************************************************)
(* memfs_io_Lock, memfs_io_Unlock and memfs_io_CheckReservedLock on one    *)
(* file (memfs_file_io.cpp).  The handles of the file are linked in pRefs; *)
(* handle i is the i-th item of that list.  xLock and xCheckReservedLock   *)
(* walk the list with no mutex held, so each item they look at is a step   *)
(* of its own, and a call on another handle may run between two of them.   *)
(*                                                                         *)
(* A handle belongs to one connection, which runs one call on it at a      *)
(* time.  The handles stay open throughout: what opening and closing do to *)
(* the list is the subject of MemfsVfs.                                    *)
(***************************************************************************)
EXTENDS LockLevels, FiniteSets

CONSTANTS
  N,                \* number of handles open on the file
  Threads,          \* number of threads that may be inside a call at once
  LockRequests,     \* levels passed to xLock
  UnlockRequests    \* levels passed to xUnlock

(* SQLite never asks for PENDING by name (a VFS passes through it on the   *)
(* way to EXCLUSIVE), nor do the callers in memfs.cpp.                     *)
ASSUME LockAssumption ==
  /\ N \in Nat \ {0}
  /\ Threads \in Nat \ {0}
  /\ LockRequests \subseteq
       {SQLITE_LOCK_SHARED, SQLITE_LOCK_RESERVED, SQLITE_LOCK_EXCLUSIVE}
  /\ UnlockRequests \subseteq {SQLITE_LOCK_NONE, SQLITE_LOCK_SHARED}

Handles == 1 .. N
pHead   == N + 1        \* the sentinel, where a walk of the list ends

VARIABLES
  nLock,      \* file_object.nLock of each handle
  op,         \* the call running on each handle
  want,       \* argument nLock of a running xLock
  ptr,        \* the list item a running call looks at next
  pResOut,    \* *pResOut of a running xCheckReservedLock
  raced,      \* history: pairs of handles whose xLock calls overlapped
              \*   since either of them last held no lock
  missed      \* history: for each handle, the handles that were inside
              \*   xLock at some time during its running xCheckReservedLock

callVars == <<op, want, ptr, pResOut>>
vars     == <<nLock, op, want, ptr, pResOut, raced, missed>>

Calls == {"idle", "Lock", "CheckReservedLock"}

Locking(h)  == op[h] = "Lock"
Checking(h) == op[h] = "CheckReservedLock"
InCall      == {h \in Handles : op[h] # "idle"}

(* A thread is free to make a call on h.                                   *)
Available(h) == op[h] = "idle" /\ Cardinality(InCall) < Threads

Enter(h, call) ==
  /\ Available(h)
  /\ op'  = [op EXCEPT ![h] = call]
  /\ ptr' = [ptr EXCEPT ![h] = 1]

(* The call is over and its locals with it.                                *)
Return(h) ==
  /\ op'      = [op EXCEPT ![h] = "idle"]
  /\ want'    = [want EXCEPT ![h] = SQLITE_LOCK_NONE]
  /\ ptr'     = [ptr EXCEPT ![h] = pHead]
  /\ pResOut' = [pResOut EXCEPT ![h] = 0]
  /\ missed'  = [missed EXCEPT ![h] = {}]

AdvanceTwo(h) ==               \* mutant: ptr moves on twice in one round
  ptr' = [ptr EXCEPT ![h] = @ + 2]

Advance(h) == ptr' = [ptr EXCEPT ![h] = @ + 1]

Init ==
  /\ nLock   = [h \in Handles |-> SQLITE_LOCK_NONE]
  /\ op      = [h \in Handles |-> "idle"]
  /\ want    = [h \in Handles |-> SQLITE_LOCK_NONE]
  /\ ptr     = [h \in Handles |-> pHead]
  /\ pResOut = [h \in Handles |-> 0]
  /\ raced   = {}
  /\ missed  = [h \in Handles |-> {}]
-------------------------------------------------------------------------------
(* memfs_io_Lock                                                           *)

(* The handle does not hold the level yet: the walk starts.  (A request at *)
(* or below the level held returns SQLITE_OK and changes nothing.)         *)
HeldAlready(h, level) == nLock[h] >= level

LockBegin(h, level) ==
  /\ ~HeldAlready(h, level)
  /\ Enter(h, "Lock")
  /\ want'   = [want EXCEPT ![h] = level]
  /\ raced'  = raced \cup {<<h, g>> : g \in {i \in Handles \ {h} : Locking(i)}}
                     \cup {<<g, h>> : g \in {i \in Handles \ {h} : Locking(i)}}
  /\ missed' = [c \in Handles |->
                  IF Checking(c) THEN missed[c] \cup {h} ELSE missed[c]]
  /\ UNCHANGED <<nLock, pResOut>>

Blocks(p, h) == p # h /\ nLock[p] > max_lock(want[h])

(* An item that conflicts: SQLITE_BUSY.                                    *)
LockBusy(h) ==
  /\ Locking(h) /\ ptr[h] # pHead
  /\ Blocks(ptr[h], h)
  /\ Return(h)
  /\ UNCHANGED <<nLock, raced>>

LockScan(h) ==
  /\ Locking(h) /\ ptr[h] # pHead
  /\ ~Blocks(ptr[h], h)
  /\ Advance(h)
  /\ UNCHANGED <<nLock, op, want, pResOut, raced, missed>>

(* The walk met no conflict: the level is stored.                          *)
LockGrant(h) ==
  /\ Locking(h) /\ ptr[h] = pHead
  /\ nLock' = [nLock EXCEPT ![h] = want[h]]
  /\ Return(h)
  /\ UNCHANGED raced

UnlockUnchecked(h, level) ==   \* mutant: the level held is not compared
  /\ Available(h)
  /\ nLock' = [nLock EXCEPT ![h] = level]
  /\ raced' = IF level = SQLITE_LOCK_NONE
              THEN {e \in raced : e[1] # h /\ e[2] # h}
              ELSE raced
  /\ UNCHANGED <<callVars, missed>>

(* memfs_io_Unlock: one store to the handle's own field.  (A level above   *)
(* the one held is SQLITE_ERROR and changes nothing.)                      *)
Unlock(h, level) ==
  /\ Available(h)
  /\ nLock[h] >= level
  /\ nLock' = [nLock EXCEPT ![h] = level]
  /\ raced' = IF level = SQLITE_LOCK_NONE
              THEN {e \in raced : e[1] # h /\ e[2] # h}
              ELSE raced
  /\ UNCHANGED <<callVars, missed>>
-------------------------------------------------------------------------------
(* memfs_io_CheckReservedLock                                              *)

CheckBegin(h) ==
  /\ Enter(h, "CheckReservedLock")
  /\ missed' = [missed EXCEPT ![h] = {g \in Handles : Locking(g)}]
  /\ UNCHANGED <<nLock, want, pResOut, raced>>

CheckScanPending(h) ==         \* mutant: RESERVED itself is not counted
  /\ Checking(h) /\ ptr[h] # pHead
  /\ pResOut' = IF nLock[ptr[h]] > SQLITE_LOCK_RESERVED
                THEN [pResOut EXCEPT ![h] = @ + 1]
                ELSE pResOut
  /\ Advance(h)
  /\ UNCHANGED <<nLock, op, want, raced, missed>>

CheckScan(h) ==
  /\ Checking(h) /\ ptr[h] # pHead
  /\ pResOut' = IF nLock[ptr[h]] >= SQLITE_LOCK_RESERVED
                THEN [pResOut EXCEPT ![h] = @ + 1]
                ELSE pResOut
  /\ Advance(h)
  /\ UNCHANGED <<nLock, op, want, raced, missed>>

CheckReturn(h) ==
  /\ Checking(h) /\ ptr[h] = pHead
  /\ Return(h)
  /\ UNCHANGED <<nLock, raced>>
-------------------------------------------------------------------------------
Next ==
  \E h \in Handles :
    \/ \E level \in LockRequests : LockBegin(h, level)
    \/ LockBusy(h) \/ LockScan(h) \/ LockGrant(h)
    \/ \E level \in UnlockRequests : Unlock(h, level)
    \/ CheckBegin(h) \/ CheckScan(h) \/ CheckReturn(h)

Spec == Init /\ [][Next]_vars
-------------------------------------------------------------------------------
(* Every variable keeps its type; in particular a walk never runs past the *)
(* sentinel (memfs_file_io.cpp, the for loops of xLock and                 *)
(* xCheckReservedLock).                                                    *)
TypeOK ==
  /\ nLock   \in [Handles -> Levels]
  /\ op      \in [Handles -> Calls]
  /\ want    \in [Handles -> LockRequests \cup {SQLITE_LOCK_NONE}]
  /\ ptr     \in [Handles -> 1 .. pHead]
  /\ pResOut \in [Handles -> Nat]
  /\ raced   \subseteq Handles \X Handles
  /\ missed  \in [Handles -> SUBSET Handles]

(* xLock's check excludes writers as far as a check without a mutex can:   *)
(* two handles hold conflicting levels only if their xLock calls           *)
(* overlapped.  No sequence of calls that do not overlap, of any length    *)
(* and with any upgrades, downgrades and refusals in it, gets there.       *)
ExclusionUnlessRaced ==
  \A g, h \in Handles :
    g # h /\ Conflict(nLock[g], nLock[h]) => <<g, h>> \in raced

(* A RESERVED lock closes the door: while a handle holds RESERVED or more, *)
(* no other handle's level rises, a first SHARED included, unless the two  *)
(* xLock calls overlapped.  This is what lets the readers drain and the    *)
(* writer reach EXCLUSIVE.                                                 *)
ReservedClosesDoor ==
  [][\A g, h \in Handles :
       g # h /\ nLock[h] >= SQLITE_LOCK_RESERVED /\ nLock'[g] > nLock[g]
         => <<g, h>> \in raced]_vars

(* xCheckReservedLock misses no writer that was there all along: when it   *)
(* is about to return 0 and a handle holds RESERVED or more, that handle   *)
(* was inside xLock while the check ran.  (A wrong 0 makes a connection    *)
(* roll back a live journal.)                                              *)
NoWriterMissed ==
  \A h, g \in Handles :
    /\ Checking(h) /\ ptr[h] = pHead /\ pResOut[h] = 0
    /\ nLock[g] >= SQLITE_LOCK_RESERVED
    => g \in missed[h]

(* The comment at the store of the level, "no conflict; execute"           *)
(* (memfs_file_io.cpp:150): when the walk has reached the sentinel, no     *)
(* other handle holds more than the request tolerates.                     *)
NoConflictExecute ==
  \A g, h \in Handles :
    g # h /\ Locking(h) /\ ptr[h] = pHead => nLock[g] <= max_lock(want[h])

(* The calls of any number of threads make the file's lock behave as the   *)
(* table, whose promise does not bind handles that raced.                  *)
Table     == INSTANCE LockTable
TableSpec == Table!Spec

===============================================================================

------------------------------- MODULE LockTable -------------------------------
(***************************************************************************)
(* What the lock of one file promises its handles: a request is granted in *)
(* one indivisible step, and only when no other handle holds more than the *)
(* request tolerates.  A refused request changes nothing.                  *)
(*                                                                         *)
(* The promise does not bind two handles whose requests overlap in time:   *)
(* raced has the pairs of them, from the overlap until one of the two      *)
(* gives its lock up altogether.  With one thread there are none, and the  *)
(* table is an ordinary one.  MemfsLock, which looks at the handles one at *)
(* a time, implements it.                                                  *)
(***************************************************************************)
EXTENDS LockLevels

CONSTANTS
  Handles,          \* the handles open on the file
  LockRequests,     \* the levels SQLite asks xLock for
  UnlockRequests    \* the levels SQLite asks xUnlock for

VARIABLES
  nLock,            \* the level each handle holds
  raced             \* the pairs of handles whose requests have overlapped

Init ==
  /\ nLock = [h \in Handles |-> SQLITE_LOCK_NONE]
  /\ raced = {}

Admits(h, level) ==
  \A g \in Handles \ {h} : nLock[g] <= max_lock(level) \/ <<g, h>> \in raced

Grant(h, level) ==
  /\ nLock[h] < level
  /\ Admits(h, level)
  /\ nLock' = [nLock EXCEPT ![h] = level]
  /\ UNCHANGED raced

Release(h, level) ==
  /\ level <= nLock[h]
  /\ nLock' = [nLock EXCEPT ![h] = level]
  /\ raced' = IF level = SQLITE_LOCK_NONE
              THEN {e \in raced : e[1] # h /\ e[2] # h}
              ELSE raced

Overlap(h, others) ==
  /\ raced' = raced \cup ({h} \X others) \cup (others \X {h})
  /\ UNCHANGED nLock

Next ==
  \E h \in Handles :
    \/ \E level \in LockRequests   : Grant(h, level)
    \/ \E level \in UnlockRequests : Release(h, level)
    \/ \E others \in SUBSET (Handles \ {h}) : Overlap(h, others)

Spec == Init /\ [][Next]_<<nLock, raced>>

===============================================================================

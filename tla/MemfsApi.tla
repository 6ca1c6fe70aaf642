-------------------------------- MODULE MemfsApi --------------------------------
(***************************************************************************)
(* memfs_readdata, memfs_writedata and memfs_setsize (memfs.cpp) on one    *)
(* file: programs that open a handle of their own, spin for the locks they *)
(* need, move data, give the locks up and close.  Several threads run      *)
(* them, beside SQLite's own transactions on the same file.                *)
(*                                                                         *)
(* MemfsLock has the handles of a file fixed.  Here they come and go: a    *)
(* handle is linked at the end of pRefs by xOpen and taken out and freed   *)
(* by xClose, while other threads walk that list in xLock.  A thread has   *)
(* one call at a time and a handle for it, so the thread stands for its    *)
(* handle.  What the bytes are is left to MemfsFile, how the file itself   *)
(* comes and goes to MemfsVfs: the file exists or is made by the open.     *)
(***************************************************************************)
EXTENDS LockLevels, SequencesExt

CONSTANTS
  Threads,
  Calls,      \* the calls each thread makes
  pHead,      \* the sentinel of the list of handles
  Freed       \* a pointer to a link that has been freed

Kinds == {"read", "write", "setsize", "transaction"}

ASSUME ApiAssumption ==
  /\ Calls \in [Threads -> SUBSET Kinds]
  /\ pHead # Freed /\ {pHead, Freed} \cap Threads = {}

VARIABLES
  pc,         \* where each thread is in its call
  kind,       \* which call it is
  want,       \* the level it asks xLock for, or asked for last
  ptr,        \* the link xLock looks at next
  nLock,      \* file_object.nLock of the thread's handle
  pRefs,      \* memfs_file_data.pRefs: the handles linked, in order
  status,     \* "running" or "undefined"
  raced       \* history: pairs of handles whose xLock calls overlapped since
              \*   either of them last held no lock

vars == <<pc, kind, want, ptr, nLock, pRefs, status, raced>>

Pcs == {"idle", "Open", "Ask", "Walk", "Transfer", "Downgrade", "Release",
        "Close"}

At(t, place)   == status = "running" /\ pc[t] = place
Goto(t, place) == pc' = [pc EXCEPT ![t] = place]

Init ==
  /\ pc     = [t \in Threads |-> "idle"]
  /\ kind   = [t \in Threads |-> "read"]
  /\ want   = [t \in Threads |-> SQLITE_LOCK_NONE]
  /\ ptr    = [t \in Threads |-> pHead]
  /\ nLock  = [t \in Threads |-> SQLITE_LOCK_NONE]
  /\ pRefs  = <<>>
  /\ status = "running"
  /\ raced  = {}

Undefined ==
  /\ status' = "undefined"
  /\ UNCHANGED <<pc, kind, want, ptr, nLock, pRefs, raced>>
-------------------------------------------------------------------------------
(* The calls' beginning                                                    *)

Begin(t, k) ==
  /\ At(t, "idle")
  /\ k \in Calls[t]
  /\ kind' = [kind EXCEPT ![t] = k]
  /\ Goto(t, "Open")
  /\ UNCHANGED <<want, ptr, nLock, pRefs, status, raced>>

(* xOpen links the new handle behind the others and all ask for SHARED     *)
(* first.                                                                  *)
Open(t) ==
  /\ At(t, "Open")
  /\ pRefs' = Append(pRefs, t)
  /\ want'  = [want EXCEPT ![t] = SQLITE_LOCK_SHARED]
  /\ Goto(t, "Ask")
  /\ UNCHANGED <<kind, ptr, nLock, status, raced>>

(* memfs_setsize and SQLite look at xOpen's result.                        *)
OpenFails(t) ==
  /\ At(t, "Open")
  /\ kind[t] \in {"setsize", "transaction"}
  /\ Goto(t, "idle")
  /\ UNCHANGED <<kind, want, ptr, nLock, pRefs, status, raced>>

(* memfs_readdata and memfs_writedata test a result that is always 0, and  *)
(* go on with a handle whose pMethods is NULL or whose file is freed.      *)
OpenIgnored(t) ==
  /\ At(t, "Open")
  /\ kind[t] \in {"read", "write"}
  /\ Undefined
-------------------------------------------------------------------------------
(* xLock, and the loops that repeat it while it is busy                    *)

(* mutant: a call that changes the file's size does not ask for more than  *)
(* a reader                                                                *)
AsksSizeShared(k) ==
  CASE k = "read" \/ k = "setsize" -> {SQLITE_LOCK_SHARED}
    [] k = "write" -> {SQLITE_LOCK_SHARED, SQLITE_LOCK_EXCLUSIVE}
    [] k = "transaction" -> {SQLITE_LOCK_SHARED, SQLITE_LOCK_RESERVED,
                             SQLITE_LOCK_EXCLUSIVE}

(* The levels a call asks for, in ascending order.                         *)
Asks(k) ==
  CASE k = "read" -> {SQLITE_LOCK_SHARED}
    [] k \in {"write", "setsize"} -> {SQLITE_LOCK_SHARED, SQLITE_LOCK_EXCLUSIVE}
    [] k = "transaction" -> {SQLITE_LOCK_SHARED, SQLITE_LOCK_RESERVED,
                             SQLITE_LOCK_EXCLUSIVE}

Above(t) == {l \in Asks(kind[t]) : l > want[t]}

Least(levels) == CHOOSE l \in levels : \A m \in levels : l <= m

Follower(p) ==
  LET i == SelectInSeq(pRefs, LAMBDA g : g = p)
  IN IF i = Len(pRefs) THEN pHead ELSE pRefs[i + 1]

Walkers(t) == {u \in Threads \ {t} : pc[u] = "Walk"}

LockBegin(t) ==
  /\ At(t, "Ask")
  /\ ptr'   = [ptr EXCEPT ![t] = pRefs[1]]
  /\ raced' = raced \cup ({t} \X Walkers(t)) \cup (Walkers(t) \X {t})
  /\ Goto(t, "Walk")
  /\ UNCHANGED <<kind, want, nLock, pRefs, status>>

BlocksSelf(p, t) ==            \* mutant: the handle's own link counts too
  nLock[p] > max_lock(want[t])

BlocksHigher(p, t) ==          \* mutant: compared with the request itself
  p # t /\ nLock[p] > want[t]

Blocks(p, t) == p # t /\ nLock[p] > max_lock(want[t])

(* A link was taken out and freed while the walk stood on it.              *)
LockFreed(t) == At(t, "Walk") /\ ptr[t] = Freed /\ Undefined

(* SQLITE_BUSY: the loop sleeps and asks again.                            *)
LockBusy(t) ==
  /\ At(t, "Walk") /\ ptr[t] \in Threads
  /\ Blocks(ptr[t], t)
  /\ ptr' = [ptr EXCEPT ![t] = pHead]
  /\ Goto(t, "Ask")
  /\ UNCHANGED <<kind, want, nLock, pRefs, status, raced>>

LockScan(t) ==
  /\ At(t, "Walk") /\ ptr[t] \in Threads
  /\ ~Blocks(ptr[t], t)
  /\ ptr' = [ptr EXCEPT ![t] = Follower(ptr[t])]
  /\ UNCHANGED <<pc, kind, want, nLock, pRefs, status, raced>>

LockGrant(t) ==
  /\ At(t, "Walk") /\ ptr[t] = pHead
  /\ nLock' = [nLock EXCEPT ![t] = want[t]]
  /\ IF Above(t) = {}
     THEN Goto(t, "Transfer") /\ UNCHANGED want
     ELSE Goto(t, "Ask") /\ want' = [want EXCEPT ![t] = Least(Above(t))]
  /\ UNCHANGED <<kind, ptr, pRefs, status, raced>>

(* SQLite's busy handler has a limit: the transaction is rolled back.      *)
GiveUp(t) ==
  /\ At(t, "Ask")
  /\ kind[t] = "transaction"
  /\ Goto(t, "Release")
  /\ UNCHANGED <<kind, want, ptr, nLock, pRefs, status, raced>>
-------------------------------------------------------------------------------
(* The transfer and the calls' end                                         *)

(* xRead, xWrite or xTruncate is over, whatever its result; memfs_readdata *)
(* computes what it returns from the size the file has now.                *)
TransferDone(t) ==
  /\ At(t, "Transfer")
  /\ Goto(t, IF kind[t] = "read" THEN "Release" ELSE "Downgrade")
  /\ UNCHANGED <<kind, want, ptr, nLock, pRefs, status, raced>>

Downgrade(t) ==
  /\ At(t, "Downgrade")
  /\ nLock' = [nLock EXCEPT ![t] = SQLITE_LOCK_SHARED]
  /\ Goto(t, "Release")
  /\ UNCHANGED <<kind, want, ptr, pRefs, status, raced>>

Release(t) ==
  /\ At(t, "Release")
  /\ nLock' = [nLock EXCEPT ![t] = SQLITE_LOCK_NONE]
  /\ raced' = {e \in raced : e[1] # t /\ e[2] # t}
  /\ Goto(t, "Close")
  /\ UNCHANGED <<kind, want, ptr, pRefs, status>>

(* mutant: xClose left out, the handle's memory stays in the list          *)
CloseUnlinked(t) ==
  /\ At(t, "Close")
  /\ Goto(t, "idle")
  /\ UNCHANGED <<kind, want, ptr, nLock, pRefs, status, raced>>

Close(t) ==
  /\ At(t, "Close")
  /\ pRefs' = RemoveFirst(pRefs, t)
  /\ ptr'   = [u \in Threads |-> IF ptr[u] = t THEN Freed ELSE ptr[u]]
  /\ want'  = [want EXCEPT ![t] = SQLITE_LOCK_NONE]
  /\ Goto(t, "idle")
  /\ UNCHANGED <<kind, nLock, status, raced>>
-------------------------------------------------------------------------------
(* What a thread inside a call does next.                                  *)
Step(t) ==
  \/ Open(t) \/ OpenFails(t) \/ OpenIgnored(t)
  \/ LockBegin(t) \/ LockFreed(t) \/ LockBusy(t) \/ LockScan(t) \/ LockGrant(t)
  \/ GiveUp(t)
  \/ TransferDone(t) \/ Downgrade(t) \/ Release(t) \/ Close(t)

Next == \E t \in Threads : Step(t) \/ \E k \in Kinds : Begin(t, k)

(* Every thread is scheduled again and again (the loops sleep, they do not *)
(* block), and a busy handler that is asked again and again gives up.      *)
Fairness == \A t \in Threads : WF_vars(Step(t)) /\ SF_vars(GiveUp(t))

Spec == Init /\ [][Next]_vars /\ Fairness
-------------------------------------------------------------------------------
(* Every variable keeps its type, and the handles in the list are those of *)
(* the calls that have opened and not closed theirs: no way out of a call  *)
(* leaves its handle behind (the early returns of memfs.cpp).              *)
TypeOK ==
  /\ pc     \in [Threads -> Pcs]
  /\ kind   \in [Threads -> Kinds]
  /\ want   \in [Threads -> Levels]
  /\ ptr    \in [Threads -> Threads \cup {pHead, Freed}]
  /\ nLock  \in [Threads -> Levels]
  /\ pRefs  \in Seq(Threads) /\ IsInjective(pRefs)
  /\ status \in {"running", "undefined"}
  /\ raced  \subseteq Threads \X Threads
  /\ ToSet(pRefs) = {t \in Threads : pc[t] \notin {"idle", "Open"}}

(* No data is moved while a writer moves data, unless the two asked for    *)
(* their locks at the same time: a reader gets no half-written bytes, and  *)
(* the size memfs_readdata computes its result from is the one xRead saw   *)
(* (memfs.cpp, the waits before each transfer and the unlocks after it).   *)
TransfersExclude ==
  \A t, u \in Threads :
    /\ t # u /\ pc[t] = "Transfer" /\ pc[u] = "Transfer"
    /\ kind[t] # "read"
    => <<t, u>> \in raced

(* With handles that come and go during the walks, the lock is the table   *)
(* MemfsLock implements for fixed ones.                                    *)
Table == INSTANCE LockTable WITH
           Handles        <- Threads,
           LockRequests   <- {SQLITE_LOCK_SHARED, SQLITE_LOCK_RESERVED,
                              SQLITE_LOCK_EXCLUSIVE},
           UnlockRequests <- {SQLITE_LOCK_NONE, SQLITE_LOCK_SHARED}

TableSpec == Table!Spec

(* Once no new calls are made, every call under way ends: the spinning of  *)
(* readers, of a writer and of SQLite's transactions is no deadlock.       *)
(* (While others keep calling, a spinning thread may find the lock taken   *)
(* each time it looks: memfs.cpp, the while loops around xLock.)           *)
NoNewCalls == <>[][\A t \in Threads : pc[t] = "idle" => pc'[t] = "idle"]_vars

CallsEnd ==
  NoNewCalls => <>[](status = "undefined" \/ \A t \in Threads : pc[t] = "idle")

===============================================================================

----------------------------- MODULE MemfsApiProofs -----------------------------
(***************************************************************************)
(* Proofs about MemfsApi for any number of threads and any calls of        *)
(* theirs.                                                                 *)
(*                                                                         *)
(* The argument is that of MemfsLockProofs: what a walk has established    *)
(* about the handles it has passed (ScanSound), and that walks under way   *)
(* together are recorded (BothWalk).  The handles are not fixed here, so   *)
(* "passed" is said of the order of the list: a handle that closes and     *)
(* opens again while the walk goes on is put in behind it, and one the     *)
(* walk stands on leaves it with a pointer nothing is claimed about.       *)
(* LevelsAt says what the handle of a call holds where the call is, which  *)
(* leads from the levels to the transfers.                                 *)
(***************************************************************************)
EXTENDS MemfsApi, MemfsLemmas

Listed == Range(pRefs)

WalkOnList ==
  \A t \in Threads : pc[t] = "Walk" => ptr[t] \in Listed \cup {pHead, Freed}

LevelAt(t) ==
  /\ pc[t] \in {"idle", "Open", "Close"} => nLock[t] = SQLITE_LOCK_NONE
  /\ pc[t] \in {"Ask", "Walk"} =>
       want[t] \in Asks(kind[t]) /\ nLock[t] < want[t]
  /\ pc[t] = "Transfer" =>
       nLock[t] = IF kind[t] = "read" THEN SQLITE_LOCK_SHARED
                                      ELSE SQLITE_LOCK_EXCLUSIVE
  /\ pc[t] = "Downgrade" => nLock[t] = SQLITE_LOCK_EXCLUSIVE

LevelsAt == \A t \in Threads : LevelAt(t)

RacedSymmetric ==
  \A t, u \in Threads : <<t, u>> \in raced => <<u, t>> \in raced

BothWalk ==
  \A t, u \in Threads :
    t # u /\ pc[t] = "Walk" /\ pc[u] = "Walk" => <<t, u>> \in raced

Passed(u, t) ==
  \/ ptr[t] = pHead
  \/ ptr[t] # Freed /\ Before(pRefs, u, ptr[t])

ScanSound ==
  \A t, u \in Threads :
    pc[t] = "Walk" /\ Passed(u, t) /\ Blocks(u, t) => <<t, u>> \in raced

Exclusion ==
  \A t, u \in Threads :
    t # u /\ Conflict(nLock[t], nLock[u]) => <<t, u>> \in raced

IInv ==
  /\ TypeOK
  /\ WalkOnList
  /\ LevelsAt
  /\ RacedSymmetric
  /\ BothWalk
  /\ ScanSound
  /\ Exclusion
-------------------------------------------------------------------------------
(* The levels the calls ask for                                            *)

Requests == {SQLITE_LOCK_SHARED, SQLITE_LOCK_RESERVED, SQLITE_LOCK_EXCLUSIVE}

LEMMA RequestsAreLevels == Requests \subseteq Levels /\ Levels \subseteq Nat
  BY DEF Requests, Levels, SQLITE_LOCK_NONE, SQLITE_LOCK_SHARED,
         SQLITE_LOCK_RESERVED, SQLITE_LOCK_EXCLUSIVE

LEMMA AsksAreRequests ==
  ASSUME NEW k \in Kinds
  PROVE  Asks(k) \subseteq Requests /\ SQLITE_LOCK_SHARED \in Asks(k)
  BY DEF Kinds, Asks, Requests

LEMMA LeastOfRequests ==
  ASSUME NEW A, A \subseteq Requests, A # {}
  PROVE  Least(A) \in A
  <1>1. \E l \in A : \A m \in A : l <= m
    <2>1. CASE 1 \in A
      BY <2>1 DEF Requests, SQLITE_LOCK_SHARED, SQLITE_LOCK_RESERVED,
         SQLITE_LOCK_EXCLUSIVE
    <2>2. CASE 1 \notin A /\ 2 \in A
      BY <2>2 DEF Requests, SQLITE_LOCK_SHARED, SQLITE_LOCK_RESERVED,
         SQLITE_LOCK_EXCLUSIVE
    <2>3. CASE A = {4}
      BY <2>3
    <2> QED BY <2>1, <2>2, <2>3 DEF Requests, SQLITE_LOCK_SHARED,
            SQLITE_LOCK_RESERVED, SQLITE_LOCK_EXCLUSIVE
  <1> QED BY <1>1 DEF Least

(* When nothing is left to ask for, a call that only reads has SHARED and  *)
(* the others have EXCLUSIVE.                                              *)
LEMMA LastAsked ==
  ASSUME NEW t \in Threads, kind[t] \in Kinds, want[t] \in Asks(kind[t]),
         Above(t) = {}
  PROVE  want[t] = IF kind[t] = "read" THEN SQLITE_LOCK_SHARED
                                       ELSE SQLITE_LOCK_EXCLUSIVE
  <1>1. \A l \in Asks(kind[t]) : ~(l > want[t])
    BY DEF Above
  <1>2. kind[t] # "read" => SQLITE_LOCK_EXCLUSIVE \in Asks(kind[t])
    BY DEF Kinds, Asks
  <1>3. want[t] \in Requests
    BY AsksAreRequests
  <1>4. kind[t] = "read" => Asks(kind[t]) = {SQLITE_LOCK_SHARED}
    BY DEF Asks
  <1> QED
    BY <1>1, <1>2, <1>3, <1>4 DEF Requests, SQLITE_LOCK_SHARED,
       SQLITE_LOCK_RESERVED, SQLITE_LOCK_EXCLUSIVE

(* The next one asked for is more than the last.                           *)
LEMMA NextAsked ==
  ASSUME NEW t \in Threads, kind[t] \in Kinds, Above(t) # {}
  PROVE  Least(Above(t)) \in Asks(kind[t]) /\ want[t] < Least(Above(t))
  <1>1. Above(t) \subseteq Requests
    BY AsksAreRequests DEF Above
  <1>2. Least(Above(t)) \in Above(t)
    BY <1>1, LeastOfRequests
  <1> QED BY <1>2 DEF Above

-------------------------------------------------------------------------------
(* The list, and what a handle that is not in it holds                     *)

LEMMA ListFacts ==
  ASSUME TypeOK
  PROVE  /\ pRefs \in Seq(Threads) /\ IsInjective(pRefs)
         /\ Listed = {t \in Threads : pc[t] \notin {"idle", "Open"}}
         /\ Listed \subseteq Threads
  BY DEF TypeOK, Listed, Range, ToSet

LEMMA FollowerFacts ==
  ASSUME TypeOK, NEW p \in Listed
  PROVE  /\ Follower(p) \in Listed \cup {pHead}
         /\ \A u \in Listed :
              Follower(p) = pHead \/ Before(pRefs, u, Follower(p))
                => u = p \/ Before(pRefs, u, p)
  <1> DEFINE I == {i \in 1 .. Len(pRefs) : pRefs[i] = p}
             i == IF I # {} THEN Min(I) ELSE 0
  <1>1. pRefs \in Seq(Threads) /\ IsInjective(pRefs)
    BY ListFacts
  <1>2. I # {}
    BY <1>1 DEF Listed, Range
  <1>3. i \in 1 .. Len(pRefs) /\ pRefs[i] = p
    <2>1. I \subseteq 1 .. Len(pRefs)
      OBVIOUS
    <2>2. i \in I
      BY <1>1, <1>2, <2>1, FirstFound
    <2> QED BY <2>2
  <1>4. Follower(p) = IF i = Len(pRefs) THEN pHead ELSE pRefs[i + 1]
    BY <1>2 DEF Follower, SelectInSeq
  <1> HIDE DEF i
  <1>5. CASE i = Len(pRefs)
    <2>1. \A u \in Listed : u = p \/ Before(pRefs, u, p)
      BY <1>1, <1>3, <1>5, NextOne DEF Listed
    <2> QED BY <1>4, <1>5, <2>1
  <1>6. CASE i # Len(pRefs)
    <2>1. Follower(p) = pRefs[i + 1] /\ pRefs[i + 1] \in Listed
      BY <1>1, <1>3, <1>4, <1>6, NextOne DEF Listed
    <2>2. Follower(p) # pHead
      BY <2>1, ListFacts, ApiAssumption DEF ApiAssumption
    <2>3. \A u \in Listed : Before(pRefs, u, pRefs[i + 1])
                              => u = p \/ Before(pRefs, u, p)
      BY <1>1, <1>3, <1>6, NextOne
    <2> QED BY <2>1, <2>2, <2>3
  <1> QED BY <1>5, <1>6

LEMMA UnlistedHoldsNone ==
  ASSUME TypeOK, LevelsAt, NEW t \in Threads, t \notin Listed
  PROVE  nLock[t] = SQLITE_LOCK_NONE
  BY ListFacts DEF LevelsAt, LevelAt

LEMMA NoneBlocksNobody ==
  ASSUME NEW u \in Threads, NEW t \in Threads, nLock[u] = SQLITE_LOCK_NONE
  PROVE  ~Blocks(u, t)
  BY MaxLockIsLevel DEF Blocks, Levels, SQLITE_LOCK_NONE, SQLITE_LOCK_EXCLUSIVE
-------------------------------------------------------------------------------
(* No action leaves the invariant                                          *)

(* What a step of t that leaves the levels, the list and the overlaps      *)
(* alone and does not start or go on with a walk has to see to.            *)
LEMMA QuietKeeps ==
  ASSUME IInv, NEW t \in Threads, TypeOK', LevelAt(t)', pc'[t] # "Walk",
         \A u \in Threads \ {t} : /\ pc'[u] = pc[u] /\ kind'[u] = kind[u]
                                  /\ want'[u] = want[u] /\ ptr'[u] = ptr[u],
         UNCHANGED <<nLock, pRefs, raced>>
  PROVE  IInv'
  <1>1. WalkOnList'
    BY DEF IInv, WalkOnList, Listed
  <1>2. LevelsAt'
    BY DEF IInv, LevelsAt, LevelAt
  <1>3. RacedSymmetric' /\ BothWalk' /\ Exclusion'
    BY DEF IInv, RacedSymmetric, BothWalk, Exclusion
  <1>4. ScanSound'
    BY DEF IInv, ScanSound, Passed, Blocks
  <1> QED BY <1>1, <1>2, <1>3, <1>4 DEF IInv

LEMMA BeginKeeps ==
  ASSUME IInv, NEW t \in Threads, NEW k \in Kinds, Begin(t, k)
  PROVE  IInv'
  <1>1. TypeOK'
    BY DEF IInv, TypeOK, Begin, Goto, At, Pcs
  <1>2. LevelAt(t)'
    BY DEF IInv, TypeOK, LevelsAt, LevelAt, Begin, Goto, At
  <1> QED BY <1>1, <1>2, QuietKeeps DEF IInv, TypeOK, Begin, Goto

LEMMA OpenFailsKeeps ==
  ASSUME IInv, NEW t \in Threads, OpenFails(t)
  PROVE  IInv'
  <1>1. TypeOK'
    BY DEF IInv, TypeOK, OpenFails, Goto, At, Pcs
  <1>2. LevelAt(t)'
    BY DEF IInv, TypeOK, LevelsAt, LevelAt, OpenFails, Goto, At
  <1> QED BY <1>1, <1>2, QuietKeeps DEF IInv, TypeOK, OpenFails, Goto

LEMMA GiveUpKeeps ==
  ASSUME IInv, NEW t \in Threads, GiveUp(t)
  PROVE  IInv'
  <1>1. TypeOK'
    BY DEF IInv, TypeOK, GiveUp, Goto, At, Pcs
  <1>2. LevelAt(t)'
    BY DEF IInv, TypeOK, LevelsAt, LevelAt, GiveUp, Goto, At
  <1> QED BY <1>1, <1>2, QuietKeeps DEF IInv, TypeOK, GiveUp, Goto

LEMMA TransferDoneKeeps ==
  ASSUME IInv, NEW t \in Threads, TransferDone(t)
  PROVE  IInv'
  <1>1. TypeOK'
    BY DEF IInv, TypeOK, TransferDone, Goto, At, Pcs
  <1>2. LevelAt(t)'
    BY DEF IInv, TypeOK, LevelsAt, LevelAt, TransferDone, Goto, At
  <1> QED BY <1>1, <1>2, QuietKeeps DEF IInv, TypeOK, TransferDone, Goto

LEMMA LockBusyKeeps ==
  ASSUME IInv, NEW t \in Threads, LockBusy(t)
  PROVE  IInv'
  <1>1. TypeOK'
    BY DEF IInv, TypeOK, LockBusy, Goto, At, Pcs
  <1>2. LevelAt(t)'
    BY DEF IInv, TypeOK, LevelsAt, LevelAt, LockBusy, Goto, At
  <1> QED BY <1>1, <1>2, QuietKeeps DEF IInv, TypeOK, LockBusy, Goto

LEMMA UndefinedKeeps ==
  ASSUME IInv, Undefined
  PROVE  IInv'
  BY DEF IInv, TypeOK, Undefined, WalkOnList, Listed, LevelsAt, LevelAt,
     RacedSymmetric, BothWalk, ScanSound, Passed, Blocks, Exclusion

(* The new handle is at the end of the list and holds nothing.             *)
LEMMA OpenKeeps ==
  ASSUME IInv, NEW t \in Threads, Open(t)
  PROVE  IInv'
  <1>1. /\ pc[t] = "Open" /\ pc'[t] = "Ask" /\ want'[t] = SQLITE_LOCK_SHARED
        /\ \A u \in Threads \ {t} : pc'[u] = pc[u] /\ want'[u] = want[u]
        /\ UNCHANGED <<kind, ptr, nLock, raced>>
        /\ pRefs' = Append(pRefs, t)
    BY DEF Open, At, Goto, IInv, TypeOK
  <1>2. t \notin Listed /\ nLock[t] = SQLITE_LOCK_NONE
    BY <1>1, ListFacts, UnlistedHoldsNone DEF IInv
  <1>3. pRefs' \in Seq(Threads) /\ IsInjective(pRefs') /\ Listed' = Listed \cup {t}
    BY <1>1, <1>2, ListFacts, RangeAppend DEF Listed, IInv
  <1>4. TypeOK'
    <2>1. ToSet(pRefs') = {u \in Threads : pc'[u] \notin {"idle", "Open"}}
      BY <1>1, <1>3, ListFacts DEF Listed, Range, ToSet, IInv
    <2> QED
      BY <1>3, <2>1, RequestsAreLevels
         DEF IInv, TypeOK, Open, Goto, Pcs, Requests
  <1>5. WalkOnList'
    BY <1>1, <1>3 DEF IInv, WalkOnList
  <1>6. LevelsAt'
    <2>1. LevelAt(t)'
      BY <1>1, <1>2, AsksAreRequests DEF LevelAt, IInv, TypeOK,
         SQLITE_LOCK_NONE, SQLITE_LOCK_SHARED
    <2> QED BY <1>1, <2>1 DEF IInv, LevelsAt, LevelAt
  <1>7. RacedSymmetric' /\ BothWalk' /\ Exclusion'
    BY <1>1 DEF IInv, RacedSymmetric, BothWalk, Exclusion
  <1>8. ScanSound'
    <2> SUFFICES ASSUME NEW v \in Threads, NEW u \in Threads,
                        pc'[v] = "Walk", Passed(u, v)', Blocks(u, v)'
                 PROVE  <<v, u>> \in raced
      BY <1>1 DEF ScanSound
    <2>1. v # t /\ pc[v] = "Walk" /\ Blocks(u, v)
      BY <1>1 DEF Blocks
    <2>2. Passed(u, v)
      <3>1. CASE ptr[v] = pHead  BY <3>1 DEF Passed
      <3>2. CASE ptr[v] # pHead
        <4>1. ptr[v] # Freed /\ Before(Append(pRefs, t), u, ptr[v])
          BY <1>1, <3>2 DEF Passed
        <4>2. ptr[v] # t
          BY <1>2, <2>1, <3>2, <4>1 DEF IInv, WalkOnList
        <4> QED BY <4>1, <4>2, ListFacts, BeforeAppend DEF Passed, IInv
      <3> QED BY <3>1, <3>2
    <2> QED BY <2>1, <2>2 DEF IInv, ScanSound
  <1> QED BY <1>4, <1>5, <1>6, <1>7, <1>8 DEF IInv

(* A walk that starts has passed nobody and overlaps with all the others.  *)
LEMMA LockBeginKeeps ==
  ASSUME IInv, NEW t \in Threads, LockBegin(t)
  PROVE  IInv'
  <1>1. /\ pc[t] = "Ask" /\ pc'[t] = "Walk" /\ ptr'[t] = pRefs[1]
        /\ \A u \in Threads \ {t} : pc'[u] = pc[u] /\ ptr'[u] = ptr[u]
        /\ UNCHANGED <<kind, want, nLock, pRefs>>
        /\ raced' = raced \cup ({t} \X Walkers(t)) \cup (Walkers(t) \X {t})
    BY DEF LockBegin, At, Goto, IInv, TypeOK
  <1>2. pRefs[1] \in Listed /\ \A u : ~Before(pRefs, u, pRefs[1])
    <2>1. t \in Listed
      BY <1>1, ListFacts DEF IInv
    <2>2. pRefs # << >>
      BY <2>1 DEF Listed, Range
    <2> QED BY <2>2, ListFacts, NothingBeforeFirst DEF Listed, IInv
  <1>3. Walkers(t) \subseteq Threads
    BY DEF Walkers
  <1>4. TypeOK'
    BY <1>1, <1>2, <1>3, ListFacts DEF IInv, TypeOK, LockBegin, Goto, Pcs
  <1>5. WalkOnList'
    BY <1>1, <1>2 DEF IInv, WalkOnList, Listed
  <1>6. LevelsAt'
    BY <1>1 DEF IInv, LevelsAt, LevelAt
  <1>7. RacedSymmetric'
    BY <1>1 DEF IInv, RacedSymmetric
  <1>8. BothWalk'
    BY <1>1 DEF IInv, BothWalk, Walkers
  <1>9. ScanSound'
    <2>1. pRefs[1] # pHead
      BY <1>2, ListFacts, ApiAssumption DEF ApiAssumption, IInv
    <2> QED BY <1>1, <1>2, <2>1 DEF IInv, ScanSound, Passed, Blocks
  <1>10. Exclusion'
    BY <1>1 DEF IInv, Exclusion
  <1> QED
    BY <1>4, <1>5, <1>6, <1>7, <1>8, <1>9, <1>10 DEF IInv

LEMMA LockScanKeeps ==
  ASSUME IInv, NEW t \in Threads, LockScan(t)
  PROVE  IInv'
  <1>1. /\ pc[t] = "Walk" /\ ptr[t] \in Threads /\ ~Blocks(ptr[t], t)
        /\ ptr'[t] = Follower(ptr[t])
        /\ \A u \in Threads \ {t} : ptr'[u] = ptr[u]
        /\ UNCHANGED <<pc, kind, want, nLock, pRefs, status, raced>>
    BY DEF LockScan, At, IInv, TypeOK
  <1>2. ptr[t] \in Listed /\ ptr[t] # Freed
    BY <1>1, ApiAssumption DEF IInv, WalkOnList, ApiAssumption
  <1>3. Follower(ptr[t]) \in Listed \cup {pHead}
    BY <1>2, FollowerFacts DEF IInv
  <1>4. TypeOK'
    BY <1>1, <1>3, ListFacts DEF IInv, TypeOK, LockScan
  <1>5. WalkOnList'
    BY <1>1, <1>3 DEF IInv, WalkOnList, Listed
  <1>6. ScanSound'
    <2>1. ASSUME NEW u \in Threads, Passed(u, t)', Blocks(u, t)
          PROVE  <<t, u>> \in raced
      <3>1. u \in Listed
        BY <2>1, UnlistedHoldsNone, NoneBlocksNobody DEF IInv
      <3>2. u = ptr[t] \/ Before(pRefs, u, ptr[t])
        BY <1>1, <1>2, <2>1, <3>1, FollowerFacts DEF Passed, IInv
      <3> QED BY <1>1, <1>2, <2>1, <3>2 DEF IInv, ScanSound, Passed
    <2> QED BY <1>1, <2>1 DEF IInv, ScanSound, Passed, Blocks
  <1> QED
    BY <1>1, <1>4, <1>5, <1>6 DEF IInv, LevelsAt, LevelAt, RacedSymmetric,
       BothWalk, Exclusion
(* A walk that has reached the sentinel asks for more than its handle has, *)
(* and for no more than the handles it did not overlap with tolerate.      *)
LEMMA GrantFacts ==
  ASSUME IInv, NEW t \in Threads, LockGrant(t)
  PROVE  /\ nLock[t] < want[t] /\ want[t] \in Requests
         /\ \A u \in Threads \ {t} :
              nLock[u] <= max_lock(want[t]) \/ <<t, u>> \in raced
  <1>1. pc[t] = "Walk" /\ ptr[t] = pHead
    BY DEF LockGrant, At
  <1>2. nLock[t] < want[t] /\ want[t] \in Requests
    BY <1>1, AsksAreRequests DEF IInv, TypeOK, LevelsAt, LevelAt
  <1>3. ASSUME NEW u \in Threads \ {t}, <<t, u>> \notin raced
        PROVE  nLock[u] <= max_lock(want[t])
    <2>1. ~(nLock[u] > max_lock(want[t]))
      BY <1>1, <1>3 DEF IInv, ScanSound, Passed, Blocks
    <2> QED BY <2>1, MaxLockIsLevel, LevelOrder DEF IInv, TypeOK
  <1> QED BY <1>2, <1>3

LEMMA LockGrantKeeps ==
  ASSUME IInv, NEW t \in Threads, LockGrant(t)
  PROVE  IInv'
  <1>1. /\ pc[t] = "Walk" /\ nLock'[t] = want[t]
        /\ pc'[t] \in {"Transfer", "Ask"}
        /\ \A u \in Threads \ {t} :
             /\ pc'[u] = pc[u] /\ want'[u] = want[u] /\ nLock'[u] = nLock[u]
        /\ UNCHANGED <<kind, ptr, pRefs, raced>>
    BY DEF LockGrant, At, Goto, IInv, TypeOK
  <1>2. kind[t] \in Kinds /\ want[t] \in Asks(kind[t])
    BY <1>1 DEF IInv, TypeOK, LevelsAt, LevelAt
  <1>3. Asks(kind[t]) \subseteq Levels
    BY <1>2, AsksAreRequests, RequestsAreLevels
  <1>4. TypeOK'
    <2>1. want' \in [Threads -> Levels]
      BY <1>2, <1>3, NextAsked DEF LockGrant, IInv, TypeOK
    <2>2. ToSet(pRefs') = {u \in Threads : pc'[u] \notin {"idle", "Open"}}
      BY <1>1 DEF IInv, TypeOK
    <2> QED BY <1>2, <1>3, <2>1, <2>2 DEF LockGrant, Goto, IInv, TypeOK, Pcs
  <1>5. WalkOnList'
    BY <1>1 DEF IInv, WalkOnList, Listed
  <1>6. LevelsAt'
    <2>1. CASE Above(t) = {}
      <3>1. pc'[t] = "Transfer"
        BY <2>1 DEF LockGrant, Goto, IInv, TypeOK
      <3>2. LevelAt(t)'
        BY <1>1, <1>2, <2>1, <3>1, LastAsked DEF LevelAt
      <3> QED BY <1>1, <3>2 DEF IInv, LevelsAt, LevelAt
    <2>2. CASE Above(t) # {}
      <3>1. pc'[t] = "Ask" /\ want'[t] = Least(Above(t))
        BY <2>2 DEF LockGrant, Goto, IInv, TypeOK
      <3>2. LevelAt(t)'
        BY <1>1, <1>2, <2>2, <3>1, NextAsked DEF LevelAt
      <3> QED BY <1>1, <3>2 DEF IInv, LevelsAt, LevelAt
    <2> QED BY <2>1, <2>2
  <1>7. RacedSymmetric' /\ BothWalk'
    BY <1>1 DEF IInv, RacedSymmetric, BothWalk
  <1>8. ScanSound'
    <2> SUFFICES ASSUME NEW v \in Threads, NEW u \in Threads,
                        pc'[v] = "Walk", Passed(u, v)', Blocks(u, v)'
                 PROVE  <<v, u>> \in raced
      BY <1>1 DEF ScanSound
    <2>1. v # t /\ pc[v] = "Walk" /\ Passed(u, v) /\ u # v
      BY <1>1 DEF Passed, Blocks
    <2>2. CASE u = t
      BY <1>1, <2>1, <2>2 DEF IInv, BothWalk
    <2>3. CASE u # t
      BY <1>1, <2>1, <2>3 DEF IInv, ScanSound, Blocks
    <2> QED BY <2>2, <2>3
  <1>9. Exclusion'
    <2>1. ASSUME NEW u \in Threads \ {t},
                 Conflict(want[t], nLock[u]) \/ Conflict(nLock[u], want[t])
          PROVE  <<t, u>> \in raced /\ <<u, t>> \in raced
      <3>1. ~(nLock[u] <= max_lock(want[t]))
        BY <2>1, GrantFacts, ToleratedIsNoConflict DEF IInv, TypeOK, Requests
      <3>2. <<t, u>> \in raced
        BY <3>1, GrantFacts
      <3> QED BY <3>2 DEF IInv, RacedSymmetric
    <2> QED BY <1>1, <2>1 DEF IInv, Exclusion
  <1> QED BY <1>4, <1>5, <1>6, <1>7, <1>8, <1>9 DEF IInv

(* What a step of t that lowers its level has to see to: the overlaps of t *)
(* may be forgotten when it holds nothing any more.                        *)
LEMMA LoweringKeeps ==
  ASSUME IInv, NEW t \in Threads, TypeOK', LevelAt(t)', nLock'[t] <= nLock[t],
         pc[t] # "Walk", pc'[t] # "Walk",
         \A u \in Threads \ {t} : pc'[u] = pc[u] /\ nLock'[u] = nLock[u],
         UNCHANGED <<kind, want, ptr, pRefs>>, raced' \subseteq raced,
         RacedSymmetric',
         \A u, v \in Threads : <<u, v>> \in raced =>
           \/ <<u, v>> \in raced'
           \/ nLock'[t] = SQLITE_LOCK_NONE /\ t \in {u, v}
  PROVE  IInv'
  <1>1. WalkOnList' /\ LevelsAt'
    BY DEF IInv, WalkOnList, Listed, LevelsAt, LevelAt
  <1>2. BothWalk'
    BY DEF IInv, BothWalk
  <1>3. \A u \in Threads : /\ nLock[u] \in Levels /\ nLock'[u] \in Levels
                           /\ nLock'[u] <= nLock[u]
    BY LevelOrder DEF IInv, TypeOK
  <1>4. ScanSound'
    <2> SUFFICES ASSUME NEW v \in Threads, NEW u \in Threads,
                        pc'[v] = "Walk", Passed(u, v)', Blocks(u, v)'
                 PROVE  <<v, u>> \in raced'
      BY DEF ScanSound
    <2>1. v # t /\ pc[v] = "Walk" /\ Passed(u, v)
      BY DEF Passed
    <2>2. Blocks(u, v)
      BY <1>3, MaxLockIsLevel, LevelOrder DEF Blocks
    <2>3. ~(nLock'[t] = SQLITE_LOCK_NONE /\ u = t)
      BY MaxLockIsLevel DEF Blocks, Levels, SQLITE_LOCK_NONE, SQLITE_LOCK_EXCLUSIVE
    <2> QED BY <2>1, <2>2, <2>3 DEF IInv, ScanSound
  <1>5. Exclusion'
    <2> SUFFICES ASSUME NEW u \in Threads, NEW v \in Threads, u # v,
                        Conflict(nLock'[u], nLock'[v])
                 PROVE  <<u, v>> \in raced'
      BY DEF Exclusion
    <2>1. Conflict(nLock[u], nLock'[v])
      BY <1>3, LoweringKeepsPeace
    <2>2. Conflict(nLock[u], nLock[v])
      BY <1>3, <2>1, LoweringKeepsPeace
    <2>3. nLock'[u] # SQLITE_LOCK_NONE /\ nLock'[v] # SQLITE_LOCK_NONE
      BY <1>3, NoneConflictsWithNone
    <2> QED BY <2>2, <2>3 DEF IInv, Exclusion
  <1> QED BY <1>1, <1>2, <1>4, <1>5 DEF IInv

LEMMA DowngradeKeeps ==
  ASSUME IInv, NEW t \in Threads, Downgrade(t)
  PROVE  IInv' /\ SQLITE_LOCK_SHARED <= nLock[t]
  <1>1. /\ pc[t] = "Downgrade" /\ pc'[t] = "Release"
        /\ nLock'[t] = SQLITE_LOCK_SHARED
        /\ \A u \in Threads \ {t} : pc'[u] = pc[u] /\ nLock'[u] = nLock[u]
        /\ UNCHANGED <<kind, want, ptr, pRefs, raced>>
    BY DEF Downgrade, At, Goto, IInv, TypeOK
  <1>2. SQLITE_LOCK_SHARED <= nLock[t]
    BY <1>1 DEF IInv, LevelsAt, LevelAt, SQLITE_LOCK_SHARED,
       SQLITE_LOCK_EXCLUSIVE
  <1>3. TypeOK'
    <2>1. ToSet(pRefs') = {u \in Threads : pc'[u] \notin {"idle", "Open"}}
      BY <1>1 DEF IInv, TypeOK
    <2> QED BY <2>1, RequestsAreLevels
            DEF Downgrade, Goto, IInv, TypeOK, Pcs, Requests
  <1>4. LevelAt(t)'
    BY <1>1 DEF LevelAt
  <1> QED
    BY <1>1, <1>2, <1>3, <1>4, LoweringKeeps DEF IInv, RacedSymmetric

LEMMA ReleaseKeeps ==
  ASSUME IInv, NEW t \in Threads, Release(t)
  PROVE  IInv' /\ SQLITE_LOCK_NONE <= nLock[t]
  <1>1. /\ pc[t] = "Release" /\ pc'[t] = "Close"
        /\ nLock'[t] = SQLITE_LOCK_NONE
        /\ \A u \in Threads \ {t} : pc'[u] = pc[u] /\ nLock'[u] = nLock[u]
        /\ UNCHANGED <<kind, want, ptr, pRefs>>
        /\ raced' = {e \in raced : e[1] # t /\ e[2] # t}
    BY DEF Release, At, Goto, IInv, TypeOK
  <1>2. SQLITE_LOCK_NONE <= nLock[t]
    BY DEF IInv, TypeOK, Levels, SQLITE_LOCK_NONE, SQLITE_LOCK_EXCLUSIVE
  <1>3. TypeOK'
    <2>1. ToSet(pRefs') = {u \in Threads : pc'[u] \notin {"idle", "Open"}}
      BY <1>1 DEF IInv, TypeOK
    <2> QED BY <1>1, <2>1, LevelsAreNat DEF Release, Goto, IInv, TypeOK, Pcs
  <1>4. LevelAt(t)'
    BY <1>1 DEF LevelAt
  <1>5. RacedSymmetric'
    BY <1>1 DEF IInv, RacedSymmetric
  <1> QED BY <1>1, <1>2, <1>3, <1>4, <1>5, LoweringKeeps

(* The handle leaves the list; a walk that stood on its link has lost its  *)
(* place, the others have passed what they had passed.                     *)
LEMMA CloseKeeps ==
  ASSUME IInv, NEW t \in Threads, Close(t)
  PROVE  IInv'
  <1>1. /\ pc[t] = "Close" /\ pc'[t] = "idle"
        /\ pRefs' = RemoveFirst(pRefs, t)
        /\ ptr' = [u \in Threads |-> IF ptr[u] = t THEN Freed ELSE ptr[u]]
        /\ \A u \in Threads \ {t} : pc'[u] = pc[u] /\ want'[u] = want[u]
        /\ UNCHANGED <<kind, nLock, raced>>
    BY DEF Close, At, Goto, IInv, TypeOK
  <1>2. pRefs' \in Seq(Threads) /\ IsInjective(pRefs') /\ Listed' = Listed \ {t}
    BY <1>1, ListFacts, RangeRemove DEF Listed, IInv
  <1>3. TypeOK'
    <2>1. ToSet(pRefs') = {u \in Threads : pc'[u] \notin {"idle", "Open"}}
      BY <1>1, <1>2, ListFacts DEF Listed, Range, ToSet, IInv
    <2>2. ptr' \in [Threads -> Threads \cup {pHead, Freed}]
      BY <1>1 DEF IInv, TypeOK
    <2> QED
      BY <1>2, <2>1, <2>2, LevelsAreNat DEF IInv, TypeOK, Close, Goto, Pcs
  <1>4. WalkOnList'
    BY <1>1, <1>2 DEF IInv, WalkOnList
  <1>5. LevelsAt'
    BY <1>1 DEF IInv, LevelsAt, LevelAt
  <1>6. RacedSymmetric' /\ BothWalk' /\ Exclusion'
    BY <1>1 DEF IInv, RacedSymmetric, BothWalk, Exclusion
  <1>7. ScanSound'
    <2> SUFFICES ASSUME NEW v \in Threads, NEW u \in Threads,
                        pc'[v] = "Walk", Passed(u, v)', Blocks(u, v)'
                 PROVE  <<v, u>> \in raced
      BY <1>1 DEF ScanSound
    <2>1. v # t /\ pc[v] = "Walk" /\ Blocks(u, v)
      BY <1>1 DEF Blocks
    <2>2. ptr'[v] = IF ptr[v] = t THEN Freed ELSE ptr[v]
      BY <1>1
    <2>3. Passed(u, v)
      BY <1>1, <2>2, ListFacts, BeforeRemove, ApiAssumption
         DEF Passed, IInv, ApiAssumption
    <2> QED BY <2>1, <2>3 DEF IInv, ScanSound
  <1> QED BY <1>3, <1>4, <1>5, <1>6, <1>7 DEF IInv

LEMMA InitIInv == Init => IInv
<1> SUFFICES ASSUME Init  PROVE IInv
  OBVIOUS
<1>1. pRefs \in Seq(Threads) /\ IsInjective(pRefs) /\ ToSet(pRefs) = {}
  BY DEF Init, IsInjective, ToSet
<1>2. TypeOK
  BY <1>1, LevelsAreNat DEF Init, TypeOK, Pcs, Kinds
<1>3. Exclusion
  BY LevelsAreNat, NoneConflictsWithNone DEF Init, Exclusion
<1> QED
  BY <1>2, <1>3 DEF Init, IInv, WalkOnList, LevelsAt, LevelAt, RacedSymmetric,
     BothWalk, ScanSound

LEMMA NextIInv == IInv /\ [Next]_vars => IInv'
<1> SUFFICES ASSUME IInv, [Next]_vars  PROVE IInv'
  OBVIOUS
<1>1. ASSUME NEW t \in Threads, Step(t)  PROVE IInv'
  BY <1>1, OpenKeeps, OpenFailsKeeps, UndefinedKeeps, LockBeginKeeps,
     LockBusyKeeps, LockScanKeeps, LockGrantKeeps, GiveUpKeeps,
     TransferDoneKeeps, DowngradeKeeps, ReleaseKeeps, CloseKeeps
     DEF Step, OpenIgnored, LockFreed
<1>2. CASE UNCHANGED vars
  BY <1>2 DEF vars, IInv, TypeOK, WalkOnList, Listed, LevelsAt, LevelAt,
     RacedSymmetric, BothWalk, ScanSound, Passed, Blocks, Exclusion
<1> QED BY <1>1, <1>2, BeginKeeps DEF Next

LEMMA SpecIInv == Spec => []IInv
  BY InitIInv, NextIInv, PTL DEF Spec
-------------------------------------------------------------------------------
(* What the invariant is for                                               *)

(* Every variable keeps its type, and the list has exactly the handles of  *)
(* the calls that have opened and not closed theirs, whatever way each     *)
(* call took out of memfs_readdata, memfs_writedata and memfs_setsize.     *)
THEOREM TypeTheorem == Spec => []TypeOK
<1>1. IInv => TypeOK
  BY DEF IInv
<1> QED BY <1>1, SpecIInv, PTL

(* No data is moved while a writer moves data, for any number of threads,  *)
(* except between two that asked for their locks at the same time.         *)
THEOREM TransfersExcludeTheorem == Spec => []TransfersExclude
<1>1. IInv => TransfersExclude
  <2> SUFFICES ASSUME IInv, NEW t \in Threads, NEW u \in Threads, t # u,
                      pc[t] = "Transfer", pc[u] = "Transfer", kind[t] # "read"
               PROVE  <<t, u>> \in raced
    BY DEF TransfersExclude
  <2>1. nLock[t] = SQLITE_LOCK_EXCLUSIVE /\ nLock[u] # SQLITE_LOCK_NONE
    BY DEF IInv, LevelsAt, LevelAt, SQLITE_LOCK_NONE, SQLITE_LOCK_SHARED,
       SQLITE_LOCK_EXCLUSIVE
  <2> QED BY <2>1 DEF IInv, Exclusion, Conflict
<1> QED BY <1>1, SpecIInv, PTL

(* The table has the levels of LockLevels under names of its own.          *)
LEMMA SameLevels ==
  /\ Table!SQLITE_LOCK_NONE = SQLITE_LOCK_NONE
  /\ \A level : Table!max_lock(level) = max_lock(level)
  BY DEF max_lock, SQLITE_LOCK_NONE, SQLITE_LOCK_SHARED, SQLITE_LOCK_RESERVED,
     SQLITE_LOCK_PENDING, SQLITE_LOCK_EXCLUSIVE, Table!max_lock,
     Table!SQLITE_LOCK_NONE, Table!SQLITE_LOCK_SHARED,
     Table!SQLITE_LOCK_RESERVED, Table!SQLITE_LOCK_PENDING,
     Table!SQLITE_LOCK_EXCLUSIVE

(* With handles that come and go while others walk their list, the lock    *)
(* still is the table's: a walk that reaches the sentinel is a grant the   *)
(* table admits, one that starts at most an overlap, the unlocks of a call *)
(* are releases, and no open, close or broken walk is anything to it.      *)
THEOREM TableTheorem == Spec => TableSpec
<1>1. Init => Table!Init
  BY SameLevels DEF Init, Table!Init
<1>2. IInv /\ [Next]_vars => [Table!Next]_<<nLock, raced>>
  <2> SUFFICES ASSUME IInv, [Next]_vars
               PROVE  [Table!Next]_<<nLock, raced>>
    OBVIOUS
  <2>1. ASSUME NEW t \in Threads, LockBegin(t)
        PROVE  Table!Next
    <3>1. Walkers(t) \in SUBSET (Threads \ {t})
      BY DEF Walkers
    <3>2. Table!Overlap(t, Walkers(t))
      BY <2>1 DEF LockBegin, Table!Overlap
    <3> QED BY <3>1, <3>2 DEF Table!Next
  <2>2. ASSUME NEW t \in Threads, LockGrant(t)
        PROVE  Table!Next
    <3>1. Table!Admits(t, want[t])
      BY <2>2, GrantFacts, SameLevels DEF Table!Admits, IInv, RacedSymmetric
    <3>2. Table!Grant(t, want[t])
      BY <2>2, <3>1, GrantFacts DEF LockGrant, Table!Grant
    <3> QED BY <2>2, <3>2, GrantFacts DEF Table!Next, Requests
  <2>3. ASSUME NEW t \in Threads, Downgrade(t)
        PROVE  Table!Next
    <3>1. SQLITE_LOCK_SHARED <= nLock[t]
      BY <2>3, DowngradeKeeps
    <3>2. SQLITE_LOCK_SHARED # Table!SQLITE_LOCK_NONE
      BY SameLevels DEF SQLITE_LOCK_NONE, SQLITE_LOCK_SHARED
    <3>3. Table!Release(t, SQLITE_LOCK_SHARED)
      BY <2>3, <3>1, <3>2 DEF Downgrade, Table!Release
    <3> QED BY <3>3 DEF Table!Next
  <2>4. ASSUME NEW t \in Threads, Release(t)
        PROVE  Table!Next
    <3>1. Table!Release(t, SQLITE_LOCK_NONE)
      BY <2>4, ReleaseKeeps, SameLevels DEF Release, Table!Release
    <3> QED BY <3>1 DEF Table!Next
  <2>5. ASSUME NEW t \in Threads,
               \/ \E k \in Kinds : Begin(t, k)
               \/ Open(t) \/ OpenFails(t) \/ OpenIgnored(t)
               \/ LockFreed(t) \/ LockBusy(t) \/ LockScan(t) \/ GiveUp(t)
               \/ TransferDone(t) \/ Close(t)
        PROVE  UNCHANGED <<nLock, raced>>
    BY <2>5 DEF Begin, Open, OpenFails, OpenIgnored, LockFreed, Undefined,
       LockBusy, LockScan, GiveUp, TransferDone, Close
  <2>6. CASE UNCHANGED vars
    BY <2>6 DEF vars
  <2> QED BY <2>1, <2>2, <2>3, <2>4, <2>5, <2>6 DEF Next, Step
<1> QED
  BY <1>1, <1>2, SpecIInv, PTL DEF Spec, TableSpec, Table!Spec

===============================================================================

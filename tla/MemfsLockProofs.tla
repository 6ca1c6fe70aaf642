---------------------------- MODULE MemfsLockProofs ----------------------------
(***************************************************************************)
(* Proofs about MemfsLock for every number of handles and of threads.      *)
(*                                                                         *)
(* ExclusionUnlessRaced speaks of levels that are held; the walk that led  *)
(* to a grant is over by then.  The inductive invariant therefore keeps,   *)
(* for every walk that is under way, what it has established about the     *)
(* items behind it (ScanSound, CheckSound), and that two calls under way   *)
(* at once are recorded as overlapping (BothLocking, CheckOverlap).        *)
(***************************************************************************)
EXTENDS MemfsLock, MemfsLemmas

RacedSymmetric ==
  \A g, h \in Handles : <<g, h>> \in raced => <<h, g>> \in raced

BothLocking ==
  \A g, h \in Handles :
    g # h /\ Locking(g) /\ Locking(h) => <<g, h>> \in raced

CheckOverlap ==
  \A g, h \in Handles : Checking(h) /\ Locking(g) => g \in missed[h]

(* Every item the walk has passed tolerates the request, or belongs to a   *)
(* handle whose own xLock overlapped with this one.                        *)
ScanSound ==
  \A g, h \in Handles :
    Locking(h) /\ g < ptr[h] /\ Blocks(g, h) => <<g, h>> \in raced

CheckSound ==
  \A g, h \in Handles :
    /\ Checking(h) /\ g < ptr[h] /\ pResOut[h] = 0
    /\ nLock[g] >= SQLITE_LOCK_RESERVED
    => g \in missed[h]

(* A running xLock asks for a level of LockRequests.                       *)
WantRequested == \A h \in Handles : Locking(h) => want[h] \in LockRequests

IInv ==
  /\ TypeOK
  /\ WantRequested
  /\ RacedSymmetric
  /\ BothLocking
  /\ CheckOverlap
  /\ ScanSound
  /\ CheckSound
  /\ ExclusionUnlessRaced

LEMMA RequestsAreLevels ==
  /\ LockRequests \subseteq Levels
  /\ UnlockRequests \subseteq Levels
  BY LockAssumption DEF LockAssumption, Levels, SQLITE_LOCK_NONE, SQLITE_LOCK_SHARED,
     SQLITE_LOCK_RESERVED, SQLITE_LOCK_EXCLUSIVE
-------------------------------------------------------------------------------
(* No action of MemfsLock leaves the types.                                *)
LEMMA TypeStep == TypeOK /\ [Next]_vars => TypeOK'
<1> USE LockAssumption, RequestsAreLevels, LevelsAreNat
    DEF LockAssumption, Handles, pHead, TypeOK, Calls
<1> SUFFICES ASSUME TypeOK, [Next]_vars
             PROVE  TypeOK'
  OBVIOUS
<1>0. UNCHANGED vars => TypeOK'
  BY DEF vars
<1>1. ASSUME NEW h \in Handles, NEW level \in LockRequests,
             LockBegin(h, level)
      PROVE  TypeOK'
  <2>1. raced' \subseteq Handles \X Handles
    BY <1>1 DEF LockBegin
  <2>2. missed' \in [Handles -> SUBSET Handles]
    BY <1>1 DEF LockBegin
  <2> QED
    BY <1>1, <2>1, <2>2 DEF LockBegin, Enter
<1>2. ASSUME NEW h \in Handles, LockBusy(h)
      PROVE  TypeOK'
  BY <1>2 DEF LockBusy, Return
<1>3. ASSUME NEW h \in Handles, LockScan(h)
      PROVE  TypeOK'
  <2>0. ptr[h] \in 1 .. N + 1 /\ ptr[h] # N + 1 /\ N \in Nat
    BY <1>3 DEF LockScan
  <2>1. ptr[h] + 1 \in 1 .. N + 1
    BY ONLY <2>0, SMT
  <2>2. ptr' \in [Handles -> 1 .. N + 1]
    BY <1>3, <2>1 DEF LockScan, Advance
  <2> QED
    BY <1>3, <2>2 DEF LockScan
<1>4. ASSUME NEW h \in Handles, LockGrant(h)
      PROVE  TypeOK'
  BY <1>4 DEF LockGrant, Return
<1>5. ASSUME NEW h \in Handles, NEW level \in UnlockRequests,
             Unlock(h, level)
      PROVE  TypeOK'
  BY <1>5 DEF Unlock, callVars
<1>6. ASSUME NEW h \in Handles, CheckBegin(h)
      PROVE  TypeOK'
  BY <1>6 DEF CheckBegin, Enter
<1>7. ASSUME NEW h \in Handles, CheckScan(h)
      PROVE  TypeOK'
  <2>0. ptr[h] \in 1 .. N + 1 /\ ptr[h] # N + 1 /\ N \in Nat
    BY <1>7 DEF CheckScan
  <2>1. ptr[h] + 1 \in 1 .. N + 1
    BY ONLY <2>0, SMT
  <2>2. ptr' \in [Handles -> 1 .. N + 1]
    BY <1>7, <2>1 DEF CheckScan, Advance
  <2>3. pResOut' \in [Handles -> Nat]
    BY <1>7 DEF CheckScan
  <2> QED
    BY <1>7, <2>2, <2>3 DEF CheckScan
<1>8. ASSUME NEW h \in Handles, CheckReturn(h)
      PROVE  TypeOK'
  BY <1>8 DEF CheckReturn, Return
<1> QED
  BY <1>0, <1>1, <1>2, <1>3, <1>4, <1>5, <1>6, <1>7, <1>8 DEF Next

(* Type correctness of MemfsLock: TypeOK is an invariant by itself.        *)
THEOREM TypeCorrect == Spec => []TypeOK
<1>1. Init => TypeOK
  BY LockAssumption, LevelsAreNat
     DEF LockAssumption, Init, TypeOK, Handles, pHead, Calls
<1> QED
  BY <1>1, TypeStep, PTL DEF Spec
-------------------------------------------------------------------------------
LEMMA HandlesAreItems ==
  /\ \A h \in Handles : h \in Nat /\ h < pHead /\ ~(h < 1)
  /\ pHead \in Nat
  BY LockAssumption DEF LockAssumption, Handles, pHead

(* The positions of a walk that has moved on by one item.                  *)
LEMMA PassedItem ==
  ASSUME NEW i \in Nat, NEW g \in Nat, g < i + 1
  PROVE  g < i \/ g = i
  OBVIOUS

LEMMA InitIInv == Init => IInv
<1> SUFFICES ASSUME Init PROVE IInv
  OBVIOUS
<1>1. TypeOK
  BY LockAssumption, LevelsAreNat
     DEF LockAssumption, Init, TypeOK, Handles, pHead, Calls
<1>2. \A h \in Handles : ~Locking(h) /\ ~Checking(h)
  BY DEF Init, Locking, Checking
<1>3. ExclusionUnlessRaced
  BY NoneConflictsWithNone, LevelsAreNat DEF Init, ExclusionUnlessRaced
<1> QED
  BY <1>1, <1>2, <1>3 DEF IInv, WantRequested, RacedSymmetric, BothLocking,
     CheckOverlap, ScanSound, CheckSound, Init

(* The inductive step, one case per action and in it one step per conjunct *)
(* the action can disturb.                                                 *)
LEMMA StepIInv == IInv /\ [Next]_vars => IInv'
<1> SUFFICES ASSUME IInv, [Next]_vars
             PROVE  IInv'
  OBVIOUS
<1> USE HandlesAreItems
<1>t. TypeOK /\ TypeOK'
  BY TypeStep DEF IInv
<1>s. UNCHANGED vars => IInv'
  BY DEF vars, IInv, TypeOK, WantRequested, RacedSymmetric, BothLocking,
     CheckOverlap, ScanSound, CheckSound, ExclusionUnlessRaced, Locking,
     Checking, Blocks
<1>1. ASSUME NEW h \in Handles, NEW level \in LockRequests,
             LockBegin(h, level)
      PROVE  IInv'
  <2>1. /\ op' = [op EXCEPT ![h] = "Lock"]
        /\ ptr' = [ptr EXCEPT ![h] = 1]
        /\ want' = [want EXCEPT ![h] = level]
        /\ UNCHANGED <<nLock, pResOut>>
        /\ op[h] = "idle"
    BY <1>1 DEF LockBegin, Enter, Available
  <2>2. \A e \in raced : e \in raced'
    BY <1>1 DEF LockBegin
  <2>3. \A g \in Handles : g # h /\ Locking(g)
                             => <<g, h>> \in raced' /\ <<h, g>> \in raced'
    BY <1>1 DEF LockBegin
  <2>4. \A c \in Handles : missed[c] \subseteq missed'[c]
    BY <1>1, <1>t DEF LockBegin, TypeOK
  <2>5. \A c \in Handles : Checking(c) => h \in missed'[c]
    BY <1>1, <1>t DEF LockBegin, TypeOK
  <2>6. /\ Locking(h)' /\ ~Checking(h)' /\ ~Checking(h) /\ ~Locking(h)
        /\ \A g \in Handles : g # h => /\ Locking(g)' <=> Locking(g)
                                       /\ Checking(g)' <=> Checking(g)
                                       /\ ptr'[g] = ptr[g]
                                       /\ want'[g] = want[g]
    BY <1>t, <2>1 DEF TypeOK, Locking, Checking
  <2>7. WantRequested'
    BY <1>t, <2>1, <2>6 DEF IInv, WantRequested, TypeOK
  <2>8. RacedSymmetric'
    <3> SUFFICES ASSUME NEW i \in Handles, NEW j \in Handles,
                        <<i, j>> \in raced'
                 PROVE  <<j, i>> \in raced'
      BY DEF RacedSymmetric
    <3>1. CASE <<i, j>> \in raced
      BY <2>2, <3>1 DEF IInv, RacedSymmetric
    <3>2. CASE <<i, j>> \notin raced
      BY <1>1, <3>2 DEF LockBegin
    <3> QED
      BY <3>1, <3>2
  <2>9. BothLocking'
    BY <2>2, <2>3, <2>6 DEF IInv, BothLocking
  <2>10. CheckOverlap'
    BY <2>4, <2>5, <2>6 DEF IInv, CheckOverlap
  <2>11. ScanSound'
    BY <1>t, <2>1, <2>2, <2>6 DEF IInv, ScanSound, Blocks, TypeOK
  <2>12. CheckSound'
    BY <2>1, <2>4, <2>6 DEF IInv, CheckSound
  <2>13. ExclusionUnlessRaced'
    BY <2>1, <2>2 DEF IInv, ExclusionUnlessRaced
  <2> QED
    BY <1>t, <2>7, <2>8, <2>9, <2>10, <2>11, <2>12, <2>13 DEF IInv
<1>2. ASSUME NEW h \in Handles, Return(h), UNCHANGED <<nLock, raced>>
      PROVE  IInv'
  <2>1. /\ op'[h] = "idle"
        /\ \A g \in Handles : g # h => /\ op'[g] = op[g]
                                       /\ ptr'[g] = ptr[g]
                                       /\ want'[g] = want[g]
                                       /\ pResOut'[g] = pResOut[g]
                                       /\ missed'[g] = missed[g]
    BY <1>2, <1>t DEF Return, TypeOK
  <2>2. /\ ~Locking(h)' /\ ~Checking(h)'
        /\ \A g \in Handles : g # h => /\ Locking(g)' <=> Locking(g)
                                       /\ Checking(g)' <=> Checking(g)
    BY <2>1 DEF Locking, Checking
  <2> QED
    BY <1>2, <1>t, <2>1, <2>2 DEF IInv, WantRequested, RacedSymmetric,
       BothLocking, CheckOverlap, ScanSound, CheckSound, Blocks,
       ExclusionUnlessRaced
<1>3. ASSUME NEW h \in Handles, LockScan(h)
      PROVE  IInv'
  <2>1. /\ Locking(h) /\ ~Blocks(ptr[h], h)
        /\ ptr'[h] = ptr[h] + 1
        /\ \A g \in Handles : g # h => ptr'[g] = ptr[g]
        /\ UNCHANGED <<nLock, op, want, pResOut, raced, missed>>
    BY <1>3, <1>t DEF LockScan, Advance, TypeOK
  <2>2. ~Checking(h)
    BY <2>1 DEF Locking, Checking
  <2>3. \A g \in Handles : g < ptr'[h] => g < ptr[h] \/ g = ptr[h]
    BY <1>t, <2>1, PassedItem DEF TypeOK
  <2>4. ScanSound'
    BY <2>1, <2>3 DEF IInv, ScanSound, Locking, Blocks
  <2>5. CheckSound'
    BY <2>1, <2>2 DEF IInv, CheckSound, Checking
  <2> QED
    BY <1>t, <2>1, <2>4, <2>5 DEF IInv, WantRequested, RacedSymmetric,
       BothLocking, CheckOverlap, ExclusionUnlessRaced, Locking, Checking
<1>4. ASSUME NEW h \in Handles, LockGrant(h)
      PROVE  IInv'
  <2>1. /\ Locking(h) /\ ptr[h] = pHead
        /\ nLock'[h] = want[h]
        /\ \A g \in Handles : g # h => nLock'[g] = nLock[g]
        /\ UNCHANGED raced
    BY <1>4, <1>t DEF LockGrant, TypeOK
  <2>2. /\ op'[h] = "idle"
        /\ \A g \in Handles : g # h => /\ op'[g] = op[g]
                                       /\ ptr'[g] = ptr[g]
                                       /\ want'[g] = want[g]
                                       /\ pResOut'[g] = pResOut[g]
                                       /\ missed'[g] = missed[g]
    BY <1>4, <1>t DEF LockGrant, Return, TypeOK
  <2>3. /\ ~Locking(h)' /\ ~Checking(h)'
        /\ \A g \in Handles : g # h => /\ Locking(g)' <=> Locking(g)
                                       /\ Checking(g)' <=> Checking(g)
    BY <2>2 DEF Locking, Checking
  <2>4. WantRequested' /\ RacedSymmetric' /\ BothLocking' /\ CheckOverlap'
    BY <2>1, <2>2, <2>3 DEF IInv, WantRequested, RacedSymmetric,
       BothLocking, CheckOverlap
  <2>5. ScanSound'
    BY <2>1, <2>2, <2>3 DEF IInv, ScanSound, BothLocking, Blocks
  <2>6. CheckSound'
    BY <2>1, <2>2, <2>3 DEF IInv, CheckSound, CheckOverlap
  <2>7. \A g \in Handles : g # h /\ nLock[g] > max_lock(want[h])
                             => <<g, h>> \in raced /\ <<h, g>> \in raced
    BY <2>1 DEF IInv, ScanSound, RacedSymmetric, Blocks
  <2>8. \A g \in Handles : g # h /\ nLock[g] <= max_lock(want[h])
          => ~Conflict(want[h], nLock[g]) /\ ~Conflict(nLock[g], want[h])
    BY <1>t, <2>1, LockAssumption, ToleratedIsNoConflict
       DEF LockAssumption, IInv, WantRequested, TypeOK
  <2>9. \A g \in Handles : nLock[g] > max_lock(want[h])
                             \/ nLock[g] <= max_lock(want[h])
    BY <1>t, MaxLockIsLevel, LevelOrder DEF TypeOK
  <2>10. ExclusionUnlessRaced'
    BY <2>1, <2>7, <2>8, <2>9 DEF IInv, ExclusionUnlessRaced
  <2> QED
    BY <1>t, <2>4, <2>5, <2>6, <2>10 DEF IInv
<1>5. ASSUME NEW h \in Handles, NEW level \in UnlockRequests,
             Unlock(h, level)
      PROVE  IInv'
  <2>1. /\ op[h] = "idle" /\ level <= nLock[h]
        /\ nLock'[h] = level
        /\ \A g \in Handles : g # h => nLock'[g] = nLock[g]
        /\ UNCHANGED <<callVars, missed>>
    BY <1>5, <1>t, RequestsAreLevels, LevelsAreNat
       DEF Unlock, Available, TypeOK
  <2>2. \A e \in raced : \/ e \in raced'
                         \/ /\ level = SQLITE_LOCK_NONE
                            /\ e[1] = h \/ e[2] = h
    BY <1>5 DEF Unlock
  <2>3. \A g \in Handles : /\ nLock[g] \in Levels /\ nLock'[g] \in Levels
                           /\ nLock'[g] <= nLock[g]
    BY <1>t, <2>1, LevelOrder DEF TypeOK
  <2>4. ~Locking(h) /\ ~Checking(h)
    BY <2>1 DEF Locking, Checking
  <2>5. RacedSymmetric'
    BY <1>5 DEF Unlock, IInv, RacedSymmetric
  <2>6. BothLocking'
    <3>1. \A i, j \in Handles : Locking(i) /\ Locking(j) => i # h /\ j # h
      BY <2>4
    <3> QED
      BY <2>1, <2>2, <3>1 DEF IInv, BothLocking, Locking, callVars
  <2>7. CheckOverlap' /\ WantRequested'
    BY <2>1 DEF IInv, CheckOverlap, WantRequested, Locking, Checking, callVars
  <2>8. \A l \in Handles, g \in Handles : Blocks(g, l)' => Blocks(g, l)
    BY <2>1, <2>3, MaxLockIsLevel, LevelOrder DEF Blocks, callVars
  <2>9. ScanSound'
    <3> SUFFICES ASSUME NEW g \in Handles, NEW l \in Handles,
                        Locking(l)', g < ptr'[l], Blocks(g, l)'
                 PROVE  <<g, l>> \in raced'
      BY DEF ScanSound
    <3>1. Locking(l) /\ g < ptr[l] /\ Blocks(g, l) /\ l # h
      BY <2>1, <2>4, <2>8 DEF Locking, callVars
    <3>2. <<g, l>> \in raced
      BY <3>1 DEF IInv, ScanSound
    <3>3. ~(level = SQLITE_LOCK_NONE /\ g = h)
      BY <2>1, MaxLockIsLevel, LevelsAreNat
         DEF Blocks, Levels, SQLITE_LOCK_NONE, SQLITE_LOCK_EXCLUSIVE
    <3> QED
      BY <2>2, <3>1, <3>2, <3>3
  <2>10. CheckSound'
    <3>1. \A g \in Handles : nLock'[g] >= SQLITE_LOCK_RESERVED
                               => nLock[g] >= SQLITE_LOCK_RESERVED
      BY <2>3 DEF Levels, SQLITE_LOCK_NONE, SQLITE_LOCK_RESERVED,
                  SQLITE_LOCK_EXCLUSIVE
    <3> QED
      BY <2>1, <3>1 DEF IInv, CheckSound, Checking, callVars
  <2>11. ExclusionUnlessRaced'
    <3> SUFFICES ASSUME NEW i \in Handles, NEW j \in Handles, i # j,
                        Conflict(nLock'[i], nLock'[j])
                 PROVE  <<i, j>> \in raced'
      BY DEF ExclusionUnlessRaced
    <3>1. Conflict(nLock[i], nLock[j])
      <4>1. Conflict(nLock[i], nLock'[j])
        BY <2>3, LoweringKeepsPeace
      <4> QED
        BY <2>3, <4>1, LoweringKeepsPeace
    <3>2. <<i, j>> \in raced
      BY <3>1 DEF IInv, ExclusionUnlessRaced
    <3>3. nLock'[i] # SQLITE_LOCK_NONE /\ nLock'[j] # SQLITE_LOCK_NONE
      BY <2>3, NoneConflictsWithNone
    <3> QED
      BY <2>1, <2>2, <3>2, <3>3
  <2> QED
    BY <1>t, <2>5, <2>6, <2>7, <2>9, <2>10, <2>11 DEF IInv
<1>6. ASSUME NEW h \in Handles, CheckBegin(h)
      PROVE  IInv'
  <2>1. /\ op[h] = "idle"
        /\ op' = [op EXCEPT ![h] = "CheckReservedLock"]
        /\ ptr' = [ptr EXCEPT ![h] = 1]
        /\ missed' = [missed EXCEPT ![h] = {g \in Handles : Locking(g)}]
        /\ UNCHANGED <<nLock, want, pResOut, raced>>
    BY <1>6 DEF CheckBegin, Enter, Available
  <2>2. /\ Checking(h)' /\ ~Locking(h)' /\ ~Checking(h) /\ ~Locking(h)
        /\ ptr'[h] = 1
        /\ missed'[h] = {g \in Handles : Locking(g)}
        /\ \A g \in Handles : g # h => /\ Locking(g)' <=> Locking(g)
                                       /\ Checking(g)' <=> Checking(g)
                                       /\ ptr'[g] = ptr[g]
                                       /\ missed'[g] = missed[g]
    BY <1>t, <2>1 DEF TypeOK, Locking, Checking
  <2>3. BothLocking' /\ WantRequested' /\ RacedSymmetric'
    BY <2>1, <2>2 DEF IInv, BothLocking, WantRequested, RacedSymmetric
  <2>4. CheckOverlap'
    BY <2>2 DEF IInv, CheckOverlap
  <2>5. ScanSound'
    BY <2>1, <2>2 DEF IInv, ScanSound, Blocks
  <2>6. CheckSound'
    BY <2>1, <2>2 DEF IInv, CheckSound
  <2> QED
    BY <1>t, <2>1, <2>3, <2>4, <2>5, <2>6 DEF IInv, ExclusionUnlessRaced
<1>7. ASSUME NEW h \in Handles, CheckScan(h)
      PROVE  IInv'
  <2>1. /\ Checking(h) /\ ptr[h] # pHead
        /\ ptr'[h] = ptr[h] + 1
        /\ \A g \in Handles : g # h => /\ ptr'[g] = ptr[g]
                                       /\ pResOut'[g] = pResOut[g]
        /\ UNCHANGED <<nLock, op, want, raced, missed>>
    BY <1>7, <1>t DEF CheckScan, Advance, TypeOK
  <2>2. ~Locking(h)
    BY <2>1 DEF Locking, Checking
  <2>3. \A g \in Handles : g < ptr'[h] => g < ptr[h] \/ g = ptr[h]
    BY <1>t, <2>1, PassedItem DEF TypeOK
  <2>4. pResOut'[h] = 0 => /\ pResOut[h] = 0
                           /\ ~(nLock[ptr[h]] >= SQLITE_LOCK_RESERVED)
    <3>1. pResOut[h] \in Nat /\ pResOut[h] + 1 # 0
      BY <1>t DEF TypeOK
    <3>2. CASE nLock[ptr[h]] >= SQLITE_LOCK_RESERVED
      BY <1>7, <1>t, <3>1, <3>2 DEF CheckScan, TypeOK
    <3>3. CASE ~(nLock[ptr[h]] >= SQLITE_LOCK_RESERVED)
      BY <1>7, <3>3 DEF CheckScan
    <3> QED
      BY <3>2, <3>3
  <2>5. ScanSound'
    BY <2>1, <2>2 DEF IInv, ScanSound, Locking, Blocks
  <2>6. CheckSound'
    BY <2>1, <2>3, <2>4 DEF IInv, CheckSound, Checking
  <2> QED
    BY <1>t, <2>1, <2>5, <2>6 DEF IInv, WantRequested, RacedSymmetric,
       BothLocking, CheckOverlap, ExclusionUnlessRaced, Locking, Checking
<1>8. ASSUME NEW h \in Handles, LockBusy(h) \/ CheckReturn(h)
      PROVE  IInv'
  BY <1>2, <1>8 DEF LockBusy, CheckReturn
<1> QED
  BY <1>s, <1>1, <1>3, <1>4, <1>5, <1>6, <1>7, <1>8 DEF Next

LEMMA SpecIInv == Spec => []IInv
BY InitIInv, StepIInv, PTL DEF Spec

(* Two handles hold conflicting levels only if their xLock calls           *)
(* overlapped, however many handles and threads there are.                 *)
THEOREM ExclusionTheorem == Spec => []ExclusionUnlessRaced
<1>1. IInv => ExclusionUnlessRaced
  BY DEF IInv
<1> QED
  BY <1>1, SpecIInv, PTL

(* xCheckReservedLock about to return 0 has missed only handles that were  *)
(* inside xLock while it ran.                                              *)
THEOREM NoWriterMissedTheorem == Spec => []NoWriterMissed
<1>1. IInv => NoWriterMissed
  BY HandlesAreItems DEF IInv, CheckSound, NoWriterMissed
<1> QED
  BY <1>1, SpecIInv, PTL

(* While a handle holds RESERVED, no other level rises except by a call    *)
(* that overlapped with one of that handle.                                *)
THEOREM ReservedClosesDoorTheorem == Spec => ReservedClosesDoor
<1>1. IInv /\ [Next]_vars =>
        [\A g, h \in Handles :
           g # h /\ nLock[h] >= SQLITE_LOCK_RESERVED /\ nLock'[g] > nLock[g]
             => <<g, h>> \in raced]_vars
  <2> SUFFICES ASSUME IInv, Next, NEW g \in Handles, NEW h \in Handles,
                      g # h, nLock[h] >= SQLITE_LOCK_RESERVED,
                      nLock'[g] > nLock[g]
               PROVE  <<g, h>> \in raced
    OBVIOUS
  <2>1. TypeOK /\ nLock[g] \in Nat /\ nLock[h] \in Levels
    BY LevelsAreNat DEF IInv, TypeOK
  <2>2. PICK i \in Handles :
          \/ LockGrant(i)
          \/ \E level \in UnlockRequests : Unlock(i, level)
    BY <2>1 DEF Next, LockBegin, LockBusy, LockScan, CheckBegin, CheckScan,
       CheckReturn
  <2>3. CASE LockGrant(i)
    <3>1. g = i /\ Locking(g) /\ ptr[g] = pHead
      BY <2>1, <2>3 DEF LockGrant, TypeOK
    <3>2. max_lock(want[g]) <= SQLITE_LOCK_SHARED
      <4>1. want[g] \in {SQLITE_LOCK_SHARED, SQLITE_LOCK_RESERVED,
                         SQLITE_LOCK_EXCLUSIVE}
        BY <3>1, LockAssumption DEF LockAssumption, IInv, WantRequested
      <4> QED
        BY ONLY <4>1 DEF max_lock, SQLITE_LOCK_NONE, SQLITE_LOCK_SHARED,
           SQLITE_LOCK_RESERVED, SQLITE_LOCK_PENDING, SQLITE_LOCK_EXCLUSIVE
    <3>3. Blocks(h, g)
      BY <2>1, <3>2, MaxLockIsLevel
         DEF Blocks, Levels, SQLITE_LOCK_NONE, SQLITE_LOCK_SHARED,
             SQLITE_LOCK_RESERVED, SQLITE_LOCK_EXCLUSIVE
    <3> QED
      BY <3>1, <3>3, HandlesAreItems DEF IInv, ScanSound, RacedSymmetric
  <2>4. CASE \E level \in UnlockRequests : Unlock(i, level)
    BY <2>1, <2>4, RequestsAreLevels, LevelsAreNat DEF Unlock, TypeOK
  <2> QED
    BY <2>2, <2>3, <2>4
<1> QED
  BY <1>1, SpecIInv, PTL DEF Spec, ReservedClosesDoor

-------------------------------------------------------------------------------
(* MemfsLock implements LockTable                                          *)

(* A running xLock asks for more than its handle holds: only a call on the *)
(* handle itself could change that, and there is one at a time.            *)
LockRises == \A h \in Handles : Locking(h) => nLock[h] < want[h]

LEMMA InitLockRises == Init => LockRises
  BY DEF Init, LockRises, Locking

LEMMA StepLockRises == TypeOK /\ LockRises /\ [Next]_vars => LockRises'
<1> SUFFICES ASSUME TypeOK, LockRises, [Next]_vars,
                    NEW g \in Handles, Locking(g)'
             PROVE  nLock'[g] < want'[g]
  BY DEF LockRises
<1>1. CASE nLock' = nLock /\ want' = want /\ op' = op
  BY <1>1 DEF LockRises, Locking
<1>2. CASE Next
  <2>1. PICK h \in Handles :
          \/ \E level \in LockRequests : LockBegin(h, level)
          \/ LockBusy(h) \/ LockScan(h) \/ LockGrant(h)
          \/ \E level \in UnlockRequests : Unlock(h, level)
          \/ CheckBegin(h) \/ CheckScan(h) \/ CheckReturn(h)
    BY <1>2 DEF Next
  <2>2. CASE g # h
    <3>1. Locking(g) /\ nLock'[g] = nLock[g] /\ want'[g] = want[g]
      BY <2>1, <2>2 DEF TypeOK, Locking, LockBegin, LockBusy, LockScan,
         LockGrant, Unlock, CheckBegin, CheckScan, CheckReturn, Enter, Return,
         callVars
    <3> QED
      BY <3>1 DEF LockRises
  <2>3. CASE g = h
    <3>1. CASE \E level \in LockRequests : LockBegin(h, level)
      <4>1. PICK level \in LockRequests : LockBegin(h, level)
        BY <3>1
      <4>2. /\ nLock'[g] = nLock[g] /\ want'[g] = level
            /\ ~(nLock[g] >= level)
        BY <2>3, <4>1 DEF TypeOK, LockBegin, HeldAlready
      <4>3. nLock[g] \in Nat /\ level \in Nat
        BY RequestsAreLevels, LevelsAreNat DEF TypeOK
      <4> QED
        BY ONLY <4>2, <4>3, SMT
    <3>2. CASE LockScan(h)
      BY <2>3, <3>2 DEF LockRises, LockScan, Locking
    <3>3. CASE \/ LockBusy(h) \/ LockGrant(h) \/ CheckReturn(h)
               \/ CheckBegin(h) \/ CheckScan(h)
               \/ \E level \in UnlockRequests : Unlock(h, level)
      <4>1. op'[h] # "Lock"
        BY <3>3 DEF TypeOK, LockBusy, LockGrant, CheckReturn, CheckBegin,
           CheckScan, Unlock, Return, Enter, Available, Checking, callVars
      <4> QED
        BY <2>3, <4>1 DEF Locking
    <3> QED
      BY <2>1, <3>1, <3>2, <3>3
  <2> QED
    BY <2>2, <2>3
<1> QED
  BY <1>1, <1>2 DEF vars

(* The table has the levels of LockLevels under names of its own.          *)
LEMMA SameLevels ==
  /\ Table!SQLITE_LOCK_NONE = SQLITE_LOCK_NONE
  /\ \A level : Table!max_lock(level) = max_lock(level)
  BY DEF max_lock, SQLITE_LOCK_NONE, SQLITE_LOCK_SHARED, SQLITE_LOCK_RESERVED,
     SQLITE_LOCK_PENDING, SQLITE_LOCK_EXCLUSIVE, Table!max_lock,
     Table!SQLITE_LOCK_NONE, Table!SQLITE_LOCK_SHARED,
     Table!SQLITE_LOCK_RESERVED, Table!SQLITE_LOCK_PENDING,
     Table!SQLITE_LOCK_EXCLUSIVE

(* What a step of MemfsLock is to the table: a walk that starts is an      *)
(* overlap with the walks under way,                                       *)
LEMMA StartIsOverlap ==
  ASSUME NEW h \in Handles, NEW level \in LockRequests, LockBegin(h, level)
  PROVE  Table!Next
<1> DEFINE others == {i \in Handles \ {h} : Locking(i)}
<1>1. others \in SUBSET (Handles \ {h})
  OBVIOUS
<1>2. raced' = raced \cup ({h} \X others) \cup (others \X {h})
  BY DEF LockBegin
<1>3. Table!Overlap(h, others)
  BY <1>2 DEF LockBegin, Table!Overlap
<1> QED
  BY <1>1, <1>3 DEF Table!Next

(* a walk that reaches the sentinel is a grant the table admits,           *)
LEMMA SentinelIsGrant ==
  ASSUME IInv, LockRises, NEW h \in Handles, LockGrant(h)
  PROVE  Table!Next
<1>1. want[h] \in LockRequests
  BY DEF LockGrant, IInv, WantRequested
<1>2. nLock[h] < want[h]
  BY DEF LockGrant, LockRises
<1>3. ASSUME NEW g \in Handles \ {h}, <<g, h>> \notin raced
      PROVE  nLock[g] <= max_lock(want[h])
  <2>1. ~Blocks(g, h)
    BY <1>3, HandlesAreItems DEF LockGrant, IInv, ScanSound
  <2>2. nLock[g] \in Nat /\ max_lock(want[h]) \in Nat
    BY MaxLockIsLevel, LevelsAreNat DEF IInv, TypeOK
  <2> QED
    BY <2>1, <2>2 DEF Blocks
<1>4. Table!Admits(h, want[h])
  BY <1>3, SameLevels DEF Table!Admits
<1>5. Table!Grant(h, want[h])
  BY <1>2, <1>4 DEF LockGrant, Table!Grant
<1> QED
  BY <1>1, <1>5 DEF Table!Next

(* xUnlock is a release, because its request is compared with the level,   *)
LEMMA UnlockIsRelease ==
  ASSUME TypeOK, NEW h \in Handles, NEW level \in UnlockRequests,
         Unlock(h, level)
  PROVE  Table!Next
<1>1. nLock[h] \in Nat /\ level \in Nat
  BY RequestsAreLevels, LevelsAreNat DEF TypeOK
<1>2. level <= nLock[h]
  BY <1>1 DEF Unlock
<1>3. Table!Release(h, level)
  BY <1>2, SameLevels DEF Unlock, Table!Release
<1> QED
  BY <1>3 DEF Table!Next

(* and every other step is none of the table's.                            *)
LEMMA RestIsSilent ==
  ASSUME \/ UNCHANGED vars
         \/ \E h \in Handles : \/ LockBusy(h) \/ LockScan(h)
                               \/ CheckBegin(h) \/ CheckScan(h)
                               \/ CheckReturn(h)
  PROVE  UNCHANGED <<nLock, raced>>
BY DEF vars, LockBusy, LockScan, CheckBegin, CheckScan, CheckReturn

(* The walk of the handles, interleaved with the calls on other handles,   *)
(* is a request of the lock table.                                         *)
THEOREM TableTheorem == Spec => TableSpec
<1>1. Init => Table!Init
  BY SameLevels DEF Init, Table!Init
<1>2. IInv => TypeOK
  BY DEF IInv
<1>3. IInv /\ LockRises /\ [Next]_vars => [Table!Next]_<<nLock, raced>>
  BY <1>2, RestIsSilent, StartIsOverlap, SentinelIsGrant, UnlockIsRelease
     DEF Next
<1> QED
  BY <1>1, <1>2, <1>3, SpecIInv, InitLockRises, StepLockRises, PTL
     DEF Spec, TableSpec, Table!Spec

===============================================================================

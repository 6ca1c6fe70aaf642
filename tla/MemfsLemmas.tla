------------------------------ MODULE MemfsLemmas ------------------------------
(***************************************************************************)
(* What the proofs of several modules need to know of the operators the    *)
(* models share: the levels of a lock, and the lists of the community      *)
(* module SequencesExt in which an object is once, is put in at the end    *)
(* and is taken out.                                                       *)
(***************************************************************************)
EXTENDS LockLevels, Integers, SequencesExt, SequenceTheorems,
        WellFoundedInduction, TLAPS

(* The levels of a lock                                                    *)

(* The two facts about the table of levels the exclusion argument needs:   *)
(* what a granted request tolerates does not conflict with it, and         *)
(* lowering a level never creates a conflict.                              *)
LEMMA ToleratedIsNoConflict ==
  ASSUME NEW a \in {SQLITE_LOCK_SHARED, SQLITE_LOCK_RESERVED,
                    SQLITE_LOCK_EXCLUSIVE},
         NEW b \in Levels, b <= max_lock(a)
  PROVE  ~Conflict(a, b) /\ ~Conflict(b, a)
  BY DEF Conflict, max_lock, Levels, SQLITE_LOCK_NONE, SQLITE_LOCK_SHARED,
         SQLITE_LOCK_RESERVED, SQLITE_LOCK_PENDING, SQLITE_LOCK_EXCLUSIVE

LEMMA LoweringKeepsPeace ==
  ASSUME NEW a \in Levels, NEW b \in Levels, NEW c \in Levels, c <= a
  PROVE  /\ Conflict(c, b) => Conflict(a, b)
         /\ Conflict(b, c) => Conflict(b, a)
  BY DEF Conflict, Levels, SQLITE_LOCK_NONE, SQLITE_LOCK_SHARED,
         SQLITE_LOCK_RESERVED, SQLITE_LOCK_PENDING, SQLITE_LOCK_EXCLUSIVE

LEMMA NoneConflictsWithNone ==
  ASSUME NEW a \in Levels
  PROVE  ~Conflict(SQLITE_LOCK_NONE, a) /\ ~Conflict(a, SQLITE_LOCK_NONE)
  BY DEF Conflict, Levels, SQLITE_LOCK_NONE, SQLITE_LOCK_SHARED,
         SQLITE_LOCK_RESERVED, SQLITE_LOCK_PENDING, SQLITE_LOCK_EXCLUSIVE

LEMMA LevelsAreNat == Levels \subseteq Nat /\ SQLITE_LOCK_NONE \in Levels
  BY DEF Levels, SQLITE_LOCK_NONE, SQLITE_LOCK_EXCLUSIVE

LEMMA LevelOrder ==
  \A a, b, c \in Levels :
    /\ a > b \/ a <= b
    /\ a <= a
    /\ a <= b /\ a > c => b > c
  BY DEF Levels, SQLITE_LOCK_NONE, SQLITE_LOCK_EXCLUSIVE

LEMMA MaxLockIsLevel == \A level : max_lock(level) \in Levels
  BY DEF max_lock, Levels, SQLITE_LOCK_NONE, SQLITE_LOCK_SHARED,
         SQLITE_LOCK_RESERVED, SQLITE_LOCK_PENDING, SQLITE_LOCK_EXCLUSIVE
-------------------------------------------------------------------------------
(* Lists                                                                   *)

LEMMA LeastExists ==
  ASSUME NEW I, I \subseteq Nat, I # {}
  PROVE  Min(I) \in I /\ \A y \in I : Min(I) <= y
  <1>1. PICK x \in I : \A y \in I : ~ (<<y, x>> \in OpToRel(<, Nat))
    BY NatLessThanWellFounded, WFMin
  <1>2. \A y \in I : x <= y
    <2> SUFFICES ASSUME NEW y \in I  PROVE x <= y
      OBVIOUS
    <2>2. ~(y < x)
      <3>1. y < x => <<y, x>> \in OpToRel(<, Nat)
        BY DEF OpToRel
      <3> QED BY <1>1, <3>1
    <2> QED BY <2>2
  <1> QED BY <1>2 DEF Min

(* Induction, with the set of the numbers a statement holds for in place   *)
(* of the statement.                                                       *)
LEMMA Induction ==
  ASSUME NEW S, 0 \in S, \A n \in Nat : n \in S => n + 1 \in S
  PROVE  \A n \in Nat : n \in S
  <1> SUFFICES ASSUME Nat \ S # {}  PROVE FALSE
    OBVIOUS
  <1> DEFINE m == Min(Nat \ S)
  <1>1. m \in Nat \ S /\ \A y \in Nat \ S : m <= y
    <2>1. Nat \ S \subseteq Nat  OBVIOUS
    <2> QED BY <2>1, LeastExists
  <1> HIDE DEF m
  <1>2. m # 0 /\ m - 1 \in Nat  BY <1>1
  <1>3. m - 1 \in S  BY <1>1, <1>2
  <1>4. (m - 1) + 1 = m  BY <1>1
  <1> QED BY <1>1, <1>2, <1>3, <1>4

(* Induction up to a bound.                                                *)
LEMMA InductionTo ==
  ASSUME NEW N \in Nat, NEW S, 0 \in S,
         \A n \in 0 .. N - 1 : n \in S => n + 1 \in S
  PROVE  \A n \in 0 .. N : n \in S
  <1> DEFINE U == {n \in Nat : n <= N => n \in S}
  <1>1. 0 \in U  OBVIOUS
  <1>2. \A n \in Nat : n \in U => n + 1 \in U  OBVIOUS
  <1> HIDE DEF U
  <1>3. \A n \in Nat : n \in U  BY <1>1, <1>2, Induction
  <1> QED BY <1>3 DEF U

LEMMA FirstFound ==
  ASSUME NEW S, NEW s \in Seq(S), NEW I, NEW i,
         I \subseteq 1 .. Len(s), i = IF I # {} THEN Min(I) ELSE 0
  PROVE  (i = 0 /\ I = {}) \/ (i # 0 /\ i \in I /\ i \in 1 .. Len(s) /\ s[i] \in S)
  <1>1. CASE I = {}  BY <1>1
  <1>2. CASE I # {}
    <2>1. Len(s) \in Nat /\ I \subseteq Nat  OBVIOUS
    <2>2. i \in I  BY <1>2, <2>1, LeastExists
    <2> QED BY <2>2
  <1> QED BY <1>1, <1>2

LEMMA RangeAppend ==
  ASSUME NEW S, NEW s \in Seq(S), NEW e \in S
  PROVE  /\ Append(s, e) \in Seq(S)
         /\ Range(Append(s, e)) = Range(s) \cup {e}
         /\ IsInjective(s) /\ e \notin Range(s) => IsInjective(Append(s, e))
  <1>1. /\ Append(s, e) \in Seq(S) /\ Len(Append(s, e)) = Len(s) + 1
        /\ \A i \in 1 .. Len(s) : Append(s, e)[i] = s[i]
        /\ Append(s, e)[Len(s) + 1] = e
    OBVIOUS
  <1>3. Range(Append(s, e)) = Range(s) \cup {e}
    BY <1>1 DEF Range
  <1>4. ASSUME IsInjective(s), e \notin Range(s)  PROVE IsInjective(Append(s, e))
    BY <1>4 DEF Range, IsInjective
  <1> QED BY <1>3, <1>4

(* Taking an object out closes the gap it leaves and touches nothing else. *)
LEMMA RemoveShape ==
  ASSUME NEW S, NEW s \in Seq(S), NEW e
  PROVE  /\ RemoveFirst(s, e) \in Seq(S)
         /\ \/ RemoveFirst(s, e) = s /\ e \notin Range(s)
            \/ \E k \in 1 .. Len(s) :
                 /\ s[k] = e /\ Len(RemoveFirst(s, e)) = Len(s) - 1
                 /\ \A i \in 1 .. Len(s) - 1 :
                      RemoveFirst(s, e)[i] = IF i <= k - 1 THEN s[i] ELSE s[i + 1]
  <1> DEFINE I == {i \in 1 .. Len(s) : s[i] = e}
             k == IF I # {} THEN Min(I) ELSE 0
             a == SubSeq(s, 1, k - 1)
             b == SubSeq(s, k + 1, Len(s))
  <1>0. Len(s) \in Nat /\ DOMAIN s = 1 .. Len(s)
    OBVIOUS
  <1>1. CASE I = {}
    <2>1. RemoveFirst(s, e) = s  BY <1>1 DEF RemoveFirst
    <2>2. e \notin Range(s)  BY <1>1 DEF Range
    <2> QED BY <2>1, <2>2
  <1>2. CASE I # {}
    <2>1. k \in 1 .. Len(s) /\ s[k] = e
      <3>1. I \subseteq Nat  OBVIOUS
      <3>2. k \in I  BY <1>2, <3>1, LeastExists
      <3> QED BY <3>2
    <2>2. RemoveFirst(s, e) = a \o b
      BY <1>2 DEF RemoveFirst, RemoveAt, SelectInSeq
    <2> HIDE DEF k
    <2>3. /\ a \in Seq(S) /\ Len(a) = k - 1
          /\ \A i \in 1 .. k - 1 : a[i] = s[i]
      <3>1. \A i \in 1 .. k - 1 : s[i] \in S
        BY <2>1
      <3>2. k \in Int /\ k - 1 \in Int /\ 1 \in Int /\ k - 1 >= 0
        BY <2>1
      <3>3. a \in Seq(S) /\ Len(a) = (IF 1 <= k - 1 THEN k - 1 - 1 + 1 ELSE 0)
            /\ \A i \in 1 .. (k - 1) - 1 + 1 : a[i] = s[1 + i - 1]
        BY <3>1, <3>2
      <3> QED BY <3>2, <3>3
    <2>4. /\ b \in Seq(S) /\ Len(b) = Len(s) - k
          /\ \A i \in 1 .. Len(s) - k : b[i] = s[k + i]
      <3>1. \A i \in k + 1 .. Len(s) : s[i] \in S
        BY <2>1
      <3>2. k \in Int /\ k + 1 \in Int /\ Len(s) \in Int /\ k <= Len(s)
        BY <2>1
      <3>3. b \in Seq(S)
            /\ Len(b) = (IF k + 1 <= Len(s) THEN Len(s) - (k + 1) + 1 ELSE 0)
            /\ \A i \in 1 .. Len(s) - (k + 1) + 1 : b[i] = s[(k + 1) + i - 1]
        BY <3>1, <3>2
      <3> QED BY <3>2, <3>3
    <2> HIDE DEF a, b
    <2>5. /\ a \o b \in Seq(S) /\ Len(a \o b) = Len(s) - 1
          /\ \A i \in 1 .. Len(s) - 1 :
               (a \o b)[i] = IF i <= k - 1 THEN s[i] ELSE s[i + 1]
      <3>1. /\ a \o b \in Seq(S) /\ Len(a \o b) = Len(a) + Len(b)
            /\ \A i \in 1 .. Len(a) + Len(b) :
                 (a \o b)[i] = IF i <= Len(a) THEN a[i] ELSE b[i - Len(a)]
        BY <2>3, <2>4, ConcatProperties
      <3> QED BY <2>1, <2>3, <2>4, <3>1
    <2> QED BY <2>1, <2>2, <2>5
  <1> QED BY <1>1, <1>2

(* The first element and the rest.                                         *)
LEMMA RangeTail ==
  ASSUME NEW S, NEW s \in Seq(S), s # <<>>
  PROVE  /\ Head(s) \in S /\ Tail(s) \in Seq(S)
         /\ Range(s) = Range(Tail(s)) \cup {Head(s)}
         /\ IsInjective(s) => IsInjective(Tail(s)) /\ Head(s) \notin Range(Tail(s))
  <1>1. /\ Len(s) \in Nat \ {0} /\ DOMAIN s = 1 .. Len(s) /\ Head(s) = s[1]
        /\ Tail(s) \in Seq(S) /\ Len(Tail(s)) = Len(s) - 1
        /\ DOMAIN Tail(s) = 1 .. Len(s) - 1
        /\ \A i \in 1 .. Len(s) - 1 : Tail(s)[i] = s[i + 1]
    OBVIOUS
  <1>2. Head(s) \in S
    BY <1>1
  <1>3. Range(s) = Range(Tail(s)) \cup {Head(s)}
    <2>1. ASSUME NEW x \in Range(s)  PROVE x \in Range(Tail(s)) \cup {Head(s)}
      <3>1. PICK i \in 1 .. Len(s) : x = s[i]
        BY <1>1, <2>1 DEF Range
      <3>2. CASE i = 1  BY <1>1, <3>1, <3>2
      <3>3. CASE i # 1
        <4>1. i - 1 \in 1 .. Len(s) - 1 /\ Tail(s)[i - 1] = x
          BY <1>1, <3>1, <3>3
        <4> QED BY <1>1, <4>1 DEF Range
      <3> QED BY <3>2, <3>3
    <2>2. Head(s) \in Range(s)
      BY <1>1 DEF Range
    <2>3. ASSUME NEW x \in Range(Tail(s))  PROVE x \in Range(s)
      <3>1. PICK i \in 1 .. Len(s) - 1 : x = Tail(s)[i]
        BY <1>1, <2>3 DEF Range
      <3>2. i + 1 \in 1 .. Len(s) /\ x = s[i + 1]
        BY <1>1, <3>1
      <3> QED BY <1>1, <3>2 DEF Range
    <2> QED BY <2>1, <2>2, <2>3
  <1>4. ASSUME IsInjective(s)
        PROVE  IsInjective(Tail(s)) /\ Head(s) \notin Range(Tail(s))
    <2>1. \A i, j \in 1 .. Len(s) : s[i] = s[j] => i = j
      BY <1>1, <1>4 DEF IsInjective
    <2>2. IsInjective(Tail(s))
      <3>1. ASSUME NEW i \in 1 .. Len(s) - 1, NEW j \in 1 .. Len(s) - 1,
                   Tail(s)[i] = Tail(s)[j]
            PROVE  i = j
        <4>1. i + 1 \in 1 .. Len(s) /\ j + 1 \in 1 .. Len(s) /\ s[i + 1] = s[j + 1]
          BY <1>1, <3>1
        <4> QED BY <2>1, <4>1
      <3> QED BY <1>1, <3>1 DEF IsInjective
    <2>3. Head(s) \notin Range(Tail(s))
      <3>1. ASSUME NEW i \in 1 .. Len(s) - 1, Tail(s)[i] = Head(s)
            PROVE  FALSE
        <4>1. i + 1 \in 1 .. Len(s) /\ 1 \in 1 .. Len(s) /\ s[i + 1] = s[1]
          BY <1>1, <3>1
        <4> QED BY <2>1, <4>1
      <3> QED BY <1>1, <3>1 DEF Range
    <2> QED BY <2>2, <2>3
  <1> QED BY <1>1, <1>2, <1>3, <1>4

(* Taking an object out changes nothing else of who is in the list.        *)
LEMMA RangeRemove ==
  ASSUME NEW S, NEW s \in Seq(S), NEW e
  PROVE  /\ RemoveFirst(s, e) \in Seq(S)
         /\ Range(RemoveFirst(s, e)) \subseteq Range(s)
         /\ Range(s) \subseteq Range(RemoveFirst(s, e)) \cup {e}
         /\ IsInjective(s) =>
              IsInjective(RemoveFirst(s, e)) /\ e \notin Range(RemoveFirst(s, e))
  <1> DEFINE r == RemoveFirst(s, e)
  <1>0. Len(s) \in Nat /\ DOMAIN s = 1 .. Len(s) /\ r \in Seq(S)
    BY RemoveShape
  <1>1. CASE r = s /\ e \notin Range(s)
    BY <1>0, <1>1
  <1>2. ASSUME NEW k \in 1 .. Len(s), s[k] = e, Len(r) = Len(s) - 1,
               \A i \in 1 .. Len(s) - 1 :
                 r[i] = IF i <= k - 1 THEN s[i] ELSE s[i + 1]
        PROVE  /\ Range(r) \subseteq Range(s)
               /\ Range(s) \subseteq Range(r) \cup {e}
               /\ IsInjective(s) => IsInjective(r) /\ e \notin Range(r)
    <2> HIDE DEF r
    <2>6. DOMAIN r = 1 .. Len(s) - 1
      BY <1>0, <1>2
    <2>7. Range(r) \subseteq Range(s)
      <3>1. ASSUME NEW i \in 1 .. Len(s) - 1
            PROVE  r[i] \in Range(s)
        <4>2. s[i] \in Range(s) /\ s[i + 1] \in Range(s)
          BY DEF Range
        <4> QED BY <1>2, <4>2
      <3> QED BY <2>6, <3>1 DEF Range
    <2>8. Range(s) \subseteq Range(r) \cup {e}
      <3>1. ASSUME NEW i \in 1 .. Len(s), i # k
            PROVE  s[i] \in Range(r)
        <4>1. CASE i < k
          <5>1. i \in 1 .. Len(s) - 1 /\ i <= k - 1
            BY <1>2, <4>1
          <5>2. r[i] = s[i]  BY <1>2, <5>1
          <5> QED BY <2>6, <5>1, <5>2 DEF Range
        <4>2. CASE i > k
          <5>1. i - 1 \in 1 .. Len(s) - 1 /\ ~(i - 1 <= k - 1) /\ (i - 1) + 1 = i
            BY <1>2, <4>2
          <5>2. r[i - 1] = s[i]  BY <1>2, <5>1
          <5> QED BY <2>6, <5>1, <5>2 DEF Range
        <4> QED BY <1>2, <3>1, <4>1, <4>2
      <3> QED BY <1>2, <3>1 DEF Range
    <2>9. ASSUME IsInjective(s)
          PROVE  IsInjective(r) /\ e \notin Range(r)
      <3> DEFINE from(i) == IF i <= k - 1 THEN i ELSE i + 1
      <3>1. \A i \in 1 .. Len(s) - 1 :
              from(i) \in 1 .. Len(s) /\ from(i) # k /\ r[i] = s[from(i)]
        BY <1>2
      <3>2. \A i, j \in 1 .. Len(s) - 1 : from(i) = from(j) => i = j
        BY <1>2
      <3> HIDE DEF from
      <3>3. IsInjective(r)
        BY <1>0, <2>6, <2>9, <3>1, <3>2 DEF IsInjective
      <3>4. e \notin Range(r)
        <4> SUFFICES ASSUME NEW i \in 1 .. Len(s) - 1, r[i] = e
                     PROVE  FALSE
          BY <2>6 DEF Range
        <4>1. s[from(i)] = s[k] /\ from(i) \in DOMAIN s /\ k \in DOMAIN s
          BY <1>0, <1>2, <3>1
        <4> QED BY <2>9, <3>1, <4>1 DEF IsInjective
      <3> QED BY <3>3, <3>4
    <2> QED BY <2>7, <2>8, <2>9
  <1>3. \/ r = s /\ e \notin Range(s)
        \/ \E k \in 1 .. Len(s) :
             /\ s[k] = e /\ Len(r) = Len(s) - 1
             /\ \A i \in 1 .. Len(s) - 1 :
                  r[i] = IF i <= k - 1 THEN s[i] ELSE s[i + 1]
    BY RemoveShape
  <1>4. /\ Range(r) \subseteq Range(s)
        /\ Range(s) \subseteq Range(r) \cup {e}
        /\ IsInjective(s) => IsInjective(r) /\ e \notin Range(r)
    <2> HIDE DEF r
    <2> QED BY <1>1, <1>2, <1>3
  <1> QED BY <1>0, <1>4

(* x is nearer to the head of the list than y.                             *)
Before(s, x, y) == \E i, j \in 1 .. Len(s) : i < j /\ s[i] = x /\ s[j] = y

(* What is put in at the end comes after the others, which keep their      *)
(* order.                                                                  *)
LEMMA BeforeAppend ==
  ASSUME NEW S, NEW s \in Seq(S), NEW e \in S, NEW x, NEW y,
         Before(Append(s, e), x, y)
  PROVE  Before(s, x, y) \/ y = e
  <1>1. PICK i, j \in 1 .. Len(Append(s, e)) :
          i < j /\ Append(s, e)[i] = x /\ Append(s, e)[j] = y
    BY DEF Before
  <1>2. CASE j = Len(s) + 1  BY <1>1, <1>2
  <1>3. CASE j # Len(s) + 1
    <2>1. i \in 1 .. Len(s) /\ j \in 1 .. Len(s)
      BY <1>1, <1>3
    <2> QED BY <1>1, <2>1 DEF Before
  <1> QED BY <1>2, <1>3

(* The others keep their order when an object is taken out.                *)
LEMMA BeforeRemove ==
  ASSUME NEW S, NEW s \in Seq(S), NEW e, NEW x, NEW y,
         Before(RemoveFirst(s, e), x, y)
  PROVE  Before(s, x, y)
  <1> DEFINE r == RemoveFirst(s, e)
  <1>0. Before(r, x, y)
    OBVIOUS
  <1>1. CASE r = s  BY <1>0, <1>1
  <1>2. ASSUME NEW k \in 1 .. Len(s), Len(r) = Len(s) - 1,
               \A i \in 1 .. Len(s) - 1 :
                 r[i] = IF i <= k - 1 THEN s[i] ELSE s[i + 1]
        PROVE  Before(s, x, y)
    <2> HIDE DEF r
    <2> DEFINE from(i) == IF i <= k - 1 THEN i ELSE i + 1
    <2>1. PICK i, j \in 1 .. Len(s) - 1 : i < j /\ r[i] = x /\ r[j] = y
      BY <1>0, <1>2 DEF Before
    <2>2. /\ from(i) \in 1 .. Len(s) /\ from(j) \in 1 .. Len(s)
          /\ from(i) < from(j)
      BY <2>1
    <2>3. s[from(i)] = x /\ s[from(j)] = y
      BY <1>2, <2>1
    <2> QED BY <2>2, <2>3 DEF Before
  <1> QED BY <1>1, <1>2, RemoveShape

(* Nothing comes before the first.                                         *)
LEMMA NothingBeforeFirst ==
  ASSUME NEW S, NEW s \in Seq(S), IsInjective(s), s # << >>, NEW x
  PROVE  s[1] \in Range(s) /\ ~Before(s, x, s[1])
  <1>1. Len(s) \in Nat \ {0} /\ DOMAIN s = 1 .. Len(s)
    OBVIOUS
  <1>2. ASSUME NEW i \in 1 .. Len(s), NEW j \in 1 .. Len(s), i < j, s[j] = s[1]
        PROVE  FALSE
    BY <1>1, <1>2 DEF IsInjective
  <1> QED BY <1>1, <1>2 DEF Before, Range

(* What comes before the next comes before this one or is this one, and    *)
(* the last has all the others before it.                                  *)
LEMMA NextOne ==
  ASSUME NEW S, NEW s \in Seq(S), IsInjective(s), NEW i \in 1 .. Len(s), NEW x
  PROVE  /\ i # Len(s) => /\ s[i + 1] \in Range(s)
                          /\ Before(s, x, s[i + 1]) => x = s[i] \/ Before(s, x, s[i])
         /\ i = Len(s) => (x \in Range(s) => x = s[i] \/ Before(s, x, s[i]))
  <1>1. Len(s) \in Nat /\ DOMAIN s = 1 .. Len(s)
    OBVIOUS
  <1>2. ASSUME NEW k \in 1 .. Len(s), k <= i
        PROVE  s[k] = s[i] \/ Before(s, s[k], s[i])
    BY <1>2 DEF Before
  <1>3. CASE i = Len(s)
    <2>1. ASSUME x \in Range(s)  PROVE x = s[i] \/ Before(s, x, s[i])
      <3>1. PICK k \in 1 .. Len(s) : s[k] = x
        BY <1>1, <2>1 DEF Range
      <3>2. k <= i  BY <1>1, <1>3
      <3> QED BY <1>2, <3>1, <3>2
    <2> QED BY <1>3, <2>1
  <1>4. CASE i # Len(s)
    <2>1. i + 1 \in 1 .. Len(s)  BY <1>4
    <2>2. ASSUME Before(s, x, s[i + 1])  PROVE x = s[i] \/ Before(s, x, s[i])
      <3>1. PICK k, l \in 1 .. Len(s) : k < l /\ s[k] = x /\ s[l] = s[i + 1]
        BY <2>2 DEF Before
      <3>2. l = i + 1  BY <1>1, <2>1, <3>1 DEF IsInjective
      <3>3. k <= i  BY <3>1, <3>2
      <3> QED BY <1>2, <3>1, <3>3
    <2> QED BY <1>1, <1>4, <2>1, <2>2 DEF Range
  <1> QED BY <1>3, <1>4

===============================================================================

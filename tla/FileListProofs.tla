----------------------------- MODULE FileListProofs -----------------------------
(***************************************************************************)
(* Proofs about the list of files, pointer by pointer, under any number of *)
(* threads, names, links, files and facade objects.  The theorems before   *)
(* "Calls that do not overlap" say what holds until the list is broken.    *)
(*                                                                         *)
(* RInv: the links Chain names lead in a circle (Linked), pPrev leads back *)
(* but for the one link a call is about to store to (Back), and what each  *)
(* call between two stores holds is where its next store needs it          *)
(* (LinkNextOK to FreeOK).  Owned: who stores, the teardown apart, is in   *)
(* the critical section.  FileInv: no link and no call has a file that has *)
(* been freed, and a file that no link has a call has.  A step either      *)
(* touches no link (Quiet; Moves and FileMoves say where it leads the call *)
(* and what becomes of the files) or is one of seven (Store), each of      *)
(* which has a lemma for what it does to the circle.                       *)
(*                                                                         *)
(* While no call that takes links out has met another, such a call is      *)
(* alone and every pointer that anyone follows leads to a link of the      *)
(* circle (OInv), the link of a file that is about to be freed is out of   *)
(* the list, for del_link has searched all of it (GoneInv), and the        *)
(* teardown is always at the first link (TearInv).                         *)
(*                                                                         *)
(* A search follows pointers that others store to.  What is Ahead of it is *)
(* said with sets: a file's link is in every set of links that contains    *)
(* the place of the search and that pNext does not lead out of, and none   *)
(* is if some such set has no link of the file.  Both survive every store  *)
(* (StoresAhead, StoresNoneAhead), with no induction over the way.         *)
(***************************************************************************)
EXTENDS MemfsLifecycleProofs, MemfsLemmas

(* Circles of links                                                        *)

(* The i-th link of s, which its head comes before and after.              *)
Place(head, s, i) == IF i \in 1 .. Len(s) THEN s[i] ELSE head

(* Following nxt from the head leads through the links of s, each of them  *)
(* once, and back.                                                         *)
Circle(head, nxt, A, s) ==
  /\ s \in Seq(A \ {head}) /\ IsInjective(s)
  /\ \A i \in 0 .. Len(s) : nxt[Place(head, s, i)] = Place(head, s, i + 1)

Links(head, s) == {head} \cup Range(s)

LEMMA CircleFacts ==
  ASSUME NEW A, NEW head \in A, NEW nxt, NEW s, Circle(head, nxt, A, s)
  PROVE  LET L == Links(head, s)
         IN /\ head \in L /\ L \subseteq A
            /\ \A n \in L : nxt[n] \in L
            /\ \A m, n \in L : nxt[m] = nxt[n] => m = n
            /\ \A n \in L : \E q \in L : nxt[q] = n
            /\ \A n \in L : nxt[n] = n => n = head
            /\ nxt[head] = head => L = {head}
  <1> DEFINE P(i) == Place(head, s, i)
  <1>1. /\ s \in Seq(A) /\ Len(s) \in Nat /\ DOMAIN s = 1 .. Len(s)
        /\ \A i \in 1 .. Len(s) : s[i] \in A \ {head}
        /\ \A i, j \in 1 .. Len(s) : s[i] = s[j] => i = j
    <2>1. \A i, j \in DOMAIN s : s[i] = s[j] => i = j
      BY DEF Circle, IsInjective
    <2> QED BY <2>1 DEF Circle
  <1>2. \A i \in 0 .. Len(s) : nxt[P(i)] = P(i + 1)
    BY DEF Circle
  <1>3. /\ P(0) = head /\ P(Len(s) + 1) = head
        /\ \A i \in 1 .. Len(s) : P(i) = s[i]
    BY <1>1 DEF Place
  <1> HIDE DEF P
  <1>4. \A n : n \in Links(head, s) <=> \E i \in 0 .. Len(s) : n = P(i)
    BY <1>1, <1>3 DEF Links, Range
  <1>5. \A i, j \in 0 .. Len(s) : P(i) = P(j) => i = j
    BY <1>1, <1>3
  <1>6. \A i, j \in 1 .. Len(s) + 1 : P(i) = P(j) => i = j
    BY <1>1, <1>3
  <1>7. \A i \in 1 .. Len(s) + 1 : P(i) \in Links(head, s)
    BY <1>1, <1>3, <1>4
  <1> DEFINE L == Links(head, s)
  <1>8. head \in L /\ L \subseteq A
    BY <1>1 DEF Links, Range
  <1>9. \A n \in L : nxt[n] \in L
    BY <1>1, <1>2, <1>4, <1>7
  <1>10. ASSUME NEW m \in L, NEW n \in L, nxt[m] = nxt[n]  PROVE m = n
    <2>1. PICK i \in 0 .. Len(s) : m = P(i)  BY <1>4
    <2>2. PICK j \in 0 .. Len(s) : n = P(j)  BY <1>4
    <2>3. P(i + 1) = P(j + 1)  BY <1>2, <1>10, <2>1, <2>2
    <2>4. i + 1 = j + 1  BY <1>1, <1>6, <2>3
    <2> QED BY <2>1, <2>2, <2>4
  <1>11. ASSUME NEW n \in L  PROVE \E q \in L : nxt[q] = n
    <2>1. PICK i \in 0 .. Len(s) : n = P(i)  BY <1>4
    <2>2. CASE i = 0
      <3>1. P(Len(s)) \in L  BY <1>1, <1>4
      <3>2. nxt[P(Len(s))] = head  BY <1>1, <1>2, <1>3
      <3> QED BY <3>1, <3>2, <2>1, <2>2, <1>3
    <2>3. CASE i # 0
      <3>1. i - 1 \in 0 .. Len(s) /\ (i - 1) + 1 = i  BY <1>1, <2>3
      <3>2. P(i - 1) \in L /\ nxt[P(i - 1)] = n  BY <1>2, <1>4, <2>1, <3>1
      <3> QED BY <3>2
    <2> QED BY <2>2, <2>3
  <1>12. ASSUME NEW n \in L, nxt[n] = n  PROVE n = head
    <2>1. PICK i \in 0 .. Len(s) : n = P(i)  BY <1>4
    <2>2. P(i + 1) = P(i)  BY <1>2, <1>12, <2>1
    <2>3. i = 0  BY <1>1, <1>6, <2>2
    <2> QED BY <1>3, <2>1, <2>3
  <1>13. ASSUME nxt[head] = head  PROVE L = {head}
    <2>1. P(1) = head  BY <1>1, <1>2, <1>3, <1>13
    <2>2. Len(s) = 0  BY <1>1, <1>3, <2>1
    <2> QED BY <1>1, <2>2 DEF Links, Range
  <1> QED BY <1>8, <1>9, <1>10, <1>11, <1>12, <1>13

(* add_link: a link is put in before the head, behind the last.            *)
LEMMA CircleAppend ==
  ASSUME NEW A, NEW head \in A, NEW nxt, NEW s, Circle(head, nxt, A, s),
         NEW B, A \subseteq B, NEW p \in B, p \notin Links(head, s),
         NEW l \in Links(head, s), nxt[l] = head,
         NEW nxu, nxu[l] = p, nxu[p] = head,
         \A n \in Links(head, s) : n # l => nxu[n] = nxt[n]
  PROVE  /\ Circle(head, nxu, B, Append(s, p))
         /\ Links(head, Append(s, p)) = Links(head, s) \cup {p}
  <1> DEFINE u == Append(s, p)
  <1>1. /\ s \in Seq(B \ {head}) /\ Len(s) \in Nat /\ DOMAIN s = 1 .. Len(s)
        /\ IsInjective(s)
        /\ \A i \in 0 .. Len(s) : nxt[Place(head, s, i)] = Place(head, s, i + 1)
    BY DEF Circle
  <1>2. p # head /\ p \notin Range(s)
    BY DEF Links
  <1>3. /\ u \in Seq(B \ {head}) /\ IsInjective(u)
        /\ Range(u) = Range(s) \cup {p}
    BY <1>1, <1>2, RangeAppend
  <1>4. /\ Len(u) = Len(s) + 1
        /\ \A i \in 1 .. Len(s) : u[i] = s[i]
        /\ u[Len(s) + 1] = p
    BY <1>1
  <1> HIDE DEF u
  <1>5. l = Place(head, s, Len(s))
    <2>1. Place(head, s, Len(s)) \in Links(head, s)
      BY <1>1 DEF Place, Links, Range
    <2>2. nxt[Place(head, s, Len(s))] = head
      BY <1>1 DEF Place
    <2> QED BY <2>1, <2>2, CircleFacts
  <1>6. ASSUME NEW i \in 0 .. Len(u)
        PROVE  nxu[Place(head, u, i)] = Place(head, u, i + 1)
    <2>1. CASE i = Len(s) + 1
      BY <1>1, <1>4, <2>1 DEF Place
    <2>2. CASE i = Len(s)
      <3>1. Place(head, u, i) = l
        BY <1>1, <1>4, <1>5, <2>2 DEF Place
      <3> QED BY <1>1, <1>4, <2>2, <3>1 DEF Place
    <2>3. CASE i < Len(s)
      <3>1. /\ Place(head, u, i) = Place(head, s, i)
            /\ Place(head, u, i + 1) = Place(head, s, i + 1)
        BY <1>1, <1>4, <2>3 DEF Place
      <3>2. Place(head, s, i) \in Links(head, s)
        BY <1>1, <2>3 DEF Place, Links, Range
      <3>3. Place(head, s, i + 1) # head
        BY <1>1, <2>3 DEF Place
      <3>4. nxt[Place(head, s, i)] = Place(head, s, i + 1)
        BY <1>1, <2>3
      <3> QED BY <3>1, <3>2, <3>3, <3>4
    <2>4. i \in Int /\ i <= Len(s) + 1  BY <1>1, <1>4
    <2>5. i = Len(s) + 1 \/ i = Len(s) \/ i < Len(s)
      <3>1. Len(s) \in Int  BY <1>1
      <3> QED BY <2>4, <3>1
    <2> QED BY <2>1, <2>2, <2>3, <2>5
  <1>7. Links(head, u) = Links(head, s) \cup {p}
    BY <1>3 DEF Links
  <1>8. Circle(head, nxu, B, u)
    BY <1>3, <1>6 DEF Circle
  <1> QED BY <1>7, <1>8 DEF u

(* del_link: the one before a link now leads to the one behind it.         *)
LEMMA CircleRemove ==
  ASSUME NEW A, NEW head \in A, NEW nxt, NEW s, Circle(head, nxt, A, s),
         NEW p \in Links(head, s), p # head,
         NEW q \in Links(head, s), nxt[q] = p,
         NEW nxu, nxu[q] = nxt[p],
         \A n \in Links(head, s) : n # q => nxu[n] = nxt[n]
  PROVE  /\ Circle(head, nxu, A, RemoveFirst(s, p))
         /\ Links(head, RemoveFirst(s, p)) = Links(head, s) \ {p}
  <1> DEFINE u == RemoveFirst(s, p)
  <1>1. /\ s \in Seq(A \ {head}) /\ Len(s) \in Nat /\ DOMAIN s = 1 .. Len(s)
        /\ IsInjective(s)
        /\ \A i \in 0 .. Len(s) : nxt[Place(head, s, i)] = Place(head, s, i + 1)
    BY DEF Circle
  <1>2. p \in Range(s)
    BY DEF Links
  <1>3. /\ u \in Seq(A \ {head}) /\ IsInjective(u) /\ Range(u) = Range(s) \ {p}
    BY <1>1, <1>2, RangeRemove
  <1>4. PICK k \in 1 .. Len(s) :
          /\ s[k] = p /\ Len(u) = Len(s) - 1
          /\ \A i \in 1 .. Len(s) - 1 : u[i] = IF i <= k - 1 THEN s[i] ELSE s[i + 1]
    <2> DEFINE S == A \ {head}
    <2>1. s \in Seq(S)  BY <1>1
    <2> HIDE DEF S
    <2> QED BY <1>2, <2>1, RemoveShape
  <1> HIDE DEF u
  <1>5. q = Place(head, s, k - 1)
    <2>1. Place(head, s, k - 1) \in Links(head, s)
      BY <1>1 DEF Place, Links, Range
    <2>2. nxt[Place(head, s, k - 1)] = p
      <3>1. (k - 1) + 1 = k /\ k - 1 \in 0 .. Len(s)  BY <1>1
      <3>2. Place(head, s, k) = p  BY <1>4 DEF Place
      <3> QED BY <1>1, <3>1, <3>2
    <2> QED BY <2>1, <2>2, CircleFacts
  <1>6. nxu[q] = Place(head, s, k + 1)
    <2>1. Place(head, s, k) = p  BY <1>4 DEF Place
    <2> QED BY <1>1, <2>1
  <1>7. \A i, j \in 1 .. Len(s) : s[i] = s[j] => i = j
    BY <1>1 DEF IsInjective
  <1>8. ASSUME NEW i \in 0 .. Len(u)
        PROVE  nxu[Place(head, u, i)] = Place(head, u, i + 1)
    <2>1. CASE i = k - 1
      <3>1. Place(head, u, i) = q
        BY <1>1, <1>4, <1>5, <2>1 DEF Place
      <3>2. Place(head, u, i + 1) = Place(head, s, k + 1)
        BY <1>1, <1>4, <2>1 DEF Place
      <3> QED BY <1>6, <3>1, <3>2
    <2>2. CASE i < k - 1
      <3>1. /\ Place(head, u, i) = Place(head, s, i)
            /\ Place(head, u, i + 1) = Place(head, s, i + 1)
        BY <1>1, <1>4, <2>2 DEF Place
      <3>2. Place(head, s, i) \in Links(head, s)
        BY <1>1, <2>2 DEF Place, Links, Range
      <3>3. nxt[Place(head, s, i)] = Place(head, s, i + 1)
        BY <1>1, <2>2
      <3>4. Place(head, s, i + 1) # p
        BY <1>1, <1>4, <1>7, <2>2 DEF Place
      <3> QED BY <3>1, <3>2, <3>3, <3>4
    <2>3. CASE i > k - 1
      <3>1. /\ Place(head, u, i) = Place(head, s, i + 1)
            /\ Place(head, u, i + 1) = Place(head, s, i + 2)
        BY <1>1, <1>4, <2>3 DEF Place
      <3>2. Place(head, s, i + 1) \in Links(head, s)
        BY <1>1, <2>3 DEF Place, Links, Range
      <3>3. nxt[Place(head, s, i + 1)] = Place(head, s, i + 2)
        <4>1. i + 1 \in 0 .. Len(s) /\ (i + 1) + 1 = i + 2  BY <1>1, <1>4
        <4> QED BY <1>1, <4>1
      <3>4. Place(head, s, i + 2) # p
        BY <1>1, <1>4, <1>7, <2>3 DEF Place
      <3> QED BY <3>1, <3>2, <3>3, <3>4
    <2> QED BY <1>1, <1>4, <2>1, <2>2, <2>3
  <1>9. Links(head, u) = Links(head, s) \ {p}
    BY <1>3 DEF Links
  <1>10. Circle(head, nxu, A, u)
    BY <1>3, <1>8 DEF Circle
  <1> QED BY <1>9, <1>10 DEF u

(* A circle of the state's pointers is the chain.                          *)
LEMMA CircleShort ==
  ASSUME NEW A, A \subseteq Nodes, NEW head, NEW nxt, NEW s,
         Circle(head, nxt, A, s)
  PROVE  Len(s) \in 0 .. Cardinality(Nodes) /\ Cardinality(Nodes) \in Nat
  <1>1. IsFiniteSet(Nodes)  BY ListAssumption
  <1>2. Len(s) \in Nat /\ s \in [1 .. Len(s) -> Nodes] /\ IsInjective(s)
    BY DEF Circle
  <1>3. s \in Injection(1 .. Len(s), Nodes)
    BY <1>2 DEF Injection
  <1>4. Cardinality(1 .. Len(s)) <= Cardinality(Nodes)
    BY <1>1, <1>3, FS_Injection
  <1>5. Cardinality(1 .. Len(s)) = Len(s)
    <2>1. Cardinality(1 .. Len(s)) = IF 1 > Len(s) THEN 0 ELSE Len(s) - 1 + 1
      BY <1>2, FS_Interval
    <2> QED BY <1>2, <2>1
  <1>6. Cardinality(Nodes) \in Nat
    BY <1>1, FS_CardinalityType
  <1> QED BY <1>2, <1>4, <1>5, <1>6

LEMMA ChainIs ==
  \A s : pAppData \in alloc /\ alloc \subseteq Nodes
         /\ Circle(pAppData, next, alloc, s) => Chain = s
  <1> SUFFICES ASSUME NEW s, pAppData \in alloc, alloc \subseteq Nodes,
                      Circle(pAppData, next, alloc, s)
               PROVE  Chain = s
    OBVIOUS
  <1> DEFINE C == Cardinality(Nodes)
             A == alloc \ {pAppData}
             Step(u) == LET p == next[IF u = <<>> THEN pAppData ELSE Last(u)]
                        IN IF p \in A THEN Append(u, p) ELSE u
             Upto(n) == SubSeq(s, 1, IF n <= Len(s) THEN n ELSE Len(s))
             f == [n \in 0 .. C |-> Upto(n)]
  <1>1. Len(s) \in 0 .. C /\ C \in Nat
    BY CircleShort
  <1>2. s \in Seq(A)
        /\ \A i \in 0 .. Len(s) :
             next[Place(pAppData, s, i)] = Place(pAppData, s, i + 1)
    BY DEF Circle
  <1> HIDE DEF C
  <1>3. Upto(0) = <<>> /\ Upto(C) = s
    <2>1. SubSeq(s, 1, 0) = <<>>  BY <1>2, SubSeqEmpty
    <2>2. SubSeq(s, 1, Len(s)) = s  BY <1>2, SubSeqFull
    <2>3. /\ (IF 0 <= Len(s) THEN 0 ELSE Len(s)) = 0
          /\ (IF C <= Len(s) THEN C ELSE Len(s)) = Len(s)
      BY <1>1
    <2> QED BY ONLY <2>1, <2>2, <2>3
  <1>4. ASSUME NEW n \in 1 .. C  PROVE Upto(n) = Step(Upto(n - 1))
    <2>1. CASE n <= Len(s)
      <3>1. Upto(n) = Append(Upto(n - 1), s[n])
        BY <1>1, <1>2, <2>1
      <3>2. next[IF Upto(n - 1) = <<>> THEN pAppData ELSE Last(Upto(n - 1))] = s[n]
        <4>1. Place(pAppData, s, n) = s[n] /\ (n - 1) + 1 = n
          BY <1>1, <2>1 DEF Place
        <4>2. (IF Upto(n - 1) = <<>> THEN pAppData ELSE Last(Upto(n - 1)))
                = Place(pAppData, s, n - 1)
          BY <1>1, <1>2, <2>1 DEF Place, Last
        <4>3. next[Place(pAppData, s, n - 1)] = s[n]
          BY <1>1, <1>2, <2>1, <4>1
        <4> QED BY <4>2, <4>3
      <3>3. s[n] \in A  BY <1>1, <1>2, <2>1
      <3> HIDE DEF Upto
      <3> QED BY <3>1, <3>2, <3>3
    <2>2. CASE n > Len(s)
      <3>1. Upto(n) = s /\ Upto(n - 1) = s
        <4>1. SubSeq(s, 1, Len(s)) = s  BY <1>2, SubSeqFull
        <4>2. /\ (IF n <= Len(s) THEN n ELSE Len(s)) = Len(s)
              /\ (IF n - 1 <= Len(s) THEN n - 1 ELSE Len(s)) = Len(s)
          BY <1>1, <2>2
        <4> QED BY ONLY <4>1, <4>2
      <3>2. (IF s = <<>> THEN pAppData ELSE Last(s)) = Place(pAppData, s, Len(s))
        BY <1>1, <1>2 DEF Place, Last
      <3>3. next[Place(pAppData, s, Len(s))] = pAppData
        <4>1. Place(pAppData, s, Len(s) + 1) = pAppData
          BY <1>1 DEF Place
        <4> QED BY <1>1, <1>2, <4>1
      <3> HIDE DEF Upto
      <3> QED BY <3>1, <3>2, <3>3
    <2> QED BY <1>1, <2>1, <2>2
  <1> DEFINE G(g) == g = [n \in 0 .. C |-> IF n = 0 THEN <<>> ELSE Step(g[n - 1])]
             along == CHOOSE g : G(g)
  <1>5. G(f)
    <2>1. \A n \in 0 .. C : f[n] = IF n = 0 THEN <<>> ELSE Step(f[n - 1])
      <3> SUFFICES ASSUME NEW n \in 0 .. C
                   PROVE  f[n] = IF n = 0 THEN <<>> ELSE Step(f[n - 1])
        OBVIOUS
      <3> HIDE DEF Upto, Step
      <3>1. CASE n = 0  BY <1>3, <3>1
      <3>2. CASE n # 0
        <4>1. n \in 1 .. C /\ n - 1 \in 0 .. C  BY <1>1, <3>2
        <4>2. f[n] = Upto(n) /\ f[n - 1] = Upto(n - 1)  BY <4>1
        <4> QED BY <1>4, <3>2, <4>1, <4>2
      <3> QED BY <3>1, <3>2
    <2>2. f = [n \in 0 .. C |-> f[n]]  OBVIOUS
    <2> HIDE DEF f, Step
    <2> QED BY <2>1, <2>2
  <1>6. G(along)
    <2> HIDE DEF G
    <2> QED BY <1>5
  <1>7. \A n \in 0 .. C : along[n] = Upto(n)
    <2> DEFINE S == {n \in 0 .. C : along[n] = Upto(n)}
    <2>1. \A n \in 0 .. C : along[n] = IF n = 0 THEN <<>> ELSE Step(along[n - 1])
      <3> HIDE DEF along, Step
      <3> QED BY <1>6
    <2> HIDE DEF along, Upto, Step
    <2>2. 0 \in S  BY <1>1, <1>3, <2>1
    <2>3. \A n \in 0 .. C - 1 : n \in S => n + 1 \in S
      <3> SUFFICES ASSUME NEW n \in 0 .. C - 1, n \in S  PROVE n + 1 \in S
        OBVIOUS
      <3>1. n + 1 \in 1 .. C /\ (n + 1) - 1 = n /\ n + 1 \in 0 .. C /\ n + 1 # 0
        BY <1>1
      <3>2. along[n + 1] = Step(along[n])  BY <2>1, <3>1
      <3>3. Upto(n + 1) = Step(Upto(n))  BY <1>4, <3>1
      <3> QED BY <3>1, <3>2, <3>3
    <2> HIDE DEF S
    <2>4. \A n \in 0 .. C : n \in S  BY <1>1, <2>2, <2>3, InductionTo
    <2> QED BY <2>4 DEF S
  <1>8. along[C] = s
    <2> HIDE DEF along, Upto
    <2> QED BY <1>1, <1>3, <1>7
  <1>9. Chain = along[C]
    <2>1. pAppData # NULL  BY ListAssumption
    <2> QED BY <2>1 DEF Chain, C
  <1> QED BY <1>8, <1>9
-------------------------------------------------------------------------------
(* The links as a state has them                                           *)

Linked == pAppData \in alloc /\ Circle(pAppData, next, alloc, Chain)

LEMMA RingIsLinks == Ring = Links(pAppData, Chain)
  BY DEF Ring, Links, ToSet, Range

LEMMA RingFacts ==
  Linked =>
    /\ pAppData \in Ring /\ Ring \subseteq alloc
    /\ \A n \in Ring : next[n] \in Ring
    /\ \A m, n \in Ring : next[m] = next[n] => m = n
    /\ \A n \in Ring : \E q \in Ring : next[q] = n
    /\ \A n \in Ring : next[n] = n => n = pAppData
    /\ next[pAppData] = pAppData => Ring = {pAppData}
  <1> SUFFICES ASSUME Linked
               PROVE  /\ pAppData \in Ring /\ Ring \subseteq alloc
                      /\ \A n \in Ring : next[n] \in Ring
                      /\ \A m, n \in Ring : next[m] = next[n] => m = n
                      /\ \A n \in Ring : \E q \in Ring : next[q] = n
                      /\ \A n \in Ring : next[n] = n => n = pAppData
                      /\ next[pAppData] = pAppData => Ring = {pAppData}
    OBVIOUS
  <1> QED BY CircleFacts, RingIsLinks DEF Linked

LEMMA LinkedIs ==
  \A s : pAppData \in alloc /\ MemoryOK /\ Circle(pAppData, next, alloc, s)
         => Linked /\ Chain = s /\ Ring = Links(pAppData, s)
  <1> SUFFICES ASSUME NEW s, pAppData \in alloc, MemoryOK,
                      Circle(pAppData, next, alloc, s)
               PROVE  Linked /\ Chain = s /\ Ring = Links(pAppData, s)
    OBVIOUS
  <1>1. Chain = s  BY ChainIs DEF MemoryOK
  <1> QED BY <1>1, RingIsLinks DEF Linked

LEMMA LinkedIsNext ==
  (\A s : pAppData \in alloc /\ MemoryOK /\ Circle(pAppData, next, alloc, s)
          => Linked /\ Chain = s /\ Ring = Links(pAppData, s))'
  BY LinkedIs, PTL

LEMMA RingSame ==
  ASSUME Linked, MemoryOK', pAppData' = pAppData, Ring \subseteq alloc',
         \A n \in Ring : next'[n] = next[n]
  PROVE  Linked' /\ Chain' = Chain /\ Ring' = Ring
  <1>1. pAppData' \in alloc'  BY RingFacts
  <1>2. Circle(pAppData, next', alloc', Chain)
    <2>1. /\ Chain \in Seq(alloc \ {pAppData}) /\ IsInjective(Chain)
          /\ \A i \in 0 .. Len(Chain) :
               next[Place(pAppData, Chain, i)] = Place(pAppData, Chain, i + 1)
      BY DEF Linked, Circle
    <2>2. \A i \in 0 .. Len(Chain) : Place(pAppData, Chain, i) \in Ring
      BY <2>1, RingIsLinks DEF Place, Links, Range
    <2>3. Chain \in Seq(alloc' \ {pAppData})
      <3>1. \A i \in 1 .. Len(Chain) : Chain[i] \in alloc' \ {pAppData}
        BY <2>1, RingIsLinks DEF Links, Range
      <3> QED BY <2>1, <3>1, IsASeq
    <2> QED BY <2>1, <2>2, <2>3 DEF Circle
  <1> QED BY <1>1, <1>2, LinkedIsNext, RingIsLinks

LEMMA RingAppend ==
  ASSUME Linked, MemoryOK', pAppData' = pAppData, alloc' = alloc,
         NEW p \in alloc \ Ring, NEW l \in Ring, next[l] = pAppData,
         next'[l] = p, next'[p] = pAppData,
         \A n \in Ring : n # l => next'[n] = next[n]
  PROVE  Linked' /\ Chain' = Append(Chain, p) /\ Ring' = Ring \cup {p}
  <1>1. /\ Circle(pAppData, next', alloc', Append(Chain, p))
        /\ Links(pAppData, Append(Chain, p)) = Links(pAppData, Chain) \cup {p}
    BY RingIsLinks, CircleAppend DEF Linked
  <1> QED BY <1>1, LinkedIsNext, RingIsLinks DEF Linked

LEMMA RingRemove ==
  ASSUME Linked, MemoryOK', pAppData' = pAppData, alloc' = alloc,
         NEW p \in Ring, p # pAppData, NEW q \in Ring, next[q] = p,
         next'[q] = next[p],
         \A n \in Ring : n # q => next'[n] = next[n]
  PROVE  Linked' /\ Chain' = RemoveFirst(Chain, p) /\ Ring' = Ring \ {p}
  <1>1. /\ Circle(pAppData, next', alloc', RemoveFirst(Chain, p))
        /\ Links(pAppData, RemoveFirst(Chain, p)) = Links(pAppData, Chain) \ {p}
    BY RingIsLinks, CircleRemove DEF Linked
  <1> QED BY <1>1, LinkedIsNext, RingIsLinks DEF Linked

LEMMA RingMade ==
  ASSUME MemoryOK', pAppData' \in alloc', next'[pAppData'] = pAppData'
  PROVE  Linked' /\ Chain' = <<>> /\ Ring' = {pAppData'}
  <1>1. Circle(pAppData', next', alloc', <<>>)
    BY DEF Circle, IsInjective, Place
  <1>2. Links(pAppData', <<>>) = {pAppData'}
    BY DEF Links, Range
  <1> QED BY <1>1, <1>2, LinkedIsNext
-------------------------------------------------------------------------------
(* The list while it is whole                                              *)

(* Where a call is that has not come to the list.                          *)
Early == {"idle", "Vfs", "Start", "Sync", "Dispose"}

(* Who holds a link that is not, or not quite, in the ring.                *)
Holding == {"LinkNext", "LinkPrev", "UnlinkPrev", "Free"}

(* Pointers lead to allocated links, if to any.                            *)
Contained ==
  /\ \A n \in Nodes : /\ prev[n] \in alloc \cup {NULL, Freed}
                      /\ next[n] \in alloc \cup {NULL, Freed}
  /\ \A n \in Nodes \ alloc : prev[n] = NULL /\ next[n] = NULL
  /\ \A t \in Threads : call[t].ptr \in alloc \cup {NULL, Freed}

(* Before the list is made, no call has come to it and nothing of it is    *)
(* allocated.                                                              *)
Unmade ==
  pAppData = NULL => alloc = {} /\ \A t \in Threads : call[t].pc \in Early

(* All calls speak of one list.                                            *)
HeadOK(c) ==
  /\ c.pc \in Early => c.ptr = NULL
  /\ c.pc \notin Early => c.head = pAppData
  /\ c.root \in {NULL, pAppData}

OneStores ==
  \A t, u \in Threads :
    call[t].pc \in {"LinkPrev", "UnlinkPrev"}
    /\ call[u].pc \in {"LinkPrev", "UnlinkPrev"} => t = u

(* A link that is not in the ring is not what its pPrev leads to.          *)
Off == \A x \in alloc \ Ring : prev[x] \in alloc => next[prev[x]] # x

(* pPrev leads back, but for the one link a call is about to set it of.    *)
Back ==
  \A q \in Ring :
    \/ prev[next[q]] = q
    \/ \E t \in Threads :
         \/ call[t].pc = "LinkPrev" /\ call[t].ptr = q
         \/ call[t].pc = "UnlinkPrev" /\ prev[call[t].ptr] = q

LinkNextOK(t) ==
  LET p == call[t].ptr
  IN call[t].pc = "LinkNext" =>
       /\ p \in alloc \ Ring
       /\ next[p] = pAppData /\ prev[p] = prev[pAppData]
       /\ \A n \in alloc : next[n] # p /\ prev[n] # p
       /\ \A u \in Threads \ {t} : call[u].ptr # p

LinkPrevOK(t) ==
  LET p == call[t].ptr
  IN call[t].pc = "LinkPrev" =>
       /\ p \in Ring \ {pAppData} /\ next[p] = pAppData
       /\ prev[p] \in Ring /\ next[prev[p]] = p /\ prev[pAppData] = prev[p]

UnlinkNextOK(t) ==
  call[t].pc \in {"DelEnter", "UnlinkNext"} =>
    call[t].ptr \notin {pAppData, NULL}

UnlinkPrevOK(t) ==
  LET p == call[t].ptr
  IN call[t].pc = "UnlinkPrev" =>
       /\ p \in alloc \ Ring
       /\ prev[p] \in Ring /\ next[prev[p]] = next[p] /\ prev[next[p]] = p

FreeOK(t) ==
  LET p == call[t].ptr
  IN call[t].pc = "Free" => p \in alloc \ Ring /\ prev[p] # p

Whole ==
  /\ Linked /\ OneStores /\ Off /\ Back
  /\ \A t \in Threads : LinkNextOK(t) /\ LinkPrevOK(t) /\ UnlinkNextOK(t)
                        /\ UnlinkPrevOK(t) /\ FreeOK(t)

RingOK ==
  /\ Contained /\ Unmade
  /\ \A t \in Threads : HeadOK(call[t])
  /\ pAppData # NULL => Whole

RInv == ~broken => RingOK
-------------------------------------------------------------------------------
(* A step that touches no link: only thread t's call changes, and it comes *)
(* to and leaves none of the places where one is held.                     *)
Quiet(t) ==
  LET c == call[t]  d == call'[t]
  IN /\ UNCHANGED <<pAppData, memory>>
     /\ \A u \in Threads \ {t} : call'[u] = call[u]
     /\ c.pc \notin Holding /\ d.pc \notin Holding
     /\ \/ d.ptr = NULL \/ d.ptr = c.ptr
        \/ \E n \in alloc : d.ptr = next[n]
     /\ d.pc \in Early \/ (pAppData # NULL /\ d.head = pAppData)
     /\ d.pc \in Early => d.ptr = NULL
     /\ d.root \in {NULL, pAppData}
     /\ d.pc \in {"DelEnter", "UnlinkNext"} => d.ptr \notin {pAppData, NULL}

LEMMA QuietKeeps ==
  ASSUME MemoryOK, MemoryOK', RingOK, NEW t \in Threads, Quiet(t)
  PROVE  /\ RingOK'
         /\ pAppData # NULL => Chain' = Chain /\ Ring' = Ring
  <1>1. /\ pAppData' = pAppData /\ prev' = prev /\ next' = next
        /\ alloc' = alloc /\ obj' = obj
    BY DEF Quiet, memory
  <1>2. /\ \A u \in Threads \ {t} : call'[u] = call[u]
        /\ call[t].pc \notin Holding /\ call'[t].pc \notin Holding
    BY DEF Quiet
  <1>3. Contained'
    <2>1. call'[t].ptr \in alloc \cup {NULL, Freed}
      <3>1. \A n \in alloc : n \in Nodes  BY DEF MemoryOK
      <3> QED BY <3>1 DEF Quiet, RingOK, Contained
    <2> QED BY <1>1, <1>2, <2>1 DEF RingOK, Contained
  <1>4. Unmade'
    BY <1>1, <1>2 DEF RingOK, Unmade, Quiet
  <1>5. \A u \in Threads : HeadOK(call[u])'
    BY <1>1, <1>2 DEF RingOK, HeadOK, Quiet
  <1>6. ASSUME pAppData # NULL
        PROVE  Whole' /\ Chain' = Chain /\ Ring' = Ring
    <2>1. Whole /\ Linked  BY <1>6 DEF RingOK, Whole
    <2>2. Linked' /\ Chain' = Chain /\ Ring' = Ring
      BY <1>1, <2>1, RingSame, RingFacts
    <2>3. OneStores'
      BY <1>2, <2>1 DEF Whole, OneStores, Holding
    <2>4. Off'
      BY <1>1, <2>1, <2>2 DEF Whole, Off
    <2>5. Back'
      BY <1>1, <1>2, <2>1, <2>2 DEF Whole, Back, Holding
    <2>6. ASSUME NEW u \in Threads
          PROVE  (LinkNextOK(u) /\ LinkPrevOK(u) /\ UnlinkNextOK(u)
                  /\ UnlinkPrevOK(u) /\ FreeOK(u))'
      <3>1. CASE u = t
        BY <1>1, <1>2, <3>1
           DEF LinkNextOK, LinkPrevOK, UnlinkNextOK, UnlinkPrevOK, FreeOK,
               Holding, Quiet
      <3>2. CASE u # t
        <4>1. call'[u] = call[u]  BY <1>2, <3>2
        <4>2. LinkNextOK(u)'
          <5> SUFFICES ASSUME call[u].pc = "LinkNext"  PROVE LinkNextOK(u)'
            BY <4>1 DEF LinkNextOK
          <5> DEFINE p == call[u].ptr
          <5>1. /\ p \in alloc \ Ring
                /\ next[p] = pAppData /\ prev[p] = prev[pAppData]
                /\ \A n \in alloc : next[n] # p /\ prev[n] # p
                /\ \A v \in Threads \ {u} : call[v].ptr # p
            BY <2>1 DEF Whole, LinkNextOK
          <5>2. call'[t].ptr # p
            <6>1. p # NULL  BY <5>1, ListAssumption DEF MemoryOK
            <6> QED BY <3>2, <5>1, <6>1 DEF Quiet
          <5>3. \A v \in Threads \ {u} : call'[v].ptr # p
            BY <1>2, <5>1, <5>2
          <5> QED BY <1>1, <2>2, <4>1, <5>1, <5>3 DEF LinkNextOK
        <4>3. (LinkPrevOK(u) /\ UnlinkNextOK(u) /\ UnlinkPrevOK(u) /\ FreeOK(u))'
          BY <1>1, <2>1, <2>2, <4>1
             DEF Whole, LinkPrevOK, UnlinkNextOK, UnlinkPrevOK, FreeOK
        <4> QED BY <4>2, <4>3
      <3> QED BY <3>1, <3>2
    <2> QED BY <2>2, <2>3, <2>4, <2>5, <2>6 DEF Whole
  <1> QED BY <1>1, <1>3, <1>4, <1>5, <1>6 DEF RingOK

(* Where the pointer of a call is a link that it walked to.                *)
Walking == {"Walk", "DelWalk", "TearWalk", "DelEnter", "UnlinkNext",
            "Destroy", "On"}

(* Where a step that touches no link leads the call of thread t            *)
Moves(t) ==
  LET c == call[t]  d == call'[t]
  IN /\ d.pc = "Vfs" => pAppData = NULL
     /\ d.pc = "Destroy" => c.pc = "DelWalk" /\ c.ptr = pAppData /\ d.op = "delete"
     /\ d.pc = "On" =>
          c.pc = "Destroy" /\ c.op = "destroy" /\ d.op = "destroy" /\ d.ptr = c.ptr
     /\ c.pc = "TearWalk" /\ d.pc = "idle" => c.ptr = pAppData
     /\ d.pc \in Walking =>
          \/ d.ptr = next[pAppData]
          \/ c.pc \in Walking /\ d.ptr \in {c.ptr, next[c.ptr]}
     /\ d.pc = "Walk" =>
          \/ c.pc # "Walk" /\ d.ptr = next[pAppData]
          \/ /\ c.pc = "Walk" /\ d.o = c.o /\ d.root = c.root
             /\ c.ptr \in alloc \ {pAppData} /\ zName[obj[c.ptr]] # c.o
             /\ d.ptr = next[c.ptr]
     /\ d.pc = "Add" =>
          c.pc = "Walk" /\ c.ptr = pAppData /\ c.root # NULL /\ d.o = c.o
     /\ d.pc = "DelWalk" =>
          /\ d.op = "delete" /\ d.file = c.file
          /\ \/ c.pc = "DelStart" /\ d.ptr = next[pAppData]
             \/ /\ c.pc = "DelWalk" /\ d.ptr = next[c.ptr]
                /\ c.ptr \in alloc \ {pAppData} /\ obj[c.ptr] # c.file
             \/ c.pc = "On" /\ c.op = "delete"
     /\ d.pc \in {"DelEnter", "UnlinkNext"} =>
          /\ d.ptr = c.ptr
          /\ \/ c.ptr \in alloc /\ obj[c.ptr] = d.file
             \/ c.pc = "DelEnter" /\ d.file = c.file
     /\ d.pc \in {"TearWalk", "UnlinkNext"} /\ d.op = "destroy" =>
          \/ d.ptr = next[pAppData]
          \/ /\ c.pc \in {"TearWalk", "On"} /\ c.op = "destroy"
             /\ d.ptr = IF c.pc = "On" THEN next[c.ptr] ELSE c.ptr

(* Where an xDelete or the teardown has the file that it is to free.       *)
WithFile(c) ==
  \/ c.pc \in {"DelStart", "DelWalk", "DelEnter", "UnlinkNext", "UnlinkPrev",
              "Free", "Destroy"}
  \/ c.pc = "On" /\ c.op = "delete"

(* and what becomes of the files: Destroy frees the one that the call has, *)
(* which nobody else then has; another call that comes to have one found   *)
(* it on a link.                                                           *)
FileMoves(t) ==
  LET c == call[t]  d == call'[t]
      Finds == c.ptr \in alloc \ {pAppData} /\ d.file = obj[c.ptr]
  IN /\ IF c.pc = "Destroy"
        THEN /\ files' = files \ {c.file} /\ d.file = NULL
             /\ \A n \in alloc : obj[n] # c.file
             /\ \A u \in Threads \ {t} : call[u].file # c.file
        ELSE /\ files' = files
             /\ c.file # NULL => d.file = c.file
     /\ d.file \in {NULL, c.file} \/ Finds
     /\ WithFile(d) =>
          \/ WithFile(c) /\ d.file = c.file /\ d.op = c.op /\ d.o = c.o
          \/ Finds /\ (d.op = "delete" => zName[d.file] = d.o)

QuietActions(t) ==
  \/ MakeListFails(t) \/ WalkStart(t) \/ WalkOn(t) \/ WalkFound(t)
  \/ WalkMissed(t) \/ OpenEnter(t) \/ AddFails(t) \/ DelStart(t)
  \/ DelPasses(t) \/ DelFinds(t) \/ DelEnd(t) \/ DelEnter(t) \/ GoOn(t)
  \/ Destroy(t)
  \/ \E op \in Ops, o \in Names : Begin(t, op, o)
  \/ LifeStep(t)
  \/ \E m \in Users : New(t, m) \/ DisposeTest(t, m)

LEMMA QuietSteps ==
  ASSUME ListOK, RingOK, ~broken, ~broken', NEW t \in Threads, QuietActions(t)
  PROVE  Quiet(t) /\ Moves(t) /\ FileMoves(t)
  <1>1. /\ call[t] \in CallType /\ call \in [Threads -> CallType]
        /\ HeadOK(call[t]) /\ PlaceOK(call[t])
    BY DEF ListOK, CallOK, PlacesOK, RingOK
  <1>2. NULL \notin alloc /\ (call[t].pc \notin Early => pAppData # NULL)
    BY ListAssumption DEF ListOK, MemoryOK, RingOK, Unmade
  <1>3. ASSUME MakeListFails(t)  PROVE Quiet(t) /\ Moves(t) /\ FileMoves(t)
    <2>0. pAppData = NULL  BY <1>3 DEF MakeListFails
    <2>1. /\ UNCHANGED <<pAppData, memory>>
          /\ \A u \in Threads \ {t} : call'[u] = call[u]
      BY <2>0, <1>1, <1>3 DEF MakeListFails, Goto, Return, memory
    <2> QED BY <1>1, <1>2, <2>1, <1>3
            DEF MakeListFails, At, Sound, Needs, Quiet, Moves, FileMoves,
                WithFile, Walking, Holding, Early, HeadOK, PlaceOK, Ops, Goto,
                Return, Idle, VfsPc, CallType
  <1>4. ASSUME WalkStart(t)  PROVE Quiet(t) /\ Moves(t) /\ FileMoves(t)
    <2>1. /\ UNCHANGED <<pAppData, memory>>
          /\ \A u \in Threads \ {t} : call'[u] = call[u]
      BY <1>1, <1>4 DEF WalkStart, Goto, Return, memory
    <2> QED BY <1>1, <1>2, <2>1, <1>4
            DEF WalkStart, At, Sound, Needs, Quiet, Moves, FileMoves, WithFile,
                Walking, Holding, Early, HeadOK, PlaceOK, Ops, Goto, Return,
                Idle, VfsPc, CallType
  <1>5. ASSUME WalkOn(t)  PROVE Quiet(t) /\ Moves(t) /\ FileMoves(t)
    <2>1. /\ UNCHANGED <<pAppData, memory>>
          /\ \A u \in Threads \ {t} : call'[u] = call[u]
      BY <1>1, <1>5 DEF WalkOn, Goto, Return, memory
    <2> QED BY <1>1, <1>2, <2>1, <1>5
            DEF WalkOn, At, Sound, Needs, Quiet, Moves, FileMoves, WithFile,
                Walking, Holding, Early, HeadOK, PlaceOK, Ops, Goto, Return,
                Idle, VfsPc, CallType
  <1>6. ASSUME WalkFound(t)  PROVE Quiet(t) /\ Moves(t) /\ FileMoves(t)
    <2>1. /\ UNCHANGED <<pAppData, memory>>
          /\ \A u \in Threads \ {t} : call'[u] = call[u]
      BY <1>1, <1>6 DEF WalkFound, Found, Goto, Return, memory
    <2> QED BY <1>1, <1>2, <2>1, <1>6
            DEF WalkFound, Found, At, Sound, Needs, Quiet, Moves, FileMoves,
                WithFile, Walking, Holding, Early, HeadOK, PlaceOK, Ops, Goto,
                Return, Idle, VfsPc, CallType
  <1>7. ASSUME WalkMissed(t)  PROVE Quiet(t) /\ Moves(t) /\ FileMoves(t)
    <2>1. /\ UNCHANGED <<pAppData, memory>>
          /\ \A u \in Threads \ {t} : call'[u] = call[u]
      BY <1>1, <1>7 DEF WalkMissed, Goto, Return, memory
    <2> QED BY <1>1, <1>2, <2>1, <1>7
            DEF WalkMissed, At, Sound, Needs, Quiet, Moves, FileMoves, WithFile,
                Walking, Holding, Early, HeadOK, PlaceOK, Ops, Goto, Return,
                Idle, VfsPc, CallType
  <1>8. ASSUME OpenEnter(t)  PROVE Quiet(t) /\ Moves(t) /\ FileMoves(t)
    <2>1. /\ UNCHANGED <<pAppData, memory>>
          /\ \A u \in Threads \ {t} : call'[u] = call[u]
      BY <1>1, <1>8 DEF OpenEnter, Goto, Return, memory
    <2> QED BY <1>1, <1>2, <2>1, <1>8
            DEF OpenEnter, At, Sound, Needs, Quiet, Moves, FileMoves, WithFile,
                Walking, Holding, Early, HeadOK, PlaceOK, Ops, Goto, Return,
                Idle, VfsPc, CallType
  <1>9. ASSUME AddFails(t)  PROVE Quiet(t) /\ Moves(t) /\ FileMoves(t)
    <2>1. /\ UNCHANGED <<pAppData, memory>>
          /\ \A u \in Threads \ {t} : call'[u] = call[u]
      BY <1>1, <1>9 DEF AddFails, Goto, Return, memory
    <2> QED BY <1>1, <1>2, <2>1, <1>9
            DEF AddFails, At, Sound, Needs, Quiet, Moves, FileMoves, WithFile,
                Walking, Holding, Early, HeadOK, PlaceOK, Ops, Goto, Return,
                Idle, VfsPc, CallType
  <1>10. ASSUME DelStart(t)  PROVE Quiet(t) /\ Moves(t) /\ FileMoves(t)
    <2>1. /\ UNCHANGED <<pAppData, memory>>
          /\ \A u \in Threads \ {t} : call'[u] = call[u]
      BY <1>1, <1>10 DEF DelStart, Goto, Return, memory
    <2> QED BY <1>1, <1>2, <2>1, <1>10
            DEF DelStart, At, Sound, Needs, Quiet, Moves, FileMoves, WithFile,
                Walking, Holding, Early, HeadOK, PlaceOK, Ops, Goto, Return,
                Idle, VfsPc, CallType
  <1>11. ASSUME DelPasses(t)  PROVE Quiet(t) /\ Moves(t) /\ FileMoves(t)
    <2>1. /\ UNCHANGED <<pAppData, memory>>
          /\ \A u \in Threads \ {t} : call'[u] = call[u]
      BY <1>1, <1>11 DEF DelPasses, Goto, Return, memory
    <2> QED BY <1>1, <1>2, <2>1, <1>11
            DEF DelPasses, At, Sound, Needs, Quiet, Moves, FileMoves, WithFile,
                Walking, Holding, Early, HeadOK, PlaceOK, Ops, Goto, Return,
                Idle, VfsPc, CallType
  <1>12. ASSUME DelFinds(t)  PROVE Quiet(t) /\ Moves(t) /\ FileMoves(t)
    <2>1. /\ UNCHANGED <<pAppData, memory>>
          /\ \A u \in Threads \ {t} : call'[u] = call[u]
      BY <1>1, <1>12 DEF DelFinds, Goto, Return, memory
    <2> QED BY <1>1, <1>2, <2>1, <1>12
            DEF DelFinds, At, Sound, Needs, Quiet, Moves, FileMoves, WithFile,
                Walking, Holding, Early, HeadOK, PlaceOK, Ops, Goto, Return,
                Idle, VfsPc, CallType
  <1>13. ASSUME DelEnd(t)  PROVE Quiet(t) /\ Moves(t) /\ FileMoves(t)
    <2>1. /\ UNCHANGED <<pAppData, memory>>
          /\ \A u \in Threads \ {t} : call'[u] = call[u]
      BY <1>1, <1>13 DEF DelEnd, Goto, Return, memory
    <2> QED BY <1>1, <1>2, <2>1, <1>13
            DEF DelEnd, At, Sound, Needs, Quiet, Moves, FileMoves, WithFile,
                Walking, Holding, Early, HeadOK, PlaceOK, Ops, Goto, Return,
                Idle, VfsPc, CallType
  <1>14. ASSUME DelEnter(t)  PROVE Quiet(t) /\ Moves(t) /\ FileMoves(t)
    <2>1. /\ UNCHANGED <<pAppData, memory>>
          /\ \A u \in Threads \ {t} : call'[u] = call[u]
      BY <1>1, <1>14 DEF DelEnter, Goto, Return, memory
    <2>2. call[t].ptr \notin {pAppData, NULL}
      <3>1. call[t].pc = "DelEnter" /\ pAppData # NULL
        BY <1>2, <1>14 DEF DelEnter, At, Early
      <3> QED BY <3>1 DEF RingOK, Whole, UnlinkNextOK
    <2> QED BY <1>1, <1>2, <2>1, <2>2, <1>14
            DEF DelEnter, At, Sound, Needs, Quiet, Moves, FileMoves, WithFile,
                Walking, Holding, Early, HeadOK, PlaceOK, Ops, Goto, Return,
                Idle, VfsPc, CallType
  <1>15. ASSUME GoOn(t)  PROVE Quiet(t) /\ Moves(t) /\ FileMoves(t)
    <2>1. /\ UNCHANGED <<pAppData, memory>>
          /\ \A u \in Threads \ {t} : call'[u] = call[u]
      BY <1>1, <1>15 DEF GoOn, Goto, Return, memory
    <2> QED BY <1>1, <1>2, <2>1, <1>15
            DEF GoOn, At, Sound, Needs, Quiet, Moves, FileMoves, WithFile,
                Walking, Holding, Early, HeadOK, PlaceOK, Ops, Goto, Return,
                Idle, VfsPc, CallType
  <1>16. ASSUME InitCount(t)  PROVE Quiet(t) /\ Moves(t) /\ FileMoves(t)
    <2>1. /\ UNCHANGED <<pAppData, memory>>
          /\ \A u \in Threads \ {t} : call'[u] = call[u]
      BY <1>1, <1>16 DEF InitCount, Goto, Return, memory
    <2> QED BY <1>1, <1>2, <2>1, <1>16
            DEF InitCount, At, Sound, Needs, Quiet, Moves, FileMoves, WithFile,
                Walking, Holding, Early, HeadOK, PlaceOK, Ops, Goto, Return,
                Idle, VfsPc, CallType
  <1>17. ASSUME InitRegister(t)  PROVE Quiet(t) /\ Moves(t) /\ FileMoves(t)
    <2>1. /\ UNCHANGED <<pAppData, memory>>
          /\ \A u \in Threads \ {t} : call'[u] = call[u]
      BY <1>1, <1>17 DEF InitRegister, Goto, Return, memory
    <2> QED BY <1>1, <1>2, <2>1, <1>17
            DEF InitRegister, At, Sound, Needs, Quiet, Moves, FileMoves,
                WithFile, Walking, Holding, Early, HeadOK, PlaceOK, Ops, Goto,
                Return, Idle, VfsPc, CallType
  <1>18. ASSUME DisposeSet(t)  PROVE Quiet(t) /\ Moves(t) /\ FileMoves(t)
    <2>1. /\ UNCHANGED <<pAppData, memory>>
          /\ \A u \in Threads \ {t} : call'[u] = call[u]
      BY <1>1, <1>18 DEF DisposeSet, Goto, Return, memory
    <2> QED BY <1>1, <1>2, <2>1, <1>18
            DEF DisposeSet, At, Sound, Needs, Quiet, Moves, FileMoves, WithFile,
                Walking, Holding, Early, HeadOK, PlaceOK, Ops, Goto, Return,
                Idle, VfsPc, CallType
  <1>19. ASSUME DestroyCount(t)  PROVE Quiet(t) /\ Moves(t) /\ FileMoves(t)
    <2>1. /\ UNCHANGED <<pAppData, memory>>
          /\ \A u \in Threads \ {t} : call'[u] = call[u]
      BY <1>1, <1>19 DEF DestroyCount, Goto, Return, memory
    <2> QED BY <1>1, <1>2, <2>1, <1>19
            DEF DestroyCount, At, Sound, Needs, Quiet, Moves, FileMoves,
                WithFile, Walking, Holding, Early, HeadOK, PlaceOK, Ops, Goto,
                Return, Idle, VfsPc, CallType
  <1>20. ASSUME Unregister(t)  PROVE Quiet(t) /\ Moves(t) /\ FileMoves(t)
    <2>1. /\ UNCHANGED <<pAppData, memory>>
          /\ \A u \in Threads \ {t} : call'[u] = call[u]
      BY <1>1, <1>20 DEF Unregister, Goto, Return, memory
    <2> QED BY <1>1, <1>2, <2>1, <1>20
            DEF Unregister, At, Sound, Needs, Quiet, Moves, FileMoves, WithFile,
                Walking, Holding, Early, HeadOK, PlaceOK, Ops, Goto, Return,
                Idle, VfsPc, CallType
  <1>21. ASSUME TearBegin(t)  PROVE Quiet(t) /\ Moves(t) /\ FileMoves(t)
    <2>1. /\ UNCHANGED <<pAppData, memory>>
          /\ \A u \in Threads \ {t} : call'[u] = call[u]
      BY <1>1, <1>21 DEF TearBegin, Goto, Return, memory
    <2> QED BY <1>1, <1>2, <2>1, <1>21
            DEF TearBegin, At, Sound, Needs, Quiet, Moves, FileMoves, WithFile,
                Walking, Holding, Early, HeadOK, PlaceOK, Ops, Goto, Return,
                Idle, VfsPc, CallType
  <1>22. ASSUME TearEnd(t)  PROVE Quiet(t) /\ Moves(t) /\ FileMoves(t)
    <2>1. /\ UNCHANGED <<pAppData, memory>>
          /\ \A u \in Threads \ {t} : call'[u] = call[u]
      BY <1>1, <1>22 DEF TearEnd, Goto, Return, memory
    <2> QED BY <1>1, <1>2, <2>1, <1>22
            DEF TearEnd, At, Sound, Needs, Quiet, Moves, FileMoves, WithFile,
                Walking, Holding, Early, HeadOK, PlaceOK, Ops, Goto, Return,
                Idle, VfsPc, CallType
  <1>23. ASSUME NEW op \in Ops, NEW o \in Names, Begin(t, op, o)
         PROVE  Quiet(t) /\ Moves(t) /\ FileMoves(t)
    <2>1. /\ UNCHANGED <<pAppData, memory>>
          /\ \A u \in Threads \ {t} : call'[u] = call[u]
      BY <1>1, <1>23 DEF Begin, Enter, memory
    <2>2. /\ call[t].pc = "idle" /\ call'[t].ptr = NULL /\ call'[t].root = NULL
          /\ call'[t].pc \in {"Vfs", "Start", "Sync", "Dispose"}
          /\ call'[t].pc = "Vfs" => pAppData = NULL
          /\ call[t].file = NULL /\ call'[t].file = NULL /\ files' = files
      BY <1>1, <1>23 DEF Begin, Enter, Idle, PlaceOK
    <2> QED BY <2>1, <2>2 DEF Quiet, Moves, FileMoves, WithFile, Walking, Holding, Early
  <1>24. ASSUME NEW m \in Users, New(t, m)
         PROVE  Quiet(t) /\ Moves(t) /\ FileMoves(t)
    <2>1. /\ UNCHANGED <<pAppData, memory>>
          /\ \A u \in Threads \ {t} : call'[u] = call[u]
      BY <1>1, <1>24 DEF New, Enter, memory
    <2>2. /\ call[t].pc = "idle" /\ call'[t].ptr = NULL /\ call'[t].root = NULL
          /\ call'[t].pc \in {"Vfs", "Start", "Sync", "Dispose"}
          /\ call'[t].pc = "Vfs" => pAppData = NULL
          /\ call[t].file = NULL /\ call'[t].file = NULL /\ files' = files
      BY <1>1, <1>24 DEF New, Enter, Idle, PlaceOK
    <2> QED BY <2>1, <2>2 DEF Quiet, Moves, FileMoves, WithFile, Walking, Holding, Early
  <1>25. ASSUME NEW m \in Users, DisposeTest(t, m)
         PROVE  Quiet(t) /\ Moves(t) /\ FileMoves(t)
    <2>1. /\ UNCHANGED <<pAppData, memory>>
          /\ \A u \in Threads \ {t} : call'[u] = call[u]
      BY <1>1, <1>25 DEF DisposeTest, Enter, memory
    <2>2. /\ call[t].pc = "idle" /\ call'[t].ptr = NULL /\ call'[t].root = NULL
          /\ call'[t].pc \in {"Vfs", "Start", "Sync", "Dispose"}
          /\ call'[t].pc = "Vfs" => pAppData = NULL
          /\ call[t].file = NULL /\ call'[t].file = NULL /\ files' = files
      BY <1>1, <1>25 DEF DisposeTest, Enter, Idle, PlaceOK
    <2> QED BY <2>1, <2>2 DEF Quiet, Moves, FileMoves, WithFile, Walking, Holding, Early
  <1>26. ASSUME Destroy(t)  PROVE Quiet(t) /\ Moves(t) /\ FileMoves(t)
    <2>1. /\ UNCHANGED <<pAppData, memory>>
          /\ \A u \in Threads \ {t} : call'[u] = call[u]
      BY <1>1, <1>26 DEF Destroy, Goto, Return, memory
    <2> QED BY <1>1, <1>2, <2>1, <1>26
            DEF Destroy, At, Sound, Needs, Quiet, Moves, FileMoves, WithFile,
                Walking, Holding, Early, HeadOK, PlaceOK, Ops, Goto, Return,
                Idle, VfsPc, CallType
  <1> QED BY <1>3, <1>4, <1>5, <1>6, <1>7, <1>8, <1>9, <1>10, <1>11,
             <1>12, <1>13, <1>14, <1>15, <1>16, <1>17, <1>18, <1>19, <1>20,
             <1>21, <1>22, <1>23, <1>24, <1>25, <1>26
          DEF QuietActions, LifeStep
-------------------------------------------------------------------------------
(* Who is in the critical section                                          *)

(* Where del_link has come to a head.                                      *)
AtHead(c) ==
  c.op = "delete" /\ c.pc \in {"DelWalk", "DelEnter", "UnlinkNext", "UnlinkPrev",
                              "Free", "On"}

(* xOpen is in the critical section of the head its second search is of,   *)
(* and del_link, while it takes a link out, in that of its head.           *)
OwnedBy(t, c, own) ==
  /\ c.root # NULL => own[c.root] = t
  /\ c.pc \in {"Add", "LinkNext", "LinkPrev"} => c.root # NULL
  /\ AtHead(c) => c.head \in Nodes
  /\ c.op = "delete" /\ c.pc \in {"UnlinkNext", "UnlinkPrev"} => own[c.head] = t

Owned == \A t \in Threads : OwnedBy(t, call[t], owner)

(* Thread t enters and leaves critical sections for itself alone.          *)
OwnerStep(t) ==
  /\ \A u \in Threads \ {t} :
       /\ call'[u].root = call[u].root /\ call'[u].pc = call[u].pc
       /\ call'[u].head = call[u].head /\ call'[u].op = call[u].op
  /\ \A h \in Nodes : owner[h] \notin {NULL, t} => owner'[h] = owner[h]
  /\ OwnedBy(t, call'[t], owner')

LEMMA OwnerSteps ==
  ASSUME ListOK, Owned, NEW t \in Threads, ListStep(t), ~Fault(t)
  PROVE  OwnerStep(t)
  <1>1. /\ call \in [Threads -> CallType] /\ owner \in [Nodes -> Threads \cup {NULL}]
        /\ call[t] \in CallType /\ RootOK(call[t]) /\ alloc \subseteq Nodes
        /\ call[t].root # NULL => call[t].root \in Nodes /\ owner[call[t].root] = t
        /\ call[t].pc \in {"Add", "LinkNext", "LinkPrev"} => call[t].root # NULL
        /\ AtHead(call[t]) => call[t].head \in Nodes
        /\ call[t].op = "delete" /\ call[t].pc \in {"UnlinkNext", "UnlinkPrev"} =>
             owner[call[t].head] = t
    BY DEF ListOK, MemoryOK, CallOK, PlacesOK, OwnerOK, Owned, OwnedBy, CallType
  <1>2. NULL \notin Threads /\ NULL \notin Nodes  BY ListAssumption
  <1>3. CASE MakeList(t)
    BY <1>1, <1>2, <1>3
    DEF MakeList, At, Sound, Needs, Goto, Return, Idle, RootOK, OwnedBy, AtHead,
        CallType, OwnerStep
  <1>4. CASE MakeListFails(t)
    BY <1>1, <1>2, <1>4
    DEF MakeListFails, At, Sound, Needs, Goto, Return, Idle, RootOK, OwnedBy,
        AtHead, CallType, OwnerStep
  <1>5. CASE WalkStart(t)
    BY <1>1, <1>2, <1>5
    DEF WalkStart, At, Sound, Needs, Goto, Return, Idle, RootOK, OwnedBy, AtHead,
        CallType, OwnerStep
  <1>6. CASE WalkOn(t)
    BY <1>1, <1>2, <1>6
    DEF WalkOn, At, Sound, Needs, Goto, Return, Idle, RootOK, OwnedBy, AtHead,
        CallType, OwnerStep
  <1>7. CASE WalkFound(t)
    BY <1>1, <1>2, <1>7
    DEF WalkFound, Found, At, Sound, Needs, Goto, Return, Idle, RootOK, OwnedBy,
        AtHead, CallType, OwnerStep
  <1>8. CASE WalkMissed(t)
    BY <1>1, <1>2, <1>8
    DEF WalkMissed, At, Sound, Needs, Goto, Return, Idle, RootOK, OwnedBy, AtHead,
        CallType, OwnerStep
  <1>9. CASE OpenEnter(t)
    BY <1>1, <1>2, <1>9
    DEF OpenEnter, At, Sound, Needs, Goto, Return, Idle, RootOK, OwnedBy, AtHead,
        CallType, OwnerStep
  <1>10. CASE AddFails(t)
    BY <1>1, <1>2, <1>10
    DEF AddFails, At, Sound, Needs, Goto, Return, Idle, RootOK, OwnedBy, AtHead,
        CallType, OwnerStep
  <1>11. CASE AddLink(t)
    BY <1>1, <1>2, <1>11
    DEF AddLink, At, Sound, Needs, Goto, Return, Idle, RootOK, OwnedBy, AtHead,
        CallType, OwnerStep
  <1>12. CASE LinkNext(t)
    BY <1>1, <1>2, <1>12
    DEF LinkNext, At, Sound, Needs, Goto, Return, Idle, RootOK, OwnedBy, AtHead,
        CallType, OwnerStep
  <1>13. CASE LinkPrev(t)
    BY <1>1, <1>2, <1>13
    DEF LinkPrev, At, Sound, Needs, Goto, Return, Idle, RootOK, OwnedBy, AtHead,
        CallType, OwnerStep
  <1>14. CASE DelStart(t)
    BY <1>1, <1>2, <1>14
    DEF DelStart, At, Sound, Needs, Goto, Return, Idle, RootOK, OwnedBy, AtHead,
        CallType, OwnerStep
  <1>15. CASE DelPasses(t)
    BY <1>1, <1>2, <1>15
    DEF DelPasses, At, Sound, Needs, Goto, Return, Idle, RootOK, OwnedBy, AtHead,
        CallType, OwnerStep
  <1>16. CASE DelFinds(t)
    BY <1>1, <1>2, <1>16
    DEF DelFinds, At, Sound, Needs, Goto, Return, Idle, RootOK, OwnedBy, AtHead,
        CallType, OwnerStep
  <1>17. CASE DelEnd(t)
    BY <1>1, <1>2, <1>17
    DEF DelEnd, At, Sound, Needs, Goto, Return, Idle, RootOK, OwnedBy, AtHead,
        CallType, OwnerStep
  <1>18. CASE DelEnter(t)
    BY <1>1, <1>2, <1>18
    DEF DelEnter, At, Sound, Needs, Goto, Return, Idle, RootOK, OwnedBy, AtHead,
        CallType, OwnerStep
  <1>19. CASE UnlinkNext(t)
    BY <1>1, <1>2, <1>19
    DEF UnlinkNext, At, Sound, Needs, Goto, Return, Idle, RootOK, OwnedBy, AtHead,
        CallType, OwnerStep
  <1>20. CASE UnlinkPrev(t)
    BY <1>1, <1>2, <1>20
    DEF UnlinkPrev, At, Sound, Needs, Goto, Return, Idle, RootOK, OwnedBy, AtHead,
        CallType, OwnerStep
  <1>21. CASE Free(t)
    BY <1>1, <1>2, <1>21
    DEF Free, At, Sound, Needs, Goto, Return, Idle, RootOK, OwnedBy, AtHead,
        CallType, OwnerStep, FreeLink
  <1>22. CASE GoOn(t)
    BY <1>1, <1>2, <1>22
    DEF GoOn, At, Sound, Needs, Goto, Return, Idle, RootOK, OwnedBy, AtHead,
        CallType, OwnerStep
  <1>23. CASE Destroy(t)
    BY <1>1, <1>2, <1>23
    DEF Destroy, At, Sound, Needs, Goto, Return, Idle, RootOK, OwnedBy, AtHead,
        CallType, OwnerStep
  <1> QED BY <1>3, <1>4, <1>5, <1>6, <1>7, <1>8, <1>9, <1>10, <1>11, <1>12,
             <1>13, <1>14, <1>15, <1>16, <1>17, <1>18, <1>19, <1>20, <1>21,
             <1>22, <1>23 DEF ListStep

LEMMA OwnerStepKeeps ==
  ASSUME ListOK, ListOK', Owned, NEW t \in Threads, OwnerStep(t)
  PROVE  Owned'
  <1> SUFFICES ASSUME NEW u \in Threads  PROVE OwnedBy(u, call'[u], owner')
    BY DEF Owned
  <1>1. CASE u = t  BY <1>1 DEF OwnerStep
  <1>2. CASE u # t
    <2>1. u # NULL /\ call[u].root \in Nodes \cup {NULL}
      BY ListAssumption DEF ListOK, CallOK, CallType
    <2> QED BY <1>2, <2>1 DEF OwnerStep, Owned, OwnedBy, AtHead
  <1> QED BY <1>1, <1>2

LEMMA OwnedKeeps ==
  ASSUME ListOK, ListOK', Owned, [Next]_vars
  PROVE  Owned'
  <1>1. CASE UNCHANGED <<call, owner>>
    BY <1>1 DEF Owned
  <1>2. ASSUME NEW t \in Threads, ListStep(t)  PROVE Owned'
    <2>1. CASE Fault(t)  BY <1>1, <2>1 DEF Fault
    <2>2. CASE ~Fault(t)  BY <1>2, <2>2, OwnerSteps, OwnerStepKeeps
    <2> QED BY <2>1, <2>2
  <1>3. ASSUME NEW t \in Threads,
               \/ \E op \in Ops, o \in Names : Begin(t, op, o)
               \/ LifeStep(t)
               \/ \E m \in Users : New(t, m) \/ DisposeTest(t, m)
        PROVE  Owned'
    <2>1. call \in [Threads -> CallType]  BY DEF ListOK, CallOK
    <2>2. ASSUME \/ \E op \in Ops, o \in Names : Begin(t, op, o)
                 \/ \E m \in Users : New(t, m) \/ DisposeTest(t, m)
          PROVE  /\ owner' = owner
                 /\ \A u \in Threads \ {t} : call'[u] = call[u]
                 /\ call'[t].root = NULL
                 /\ call'[t].pc \in {"Vfs", "Start", "Sync", "Dispose"}
      BY <2>1, <2>2 DEF Begin, New, DisposeTest, Enter, Idle
    <2>3. ASSUME LifeStep(t)
          PROVE  /\ owner' = owner
                 /\ \A u \in Threads \ {t} : call'[u] = call[u]
                 /\ call'[t].root \in {NULL, call[t].root}
                 /\ call'[t].pc \in {"Vfs", "Start", "Sync", "idle", "TearWalk",
                                     "UnlinkNext"}
                 /\ call[t].op # "delete" /\ call'[t].op # "delete"
      <3>1. call[t].op \in {"init", "destroy"}
        BY <2>3 DEF LifeStep, InitCount, InitRegister, DisposeSet, DestroyCount,
           Unregister, TearBegin, TearEnd, At, ListOK, PlacesOK, PlaceOK, LifeOps
      <3> QED BY <2>1, <2>3, <3>1
              DEF CallType, LifeStep, InitCount, InitRegister, DisposeSet,
                  DestroyCount, Unregister, TearBegin, TearEnd, VfsPc, Goto,
                  Return, Idle
    <2> QED BY <1>3, <2>2, <2>3 DEF Owned, OwnedBy, AtHead
  <1> QED BY <1>1, <1>2, <1>3 DEF Next, ListNext, vars, listVars


(* Of two threads that store to links one is the teardown.                 *)
LEMMA StoresOne ==
  ASSUME ListOK, RingOK, Owned, NEW t \in Threads, NEW u \in Threads,
         call[t].pc \in Changing, call[u].pc \in Changing,
         "destroy" \notin {call[t].op, call[u].op}
  PROVE  t = u
  <1>1. ASSUME NEW v \in Threads, call[v].pc \in Changing, call[v].op # "destroy"
        PROVE  owner[pAppData] = v
    <2>1. call[v] \in CallType /\ PlaceOK(call[v]) /\ HeadOK(call[v])
      BY DEF ListOK, CallOK, PlacesOK, RingOK
    <2>2. CASE call[v].pc \in {"LinkNext", "LinkPrev"}
      BY <2>1, <2>2 DEF Owned, OwnedBy, HeadOK
    <2>3. CASE call[v].pc \in {"UnlinkNext", "UnlinkPrev"}
      BY <1>1, <2>1, <2>3 DEF Owned, OwnedBy, HeadOK, PlaceOK, Early
    <2> QED BY <1>1, <2>2, <2>3 DEF Changing
  <1> QED BY <1>1

LEMMA NoneMeddles ==
  ASSUME ListOK, RingOK, Owned, NEW t \in Threads, call[t].pc \in Changing,
         Meddles(t), ~broken'
  PROVE  \A u \in Threads \ {t} : call[u].pc \notin Changing
  BY StoresOne DEF Meddles
-------------------------------------------------------------------------------
(* The steps that do touch links                                           *)

LEMMA MakeListRings ==
  ASSUME ListOK, ListOK', RingOK, ~broken', NEW t \in Threads, MakeList(t)
  PROVE  RingOK' /\ pAppData = NULL /\ Chain' = <<>> /\ Ring' = {pAppData'}
         /\ alloc' = {pAppData'}
  <1>1. pAppData = NULL  BY DEF MakeList
  <1>2. alloc = {} /\ \A u \in Threads : call[u].pc \in Early
    BY <1>1 DEF RingOK, Unmade
  <1>3. PICK h \in Nodes \ alloc :
          /\ pAppData' = h
          /\ alloc' = alloc \cup {h}
          /\ prev'  = [prev EXCEPT ![h] = h]
          /\ next'  = [next EXCEPT ![h] = h]
    BY DEF MakeList
  <1>4. /\ \A u \in Threads : call'[u].pc \in Early
        /\ \A u \in Threads : call'[u].ptr = call[u].ptr
        /\ \A u \in Threads : call'[u].root = call[u].root
    BY <1>2 DEF MakeList, Goto, Early, ListOK, CallOK, CallType
  <1>5. alloc' = {h} /\ h # NULL /\ next'[h] = h /\ prev'[h] = h
    BY <1>2, <1>3, ListAssumption DEF ListOK, MemoryOK
  <1>6. Linked' /\ Chain' = <<>> /\ Ring' = {h}
    BY <1>3, <1>5, RingMade DEF ListOK
  <1>7. Contained'
    <2>1. \A n \in Nodes : n # h => prev'[n] = NULL /\ next'[n] = NULL
      BY <1>2, <1>3 DEF RingOK, Contained, ListOK, MemoryOK
    <2> QED BY <1>2, <1>4, <1>5, <2>1 DEF RingOK, Contained
  <1>8. Unmade'
    BY <1>3, <1>5 DEF Unmade
  <1>9. \A u \in Threads : HeadOK(call[u])'
    BY <1>1, <1>2, <1>4 DEF RingOK, HeadOK
  <1>10. Whole'
    <2>1. OneStores' /\ Off' /\ Back'
      BY <1>4, <1>5, <1>6 DEF OneStores, Off, Back, Early
    <2>2. \A u \in Threads : (LinkNextOK(u) /\ LinkPrevOK(u) /\ UnlinkNextOK(u)
                              /\ UnlinkPrevOK(u) /\ FreeOK(u))'
      BY <1>4 DEF LinkNextOK, LinkPrevOK, UnlinkNextOK, UnlinkPrevOK, FreeOK, Early
    <2> QED BY <1>6, <2>1, <2>2 DEF Whole
  <1> QED BY <1>1, <1>3, <1>5, <1>6, <1>7, <1>8, <1>9, <1>10 DEF RingOK

LEMMA AddLinkRings ==
  ASSUME ListOK, ListOK', RingOK, NEW t \in Threads, AddLink(t)
  PROVE  RingOK' /\ Chain' = Chain /\ Ring' = Ring
  <1>0. call \in [Threads -> CallType] /\ HeadOK(call[t])
    BY DEF ListOK, CallOK, RingOK
  <1>1. /\ call[t].pc = "Add" /\ pAppData \in alloc /\ pAppData # NULL
        /\ pAppData' = pAppData
    BY ListAssumption DEF AddLink, At, Sound, Needs, ListOK, MemoryOK
  <1>2. Whole /\ Linked /\ Contained  BY <1>1 DEF RingOK, Whole
  <1>p. PICK p \in Nodes \ alloc, f \in Files \ files :
          /\ alloc' = alloc \cup {p}
          /\ prev'  = [prev EXCEPT ![p] = prev[pAppData]]
          /\ next'  = [next EXCEPT ![p] = pAppData]
          /\ call'  = [call EXCEPT ![t].pc = "LinkNext", ![t].head = pAppData,
                                   ![t].ptr = p]
    BY DEF AddLink
  <1>3. /\ prev \in [Nodes -> Nodes \cup {NULL, Freed}]
        /\ next \in [Nodes -> Nodes \cup {NULL, Freed}]
        /\ alloc \subseteq Nodes
        /\ p \notin {NULL, Freed}
    BY ListAssumption DEF ListOK, MemoryOK
  <1>4. /\ \A n \in alloc : prev'[n] = prev[n] /\ next'[n] = next[n]
        /\ prev'[p] = prev[pAppData] /\ next'[p] = pAppData
        /\ \A n \in Nodes : n # p => prev'[n] = prev[n] /\ next'[n] = next[n]
    BY <1>3, <1>p
  <1>5. /\ \A u \in Threads \ {t} : call'[u] = call[u]
        /\ call'[t].pc = "LinkNext" /\ call'[t].head = pAppData
        /\ call'[t].ptr = p /\ call'[t].root = call[t].root
    BY <1>0, <1>p DEF CallType
  <1>6. /\ \A n \in alloc : prev[n] # p /\ next[n] # p
        /\ \A u \in Threads : call[u].ptr # p
    BY <1>2, <1>3 DEF Contained
  <1>7. Ring \subseteq alloc /\ pAppData \in Ring
    BY <1>2, RingFacts
  <1>8. Linked' /\ Chain' = Chain /\ Ring' = Ring
    BY <1>1, <1>2, <1>4, <1>7, <1>p, RingSame DEF ListOK
  <1>9. Contained'
    BY <1>1, <1>2, <1>3, <1>4, <1>5, <1>p DEF Contained
  <1>10. Unmade' /\ \A u \in Threads : HeadOK(call[u])'
    BY <1>0, <1>1, <1>5 DEF RingOK, HeadOK, Unmade, Early
  <1>11. OneStores'
    BY <1>2, <1>5 DEF Whole, OneStores
  <1>12. Off'
    <2> SUFFICES ASSUME NEW x \in alloc' \ Ring', prev'[x] \in alloc'
                 PROVE  next'[prev'[x]] # x
      BY DEF Off
    <2>1. CASE x = p
      BY <1>1, <1>4, <1>6, <1>p, <2>1
    <2>2. CASE x # p
      <3>1. x \in alloc \ Ring /\ prev'[x] = prev[x] /\ prev[x] \in alloc
        BY <1>4, <1>6, <1>8, <1>p, <2>2
      <3> QED BY <1>2, <1>4, <3>1 DEF Whole, Off
    <2> QED BY <2>1, <2>2
  <1>13. Back'
    <2> SUFFICES ASSUME NEW q \in Ring
                 PROVE  \/ prev'[next'[q]] = q
                        \/ \E u \in Threads :
                             \/ call'[u].pc = "LinkPrev" /\ call'[u].ptr = q
                             \/ call'[u].pc = "UnlinkPrev" /\ prev'[call'[u].ptr] = q
      BY <1>8 DEF Back
    <2>1. next'[q] = next[q] /\ next[q] \in alloc /\ prev'[next[q]] = prev[next[q]]
      BY <1>2, <1>4, <1>7, RingFacts
    <2>2. CASE prev[next[q]] = q  BY <2>1, <2>2
    <2>3. CASE prev[next[q]] # q
      <3>1. PICK u \in Threads :
              \/ call[u].pc = "LinkPrev" /\ call[u].ptr = q
              \/ call[u].pc = "UnlinkPrev" /\ prev[call[u].ptr] = q
        BY <1>2, <2>3 DEF Whole, Back
      <3>2. u # t  BY <1>1, <3>1
      <3>3. call[u].pc = "UnlinkPrev" => call[u].ptr \in alloc
        BY <1>2 DEF Whole, UnlinkPrevOK
      <3> QED BY <1>4, <1>5, <3>1, <3>2, <3>3
    <2> QED BY <2>2, <2>3
  <1>14. ASSUME NEW u \in Threads
         PROVE  (LinkNextOK(u) /\ LinkPrevOK(u) /\ UnlinkNextOK(u)
                 /\ UnlinkPrevOK(u) /\ FreeOK(u))'
    <2>1. CASE u = t
      <3>1. \A n \in alloc' : next'[n] # p /\ prev'[n] # p
        BY <1>1, <1>4, <1>6, <1>p
      <3>2. \A v \in Threads \ {t} : call'[v].ptr # p
        BY <1>5, <1>6
      <3>3. p \in alloc' \ Ring'  BY <1>7, <1>8, <1>p
      <3> QED BY <1>1, <1>4, <1>5, <2>1, <3>1, <3>2, <3>3
              DEF LinkNextOK, LinkPrevOK, UnlinkNextOK, UnlinkPrevOK, FreeOK
    <2>2. CASE u # t
      <3>1. call'[u] = call[u]  BY <1>5, <2>2
      <3>2. LinkNextOK(u)'
        <4> SUFFICES ASSUME call[u].pc = "LinkNext"  PROVE LinkNextOK(u)'
          BY <3>1 DEF LinkNextOK
        <4>1. /\ call[u].ptr \in alloc \ Ring
              /\ next[call[u].ptr] = pAppData
              /\ prev[call[u].ptr] = prev[pAppData]
              /\ \A n \in alloc : next[n] # call[u].ptr /\ prev[n] # call[u].ptr
              /\ \A v \in Threads \ {u} : call[v].ptr # call[u].ptr
          BY <1>2 DEF Whole, LinkNextOK
        <4>2. \A n \in alloc' : next'[n] # call[u].ptr /\ prev'[n] # call[u].ptr
          BY <1>1, <1>4, <1>7, <1>p, <4>1
        <4>3. \A v \in Threads \ {u} : call'[v].ptr # call[u].ptr
          BY <1>5, <4>1
        <4>4. /\ call[u].ptr \in alloc' \ Ring'
              /\ next'[call[u].ptr] = pAppData'
              /\ prev'[call[u].ptr] = prev'[pAppData']
          BY <1>1, <1>4, <1>8, <1>p, <4>1
        <4> QED BY <3>1, <4>2, <4>3, <4>4 DEF LinkNextOK
      <3>3. (LinkPrevOK(u) /\ UnlinkNextOK(u))'
        BY <1>1, <1>2, <1>4, <1>7, <1>8, <3>1
           DEF Whole, LinkPrevOK, UnlinkNextOK
      <3>4. (UnlinkPrevOK(u) /\ FreeOK(u))'
        <4>1. call[u].pc = "UnlinkPrev" =>
                 next[prev[call[u].ptr]] \in Ring
          BY <1>2, RingFacts DEF Whole, UnlinkPrevOK
        <4> QED BY <1>1, <1>2, <1>4, <1>7, <1>8, <1>p, <3>1, <4>1
                DEF Whole, UnlinkPrevOK, FreeOK
      <3> QED BY <3>2, <3>3, <3>4
    <2> QED BY <2>1, <2>2
  <1>15. Whole'
    BY <1>8, <1>11, <1>12, <1>13, <1>14 DEF Whole
  <1> QED BY <1>8, <1>9, <1>10, <1>15 DEF RingOK

LEMMA LinkNextRings ==
  ASSUME ListOK, ListOK', RingOK, Owned, ~broken', NEW t \in Threads,
         LinkNext(t)
  PROVE  /\ RingOK' /\ call[t].ptr \in alloc \ Ring
         /\ prev[pAppData] \in Ring /\ next[prev[pAppData]] = pAppData
         /\ Chain' = Append(Chain, call[t].ptr)
         /\ Ring' = Ring \cup {call[t].ptr}
  <1> DEFINE p == call[t].ptr
             l == prev[pAppData]
  <1>0. call \in [Threads -> CallType] /\ HeadOK(call[t])
    BY DEF ListOK, CallOK, RingOK
  <1>1. /\ call[t].pc = "LinkNext" /\ pAppData # NULL /\ call[t].head = pAppData
        /\ pAppData' = pAppData /\ prev' = prev /\ alloc' = alloc
        /\ next' = [next EXCEPT ![l] = p]
    BY <1>0 DEF LinkNext, At, RingOK, Unmade, HeadOK, Early
  <1>2. Whole /\ Linked /\ Contained  BY <1>1 DEF RingOK, Whole
  <1>3. \A u \in Threads \ {t} : call[u].pc \notin Changing
    BY NoneMeddles DEF LinkNext, At, Changing
  <1>4. /\ \A u \in Threads \ {t} : call'[u] = call[u]
        /\ call'[t].pc = "LinkPrev" /\ call'[t].head = pAppData
        /\ call'[t].ptr = p /\ call'[t].root = call[t].root
    BY <1>0, <1>1 DEF LinkNext, Goto, CallType
  <1>5. /\ p \in alloc \ Ring
        /\ next[p] = pAppData /\ prev[p] = l
        /\ \A u \in Threads \ {t} : call[u].ptr # p
    BY <1>1, <1>2 DEF Whole, LinkNextOK
  <1> HIDE DEF p
  <1>6. /\ Ring \subseteq alloc /\ pAppData \in Ring /\ alloc \subseteq Nodes
        /\ next \in [Nodes -> Nodes \cup {NULL, Freed}]
    BY <1>2, RingFacts DEF ListOK, MemoryOK
  <1>7. \A q \in Ring : prev[next[q]] = q
    BY <1>1, <1>2, <1>3 DEF Whole, Back, Changing
  <1>8. l \in Ring /\ next[l] = pAppData
    <2>1. PICK q \in Ring : next[q] = pAppData
      BY <1>2, <1>6, RingFacts
    <2> QED BY <1>7, <2>1
  <1> HIDE DEF l
  <1>9. next'[l] = p /\ \A n \in alloc : n # l => next'[n] = next[n]
    BY <1>1, <1>6, <1>8
  <1>10. Linked' /\ Chain' = Append(Chain, p) /\ Ring' = Ring \cup {p}
    BY <1>1, <1>2, <1>5, <1>6, <1>8, <1>9, RingAppend DEF ListOK
  <1>11. Contained'
    BY <1>1, <1>2, <1>4, <1>5, <1>6, <1>8 DEF Contained
  <1>12. Unmade' /\ \A u \in Threads : HeadOK(call[u])'
    BY <1>0, <1>1, <1>4 DEF RingOK, HeadOK, Unmade, Early
  <1>13. OneStores'
    BY <1>3, <1>4 DEF OneStores, Changing
  <1>14. Off'
    BY <1>1, <1>2, <1>9, <1>10 DEF Whole, Off
  <1>15. Back'
    <2> SUFFICES ASSUME NEW q \in Ring'
                 PROVE  \/ prev'[next'[q]] = q
                        \/ call'[t].pc = "LinkPrev" /\ call'[t].ptr = q
      BY DEF Back
    <2>1. CASE q = p  BY <1>4, <2>1
    <2>2. CASE q = l  BY <1>1, <1>5, <1>9, <2>2
    <2>3. CASE q \notin {p, l}
      BY <1>1, <1>6, <1>7, <1>9, <1>10, <2>3
    <2> QED BY <2>1, <2>2, <2>3
  <1>16. ASSUME NEW u \in Threads
         PROVE  (LinkNextOK(u) /\ LinkPrevOK(u) /\ UnlinkNextOK(u)
                 /\ UnlinkPrevOK(u) /\ FreeOK(u))'
    <2>1. CASE u = t
      <3>1. p # pAppData /\ p # l  BY <1>5, <1>6, <1>8
      <3>2. next'[p] = pAppData  BY <1>5, <1>9, <3>1
      <3>3. /\ p \in Ring' \ {pAppData'} /\ next'[p] = pAppData'
            /\ prev'[p] = l /\ l \in Ring' /\ next'[l] = p
            /\ prev'[pAppData'] = l
        BY <1>1, <1>5, <1>8, <1>9, <1>10, <3>1, <3>2 DEF l
      <3> QED BY <1>4, <2>1, <3>3
              DEF LinkNextOK, LinkPrevOK, UnlinkNextOK, UnlinkPrevOK, FreeOK
    <2>2. CASE u # t
      <3>1. call'[u] = call[u] /\ call[u].pc \notin Changing
            /\ call[u].ptr # p
        BY <1>3, <1>4, <1>5, <2>2
      <3> QED BY <1>1, <1>2, <1>10, <3>1
              DEF Changing, Whole, LinkNextOK, LinkPrevOK, UnlinkNextOK,
                  UnlinkPrevOK, FreeOK
    <2> QED BY <2>1, <2>2
  <1>17. Whole'
    BY <1>10, <1>13, <1>14, <1>15, <1>16 DEF Whole
  <1>18. RingOK'
    BY <1>11, <1>12, <1>17 DEF RingOK
  <1> QED BY <1>5, <1>8, <1>10, <1>18 DEF p, l

LEMMA LinkPrevRings ==
  ASSUME ListOK, ListOK', RingOK, Owned, ~broken', NEW t \in Threads,
         LinkPrev(t)
  PROVE  RingOK' /\ Chain' = Chain /\ Ring' = Ring
  <1> DEFINE p == call[t].ptr
  <1>0. call \in [Threads -> CallType] /\ HeadOK(call[t])
    BY DEF ListOK, CallOK, RingOK
  <1>1. /\ call[t].pc = "LinkPrev" /\ pAppData # NULL /\ call[t].head = pAppData
        /\ pAppData' = pAppData /\ next' = next /\ alloc' = alloc
        /\ prev' = [prev EXCEPT ![pAppData] = p]
    BY <1>0 DEF LinkPrev, At, RingOK, Unmade, HeadOK, Early
  <1>2. Whole /\ Linked /\ Contained  BY <1>1 DEF RingOK, Whole
  <1>3. \A u \in Threads \ {t} : call[u].pc \notin Changing
    BY NoneMeddles DEF LinkPrev, At, Changing
  <1>4. /\ \A u \in Threads \ {t} : call'[u] = call[u]
        /\ call'[t] = Idle
    BY <1>0 DEF LinkPrev, Return
  <1>5. p \in Ring \ {pAppData} /\ next[p] = pAppData
    BY <1>1, <1>2 DEF Whole, LinkPrevOK
  <1>6. /\ Ring \subseteq alloc /\ pAppData \in Ring /\ alloc \subseteq Nodes
        /\ prev \in [Nodes -> Nodes \cup {NULL, Freed}]
    BY <1>2, RingFacts DEF ListOK, MemoryOK
  <1>7. \A q \in Ring : q # p => prev[next[q]] = q
    BY <1>1, <1>2, <1>3 DEF Whole, Back, Changing
  <1> HIDE DEF p
  <1>8. prev'[pAppData] = p /\ \A n \in alloc : n # pAppData => prev'[n] = prev[n]
    BY <1>1, <1>6
  <1>9. Linked' /\ Chain' = Chain /\ Ring' = Ring
    BY <1>1, <1>2, <1>6, RingSame DEF ListOK
  <1>10. Contained'
    BY <1>1, <1>2, <1>4, <1>5, <1>6 DEF Contained, Idle
  <1>11. Unmade' /\ \A u \in Threads : HeadOK(call[u])'
    BY <1>1, <1>4 DEF RingOK, HeadOK, Unmade, Early, Idle
  <1>12. OneStores'
    BY <1>3, <1>4 DEF OneStores, Changing, Idle
  <1>13. Off'
    BY <1>1, <1>2, <1>6, <1>8, <1>9 DEF Whole, Off
  <1>14. Back'
    <2> SUFFICES ASSUME NEW q \in Ring  PROVE prev'[next[q]] = q
      BY <1>1, <1>9 DEF Back
    <2>1. CASE q = p  BY <1>5, <1>8, <2>1
    <2>2. CASE q # p
      <3>1. next[q] # pAppData /\ next[q] \in alloc
        BY <1>2, <1>5, <1>6, <2>2, RingFacts
      <3> QED BY <1>7, <1>8, <2>2, <3>1
    <2> QED BY <2>1, <2>2
  <1>15. ASSUME NEW u \in Threads
         PROVE  (LinkNextOK(u) /\ LinkPrevOK(u) /\ UnlinkNextOK(u)
                 /\ UnlinkPrevOK(u) /\ FreeOK(u))'
    <2>1. CASE u = t
      BY <1>4, <2>1 DEF LinkNextOK, LinkPrevOK, UnlinkNextOK, UnlinkPrevOK,
                        FreeOK, Idle
    <2>2. CASE u # t
      <3>1. call'[u] = call[u] /\ call[u].pc \notin Changing
        BY <1>3, <1>4, <2>2
      <3> QED BY <1>1, <1>2, <1>6, <1>8, <1>9, <3>1
              DEF Changing, Whole, LinkNextOK, LinkPrevOK, UnlinkNextOK,
                  UnlinkPrevOK, FreeOK
    <2> QED BY <2>1, <2>2
  <1>16. Whole'
    BY <1>9, <1>12, <1>13, <1>14, <1>15 DEF Whole
  <1> QED BY <1>9, <1>10, <1>11, <1>16 DEF RingOK

LEMMA UnlinkNextRings ==
  ASSUME ListOK, ListOK', RingOK, Owned, ~broken', NEW t \in Threads,
         UnlinkNext(t)
  PROVE  /\ RingOK' /\ call[t].ptr \in Ring \ {pAppData}
         /\ prev[call[t].ptr] \in Ring /\ next[prev[call[t].ptr]] = call[t].ptr
         /\ Chain' = RemoveFirst(Chain, call[t].ptr)
         /\ Ring' = Ring \ {call[t].ptr}
  <1> DEFINE p == call[t].ptr
             q == prev[p]
  <1>0. call \in [Threads -> CallType] /\ HeadOK(call[t])
    BY DEF ListOK, CallOK, RingOK
  <1>1. /\ call[t].pc = "UnlinkNext" /\ pAppData # NULL
        /\ pAppData' = pAppData /\ prev' = prev /\ alloc' = alloc
        /\ p \in alloc /\ q \in alloc /\ next[q] = p
        /\ next' = [next EXCEPT ![q] = next[p]]
    BY <1>0 DEF UnlinkNext, At, Sound, Needs, RingOK, Unmade, Early
  <1>2. Whole /\ Linked /\ Contained  BY <1>1 DEF RingOK, Whole
  <1>3. \A u \in Threads \ {t} : call[u].pc \notin Changing
    BY NoneMeddles DEF UnlinkNext, At, Changing
  <1>4. /\ \A u \in Threads \ {t} : call'[u] = call[u]
        /\ call'[t].pc = "UnlinkPrev" /\ call'[t].head = call[t].head
        /\ call'[t].ptr = p /\ call'[t].root = call[t].root
    BY <1>0 DEF UnlinkNext, Goto, CallType
  <1>5. p # pAppData
    BY <1>1, <1>2 DEF Whole, UnlinkNextOK
  <1>6. /\ Ring \subseteq alloc /\ pAppData \in Ring /\ alloc \subseteq Nodes
        /\ next \in [Nodes -> Nodes \cup {NULL, Freed}]
    BY <1>2, RingFacts DEF ListOK, MemoryOK
  <1>7. \A r \in Ring : prev[next[r]] = r
    BY <1>1, <1>2, <1>3 DEF Whole, Back, Changing
  <1>8. p \in Ring
    BY <1>1, <1>2 DEF Whole, Off
  <1>9. q \in Ring
    <2>1. PICK r \in Ring : next[r] = p
      BY <1>2, <1>8, RingFacts
    <2> QED BY <1>7, <2>1
  <1>10. next[p] # p /\ q # p /\ next[p] \in Ring /\ prev[next[p]] = p
    BY <1>1, <1>2, <1>5, <1>7, <1>8, RingFacts
  <1> HIDE DEF q, p
  <1>11. next'[q] = next[p] /\ \A n \in alloc : n # q => next'[n] = next[n]
    BY <1>1, <1>6
  <1>12. Linked' /\ Chain' = RemoveFirst(Chain, p) /\ Ring' = Ring \ {p}
    BY <1>1, <1>2, <1>5, <1>6, <1>8, <1>9, <1>11, RingRemove DEF ListOK
  <1>13. Contained'
    BY <1>1, <1>2, <1>4, <1>6, <1>10 DEF Contained, p
  <1>14. Unmade' /\ \A u \in Threads : HeadOK(call[u])'
    BY <1>0, <1>1, <1>4 DEF RingOK, HeadOK, Unmade, Early
  <1>15. OneStores'
    BY <1>3, <1>4 DEF OneStores, Changing
  <1>16. Off'
    BY <1>1, <1>2, <1>10, <1>11, <1>12 DEF Whole, Off, q
  <1>17. Back'
    <2> SUFFICES ASSUME NEW r \in Ring \ {p}
                 PROVE  \/ prev'[next'[r]] = r
                        \/ call'[t].pc = "UnlinkPrev" /\ prev'[call'[t].ptr] = r
      BY <1>12 DEF Back
    <2>1. CASE r = q  BY <1>1, <1>4, <2>1 DEF q
    <2>2. CASE r # q
      BY <1>1, <1>6, <1>7, <1>11, <2>2
    <2> QED BY <2>1, <2>2
  <1>18. ASSUME NEW u \in Threads
         PROVE  (LinkNextOK(u) /\ LinkPrevOK(u) /\ UnlinkNextOK(u)
                 /\ UnlinkPrevOK(u) /\ FreeOK(u))'
    <2>1. CASE u = t
      <3>1. /\ p \in alloc' \ Ring' /\ prev'[p] = q /\ q \in Ring'
            /\ next'[q] = next'[p] /\ prev'[next'[p]] = p
        BY <1>1, <1>6, <1>8, <1>9, <1>10, <1>11, <1>12 DEF q
      <3> QED BY <1>4, <2>1, <3>1
              DEF LinkNextOK, LinkPrevOK, UnlinkNextOK, UnlinkPrevOK, FreeOK
    <2>2. CASE u # t
      <3>1. call'[u] = call[u] /\ call[u].pc \notin Changing
        BY <1>3, <1>4, <2>2
      <3> QED BY <1>1, <1>2, <1>12, <3>1
              DEF Changing, Whole, LinkNextOK, LinkPrevOK, UnlinkNextOK,
                  UnlinkPrevOK, FreeOK
    <2> QED BY <2>1, <2>2
  <1>19. Whole'
    BY <1>12, <1>15, <1>16, <1>17, <1>18 DEF Whole
  <1>20. RingOK'
    BY <1>13, <1>14, <1>19 DEF RingOK
  <1> QED BY <1>1, <1>5, <1>8, <1>9, <1>12, <1>20 DEF p, q

LEMMA UnlinkPrevRings ==
  ASSUME ListOK, ListOK', RingOK, Owned, ~broken', NEW t \in Threads,
         UnlinkPrev(t)
  PROVE  RingOK' /\ Chain' = Chain /\ Ring' = Ring
  <1> DEFINE p == call[t].ptr
             r == next[p]
  <1>0. call \in [Threads -> CallType] /\ HeadOK(call[t])
    BY DEF ListOK, CallOK, RingOK
  <1>1. /\ call[t].pc = "UnlinkPrev" /\ pAppData # NULL
        /\ pAppData' = pAppData /\ next' = next /\ alloc' = alloc
        /\ prev' = [prev EXCEPT ![r] = prev[p]]
    BY <1>0 DEF UnlinkPrev, At, RingOK, Unmade, Early
  <1>2. Whole /\ Linked /\ Contained  BY <1>1 DEF RingOK, Whole
  <1>3. \A u \in Threads \ {t} : call[u].pc \notin Changing
    BY NoneMeddles DEF UnlinkPrev, At, Changing
  <1>4. /\ \A u \in Threads \ {t} : call'[u] = call[u]
        /\ call'[t].pc = "Free" /\ call'[t].head = call[t].head
        /\ call'[t].ptr = p /\ call'[t].root = call[t].root
    BY <1>0 DEF UnlinkPrev, Goto, CallType
  <1>5. /\ p \in alloc \ Ring /\ prev[p] \in Ring /\ next[prev[p]] = r
        /\ r \in Ring
    <2>1. p \in alloc \ Ring /\ prev[p] \in Ring /\ next[prev[p]] = r
      BY <1>1, <1>2 DEF Whole, UnlinkPrevOK
    <2> QED BY <1>2, <2>1, RingFacts
  <1>6. /\ Ring \subseteq alloc /\ pAppData \in Ring /\ alloc \subseteq Nodes
        /\ prev \in [Nodes -> Nodes \cup {NULL, Freed}]
    BY <1>2, RingFacts DEF ListOK, MemoryOK
  <1>7. \A q \in Ring : q # prev[p] => prev[next[q]] = q
    BY <1>1, <1>2, <1>3 DEF Whole, Back, Changing
  <1> HIDE DEF p, r
  <1>8. prev'[r] = prev[p] /\ \A n \in alloc : n # r => prev'[n] = prev[n]
    BY <1>1, <1>5, <1>6
  <1>9. Linked' /\ Chain' = Chain /\ Ring' = Ring
    BY <1>1, <1>2, <1>6, RingSame DEF ListOK
  <1>10. Contained'
    BY <1>1, <1>2, <1>4, <1>5, <1>6 DEF Contained
  <1>11. Unmade' /\ \A u \in Threads : HeadOK(call[u])'
    BY <1>0, <1>1, <1>4 DEF RingOK, HeadOK, Unmade, Early
  <1>12. OneStores'
    BY <1>3, <1>4 DEF OneStores, Changing
  <1>13. Off'
    BY <1>1, <1>2, <1>5, <1>8, <1>9 DEF Whole, Off
  <1>14. Back'
    <2> SUFFICES ASSUME NEW q \in Ring  PROVE prev'[next[q]] = q
      BY <1>1, <1>9 DEF Back
    <2>1. CASE q = prev[p]  BY <1>5, <1>8, <2>1
    <2>2. CASE q # prev[p]
      <3>1. next[q] # r /\ next[q] \in alloc
        BY <1>2, <1>5, <1>6, <2>2, RingFacts
      <3> QED BY <1>7, <1>8, <2>2, <3>1
    <2> QED BY <2>1, <2>2
  <1>15. ASSUME NEW u \in Threads
         PROVE  (LinkNextOK(u) /\ LinkPrevOK(u) /\ UnlinkNextOK(u)
                 /\ UnlinkPrevOK(u) /\ FreeOK(u))'
    <2>1. CASE u = t
      <3>1. prev'[p] # p  BY <1>5, <1>8
      <3> QED BY <1>1, <1>4, <1>5, <1>9, <2>1, <3>1
              DEF LinkNextOK, LinkPrevOK, UnlinkNextOK, UnlinkPrevOK, FreeOK
    <2>2. CASE u # t
      <3>1. call'[u] = call[u] /\ call[u].pc \notin Changing
        BY <1>3, <1>4, <2>2
      <3>2. FreeOK(u)'
        BY <1>1, <1>2, <1>5, <1>8, <1>9, <3>1 DEF Whole, FreeOK
      <3> QED BY <1>1, <1>2, <1>9, <3>1, <3>2
              DEF Changing, Whole, LinkNextOK, LinkPrevOK, UnlinkNextOK,
                  UnlinkPrevOK
    <2> QED BY <2>1, <2>2
  <1>16. Whole'
    BY <1>9, <1>12, <1>13, <1>14, <1>15 DEF Whole
  <1> QED BY <1>9, <1>10, <1>11, <1>16 DEF RingOK

LEMMA FreeRings ==
  ASSUME ListOK, ListOK', RingOK, ~broken', NEW t \in Threads, Free(t)
  PROVE  RingOK' /\ Chain' = Chain /\ Ring' = Ring
  <1> DEFINE p == call[t].ptr
             After(r) == IF r = p THEN Freed ELSE r
  <1>0. call \in [Threads -> CallType] /\ HeadOK(call[t])
    BY DEF ListOK, CallOK, RingOK
  <1>1. /\ call[t].pc = "Free" /\ pAppData # NULL /\ p \in alloc
        /\ pAppData' = pAppData /\ alloc' = alloc \ {p}
        /\ prev' = [n \in Nodes |-> IF n = p THEN NULL ELSE After(prev[n])]
        /\ next' = [n \in Nodes |-> IF n = p THEN NULL ELSE After(next[n])]
    BY <1>0 DEF Free, FreeLink, At, Sound, Needs, RingOK, Unmade, Early
  <1>2. Whole /\ Linked /\ Contained  BY <1>1 DEF RingOK, Whole
  <1>3. p \in alloc \ Ring /\ prev[p] # p
    BY <1>1, <1>2 DEF Whole, FreeOK
  <1>4. \A u \in Threads \ {t} : call[u].ptr # p
    BY DEF Free, FreeLink
  <1>5. /\ \A u \in Threads \ {t} : call'[u] = call[u]
        /\ call'[t].pc \in {"On", "Destroy"} /\ call'[t].head = call[t].head
        /\ call'[t].ptr = prev[p] /\ call'[t].root = call[t].root
    <2>1. ASSUME NEW u \in Threads \ {t}  PROVE call'[u] = call[u]
      <3>1. call'[u] = [call[u] EXCEPT !.ptr = IF @ = p THEN Freed ELSE @]
        BY DEF Free, FreeLink
      <3> QED BY <1>0, <1>4, <3>1 DEF CallType
    <2>2. call'[t] = [call[t] EXCEPT !.ptr = prev[p], !.pc =
                        IF call[t].op = "delete" THEN "On" ELSE "Destroy"]
      BY DEF Free, FreeLink
    <2> QED BY <1>0, <2>1, <2>2 DEF CallType
  <1>6. /\ Ring \subseteq alloc /\ pAppData \in Ring /\ alloc \subseteq Nodes
        /\ p \notin {NULL, Freed} /\ Freed \notin Nodes
    BY <1>2, <1>3, RingFacts, ListAssumption DEF ListOK, MemoryOK
  <1> HIDE DEF p, After
  <1>7. \A n \in alloc : n # p =>
          prev'[n] = After(prev[n]) /\ next'[n] = After(next[n])
    BY <1>1, <1>6
  <1>8. /\ \A r : r # p => After(r) = r
        /\ After(p) = Freed
    BY DEF After
  <1>9. \A n \in Ring : n # p /\ next'[n] = next[n]
    BY <1>2, <1>3, <1>6, <1>7, <1>8, RingFacts
  <1>10. Linked' /\ Chain' = Chain /\ Ring' = Ring
    <2>1. Ring \subseteq alloc'  BY <1>1, <1>3, <1>6
    <2> QED BY <1>1, <1>2, <1>9, <2>1, RingSame DEF ListOK
  <1>11. Contained'
    <2>1. \A n \in Nodes : /\ prev'[n] \in alloc' \cup {NULL, Freed}
                           /\ next'[n] \in alloc' \cup {NULL, Freed}
      BY <1>1, <1>2 DEF Contained, After
    <2>2. \A n \in Nodes \ alloc' : prev'[n] = NULL /\ next'[n] = NULL
      BY <1>1, <1>2, <1>6 DEF Contained, After
    <2>3. \A u \in Threads : call'[u].ptr \in alloc' \cup {NULL, Freed}
      BY <1>1, <1>2, <1>3, <1>4, <1>5, <1>6 DEF Contained
    <2> QED BY <2>1, <2>2, <2>3 DEF Contained
  <1>12. Unmade' /\ \A u \in Threads : HeadOK(call[u])'
    BY <1>0, <1>1, <1>5 DEF RingOK, HeadOK, Unmade, Early
  <1>13. OneStores'
    BY <1>2, <1>5 DEF Whole, OneStores
  <1>14. Off'
    <2> SUFFICES ASSUME NEW x \in alloc \ Ring, x # p, prev'[x] \in alloc'
                 PROVE  next'[prev'[x]] # x
      BY <1>1, <1>10 DEF Off
    <2>1. prev'[x] = prev[x] /\ prev[x] \in alloc /\ prev[x] # p
      BY <1>1, <1>6, <1>7, <1>8
    <2>2. next[prev[x]] # x  BY <1>2, <2>1 DEF Whole, Off
    <2>3. next'[prev[x]] \in {next[prev[x]], Freed}
      BY <1>7, <1>8, <2>1
    <2> QED BY <1>6, <2>1, <2>2, <2>3
  <1>15. Back'
    <2> SUFFICES ASSUME NEW q \in Ring
                 PROVE  \/ prev'[next'[q]] = q
                        \/ \E u \in Threads :
                             \/ call'[u].pc = "LinkPrev" /\ call'[u].ptr = q
                             \/ call'[u].pc = "UnlinkPrev" /\ prev'[call'[u].ptr] = q
      BY <1>10 DEF Back
    <2>1. next'[q] = next[q] /\ next[q] \in Ring /\ q # p
      BY <1>2, <1>9, RingFacts
    <2>2. CASE prev[next[q]] = q
      <3>1. next[q] \in alloc /\ next[q] # p  BY <1>3, <1>6, <2>1
      <3> QED BY <1>7, <1>8, <2>1, <2>2, <3>1
    <2>3. CASE prev[next[q]] # q
      <3>1. PICK u \in Threads :
              \/ call[u].pc = "LinkPrev" /\ call[u].ptr = q
              \/ call[u].pc = "UnlinkPrev" /\ prev[call[u].ptr] = q
        BY <1>2, <2>3 DEF Whole, Back
      <3>2. u # t /\ call'[u] = call[u] /\ call[u].ptr # p
        BY <1>1, <1>4, <1>5, <3>1
      <3>3. call[u].pc = "UnlinkPrev" =>
              call[u].ptr \in alloc /\ prev'[call[u].ptr] = prev[call[u].ptr]
        <4>1. call[u].pc = "UnlinkPrev" => call[u].ptr \in alloc
          BY <1>2 DEF Whole, UnlinkPrevOK
        <4> QED BY <1>7, <1>8, <2>1, <3>1, <3>2, <4>1
      <3> QED BY <3>1, <3>2, <3>3
    <2> QED BY <2>2, <2>3
  <1>16. ASSUME NEW u \in Threads
         PROVE  (LinkNextOK(u) /\ LinkPrevOK(u) /\ UnlinkNextOK(u)
                 /\ UnlinkPrevOK(u) /\ FreeOK(u))'
    <2>1. CASE u = t
      BY <1>5, <2>1 DEF LinkNextOK, LinkPrevOK, UnlinkNextOK, UnlinkPrevOK, FreeOK
    <2>2. CASE u # t
      <3> DEFINE x == call[u].ptr
      <3>1. call'[u] = call[u] /\ x # p
        BY <1>4, <1>5, <2>2
      <3>2. LinkNextOK(u)'
        <4> SUFFICES ASSUME call[u].pc = "LinkNext"  PROVE LinkNextOK(u)'
          BY <3>1 DEF LinkNextOK
        <4>1. /\ x \in alloc \ Ring
              /\ next[x] = pAppData /\ prev[x] = prev[pAppData]
              /\ \A n \in alloc : next[n] # x /\ prev[n] # x
              /\ \A v \in Threads \ {u} : call[v].ptr # x
          BY <1>2 DEF Whole, LinkNextOK
        <4> HIDE DEF x
        <4>2. x # Freed /\ pAppData # p
          BY <1>3, <1>6, <4>1
        <4>3. \A n \in alloc' : next'[n] # x /\ prev'[n] # x
          BY <1>1, <1>7, <4>1, <4>2 DEF After
        <4>4. \A v \in Threads \ {u} : call'[v].ptr # x
          BY <1>3, <1>5, <4>1
        <4>5. x \in alloc' \ Ring' /\ next'[x] = pAppData'
              /\ prev'[x] = prev'[pAppData']
          BY <1>1, <1>6, <1>7, <1>8, <1>10, <3>1, <4>1, <4>2
        <4> QED BY <3>1, <4>3, <4>4, <4>5 DEF LinkNextOK, x
      <3>3. LinkPrevOK(u)'
        <4> SUFFICES ASSUME call[u].pc = "LinkPrev"  PROVE LinkPrevOK(u)'
          BY <3>1 DEF LinkPrevOK
        <4>1. /\ x \in Ring \ {pAppData} /\ next[x] = pAppData
              /\ prev[x] \in Ring /\ next[prev[x]] = x /\ prev[pAppData] = prev[x]
          BY <1>2 DEF Whole, LinkPrevOK
        <4>2. prev'[x] = prev[x] /\ prev'[pAppData] = prev[pAppData]
          BY <1>6, <1>7, <1>8, <1>9, <4>1
        <4> QED BY <1>1, <1>9, <1>10, <3>1, <4>1, <4>2 DEF LinkPrevOK
      <3>4. UnlinkPrevOK(u)'
        <4> SUFFICES ASSUME call[u].pc = "UnlinkPrev"  PROVE UnlinkPrevOK(u)'
          BY <3>1 DEF UnlinkPrevOK
        <4>1. /\ x \in alloc \ Ring /\ prev[x] \in Ring
              /\ next[prev[x]] = next[x] /\ prev[next[x]] = x
          BY <1>2 DEF Whole, UnlinkPrevOK
        <4>2. next[x] \in Ring  BY <1>2, <4>1, RingFacts
        <4> HIDE DEF x
        <4>3. prev'[x] = prev[x] /\ next'[x] = next[x]
          BY <1>7, <1>8, <1>9, <3>1, <4>1, <4>2
        <4>4. prev'[next[x]] = x
          BY <1>6, <1>7, <1>8, <1>9, <3>1, <4>1, <4>2
        <4> QED BY <1>1, <1>9, <1>10, <3>1, <4>1, <4>2, <4>3, <4>4
                DEF UnlinkPrevOK, x
      <3>5. UnlinkNextOK(u)'
        BY <1>1, <1>2, <3>1 DEF Whole, UnlinkNextOK
      <3>6. FreeOK(u)'
        <4> SUFFICES ASSUME call[u].pc = "Free"  PROVE FreeOK(u)'
          BY <3>1 DEF FreeOK
        <4>1. x \in alloc \ Ring /\ prev[x] # x
          BY <1>2 DEF Whole, FreeOK
        <4> HIDE DEF x
        <4>2. prev'[x] # x
          BY <1>6, <1>7, <3>1, <4>1 DEF After
        <4> QED BY <1>1, <1>10, <3>1, <4>1, <4>2 DEF FreeOK, x
      <3> QED BY <3>2, <3>3, <3>4, <3>5, <3>6
    <2> QED BY <2>1, <2>2
  <1>17. Whole'
    BY <1>10, <1>13, <1>14, <1>15, <1>16 DEF Whole
  <1> QED BY <1>10, <1>11, <1>12, <1>17 DEF RingOK
-------------------------------------------------------------------------------
(* The steps of the whole                                                  *)

Store(t) ==
  MakeList(t) \/ AddLink(t) \/ LinkNext(t) \/ LinkPrev(t)
  \/ UnlinkNext(t) \/ UnlinkPrev(t) \/ Free(t)

Still == UNCHANGED <<pAppData, memory, files, call>>

LEMMA StepKinds ==
  ASSUME ListOK, RInv, [Next]_vars, ~broken'
  PROVE  /\ ~broken /\ RingOK
         /\ \/ Still
            \/ \E t \in Threads : Quiet(t) /\ Moves(t) /\ FileMoves(t)
            \/ \E t \in Threads : Store(t)
  <1>1. ~broken
    BY DEF Next, ListNext, ListStep, LifeStep, vars, listVars,
           Fault, MakeList, MakeListFails, WalkStart, WalkOn, WalkFound,
           WalkMissed, OpenEnter, AddFails, AddLink, LinkNext, LinkPrev,
           DelStart, DelPasses, DelFinds, DelEnd, DelEnter, UnlinkNext,
           UnlinkPrev, Free, FreeLink, Destroy, GoOn, Meddles, Begin, InitCount,
           InitRegister, DisposeSet, DestroyCount, Unregister, TearBegin,
           TearEnd, New, DisposeTest
  <1>2. RingOK  BY <1>1 DEF RInv
  <1>3. ASSUME UNCHANGED vars  PROVE Still
    BY <1>3 DEF vars, listVars, Still, memory
  <1>4. ASSUME NEW t \in Threads, Fault(t)  PROVE Still
    BY <1>4 DEF Fault, Still
  <1>5. ASSUME NEW t \in Threads, QuietActions(t)  PROVE Quiet(t) /\ Moves(t) /\ FileMoves(t)
    BY <1>1, <1>2, <1>5, QuietSteps
  <1>6. ASSUME Next
        PROVE  \E t \in Threads : Fault(t) \/ Store(t) \/ QuietActions(t)
    BY <1>6 DEF Next, ListNext, ListStep, Store, QuietActions
  <1> QED BY <1>1, <1>2, <1>3, <1>4, <1>5, <1>6

LEMMA StillKeeps ==
  ASSUME MemoryOK', RingOK, Still
  PROVE  RingOK' /\ (pAppData # NULL => Chain' = Chain /\ Ring' = Ring)
  <1>1. /\ pAppData' = pAppData /\ prev' = prev /\ next' = next
        /\ alloc' = alloc /\ call' = call
    BY DEF Still, memory
  <1>2. (Contained /\ Unmade /\ \A u \in Threads : HeadOK(call[u]))'
    BY <1>1 DEF RingOK, Contained, Unmade, HeadOK
  <1>3. ASSUME pAppData # NULL  PROVE Whole' /\ Chain' = Chain /\ Ring' = Ring
    <2>1. Whole /\ Linked  BY <1>3 DEF RingOK, Whole
    <2>2. Linked' /\ Chain' = Chain /\ Ring' = Ring
      BY <1>1, <2>1, RingSame, RingFacts
    <2> QED BY <1>1, <2>1, <2>2
            DEF Whole, OneStores, Off, Back, LinkNextOK, LinkPrevOK,
                UnlinkNextOK, UnlinkPrevOK, FreeOK
  <1> QED BY <1>1, <1>2, <1>3 DEF RingOK

LEMMA RInvKeeps ==
  ASSUME ListOK, ListOK', RInv, Owned, [Next]_vars
  PROVE  RInv'
  <1> SUFFICES ASSUME ~broken'  PROVE RingOK'
    BY DEF RInv
  <1>1. ~broken /\ RingOK  BY StepKinds
  <1>2. CASE Still  BY <1>1, <1>2, StillKeeps DEF ListOK
  <1>3. ASSUME NEW t \in Threads, Quiet(t)  PROVE RingOK'
    BY <1>1, <1>3, QuietKeeps DEF ListOK
  <1>4. ASSUME NEW t \in Threads, Store(t)  PROVE RingOK'
    BY <1>1, <1>4, MakeListRings, AddLinkRings, LinkNextRings, LinkPrevRings,
       UnlinkNextRings, UnlinkPrevRings, FreeRings
    DEF Store
  <1> QED BY <1>2, <1>3, <1>4, StepKinds

LEMMA InitRInv == Init => RInv
  <1> SUFFICES ASSUME Init  PROVE RingOK
    BY DEF RInv
  <1>1. pAppData = NULL /\ alloc = {} /\ \A t \in Threads : call[t] = Idle
    BY DEF Init, ListInit
  <1>2. Contained
    BY <1>1 DEF Init, ListInit, Contained, Idle
  <1>3. Unmade /\ \A t \in Threads : HeadOK(call[t])
    BY <1>1 DEF Unmade, HeadOK, Idle, Early
  <1> QED BY <1>1, <1>2, <1>3 DEF RingOK

-------------------------------------------------------------------------------
(* What a step does to the list                                            *)

LEMMA ChainFacts ==
  ASSUME RingOK
  PROVE  /\ Chain \in Seq(alloc) /\ IsInjective(Chain)
         /\ ToSet(Chain) = Ring \ {pAppData}
         /\ pAppData = NULL => Chain = <<>>
  <1>1. CASE pAppData = NULL
    <2>1. Chain = <<>>  BY <1>1 DEF Chain
    <2> QED BY <1>1, <2>1 DEF IsInjective, ToSet, Ring
  <1>2. CASE pAppData # NULL
    <2>1. Circle(pAppData, next, alloc, Chain)  BY <1>2 DEF RingOK, Whole, Linked
    <2>2. Chain \in Seq(alloc \ {pAppData}) /\ IsInjective(Chain)
      BY <2>1 DEF Circle
    <2>3. Chain \in Seq(alloc)  BY <2>2
    <2>4. \A i \in DOMAIN Chain : Chain[i] # pAppData  BY <2>2
    <2> QED BY <1>2, <2>2, <2>3, <2>4 DEF Ring, ToSet
  <1> QED BY <1>1, <1>2

Kept == Chain' = Chain /\ \A n \in ToSet(Chain) : obj'[n] = obj[n]

Added(t) ==
  /\ LinkNext(t) /\ call[t].ptr \in alloc \ Ring
  /\ Chain' = Append(Chain, call[t].ptr)

Taken(t) ==
  /\ UnlinkNext(t) /\ call[t].ptr \in ToSet(Chain)
  /\ Chain' = RemoveFirst(Chain, call[t].ptr)

LEMMA StillKept ==
  ASSUME ListOK, ListOK', RingOK, Still
  PROVE  Kept
  <1>1. CASE pAppData = NULL
    <2>1. Chain = <<>> /\ Chain' = <<>>  BY <1>1 DEF Chain, Still
    <2> QED BY <2>1 DEF Kept, ToSet
  <1>2. CASE pAppData # NULL
    BY <1>2, StillKeeps DEF ListOK, Kept, Still, memory
  <1> QED BY <1>1, <1>2

LEMMA QuietKept ==
  ASSUME ListOK, ListOK', RingOK, NEW t \in Threads, Quiet(t)
  PROVE  Kept
  <1>1. CASE pAppData = NULL
    <2>1. Chain = <<>> /\ Chain' = <<>>  BY <1>1 DEF Chain, Quiet
    <2> QED BY <2>1 DEF Kept, ToSet
  <1>2. CASE pAppData # NULL
    BY <1>2, QuietKeeps DEF ListOK, Kept, Quiet, memory
  <1> QED BY <1>1, <1>2

LEMMA ListedStep ==
  ASSUME ListOK, ListOK', RInv, Owned, [Next]_vars, ~broken'
  PROVE  Kept \/ \E t \in Threads : Added(t) \/ Taken(t)
  <1>1. ~broken /\ RingOK  BY StepKinds
  <1>2. RingOK'  BY RInvKeeps DEF RInv
  <1>3. /\ ToSet(Chain) = Ring \ {pAppData}
        /\ pAppData = NULL => Chain = <<>>
    BY <1>1, ChainFacts
  <1>5. CASE Still  BY <1>1, <1>5, StillKept
  <1>6. ASSUME NEW t \in Threads, Quiet(t)  PROVE Kept
    BY <1>1, <1>6, QuietKept
  <1>7. ASSUME NEW t \in Threads, Store(t)  PROVE Kept \/ Added(t) \/ Taken(t)
    <2>1. CASE MakeList(t)
      <3>1. Chain' = <<>> /\ Chain = <<>>  BY <1>1, <1>3, <2>1, MakeListRings
      <3> QED BY <3>1 DEF Kept, ToSet
    <2>2. CASE LinkNext(t)  BY <1>1, <2>2, LinkNextRings DEF Added
    <2>3. CASE UnlinkNext(t)  BY <1>1, <1>3, <2>3, UnlinkNextRings DEF Taken
    <2>4. CASE LinkPrev(t) \/ UnlinkPrev(t)
      <3>1. Chain' = Chain  BY <1>1, <2>4, LinkPrevRings, UnlinkPrevRings
      <3>2. obj' = obj  BY <2>4 DEF LinkPrev, UnlinkPrev
      <3> QED BY <3>1, <3>2 DEF Kept
    <2>5. ASSUME pAppData # NULL  PROVE ToSet(Chain) \subseteq alloc \cap Ring
      BY <1>1, <1>3, <2>5, RingFacts DEF RingOK, Whole
    <2>6. CASE AddLink(t)
      <3>1. Chain' = Chain  BY <1>1, <2>6, AddLinkRings
      <3>2. pAppData # NULL
        BY <2>6, ListAssumption DEF AddLink, At, Sound, Needs, ListOK, MemoryOK
      <3>3. \A n \in alloc : obj'[n] = obj[n]
        BY <2>6 DEF AddLink, ListOK, MemoryOK
      <3> QED BY <2>5, <3>1, <3>2, <3>3 DEF Kept
    <2>7. CASE Free(t)
      <3>1. Chain' = Chain  BY <1>1, <2>7, FreeRings
      <3>2. call[t].pc = "Free" /\ pAppData # NULL
        BY <1>1, <2>7 DEF Free, At, RingOK, Unmade, Early
      <3>3. call[t].ptr \in alloc \ Ring
        BY <1>1, <3>2 DEF RingOK, Whole, FreeOK
      <3>4. \A n \in alloc : n # call[t].ptr => obj'[n] = obj[n]
        BY <2>7 DEF Free, FreeLink, ListOK, MemoryOK
      <3> QED BY <2>5, <3>1, <3>2, <3>3, <3>4 DEF Kept
    <2> QED BY <1>7, <2>1, <2>2, <2>3, <2>4, <2>6, <2>7 DEF Store
  <1> QED BY <1>5, <1>6, <1>7, StepKinds

LEMMA StoreOthers ==
  ASSUME ListOK, NEW t \in Threads, Store(t), ~broken', NEW u \in Threads \ {t}
  PROVE  call'[u] = call[u]
  <1>0. call \in [Threads -> CallType]  BY DEF ListOK, CallOK
  <1>1. CASE MakeList(t)  BY <1>0, <1>1 DEF MakeList, Goto
  <1>2. CASE AddLink(t)  BY <1>0, <1>2 DEF AddLink
  <1>3. CASE LinkNext(t) \/ UnlinkNext(t) \/ UnlinkPrev(t) \/ LinkPrev(t)
    BY <1>0, <1>3 DEF LinkNext, LinkPrev, UnlinkNext, UnlinkPrev, Goto, Return
  <1>4. CASE Free(t)
    <2>1. call[u].ptr # call[t].ptr  BY <1>4 DEF Free, FreeLink
    <2> QED BY <1>0, <1>4, <2>1 DEF Free, FreeLink, CallType
  <1> QED BY <1>1, <1>2, <1>3, <1>4 DEF Store
-------------------------------------------------------------------------------
(* A search                                                                *)

(* A set of links that pNext does not lead out of, but at the head.        *)
Closed(W) ==
  \A x \in W \cap Nodes : x # pAppData => next[x] \in W \cup {NULL}

(* Whoever follows pNext from p comes by link n, if not by freed memory.   *)
Ahead(p, n) ==
  \A W \in SUBSET (Nodes \cup {Freed}) :
    p \in W /\ Closed(W) => n \in W \/ Freed \in W

(* Nor does it lead out of W to a link, and no link of W is of file o.     *)
Without(W, o) ==
  \A x \in W : x # pAppData => next[x] \in W \cup {NULL, Freed} /\ zName[obj[x]] # o

(* Whoever follows pNext from p does not come by a link of file o.         *)
NoneAhead(p, o) ==
  \E W \in SUBSET Nodes : p \in W \cup {NULL, Freed} /\ Without(W, o)

LEMMA FromHead ==
  ASSUME MemoryOK, RingOK, pAppData # NULL
  PROVE  \A n \in ToSet(Chain) : Ahead(next[pAppData], n)
  <1> SUFFICES ASSUME NEW W \in SUBSET (Nodes \cup {Freed}),
                      next[pAppData] \in W, Closed(W),
                      NEW n \in ToSet(Chain)
               PROVE  n \in W
    BY DEF Ahead
  <1>1. /\ Chain \in Seq(alloc \ {pAppData}) /\ alloc \subseteq Nodes
        /\ \A i \in 0 .. Len(Chain) :
             next[Place(pAppData, Chain, i)] = Place(pAppData, Chain, i + 1)
    BY DEF RingOK, Whole, Linked, Circle, MemoryOK
  <1> DEFINE C == Len(Chain)
             S == {i \in Nat : i = 0 \/ Place(pAppData, Chain, i) \in W}
  <1>2. C \in Nat  BY <1>1
  <1>3. 0 \in S  OBVIOUS
  <1>4. ASSUME NEW i \in 0 .. C - 1, i \in S  PROVE i + 1 \in S
    <2>1. i \in 0 .. C /\ i + 1 \in 1 .. C  BY <1>2
    <2>2. /\ next[Place(pAppData, Chain, i)] = Place(pAppData, Chain, i + 1)
          /\ Place(pAppData, Chain, i + 1) = Chain[i + 1]
          /\ Chain[i + 1] \in Nodes
      BY <1>1, <2>1 DEF Place
    <2>3. CASE i = 0
      <3>1. Place(pAppData, Chain, i) = pAppData  BY <2>3 DEF Place
      <3> QED BY <1>2, <2>2, <3>1
    <2>4. CASE i # 0
      <3>1. Place(pAppData, Chain, i) \in W /\ i \in 1 .. C
        BY <1>2, <1>4, <2>4
      <3>2. Place(pAppData, Chain, i) \in Nodes \ {pAppData}
        BY <1>1, <3>1 DEF Place
      <3>3. Place(pAppData, Chain, i + 1) \in W
        BY <2>2, <3>1, <3>2, ListAssumption DEF Closed
      <3> QED BY <1>2, <3>3
    <2> QED BY <2>3, <2>4
  <1> HIDE DEF S
  <1>5. \A i \in 0 .. C : i \in S
    <2> HIDE DEF C
    <2> QED BY <1>2, <1>3, <1>4, InductionTo
  <1>6. PICK i \in 1 .. C : n = Chain[i]
    BY <1>1 DEF ToSet
  <1>7. i \in S /\ i # 0 /\ Place(pAppData, Chain, i) = n
    BY <1>2, <1>5, <1>6 DEF Place
  <1> QED BY <1>7 DEF S

LEMMA NoneFromHead ==
  ASSUME MemoryOK, RingOK, pAppData # NULL, NEW o, o \notin ToSet(Listing)
  PROVE  NoneAhead(next[pAppData], o)
  <1>1. Linked  BY DEF RingOK, Whole
  <1>2. /\ Ring \subseteq Nodes /\ pAppData \in Ring
        /\ \A n \in Ring : next[n] \in Ring
    BY <1>1, RingFacts DEF MemoryOK
  <1>3. \A n \in ToSet(Chain) : zName[obj[n]] # o  BY DEF Listing, ToSet
  <1>4. \A n \in Ring : n # pAppData => zName[obj[n]] # o
    BY <1>3, ChainFacts
  <1> QED BY <1>2, <1>4 DEF NoneAhead, Without

LEMMA AheadOn ==
  ASSUME NEW p \in Nodes, p # pAppData, NEW n, n # p, Ahead(p, n)
  PROVE  Ahead(next[p], n)
  <1> SUFFICES ASSUME NEW W \in SUBSET (Nodes \cup {Freed}),
                      next[p] \in W, Closed(W)
               PROVE  n \in W \/ Freed \in W
    BY DEF Ahead
  <1>1. Closed(W \cup {p})  BY DEF Closed
  <1>2. n \in W \cup {p} \/ Freed \in W \cup {p}  BY <1>1 DEF Ahead
  <1> QED BY <1>2, ListAssumption

LEMMA NoneAheadOn ==
  ASSUME NEW p \in Nodes, p # pAppData, NEW o, NoneAhead(p, o)
  PROVE  NoneAhead(next[p], o)
  BY ListAssumption DEF NoneAhead, Without

(* What the steps of the others on the links leave a search.               *)
LEMMA StoresAhead ==
  ASSUME ListOK, ListOK', RingOK, Owned, ~broken', NEW t \in Threads, Store(t),
         pAppData # NULL, NEW p, Free(t) => p # call[t].ptr,
         NEW n, UnlinkNext(t) => n # call[t].ptr, Ahead(p, n)
  PROVE  Ahead(p, n)'
  <1> SUFFICES ASSUME NEW W \in SUBSET (Nodes \cup {Freed}), p \in W, Closed(W)'
               PROVE  n \in W \/ Freed \in W
    BY DEF Ahead
  <1> DEFINE q == call[t].ptr
  <1>0. /\ next \in [Nodes -> Nodes \cup {NULL, Freed}] /\ alloc \subseteq Nodes
        /\ Freed \notin Nodes /\ NULL \notin Nodes /\ NULL # Freed
    BY ListAssumption DEF ListOK, MemoryOK
  <1>1. pAppData' = pAppData /\ ~MakeList(t)
    <2>1. ~MakeList(t)  BY DEF MakeList
    <2> QED BY <2>1 DEF Store, AddLink, LinkNext, LinkPrev, UnlinkNext, UnlinkPrev, Free
  <1>2. CASE next' = next
    BY <1>1, <1>2 DEF Ahead, Closed
  <1>3. CASE AddLink(t)
    <2>1. PICK x \in Nodes \ alloc : next' = [next EXCEPT ![x] = pAppData]
      BY <1>3 DEF AddLink
    <2>2. next[x] = NULL  BY <2>1 DEF RingOK, Contained
    <2>3. Closed(W)  BY <1>0, <1>1, <2>1, <2>2 DEF Closed
    <2> QED BY <2>3 DEF Ahead
  <1>4. CASE LinkNext(t)
    <2>1. /\ q \in alloc \ Ring
          /\ prev[pAppData] \in Ring /\ next[prev[pAppData]] = pAppData
      BY <1>4, LinkNextRings
    <2>2. call[t].pc = "LinkNext"  BY <1>4 DEF LinkNext, At
    <2>3. next[q] = pAppData /\ call[t].head = pAppData
      BY <2>2 DEF RingOK, Whole, LinkNextOK, HeadOK, Early
    <2>4. /\ next' = [next EXCEPT ![prev[pAppData]] = q]
          /\ q # prev[pAppData] /\ q # pAppData
          /\ prev[pAppData] \in Nodes
      <3>1. pAppData \in Ring /\ Ring \subseteq alloc
        BY RingFacts DEF RingOK, Whole
      <3> QED BY <1>0, <1>4, <2>1, <2>3, <3>1 DEF LinkNext
    <2>5. Closed(W)
      BY <1>0, <1>1, <2>1, <2>3, <2>4 DEF Closed
    <2> QED BY <2>5 DEF Ahead
  <1>5. CASE UnlinkNext(t)
    <2>1. /\ q \in Ring \ {pAppData} /\ prev[q] \in Ring /\ next[prev[q]] = q
      BY <1>5, UnlinkNextRings
    <2>2. /\ next' = [next EXCEPT ![prev[q]] = next[q]]
          /\ q \in Nodes /\ prev[q] \in Nodes /\ q # prev[q]
      <3>1. /\ pAppData \in Ring /\ Ring \subseteq alloc
            /\ \A m \in Ring : next[m] = m => m = pAppData
        BY RingFacts DEF RingOK, Whole
      <3> QED BY <1>0, <1>5, <2>1, <3>1 DEF UnlinkNext
    <2>3. ASSUME prev[q] \in W, prev[q] # pAppData  PROVE Closed(W \cup {q})
      <3>1. next[q] \in W \cup {NULL}
        BY <1>0, <1>1, <2>2, <2>3 DEF Closed
      <3> QED BY <1>0, <1>1, <2>1, <2>2, <3>1 DEF Closed
    <2>4. ASSUME ~(prev[q] \in W /\ prev[q] # pAppData)  PROVE Closed(W)
      BY <1>0, <1>1, <2>1, <2>2, <2>4 DEF Closed
    <2>5. W \cup {q} \in SUBSET (Nodes \cup {Freed})  BY <2>2
    <2> QED BY <1>0, <1>5, <2>2, <2>3, <2>4, <2>5 DEF Ahead
  <1>6. CASE Free(t)
    <2> SUFFICES ASSUME Freed \notin W  PROVE n \in W
      OBVIOUS
    <2>1. next' = [m \in Nodes |-> IF m = q THEN NULL
                                   ELSE IF next[m] = q THEN Freed ELSE next[m]]
      BY <1>6 DEF Free, FreeLink
    <2>2. ASSUME NEW m \in W \ {q}, m \in Nodes, m # pAppData
          PROVE  next[m] \in (W \ {q}) \cup {NULL}
      <3>1. next'[m] \in W \cup {NULL}  BY <1>1, <2>2 DEF Closed
      <3>2. next'[m] = IF next[m] = q THEN Freed ELSE next[m]
        BY <2>1, <2>2
      <3> QED BY <1>0, <3>1, <3>2
    <2>3. Closed(W \ {q})  BY <2>2 DEF Closed
    <2>4. W \ {q} \in SUBSET (Nodes \cup {Freed}) /\ p \in W \ {q}
      BY <1>6
    <2> QED BY <2>3, <2>4 DEF Ahead
  <1> QED BY <1>1, <1>2, <1>3, <1>4, <1>5, <1>6 DEF Store, LinkPrev, UnlinkPrev

LEMMA StoresNoneAhead ==
  ASSUME ListOK, ListOK', RingOK, Owned, ~broken', NEW t \in Threads, Store(t),
         pAppData # NULL, NEW p, p \in alloc \cup {NULL, Freed},
         Free(t) => p # call[t].ptr,
         NEW o, LinkNext(t) => zName[obj[call[t].ptr]] # o, NoneAhead(p, o)
  PROVE  NoneAhead(p, o)'
  <1> DEFINE q == call[t].ptr
  <1>0. /\ next \in [Nodes -> Nodes \cup {NULL, Freed}] /\ alloc \subseteq Nodes
        /\ obj \in [Nodes -> Files \cup {NULL}]
        /\ Freed \notin Nodes /\ NULL \notin Nodes /\ NULL # Freed
    BY ListAssumption DEF ListOK, MemoryOK
  <1>1. pAppData' = pAppData /\ ~MakeList(t)
    <2>1. ~MakeList(t)  BY DEF MakeList
    <2> QED BY <2>1 DEF Store, AddLink, LinkNext, LinkPrev, UnlinkNext, UnlinkPrev, Free
  <1>w. PICK W \in SUBSET Nodes : p \in W \cup {NULL, Freed} /\ Without(W, o)
    BY DEF NoneAhead
  <1>2. CASE LinkPrev(t) \/ UnlinkPrev(t)
    <2>1. next' = next /\ obj' = obj  BY <1>2 DEF LinkPrev, UnlinkPrev
    <2>2. Without(W, o)'  BY <1>1, <1>w, <2>1 DEF Without
    <2> QED BY <1>w, <2>2 DEF NoneAhead
  <1>3. CASE AddLink(t)
    <2>1. PICK x \in Nodes \ alloc :
            next' = [next EXCEPT ![x] = pAppData]
            /\ \E f \in Files : obj' = [obj EXCEPT ![x] = f]
      BY <1>3 DEF AddLink
    <2>2. \A m \in Nodes : next[m] # x
      BY <1>0, <2>1 DEF RingOK, Contained
    <2>3. Without(W \ {x}, o)'
      BY <1>0, <1>1, <1>w, <2>1, <2>2 DEF Without
    <2>4. p \in (W \ {x}) \cup {NULL, Freed}  BY <1>w, <1>0, <2>1
    <2> QED BY <2>3, <2>4 DEF NoneAhead
  <1>4. CASE LinkNext(t)
    <2>1. /\ q \in alloc \ Ring
          /\ prev[pAppData] \in Ring /\ next[prev[pAppData]] = pAppData
      BY <1>4, LinkNextRings
    <2>2. call[t].pc = "LinkNext"  BY <1>4 DEF LinkNext, At
    <2>3. next[q] = pAppData /\ call[t].head = pAppData
      BY <2>2 DEF RingOK, Whole, LinkNextOK, HeadOK, Early
    <2>4. /\ next' = [next EXCEPT ![prev[pAppData]] = q] /\ obj' = obj
          /\ q # prev[pAppData] /\ q # pAppData
          /\ prev[pAppData] \in Nodes /\ pAppData \in Nodes
      <3>1. pAppData \in Ring /\ Ring \subseteq alloc
        BY RingFacts DEF RingOK, Whole
      <3> QED BY <1>0, <1>4, <2>1, <2>3, <3>1 DEF LinkNext
    <2>5. PICK V : V = W \cup {q, pAppData}  OBVIOUS
    <2>6. ASSUME NEW x \in V, x # pAppData
          PROVE  next'[x] \in V \cup {NULL, Freed} /\ zName[obj'[x]] # o
      <3>1. CASE x = q  BY <1>0, <1>4, <2>1, <2>3, <2>4, <2>5, <3>1
      <3>2. CASE x # q
        <4>1. x \in W /\ x \in Nodes  BY <2>5, <2>6, <3>2
        <4>2. next[x] \in W \cup {NULL, Freed} /\ zName[obj[x]] # o
          BY <1>w, <2>6, <4>1 DEF Without
        <4> QED BY <1>0, <2>4, <2>5, <4>1, <4>2
      <3> QED BY <3>1, <3>2
    <2>7. Without(V, o)'  BY <1>1, <2>6 DEF Without
    <2>8. V \in SUBSET Nodes  BY <1>0, <2>1, <2>4, <2>5
    <2> QED BY <1>w, <2>5, <2>7, <2>8 DEF NoneAhead
  <1>5. CASE UnlinkNext(t)
    <2>1. /\ q \in Ring \ {pAppData} /\ prev[q] \in Ring /\ next[prev[q]] = q
      BY <1>5, UnlinkNextRings
    <2>2. /\ next' = [next EXCEPT ![prev[q]] = next[q]] /\ obj' = obj
          /\ q \in Nodes /\ prev[q] \in Nodes
      <3>1. Ring \subseteq alloc
        BY RingFacts DEF RingOK, Whole
      <3> QED BY <1>0, <1>5, <2>1, <3>1 DEF UnlinkNext
    <2>3. Without(W, o)'
      BY <1>0, <1>1, <1>w, <2>1, <2>2 DEF Without
    <2> QED BY <1>w, <2>3 DEF NoneAhead
  <1>6. CASE Free(t)
    <2>1. /\ next' = [m \in Nodes |-> IF m = q THEN NULL
                                      ELSE IF next[m] = q THEN Freed ELSE next[m]]
          /\ obj' = [obj EXCEPT ![q] = NULL]
      BY <1>6 DEF Free, FreeLink
    <2>2. PICK V : V = W \ {q}  OBVIOUS
    <2>3. ASSUME NEW x \in V, x # pAppData
          PROVE  next'[x] \in V \cup {NULL, Freed} /\ zName[obj'[x]] # o
      <3>1. x \in W /\ x \in Nodes /\ x # q  BY <2>2
      <3>2. next[x] \in W \cup {NULL, Freed} /\ zName[obj[x]] # o
        BY <1>w, <2>3, <3>1 DEF Without
      <3> QED BY <1>0, <2>1, <2>2, <3>1, <3>2
    <2>4. Without(V, o)'  BY <1>1, <2>3 DEF Without
    <2>5. p \in V \cup {NULL, Freed} /\ V \in SUBSET Nodes  BY <1>6, <1>w, <2>2
    <2> QED BY <2>4, <2>5 DEF NoneAhead
  <1> QED BY <1>1, <1>2, <1>3, <1>4, <1>5, <1>6 DEF Store
-------------------------------------------------------------------------------
(* The names in the list                                                   *)

LEMMA ListingIs == ToSet(Listing) = {zName[obj[n]] : n \in ToSet(Chain)}
  BY DEF Listing, ToSet

Adding(t) == call[t].pc \in {"Add", "LinkNext"}

(* Each file is listed once, and not at all while xOpen is about to put it *)
(* in.                                                                     *)
NamesOK ==
  /\ \A m, n \in ToSet(Chain) : zName[obj[m]] = zName[obj[n]] => m = n
  /\ \A n \in ToSet(Chain) : obj[n] \in Files
  /\ \A t \in Threads : Adding(t) => call[t].o \notin ToSet(Listing)
  /\ \A t \in Threads : call[t].pc = "LinkNext" =>
       obj[call[t].ptr] \in Files /\ zName[obj[call[t].ptr]] = call[t].o

(* A search has its file ahead if it is listed, unless that was put in     *)
(* behind its back (only before xOpen's critical section); and has none    *)
(* ahead of a name that was not listed since it began.                     *)
SearchOK(t) ==
  call[t].pc = "Walk" =>
    /\ IF call[t].o \in ToSet(Listing) THEN "present" \in seen[t]
                                       ELSE "absent" \in seen[t]
    /\ \A n \in ToSet(Chain) : zName[obj[n]] = call[t].o =>
         Ahead(call[t].ptr, n) \/ (call[t].root = NULL /\ "absent" \in seen[t])
    /\ "present" \in seen[t] \/ NoneAhead(call[t].ptr, call[t].o)

Searched == ~broken => NamesOK /\ \A t \in Threads : SearchOK(t)

LEMMA AddersOne ==
  ASSUME ListOK, RingOK, Owned, NEW t \in Threads, NEW u \in Threads,
         call[t].root # NULL, call[u].root # NULL
  PROVE  t = u
  BY DEF Owned, OwnedBy, RingOK, HeadOK

LEMMA NamesKeep ==
  ASSUME ListOK, ListOK', RInv, Owned, Searched, [Next]_vars, ~broken'
  PROVE  NamesOK'
  <1>1. ~broken /\ RingOK /\ NamesOK /\ \A t \in Threads : SearchOK(t)
    BY StepKinds DEF Searched
  <1>0. call \in [Threads -> CallType]  BY DEF ListOK, CallOK
  <1>2. ToSet(Listing') = {zName[obj'[n]] : n \in ToSet(Chain')}
    BY DEF Listing, ToSet
  <1>3. Chain \in Seq(alloc) /\ IsInjective(Chain) /\ ToSet(Chain) = Range(Chain)
    BY <1>1, ChainFacts DEF ToSet, Range
  <1>4. ASSUME NEW t \in Threads, Added(t)
        PROVE  /\ obj' = obj /\ call[t].pc = "LinkNext" /\ call'[t].pc = "LinkPrev"
               /\ ToSet(Chain') = ToSet(Chain) \cup {call[t].ptr}
               /\ obj[call[t].ptr] \in Files /\ zName[obj[call[t].ptr]] = call[t].o
               /\ call[t].o \in Names
               /\ call[t].o \notin ToSet(Listing)
    <2>1. obj' = obj /\ call[t].pc = "LinkNext" /\ call'[t].pc = "LinkPrev"
      BY <1>0, <1>4 DEF Added, LinkNext, At, Goto, CallType
    <2>2. Range(Chain') = Range(Chain) \cup {call[t].ptr}
      BY <1>3, <1>4, RangeAppend DEF Added
    <2>3. ToSet(Chain') = Range(Chain')  BY DEF ToSet, Range
    <2>4. call[t].o \in Names
      BY <2>1 DEF Owned, OwnedBy, ListOK, PlacesOK, RootOK, PlaceOK, Ops
    <2> QED BY <1>1, <1>3, <2>1, <2>2, <2>3, <2>4 DEF NamesOK, Adding
  <1>5. ASSUME NEW t \in Threads, Taken(t)
        PROVE  obj' = obj /\ ToSet(Chain') \subseteq ToSet(Chain)
    <2>1. Range(Chain') \subseteq Range(Chain)
      BY <1>3, <1>5, RangeRemove DEF Taken
    <2>2. ToSet(Chain') = Range(Chain')  BY DEF ToSet, Range
    <2> QED BY <1>3, <1>5, <2>1, <2>2 DEF Taken, UnlinkNext
  <1>6. Kept \/ \E t \in Threads : Added(t) \/ Taken(t)
    BY ListedStep
  <1>7. /\ \A m, n \in ToSet(Chain') : zName[obj'[m]] = zName[obj'[n]] => m = n
        /\ \A n \in ToSet(Chain') : obj'[n] \in Files
    BY <1>1, <1>4, <1>5, <1>6, ListingIs DEF NamesOK, Kept
  <1>8. ASSUME NEW u \in Threads, Adding(u)'
        PROVE  /\ call'[u].o \notin ToSet(Listing)
               /\ Adding(u) \/ call[u].pc = "Walk"
    <2>1. CASE Still  BY <1>1, <1>8, <2>1 DEF Still, Adding, NamesOK
    <2>2. ASSUME NEW t \in Threads, Quiet(t), Moves(t)
          PROVE  /\ call'[u].o \notin ToSet(Listing)
                 /\ Adding(u) \/ call[u].pc = "Walk"
      <3>1. CASE u # t  BY <1>1, <1>8, <2>2, <3>1 DEF Quiet, Adding, NamesOK
      <3>2. CASE u = t
        <4>1. /\ call[t].pc = "Walk" /\ call[t].ptr = pAppData
              /\ call[t].root # NULL /\ call'[t].o = call[t].o
          BY <1>8, <2>2, <3>2 DEF Quiet, Moves, Adding, Holding
        <4>2. pAppData \in Nodes /\ pAppData # NULL
          BY <1>1, <4>1, ListAssumption
          DEF RingOK, Unmade, Early, ListOK, MemoryOK
        <4>3. ASSUME NEW n \in ToSet(Chain), zName[obj[n]] = call[t].o
              PROVE  FALSE
          <5>1. Ahead(pAppData, n)  BY <1>1, <4>1, <4>3 DEF SearchOK
          <5>2. Closed({pAppData})  BY DEF Closed
          <5>3. n = pAppData \/ Freed = pAppData
            BY <4>2, <5>1, <5>2 DEF Ahead
          <5> QED BY <1>1, <4>2, <5>3, ChainFacts, ListAssumption
        <4> QED BY <3>2, <4>1, <4>3, ListingIs
      <3> QED BY <3>1, <3>2
    <2>3. ASSUME NEW t \in Threads, Store(t)
          PROVE  /\ call'[u].o \notin ToSet(Listing)
                 /\ Adding(u) \/ call[u].pc = "Walk"
      <3>1. CASE u # t
        <4>1. call'[u] = call[u]  BY <2>3, <3>1, StoreOthers
        <4> QED BY <1>1, <1>8, <4>1 DEF Adding, NamesOK
      <3>2. CASE u = t
        <4>1. ~MakeList(t)
          BY <1>0, <1>8, <3>2 DEF MakeList, Goto, Adding, CallType
        <4>2. ~(LinkNext(t) \/ LinkPrev(t) \/ UnlinkNext(t) \/ UnlinkPrev(t))
          BY <1>0, <1>8, <3>2 DEF LinkNext, LinkPrev, UnlinkNext, UnlinkPrev,
             Goto, Return, Idle, Adding, CallType
        <4>3. ~Free(t)
          BY <1>0, <1>8, <3>2 DEF Free, FreeLink, Adding, CallType
        <4>4. AddLink(t)  BY <2>3, <4>1, <4>2, <4>3 DEF Store
        <4>5. call[t].pc = "Add" /\ call'[t].o = call[t].o
          BY <1>0, <4>4 DEF AddLink, At, CallType
        <4> QED BY <1>1, <3>2, <4>5 DEF Adding, NamesOK
      <3> QED BY <3>1, <3>2
    <2> QED BY <2>1, <2>2, <2>3, StepKinds
  <1>9. ASSUME NEW u \in Threads, Adding(u)'
        PROVE  call'[u].o \notin ToSet(Listing')
    <2>1. call'[u].o \notin ToSet(Listing)  BY <1>8, <1>9
    <2>2. CASE Kept \/ \E t \in Threads : Taken(t)
      BY <1>2, <1>5, <2>1, <2>2, ListingIs DEF Kept
    <2>3. ASSUME NEW t \in Threads, Added(t)  PROVE FALSE
      <3>1. u # t  BY <1>4, <1>9, <2>3 DEF Adding
      <3>2. call'[u] = call[u]
        BY <2>3, <3>1, StoreOthers DEF Added, Store
      <3>3. call[u].root # NULL /\ call[t].root # NULL
        BY <1>4, <1>9, <2>3, <3>2 DEF Owned, OwnedBy, Adding
      <3> QED BY <1>1, <3>1, <3>3, AddersOne
    <2> QED BY <1>6, <2>2, <2>3
  <1>10. ASSUME NEW u \in Threads, call'[u].pc = "LinkNext"
         PROVE  /\ obj'[call'[u].ptr] \in Files
                 /\ zName[obj'[call'[u].ptr]] = call'[u].o
    <2>1. CASE Still  BY <1>1, <1>10, <2>1 DEF Still, memory, NamesOK
    <2>2. ASSUME NEW t \in Threads, Quiet(t)
          PROVE  /\ obj'[call'[u].ptr] \in Files
                 /\ zName[obj'[call'[u].ptr]] = call'[u].o
      BY <1>1, <1>10, <2>2 DEF Quiet, memory, Holding, NamesOK
    <2>3. ASSUME NEW t \in Threads, Store(t)
          PROVE  /\ obj'[call'[u].ptr] \in Files
                 /\ zName[obj'[call'[u].ptr]] = call'[u].o
      <3>1. CASE u = t
        <4>1. AddLink(t)
          <5>1. ~MakeList(t)
            BY <1>0, <1>10, <3>1 DEF MakeList, Goto, CallType
          <5>2. ~(LinkNext(t) \/ LinkPrev(t) \/ UnlinkNext(t) \/ UnlinkPrev(t))
            BY <1>0, <1>10, <3>1 DEF LinkNext, LinkPrev, UnlinkNext,
               UnlinkPrev, Goto, Return, Idle, CallType
          <5>3. ~Free(t)
            BY <1>0, <1>10, <3>1 DEF Free, FreeLink, CallType
          <5> QED BY <2>3, <5>1, <5>2, <5>3 DEF Store
        <4> QED BY <1>0, <3>1, <4>1 DEF AddLink, CallType, ListOK, MemoryOK
      <3>2. CASE u # t
        <4>1. call'[u] = call[u]  BY <2>3, <3>2, StoreOthers
        <4>2. pAppData # NULL
          BY <1>1, <1>10, <4>1 DEF RingOK, Unmade, Early
        <4>3. call[u].ptr \in alloc /\ call[u].ptr # call[t].ptr
          BY <1>1, <1>10, <3>2, <4>1, <4>2 DEF RingOK, Whole, LinkNextOK
        <4>4. obj'[call[u].ptr] = obj[call[u].ptr]
          BY <2>3, <4>2, <4>3
          DEF Store, MakeList, AddLink, LinkNext, LinkPrev, UnlinkNext,
              UnlinkPrev, Free, FreeLink, ListOK, MemoryOK, memory
        <4> QED BY <1>1, <1>10, <4>1, <4>4 DEF NamesOK
      <3> QED BY <3>1, <3>2
    <2> QED BY <2>1, <2>2, <2>3, StepKinds
  <1> QED BY <1>7, <1>9, <1>10 DEF NamesOK

LEMMA SearchKeeps ==
  ASSUME ListOK, ListOK', RInv, Owned, Searched, Next, ~broken',
         NEW u \in Threads
  PROVE  SearchOK(u)'
  <1> SUFFICES ASSUME call'[u].pc = "Walk"  PROVE SearchOK(u)'
    BY DEF SearchOK
  <1>1. ~broken /\ RingOK /\ NamesOK /\ SearchOK(u)
    BY StepKinds DEF Searched
  <1>0. call \in [Threads -> CallType]  BY DEF ListOK, CallOK
  <1>2. /\ IF call'[u].o \in ToSet(Listing') THEN "present" \in seen'[u]
                                             ELSE "absent" \in seen'[u]
        /\ call[u].pc = "Walk" => seen[u] \subseteq seen'[u]
    BY DEF Next, Observe
  <1>3. ToSet(Listing') = {zName[obj'[n]] : n \in ToSet(Chain')}
    BY DEF Listing, ToSet
  <1>4. ASSUME pAppData' = pAppData, next' = next, obj' = obj
        PROVE  \A p, n, o : /\ Ahead(p, n)' <=> Ahead(p, n)
                            /\ NoneAhead(p, o)' <=> NoneAhead(p, o)
    BY <1>4 DEF Ahead, Closed, NoneAhead, Without
  <1>5. CASE Still
    <2>1. Kept /\ pAppData' = pAppData /\ next' = next /\ obj' = obj /\ call' = call
      BY <1>1, <1>5, StillKept DEF Still, memory
    <2> QED BY <1>1, <1>2, <1>4, <2>1 DEF Kept, SearchOK
  <1>6. ASSUME NEW t \in Threads, Quiet(t), Moves(t)  PROVE SearchOK(u)'
    <2>1. Kept /\ pAppData' = pAppData /\ next' = next /\ obj' = obj
      BY <1>1, <1>6, QuietKept DEF Quiet, memory
    <2>2. CASE u # t
      <3>1. call'[u] = call[u]  BY <1>6, <2>2 DEF Quiet
      <3> QED BY <1>1, <1>2, <1>4, <2>1, <3>1 DEF Kept, SearchOK
    <2>3. CASE u = t /\ call[t].pc # "Walk"
      <3>1. call'[t].ptr = next[pAppData] /\ pAppData # NULL
        BY <1>6, <2>3 DEF Moves, Quiet, Early
      <3>2. \A n \in ToSet(Chain) : Ahead(next[pAppData], n)
        BY <1>1, <3>1, FromHead DEF ListOK
      <3>3. "present" \in seen'[u] \/ NoneAhead(next[pAppData], call'[u].o)
        <4>1. ToSet(Listing') = ToSet(Listing)
          BY <1>3, <2>1, ListingIs DEF Kept
        <4> QED BY <1>1, <1>2, <3>1, <4>1, NoneFromHead DEF ListOK
      <3> QED BY <1>2, <1>4, <2>1, <2>3, <3>1, <3>2, <3>3 DEF Kept, SearchOK
    <2>4. CASE u = t /\ call[t].pc = "Walk"
      <3>1. /\ call'[t].o = call[t].o /\ call'[t].root = call[t].root
            /\ call[t].ptr \in Nodes /\ call[t].ptr # pAppData
            /\ zName[obj[call[t].ptr]] # call[t].o /\ call'[t].ptr = next[call[t].ptr]
        BY <1>6, <2>4 DEF Moves, ListOK, MemoryOK
      <3>2. ASSUME NEW n, zName[obj[n]] = call[t].o, Ahead(call[t].ptr, n)
            PROVE  Ahead(next[call[t].ptr], n)
        BY <3>1, <3>2, AheadOn
      <3>3. NoneAhead(call[t].ptr, call[t].o) =>
              NoneAhead(next[call[t].ptr], call[t].o)
        BY <3>1, NoneAheadOn
      <3> QED BY <1>1, <1>2, <1>4, <2>1, <2>4, <3>1, <3>2, <3>3 DEF Kept, SearchOK
    <2> QED BY <2>2, <2>3, <2>4
  <1>7. ASSUME NEW t \in Threads, Store(t)  PROVE SearchOK(u)'
    <2>1. u # t
      <3>1. ~MakeList(t) \/ call'[t].pc # "Walk"
        BY <1>0 DEF MakeList, Goto, CallType
      <3>2. LinkNext(t) \/ LinkPrev(t) \/ UnlinkNext(t) \/ UnlinkPrev(t) =>
              call'[t].pc # "Walk"
        BY <1>0 DEF LinkNext, LinkPrev, UnlinkNext, UnlinkPrev, Goto, Return,
           Idle, CallType
      <3>3. AddLink(t) => call'[t].pc # "Walk"
        BY <1>0 DEF AddLink, CallType
      <3>4. Free(t) => call'[t].pc # "Walk"
        BY <1>0 DEF Free, FreeLink, CallType
      <3> QED BY <1>7, <3>1, <3>2, <3>3, <3>4 DEF Store
    <2>2. call'[u] = call[u]  BY <1>7, <2>1, StoreOthers
    <2>3. /\ pAppData # NULL /\ call[u].ptr \in alloc \cup {NULL, Freed}
          /\ Free(t) => call[u].ptr # call[t].ptr
      BY <1>1, <2>1, <2>2 DEF RingOK, Unmade, Early, Contained, Free, FreeLink
    <2>4. PICK p : p = call[u].ptr  OBVIOUS
    <2>5. PICK o : o = call[u].o  OBVIOUS
    <2>6. Chain \in Seq(alloc) /\ IsInjective(Chain) /\ ToSet(Chain) = Range(Chain)
      BY <1>1, ChainFacts DEF ToSet, Range
    <2>7. ASSUME NEW n \in ToSet(Chain'), zName[obj'[n]] = o
          PROVE  Ahead(p, n)' \/ (call[u].root = NULL /\ "absent" \in seen'[u])
      <3>1. CASE n \in ToSet(Chain)
        <4>1. zName[obj[n]] = o
          <5>1. CASE Kept  BY <2>7, <3>1, <5>1 DEF Kept
          <5>2. ASSUME NEW v \in Threads, Added(v) \/ Taken(v)  PROVE zName[obj[n]] = o
            BY <2>7, <5>2 DEF Added, Taken, LinkNext, UnlinkNext
          <5> QED BY <5>1, <5>2, ListedStep
        <4>2. UnlinkNext(t) => n # call[t].ptr
          <5> SUFFICES ASSUME UnlinkNext(t)  PROVE n # call[t].ptr
            OBVIOUS
          <5>1. Chain' = RemoveFirst(Chain, call[t].ptr)
            BY <1>1, UnlinkNextRings
          <5>2. call[t].ptr \notin Range(Chain')  BY <2>6, <5>1, RangeRemove
          <5> QED BY <5>2 DEF ToSet, Range
        <4>3. Ahead(p, n) => Ahead(p, n)'
          BY <1>1, <1>7, <2>3, <2>4, <4>2, StoresAhead
        <4> QED BY <1>1, <1>2, <2>2, <2>4, <2>5, <3>1, <4>1, <4>3 DEF SearchOK
      <3>2. CASE n \notin ToSet(Chain)
        <4>1. PICK v \in Threads : Added(v)
          <5>1. ASSUME NEW v \in Threads, Taken(v)  PROVE FALSE
            <6>1. Range(Chain') \subseteq Range(Chain)
              BY <2>6, <5>1, RangeRemove DEF Taken
            <6> QED BY <2>6, <3>2, <6>1 DEF ToSet, Range
          <5> QED BY <3>2, <5>1, ListedStep DEF Kept
        <4>2. n = call[v].ptr
          <5>1. Range(Chain') = Range(Chain) \cup {call[v].ptr}
            BY <2>6, <4>1, RangeAppend DEF Added
          <5>2. ToSet(Chain') = Range(Chain')  BY DEF ToSet, Range
          <5> QED BY <2>6, <3>2, <5>1, <5>2
        <4>3. call[v].pc = "LinkNext" /\ obj' = obj
          BY <4>1 DEF Added, LinkNext, At
        <4>4. o \notin ToSet(Listing)
          BY <1>1, <2>7, <4>2, <4>3 DEF NamesOK, Adding
        <4>5. "absent" \in seen'[u]
          BY <1>1, <1>2, <2>2, <2>5, <4>4 DEF SearchOK
        <4>6. call[u].root = NULL
          <5>1. call[v].root # NULL  BY <4>3 DEF Owned, OwnedBy
          <5> QED BY <1>1, <2>2, <4>3, <5>1, AddersOne
        <4> QED BY <4>5, <4>6
      <3> QED BY <3>1, <3>2
    <2>8. "present" \in seen'[u] \/ NoneAhead(p, o)'
      <3> SUFFICES ASSUME "present" \notin seen'[u]  PROVE NoneAhead(p, o)'
        OBVIOUS
      <3>1. NoneAhead(p, o)  BY <1>1, <1>2, <2>2, <2>4, <2>5 DEF SearchOK
      <3>2. LinkNext(t) => zName[obj[call[t].ptr]] # o
        <4> SUFFICES ASSUME LinkNext(t), zName[obj[call[t].ptr]] = o  PROVE FALSE
          OBVIOUS
        <4>1. Chain' = Append(Chain, call[t].ptr) /\ call[t].ptr \in alloc
          BY <1>1, LinkNextRings
        <4>2. call[t].ptr \in Range(Chain')  BY <2>6, <4>1, RangeAppend
        <4>3. zName[obj'[call[t].ptr]] = o  BY DEF LinkNext
        <4>4. o \in ToSet(Listing')
          BY <1>3, <4>2, <4>3 DEF ToSet, Range
        <4> QED BY <1>2, <2>2, <2>5, <4>4
      <3> QED BY <1>1, <1>7, <2>3, <2>4, <3>1, <3>2, StoresNoneAhead
    <2> QED BY <1>2, <2>2, <2>4, <2>5, <2>7, <2>8 DEF SearchOK
  <1> QED BY <1>5, <1>6, <1>7, StepKinds

-------------------------------------------------------------------------------
(* The files                                                               *)

(* Every link but the head is of a file that has not been freed,           *)
LinksFiles ==
  \A n \in Nodes : IF n \in alloc \ {pAppData} THEN obj[n] \in files
                                               ELSE obj[n] = NULL

(* nor is the one that a call has, which it takes out the link of          *)
CallFile(t) ==
  LET c == call[t]
  IN /\ c.file # NULL => c.file \in files
     /\ WithFile(c) => c.file # NULL /\ (c.op = "delete" => zName[c.file] = c.o)
     /\ c.pc \in {"DelEnter", "UnlinkNext", "UnlinkPrev", "Free"} =>
          c.ptr \in alloc /\ obj[c.ptr] = c.file

(* and a file that is on no link is about to be freed.                     *)
FilesHad ==
  \A f \in files : \/ \E n \in alloc : obj[n] = f
                   \/ \E t \in Threads : call[t].file = f

FileInv ==
  ~broken => LinksFiles /\ FilesHad /\ \A t \in Threads : CallFile(t)

LEMMA QuietFiles ==
  ASSUME ListOK, LinksFiles, FilesHad, \A u \in Threads : CallFile(u),
         NEW t \in Threads, Quiet(t), Moves(t), FileMoves(t)
  PROVE  LinksFiles' /\ FilesHad' /\ \A u \in Threads : CallFile(u)'
  <1>1. /\ UNCHANGED <<pAppData, alloc, obj>>
        /\ \A u \in Threads \ {t} : call'[u] = call[u]
    BY DEF Quiet, memory
  <1>2. NULL \notin files /\ alloc \subseteq Nodes
    BY ListAssumption DEF ListOK, MemoryOK
  <1>3. LinksFiles'
    BY <1>1 DEF LinksFiles, FileMoves
  <1>4. FilesHad'
    <2> SUFFICES ASSUME NEW f \in files',
                        \A n \in alloc : obj[n] # f
                 PROVE  \E u \in Threads : call'[u].file = f
      BY <1>1 DEF FilesHad
    <2>1. f \in files /\ f # NULL /\ (call[t].pc = "Destroy" => f # call[t].file)
      BY <1>2 DEF FileMoves
    <2>2. PICK u \in Threads : call[u].file = f  BY <2>1 DEF FilesHad
    <2>3. CASE u = t  BY <2>1, <2>2, <2>3 DEF FileMoves
    <2>4. CASE u # t  BY <1>1, <2>2, <2>4
    <2> QED BY <2>3, <2>4
  <1>5. ASSUME NEW u \in Threads \ {t}  PROVE CallFile(u)'
    <2>1. CallFile(u) /\ call'[u] = call[u]  BY <1>1
    <2>2. call[u].file # NULL => call[u].file \in files'
      BY <2>1 DEF CallFile, FileMoves
    <2> QED BY <1>1, <2>1, <2>2 DEF CallFile, WithFile
  <1>6. CallFile(t)'
    <2> DEFINE c == call[t]
               d == call'[t]
               Finds == c.ptr \in alloc \ {pAppData} /\ d.file = obj[c.ptr]
    <2>1. CallFile(t)  OBVIOUS
    <2>2. Finds => d.file \in files
      BY <1>2 DEF LinksFiles
    <2>3. d.file # NULL => d.file \in files'
      <3> SUFFICES ASSUME d.file # NULL  PROVE d.file \in files'
        OBVIOUS
      <3>1. c.pc # "Destroy" /\ files' = files  BY DEF FileMoves
      <3> QED BY <2>1, <2>2, <3>1 DEF FileMoves, CallFile
    <2>4. ASSUME WithFile(d)
          PROVE  d.file # NULL /\ (d.op = "delete" => zName[d.file] = d.o)
      BY <1>2, <2>1, <2>2, <2>4 DEF FileMoves, CallFile
    <2>5. ASSUME d.pc \in {"DelEnter", "UnlinkNext", "UnlinkPrev", "Free"}
          PROVE  d.ptr \in alloc /\ obj[d.ptr] = d.file
      <3>1. d.pc \in {"DelEnter", "UnlinkNext"}  BY <2>5 DEF Quiet, Holding
      <3> QED BY <2>1, <3>1 DEF Moves, CallFile
    <2> QED BY <1>1, <2>3, <2>4, <2>5 DEF CallFile
  <1> QED BY <1>3, <1>4, <1>5, <1>6

(* A store leaves the calls the files they have, and where they have them. *)
LEMMA StoreFile ==
  ASSUME ListOK, RingOK, NEW t \in Threads, Store(t)
  PROVE  LET c == call[t]  d == call'[t]
         IN /\ d.file = c.file
            /\ files' = files \/ AddLink(t)
            /\ WithFile(d) => WithFile(c) /\ d.op = c.op /\ d.o = c.o
            /\ d.pc \in {"DelEnter", "UnlinkNext", "UnlinkPrev", "Free"} =>
                 /\ UnlinkNext(t) \/ UnlinkPrev(t)
                 /\ c.pc \in {"UnlinkNext", "UnlinkPrev"} /\ d.ptr = c.ptr
  <1>1. call \in [Threads -> CallType] /\ call[t] \in CallType /\ PlaceOK(call[t])
    BY DEF ListOK, CallOK, PlacesOK
  <1>2. CASE MakeList(t)
    BY <1>1, <1>2 DEF MakeList, At, Goto, WithFile, CallType
  <1>3. CASE AddLink(t)
    <2>1. \E p \in Nodes : call' = [call EXCEPT ![t].pc = "LinkNext",
                                     ![t].head = pAppData, ![t].ptr = p]
      BY <1>3 DEF AddLink
    <2> QED BY <1>1, <1>3, <2>1 DEF WithFile, CallType
  <1>4. CASE LinkNext(t)
    BY <1>1, <1>4 DEF LinkNext, At, Goto, WithFile, CallType
  <1>5. CASE LinkPrev(t)
    BY <1>1, <1>5 DEF LinkPrev, At, Return, Idle, WithFile, CallType, PlaceOK
  <1>6. CASE UnlinkNext(t)
    BY <1>1, <1>6 DEF UnlinkNext, At, Goto, WithFile, CallType
  <1>7. CASE UnlinkPrev(t)
    BY <1>1, <1>7 DEF UnlinkPrev, At, Goto, WithFile, CallType
  <1>8. CASE Free(t)
    BY <1>1, <1>8 DEF Free, FreeLink, At, WithFile, CallType
  <1> QED BY <1>2, <1>3, <1>4, <1>5, <1>6, <1>7, <1>8 DEF Store

(* and the links of those, but for the one that is freed.                  *)
LEMMA StoreLinks ==
  ASSUME ListOK, ListOK', RingOK, ~broken', LinksFiles, NEW t \in Threads, Store(t)
  PROVE  /\ LinksFiles'
         /\ \A n \in alloc : \/ n \in alloc' /\ obj'[n] = obj[n]
                             \/ Free(t) /\ n = call[t].ptr
         /\ AddLink(t) => \A f \in files' \ files : \E n \in alloc' : obj'[n] = f
  <1>1. /\ obj \in [Nodes -> Files \cup {NULL}] /\ alloc \subseteq Nodes
        /\ NULL \notin Nodes
    BY ListAssumption DEF ListOK, MemoryOK
  <1>2. CASE MakeList(t)
    <2>1. alloc = {} /\ alloc' = {pAppData'} /\ obj' = obj
      BY <1>2, MakeListRings DEF MakeList, RingOK, Unmade
    <2> QED BY <1>2, <2>1 DEF LinksFiles, AddLink, MakeList, At
  <1>3. CASE AddLink(t)
    <2>1. PICK p \in Nodes \ alloc, f \in Files \ files :
            /\ alloc' = alloc \cup {p} /\ files' = files \cup {f}
            /\ obj' = [obj EXCEPT ![p] = f]
      BY <1>3 DEF AddLink
    <2>2. pAppData' = pAppData /\ pAppData \in alloc
      BY <1>3 DEF AddLink, At, Sound, Needs
    <2>3. ASSUME NEW n \in Nodes
          PROVE  IF n \in alloc' \ {pAppData} THEN obj'[n] \in files'
                                              ELSE obj'[n] = NULL
      BY <1>1, <2>1, <2>2 DEF LinksFiles
    <2>4. \A n \in alloc : n \in alloc' /\ obj'[n] = obj[n]
      BY <1>1, <2>1
    <2>5. p \in alloc' /\ obj'[p] = f /\ files' \ files \subseteq {f}
      BY <1>1, <2>1
    <2> QED BY <2>2, <2>3, <2>4, <2>5 DEF LinksFiles
  <1>4. CASE LinkNext(t) \/ LinkPrev(t) \/ UnlinkNext(t) \/ UnlinkPrev(t)
    <2>1. UNCHANGED <<pAppData, alloc, obj, files>>
      BY <1>4 DEF LinkNext, LinkPrev, UnlinkNext, UnlinkPrev
    <2> QED BY <2>1 DEF LinksFiles
  <1>5. CASE Free(t)
    <2>1. /\ pAppData' = pAppData /\ files' = files /\ alloc' = alloc \ {call[t].ptr}
          /\ obj' = [obj EXCEPT ![call[t].ptr] = NULL]
      BY <1>5 DEF Free, FreeLink
    <2> QED BY <1>1, <1>5, <2>1 DEF LinksFiles, AddLink, Free, At
  <1> QED BY <1>2, <1>3, <1>4, <1>5 DEF Store

LEMMA StoreFiles ==
  ASSUME ListOK, ListOK', RingOK, ~broken',
         LinksFiles, FilesHad, \A u \in Threads : CallFile(u),
         NEW t \in Threads, Store(t)
  PROVE  LinksFiles' /\ FilesHad' /\ \A u \in Threads : CallFile(u)'
  <1>1. \A u \in Threads \ {t} : call'[u] = call[u]
    BY StoreOthers
  <1>2. \A u \in Threads : call'[u].file = call[u].file
    BY <1>1, StoreFile
  <1>3. files \subseteq files'
    BY StoreFile DEF AddLink
  <1>4. FilesHad'
    <2> SUFFICES ASSUME NEW f \in files', \A u \in Threads : call'[u].file # f
                 PROVE  \E n \in alloc' : obj'[n] = f
      BY DEF FilesHad
    <2>1. CASE f \in files
      <3>1. PICK n \in alloc : obj[n] = f  BY <1>2, <2>1 DEF FilesHad
      <3>2. ~(Free(t) /\ n = call[t].ptr)
        <4> SUFFICES ASSUME Free(t), n = call[t].ptr  PROVE FALSE
          OBVIOUS
        <4>1. call[t].pc = "Free"  BY DEF Free, At
        <4>2. CallFile(t) /\ call[t].file # f  BY <1>2
        <4> QED BY <3>1, <4>1, <4>2 DEF CallFile
      <3> QED BY <3>1, <3>2, StoreLinks
    <2>2. CASE f \notin files
      <3>1. AddLink(t)  BY <2>2, StoreFile
      <3> QED BY <2>2, <3>1, StoreLinks
    <2> QED BY <2>1, <2>2
  <1>5. ASSUME NEW u \in Threads \ {t}  PROVE CallFile(u)'
    <2>1. CallFile(u) /\ call'[u] = call[u]  BY <1>1
    <2>2. ASSUME call[u].pc \in {"DelEnter", "UnlinkNext", "UnlinkPrev", "Free"}
          PROVE  call[u].ptr \in alloc' /\ obj'[call[u].ptr] = call[u].file
      <3>1. call[u].ptr \in alloc /\ obj[call[u].ptr] = call[u].file
        BY <2>1, <2>2 DEF CallFile
      <3>2. ~(Free(t) /\ call[u].ptr = call[t].ptr)
        BY DEF Free, FreeLink
      <3> QED BY <3>1, <3>2, StoreLinks
    <2> QED BY <1>3, <2>1, <2>2 DEF CallFile, WithFile
  <1>6. CallFile(t)'
    <2>1. CallFile(t)  OBVIOUS
    <2>2. WithFile(call'[t]) =>
            /\ WithFile(call[t]) /\ call'[t].op = call[t].op /\ call'[t].o = call[t].o
      BY StoreFile
    <2>3. ASSUME call'[t].pc \in {"DelEnter", "UnlinkNext", "UnlinkPrev", "Free"}
          PROVE  call'[t].ptr \in alloc' /\ obj'[call'[t].ptr] = call'[t].file
      <3>1. /\ UnlinkNext(t) \/ UnlinkPrev(t)
            /\ call[t].pc \in {"UnlinkNext", "UnlinkPrev"} /\ call'[t].ptr = call[t].ptr
        BY <2>3, StoreFile
      <3>2. alloc' = alloc /\ obj' = obj  BY <3>1 DEF UnlinkNext, UnlinkPrev
      <3> QED BY <1>2, <2>1, <3>1, <3>2 DEF CallFile
    <2> QED BY <1>2, <1>3, <2>1, <2>2, <2>3 DEF CallFile
  <1> QED BY <1>4, <1>5, <1>6, StoreLinks

LEMMA FilesKeep ==
  ASSUME ListOK, ListOK', RInv, FileInv, [Next]_vars
  PROVE  FileInv'
  <1> SUFFICES ASSUME ~broken'
               PROVE  LinksFiles' /\ FilesHad' /\ \A u \in Threads : CallFile(u)'
    BY DEF FileInv
  <1>1. RingOK /\ LinksFiles /\ FilesHad /\ \A u \in Threads : CallFile(u)
    BY StepKinds DEF FileInv
  <1>2. CASE Still
    BY <1>1, <1>2 DEF Still, memory, LinksFiles, FilesHad, CallFile, WithFile
  <1> QED BY <1>1, <1>2, StepKinds, QuietFiles, StoreFiles
-------------------------------------------------------------------------------
(* What holds of the list                                                  *)

ListInv == IInv /\ RInv /\ Owned /\ Searched /\ FileInv

LEMMA InitListInv == Init => ListInv
  <1> SUFFICES ASSUME Init  PROVE Owned /\ Searched /\ FileInv
    BY InitIInv, InitRInv DEF ListInv
  <1>1. /\ Chain = <<>> /\ alloc = {} /\ files = {} /\ obj = [n \in Nodes |-> NULL]
        /\ \A t \in Threads : call[t] = Idle
    BY DEF Init, ListInit, Chain
  <1>2. ToSet(Chain) = {}  BY <1>1 DEF ToSet
  <1> QED BY <1>1, <1>2
          DEF Owned, OwnedBy, AtHead, Idle, Searched, NamesOK, SearchOK, Adding,
              FileInv, LinksFiles, FilesHad, CallFile, WithFile

LEMMA SearchedKeeps ==
  ASSUME ListOK, ListOK', RInv, Owned, Searched, [Next]_vars
  PROVE  Searched'
  <1> SUFFICES ASSUME ~broken'  PROVE NamesOK' /\ \A u \in Threads : SearchOK(u)'
    BY DEF Searched
  <1>1. ASSUME Next, NEW u \in Threads  PROVE SearchOK(u)'
    BY <1>1, SearchKeeps
  <1>2. ASSUME UNCHANGED vars, NEW u \in Threads  PROVE SearchOK(u)'
    <2>1. RingOK /\ SearchOK(u)  BY StepKinds DEF Searched
    <2>2. Still /\ seen' = seen
      BY <1>2 DEF vars, listVars, memory, Still
    <2>3. Chain' = Chain  BY <2>1, <2>2, StillKept DEF Kept
    <2> QED BY <2>1, <2>2, <2>3
            DEF Still, memory, SearchOK, Listing, Ahead, Closed, NoneAhead, Without
  <1> QED BY <1>1, <1>2, NamesKeep

LEMMA NextListInv == ListInv /\ [Next]_vars => ListInv'
  <1> SUFFICES ASSUME ListInv, [Next]_vars  PROVE ListInv'
    OBVIOUS
  <1>1. IInv /\ IInv' /\ ListOK /\ ListOK'
    BY NextIInv DEF ListInv, IInv
  <1> QED BY <1>1, RInvKeeps, OwnedKeeps, SearchedKeeps, FilesKeep DEF ListInv

LEMMA SpecListInv == Spec => []ListInv
  BY InitListInv, NextListInv, PTL DEF Spec
-------------------------------------------------------------------------------
(* RingWhole: while nobody is between the stores of add_link or del_link,  *)
(* pPrev and pNext lead through the same allocated links in opposite       *)
(* directions (file_list_item.cpp), for any number of threads and links.   *)
THEOREM RingWholeTheorem == Spec => []RingWhole
  <1>1. ListInv => RingWhole
    <2> SUFFICES ASSUME RingOK, pAppData # NULL,
                        \A t \in Threads : call[t].pc \notin
                          {"LinkNext", "LinkPrev", "UnlinkPrev"},
                        NEW n \in Ring
                 PROVE  /\ next[n] \in alloc /\ prev[next[n]] = n
                        /\ prev[n] \in alloc /\ next[prev[n]] = n
      BY DEF ListInv, RInv, RingWhole
    <2>1. Linked /\ Back  BY DEF RingOK, Whole
    <2>2. \A q \in Ring : prev[next[q]] = q
      BY <2>1 DEF Back
    <2>3. PICK q \in Ring : next[q] = n  BY <2>1, RingFacts
    <2>4. next[n] \in Ring /\ Ring \subseteq alloc  BY <2>1, RingFacts
    <2> QED BY <2>2, <2>3, <2>4
  <1> QED BY <1>1, SpecListInv, PTL

(* A search ends by its own steps alone.                                   *)
LEMMA WalkEnds ==
  ASSUME ListOK, [Next]_vars, NEW t \in Threads,
         call[t].pc = "Walk", call'[t].pc # "Walk"
  PROVE  WalkFound(t) \/ WalkMissed(t)
  <1>0. call \in [Threads -> CallType]  BY DEF ListOK, CallOK
  <1> DEFINE Elsewhere(u) ==
        call[u].pc # "Walk" /\ \A v \in Threads \ {u} : call'[v].pc = call[v].pc
             Same == \A v \in Threads : call'[v].pc = call[v].pc
  <1>1. ASSUME NEW u \in Threads,
               Fault(u) \/ WalkOn(u)  PROVE Same
    BY <1>0, <1>1 DEF Fault, WalkOn, CallType
  <1>2. ASSUME NEW u \in Threads,
               MakeList(u) \/ MakeListFails(u) \/ WalkStart(u) \/ OpenEnter(u)
               \/ AddFails(u) \/ AddLink(u)
        PROVE  Elsewhere(u)
    BY <1>0, <1>2 DEF MakeList, MakeListFails, WalkStart, OpenEnter, AddFails,
       AddLink, At, Goto, Return
  <1>3. ASSUME NEW u \in Threads,
               LinkNext(u) \/ LinkPrev(u) \/ UnlinkNext(u) \/ UnlinkPrev(u) \/ GoOn(u)
        PROVE  Elsewhere(u)
    BY <1>0, <1>3 DEF LinkNext, LinkPrev, UnlinkNext, UnlinkPrev, GoOn,
       At, Goto, Return
  <1>4. ASSUME NEW u \in Threads, Free(u)  PROVE Elsewhere(u)
    BY <1>0, <1>4 DEF Free, FreeLink, At, CallType
  <1>5. ASSUME NEW u \in Threads,
               DelStart(u) \/ DelPasses(u) \/ DelFinds(u) \/ DelEnd(u) \/ DelEnter(u)
               \/ Destroy(u)
        PROVE  Elsewhere(u)
    BY <1>0, <1>5 DEF DelStart, DelPasses, DelFinds, DelEnd, DelEnter, Destroy,
       At, Goto, Return
  <1>6. ASSUME NEW u \in Threads, LifeStep(u)  PROVE Elsewhere(u)
    BY <1>0, <1>6 DEF LifeStep, InitCount, InitRegister, DisposeSet,
       DestroyCount, Unregister, TearBegin, TearEnd, At, Goto, Return
  <1>7. ASSUME NEW u \in Threads,
               \/ \E op \in Ops, o \in Names : Begin(u, op, o)
               \/ \E m \in Users : New(u, m) \/ DisposeTest(u, m)
        PROVE  Elsewhere(u)
    BY <1>0, <1>7 DEF Begin, New, Enter, DisposeTest
  <1>8. ASSUME NEW u \in Threads, WalkFound(u) \/ WalkMissed(u)
        PROVE  u = t
    BY <1>0, <1>8 DEF WalkFound, Found, WalkMissed, Goto, Return
  <1>9. ASSUME UNCHANGED vars  PROVE Same
    BY <1>9 DEF vars, listVars
  <1>10. ASSUME Next
         PROVE  \E u \in Threads : \/ WalkFound(u) \/ WalkMissed(u)
                                   \/ Same \/ Elsewhere(u)
    BY <1>10, <1>1, <1>2, <1>3, <1>4, <1>5, <1>6, <1>7
    DEF Next, ListNext, ListStep
  <1> QED BY <1>8, <1>9, <1>10

(* SearchIsHonest: a search without the mutex, among the stores of any     *)
(* number of others, finds a file only if it has been in the list since    *)
(* the search began, and misses it only if it has not been there all the   *)
(* time, even if the search stood on a link that was taken out.            *)
THEOREM SearchIsHonestTheorem == Spec => SearchIsHonest
  <1>1. ASSUME ListInv, [Next]_vars, NEW t \in Threads,
               call[t].pc = "Walk", call'[t].pc # "Walk", ~broken
        PROVE  IF call[t].ptr = call[t].head THEN "absent" \in seen[t]
                                             ELSE "present" \in seen[t]
    <2>1. /\ ListOK /\ RingOK /\ SearchOK(t)
          /\ call[t].head = pAppData /\ pAppData # NULL
      BY <1>1 DEF ListInv, IInv, RInv, Searched, RingOK, HeadOK, Unmade, Early
    <2>2. alloc \subseteq Nodes /\ pAppData \in Nodes
      BY <2>1 DEF ListOK, MemoryOK
    <2>3. CASE WalkFound(t)
      <3>1. /\ call[t].ptr \in alloc \ {pAppData}
            /\ zName[obj[call[t].ptr]] = call[t].o
        BY <1>1, <2>1, <2>3 DEF WalkFound, At, Sound, Needs
      <3>2. ~NoneAhead(call[t].ptr, call[t].o)
        BY <2>2, <3>1, ListAssumption DEF NoneAhead, Without
      <3> QED BY <1>1, <2>1, <3>1, <3>2 DEF SearchOK
    <2>4. CASE WalkMissed(t)
      <3>1. call[t].ptr = pAppData  BY <2>1, <2>4 DEF WalkMissed
      <3>2. ASSUME NEW n \in ToSet(Chain), Ahead(pAppData, n)  PROVE FALSE
        <4>1. Closed({pAppData})  BY DEF Closed
        <4>2. n = pAppData \/ Freed = pAppData
          BY <2>2, <3>2, <4>1 DEF Ahead
        <4> QED BY <2>1, <2>2, <4>2, ChainFacts, ListAssumption
      <3> QED BY <1>1, <2>1, <3>1, <3>2, ListingIs DEF SearchOK
    <2> QED BY <1>1, <2>1, <2>3, <2>4, WalkEnds
  <1>2. ListInv /\ [Next]_vars =>
          [\A t \in Threads :
             call[t].pc = "Walk" /\ call'[t].pc # "Walk" /\ ~broken =>
               IF call[t].ptr = call[t].head THEN "absent" \in seen[t]
                                             ELSE "present" \in seen[t]]_listVars
    BY <1>1
  <1> QED BY <1>2, SpecListInv, PTL DEF Spec, SearchIsHonest

(* FilesStay, README.md:4: a file leaves the list when an xDelete of its   *)
(* name takes it out, or when nobody uses the VFS any more.                *)
THEOREM FilesStayTheorem == Spec => FilesStay
  <1> DEFINE Leaver(o, t) ==
               /\ call[t].pc = "UnlinkNext"
               /\ IF call[t].op = "delete" THEN call[t].o = o
                                           ELSE users = {} \/ twice
  <1>1. ASSUME ListInv, IInv, ListOK', [Next]_vars, ~broken',
               NEW o \in ToSet(Listing) \ ToSet(Listing')
        PROVE  \E t \in Threads : Leaver(o, t)
    <2>1. ~broken /\ RingOK /\ RingOK' /\ ListOK
      BY <1>1, StepKinds, RInvKeeps DEF ListInv, RInv, IInv
    <2>2. Chain \in Seq(alloc) /\ IsInjective(Chain)  BY <2>1, ChainFacts
    <2>3. /\ ToSet(Listing) = {zName[obj[n]] : n \in ToSet(Chain)}
          /\ ToSet(Listing') = {zName[obj'[n]] : n \in ToSet(Chain')}
      BY DEF Listing, ToSet
    <2>4. CASE Kept  BY <1>1, <2>3, <2>4 DEF Kept
    <2>5. ASSUME NEW t \in Threads, Added(t)  PROVE FALSE
      <3>1. obj' = obj  BY <2>5 DEF Added, LinkNext
      <3>2. Range(Chain') = Range(Chain) \cup {call[t].ptr}
        BY <2>2, <2>5, RangeAppend DEF Added
      <3> QED BY <1>1, <2>3, <3>1, <3>2 DEF ToSet, Range
    <2>6. ASSUME NEW t \in Threads, Taken(t)  PROVE Leaver(o, t)
      <3>1. obj' = obj /\ call[t].pc = "UnlinkNext"
        BY <2>6 DEF Taken, UnlinkNext, At
      <3>2. Range(Chain') = Range(Chain) \ {call[t].ptr}
        <4>1. call[t].ptr \in Range(Chain) /\ Chain' = RemoveFirst(Chain, call[t].ptr)
          BY <2>6 DEF Taken, ToSet, Range
        <4> QED BY <2>2, <4>1, RangeRemove
      <3>3. zName[obj[call[t].ptr]] = o
        BY <1>1, <2>3, <3>1, <3>2 DEF ToSet, Range
      <3>4. CASE call[t].op = "delete"
        <4>1. CallFile(t)  BY <1>1, <2>1 DEF ListInv, FileInv
        <4> QED BY <3>1, <3>3, <3>4, <4>1 DEF CallFile, WithFile
      <3>5. CASE call[t].op # "delete"
        <4>1. Held(t) /\ call[t].op = "destroy"
          BY <2>1, <3>1, <3>5
          DEF ListOK, PlacesOK, PlaceOK, Held, HeldPcs, LifeOps
        <4>2. refCount = 0 /\ sync = t
          BY <1>1, <4>1 DEF IInv, CountOK, HolderCount, HolderIs, Inits
        <4>3. ~twice => Cardinality(users) = 0
          <5>1. IsFiniteSet(users) /\ IsFiniteSet(Leaving)
            BY <1>1 DEF IInv, CountOK, Counted
          <5>2. Cardinality(users) \in Nat /\ Cardinality(Leaving) \in Nat
            BY <5>1, FS_CardinalityType
          <5>3. Entered = 0  BY <4>1, <4>2 DEF Entered, Inits
          <5>4. ~twice => 0 = Cardinality(users) + Cardinality(Leaving)
            BY <1>1, <4>2, <5>2, <5>3 DEF IInv, CountOK, Counted
          <5> QED BY <5>2, <5>4
        <4>4. ~twice => users = {}
          BY <1>1, <4>3, FS_EmptySet DEF IInv, CountOK, Counted
        <4> QED BY <3>1, <3>5, <4>4
      <3> QED BY <3>4, <3>5
    <2> QED BY <1>1, <2>1, <2>4, <2>5, <2>6, ListedStep DEF ListInv
  <1>2. ListInv /\ ListInv' /\ [Next]_vars =>
          [~broken' => \A o \in ToSet(Listing) \ ToSet(Listing') :
                         \E t \in Threads : Leaver(o, t)]_vars
    BY <1>1 DEF ListInv, IInv
  <1> QED BY <1>2, SpecListInv, PTL DEF FilesStay, Spec
-------------------------------------------------------------------------------
(* The pointers implement the list                                         *)

(* The sequence of what f makes of the elements of s.                      *)
Mapped(f, s) == [i \in DOMAIN s |-> f[s[i]]]

LEMMA MapSeq ==
  ASSUME NEW S, NEW T, NEW f \in [S -> T], NEW s \in Seq(S)
  PROVE  /\ Mapped(f, s) \in Seq(T) /\ Len(Mapped(f, s)) = Len(s)
         /\ \A i \in 1 .. Len(s) : Mapped(f, s)[i] = f[s[i]]
  <1> DEFINE m == Mapped(f, s)
  <1>1. /\ DOMAIN s = 1 .. Len(s) /\ Len(s) \in Nat
        /\ \A i \in 1 .. Len(s) : s[i] \in S
    OBVIOUS
  <1>2. m \in [1 .. Len(s) -> T]  BY <1>1 DEF Mapped
  <1>3. m \in Seq(T) /\ Len(m) = Len(s)
    <2> HIDE DEF m
    <2> QED BY <1>1, <1>2
  <1> QED BY <1>1, <1>3 DEF Mapped

LEMMA MapAppend ==
  ASSUME NEW S, NEW T, NEW f \in [S -> T], NEW s \in Seq(S), NEW e \in S
  PROVE  Mapped(f, Append(s, e)) = Append(Mapped(f, s), f[e])
  <1>1. PICK r \in Seq(S) : r = Append(s, e)
    <2>1. Append(s, e) \in Seq(S)  OBVIOUS
    <2> QED BY <2>1
  <1>2. /\ Len(r) = Len(s) + 1 /\ r[Len(s) + 1] = e
        /\ \A i \in 1 .. Len(s) : r[i] = s[i]
    BY <1>1
  <1>3. PICK m \in Seq(T) : m = Mapped(f, s)  BY MapSeq
  <1>4. PICK q \in Seq(T) : q = Mapped(f, r)  BY MapSeq
  <1>5. PICK a \in Seq(T) : a = Append(m, f[e])
    <2>1. f[e] \in T  OBVIOUS
    <2>2. Append(m, f[e]) \in Seq(T)  BY <2>1
    <2> QED BY <2>2
  <1>6. Len(m) = Len(s) /\ \A i \in 1 .. Len(s) : m[i] = f[s[i]]
    BY <1>3, MapSeq
  <1>7. Len(q) = Len(r) /\ \A i \in 1 .. Len(r) : q[i] = f[r[i]]
    BY <1>4, MapSeq
  <1>8. Len(a) = Len(m) + 1 /\ \A i \in 1 .. Len(m) + 1 :
          a[i] = IF i = Len(m) + 1 THEN f[e] ELSE m[i]
    BY <1>5
  <1>9. \A i \in 1 .. Len(q) : q[i] = a[i]
    BY <1>2, <1>6, <1>7, <1>8
  <1>10. q = a  BY <1>2, <1>6, <1>7, <1>8, <1>9, SeqEqual
  <1> QED BY <1>1, <1>3, <1>4, <1>5, <1>10

LEMMA MapRemove ==
  ASSUME NEW S, NEW T, NEW f \in [S -> T], NEW s \in Seq(S), IsInjective(s),
         NEW e \in Range(s), \A x \in Range(s) : f[x] = f[e] => x = e
  PROVE  Mapped(f, RemoveFirst(s, e)) = RemoveFirst(Mapped(f, s), f[e])
  <1>0. DOMAIN s = 1 .. Len(s) /\ Len(s) \in Nat  OBVIOUS
  <1>1. PICK r \in Seq(S) : r = RemoveFirst(s, e)  BY RemoveShape
  <1>2. PICK k \in 1 .. Len(s) :
          /\ s[k] = e /\ Len(r) = Len(s) - 1
          /\ \A i \in 1 .. Len(s) - 1 : r[i] = IF i <= k - 1 THEN s[i] ELSE s[i + 1]
    BY <1>1, RemoveShape
  <1>3. PICK m \in Seq(T) : m = Mapped(f, s)  BY MapSeq
  <1>4. Len(m) = Len(s) /\ \A i \in 1 .. Len(s) : m[i] = f[s[i]]
    BY <1>3, MapSeq
  <1>5. PICK y : y = f[e]  OBVIOUS
  <1>6. PICK q \in Seq(T) : q = RemoveFirst(m, y)  BY RemoveShape
  <1>7. y \in Range(m)
    <2>1. k \in DOMAIN m /\ m[k] = y  BY <1>0, <1>2, <1>4, <1>5
    <2> QED BY <2>1 DEF Range
  <1>8. PICK l \in 1 .. Len(m) :
          /\ m[l] = y /\ Len(q) = Len(m) - 1
          /\ \A i \in 1 .. Len(m) - 1 : q[i] = IF i <= l - 1 THEN m[i] ELSE m[i + 1]
    <2>1. \/ RemoveFirst(m, y) = m /\ y \notin Range(m)
          \/ \E l \in 1 .. Len(m) :
               /\ m[l] = y /\ Len(RemoveFirst(m, y)) = Len(m) - 1
               /\ \A i \in 1 .. Len(m) - 1 :
                    RemoveFirst(m, y)[i] = IF i <= l - 1 THEN m[i] ELSE m[i + 1]
      BY RemoveShape
    <2> QED BY <1>6, <1>7, <2>1
  <1>9. l = k
    <2>1. s[l] \in Range(s) /\ f[s[l]] = f[e]
      BY <1>0, <1>4, <1>5, <1>8 DEF Range
    <2>2. s[l] = s[k]  BY <1>2, <2>1
    <2> QED BY <1>0, <1>4, <2>2 DEF IsInjective
  <1>10. PICK p \in Seq(T) : p = Mapped(f, r)  BY MapSeq
  <1>11. Len(p) = Len(r) /\ \A i \in 1 .. Len(r) : p[i] = f[r[i]]
    BY <1>10, MapSeq
  <1>12. ASSUME NEW i \in 1 .. Len(p)  PROVE p[i] = q[i]
    <2>1. i \in 1 .. Len(s) - 1 /\ p[i] = f[r[i]]
      BY <1>2, <1>11
    <2>2. i \in 1 .. Len(s) /\ i + 1 \in 1 .. Len(s)  BY <1>0, <2>1
    <2> QED BY <1>2, <1>4, <1>8, <1>9, <2>1, <2>2
  <1>13. p = q  BY <1>2, <1>4, <1>8, <1>11, <1>12, SeqEqual
  <1> QED BY <1>1, <1>3, <1>5, <1>6, <1>10, <1>13

(* The name of the file that each link of a chain is of.                   *)
NameOf == [n \in Nodes |-> zName[obj[n]]]

LEMMA ListingMapped ==
  \A s \in Seq(Nodes) : Mapped(NameOf, s) = [i \in DOMAIN s |-> zName[obj[s[i]]]]
  BY DEF Mapped, NameOf

LEMMA NamesAppend ==
  ASSUME NEW s \in Seq(Nodes), NEW e \in Nodes
  PROVE  Mapped(NameOf, Append(s, e)) = Append(Mapped(NameOf, s), NameOf[e])
  <1>1. PICK T : T = {zName[obj[n]] : n \in Nodes}  OBVIOUS
  <1>2. PICK f \in [Nodes -> T] : f = NameOf  BY <1>1 DEF NameOf
  <1>3. Mapped(f, Append(s, e)) = Append(Mapped(f, s), f[e])
    BY MapAppend
  <1> QED BY <1>2, <1>3

LEMMA NamesRemove ==
  ASSUME NEW s \in Seq(Nodes), IsInjective(s), NEW e \in Range(s),
         \A x \in Range(s) : NameOf[x] = NameOf[e] => x = e
  PROVE  Mapped(NameOf, RemoveFirst(s, e)) = RemoveFirst(Mapped(NameOf, s), NameOf[e])
  <1>1. PICK T : T = {zName[obj[n]] : n \in Nodes}  OBVIOUS
  <1>2. PICK f \in [Nodes -> T] : f = NameOf  BY <1>1 DEF NameOf
  <1>3. \A x \in Range(s) : f[x] = f[e] => x = e  BY <1>2
  <1>4. Mapped(f, RemoveFirst(s, e)) = RemoveFirst(Mapped(f, s), f[e])
    BY <1>3, MapRemove
  <1> QED BY <1>2, <1>4

(* ObjectList has its own instances of the operators.                      *)
LEMMA SameOperators ==
  ASSUME NEW s, NEW e
  PROVE  Abstract!ToSet(s) = ToSet(s) /\ Abstract!RemoveFirst(s, e) = RemoveFirst(s, e)
  BY DEF ToSet, Abstract!ToSet, RemoveFirst, RemoveAt, SelectInSeq, Min,
     Abstract!RemoveFirst, Abstract!RemoveAt, Abstract!SelectInSeq, Abstract!Min

Flag == broken \in BOOLEAN

LEMMA SpecFlag == Spec => []Flag
  <1>1. Init => Flag  BY DEF Init, ListInit, Flag
  <1>2. Flag /\ [Next]_vars => Flag'
    <2> SUFFICES ASSUME broken \in BOOLEAN, [Next]_vars  PROVE broken' \in BOOLEAN
      BY DEF Flag
    <2>1. ASSUME NEW t \in Threads, Store(t) \/ Fault(t)  PROVE broken' \in BOOLEAN
      BY <2>1 DEF Store, Fault, MakeList, AddLink, LinkNext, LinkPrev, UnlinkNext,
         UnlinkPrev, Free, FreeLink, Meddles
    <2>2. ASSUME NEW t \in Threads, QuietActions(t)  PROVE broken' \in BOOLEAN
      BY <2>2
      DEF QuietActions, MakeListFails, WalkStart, WalkOn, WalkFound,
          WalkMissed, OpenEnter, AddFails, DelStart, DelPasses, DelFinds,
          DelEnd, DelEnter, Destroy, GoOn, Begin, New, DisposeTest, LifeStep,
          InitCount, InitRegister, DisposeSet, DestroyCount, Unregister,
          TearBegin, TearEnd
    <2>3. ASSUME Next
          PROVE  \E t \in Threads : Fault(t) \/ Store(t) \/ QuietActions(t)
      BY <2>3 DEF Next, ListNext, ListStep, Store, QuietActions
    <2> QED BY <2>1, <2>2, <2>3 DEF vars, listVars
  <1> QED BY <1>1, <1>2, PTL DEF Spec

(* ListSpec: what the pointers amount to, store by store, is the list of   *)
(* ObjectList: a file is put in at the end, when it is not there, by the   *)
(* store of LinkNext, and taken out by that of UnlinkNext, and no other    *)
(* step changes the list, until it is broken.                              *)
THEOREM ListSpecTheorem == Spec => ListSpec
  <1>1. Init => Abstract!Init
    <2> SUFFICES ASSUME Init  PROVE Listing = <<>> /\ broken = FALSE
      BY DEF Abstract!Init
    <2>1. Chain = <<>>  BY DEF Init, ListInit, Chain
    <2>2. DOMAIN Chain = {}  BY <2>1
    <2>3. Listing = [i \in {} |-> zName[obj[Chain[i]]]]  BY <2>2 DEF Listing
    <2> QED BY <2>3 DEF Init, ListInit
  <1>2. ASSUME ListInv, ListInv', Flag, Flag', [Next]_vars
        PROVE  [Abstract!Next]_<<Listing, broken>>
    <2> SUFFICES ASSUME ~broken'
                 PROVE  \/ UNCHANGED <<Listing, broken>>
                        \/ \E o \in Names : Abstract!Add(o) \/ Abstract!Take(o)
      BY DEF Abstract!Next
    <2>1. ListOK /\ ListOK' /\ RInv /\ ~broken /\ RingOK /\ NamesOK
      BY <1>2, StepKinds DEF ListInv, IInv, Searched
    <2>2. broken' = broken  BY <1>2, <2>1 DEF Flag
    <2>3. /\ Chain \in Seq(alloc) /\ IsInjective(Chain)
          /\ alloc \subseteq Nodes /\ obj \in [Nodes -> Files \cup {NULL}]
          /\ ToSet(Chain) = Range(Chain)
      BY <2>1, ChainFacts DEF ListOK, MemoryOK, ToSet, Range
    <2>4. /\ Chain \in Seq(Nodes) /\ Listing = Mapped(NameOf, Chain)
          /\ \A n \in Nodes : NameOf[n] = zName[obj[n]]
      BY <2>3, ListingMapped DEF Listing, NameOf
    <2>5. CASE Kept
      <3>1. \A i \in DOMAIN Chain : obj'[Chain[i]] = obj[Chain[i]]
        BY <2>5 DEF Kept, ToSet
      <3>2. Listing' = Listing  BY <2>5, <3>1 DEF Kept, Listing
      <3> QED BY <2>2, <3>2
    <2>6. ASSUME NEW t \in Threads, Added(t)
          PROVE  \E o \in Names : Abstract!Add(o)
      <3>1. /\ obj' = obj /\ call[t].pc = "LinkNext" /\ call[t].ptr \in Nodes
            /\ Chain' = Append(Chain, call[t].ptr)
        BY <2>3, <2>6 DEF Added, LinkNext, At
      <3>2. /\ zName[obj[call[t].ptr]] = call[t].o
            /\ call[t].o \notin ToSet(Listing)
        BY <2>1, <3>1 DEF NamesOK, Adding
      <3>3. call[t].o \in Names
        BY <1>2, <3>1
        DEF ListInv, IInv, Owned, OwnedBy, ListOK, PlacesOK, RootOK, PlaceOK, Ops
      <3>4. Listing' = Append(Listing, zName[obj[call[t].ptr]])
        <4>1. Listing' = Mapped(NameOf, Chain')
          <5>1. Chain' \in Seq(Nodes)  BY <2>4, <3>1
          <5>2. \A i \in DOMAIN Chain' : NameOf[Chain'[i]] = zName[obj[Chain'[i]]]
            BY <2>4, <5>1
          <5> QED BY <3>1, <5>2 DEF Listing, Mapped
        <4>2. Mapped(NameOf, Append(Chain, call[t].ptr)) =
                Append(Mapped(NameOf, Chain), NameOf[call[t].ptr])
          BY <2>4, <3>1, NamesAppend
        <4> QED BY <2>4, <3>1, <4>1, <4>2
      <3> QED BY <2>2, <3>2, <3>3, <3>4, SameOperators DEF Abstract!Add
    <2>7. ASSUME NEW t \in Threads, Taken(t)
          PROVE  \E o \in Names : Abstract!Take(o)
      <3>1. /\ obj' = obj /\ call[t].ptr \in Range(Chain)
            /\ Chain' = RemoveFirst(Chain, call[t].ptr)
        BY <2>3, <2>7 DEF Taken, UnlinkNext
      <3>2. /\ zName[obj[call[t].ptr]] \in Names
            /\ \A x, y \in Range(Chain) : zName[obj[x]] = zName[obj[y]] => x = y
        BY <2>1, <2>3, <3>1, ListAssumption DEF NamesOK
      <3>n. \A x \in Range(Chain) : NameOf[x] = NameOf[call[t].ptr] => x = call[t].ptr
        <4>1. Range(Chain) \subseteq Nodes  BY <2>4 DEF Range
        <4> QED BY <2>4, <3>1, <3>2, <4>1
      <3>3. Listing' = RemoveFirst(Listing, zName[obj[call[t].ptr]])
        <4>1. Listing' = Mapped(NameOf, Chain')
          <5>1. Chain' \in Seq(Nodes)  BY <2>4, <3>1, RemoveShape
          <5>2. \A i \in DOMAIN Chain' : NameOf[Chain'[i]] = zName[obj[Chain'[i]]]
            BY <2>4, <5>1
          <5> QED BY <3>1, <5>2 DEF Listing, Mapped
        <4>2. Mapped(NameOf, RemoveFirst(Chain, call[t].ptr)) =
                RemoveFirst(Mapped(NameOf, Chain), NameOf[call[t].ptr])
          BY <2>3, <2>4, <3>1, <3>n, NamesRemove
        <4>3. call[t].ptr \in Nodes  BY <2>4, <3>1 DEF Range
        <4> QED BY <2>4, <3>1, <4>1, <4>2, <4>3
      <3>4. zName[obj[call[t].ptr]] \in ToSet(Listing)
        BY <2>3, <3>1, ListingIs
      <3> QED BY <2>2, <3>2, <3>3, <3>4, SameOperators DEF Abstract!Take
    <2>8. Kept \/ \E t \in Threads : Added(t) \/ Taken(t)
      BY <1>2, <2>1, ListedStep DEF ListInv
    <2> QED BY <2>5, <2>6, <2>7, <2>8
  <1> QED BY <1>1, <1>2, SpecListInv, SpecFlag, PTL DEF Spec, ListSpec, Abstract!Spec
-------------------------------------------------------------------------------
(* Calls that do not overlap                                               *)

(* Nobody is at work on the list beside a call that takes links out, or    *)
(* makes the list.                                                         *)
Alone == \A t, u \in Threads : t # u => ~(Disturbs(t) /\ OnList(u))

OnRing(t) ==
  /\ call[t].pc \in Walking => call[t].ptr \in Ring
  /\ call[t].pc = "Free" => prev[call[t].ptr] \in Ring

OInv ==
  ~overlap =>
    /\ Alone /\ ~broken
    /\ \A t \in Threads : call[t].pc = "Vfs" => pAppData = NULL
    /\ pAppData # NULL => \A t \in Threads : OnRing(t)
    /\ status = "running" \/ pAppData = NULL

(* Before del_link's search comes to the link of the file, that is ahead,  *)
(* and after, it is not in the list.                                       *)
Gone(t) ==
  \A n \in ToSet(Chain) : obj[n] = call[t].file =>
    /\ call[t].pc = "DelWalk" => Ahead(call[t].ptr, n)
    /\ call[t].pc \notin {"UnlinkPrev", "Free", "Destroy", "On"}

GoneInv == ~overlap => \A t \in Threads : Gone(t)

Holds(t, x) ==
  call[t].pc \in {"LinkNext", "UnlinkPrev", "Free"} /\ call[t].ptr = x

(* A link that is not in the ring is in somebody's hands.                  *)
Carried ==
  ~broken /\ pAppData # NULL =>
    \A x \in alloc \ Ring : \E t \in Threads : Holds(t, x)

LEMMA CarriedKeeps ==
  ASSUME ListOK, ListOK', RInv, Owned, Carried, [Next]_vars
  PROVE  Carried'
  <1> SUFFICES ASSUME ~broken', pAppData' # NULL, NEW x \in alloc' \ Ring'
               PROVE  \E u \in Threads : Holds(u, x)'
    BY DEF Carried
  <1>1. ~broken /\ RingOK  BY StepKinds
  <1>0. call \in [Threads -> CallType]  BY DEF ListOK, CallOK
  <1>2. CASE Still
    <2>1. Ring' = Ring /\ alloc' = alloc /\ call' = call /\ pAppData # NULL
      BY <1>1, <1>2, StillKeeps DEF ListOK, Still, memory
    <2> QED BY <1>1, <2>1 DEF Carried, Holds
  <1>3. ASSUME NEW t \in Threads, Quiet(t)
        PROVE  \E u \in Threads : Holds(u, x)'
    <2>1. /\ Ring' = Ring /\ alloc' = alloc /\ pAppData # NULL
          /\ \A u \in Threads \ {t} : call'[u] = call[u]
      BY <1>1, <1>3, QuietKeeps DEF ListOK, Quiet, memory
    <2>2. PICK u \in Threads : Holds(u, x)  BY <1>1, <2>1 DEF Carried
    <2>3. u # t  BY <1>3, <2>2 DEF Quiet, Holding, Holds
    <2> QED BY <2>1, <2>2, <2>3 DEF Holds
  <1>4. ASSUME NEW t \in Threads, Store(t)
        PROVE  \E u \in Threads : Holds(u, x)'
    <2>1. CASE MakeList(t)  BY <1>1, <2>1, MakeListRings
    <2>2. CASE ~MakeList(t)
      <3>1. pAppData # NULL
        BY <1>1, <1>4, <2>2 DEF Store, AddLink, LinkNext, LinkPrev, UnlinkNext,
           UnlinkPrev, Free, At, RingOK, Unmade, Early
      <3>2. \A y \in alloc \ Ring : \E u \in Threads : Holds(u, y)
        BY <1>1, <3>1 DEF Carried
      <3>3. CASE AddLink(t)
        <4>1. Ring' = Ring  BY <1>1, <3>3, AddLinkRings
        <4>2. /\ call[t].pc = "Add" /\ call'[t].pc = "LinkNext"
              /\ \A u \in Threads \ {t} : call'[u] = call[u]
              /\ alloc' = alloc \cup {call'[t].ptr}
          BY <1>0, <3>3 DEF AddLink, At, CallType
        <4>3. CASE x = call'[t].ptr  BY <4>2, <4>3 DEF Holds
        <4>4. CASE x # call'[t].ptr
          BY <3>2, <4>1, <4>2, <4>4 DEF Holds
        <4> QED BY <4>3, <4>4
      <3>4. CASE LinkNext(t)
        <4>1. Ring' = Ring \cup {call[t].ptr}  BY <1>1, <3>4, LinkNextRings
        <4>2. alloc' = alloc /\ \A u \in Threads \ {t} : call'[u] = call[u]
          BY <1>0, <3>4 DEF LinkNext, Goto
        <4> QED BY <3>2, <4>1, <4>2 DEF Holds
      <3>5. CASE LinkPrev(t)
        <4>1. Ring' = Ring  BY <1>1, <3>5, LinkPrevRings
        <4>2. /\ alloc' = alloc /\ \A u \in Threads \ {t} : call'[u] = call[u]
              /\ call[t].pc = "LinkPrev"
          BY <1>0, <3>5 DEF LinkPrev, At, Return
        <4> QED BY <3>2, <4>1, <4>2 DEF Holds
      <3>6. CASE UnlinkNext(t)
        <4>1. Ring' = Ring \ {call[t].ptr}  BY <1>1, <3>6, UnlinkNextRings
        <4>2. /\ alloc' = alloc /\ \A u \in Threads \ {t} : call'[u] = call[u]
              /\ call[t].pc = "UnlinkNext" /\ call'[t].pc = "UnlinkPrev"
              /\ call'[t].ptr = call[t].ptr
          BY <1>0, <3>6 DEF UnlinkNext, At, Goto, CallType
        <4>3. CASE x = call[t].ptr  BY <4>2, <4>3 DEF Holds
        <4>4. CASE x # call[t].ptr  BY <3>2, <4>1, <4>2, <4>4 DEF Holds
        <4> QED BY <4>3, <4>4
      <3>7. CASE UnlinkPrev(t)
        <4>1. Ring' = Ring  BY <1>1, <3>7, UnlinkPrevRings
        <4>2. /\ alloc' = alloc /\ \A u \in Threads \ {t} : call'[u] = call[u]
              /\ call'[t].pc = "Free" /\ call'[t].ptr = call[t].ptr
          BY <1>0, <3>7 DEF UnlinkPrev, Goto, CallType
        <4> QED BY <3>2, <4>1, <4>2 DEF Holds
      <3>8. CASE Free(t)
        <4>1. Ring' = Ring  BY <1>1, <3>8, FreeRings
        <4>2. alloc' = alloc \ {call[t].ptr}  BY <3>8 DEF Free, FreeLink
        <4>3. PICK u \in Threads : Holds(u, x)  BY <3>2, <4>1, <4>2
        <4>4. u # t  BY <4>2, <4>3 DEF Holds
        <4>5. call'[u].pc = call[u].pc /\ call'[u].ptr = call[u].ptr
          BY <1>0, <3>8, <4>4 DEF Free, FreeLink, CallType
        <4> QED BY <4>3, <4>5 DEF Holds
      <3> QED BY <1>4, <2>2, <3>3, <3>4, <3>5, <3>6, <3>7, <3>8 DEF Store
    <2> QED BY <2>1, <2>2
  <1> QED BY <1>2, <1>3, <1>4, StepKinds

LEMMA OthersEarly ==
  ASSUME ListOK, RingOK, Alone, NEW t \in Threads, NEW u \in Threads \ {t},
         Disturbs(t)
  PROVE  call[u].pc \in Early /\ call[u].ptr = NULL
         /\ call[u].pc # "Vfs" /\ call[u].file = NULL
  <1>1. ~OnList(u)  BY DEF Alone
  <1>2. call[u] \in CallType /\ PlaceOK(call[u]) /\ HeadOK(call[u])
    BY DEF ListOK, CallOK, PlacesOK, RingOK
  <1> QED BY <1>1, <1>2
          DEF OnList, CallType, PlaceOK, HeadOK, Early, HeldPcs, LifeOps, Ops, Pcs

LEMMA ChangesAlone ==
  ASSUME ListOK, RingOK, Owned, Alone, NEW t \in Threads, call[t].pc \in Changing
  PROVE  \A u \in Threads \ {t} : call[u].pc \notin Changing
  <1> SUFFICES ASSUME NEW u \in Threads \ {t}, call[u].pc \in Changing  PROVE FALSE
    OBVIOUS
  <1>1. ASSUME NEW v \in Threads, call[v].pc \in Changing
        PROVE  /\ call[v].pc \in {"UnlinkNext", "UnlinkPrev"} => Disturbs(v)
               /\ OnList(v)
               /\ call[v].pc \in {"LinkNext", "LinkPrev"} =>
                    call[v].root = pAppData /\ owner[pAppData] = v
    <2>1. call[v] \in CallType /\ PlaceOK(call[v]) /\ HeadOK(call[v])
      BY DEF ListOK, CallOK, PlacesOK, RingOK
    <2> QED BY <1>1, <2>1
            DEF OnList, Disturbs, CallType, PlaceOK, HeadOK, Changing, HeldPcs,
                LifeOps, Ops, Pcs, Owned, OwnedBy
  <1>2. ~(Disturbs(t) \/ Disturbs(u))
    BY <1>1 DEF Alone
  <1> QED BY <1>1, <1>2 DEF Changing

LEMMA BackAll ==
  ASSUME ListOK, RingOK, Owned, Alone, pAppData # NULL, NEW t \in Threads,
         call[t].pc \in {"LinkNext", "UnlinkNext"}
  PROVE  \A n \in Ring : prev[n] \in Ring /\ next[prev[n]] = n
  <1>1. \A u \in Threads : call[u].pc \notin {"LinkPrev", "UnlinkPrev"}
    BY ChangesAlone DEF Changing
  <1>2. Whole /\ Linked  BY DEF RingOK, Whole
  <1>3. \A q \in Ring : prev[next[q]] = q  BY <1>1, <1>2 DEF Whole, Back
  <1> QED BY <1>2, <1>3, RingFacts

LEMMA NeedsMet ==
  ASSUME ListOK, RingOK, Owned, Alone, pAppData # NULL, NEW t \in Threads, OnRing(t)
  PROVE  Needs(t) \subseteq alloc
  <1>1. Whole /\ Linked  BY DEF RingOK, Whole
  <1>2. /\ pAppData \in Ring /\ Ring \subseteq alloc
        /\ \A n \in Ring : next[n] \in Ring
    BY <1>1, RingFacts
  <1>3. call[t].pc \notin Early => call[t].head = pAppData
    BY DEF RingOK, HeadOK
  <1>4. CASE call[t].pc \in {"Walk", "DelWalk", "TearWalk", "Start", "Enter",
                             "Add", "DelStart", "On"}
    BY <1>2, <1>4 DEF Needs, OnRing, Walking
  <1>5. CASE call[t].pc = "Free"
    BY <1>1, <1>5 DEF Needs, Whole, FreeOK
  <1>6. CASE call[t].pc = "LinkNext"
    BY <1>2, <1>3, <1>6, BackAll DEF Needs, Early
  <1>7. CASE call[t].pc = "UnlinkNext"
    <2>1. call[t].ptr \in Ring  BY <1>7 DEF OnRing, Walking
    <2>2. prev[call[t].ptr] \in Ring  BY <1>7, <2>1, BackAll
    <2> QED BY <1>2, <1>7, <2>1, <2>2 DEF Needs
  <1>8. CASE call[t].pc = "UnlinkPrev"
    <2>1. call[t].ptr \in alloc /\ next[call[t].ptr] \in alloc
      BY <1>1, <1>2, <1>8 DEF Whole, UnlinkPrevOK
    <2> QED BY <1>8, <2>1 DEF Needs
  <1>9. CASE call[t].pc \in {"idle", "Vfs", "Sync", "Dispose", "DelEnter", "LinkPrev",
                             "Destroy"}
    BY <1>9 DEF Needs
  <1>10. call[t].pc \in Pcs \cup {"Sync", "Dispose"}
    BY DEF ListOK, CallOK, CallType
  <1> QED BY <1>4, <1>5, <1>6, <1>7, <1>8, <1>9, <1>10 DEF Pcs

LEMMA SoundMet ==
  ASSUME ListOK, RingOK, Owned, LinksFiles, Alone, pAppData # NULL,
         NEW t \in Threads, CallFile(t), OnRing(t)
  PROVE  Sound(t)
  <1>1. alloc \subseteq Nodes  BY DEF ListOK, MemoryOK
  <1>2. call[t].pc \notin Early => call[t].head = pAppData
    BY DEF RingOK, HeadOK
  <1>3. CASE call[t].pc = "Walk"
    <2>1. NeedsFile(t) \subseteq files
      BY <1>1, <1>2, <1>3 DEF NeedsFile, LinksFiles, Early
    <2> QED BY <2>1, NeedsMet DEF Sound
  <1>4. CASE call[t].pc # "Walk"
    <2>1. NeedsFile(t) \subseteq files
      BY <1>4 DEF NeedsFile, CallFile, WithFile
    <2> QED BY <2>1, NeedsMet DEF Sound
  <1> QED BY <1>3, <1>4

(* Every store has the list to itself, and frees what nobody else has.     *)
LEMMA AloneIsWhole ==
  ASSUME ListOK, RingOK, Owned, FileInv, Carried, OInv, GoneInv,
         ~overlap, [Next]_vars
  PROVE  ~broken'
  <1>1. /\ Alone /\ ~broken
        /\ \A t \in Threads : call[t].pc = "Vfs" => pAppData = NULL
        /\ pAppData # NULL => \A t \in Threads : OnRing(t)
    BY DEF OInv
  <1>2. ASSUME NEW t \in Threads, MakeList(t) \/ MakeListFails(t)  PROVE ~broken'
    BY <1>1, <1>2 DEF MakeList, MakeListFails, At
  <1>3. ASSUME NEW t \in Threads, LinkNext(t) \/ LinkPrev(t) \/ UnlinkPrev(t)
        PROVE  ~broken'
    <2>1. call[t].pc \in Changing
      BY <1>3 DEF LinkNext, LinkPrev, UnlinkPrev, At, Changing
    <2> QED BY <1>1, <1>3, <2>1, ChangesAlone
            DEF LinkNext, LinkPrev, UnlinkPrev, Meddles
  <1>4. ASSUME NEW t \in Threads, UnlinkNext(t)  PROVE ~broken'
    <2>1. call[t].pc = "UnlinkNext" /\ pAppData # NULL
      BY <1>4 DEF UnlinkNext, At, RingOK, Unmade, Early
    <2>2. call[t].ptr \in Ring  BY <1>1, <2>1 DEF OnRing, Walking
    <2>3. next[prev[call[t].ptr]] = call[t].ptr
      BY <1>1, <2>1, <2>2, BackAll
    <2>4. \A u \in Threads \ {t} : call[u].pc \notin Changing
      BY <1>1, <2>1, ChangesAlone DEF Changing
    <2> QED BY <1>1, <1>4, <2>3, <2>4 DEF UnlinkNext, Meddles
  <1>5. ASSUME NEW t \in Threads, Free(t)  PROVE ~broken'
    <2>1. call[t].pc = "Free" /\ call[t].ptr \in alloc
      BY <1>5 DEF Free, At, Sound, Needs
    <2>2. Disturbs(t)
      BY <2>1 DEF ListOK, CallOK, CallType, PlacesOK, PlaceOK, Disturbs, OnList, Pcs
    <2>3. \A u \in Threads \ {t} : call[u].ptr = NULL
      BY <1>1, <2>2, OthersEarly
    <2>4. call[t].ptr # NULL
      BY <2>1, ListAssumption DEF ListOK, MemoryOK
    <2> QED BY <1>1, <1>5, <2>3, <2>4 DEF Free, FreeLink
  <1>6. ASSUME NEW t \in Threads, QuietActions(t), ~MakeListFails(t),
               ~Destroy(t)
        PROVE  ~broken'
    BY <1>1, <1>6
    DEF QuietActions, WalkStart, WalkOn, WalkFound, WalkMissed, OpenEnter,
        AddFails, DelStart, DelPasses, DelFinds, DelEnd, DelEnter, GoOn, Begin,
        New, DisposeTest, LifeStep, InitCount, InitRegister, DisposeSet,
        DestroyCount, Unregister, TearBegin, TearEnd
  <1>7. ASSUME NEW t \in Threads, AddLink(t) \/ Fault(t)  PROVE ~broken'
    BY <1>1, <1>7 DEF AddLink, Fault
  <1>8. CASE UNCHANGED vars
    BY <1>1, <1>8 DEF vars, listVars
  <1>10. ASSUME NEW t \in Threads, Destroy(t)  PROVE ~broken'
    <2>1. /\ call[t].pc = "Destroy" /\ call[t].file \in files /\ call[t].file # NULL
          /\ pAppData # NULL
      BY <1>10, ListAssumption
      DEF Destroy, At, Sound, NeedsFile, ListOK, MemoryOK, RingOK, Unmade, Early
    <2>2. Disturbs(t)
      BY <2>1 DEF ListOK, PlacesOK, PlaceOK, Disturbs, OnList, Pcs
    <2>3. \A u \in Threads \ {t} : call[u].pc \in Early /\ call[u].file = NULL
      BY <1>1, <2>2, OthersEarly
    <2>4. ASSUME NEW n \in alloc, obj[n] = call[t].file  PROVE FALSE
      <3>1. n # pAppData
        BY <1>1, <2>1, <2>4 DEF FileInv, LinksFiles, ListOK, MemoryOK
      <3>2. n \notin ToSet(Chain)  BY <2>1, <2>4 DEF GoneInv, Gone
      <3>3. n \notin Ring  BY <3>1, <3>2, ChainFacts
      <3>4. PICK u \in Threads : Holds(u, n)
        BY <1>1, <2>1, <3>3 DEF Carried
      <3> QED BY <2>1, <2>3, <3>4 DEF Holds, Early
    <2> QED BY <1>1, <1>10, <2>1, <2>3, <2>4 DEF Destroy
  <1>9. CASE Next
    <2>1. \E t \in Threads : Fault(t) \/ Store(t) \/ QuietActions(t)
      BY <1>9 DEF Next, ListNext, ListStep, Store, QuietActions
    <2> QED BY <1>2, <1>3, <1>4, <1>5, <1>6, <1>7, <1>10, <2>1 DEF Store
  <1> QED BY <1>8, <1>9

LEMMA RingPlaces ==
  ASSUME ListOK, ListOK', RInv, Owned, Alone, ~broken', [Next]_vars,
         pAppData # NULL => \A t \in Threads : OnRing(t),
         pAppData' # NULL
  PROVE  \A t \in Threads : OnRing(t)'
  <1>1. ~broken /\ RingOK  BY StepKinds
  <1>0. call \in [Threads -> CallType]  BY DEF ListOK, CallOK
  <1>2. CASE Still
    <2>1. Ring' = Ring /\ prev' = prev /\ call' = call /\ pAppData # NULL
      BY <1>1, <1>2, StillKeeps DEF ListOK, Still, memory
    <2> QED BY <2>1 DEF OnRing
  <1>3. ASSUME NEW t \in Threads, Quiet(t), Moves(t)
        PROVE  \A u \in Threads : OnRing(u)'
    <2>1. /\ Ring' = Ring /\ prev' = prev /\ pAppData # NULL
          /\ \A u \in Threads \ {t} : call'[u] = call[u]
      BY <1>1, <1>3, QuietKeeps DEF ListOK, Quiet, memory
    <2>2. Linked  BY <1>1, <2>1 DEF RingOK, Whole
    <2>3. pAppData \in Ring /\ \A n \in Ring : next[n] \in Ring
      BY <2>2, RingFacts
    <2>4. OnRing(t)'
      BY <1>3, <2>1, <2>3 DEF OnRing, Moves, Quiet, Holding
    <2> QED BY <2>1, <2>4 DEF OnRing
  <1>4. ASSUME NEW t \in Threads, MakeList(t)  PROVE \A u \in Threads : OnRing(u)'
    <2>1. pAppData = NULL  BY <1>1, <1>4, MakeListRings
    <2>2. \A u \in Threads : call'[u].pc \in Early
      BY <1>0, <1>1, <1>4, <2>1 DEF RingOK, Unmade, MakeList, Goto, Early, CallType
    <2> QED BY <2>2 DEF OnRing, Walking, Early
  <1>5. ASSUME NEW t \in Threads, Store(t), ~MakeList(t)
        PROVE  \A u \in Threads : OnRing(u)'
    <2>1. /\ call[t].pc \in {"Add", "LinkNext", "LinkPrev", "UnlinkNext",
                             "UnlinkPrev", "Free"}
          /\ pAppData # NULL
      BY <1>1, <1>5 DEF Store, AddLink, LinkNext, LinkPrev, UnlinkNext,
         UnlinkPrev, Free, At, RingOK, Unmade, Early
    <2>2. Whole /\ Linked /\ \A u \in Threads : OnRing(u)
      BY <1>1, <2>1 DEF RingOK, Whole
    <2>3. pAppData \in Ring /\ Ring \subseteq alloc /\ alloc \subseteq Nodes
      BY <2>2, RingFacts DEF ListOK, MemoryOK
    <2>4. call[t].head = pAppData  BY <1>1, <2>1 DEF RingOK, HeadOK, Early
    <2>5. ASSUME NEW u \in Threads \ {t}, call[u].pc = "Free"
          PROVE  call[u].ptr \in alloc \ Ring
      BY <2>2, <2>5 DEF Whole, FreeOK
    <2>6. CASE AddLink(t)
      <3>1. Ring' = Ring  BY <1>1, <2>6, AddLinkRings
      <3>2. /\ \A n \in alloc : prev'[n] = prev[n]
            /\ \A u \in Threads \ {t} : call'[u] = call[u]
            /\ call'[t].pc = "LinkNext"
        BY <1>0, <2>3, <2>6 DEF AddLink, ListOK, MemoryOK, CallType
      <3> QED BY <2>2, <2>5, <3>1, <3>2 DEF OnRing, Walking
    <2>7. CASE LinkNext(t)
      <3>1. Ring \subseteq Ring'  BY <1>1, <2>7, LinkNextRings
      <3>2. /\ prev' = prev
            /\ \A u \in Threads \ {t} : call'[u] = call[u]
            /\ call'[t].pc = "LinkPrev"
        BY <1>0, <2>7 DEF LinkNext, Goto, CallType
      <3> QED BY <2>2, <3>1, <3>2 DEF OnRing, Walking
    <2>8. CASE LinkPrev(t)
      <3>1. Ring' = Ring  BY <1>1, <2>8, LinkPrevRings
      <3>2. /\ \A n \in alloc \ Ring : prev'[n] = prev[n]
            /\ \A u \in Threads \ {t} : call'[u] = call[u]
            /\ call'[t].pc = "idle"
        BY <1>0, <2>3, <2>4, <2>8
        DEF LinkPrev, ListOK, MemoryOK, Return, Idle, CallType
      <3> QED BY <2>2, <2>5, <3>1, <3>2 DEF OnRing, Walking
    <2>9. CASE call[t].pc \in {"UnlinkNext", "UnlinkPrev", "Free"}
      <3>1. Disturbs(t)
        BY <2>9 DEF ListOK, PlacesOK, PlaceOK, Disturbs, OnList, Pcs
      <3>2. \A u \in Threads \ {t} : call[u].pc \in Early
        BY <1>1, <3>1, OthersEarly
      <3>3. UnlinkNext(t) \/ UnlinkPrev(t) \/ Free(t)
        BY <1>5, <2>9 DEF Store, AddLink, LinkNext, LinkPrev, At
      <3>4. \A u \in Threads \ {t} : call'[u].pc = call[u].pc
        BY <1>0, <3>3
        DEF UnlinkNext, UnlinkPrev, Free, FreeLink, Goto, CallType
      <3>5. OnRing(t)'
        <4>1. CASE UnlinkNext(t)
          BY <1>0, <4>1 DEF UnlinkNext, Goto, OnRing, Walking, CallType
        <4>2. CASE UnlinkPrev(t)
          <5>1. Ring' = Ring  BY <1>1, <4>2, UnlinkPrevRings
          <5>2. /\ call[t].ptr \in alloc \ Ring /\ prev[call[t].ptr] \in Ring
                /\ next[prev[call[t].ptr]] = next[call[t].ptr]
            BY <2>2, <4>2 DEF Whole, UnlinkPrevOK, UnlinkPrev, At
          <5>3. next[call[t].ptr] \in Ring  BY <2>2, <5>2, RingFacts
          <5>4. prev'[call[t].ptr] = prev[call[t].ptr]
            BY <2>3, <4>2, <5>2, <5>3 DEF UnlinkPrev, ListOK, MemoryOK
          <5>5. call'[t].ptr = call[t].ptr /\ call'[t].pc = "Free"
            BY <1>0, <4>2 DEF UnlinkPrev, Goto, CallType
          <5> QED BY <5>1, <5>2, <5>4, <5>5 DEF OnRing, Walking
        <4>3. CASE Free(t)
          <5>1. Ring' = Ring  BY <1>1, <4>3, FreeRings
          <5>2. prev[call[t].ptr] \in Ring
            BY <2>2, <4>3 DEF OnRing, Free, At
          <5>3. call'[t].ptr = prev[call[t].ptr] /\ call'[t].pc \in {"On", "Destroy"}
            BY <1>0, <4>3 DEF Free, FreeLink, CallType
          <5> QED BY <5>1, <5>2, <5>3 DEF OnRing, Walking
        <4> QED BY <3>3, <4>1, <4>2, <4>3
      <3> QED BY <3>2, <3>4, <3>5 DEF OnRing, Walking, Early
    <2> QED BY <1>5, <2>6, <2>7, <2>8, <2>9
            DEF Store, UnlinkNext, UnlinkPrev, Free, At
  <1> QED BY <1>2, <1>3, <1>4, <1>5, StepKinds DEF Store

LEMMA MakersAlone ==
  ASSUME ListOK, ListOK', RInv, Alone, ~broken', [Next]_vars,
         \A t \in Threads : call[t].pc = "Vfs" => pAppData = NULL
  PROVE  \A t \in Threads : call'[t].pc = "Vfs" => pAppData' = NULL
  <1>1. ~broken /\ RingOK  BY StepKinds
  <1>0. call \in [Threads -> CallType]  BY DEF ListOK, CallOK
  <1>2. CASE Still  BY <1>2 DEF Still
  <1>3. ASSUME NEW t \in Threads, Quiet(t), Moves(t)
        PROVE  \A u \in Threads : call'[u].pc = "Vfs" => pAppData' = NULL
    BY <1>3 DEF Quiet, Moves
  <1>4. ASSUME NEW t \in Threads, MakeList(t)
        PROVE  \A u \in Threads : call'[u].pc # "Vfs"
    <2>1. Disturbs(t)
      BY <1>4 DEF MakeList, At, ListOK, PlacesOK, PlaceOK, Disturbs, OnList, Pcs
    <2>2. \A u \in Threads \ {t} : call[u].pc # "Vfs"
      BY <1>1, <2>1, OthersEarly
    <2> QED BY <1>0, <1>4, <2>2 DEF MakeList, Goto, CallType
  <1>5. ASSUME NEW t \in Threads, Store(t), ~MakeList(t)
        PROVE  \A u \in Threads : call'[u].pc = "Vfs" => pAppData' = NULL
    <2> DEFINE Goal == /\ pAppData' = pAppData
                       /\ \A u \in Threads \ {t} : call'[u].pc = call[u].pc
                       /\ call'[t].pc # "Vfs"
    <2>1. ASSUME AddLink(t)  PROVE Goal
      BY <1>0, <2>1 DEF AddLink, CallType
    <2>2. ASSUME LinkNext(t) \/ UnlinkNext(t) \/ UnlinkPrev(t)  PROVE Goal
      BY <1>0, <2>2 DEF LinkNext, UnlinkNext, UnlinkPrev, Goto, CallType
    <2>3. ASSUME LinkPrev(t)  PROVE Goal
      BY <1>0, <2>3 DEF LinkPrev, Return, Idle
    <2>4. ASSUME Free(t)  PROVE Goal
      BY <1>0, <2>4 DEF Free, FreeLink, CallType
    <2> QED BY <1>5, <2>1, <2>2, <2>3, <2>4 DEF Store
  <1> QED BY <1>2, <1>3, <1>4, <1>5, StepKinds DEF Store

LEMMA OInvKeeps ==
  ASSUME ListOK, ListOK', RInv, Owned, FileInv, Carried, OInv, GoneInv, [Next]_vars
  PROVE  OInv'
  <1> SUFFICES ASSUME ~overlap'
               PROVE  /\ Alone' /\ ~broken'
                      /\ \A t \in Threads : call'[t].pc = "Vfs" => pAppData' = NULL
                      /\ pAppData' # NULL => \A t \in Threads : OnRing(t)'
                      /\ status' = "running" \/ pAppData' = NULL
    BY DEF OInv
  <1>1. ~overlap
    BY DEF Next, Observe, vars, listVars
  <1>2. /\ Alone /\ ~broken /\ RingOK
        /\ \A t \in Threads : call[t].pc = "Vfs" => pAppData = NULL
        /\ pAppData # NULL => \A t \in Threads : OnRing(t)
        /\ status = "running" \/ pAppData = NULL
    BY <1>1 DEF OInv, RInv
  <1>3. Alone'
    <2>1. CASE UNCHANGED vars
      BY <1>2, <2>1 DEF vars, listVars, Alone, Disturbs, OnList
    <2>2. CASE Next  BY <2>2 DEF Next, Observe, Alone
    <2> QED BY <2>1, <2>2
  <1>4. ~broken'  BY <1>1, <1>2, AloneIsWhole
  <1>5. status' = "running" \/ pAppData' = NULL
    <2>1. ASSUME NEW t \in Threads, Fault(t)  PROVE pAppData' = NULL
      BY <1>2, <2>1, SoundMet DEF Fault, FileInv
    <2>2. ASSUME NEW t \in Threads, Store(t) \/ QuietActions(t)
          PROVE  status' = "running"
      BY <2>2
      DEF Store, QuietActions, MakeList, MakeListFails, WalkStart, WalkOn,
          WalkFound, WalkMissed, OpenEnter, AddFails, AddLink, LinkNext,
          LinkPrev, DelStart, DelPasses, DelFinds, DelEnd, DelEnter, UnlinkNext,
          UnlinkPrev, Free, Destroy, GoOn, Begin, New, DisposeTest, Enter,
          LifeStep, InitCount, InitRegister, DisposeSet, DestroyCount,
          Unregister, TearBegin, TearEnd, At
    <2>3. CASE UNCHANGED vars  BY <1>2, <2>3 DEF vars, listVars
    <2>4. CASE Next
      <3>1. \E t \in Threads : Fault(t) \/ Store(t) \/ QuietActions(t)
        BY <2>4 DEF Next, ListNext, ListStep, Store, QuietActions
      <3> QED BY <2>1, <2>2, <3>1
    <2> QED BY <2>3, <2>4
  <1>6. pAppData' # NULL => \A t \in Threads : OnRing(t)'
    BY <1>2, <1>4, RingPlaces
  <1>7. \A t \in Threads : call'[t].pc = "Vfs" => pAppData' = NULL
    BY <1>2, <1>4, MakersAlone
  <1> QED BY <1>3, <1>4, <1>5, <1>6, <1>7

LEMMA GoneKeeps ==
  ASSUME ListOK, ListOK', RInv, Owned, Searched, FileInv, OInv, OInv', GoneInv,
         [Next]_vars
  PROVE  GoneInv'
  <1> SUFFICES ASSUME ~overlap', NEW u \in Threads, NEW n \in ToSet(Chain'),
                      obj'[n] = call'[u].file, NEW p, p = call'[u].ptr
               PROVE  /\ call'[u].pc = "DelWalk" => Ahead(p, n)'
                      /\ call'[u].pc \notin {"UnlinkPrev", "Free", "Destroy", "On"}
    BY DEF GoneInv, Gone
  <1>1. ~overlap
    BY DEF Next, Observe, vars, listVars
  <1>2. /\ ~broken /\ ~broken' /\ RingOK /\ Alone /\ NamesOK
        /\ LinksFiles /\ \A t \in Threads : CallFile(t) /\ Gone(t)
    BY <1>1 DEF OInv, RInv, Searched, FileInv, GoneInv
  <1>3. /\ ToSet(Chain) = Ring \ {pAppData} /\ Chain \in Seq(alloc)
        /\ IsInjective(Chain) /\ ToSet(Chain) = Range(Chain)
        /\ NULL \notin files /\ alloc \subseteq Nodes
    BY <1>2, ChainFacts, ListAssumption DEF ListOK, MemoryOK, ToSet, Range
  <1>4. ASSUME Kept, pAppData' = pAppData, next' = next, call'[u] = call[u]
        PROVE  /\ call'[u].pc = "DelWalk" => Ahead(p, n)'
               /\ call'[u].pc \notin {"UnlinkPrev", "Free", "Destroy", "On"}
    BY <1>2, <1>4 DEF Kept, Gone, Ahead, Closed
  <1>5. CASE Still
    <2>1. Kept  BY <1>2, <1>5, StillKept
    <2> QED BY <1>4, <1>5, <2>1 DEF Still, memory
  <1>6. ASSUME NEW t \in Threads, Quiet(t), Moves(t), FileMoves(t)
        PROVE  /\ call'[u].pc = "DelWalk" => Ahead(p, n)'
               /\ call'[u].pc \notin {"UnlinkPrev", "Free", "Destroy", "On"}
    <2>1. /\ Kept /\ pAppData' = pAppData /\ next' = next /\ obj' = obj
          /\ n \in ToSet(Chain) /\ obj[n] = call'[u].file
      BY <1>2, <1>6, QuietKept DEF Quiet, memory, Kept
    <2>2. CASE u # t  BY <1>4, <1>6, <2>1, <2>2 DEF Quiet
    <2>3. CASE u = t
      <3> DEFINE c == call[t]
                 d == call'[t]
      <3>1. /\ n \in alloc /\ n # pAppData /\ obj[n] \in files
            /\ pAppData # NULL /\ pAppData \in Nodes
        <4>1. n \in alloc /\ n # pAppData  BY <1>3, <2>1 DEF Range
        <4>2. pAppData # NULL  BY <1>2, <2>1, ChainFacts DEF ToSet
        <4> QED BY <1>2, <1>3, <4>1, <4>2 DEF LinksFiles, ListOK, MemoryOK
      <3>2. d.pc \notin {"UnlinkPrev", "Free"}  BY <1>6 DEF Quiet, Holding
      <3>3. d.pc # "On"
        BY <1>3, <1>6, <2>1, <2>3, <3>1 DEF Moves, FileMoves
      <3>4. ASSUME d.pc = "Destroy"  PROVE FALSE
        <4>1. c.pc = "DelWalk" /\ c.ptr = pAppData
          BY <1>6, <3>4 DEF Moves
        <4>2. d.file = c.file
          BY <1>2, <1>6, <4>1 DEF FileMoves, CallFile, WithFile
        <4>3. Ahead(pAppData, n)
          BY <1>2, <2>1, <2>3, <4>1, <4>2 DEF Gone
        <4>4. Closed({pAppData})  BY DEF Closed
        <4>5. n = pAppData \/ Freed = pAppData  BY <3>1, <4>3, <4>4 DEF Ahead
        <4> QED BY <3>1, <4>5, ListAssumption
      <3>5. ASSUME d.pc = "DelWalk"  PROVE Ahead(p, n)
        <4>1. d.file = c.file /\ obj[n] = c.file
          BY <1>6, <2>1, <2>3, <3>5 DEF Moves
        <4>2. CASE d.ptr = next[pAppData]
          BY <1>2, <2>1, <2>3, <3>1, <4>2, FromHead DEF ListOK
        <4>3. CASE /\ c.pc = "DelWalk" /\ d.ptr = next[c.ptr]
                   /\ c.ptr \in alloc \ {pAppData} /\ obj[c.ptr] # c.file
          <5>1. Ahead(c.ptr, n) /\ n # c.ptr
            BY <1>2, <2>1, <4>1, <4>3 DEF Gone
          <5>2. Ahead(next[c.ptr], n)  BY <1>3, <4>3, <5>1, AheadOn
          <5> QED BY <2>3, <4>3, <5>2
        <4>4. c.pc # "On"  BY <1>2, <2>1, <4>1 DEF Gone
        <4> QED BY <1>6, <3>5, <4>2, <4>3, <4>4 DEF Moves
      <3>6. Ahead(p, n) => Ahead(p, n)'
        BY <2>1 DEF Ahead, Closed
      <3> QED BY <2>3, <3>2, <3>3, <3>4, <3>5, <3>6
    <2> QED BY <2>2, <2>3
  <1>7. ASSUME NEW t \in Threads, Store(t)
        PROVE  call'[u].pc \notin {"DelWalk", "UnlinkPrev", "Free", "Destroy", "On"}
    <2> SUFFICES ASSUME call'[u].pc \in {"DelWalk", "UnlinkPrev", "Free",
                                        "Destroy", "On"}
                 PROVE  FALSE
      OBVIOUS
    <2>0. call \in [Threads -> CallType]  BY DEF ListOK, CallOK
    <2>1. CASE u # t
      <3>1. call'[u] = call[u]  BY <1>2, <1>7, <2>1, StoreOthers
      <3>2. Disturbs(u)
        <4>1. PlaceOK(call[u])  BY DEF ListOK, PlacesOK
        <4> QED BY <3>1, <4>1 DEF PlaceOK, Disturbs, OnList, Pcs, Ops
      <3>3. call[t].pc \in Early /\ call[t].pc # "Vfs"
        BY <1>2, <2>1, <3>2, OthersEarly
      <3> QED BY <1>7, <3>3 DEF Store, MakeList, AddLink, LinkNext, LinkPrev,
              UnlinkNext, UnlinkPrev, Free, At, Early
    <2>2. CASE u = t
      <3>1. ~MakeList(t) /\ ~LinkNext(t) /\ ~LinkPrev(t)
        BY <2>0, <2>2 DEF MakeList, LinkNext, LinkPrev, Goto, Return, Idle, CallType
      <3>2. ~AddLink(t)  BY <2>0, <2>2 DEF AddLink, CallType
      <3>3. call'[t].file = call[t].file /\ CallFile(t) /\ Gone(t)
        BY <1>2, <1>7, StoreFile
      <3>4. CASE UnlinkNext(t)
        <4>1. /\ call[t].pc = "UnlinkNext" /\ obj' = obj
              /\ call[t].ptr \in ToSet(Chain)
              /\ Chain' = RemoveFirst(Chain, call[t].ptr)
          BY <1>2, <1>3, <3>4, UnlinkNextRings DEF UnlinkNext, At
        <4>2. n \in Range(Chain) /\ n # call[t].ptr
          <5>1. Range(Chain') = Range(Chain) \ {call[t].ptr}
            BY <1>3, <4>1, RangeRemove
          <5>2. n \in Range(Chain')  BY DEF ToSet, Range
          <5> QED BY <5>1, <5>2
        <4>3. obj[call[t].ptr] = call[t].file /\ obj[n] = call[t].file
          BY <2>2, <3>3, <4>1 DEF CallFile
        <4> QED BY <1>2, <1>3, <4>1, <4>2, <4>3 DEF NamesOK
      <3>5. CASE UnlinkPrev(t)
        <4>1. Chain' = Chain /\ obj' = obj /\ call[t].pc = "UnlinkPrev"
          BY <1>2, <3>5, UnlinkPrevRings DEF UnlinkPrev, At
        <4> QED BY <2>2, <3>3, <4>1 DEF Gone
      <3>6. CASE Free(t)
        <4>1. Chain' = Chain /\ call[t].pc = "Free"
          BY <1>2, <3>6, FreeRings DEF Free, At
        <4>2. obj' = [obj EXCEPT ![call[t].ptr] = NULL]
          BY <3>6 DEF Free, FreeLink
        <4>3. call[t].file # NULL  BY <3>3, <4>1 DEF CallFile, WithFile
        <4>4. obj[n] = call[t].file
          BY <1>3, <2>2, <3>3, <4>1, <4>2, <4>3 DEF ListOK, MemoryOK
        <4> QED BY <3>3, <4>1, <4>4 DEF Gone
      <3> QED BY <1>7, <3>1, <3>2, <3>4, <3>5, <3>6 DEF Store
    <2> QED BY <2>1, <2>2
  <1> QED BY <1>2, <1>5, <1>6, <1>7, StepKinds

(* The teardown is always at the first link of the list.                   *)
TearsFirst(t) ==
  call[t].op = "destroy" =>
    /\ call[t].pc \in {"TearWalk", "UnlinkNext"} => call[t].ptr = next[pAppData]
    /\ call[t].pc \in {"UnlinkPrev", "Free"} => prev[call[t].ptr] = pAppData
    /\ call[t].pc \in {"Destroy", "On"} => call[t].ptr = pAppData

TearInv ==
  ~overlap /\ pAppData # NULL => \A t \in Threads : TearsFirst(t)

LEMMA TearInvKeeps ==
  ASSUME ListOK, ListOK', RInv, Owned, OInv, OInv', TearInv, [Next]_vars
  PROVE  TearInv'
  <1> DEFINE Tearing == {"TearWalk", "UnlinkNext", "UnlinkPrev", "Free",
                        "Destroy", "On"}
  <1> SUFFICES ASSUME ~overlap', pAppData' # NULL, NEW u \in Threads,
                      call'[u].op = "destroy", call'[u].pc \in Tearing
               PROVE  TearsFirst(u)'
    BY DEF TearInv, TearsFirst
  <1>1. /\ ~overlap /\ ~broken /\ ~broken' /\ Alone /\ RingOK
        /\ pAppData # NULL => \A t \in Threads : OnRing(t)
    <2>1. ~overlap  BY DEF Next, Observe, vars, listVars
    <2>2. ~broken'  BY DEF OInv
    <2> QED BY <2>1, <2>2 DEF OInv, RInv
  <1>0. call \in [Threads -> CallType]  BY DEF ListOK, CallOK
  <1>2. ASSUME pAppData' = pAppData, call'[u] = call[u], prev' = prev, next' = next
        PROVE  TearsFirst(u)'
    BY <1>1, <1>2 DEF TearInv, TearsFirst
  <1>3. CASE Still  BY <1>2, <1>3 DEF Still, memory
  <1>4. ASSUME NEW t \in Threads, Quiet(t), Moves(t)  PROVE TearsFirst(u)'
    <2>1. CASE u # t  BY <1>2, <1>4, <2>1 DEF Quiet, memory
    <2>2. CASE u = t
      <3>1. pAppData' = pAppData /\ next' = next /\ TearsFirst(t)
        BY <1>1, <1>4 DEF Quiet, memory, TearInv
      <3>2. /\ call'[u].pc \notin {"UnlinkPrev", "Free"}
            /\ call'[u].pc # "Destroy"
        BY <1>4, <2>2 DEF Moves, Quiet, Holding
      <3> QED BY <1>4, <2>2, <3>1, <3>2 DEF Moves, TearsFirst
    <2> QED BY <2>1, <2>2
  <1>5. ASSUME NEW t \in Threads, Store(t)  PROVE TearsFirst(u)'
    <2>1. CASE u # t
      <3>1. call'[u].pc = call[u].pc /\ call'[u].op = call[u].op
        BY <1>1, <1>5, <2>1, StoreOthers
      <3>2. Disturbs(u)  BY <3>1 DEF Disturbs, OnList, Ops, Pcs
      <3>3. call[t].pc \in Early /\ call[t].pc # "Vfs"
        BY <1>1, <2>1, <3>2, OthersEarly
      <3> QED BY <1>5, <3>3 DEF Store, MakeList, AddLink, LinkNext, LinkPrev,
              UnlinkNext, UnlinkPrev, Free, At, Early
    <2>2. CASE u = t
      <3>1. PlaceOK(call[t]) /\ HeadOK(call[t])
        BY <1>1 DEF ListOK, PlacesOK, RingOK
      <3>2. UnlinkNext(t) \/ UnlinkPrev(t) \/ Free(t)
        <4>1. ~MakeList(t)
          BY <1>0, <2>2 DEF MakeList, Goto, CallType
        <4>2. ~AddLink(t)
          BY <1>0, <2>2 DEF AddLink, CallType
        <4>3. ~LinkNext(t) /\ ~LinkPrev(t)
          BY <1>0, <2>2 DEF LinkNext, LinkPrev, Goto, Return, Idle, CallType
        <4> QED BY <1>5, <4>1, <4>2, <4>3 DEF Store
      <3>3. /\ pAppData # NULL /\ pAppData' = pAppData
            /\ call[t].pc \in {"UnlinkNext", "UnlinkPrev", "Free"}
        BY <1>1, <3>2 DEF UnlinkNext, UnlinkPrev, Free, At, RingOK, Unmade, Early
      <3>4. TearsFirst(t) /\ Whole /\ Linked /\ OnRing(t)
        BY <1>1, <3>3 DEF TearInv, RingOK, Whole
      <3>5. CASE UnlinkNext(t)
        <4>1. /\ call'[t].pc = "UnlinkPrev" /\ call'[t].ptr = call[t].ptr
              /\ call'[t].op = call[t].op /\ call[t].pc = "UnlinkNext"
              /\ prev' = prev
          BY <1>0, <3>5 DEF UnlinkNext, At, Goto, CallType
        <4>2. call[t].ptr = next[pAppData] /\ call[t].ptr \in Ring
          BY <2>2, <3>4, <4>1 DEF TearsFirst, OnRing, Walking
        <4>3. prev[call[t].ptr] \in Ring /\ next[prev[call[t].ptr]] = call[t].ptr
          BY <1>1, <3>3, <4>1, <4>2, BackAll
        <4>4. prev[call[t].ptr] = pAppData
          BY <3>4, <4>2, <4>3, RingFacts
        <4> QED BY <2>2, <3>3, <4>1, <4>4 DEF TearsFirst
      <3>6. CASE UnlinkPrev(t)
        <4>1. /\ call'[t].pc = "Free" /\ call'[t].ptr = call[t].ptr
              /\ call'[t].op = call[t].op /\ call[t].pc = "UnlinkPrev"
              /\ prev' = [prev EXCEPT ![next[call[t].ptr]] = prev[call[t].ptr]]
          BY <1>0, <3>6 DEF UnlinkPrev, At, Goto, CallType
        <4>2. /\ call[t].ptr \in alloc \ Ring /\ prev[call[t].ptr] \in Ring
              /\ next[prev[call[t].ptr]] = next[call[t].ptr]
          BY <3>4, <4>1 DEF Whole, UnlinkPrevOK
        <4>3. next[call[t].ptr] # call[t].ptr  BY <3>4, <4>2, RingFacts
        <4>4. prev'[call[t].ptr] = pAppData
          BY <2>2, <3>4, <4>1, <4>2, <4>3 DEF TearsFirst, ListOK, MemoryOK
        <4> QED BY <2>2, <3>3, <4>1, <4>4 DEF TearsFirst
      <3>7. CASE Free(t)
        <4>1. /\ call'[t].pc = "Destroy" /\ call'[t].ptr = prev[call[t].ptr]
              /\ call'[t].op = call[t].op /\ call[t].pc = "Free"
          BY <1>0, <2>2, <3>7 DEF Free, FreeLink, At, CallType
        <4> QED BY <2>2, <3>3, <3>4, <4>1 DEF TearsFirst
      <3> QED BY <3>2, <3>5, <3>6, <3>7
    <2> QED BY <2>1, <2>2
  <1> QED BY <1>1, <1>3, <1>4, <1>5, StepKinds

(* What holds while no call that takes links out has met another.          *)
ApartInv == ListInv /\ Carried /\ OInv /\ GoneInv /\ TearInv

LEMMA SpecApart == Spec => []ApartInv
  <1>1. Init => ApartInv
    <2> SUFFICES ASSUME Init  PROVE Carried /\ OInv /\ GoneInv /\ TearInv
      BY InitListInv DEF ApartInv
    <2>1. /\ pAppData = NULL /\ ~broken /\ status = "running" /\ Chain = <<>>
          /\ \A t \in Threads : call[t] = Idle
      BY DEF Init, ListInit, Chain
    <2>2. ToSet(Chain) = {}  BY <2>1 DEF ToSet
    <2> QED BY <2>1, <2>2
            DEF Carried, OInv, Alone, OnList, Disturbs, Idle, Pcs, GoneInv, Gone,
                TearInv
  <1>2. ApartInv /\ [Next]_vars => ApartInv'
    <2> SUFFICES ASSUME ApartInv, [Next]_vars  PROVE ApartInv'
      OBVIOUS
    <2>1. ListInv /\ ListInv'  BY NextListInv DEF ApartInv
    <2>2. /\ ListOK /\ ListOK' /\ RInv /\ Owned /\ Searched /\ FileInv
          /\ Carried /\ OInv /\ GoneInv /\ TearInv
      BY <2>1 DEF ApartInv, ListInv, IInv
    <2>3. OInv'  BY <2>2, OInvKeeps
    <2>4. GoneInv' /\ Carried' /\ TearInv'
      BY <2>2, <2>3, GoneKeeps, CarriedKeeps, TearInvKeeps
    <2> QED BY <2>1, <2>3, <2>4 DEF ApartInv
  <1> QED BY <1>1, <1>2, PTL DEF Spec

(* OnlyOverlapBreaks: as long as no call that takes links out, or makes    *)
(* the list, runs beside another call, nothing breaks the list, no link    *)
(* and no file is freed that a pointer leads to, and the only bad pointer  *)
(* anyone goes through is the list that could not be made.                 *)
THEOREM OnlyOverlapBreaksTheorem == Spec => []OnlyOverlapBreaks
  <1>1. ApartInv => OnlyOverlapBreaks
    BY DEF ApartInv, OInv, OnlyOverlapBreaks
  <1> QED BY <1>1, SpecApart, PTL

(* UnloadEmpties: when the last memfs_destroy has run alone, no link is    *)
(* allocated but the list's head, and no file is (memfs.cpp:47-59).        *)
THEOREM UnloadEmptiesTheorem == Spec => UnloadEmpties
  <1> DEFINE Left(t) ==
        call[t].pc = "TearWalk" /\ call'[t].pc = "idle" /\ ~overlap =>
          alloc' = {pAppData} /\ files' = {}
  <1>1. ASSUME ApartInv, [Next]_vars, NEW t \in Threads
        PROVE  Left(t)
    <2> SUFFICES ASSUME call[t].pc = "TearWalk", call'[t].pc = "idle", ~overlap
                 PROVE  alloc' = {pAppData} /\ files' = {}
      OBVIOUS
    <2>0. ListOK /\ PlaceOK(call[t])
      BY <1>1 DEF ApartInv, ListInv, IInv, ListOK, PlacesOK
    <2>1. /\ RingOK /\ Alone /\ pAppData # NULL /\ ~broken
          /\ call[t].head = pAppData
      BY <1>1 DEF ApartInv, ListInv, OInv, RInv, RingOK, Unmade, HeadOK, Early
    <2>2. ~broken'  BY <1>1, <2>0, <2>1, AloneIsWhole DEF ApartInv, ListInv
    <2>3. call[t].ptr = pAppData /\ alloc' = alloc /\ files' = files
      <3>1. ~Still  BY DEF Still
      <3>2. ASSUME NEW u \in Threads, Store(u)  PROVE FALSE
        <4>1. CASE u = t
          BY <3>2, <4>1 DEF Store, MakeList, AddLink, LinkNext, LinkPrev,
             UnlinkNext, UnlinkPrev, Free, At
        <4>2. CASE u # t  BY <2>0, <2>2, <3>2, <4>2, StoreOthers
        <4> QED BY <4>1, <4>2
      <3>3. ASSUME NEW u \in Threads, Quiet(u), Moves(u), FileMoves(u)
            PROVE  call[t].ptr = pAppData /\ alloc' = alloc /\ files' = files
        <4>1. u = t  BY <3>3 DEF Quiet
        <4> QED BY <3>3, <4>1 DEF Quiet, Moves, FileMoves, memory
      <3> QED BY <1>1, <2>0, <2>2, <3>1, <3>2, <3>3, StepKinds DEF ApartInv, ListInv
    <2>4. call[t].op = "destroy"  BY <2>0 DEF PlaceOK
    <2>5. next[pAppData] = pAppData
      BY <1>1, <2>1, <2>3, <2>4 DEF ApartInv, TearInv, TearsFirst
    <2>6. Ring = {pAppData} /\ Ring \subseteq alloc
      BY <2>1, <2>5, RingFacts DEF RingOK, Whole
    <2>n. \A u \in Threads \ {t} : call[u].pc \in Early /\ call[u].file = NULL
      <3>1. Disturbs(t)  BY <2>4 DEF Disturbs, OnList, Pcs, Ops
      <3> QED BY <2>0, <2>1, <3>1, OthersEarly
    <2>7. ASSUME NEW x \in alloc \ Ring  PROVE FALSE
      <3>1. PICK u \in Threads : Holds(u, x)
        BY <1>1, <2>1, <2>7 DEF ApartInv, Carried
      <3> QED BY <2>n, <3>1 DEF Holds, Early
    <2>8. ASSUME NEW f \in files  PROVE FALSE
      <3>1. /\ f # NULL /\ pAppData \in Nodes /\ call[t].file = NULL
            /\ FilesHad /\ LinksFiles
        BY <1>1, <2>0, <2>1, ListAssumption
        DEF ApartInv, ListInv, FileInv, ListOK, MemoryOK, PlaceOK
      <3>2. PICK n \in alloc : obj[n] = f  BY <2>n, <3>1 DEF FilesHad
      <3>3. n = pAppData  BY <2>6, <2>7, <3>2
      <3> QED BY <3>1, <3>2, <3>3 DEF LinksFiles
    <2> QED BY <2>3, <2>6, <2>7, <2>8
  <1>2. ApartInv /\ [Next]_vars => [\A t \in Threads : Left(t)]_vars
    BY <1>1
  <1> QED BY <1>2, SpecApart, PTL DEF UnloadEmpties, Spec

===============================================================================

---------------------------- MODULE MemfsFileProofs ----------------------------
(***************************************************************************)
(* Proofs about MemfsFile.                                                 *)
(*                                                                         *)
(* The list of chunks is read as one sequence of bytes by FlattenSeq, a    *)
(* recursive function of the community modules.  The first part shows what *)
(* it computes, by induction on the length of the list: where a chunk      *)
(* begins and which byte of which chunk is byte p.                         *)
(***************************************************************************)
EXTENDS MemfsFile, MemfsLemmas
-------------------------------------------------------------------------------
(* FlattenSeq                                                              *)

(* f is the function FlattenSeq recurs with, over the first n of s.        *)
Joins(s, n, f) == f = [i \in 1 .. n |-> IF i = 1 THEN s[i] ELSE f[i - 1] \o s[i]]

LEMMA JoinsExists ==
  ASSUME NEW s, NEW n \in Nat
  PROVE  \E f : Joins(s, n, f)
  <1> DEFINE S == {m \in Nat : \E f : Joins(s, m, f)}
  <1>1. 0 \in S
    <2>1. Joins(s, 0, [i \in 1 .. 0 |-> 0])  BY DEF Joins
    <2> QED BY <2>1
  <1>2. ASSUME NEW m \in Nat, m \in S  PROVE m + 1 \in S
    <2>1. PICK f : Joins(s, m, f)  BY <1>2
    <2> DEFINE g == [i \in 1 .. m + 1 |-> IF i = 1 THEN s[i] ELSE f[i - 1] \o s[i]]
    <2>2. \A i \in 1 .. m : g[i] = f[i]
      <3>1. \A i \in 1 .. m : f[i] = IF i = 1 THEN s[i] ELSE f[i - 1] \o s[i]
        BY <2>1 DEF Joins
      <3>2. \A i \in 1 .. m : i \in 1 .. m + 1  OBVIOUS
      <3> QED BY <3>1, <3>2
    <2>3. g = [i \in 1 .. m + 1 |-> IF i = 1 THEN s[i] ELSE g[i - 1] \o s[i]]
      <3>1. \A i \in 1 .. m + 1 : i # 1 => i - 1 \in 1 .. m  OBVIOUS
      <3>2. \A i \in 1 .. m + 1 : i # 1 => g[i - 1] = f[i - 1]  BY <2>2, <3>1
      <3> QED BY <3>2
    <2> HIDE DEF g
    <2>4. Joins(s, m + 1, g)  BY ONLY <2>3 DEF Joins
    <2>5. m + 1 \in Nat  OBVIOUS
    <2> QED BY <2>4, <2>5
  <1> HIDE DEF S
  <1>3. \A m \in Nat : m \in S  BY <1>1, <1>2, Induction
  <1> QED BY <1>3 DEF S

(* It is the same for every sequence that begins with these n.             *)
LEMMA JoinsAgree ==
  ASSUME NEW s, NEW t, NEW n \in Nat, NEW m \in Nat, n <= m,
         \A i \in 1 .. n : s[i] = t[i],
         NEW f, Joins(s, n, f), NEW g, Joins(t, m, g)
  PROVE  \A i \in 1 .. n : f[i] = g[i]
  <1> DEFINE S == {i \in Nat : i \in 1 .. n => f[i] = g[i]}
  <1>0. /\ \A i \in 1 .. n : f[i] = IF i = 1 THEN s[i] ELSE f[i - 1] \o s[i]
        /\ \A i \in 1 .. m : g[i] = IF i = 1 THEN t[i] ELSE g[i - 1] \o t[i]
    BY DEF Joins
  <1>1. 0 \in S
    OBVIOUS
  <1>2. ASSUME NEW i \in Nat, i \in S  PROVE i + 1 \in S
    <2> SUFFICES ASSUME i + 1 \in 1 .. n  PROVE f[i + 1] = g[i + 1]
      OBVIOUS
    <2>1. i + 1 \in 1 .. m /\ s[i + 1] = t[i + 1]
      OBVIOUS
    <2>2. CASE i = 0
      BY <1>0, <2>1, <2>2
    <2>3. CASE i # 0
      <3>1. i \in 1 .. n /\ i + 1 # 1 /\ (i + 1) - 1 = i
        BY <2>3
      <3>2. f[i] = g[i]  BY <1>2, <3>1
      <3>3. f[i + 1] = f[(i + 1) - 1] \o s[i + 1]  BY <1>0, <3>1
      <3>4. g[i + 1] = g[(i + 1) - 1] \o t[i + 1]  BY <1>0, <2>1, <3>1
      <3> QED BY <2>1, <3>1, <3>2, <3>3, <3>4
    <2> QED BY <2>2, <2>3
  <1> HIDE DEF S
  <1>3. \A i \in Nat : i \in S  BY <1>1, <1>2, Induction
  <1> QED BY <1>3 DEF S

LEMMA FlattenJoins ==
  ASSUME NEW s, Len(s) \in Nat \ {0}
  PROVE  \E f : Joins(s, Len(s), f) /\ FlattenSeq(s) = f[Len(s)]
  <1>1. PICK f : Joins(s, Len(s), f)  BY JoinsExists
  <1> QED BY <1>1 DEF Joins, FlattenSeq

(* The first n sequences of cs, joined.                                    *)
Flat(cs, n) == FlattenSeq(SubSeq(cs, 1, n))

LEMMA Prefix ==
  ASSUME NEW X, NEW cs \in Seq(X), NEW n \in 0 .. Len(cs)
  PROVE  /\ SubSeq(cs, 1, n) \in Seq(X) /\ Len(SubSeq(cs, 1, n)) = n
         /\ \A i \in 1 .. n : SubSeq(cs, 1, n)[i] = cs[i]
  <1>1. n \in Nat /\ 1 \in Int /\ n \in Int /\ \A i \in 1 .. n : cs[i] \in X
    OBVIOUS
  <1>2. /\ SubSeq(cs, 1, n) \in Seq(X)
        /\ Len(SubSeq(cs, 1, n)) = (IF 1 <= n THEN n - 1 + 1 ELSE 0)
        /\ \A i \in 1 .. n - 1 + 1 : SubSeq(cs, 1, n)[i] = cs[1 + i - 1]
    BY <1>1, SubSeqProperties
  <1> QED BY <1>1, <1>2

(* What FlattenSeq computes, one sequence at a time.                       *)
LEMMA FlatSteps ==
  ASSUME NEW T, NEW cs \in Seq(Seq(T))
  PROVE  /\ Flat(cs, 0) = <<>>
         /\ \A n \in 0 .. Len(cs) - 1 : Flat(cs, n + 1) = Flat(cs, n) \o cs[n + 1]
         /\ \A n \in 0 .. Len(cs) : Flat(cs, n) \in Seq(T)
         /\ Flat(cs, Len(cs)) = FlattenSeq(cs)
  <1> DEFINE N == Len(cs)
  <1>0. N \in Nat /\ \A i \in 1 .. N : cs[i] \in Seq(T)
    OBVIOUS
  <1>1. PICK f : Joins(cs, N, f)  BY <1>0, JoinsExists
  <1>2. \A i \in 1 .. N : f[i] = IF i = 1 THEN cs[i] ELSE f[i - 1] \o cs[i]
    BY <1>1 DEF Joins
  <1>3. Flat(cs, 0) = <<>>
    <2>1. SubSeq(cs, 1, 0) \in Seq(Seq(T)) /\ Len(SubSeq(cs, 1, 0)) = 0
      BY <1>0, Prefix
    <2>2. SubSeq(cs, 1, 0) = <<>>  BY <2>1
    <2> QED BY <2>1, <2>2 DEF Flat, FlattenSeq
  <1>4. ASSUME NEW n \in 1 .. N  PROVE Flat(cs, n) = f[n]
    <2> DEFINE s == SubSeq(cs, 1, n)
    <2>1. Len(s) = n /\ \A i \in 1 .. n : s[i] = cs[i]
      BY <1>0, Prefix
    <2> HIDE DEF s
    <2>0. n \in Nat /\ n # 0 /\ n <= N  BY <1>0
    <2>2. PICK g : Joins(s, n, g) /\ FlattenSeq(s) = g[n]
      <3>1. Len(s) \in Nat \ {0}  BY <2>0, <2>1
      <3>2. \E g : Joins(s, Len(s), g) /\ FlattenSeq(s) = g[Len(s)]
        BY <3>1, FlattenJoins
      <3> QED BY <2>1, <3>2
    <2> HIDE DEF N
    <2>3. \A i \in 1 .. n : g[i] = f[i]
      <3>1. N \in Nat /\ \A i \in 1 .. n : s[i] = cs[i]
        BY <2>1, <1>0
      <3>2. Joins(s, n, g) /\ Joins(cs, N, f)  BY <1>1, <2>2
      <3> QED BY <2>0, <3>1, <3>2, JoinsAgree
    <2> QED BY <2>2, <2>3 DEF Flat, s
  <1>5. ASSUME NEW n \in 0 .. N - 1  PROVE Flat(cs, n + 1) = Flat(cs, n) \o cs[n + 1]
    <2>1. CASE n = 0
      <3>1. cs[1] \in Seq(T) /\ Flat(cs, 1) = cs[1]  BY <1>0, <1>2, <1>4, <2>1
      <3>2. <<>> \o cs[1] = cs[1]  BY <3>1, ConcatEmptySeq
      <3> QED BY <1>3, <2>1, <3>1, <3>2
    <2>2. CASE n # 0
      <3>1. n \in 1 .. N /\ n + 1 \in 1 .. N /\ n + 1 # 1 /\ n + 1 - 1 = n
        BY <2>2
      <3>2. f[n + 1] = f[(n + 1) - 1] \o cs[n + 1]  BY <1>2, <3>1
      <3>3. Flat(cs, n) = f[n] /\ Flat(cs, n + 1) = f[n + 1]  BY <1>4, <3>1
      <3>4. f[(n + 1) - 1] = f[n]  BY <3>1
      <3> QED BY <3>2, <3>3, <3>4
    <2> QED BY <2>1, <2>2
  <1>6. \A n \in 0 .. N : Flat(cs, n) \in Seq(T)
    <2> DEFINE S == {n \in 0 .. N : Flat(cs, n) \in Seq(T)}
    <2>1. 0 \in S
      <3>1. 0 \in 0 .. N /\ <<>> \in Seq(T)  BY <1>0
      <3> QED BY <1>3, <3>1
    <2>2. ASSUME NEW n \in 0 .. N - 1, n \in S  PROVE n + 1 \in S
      <3>1. n + 1 \in 1 .. N /\ cs[n + 1] \in Seq(T)  BY <1>0
      <3>2. Flat(cs, n) \o cs[n + 1] \in Seq(T)  BY <2>2, <3>1, ConcatProperties
      <3>3. Flat(cs, n + 1) = Flat(cs, n) \o cs[n + 1]  BY <1>5
      <3>4. n + 1 \in 0 .. N  BY <1>0
      <3> QED BY <3>2, <3>3, <3>4
    <2> HIDE DEF S
    <2>3. \A n \in 0 .. N : n \in S  BY <1>0, <2>1, <2>2, InductionTo
    <2> QED BY <2>3 DEF S
  <1>7. Flat(cs, N) = FlattenSeq(cs)
    <2>1. /\ SubSeq(cs, 1, N) \in Seq(Seq(T)) /\ Len(SubSeq(cs, 1, N)) = N
          /\ \A i \in 1 .. N : SubSeq(cs, 1, N)[i] = cs[i]
      BY <1>0, Prefix
    <2>2. SubSeq(cs, 1, N) = cs  BY <2>1, SeqEqual
    <2> QED BY <2>2 DEF Flat
  <1> QED BY <1>3, <1>5, <1>6, <1>7
-------------------------------------------------------------------------------
(* Where the chunks begin, and which byte is which                         *)

LEMMA Starts ==
  ASSUME NEW T, NEW cs \in Seq(Seq(T))
  PROVE  /\ Len(cs) \in Nat /\ \A k \in 1 .. Len(cs) : cs[k] \in Seq(T) /\ Len(cs[k]) \in Nat
         /\ Start(cs, 1) = 0
         /\ \A k \in 1 .. Len(cs) : Start(cs, k + 1) = Start(cs, k) + Len(cs[k])
         /\ \A k \in 1 .. Len(cs) + 1 : Start(cs, k) \in Nat
         /\ Capacity(cs) = Start(cs, Len(cs) + 1)
         /\ Capacity(cs) \in Nat
  <1>1. Len(cs) \in Nat /\ \A k \in 1 .. Len(cs) : cs[k] \in Seq(T) /\ Len(cs[k]) \in Nat
    OBVIOUS
  <1>2. \A n \in 0 .. Len(cs) : Start(cs, n + 1) = Len(Flat(cs, n))
    <2> SUFFICES ASSUME NEW n \in 0 .. Len(cs)
                 PROVE  Start(cs, n + 1) = Len(Flat(cs, n))
      OBVIOUS
    <2>1. (n + 1) - 1 = n  OBVIOUS
    <2> QED BY <2>1 DEF Start, Capacity, Flat
  <1>3. \A n \in 0 .. Len(cs) : Flat(cs, n) \in Seq(T) /\ Len(Flat(cs, n)) \in Nat
    BY FlatSteps
  <1>4. Start(cs, 1) = 0
    <2>1. Flat(cs, 0) = <<>>  BY FlatSteps
    <2>2. Start(cs, 0 + 1) = Len(Flat(cs, 0))  BY <1>1, <1>2
    <2> QED BY <2>1, <2>2
  <1>5. ASSUME NEW k \in 1 .. Len(cs)
        PROVE  Start(cs, k + 1) = Start(cs, k) + Len(cs[k])
    <2>1. k - 1 \in 0 .. Len(cs) - 1 /\ k \in 0 .. Len(cs) /\ (k - 1) + 1 = k
      OBVIOUS
    <2>2. Flat(cs, (k - 1) + 1) = Flat(cs, k - 1) \o cs[(k - 1) + 1]
      BY <2>1, FlatSteps
    <2>3. Flat(cs, k - 1) \in Seq(T) /\ cs[k] \in Seq(T)
      BY <1>1, <1>3, <2>1
    <2>4. Len(Flat(cs, k)) = Len(Flat(cs, k - 1)) + Len(cs[k])
      <3>1. Flat(cs, k) = Flat(cs, k - 1) \o cs[k]  BY <2>1, <2>2
      <3>2. Len(Flat(cs, k - 1) \o cs[k]) = Len(Flat(cs, k - 1)) + Len(cs[k])
        BY <2>3, ConcatProperties
      <3> QED BY <3>1, <3>2
    <2>5. Start(cs, k + 1) = Len(Flat(cs, k))  BY <1>2, <2>1
    <2>6. Start(cs, (k - 1) + 1) = Len(Flat(cs, k - 1))  BY <1>2, <2>1
    <2> QED BY <2>1, <2>4, <2>5, <2>6
  <1>6. ASSUME NEW k \in 1 .. Len(cs) + 1  PROVE Start(cs, k) \in Nat
    <2>1. k - 1 \in 0 .. Len(cs) /\ (k - 1) + 1 = k  BY <1>1
    <2>2. Start(cs, (k - 1) + 1) = Len(Flat(cs, k - 1))  BY <1>2, <2>1
    <2> QED BY <1>3, <2>1, <2>2
  <1>7. Capacity(cs) = Start(cs, Len(cs) + 1)
    <2>1. Len(cs) \in 0 .. Len(cs)  BY <1>1
    <2>2. Start(cs, Len(cs) + 1) = Len(Flat(cs, Len(cs)))  BY <1>2, <2>1
    <2>3. Flat(cs, Len(cs)) = FlattenSeq(cs)  BY FlatSteps
    <2> QED BY <2>2, <2>3 DEF Capacity
  <1>8. Capacity(cs) \in Nat
    <2>1. Len(cs) + 1 \in 1 .. Len(cs) + 1  BY <1>1
    <2> QED BY <1>6, <1>7, <2>1
  <1> QED BY <1>1, <1>4, <1>5, <1>6, <1>7, <1>8

(* Where a chunk begins depends on the lengths of those before it alone.   *)
LEMMA SameStarts ==
  ASSUME NEW T, NEW cs \in Seq(Seq(T)), NEW ds \in Seq(Seq(T)),
         NEW n \in 0 .. Len(cs), n <= Len(ds),
         \A k \in 1 .. n : Len(cs[k]) = Len(ds[k])
  PROVE  \A k \in 1 .. n + 1 : Start(cs, k) = Start(ds, k)
  <1> DEFINE S == {m \in 0 .. n : Start(cs, m + 1) = Start(ds, m + 1)}
  <1>0. n \in Nat /\ Len(cs) \in Nat /\ Len(ds) \in Nat
    OBVIOUS
  <1>1. 0 \in S
    <2>1. 0 + 1 = 1 /\ 0 \in 0 .. n  BY <1>0
    <2> QED BY <2>1, Starts
  <1>2. ASSUME NEW m \in 0 .. n - 1, m \in S  PROVE m + 1 \in S
    <2>1. m + 1 \in 1 .. n /\ m + 1 \in 1 .. Len(cs) /\ m + 1 \in 1 .. Len(ds)
          /\ m + 1 \in 0 .. n
      BY <1>0
    <2>2. Start(cs, m + 1 + 1) = Start(cs, m + 1) + Len(cs[m + 1])
      BY <2>1, Starts
    <2>3. Start(ds, m + 1 + 1) = Start(ds, m + 1) + Len(ds[m + 1])
      BY <2>1, Starts
    <2>4. Start(cs, m + 1) = Start(ds, m + 1)  BY <1>2
    <2>5. Len(cs[m + 1]) = Len(ds[m + 1])  BY <2>1
    <2> QED BY <2>1, <2>2, <2>3, <2>4, <2>5
  <1> HIDE DEF S
  <1>3. \A m \in 0 .. n : m \in S  BY <1>0, <1>1, <1>2, InductionTo
  <1>4. ASSUME NEW k \in 1 .. n + 1  PROVE Start(cs, k) = Start(ds, k)
    <2>1. k - 1 \in 0 .. n /\ (k - 1) + 1 = k  BY <1>0
    <2>2. Start(cs, (k - 1) + 1) = Start(ds, (k - 1) + 1)  BY <1>3, <2>1 DEF S
    <2> QED BY <2>1, <2>2
  <1> QED BY <1>4

LEMMA StartsRise ==
  ASSUME NEW T, NEW cs \in Seq(Seq(T)), NEW j \in 1 .. Len(cs) + 1
  PROVE  \A k \in j .. Len(cs) + 1 : Start(cs, j) <= Start(cs, k)
  <1>0. Len(cs) \in Nat  OBVIOUS
  <1> DEFINE N == Len(cs) + 1 - j
             S == {m \in 0 .. N : Start(cs, j) <= Start(cs, j + m)}
  <1>a. N \in Nat  BY <1>0
  <1>1. 0 \in S
    <2>1. Start(cs, j) \in Nat /\ j + 0 = j /\ 0 \in 0 .. N  BY <1>a, Starts
    <2> QED BY <2>1
  <1>2. ASSUME NEW m \in 0 .. N - 1, m \in S  PROVE m + 1 \in S
    <2>1. j + m \in 1 .. Len(cs) /\ j + m \in 1 .. Len(cs) + 1 /\ m + 1 \in 0 .. N
          /\ j + m + 1 = j + (m + 1) /\ j + (m + 1) \in 1 .. Len(cs) + 1
      BY <1>0
    <2>2. Start(cs, j + m + 1) = Start(cs, j + m) + Len(cs[j + m])
      BY <2>1, Starts
    <2>3. Start(cs, j) \in Nat /\ Start(cs, j + m) \in Nat /\ Len(cs[j + m]) \in Nat
      BY <2>1, Starts
    <2>4. Start(cs, j) <= Start(cs, j + m)  BY <1>2
    <2> QED BY <2>1, <2>2, <2>3, <2>4
  <1> HIDE DEF S, N
  <1>3. \A m \in 0 .. N : m \in S  BY <1>a, <1>1, <1>2, InductionTo
  <1>4. ASSUME NEW k \in j .. Len(cs) + 1  PROVE Start(cs, j) <= Start(cs, k)
    <2>1. k - j \in 0 .. N /\ j + (k - j) = k  BY <1>0 DEF N
    <2>2. Start(cs, j) <= Start(cs, j + (k - j))  BY <1>3, <2>1 DEF S
    <2> QED BY <2>1, <2>2
  <1> QED BY <1>4

(* Each byte of the first n chunks is one of their joined bytes, and each  *)
(* of those is one of theirs.                                              *)
Placed(cs, n) ==
  /\ \A k \in 1 .. n : \A i \in 1 .. Len(cs[k]) :
       /\ Start(cs, k) + i \in 1 .. Start(cs, n + 1)
       /\ Flat(cs, n)[Start(cs, k) + i] = cs[k][i]
  /\ \A p \in 1 .. Start(cs, n + 1) :
       \E k \in 1 .. n : \E i \in 1 .. Len(cs[k]) : p = Start(cs, k) + i

LEMMA PlacedStep ==
  ASSUME NEW T, NEW cs \in Seq(Seq(T)), NEW n \in 0 .. Len(cs) - 1, Placed(cs, n)
  PROVE  Placed(cs, n + 1)
  <1> DEFINE f == Flat(cs, n)
             g == Flat(cs, n + 1)
             e == cs[n + 1]
             a == Start(cs, n + 1)
             b == Start(cs, n + 1 + 1)
  <1>0. n \in 0 .. Len(cs) /\ n + 1 \in 0 .. Len(cs) /\ n + 1 \in 1 .. Len(cs)
        /\ n + 1 \in 1 .. Len(cs) + 1 /\ n + 1 + 1 \in 1 .. Len(cs) + 1 /\ n \in Nat
    OBVIOUS
  <1>1. a \in Nat /\ b = a + Len(e) /\ Len(e) \in Nat /\ e \in Seq(T)
    BY <1>0, Starts
  <1>2. f \in Seq(T) /\ g = f \o e
    BY <1>0, FlatSteps
  <1>3. Len(f) = a
    <2>1. (n + 1) - 1 = n  BY <1>0
    <2> QED BY <2>1 DEF Start, Capacity, Flat
  <1>4. \A p \in 1 .. a + Len(e) : g[p] = IF p <= a THEN f[p] ELSE e[p - a]
    <2>1. \A p \in 1 .. Len(f) + Len(e) :
            (f \o e)[p] = IF p <= Len(f) THEN f[p] ELSE e[p - Len(f)]
      <3> HIDE DEF f, e
      <3> QED BY <1>1, <1>2, ConcatProperties
    <2> HIDE DEF f, e, g, a, b
    <2> QED BY <1>2, <1>3, <2>1
  <1>5. ASSUME NEW k \in 1 .. n + 1, NEW i \in 1 .. Len(cs[k])
        PROVE  Start(cs, k) + i \in 1 .. b /\ g[Start(cs, k) + i] = cs[k][i]
    <2> HIDE DEF f, g, a, b
    <2>1. CASE k = n + 1
      <3>1. Start(cs, k) = a /\ cs[k] = e  BY <2>1 DEF a
      <3>2. i \in Nat /\ i >= 1 /\ i <= Len(e)  BY <2>1, <1>1
      <3>3. a + i \in 1 .. a + Len(e) /\ ~(a + i <= a) /\ (a + i) - a = i
        BY <3>2, <1>1
      <3>4. g[a + i] = e[(a + i) - a]  BY <1>4, <3>3
      <3>5. Start(cs, k) + i \in 1 .. b  BY <3>1, <3>3, <1>1
      <3> QED BY <3>1, <3>3, <3>4, <3>5
    <2>2. CASE k # n + 1
      <3>1. k \in 1 .. n  BY <2>2, <1>0
      <3>2. Start(cs, k) + i \in 1 .. a /\ f[Start(cs, k) + i] = cs[k][i]
        BY <3>1 DEF Placed, a, f
      <3>3. Start(cs, k) + i \in 1 .. a + Len(e) /\ Start(cs, k) + i <= a
        BY <3>2, <1>1
      <3> QED BY <1>1, <1>4, <3>2, <3>3
    <2> QED BY <2>1, <2>2
  <1>6. ASSUME NEW p \in 1 .. b
        PROVE  \E k \in 1 .. n + 1 : \E i \in 1 .. Len(cs[k]) : p = Start(cs, k) + i
    <2> HIDE DEF f, g
    <2>1. CASE p <= a
      <3>1. p \in 1 .. a  BY <2>1, <1>1
      <3>2. PICK k \in 1 .. n : \E i \in 1 .. Len(cs[k]) : p = Start(cs, k) + i
        BY <3>1 DEF Placed
      <3>3. k \in 1 .. n + 1  BY <1>0
      <3> QED BY <3>2, <3>3
    <2>2. CASE ~(p <= a)
      <3>1. p - a \in 1 .. Len(cs[n + 1]) /\ p = Start(cs, n + 1) + (p - a)
        <4> HIDE DEF b
        <4>1. p \in 1 .. a + Len(e)  BY <1>1
        <4>2. p - a \in 1 .. Len(e) /\ p = a + (p - a)
          <5> HIDE DEF a, e
          <5> QED BY <4>1, <2>2, <1>1
        <4> QED BY <4>2
      <3>2. n + 1 \in 1 .. n + 1  BY <1>0
      <3> QED BY <3>1, <3>2
    <2> QED BY <2>1, <2>2
  <1> QED BY <1>5, <1>6 DEF Placed

LEMMA Bytes ==
  ASSUME NEW T, NEW cs \in Seq(Seq(T))
  PROVE  /\ FlattenSeq(cs) \in Seq(T) /\ Len(FlattenSeq(cs)) = Capacity(cs)
         /\ \A k \in 1 .. Len(cs) : \A i \in 1 .. Len(cs[k]) :
              /\ Start(cs, k) + i \in 1 .. Capacity(cs)
              /\ FlattenSeq(cs)[Start(cs, k) + i] = cs[k][i]
         /\ \A p \in 1 .. Capacity(cs) :
              \E k \in 1 .. Len(cs) : \E i \in 1 .. Len(cs[k]) : p = Start(cs, k) + i
  <1> DEFINE S == {n \in 0 .. Len(cs) : Placed(cs, n)}
  <1>0. Len(cs) \in Nat /\ Len(cs) \in 0 .. Len(cs)
    OBVIOUS
  <1>1. 0 \in S
    <2>1. Start(cs, 0 + 1) = 0  BY Starts
    <2>2. 1 .. 0 = {}  OBVIOUS
    <2>3. Placed(cs, 0)  BY <2>1, <2>2 DEF Placed
    <2> QED BY <1>0, <2>3
  <1>2. ASSUME NEW n \in 0 .. Len(cs) - 1, n \in S  PROVE n + 1 \in S
    <2>1. Placed(cs, n + 1)  BY <1>2, PlacedStep
    <2>2. n + 1 \in 0 .. Len(cs)  BY <1>0
    <2> QED BY <2>1, <2>2
  <1> HIDE DEF S
  <1>3. \A n \in 0 .. Len(cs) : n \in S  BY <1>0, <1>1, <1>2, InductionTo
  <1>4. Placed(cs, Len(cs))  BY <1>0, <1>3 DEF S
  <1>5. Flat(cs, Len(cs)) = FlattenSeq(cs) /\ FlattenSeq(cs) \in Seq(T)
    BY <1>0, FlatSteps
  <1>6. Capacity(cs) = Start(cs, Len(cs) + 1)  BY Starts
  <1> QED BY <1>4, <1>5, <1>6 DEF Placed, Capacity
-------------------------------------------------------------------------------
(* The sizes of chunks                                                     *)

(* f is the function Shifted recurs with, up to n.                         *)
Doubles(n, f) == f = [i \in 0 .. n |-> IF i = 0 THEN CHUNK_BASE ELSE 2 * f[i - 1]]

LEMMA DoublesExists ==
  \A n \in Nat : \E f : Doubles(n, f)
  <1> DEFINE S == {m \in Nat : \E f : Doubles(m, f)}
  <1>1. 0 \in S
    <2>1. Doubles(0, [i \in 0 .. 0 |-> CHUNK_BASE])  BY DEF Doubles
    <2> QED BY <2>1
  <1>2. ASSUME NEW m \in Nat, m \in S  PROVE m + 1 \in S
    <2>1. PICK f : Doubles(m, f)  BY <1>2
    <2> DEFINE g == [i \in 0 .. m + 1 |-> IF i = 0 THEN CHUNK_BASE ELSE 2 * f[i - 1]]
    <2>2. \A i \in 0 .. m : g[i] = f[i]
      <3>1. \A i \in 0 .. m : f[i] = IF i = 0 THEN CHUNK_BASE ELSE 2 * f[i - 1]
        BY <2>1 DEF Doubles
      <3>2. \A i \in 0 .. m : i \in 0 .. m + 1  OBVIOUS
      <3> QED BY <3>1, <3>2
    <2>3. g = [i \in 0 .. m + 1 |-> IF i = 0 THEN CHUNK_BASE ELSE 2 * g[i - 1]]
      <3>1. \A i \in 0 .. m + 1 : i # 0 => i - 1 \in 0 .. m  OBVIOUS
      <3>2. \A i \in 0 .. m + 1 : i # 0 => g[i - 1] = f[i - 1]  BY <2>2, <3>1
      <3> QED BY <3>2
    <2> HIDE DEF g
    <2>4. Doubles(m + 1, g)  BY ONLY <2>3 DEF Doubles
    <2>5. m + 1 \in Nat  OBVIOUS
    <2> QED BY <2>4, <2>5
  <1> HIDE DEF S
  <1>3. \A m \in Nat : m \in S  BY <1>1, <1>2, Induction
  <1> QED BY <1>3 DEF S

LEMMA DoublesAgree ==
  ASSUME NEW n \in Nat, NEW f, Doubles(n, f), NEW g, Doubles(n + 1, g)
  PROVE  f[n] = g[n]
  <1> DEFINE S == {i \in 0 .. n : f[i] = g[i]}
  <1>0. /\ \A i \in 0 .. n : f[i] = IF i = 0 THEN CHUNK_BASE ELSE 2 * f[i - 1]
        /\ \A i \in 0 .. n + 1 : g[i] = IF i = 0 THEN CHUNK_BASE ELSE 2 * g[i - 1]
    BY DEF Doubles
  <1>1. 0 \in S
    BY <1>0
  <1>2. ASSUME NEW i \in 0 .. n - 1, i \in S  PROVE i + 1 \in S
    <2>1. i + 1 \in 0 .. n /\ i + 1 \in 0 .. n + 1 /\ i + 1 # 0 /\ (i + 1) - 1 = i
      OBVIOUS
    <2>2. f[i + 1] = 2 * f[(i + 1) - 1]  BY <1>0, <2>1
    <2>3. g[i + 1] = 2 * g[(i + 1) - 1]  BY <1>0, <2>1
    <2>4. f[(i + 1) - 1] = g[(i + 1) - 1]  BY <1>2, <2>1
    <2>5. f[i + 1] = g[i + 1]  BY <2>2, <2>3, <2>4
    <2> QED BY <2>1, <2>5
  <1> HIDE DEF S
  <1>3. \A i \in 0 .. n : i \in S  BY <1>1, <1>2, InductionTo
  <1>4. n \in 0 .. n  OBVIOUS
  <1> QED BY <1>3, <1>4 DEF S

LEMMA ShiftedSteps ==
  /\ Shifted[0] = CHUNK_BASE
  /\ \A n \in Nat : Shifted[n + 1] = 2 * Shifted[n]
  <1> DEFINE F(n) == CHOOSE f : Doubles(n, f)
             g == [n \in Nat |-> F(n)[n]]
  <1>1. \A n \in Nat : Doubles(n, F(n))
    BY DoublesExists
  <1>2. ASSUME NEW n \in Nat
        PROVE  g[n] = IF n = 0 THEN CHUNK_BASE ELSE 2 * g[n - 1]
    <2>1. F(n)[n] = IF n = 0 THEN CHUNK_BASE ELSE 2 * F(n)[n - 1]
      <3> HIDE DEF F
      <3>1. n \in 0 .. n  OBVIOUS
      <3>2. \A i \in 0 .. n :
              F(n)[i] = IF i = 0 THEN CHUNK_BASE ELSE 2 * F(n)[i - 1]
        BY <1>1 DEF Doubles
      <3> QED BY <3>1, <3>2
    <2>2. ASSUME n # 0  PROVE F(n)[n - 1] = g[n - 1]
      <3>1. n - 1 \in Nat /\ (n - 1) + 1 = n  BY <2>2
      <3>2. Doubles(n - 1, F(n - 1)) /\ Doubles((n - 1) + 1, F(n))
        BY <1>1, <3>1
      <3>3. g[n - 1] = F(n - 1)[n - 1]
        BY <3>1
      <3> HIDE DEF F, g
      <3> QED BY <3>1, <3>2, <3>3, DoublesAgree
    <2>3. g[n] = F(n)[n]  OBVIOUS
    <2> HIDE DEF F, g
    <2> QED BY <2>1, <2>2, <2>3
  <1>a. g = [n \in Nat |-> g[n]]
    OBVIOUS
  <1> HIDE DEF F, g
  <1>b. g = [n \in Nat |-> IF n = 0 THEN CHUNK_BASE ELSE 2 * g[n - 1]]
    BY <1>2, <1>a
  <1>3. Shifted = [n \in Nat |-> IF n = 0 THEN CHUNK_BASE ELSE 2 * Shifted[n - 1]]
    BY <1>b DEF Shifted
  <1>4. \A n \in Nat : Shifted[n] = IF n = 0 THEN CHUNK_BASE ELSE 2 * Shifted[n - 1]
    BY <1>3
  <1>5. ASSUME NEW n \in Nat  PROVE Shifted[n + 1] = 2 * Shifted[n]
    <2>1. n + 1 \in Nat /\ n + 1 # 0 /\ (n + 1) - 1 = n  OBVIOUS
    <2>2. Shifted[n + 1] = 2 * Shifted[(n + 1) - 1]  BY <1>4, <2>1
    <2> QED BY <2>1, <2>2
  <1> QED BY <1>4, <1>5

LEMMA ShiftedRises ==
  /\ \A n \in Nat : Shifted[n] \in Nat \ {0}
  /\ \A n \in 0 .. MAX_SHIFT : Shifted[n] <= Shifted[MAX_SHIFT]
  <1>0. CHUNK_BASE \in Nat \ {0} /\ MAX_SHIFT \in Nat
    BY FileAssumption
  <1>1. \A n \in Nat : Shifted[n] \in Nat \ {0}
    <2> DEFINE S == {n \in Nat : Shifted[n] \in Nat \ {0}}
    <2>1. 0 \in S  BY <1>0, ShiftedSteps
    <2>2. ASSUME NEW n \in Nat, n \in S  PROVE n + 1 \in S
      <3>1. Shifted[n + 1] = 2 * Shifted[n]  BY ShiftedSteps
      <3> QED BY <2>2, <3>1
    <2> HIDE DEF S
    <2>3. \A n \in Nat : n \in S  BY <2>1, <2>2, Induction
    <2> QED BY <2>3 DEF S
  <1>2. \A n \in Nat : \A m \in 0 .. n : Shifted[m] <= Shifted[n]
    <2> DEFINE S == {n \in Nat : \A m \in 0 .. n : Shifted[m] <= Shifted[n]}
    <2>1. 0 \in S
      <3>1. \A m \in 0 .. 0 : m = 0  OBVIOUS
      <3>2. Shifted[0] <= Shifted[0]  BY <1>0, ShiftedSteps
      <3> QED BY <3>1, <3>2
    <2>2. ASSUME NEW n \in Nat, n \in S  PROVE n + 1 \in S
      <3> SUFFICES ASSUME NEW m \in 0 .. n + 1
                   PROVE  Shifted[m] <= Shifted[n + 1]
        OBVIOUS
      <3>1. Shifted[n + 1] = 2 * Shifted[n] /\ Shifted[n] \in Nat
        BY <1>1, ShiftedSteps
      <3>2. CASE m = n + 1  BY <3>1, <3>2
      <3>3. CASE m # n + 1
        <4>1. m \in 0 .. n /\ m \in Nat  BY <3>3
        <4>2. Shifted[m] <= Shifted[n] /\ Shifted[m] \in Nat  BY <1>1, <2>2, <4>1
        <4> QED BY <3>1, <4>2
      <3> QED BY <3>2, <3>3
    <2> HIDE DEF S
    <2>3. \A n \in Nat : n \in S  BY <2>1, <2>2, Induction
    <2> QED BY <2>3 DEF S
  <1> QED BY <1>0, <1>1, <1>2

LEMMA ChunkSizes ==
  /\ ChunkSize(1) = CHUNK_BASE
  /\ LargestChunk \in Nat
  /\ \A k \in Nat \ {0} :
       /\ ChunkSize(k) \in Nat \ {0}
       /\ ChunkSize(k) <= LargestChunk
       /\ \/ ChunkSize(k + 1) = 2 * ChunkSize(k)
          \/ ChunkSize(k) = LargestChunk /\ ChunkSize(k + 1) = LargestChunk
  <1>0. MAX_SHIFT \in Nat
    BY FileAssumption
  <1>1. ChunkSize(1) = CHUNK_BASE
    <2>1. ChunkSize(1) = Shifted[0]
      BY <1>0 DEF ChunkSize
    <2> QED BY <2>1, ShiftedSteps
  <1>2. LargestChunk \in Nat
    BY <1>0, ShiftedRises DEF LargestChunk
  <1>3. ASSUME NEW k \in Nat \ {0}
        PROVE  ChunkSize(k) \in Nat \ {0} /\ ChunkSize(k) <= LargestChunk
    <2>1. CASE k - 1 < MAX_SHIFT
      <3>1. ChunkSize(k) = Shifted[k - 1]  BY <2>1 DEF ChunkSize
      <3>2. k - 1 \in 0 .. MAX_SHIFT /\ k - 1 \in Nat  BY <1>0, <2>1
      <3> QED BY <3>1, <3>2, ShiftedRises DEF LargestChunk
    <2>2. CASE ~(k - 1 < MAX_SHIFT)
      <3>1. ChunkSize(k) = Shifted[MAX_SHIFT]  BY <2>2 DEF ChunkSize
      <3> QED BY <1>0, <3>1, ShiftedRises DEF LargestChunk
    <2> QED BY <2>1, <2>2
  <1>4. ASSUME NEW k \in Nat \ {0}
        PROVE  \/ ChunkSize(k + 1) = 2 * ChunkSize(k)
               \/ ChunkSize(k) = LargestChunk /\ ChunkSize(k + 1) = LargestChunk
    <2>0. k - 1 \in Nat /\ (k + 1) - 1 = k /\ (k - 1) + 1 = k  OBVIOUS
    <2>1. CASE k - 1 < MAX_SHIFT
      <3>1. ChunkSize(k) = Shifted[k - 1]  BY <2>1 DEF ChunkSize
      <3>2. ChunkSize(k + 1) = Shifted[k]
        <4>1. CASE k < MAX_SHIFT  BY <2>0, <4>1 DEF ChunkSize
        <4>2. CASE ~(k < MAX_SHIFT)
          <5>1. k = MAX_SHIFT  BY <1>0, <2>1, <4>2
          <5> QED BY <2>0, <4>2, <5>1 DEF ChunkSize
        <4> QED BY <4>1, <4>2
      <3>3. Shifted[(k - 1) + 1] = 2 * Shifted[k - 1]  BY <2>0, ShiftedSteps
      <3> QED BY <2>0, <3>1, <3>2, <3>3
    <2>2. CASE ~(k - 1 < MAX_SHIFT)
      <3>1. ~((k + 1) - 1 < MAX_SHIFT)  BY <1>0, <2>2
      <3> QED BY <2>2, <3>1 DEF ChunkSize, LargestChunk
    <2> QED BY <2>1, <2>2
  <1> QED BY <1>1, <1>2, <1>3, <1>4
-------------------------------------------------------------------------------
(* What a write does to the list                                           *)

LEMMA Fills ==
  /\ Zero \in Cell /\ Uninit \in Cell
  /\ \A buf \in Payloads : buf \in Seq(Cell) /\ Len(buf) \in Nat /\ buf # NULL
  <1>1. ASSUME NEW buf \in Payloads  PROVE buf \in Seq(Cell) /\ Len(buf) \in Nat /\ buf # NULL
    <2>1. buf \in Seq(Range(buf)) /\ buf # NULL  BY FileAssumption
    <2>2. Range(buf) \subseteq Cell  BY DEF Cell
    <2>3. buf \in Seq(Cell)
      <3>1. \A i \in 1 .. Len(buf) : buf[i] \in Cell  BY <2>1, <2>2
      <3> QED BY <2>1, <3>1
    <2> QED BY <2>1, <2>3
  <1> QED BY <1>1 DEF Cell

(* Two lists of chunks of the same sizes.                                  *)
SameShape(cs, ds) ==
  Len(ds) = Len(cs) /\ \A k \in 1 .. Len(cs) : Len(ds[k]) = Len(cs[k])

LEMMA Reshaped ==
  ASSUME NEW T, NEW cs \in Seq(Seq(T)), NEW ds \in Seq(Seq(T)), SameShape(cs, ds)
  PROVE  /\ Capacity(ds) = Capacity(cs)
         /\ \A k \in 1 .. Len(cs) : Start(ds, k) = Start(cs, k)
  <1>0. Len(cs) \in Nat /\ Len(cs) \in 0 .. Len(cs) /\ Len(cs) <= Len(ds)
        /\ \A k \in 1 .. Len(cs) : Len(cs[k]) = Len(ds[k])
    BY DEF SameShape
  <1>1. \A k \in 1 .. Len(cs) + 1 : Start(cs, k) = Start(ds, k)
    BY <1>0, SameStarts
  <1>2. Len(cs) + 1 \in 1 .. Len(cs) + 1 /\ Len(ds) = Len(cs)  BY <1>0 DEF SameShape
  <1>3. Capacity(cs) = Start(cs, Len(cs) + 1) /\ Capacity(ds) = Start(ds, Len(ds) + 1)
    BY Starts
  <1>4. \A k \in 1 .. Len(cs) : k \in 1 .. Len(cs) + 1  BY <1>0
  <1> QED BY <1>1, <1>2, <1>3, <1>4

(* A list of chunks made by a rule for the bytes of another.               *)
LEMMA Rewritten ==
  ASSUME NEW T, NEW cs \in Seq(Seq(T)), NEW ds,
         DOMAIN ds = DOMAIN cs /\ ds = [k \in DOMAIN ds |-> ds[k]],
         \A k \in DOMAIN cs : \A i \in DOMAIN cs[k] : ds[k][i] \in T,
         \A k \in DOMAIN cs : DOMAIN ds[k] = DOMAIN cs[k]
                              /\ ds[k] = [i \in DOMAIN ds[k] |-> ds[k][i]]
  PROVE  ds \in Seq(Seq(T)) /\ SameShape(cs, ds)
  <1>0. Len(cs) \in Nat /\ DOMAIN cs = 1 .. Len(cs)
    OBVIOUS
  <1>1. ASSUME NEW k \in 1 .. Len(cs)
        PROVE  ds[k] \in Seq(T) /\ Len(ds[k]) = Len(cs[k])
    <2>1. cs[k] \in Seq(T)  BY <1>0
    <2>2. Len(cs[k]) \in Nat /\ DOMAIN cs[k] = 1 .. Len(cs[k])  BY <2>1
    <2>3. ds[k] = [i \in 1 .. Len(cs[k]) |-> ds[k][i]]  BY <1>0, <2>2
    <2>4. \A i \in 1 .. Len(cs[k]) : ds[k][i] \in T  BY <1>0, <2>2
    <2>5. ds[k] \in Seq(T)  BY <2>2, <2>3, <2>4, IsASeq
    <2>6. DOMAIN ds[k] = 1 .. Len(ds[k]) /\ Len(ds[k]) \in Nat  BY <2>5
    <2>7. DOMAIN ds[k] = 1 .. Len(cs[k])  BY <1>0, <2>2
    <2>8. Len(ds[k]) = Len(cs[k])
      <3>1. \A a, b \in Nat : 1 .. a = 1 .. b => a = b
        <4> SUFFICES ASSUME NEW a \in Nat, NEW b \in Nat, 1 .. a = 1 .. b
                     PROVE  a = b
          OBVIOUS
        <4>1. a # 0 => a \in 1 .. b  OBVIOUS
        <4>2. b # 0 => b \in 1 .. a  OBVIOUS
        <4> QED BY <4>1, <4>2
      <3> QED BY <2>2, <2>6, <2>7, <3>1
    <2> QED BY <2>5, <2>8
  <1>2. ds = [k \in 1 .. Len(cs) |-> ds[k]]  BY <1>0
  <1>3. ds \in Seq(Seq(T))  BY <1>0, <1>1, <1>2, IsASeq
  <1>4. Len(ds) = Len(cs)  BY <1>0, <1>3
  <1> QED BY <1>1, <1>3, <1>4 DEF SameShape

(* The bytes given to a write are stored, no other byte is touched, and    *)
(* what does not fit is left out.                                          *)
LEMMA StoredBytes ==
  ASSUME NEW T, NEW cs \in Seq(Seq(T)), NEW buf \in Seq(T), NEW ofst \in Int
  PROVE  LET ds == Stored(cs, buf, ofst)
         IN /\ ds \in Seq(Seq(T)) /\ SameShape(cs, ds)
            /\ \A p \in 1 .. Capacity(cs) :
                 FlattenSeq(ds)[p] = IF ofst < p /\ p <= ofst + Len(buf)
                                     THEN buf[p - ofst] ELSE FlattenSeq(cs)[p]
  <1> DEFINE ds == Stored(cs, buf, ofst)
             In(p) == ofst < p /\ p <= ofst + Len(buf)
  <1>0. Len(cs) \in Nat /\ DOMAIN cs = 1 .. Len(cs) /\ Len(buf) \in Nat
    OBVIOUS
  <1>1. ASSUME NEW k \in DOMAIN cs
        PROVE  cs[k] \in Seq(T) /\ DOMAIN cs[k] = 1 .. Len(cs[k]) /\ Len(cs[k]) \in Nat
               /\ Start(cs, k) \in Nat
    <2>1. cs[k] \in Seq(T)  BY <1>0
    <2>2. k \in 1 .. Len(cs) + 1  BY <1>0
    <2> QED BY <2>1, <2>2, Starts
  <1>2. ASSUME NEW k \in DOMAIN cs, NEW i \in DOMAIN cs[k]
        PROVE  ds[k][i] = IF In(Start(cs, k) + i) THEN buf[Start(cs, k) + i - ofst]
                                                  ELSE cs[k][i]
    <2> DEFINE p == Start(cs, k) + i - 1
    <2>1. ds[k][i] = IF p \in ofst .. ofst + Len(buf) - 1 THEN buf[p - ofst + 1]
                                                         ELSE cs[k][i]
      BY DEF Stored
    <2>2. i \in Nat /\ Start(cs, k) \in Nat  BY <1>1
    <2>3. p - ofst + 1 = Start(cs, k) + i - ofst  BY <2>2
    <2>4. p \in ofst .. ofst + Len(buf) - 1 <=> In(Start(cs, k) + i)  BY <1>0, <2>2
    <2> HIDE DEF In, p, ds
    <2> QED BY <2>1, <2>3, <2>4
  <1>3. ASSUME NEW k \in DOMAIN cs, NEW i \in DOMAIN cs[k]  PROVE ds[k][i] \in T
    <2>1. i \in Nat /\ Start(cs, k) \in Nat /\ cs[k][i] \in T  BY <1>1
    <2>2. CASE In(Start(cs, k) + i)
      <3>1. Start(cs, k) + i - ofst \in 1 .. Len(buf)  BY <1>0, <2>1, <2>2
      <3>2. buf[Start(cs, k) + i - ofst] \in T  BY <3>1
      <3> HIDE DEF In, ds
      <3> QED BY <1>2, <2>2, <3>2
    <2>3. CASE ~In(Start(cs, k) + i)
      <3> HIDE DEF In, ds
      <3> QED BY <1>2, <2>1, <2>3
    <2> QED BY <2>2, <2>3
  <1>4. /\ DOMAIN ds = DOMAIN cs /\ ds = [k \in DOMAIN ds |-> ds[k]]
        /\ \A k \in DOMAIN cs : DOMAIN ds[k] = DOMAIN cs[k]
                                /\ ds[k] = [i \in DOMAIN ds[k] |-> ds[k][i]]
    BY DEF Stored
  <1> HIDE DEF ds
  <1>5. ds \in Seq(Seq(T)) /\ SameShape(cs, ds)  BY <1>3, <1>4, Rewritten
  <1>6. ASSUME NEW p \in 1 .. Capacity(cs)
        PROVE  FlattenSeq(ds)[p] = IF In(p) THEN buf[p - ofst] ELSE FlattenSeq(cs)[p]
    <2>1. PICK k \in 1 .. Len(cs) : \E i \in 1 .. Len(cs[k]) : p = Start(cs, k) + i
      BY Bytes
    <2>2. PICK i \in 1 .. Len(cs[k]) : p = Start(cs, k) + i
      BY <2>1
    <2>3. k \in 1 .. Len(ds) /\ i \in 1 .. Len(ds[k]) /\ k \in DOMAIN cs /\ i \in DOMAIN cs[k]
      BY <1>0, <1>1, <1>5 DEF SameShape
    <2>4. Start(ds, k) = Start(cs, k)  BY <1>5, Reshaped
    <2>5. FlattenSeq(ds)[Start(ds, k) + i] = ds[k][i]  BY <1>5, <2>3, Bytes
    <2>6. FlattenSeq(cs)[Start(cs, k) + i] = cs[k][i]  BY Bytes
    <2>7. ds[k][i] = IF In(Start(cs, k) + i) THEN buf[Start(cs, k) + i - ofst]
                                             ELSE cs[k][i]
      BY <1>2, <2>3
    <2>8. /\ FlattenSeq(ds)[p] = ds[k][i] /\ FlattenSeq(cs)[p] = cs[k][i]
          /\ In(p) <=> In(Start(cs, k) + i)
          /\ buf[p - ofst] = buf[Start(cs, k) + i - ofst]
      <3>1. FlattenSeq(ds)[p] = ds[k][i] /\ FlattenSeq(cs)[p] = cs[k][i]
        BY <2>2, <2>4, <2>5, <2>6
      <3>2. In(p) <=> In(Start(cs, k) + i)
        BY <2>2
      <3>3. p - ofst = Start(cs, k) + i - ofst
        <4>1. i \in Nat /\ Start(cs, k) \in Nat  BY <1>1, <2>3
        <4> QED BY <2>2, <4>1
      <3> QED BY <3>1, <3>2, <3>3
    <2> HIDE DEF In
    <2> QED BY <2>7, <2>8
  <1> QED BY <1>5, <1>6 DEF ds

LEMMA ZeroedShape ==
  ASSUME NEW T, Zero \in T, NEW cs \in Seq(Seq(T)), NEW amt, NEW ofst
  PROVE  Zeroed(cs, amt, ofst) \in Seq(Seq(T)) /\ SameShape(cs, Zeroed(cs, amt, ofst))
  <1> DEFINE ds == Zeroed(cs, amt, ofst)
  <1>0. Len(cs) \in Nat /\ DOMAIN cs = 1 .. Len(cs)
        /\ \A k \in DOMAIN cs : cs[k] \in Seq(T)
    OBVIOUS
  <1>1. /\ DOMAIN ds = DOMAIN cs /\ ds = [k \in DOMAIN ds |-> ds[k]]
        /\ \A k \in DOMAIN cs : DOMAIN ds[k] = DOMAIN cs[k]
                                /\ ds[k] = [i \in DOMAIN ds[k] |-> ds[k][i]]
    BY DEF Zeroed
  <1>2. ASSUME NEW k \in DOMAIN cs, NEW i \in DOMAIN cs[k]  PROVE ds[k][i] \in T
    <2>1. ds[k][i] = Zero \/ ds[k][i] = cs[k][i]  BY DEF Zeroed
    <2>2. cs[k][i] \in T  BY <1>0
    <2> QED BY <2>1, <2>2
  <1> HIDE DEF ds
  <1>3. ds \in Seq(Seq(T)) /\ SameShape(cs, ds)  BY <1>1, <1>2, Rewritten
  <1> QED BY <1>3 DEF ds
-------------------------------------------------------------------------------
(* The inductive invariant                                                 *)

(* Each chunk has the size of its place in the list.                       *)
Sized ==
  /\ chunks \in Seq(Seq(Cell))
  /\ Len(chunks) \in 1 .. MaxChunks
  /\ \A k \in 1 .. Len(chunks) : Len(chunks[k]) = ChunkSize(k)

IInv ==
  /\ Sized
  /\ nSize \in Int /\ nSize <= LLONG_MAX
  /\ ret.code \in Codes
  /\ nSize <= Capacity(chunks)

(* Chunks are appended, and the bytes there are stay where they are.       *)
LEMMA GrownBytes ==
  ASSUME Sized, NEW n \in Len(chunks) .. MaxChunks, NEW fill \in Cell
  PROVE  LET cs == Grown(n, fill)
         IN /\ cs \in Seq(Seq(Cell)) /\ Len(cs) = n
            /\ \A k \in 1 .. n : Len(cs[k]) = ChunkSize(k)
            /\ Capacity(chunks) <= Capacity(cs)
            /\ \A p \in 1 .. Capacity(chunks) : FlattenSeq(cs)[p] = FlattenSeq(chunks)[p]
  <1> DEFINE cs == Grown(n, fill)
             m  == Len(chunks)
  <1>0. chunks \in Seq(Seq(Cell)) /\ m \in Nat /\ m >= 1 /\ n \in Nat /\ m <= n
        /\ \A k \in 1 .. m : chunks[k] \in Seq(Cell) /\ Len(chunks[k]) = ChunkSize(k)
    BY FileAssumption DEF Sized
  <1>1. \A k \in 1 .. m : k \in 1 .. n /\ cs[k] = chunks[k]
    BY <1>0 DEF Grown
  <1>2. ASSUME NEW k \in 1 .. n  PROVE cs[k] \in Seq(Cell) /\ Len(cs[k]) = ChunkSize(k)
    <2>1. CASE k <= m
      <3>1. k \in 1 .. m  BY <1>0, <2>1
      <3> HIDE DEF cs
      <3> QED BY <1>0, <1>1, <3>1
    <2>2. CASE ~(k <= m)
      <3>1. cs[k] = [i \in 1 .. ChunkSize(k) |-> fill]  BY <2>2 DEF Grown
      <3>2. ChunkSize(k) \in Nat  BY ChunkSizes
      <3>3. [i \in 1 .. ChunkSize(k) |-> fill] \in Seq(Cell)
            /\ Len([i \in 1 .. ChunkSize(k) |-> fill]) = ChunkSize(k)
        <4> DEFINE c == ChunkSize(k)
        <4> HIDE DEF c
        <4>1. c \in Nat => [i \in 1 .. c |-> fill] \in Seq(Cell)
                           /\ Len([i \in 1 .. c |-> fill]) = c
          OBVIOUS
        <4> QED BY <3>2, <4>1 DEF c
      <3> QED BY <3>1, <3>3
    <2> QED BY <2>1, <2>2
  <1>3. cs \in Seq(Seq(Cell)) /\ Len(cs) = n
    <2>1. cs = [k \in 1 .. n |-> cs[k]]  BY DEF Grown
    <2> HIDE DEF cs
    <2>2. cs \in Seq(Seq(Cell))  BY <1>0, <1>2, <2>1, IsASeq
    <2>3. DOMAIN cs = 1 .. n  BY <2>1
    <2> QED BY <1>0, <2>1, <2>2, <2>3
  <1> HIDE DEF cs
  <1>4. \A k \in 1 .. m + 1 : Start(chunks, k) = Start(cs, k)
    <2>1. m \in 0 .. Len(chunks) /\ m <= Len(cs)
          /\ \A k \in 1 .. m : Len(chunks[k]) = Len(cs[k])
      BY <1>0, <1>1, <1>3
    <2> QED BY <1>0, <1>3, <2>1, SameStarts
  <1>5. Capacity(chunks) <= Capacity(cs)
    <2>1. m + 1 \in 1 .. Len(cs) + 1 /\ n + 1 \in m + 1 .. Len(cs) + 1 /\ m + 1 \in 1 .. m + 1
      BY <1>0, <1>3
    <2>2. Start(cs, m + 1) <= Start(cs, n + 1)  BY <1>3, <2>1, StartsRise
    <2>3. Capacity(chunks) = Start(chunks, m + 1) /\ Capacity(cs) = Start(cs, n + 1)
      BY <1>0, <1>3, Starts
    <2> QED BY <1>4, <2>1, <2>2, <2>3
  <1>6. ASSUME NEW p \in 1 .. Capacity(chunks)
        PROVE  FlattenSeq(cs)[p] = FlattenSeq(chunks)[p]
    <2>1. PICK k \in 1 .. m : \E i \in 1 .. Len(chunks[k]) : p = Start(chunks, k) + i
      BY <1>0, Bytes
    <2>2. PICK i \in 1 .. Len(chunks[k]) : p = Start(chunks, k) + i
      BY <2>1
    <2>3. FlattenSeq(chunks)[Start(chunks, k) + i] = chunks[k][i]
      BY <1>0, Bytes
    <2>4. k \in 1 .. Len(cs) /\ i \in 1 .. Len(cs[k]) /\ k \in 1 .. m + 1
          /\ cs[k] = chunks[k]
      BY <1>0, <1>1, <1>3
    <2>5. FlattenSeq(cs)[Start(cs, k) + i] = cs[k][i]
      BY <1>3, <2>4, Bytes
    <2>6. Start(chunks, k) = Start(cs, k)
      BY <1>4, <2>4
    <2> QED BY <2>2, <2>3, <2>4, <2>5, <2>6
  <1> QED BY <1>2, <1>3, <1>5, <1>6 DEF cs

LEMMA SameSizes ==
  ASSUME NEW T, NEW cs \in Seq(Seq(T)), NEW ds \in Seq(Seq(T)), SameShape(cs, ds),
         NEW n \in 1 .. MaxChunks, Len(cs) = n,
         \A k \in 1 .. n : Len(cs[k]) = ChunkSize(k)
  PROVE  Len(ds) = n /\ \A k \in 1 .. n : Len(ds[k]) = ChunkSize(k)
  BY DEF SameShape

(* A write leaves a list of the right shape, and none shorter.             *)
LEMMA ReachKeeps ==
  ASSUME Sized, NEW n \in Len(chunks) .. MaxChunks, NEW amt \in Int, NEW ofst \in Int,
         NEW buf, buf = NULL \/ buf \in Seq(Cell), ReachAndStore(n, amt, buf, ofst)
  PROVE  Sized' /\ Capacity(chunks) <= Capacity(chunks')
  <1> DEFINE fill == IF buf = NULL THEN Zero ELSE Uninit
             cs   == Grown(n, fill)
  <1>1. fill \in Cell  BY Fills
  <1> HIDE DEF fill
  <1>2. cs \in Seq(Seq(Cell)) /\ Len(cs) = n
        /\ (\A k \in 1 .. n : Len(cs[k]) = ChunkSize(k))
        /\ Capacity(chunks) <= Capacity(cs)
    BY <1>1, GrownBytes
  <1>3. n \in 1 .. MaxChunks
    BY FileAssumption DEF Sized
  <1>4. chunks' = IF buf = NULL THEN Zeroed(cs, amt, ofst) ELSE Stored(cs, buf, ofst)
    BY DEF ReachAndStore, fill
  <1> HIDE DEF cs
  <1>5. chunks' \in Seq(Seq(Cell)) /\ SameShape(cs, chunks')
    <2>1. CASE buf = NULL
      BY <1>2, <1>4, <2>1, Fills, ZeroedShape
    <2>2. CASE buf # NULL
      <3>1. buf \in Seq(Cell)  BY <2>2
      <3> QED BY <1>2, <1>4, <2>2, <3>1, StoredBytes
    <2> QED BY <2>1, <2>2
  <1>6. Len(chunks') = n /\ \A k \in 1 .. n : Len(chunks'[k]) = ChunkSize(k)
    BY <1>2, <1>3, <1>5, SameSizes
  <1>7. Capacity(chunks') = Capacity(cs)
    BY <1>2, <1>5, Reshaped
  <1> QED BY <1>2, <1>3, <1>5, <1>6, <1>7 DEF Sized

LEMMA WriteKeeps ==
  ASSUME IInv, NEW op, NEW arg, NEW amt \in Int, NEW ofst \in Int,
         NEW buf, buf = NULL \/ buf \in Seq(Cell), DoWrite(op, arg, amt, buf, ofst)
  PROVE  IInv'
  <1>0. Sized /\ nSize \in Int /\ nSize <= LLONG_MAX /\ nSize <= Capacity(chunks)
        /\ LLONG_MAX \in Int
    BY FileAssumption DEF IInv
  <1>c. Capacity(chunks) \in Nat
    BY <1>0, Starts DEF Sized
  <1>1. CASE WriteRefused(op, arg, amt, buf, ofst)
    BY <1>0, <1>1 DEF IInv, Sized, WriteRefused, Called, Codes
  <1>2. CASE WriteNothing(op, arg, amt, buf, ofst)
    BY <1>0, <1>2 DEF IInv, Sized, WriteNothing, Called, Codes
  <1>3. CASE WriteDone(op, arg, amt, buf, ofst)
    <2>1. PICK n \in Len(chunks) .. MaxChunks : ReachAndStore(n, amt, buf, ofst)
      BY <1>3 DEF WriteDone
    <2>2. Sized' /\ Capacity(chunks) <= Capacity(chunks')
      BY <1>0, <2>1, ReachKeeps
    <2>3. Capacity(chunks') \in Nat
      BY <2>2, Starts DEF Sized
    <2>4. nSize' = (IF nSize < ofst + amt THEN ofst + amt ELSE nSize)
          /\ Capacity(chunks') >= ofst + amt /\ ofst <= LLONG_MAX - amt
          /\ ret'.code \in Codes
      BY <1>3 DEF WriteDone, Legal, Called, Codes
    <2>5. nSize' \in Int /\ nSize' <= LLONG_MAX /\ nSize' <= Capacity(chunks')
      BY <1>0, <1>c, <2>2, <2>3, <2>4
    <2> QED BY <2>2, <2>4, <2>5 DEF IInv
  <1>4. CASE WriteNoMem(op, arg, amt, buf, ofst)
    <2>1. PICK n \in Len(chunks) .. MaxChunks : ReachAndStore(n, amt, buf, ofst)
      BY <1>4 DEF WriteNoMem
    <2>2. Sized' /\ Capacity(chunks) <= Capacity(chunks')
      BY <1>0, <2>1, ReachKeeps
    <2>3. Capacity(chunks') \in Nat
      BY <2>2, Starts DEF Sized
    <2>4. nSize' = nSize /\ ret'.code \in Codes
      BY <1>4 DEF WriteNoMem, Called, Codes
    <2>5. nSize' \in Int /\ nSize' <= LLONG_MAX /\ nSize' <= Capacity(chunks')
      BY <1>0, <1>c, <2>2, <2>3, <2>4
    <2> QED BY <2>2, <2>4, <2>5 DEF IInv
  <1> QED BY <1>1, <1>2, <1>3, <1>4 DEF DoWrite

LEMMA ReadKeeps ==
  ASSUME IInv, NEW amt \in Int, NEW ofst \in Int, Read(amt, ofst)
  PROVE  IInv' /\ chunks' = chunks /\ nSize' = nSize
  <1>1. chunks' = chunks /\ nSize' = nSize /\ ret'.code \in Codes
    <2>1. CASE ReadRefused(amt, ofst) \/ ReadNothing(amt, ofst)
      BY <2>1 DEF ReadRefused, ReadNothing, Called, Codes
    <2>2. CASE ReadPastEnd(amt, ofst)
      BY <2>2 DEF ReadPastEnd, Called, Codes
    <2>3. CASE ReadChunks(amt, ofst)
      <3>1. \E buf, code : Called("Read", ofst, amt, buf, code) /\ code \in Codes
        BY <2>3 DEF ReadChunks, Codes
      <3> QED BY <2>3, <3>1 DEF ReadChunks, Called
    <2> QED BY <2>1, <2>2, <2>3 DEF Read
  <1> QED BY <1>1 DEF IInv, Sized

LEMMA ResizeKeeps ==
  ASSUME IInv, NEW size \in Int, ResizeShrink(size) \/ ResizeGrow(size)
  PROVE  IInv'
  <1>1. CASE ResizeShrink(size)
    <2>1. chunks' = chunks /\ nSize' = size /\ size <= nSize /\ ret'.code \in Codes
      BY <1>1 DEF IInv, ResizeShrink, Called, Codes
    <2>2. Capacity(chunks) \in Nat
      BY Starts DEF IInv, Sized
    <2> QED BY <2>1, <2>2, FileAssumption DEF IInv, Sized
  <1>2. CASE ResizeGrow(size)
    <2>1. CASE size > SMALL_SIZE
      <3>1. DoWrite("Truncate", size, 1, NULL, size - 1)  BY <1>2, <2>1 DEF ResizeGrow
      <3> QED BY <3>1, WriteKeeps
    <2>2. CASE ~(size > SMALL_SIZE)
      <3>1. DoWrite("Truncate", size, size, NULL, 0)  BY <1>2, <2>2 DEF ResizeGrow
      <3> QED BY <3>1, WriteKeeps
    <2> QED BY <2>1, <2>2
  <1> QED BY <1>1, <1>2

LEMMA InitIInv == Init => IInv
  <1> SUFFICES ASSUME Init  PROVE IInv
    OBVIOUS
  <1> DEFINE c == [i \in 1 .. CHUNK_BASE |-> Uninit]
  <1>1. CHUNK_BASE \in Nat /\ Uninit \in Cell /\ MaxChunks \in Nat \ {0} /\ LLONG_MAX \in Nat
    BY FileAssumption, Fills
  <1>2. c \in Seq(Cell) /\ Len(c) = CHUNK_BASE
    BY <1>1
  <1>3. chunks = <<c>> /\ nSize = 0 /\ ret.code \in Codes
    BY DEF Init, Codes
  <1> HIDE DEF c
  <1>4. chunks \in Seq(Seq(Cell)) /\ Len(chunks) = 1 /\ chunks[1] = c
    BY <1>2, <1>3
  <1>5. Sized
    BY <1>1, <1>2, <1>4, ChunkSizes DEF Sized
  <1>6. Capacity(chunks) \in Nat
    BY <1>4, Starts
  <1> QED BY <1>1, <1>3, <1>5, <1>6 DEF IInv

LEMMA NextIInv == IInv /\ [Next]_vars => IInv'
  <1> SUFFICES ASSUME IInv, [Next]_vars  PROVE IInv'
    OBVIOUS
  <1>1. ASSUME NEW ofst \in Offsets, NEW buf \in Payloads, Write(buf, ofst)  PROVE IInv'
    <2>1. ofst \in Int /\ buf \in Seq(Cell) /\ Len(buf) \in Int  BY FileAssumption, Fills
    <2> QED BY <1>1, <2>1, WriteKeeps DEF Write
  <1>2. ASSUME NEW ofst \in Offsets, NEW amt \in Amounts, Read(amt, ofst)  PROVE IInv'
    BY <1>2, FileAssumption, ReadKeeps
  <1>3. ASSUME NEW size \in Sizes, ResizeShrink(size) \/ ResizeGrow(size)  PROVE IInv'
    BY <1>3, FileAssumption, ResizeKeeps
  <1>4. CASE FileSize
    BY <1>4 DEF FileSize, IInv, Sized, Called, Codes
  <1>5. CASE UNCHANGED vars
    BY <1>5 DEF vars, IInv, Sized
  <1> QED BY <1>1, <1>2, <1>3, <1>4, <1>5 DEF Next

(* The shape of the list follows from the sizes.                           *)
LEMMA IInvTypeOK == IInv => TypeOK /\ Covered
  <1> SUFFICES ASSUME IInv  PROVE TypeOK
    BY DEF IInv, Covered
  <1>1. chunks \in Seq(Seq(Cell)) /\ Len(chunks) \in 1 .. MaxChunks /\ Len(chunks) \in Nat
        /\ DOMAIN chunks = 1 .. Len(chunks) /\ 1 \in 1 .. Len(chunks)
        /\ \A k \in 1 .. Len(chunks) : Len(chunks[k]) = ChunkSize(k)
    BY FileAssumption DEF IInv, Sized
  <1>2. Len(chunks[1]) = CHUNK_BASE  BY <1>1, ChunkSizes
  <1>3. ASSUME NEW k \in 1 .. Len(chunks) - 1
        PROVE  \/ Len(chunks[k + 1]) = 2 * Len(chunks[k])
               \/ Len(chunks[k]) = LargestChunk /\ Len(chunks[k + 1]) = LargestChunk
    <2>1. k \in 1 .. Len(chunks) /\ k + 1 \in 1 .. Len(chunks) /\ k \in Nat \ {0}
      BY <1>1
    <2>2. Len(chunks[k]) = ChunkSize(k) /\ Len(chunks[k + 1]) = ChunkSize(k + 1)
      BY <1>1, <2>1
    <2> QED BY <2>1, <2>2, ChunkSizes
  <1>4. \A k \in DOMAIN chunks : Len(chunks[k]) <= LargestChunk
    <2> SUFFICES ASSUME NEW k \in 1 .. Len(chunks)
                 PROVE  Len(chunks[k]) <= LargestChunk
      BY <1>1
    <2>1. k \in Nat \ {0}  BY <1>1
    <2> QED BY <1>1, <2>1, ChunkSizes
  <1> QED BY <1>1, <1>2, <1>3, <1>4 DEF IInv, TypeOK

LEMMA SpecIInv == Spec => []IInv
  BY InitIInv, NextIInv, PTL DEF Spec

(* SQLite's pager makes some of the calls anybody can make.                *)
LEMMA PagerIsNext == [PagerNext]_vars => [Next]_vars
  BY DEF PagerNext, Next

LEMMA PagerIInv == PagerSpec => []IInv
  BY InitIInv, NextIInv, PagerIsNext, PTL DEF PagerSpec

(* memfs_io_Write: the list of chunks keeps the sizes its places call for, *)
(* whatever was written, and the size stays a sqlite3_int64.               *)
THEOREM TypeTheorem == Spec => []TypeOK
  BY SpecIInv, IInvTypeOK, PTL

(* Every byte below the file's size is in a chunk (memfs_io_Write's last   *)
(* statement raises the size only when the loop has got all the memory).   *)
THEOREM CoveredTheorem == Spec => []Covered
  BY SpecIInv, IInvTypeOK, PTL

(* The same of a file only SQLite's pager uses.                            *)
THEOREM PagerTheorem == PagerSpec => [](TypeOK /\ Covered)
  BY PagerIInv, IInvTypeOK, PTL
-------------------------------------------------------------------------------
(* The list of chunks implements a file of bytes                           *)

(* SQLite's pager gives a file no negative size.                           *)
PInv == IInv /\ nSize >= 0

LEMMA PagerPInv == PagerSpec => []PInv
  <1>1. Init => PInv
    BY InitIInv DEF Init, PInv
  <1>2. PInv /\ [PagerNext]_vars => PInv'
    <2> SUFFICES ASSUME PInv, [PagerNext]_vars  PROVE PInv'
      OBVIOUS
    <2>1. IInv /\ IInv' /\ nSize \in Nat /\ nSize' \in Int
      BY NextIInv, PagerIsNext DEF PInv, IInv
    <2>2. ASSUME NEW ofst \in Offsets, NEW buf \in Payloads, Write(buf, ofst)
          PROVE  nSize' >= 0
      <3>1. nSize' = nSize \/ (nSize < nSize')
        BY <2>2 DEF Write, DoWrite, WriteRefused, WriteNothing, WriteDone, WriteNoMem
      <3> QED BY <2>1, <3>1
    <2>3. ASSUME NEW ofst \in Offsets, NEW amt \in Amounts, Read(amt, ofst)
          PROVE  nSize' >= 0
      BY <2>1, <2>3, FileAssumption, ReadKeeps
    <2>4. ASSUME NEW size \in Sizes, size >= 0, ResizeShrink(size)  PROVE nSize' >= 0
      BY <2>4 DEF ResizeShrink
    <2>5. CASE FileSize \/ UNCHANGED vars
      <3>1. nSize' = nSize  BY <2>5 DEF FileSize, vars
      <3> QED BY <2>1, <3>1 DEF PInv
    <2> QED BY <2>1, <2>2, <2>3, <2>4, <2>5 DEF PInv, PagerNext
  <1> QED BY <1>1, <1>2, PTL DEF PagerSpec

LEMMA FileBytes ==
  ASSUME PInv
  PROVE  /\ nSize \in Nat /\ nSize <= Capacity(chunks) /\ Capacity(chunks) \in Nat
         /\ \A p \in 1 .. nSize : Byte(p) = FlattenSeq(chunks)[p]
  <1>1. chunks \in Seq(Seq(Cell)) /\ nSize \in Nat /\ nSize <= Capacity(chunks)
    BY DEF PInv, IInv, Sized
  <1>2. FlattenSeq(chunks) \in Seq(Cell) /\ Len(FlattenSeq(chunks)) = Capacity(chunks)
        /\ Capacity(chunks) \in Nat
    BY <1>1, Bytes, Starts
  <1>3. ASSUME NEW p \in 1 .. nSize  PROVE Byte(p) = FlattenSeq(chunks)[p]
    <2>1. DOMAIN FlattenSeq(chunks) = 1 .. Len(FlattenSeq(chunks))  BY <1>2
    <2>2. p \in DOMAIN FlattenSeq(chunks)  BY <1>1, <1>2, <2>1
    <2> QED BY <2>2 DEF Byte
  <1> QED BY <1>1, <1>2, <1>3

LEMMA WrittenBytes ==
  ASSUME Sized, NEW n \in Len(chunks) .. MaxChunks, NEW ofst \in Int,
         NEW buf \in Payloads, ReachAndStore(n, Len(buf), buf, ofst)
  PROVE  /\ \A p \in 1 .. Capacity(chunks') : ofst < p /\ p <= ofst + Len(buf) =>
              FlattenSeq(chunks')[p] = buf[p - ofst]
         /\ \A p \in 1 .. Capacity(chunks) : ~(ofst < p /\ p <= ofst + Len(buf)) =>
              FlattenSeq(chunks')[p] = FlattenSeq(chunks)[p]
  <1> DEFINE cs == Grown(n, Uninit)
  <1>1. buf \in Seq(Cell) /\ buf # NULL /\ Uninit \in Cell
    BY Fills
  <1>2. cs \in Seq(Seq(Cell)) /\ Capacity(chunks) <= Capacity(cs)
        /\ \A p \in 1 .. Capacity(chunks) : FlattenSeq(cs)[p] = FlattenSeq(chunks)[p]
    BY <1>1, GrownBytes
  <1>3. chunks' = Stored(cs, buf, ofst)
    BY <1>1 DEF ReachAndStore
  <1> HIDE DEF cs
  <1>4. /\ chunks' \in Seq(Seq(Cell)) /\ SameShape(cs, chunks')
        /\ \A p \in 1 .. Capacity(cs) :
             FlattenSeq(chunks')[p] = IF ofst < p /\ p <= ofst + Len(buf)
                                      THEN buf[p - ofst] ELSE FlattenSeq(cs)[p]
    BY <1>1, <1>2, <1>3, StoredBytes
  <1>5. Capacity(chunks') = Capacity(cs)
    BY <1>2, <1>4, Reshaped
  <1>6. Capacity(chunks) \in Nat /\ Capacity(cs) \in Nat
    BY <1>2, Starts DEF Sized
  <1>7. \A p \in 1 .. Capacity(chunks) : p \in 1 .. Capacity(cs)
    BY <1>2, <1>6
  <1> QED BY <1>2, <1>4, <1>5, <1>7

(* The bytes below nSize, before and after a step.                         *)
LEMMA NextBytes ==
  ASSUME PInv'
  PROVE  /\ nSize' \in Nat /\ nSize' <= Capacity(chunks') /\ Capacity(chunks') \in Nat
         /\ \A p \in 1 .. nSize' : Byte(p)' = FlattenSeq(chunks')[p]
  <1>1. (PInv => /\ nSize \in Nat /\ nSize <= Capacity(chunks) /\ Capacity(chunks) \in Nat
                 /\ \A p \in 1 .. nSize : Byte(p) = FlattenSeq(chunks)[p])'
    BY FileBytes, PTL
  <1> QED BY <1>1

contents == [p \in 1 .. nSize |-> Byte(p)]

LEMMA Contents ==
  ASSUME nSize \in Nat
  PROVE  Len(contents) = nSize /\ \A p \in 1 .. nSize : contents[p] = Byte(p)
  BY DEF contents

LEMMA NextContents ==
  ASSUME nSize' \in Nat
  PROVE  Len(contents') = nSize' /\ \A p \in 1 .. nSize' : contents'[p] = Byte(p)'
  BY DEF contents

LEMMA Unchanged ==
  ASSUME chunks' = chunks, nSize' = nSize
  PROVE  contents' = contents
  BY DEF contents, Byte

LEMMA WriteMaps ==
  ASSUME PInv, PInv', NEW ofst \in Offsets, NEW buf \in Payloads, Write(buf, ofst)
  PROVE  File!Next
  <1>0. ofst \in Int /\ Len(buf) \in Nat
    BY FileAssumption, Fills
  <1>1. /\ nSize \in Nat /\ nSize <= Capacity(chunks) /\ Capacity(chunks) \in Nat
        /\ \A p \in 1 .. nSize : Byte(p) = FlattenSeq(chunks)[p]
    BY FileBytes
  <1>2. /\ nSize' \in Nat /\ nSize' <= Capacity(chunks') /\ Capacity(chunks') \in Nat
        /\ \A p \in 1 .. nSize' : Byte(p)' = FlattenSeq(chunks')[p]
    BY NextBytes
  <1>3. /\ Len(contents) = nSize /\ \A p \in 1 .. nSize : contents[p] = Byte(p)
        /\ Len(contents') = nSize' /\ \A p \in 1 .. nSize' : contents'[p] = Byte(p)'
    BY <1>1, <1>2, Contents, NextContents
  <1>4. ASSUME NEW n \in Len(chunks) .. MaxChunks, ReachAndStore(n, Len(buf), buf, ofst),
               nSize <= nSize'
        PROVE  \A p \in 1 .. nSize' :
                 /\ ofst < p /\ p <= ofst + Len(buf) => contents'[p] = buf[p - ofst]
                 /\ ~(ofst < p /\ p <= ofst + Len(buf)) /\ p <= nSize =>
                      contents'[p] = contents[p]
    <2> SUFFICES ASSUME NEW p \in 1 .. nSize'
                 PROVE  /\ ofst < p /\ p <= ofst + Len(buf) => contents'[p] = buf[p - ofst]
                        /\ ~(ofst < p /\ p <= ofst + Len(buf)) /\ p <= nSize =>
                             contents'[p] = contents[p]
      OBVIOUS
    <2>1. /\ \A q \in 1 .. Capacity(chunks') : ofst < q /\ q <= ofst + Len(buf) =>
               FlattenSeq(chunks')[q] = buf[q - ofst]
          /\ \A q \in 1 .. Capacity(chunks) : ~(ofst < q /\ q <= ofst + Len(buf)) =>
               FlattenSeq(chunks')[q] = FlattenSeq(chunks)[q]
      BY <1>0, <1>4, WrittenBytes DEF PInv, IInv
    <2>2. p \in 1 .. Capacity(chunks') /\ contents'[p] = FlattenSeq(chunks')[p]
      BY <1>2, <1>3
    <2>3. p <= nSize => p \in 1 .. nSize /\ p \in 1 .. Capacity(chunks)
      BY <1>1
    <2>4. p <= nSize => contents[p] = FlattenSeq(chunks)[p]
      BY <1>1, <1>3, <2>3
    <2> QED BY <2>1, <2>2, <2>3, <2>4
  <1>5. CASE WriteRefused("Write", ofst, Len(buf), buf, ofst)
    <2>1. ret'.op = "Write" /\ ret'.code = "IOERR" /\ contents' = contents
      BY <1>5, Unchanged DEF WriteRefused, Called
    <2> QED BY <2>1 DEF File!Next, File!Refused, contents
  <1>6. CASE WriteNothing("Write", ofst, Len(buf), buf, ofst)
    <2>1. ret'.op = "Write" /\ ret'.code = "OK" /\ ret'.amt <= 0 /\ contents' = contents
      BY <1>6, Unchanged DEF WriteNothing, Called
    <2> QED BY <2>1 DEF File!Next, File!Nothing, contents
  <1>7. CASE WriteDone("Write", ofst, Len(buf), buf, ofst)
    <2>1. PICK n \in Len(chunks) .. MaxChunks : ReachAndStore(n, Len(buf), buf, ofst)
      BY <1>7 DEF WriteDone
    <2>2. /\ ret'.op = "Write" /\ ret'.code = "OK" /\ ret'.amt = Len(buf)
          /\ ret'.ofst = ofst /\ ret'.buf = buf /\ Len(buf) > 0
          /\ nSize' = IF nSize < ofst + Len(buf) THEN ofst + Len(buf) ELSE nSize
      BY <1>7 DEF WriteDone, Legal, Called
    <2>3. nSize <= nSize'
      BY <1>0, <1>1, <2>2
    <2>4. \A p \in 1 .. nSize' :
            /\ ofst < p /\ p <= ofst + Len(buf) => contents'[p] = buf[p - ofst]
            /\ ~(ofst < p /\ p <= ofst + Len(buf)) /\ p <= nSize =>
                 contents'[p] = contents[p]
      BY <1>4, <2>1, <2>3
    <2>5. File!Write
      <3> HIDE DEF contents
      <3>1. \A p \in 1 .. Len(contents') :
              IF ret'.ofst < p /\ p <= ret'.ofst + ret'.amt
              THEN contents'[p] = ret'.buf[p - ret'.ofst]
              ELSE p <= Len(contents) => contents'[p] = contents[p]
        BY <1>3, <2>2, <2>4
      <3>2. Len(contents') = IF Len(contents) < ret'.ofst + ret'.amt
                             THEN ret'.ofst + ret'.amt ELSE Len(contents)
        BY <1>3, <2>2
      <3>3. ret'.op = "Write" /\ ret'.code = "OK" /\ ret'.amt > 0
        BY <2>2
      <3> QED BY <3>1, <3>2, <3>3
              DEF File!Write, File!Size, File!InRange, File!Kept, contents
    <2> QED BY <2>5 DEF File!Next
  <1>8. CASE WriteNoMem("Write", ofst, Len(buf), buf, ofst)
    <2>1. PICK n \in Len(chunks) .. MaxChunks : ReachAndStore(n, Len(buf), buf, ofst)
      BY <1>8 DEF WriteNoMem
    <2>2. /\ ret'.op = "Write" /\ ret'.code = "NOMEM" /\ ret'.amt = Len(buf)
          /\ ret'.ofst = ofst /\ ret'.buf = buf /\ Len(buf) > 0 /\ ofst >= 0
          /\ nSize' = nSize /\ Capacity(chunks') < ofst + Len(buf)
      BY <1>8 DEF WriteNoMem, Legal, Called
    <2>3. nSize <= nSize'
      BY <1>1, <2>2
    <2>4. \A p \in 1 .. nSize' :
            /\ ofst < p /\ p <= ofst + Len(buf) => contents'[p] = buf[p - ofst]
            /\ ~(ofst < p /\ p <= ofst + Len(buf)) /\ p <= nSize =>
                 contents'[p] = contents[p]
      BY <1>4, <2>1, <2>3
    <2> DEFINE done == IF Capacity(chunks') > ofst THEN Capacity(chunks') - ofst ELSE 0
    <2>5. done \in 0 .. Len(buf) - 1
          /\ \A p \in 1 .. nSize : ofst < p => p <= ofst + done
      BY <1>0, <1>1, <1>2, <2>2
    <2> HIDE DEF done
    <2>6. File!WriteFailed
      <3>1. \A p \in 1 .. Len(contents) :
              IF (ret'.ofst < p /\ p <= ret'.ofst + ret'.amt) /\ p <= ret'.ofst + done
              THEN contents'[p] = ret'.buf[p - ret'.ofst]
              ELSE p <= Len(contents) => contents'[p] = contents[p]
        <4> SUFFICES ASSUME NEW p \in 1 .. nSize
                     PROVE  IF (ofst < p /\ p <= ofst + Len(buf)) /\ p <= ofst + done
                            THEN contents'[p] = buf[p - ofst]
                            ELSE contents'[p] = contents[p]
          BY <1>3, <2>2
        <4>1. p \in 1 .. nSize' /\ p <= nSize  BY <1>1, <2>2
        <4> QED BY <2>4, <2>5, <4>1
      <3>2. Len(contents') = Len(contents) /\ done \in 0 .. ret'.amt - 1
        BY <1>3, <2>2, <2>5
      <3>3. ret'.op = "Write" /\ ret'.code = "NOMEM"
        BY <2>2
      <3> QED BY <3>1, <3>2, <3>3
              DEF File!WriteFailed, File!Size, File!InRange, File!Kept, contents
    <2> QED BY <2>6 DEF File!Next
  <1> QED BY <1>5, <1>6, <1>7, <1>8 DEF Write, DoWrite

LEMMA ReadMaps ==
  ASSUME PInv, NEW ofst \in Offsets, NEW amt \in Amounts, Read(amt, ofst)
  PROVE  File!Next
  <1>0. ofst \in Int /\ amt \in Int
    BY FileAssumption
  <1>1. /\ nSize \in Nat /\ nSize <= Capacity(chunks) /\ Capacity(chunks) \in Nat
        /\ \A p \in 1 .. nSize : Byte(p) = FlattenSeq(chunks)[p]
    BY FileBytes
  <1>2. Len(contents) = nSize /\ \A p \in 1 .. nSize : contents[p] = Byte(p)
    BY <1>1, Contents
  <1>3. contents' = contents
    BY <1>0, ReadKeeps, Unchanged DEF PInv
  <1>4. CASE ReadRefused(amt, ofst)
    <2>1. ret'.op = "Read" /\ ret'.code = "IOERR"
      BY <1>4 DEF ReadRefused, Called
    <2> QED BY <1>3, <2>1 DEF File!Next, File!Refused, contents
  <1>5. CASE ReadNothing(amt, ofst)
    <2>1. ret'.op = "Read" /\ ret'.code = "OK" /\ ret'.amt <= 0
      BY <1>5 DEF ReadNothing, Called
    <2> QED BY <1>3, <2>1 DEF File!Next, File!Nothing, contents
  <1>6. CASE ReadPastEnd(amt, ofst)
    <2>1. /\ ret'.op = "Read" /\ ret'.amt = amt /\ ret'.ofst = ofst /\ amt > 0
          /\ ret'.code = "SHORT_READ" /\ ret'.buf = Zeros(amt) /\ nSize - ofst <= 0
      BY <1>6 DEF ReadPastEnd, Called
    <2>2. \A i \in 1 .. amt : ret'.buf[i] = Zero
      BY <2>1 DEF Zeros
    <2>3. /\ ~(ret'.ofst + ret'.amt <= Len(contents))
          /\ \A i \in 1 .. ret'.amt : ~(ret'.ofst + i <= Len(contents))
      BY <1>0, <1>1, <1>2, <2>1
    <2>4. File!Read
      BY <1>3, <2>1, <2>2, <2>3 DEF File!Read, File!Size, contents
    <2> QED BY <2>4 DEF File!Next
  <1>7. CASE ReadChunks(amt, ofst)
    <2> DEFINE bytes == FlattenSeq(chunks)
               end   == IF ofst + amt <= Len(bytes) THEN ofst + amt ELSE Len(bytes)
               done  == SubSeq(bytes, ofst + 1, end)
               z     == Zeros(amt - Len(done))
    <2>1. /\ ret'.op = "Read" /\ ret'.amt = amt /\ ret'.ofst = ofst /\ amt > 0
          /\ ofst >= 0 /\ nSize - ofst > 0 /\ ret'.buf = done \o z
          /\ ret'.code = IF Len(done) = amt THEN "OK" ELSE "SHORT_READ"
      BY <1>7 DEF ReadChunks, Called
    <2>2. bytes \in Seq(Cell) /\ Len(bytes) = Capacity(chunks)
      BY Bytes DEF PInv, IInv, Sized
    <2> HIDE DEF bytes
    <2>3. end \in Int /\ ofst + 1 \in Int /\ ofst + 1 <= end /\ end <= Len(bytes)
          /\ end <= ofst + amt
          /\ \A i \in ofst + 1 .. end : i \in 1 .. Len(bytes) /\ bytes[i] \in Cell
      BY <1>0, <1>1, <2>1, <2>2
    <2> HIDE DEF end
    <2>4. /\ done \in Seq(Cell) /\ Len(done) = end - ofst
          /\ \A i \in 1 .. end - ofst : done[i] = bytes[ofst + i]
      <3>1. /\ done \in Seq(Cell)
            /\ Len(done) = IF ofst + 1 <= end THEN end - (ofst + 1) + 1 ELSE 0
            /\ \A i \in 1 .. end - (ofst + 1) + 1 : done[i] = bytes[(ofst + 1) + i - 1]
        BY <2>3, SubSeqProperties
      <3>2. end - (ofst + 1) + 1 = end - ofst /\ \A i \in Int : (ofst + 1) + i - 1 = ofst + i
        BY <1>0, <2>3
      <3> HIDE DEF done
      <3>3. ASSUME NEW i \in 1 .. end - ofst  PROVE done[i] = bytes[ofst + i]
        <4>1. i \in Int /\ i \in 1 .. end - (ofst + 1) + 1  BY <3>2
        <4>2. (ofst + 1) + i - 1 = ofst + i  BY <3>2, <4>1
        <4> QED BY <3>1, <4>1, <4>2
      <3> QED BY <2>3, <3>1, <3>2, <3>3
    <2>5. z \in Seq(Cell)
      <3>1. Zero \in Cell /\ amt - Len(done) \in Nat
        BY <1>0, <2>3, <2>4, Fills
      <3> DEFINE m == amt - Len(done)
      <3> HIDE DEF m
      <3>2. m \in Nat => [i \in 1 .. m |-> Zero] \in Seq(Cell)
        BY <3>1
      <3> QED BY <3>1, <3>2 DEF m, Zeros
    <2> HIDE DEF done, z
    <2>6. \A i \in 1 .. Len(done) : ret'.buf[i] = done[i]
      <3>1. \A i \in 1 .. Len(done) + Len(z) :
              (done \o z)[i] = IF i <= Len(done) THEN done[i] ELSE z[i - Len(done)]
        BY <2>4, <2>5, ConcatProperties
      <3>2. Len(z) \in Nat /\ Len(done) \in Nat  BY <2>4, <2>5
      <3>3. \A i \in 1 .. Len(done) : i \in 1 .. Len(done) + Len(z) /\ i <= Len(done)
        BY <3>2
      <3> QED BY <2>1, <3>1, <3>3
    <2>7. ofst + amt <= nSize => Len(done) = amt
      BY <1>0, <1>1, <2>2, <2>4 DEF end
    <2>8. ASSUME NEW i \in 1 .. amt, ofst + i <= nSize
          PROVE  ret'.buf[i] = contents[ofst + i]
      <3>1. i \in 1 .. Len(done) /\ i \in 1 .. end - ofst /\ ofst + i \in 1 .. nSize
        BY <1>0, <1>1, <2>1, <2>2, <2>4, <2>8 DEF end
      <3>2. ret'.buf[i] = bytes[ofst + i]  BY <2>4, <2>6, <3>1
      <3>3. contents[ofst + i] = bytes[ofst + i]  BY <1>1, <1>2, <3>1 DEF bytes
      <3> QED BY <3>2, <3>3
    <2>9. File!Read
      <3>1. ret'.op = "Read" /\ ret'.amt > 0 /\ ret'.code \in {"OK", "SHORT_READ"}
        BY <2>1
      <3>2. ret'.ofst + ret'.amt <= Len(contents) => ret'.code = "OK"
        BY <1>2, <2>1, <2>7
      <3>3. \A i \in 1 .. ret'.amt : ret'.ofst + i <= Len(contents) =>
              ret'.buf[i] = contents[ret'.ofst + i]
        BY <1>2, <2>1, <2>8
      <3>4. ~(ret'.ofst >= Len(contents))
        BY <1>0, <1>1, <1>2, <2>1
      <3> QED BY <1>3, <3>1, <3>2, <3>3, <3>4 DEF File!Read, File!Size, contents
    <2> QED BY <2>9 DEF File!Next
  <1> QED BY <1>4, <1>5, <1>6, <1>7 DEF Read

LEMMA ShrinkMaps ==
  ASSUME PInv, NEW size \in Sizes, size >= 0, ResizeShrink(size)
  PROVE  File!Next
  <1>1. nSize \in Nat /\ size \in Nat /\ nSize >= size
    BY FileAssumption, FileBytes DEF ResizeShrink
  <1>2. nSize' = size /\ chunks' = chunks /\ ret'.op = "Truncate" /\ ret'.code = "OK"
        /\ ret'.ofst = size
    BY DEF ResizeShrink, Called
  <1>3. Len(contents) = nSize /\ \A p \in 1 .. nSize : contents[p] = Byte(p)
    BY <1>1, Contents
  <1> DEFINE T == {Byte(p) : p \in 1 .. nSize}
  <1>4. contents' = [p \in 1 .. size |-> Byte(p)]
    BY <1>2 DEF contents, Byte
  <1>5. contents' \in Seq(T) /\ Len(contents') = size
        /\ \A p \in 1 .. size : contents'[p] = contents[p]
    <2>1. \A p \in 1 .. size : p \in 1 .. nSize /\ Byte(p) \in T  BY <1>1
    <2>2. contents' \in Seq(T)  BY <1>1, <1>4, <2>1, IsASeq
    <2>3. Len(contents') = size  BY <1>1, <1>4, <2>2
    <2> QED BY <1>3, <1>4, <2>1, <2>2, <2>3
  <1>6. /\ SubSeq(contents, 1, size) \in Seq(T) /\ Len(SubSeq(contents, 1, size)) = size
        /\ \A p \in 1 .. size : SubSeq(contents, 1, size)[p] = contents[p]
    <2>1. contents \in Seq(T)
      <3>1. \A p \in 1 .. nSize : Byte(p) \in T  OBVIOUS
      <3> HIDE DEF T
      <3> QED BY <1>1, <3>1, IsASeq DEF contents
    <2>2. size \in 0 .. Len(contents)  BY <1>1, <1>3
    <2> HIDE DEF T
    <2> QED BY <2>1, <2>2, Prefix
  <1> HIDE DEF T
  <1>7. contents' = SubSeq(contents, 1, size)
    BY <1>5, <1>6, SeqEqual
  <1>8. File!Truncate
    BY <1>1, <1>2, <1>3, <1>7 DEF File!Truncate, File!Size, contents
  <1> QED BY <1>8 DEF File!Next

LEMMA SizeMaps ==
  ASSUME PInv, FileSize
  PROVE  File!Next
  <1>1. ret'.op = "FileSize" /\ ret'.code = "OK" /\ ret'.amt = nSize
        /\ chunks' = chunks /\ nSize' = nSize
    BY DEF FileSize, Called
  <1>2. Len(contents) = nSize /\ contents' = contents
    BY <1>1, FileBytes, Contents, Unchanged
  <1>3. File!FileSize
    BY <1>1, <1>2 DEF File!FileSize, File!Size, contents
  <1> QED BY <1>3 DEF File!Next

(* ByteFile: driven as SQLite's pager drives it, the list of chunks is a   *)
(* file.  A read returns the bytes last written, a write that runs out of  *)
(* memory leaves a first part of its bytes and the size alone, and a       *)
(* truncation keeps what is below.                                         *)
THEOREM FileTheorem == PagerSpec => FileSpec
  <1>1. Init => File!Init
    BY DEF Init, File!Init
  <1>2. PInv /\ PInv' /\ [PagerNext]_vars => [File!Next]_<<contents, ret>>
    <2> SUFFICES ASSUME PInv, PInv', [PagerNext]_vars
                 PROVE  File!Next \/ UNCHANGED <<contents, ret>>
      OBVIOUS
    <2>1. CASE UNCHANGED vars
      BY <2>1, Unchanged DEF vars
    <2> QED BY <2>1, WriteMaps, ReadMaps, ShrinkMaps, SizeMaps DEF PagerNext
  <1>3. PInv /\ PInv' /\ [PagerNext]_vars
          => [File!Next]_<<[p \in 1 .. nSize |-> Byte(p)], ret>>
    BY <1>2 DEF contents
  <1> QED BY <1>1, <1>3, PagerPInv, PTL DEF PagerSpec, FileSpec, File!Spec

LEMMA ResizeSays ==
  ASSUME nSize \in Int, NEW size \in Int, ResizeShrink(size) \/ ResizeGrow(size)
  PROVE  /\ ret'.code = "OK" /\ nSize >= 0 => nSize' = ret'.ofst
         /\ ret'.code # "OK" => nSize' = nSize
  <1>0. SMALL_SIZE \in Nat
    BY FileAssumption
  <1>1. CASE ResizeShrink(size)
    BY <1>1 DEF ResizeShrink, Called
  <1>2. CASE ResizeGrow(size) /\ size > SMALL_SIZE
    <2>1. DoWrite("Truncate", size, 1, NULL, size - 1) /\ nSize < size
      BY <1>2 DEF ResizeGrow
    <2>2. ~(size - 1 < 0) /\ (size - 1) + 1 = size
      BY <1>0, <1>2
    <2> QED BY <2>1, <2>2
            DEF DoWrite, WriteRefused, WriteNothing, WriteDone, WriteNoMem, Called
  <1>3. CASE ResizeGrow(size) /\ ~(size > SMALL_SIZE)
    <2>1. DoWrite("Truncate", size, size, NULL, 0) /\ nSize < size
      BY <1>3 DEF ResizeGrow
    <2>2. nSize >= 0 => size > 0
      BY <2>1
    <2> QED BY <2>1, <2>2
            DEF DoWrite, WriteRefused, WriteNothing, WriteDone, WriteNoMem, Called
  <1> QED BY <1>1, <1>2, <1>3

(* memfs_io_Resize: what a resize returns tells what it did to the size.   *)
THEOREM ResizeTheorem == Spec => ResizeExact
  <1>1. IInv /\ [Next]_vars =>
          [ret'.op = "Truncate" =>
             /\ ret'.code = "OK" /\ nSize >= 0 => nSize' = ret'.ofst
             /\ ret'.code # "OK" => nSize' = nSize]_vars
    <2> SUFFICES ASSUME IInv, Next, ret'.op = "Truncate"
                 PROVE  /\ ret'.code = "OK" /\ nSize >= 0 => nSize' = ret'.ofst
                        /\ ret'.code # "OK" => nSize' = nSize
      OBVIOUS
    <2>1. ASSUME NEW ofst \in Offsets, NEW buf \in Payloads, Write(buf, ofst)  PROVE FALSE
      BY <2>1 DEF Write, DoWrite, WriteRefused, WriteNothing, WriteDone, WriteNoMem, Called
    <2>2. ASSUME NEW ofst \in Offsets, NEW amt \in Amounts, Read(amt, ofst)  PROVE FALSE
      BY <2>2 DEF Read, ReadRefused, ReadNothing, ReadPastEnd, ReadChunks, Called
    <2>3. CASE \E size \in Sizes : ResizeShrink(size) \/ ResizeGrow(size)
      BY <2>3, FileAssumption, ResizeSays DEF IInv
    <2>4. CASE FileSize
      BY <2>4 DEF FileSize, Called
    <2> QED BY <2>1, <2>2, <2>3, <2>4 DEF Next
  <1> QED BY <1>1, SpecIInv, PTL DEF Spec, ResizeExact

===============================================================================

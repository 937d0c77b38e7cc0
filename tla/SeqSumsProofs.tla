---------------------------- MODULE SeqSumsProofs ----------------------------
(* What SumTo, Total and KeepOnly compute, for every sequence.  The library's
   induction theorems take an operator as a parameter; these lemmas rest on two
   of their own that take a set: a set of naturals that holds 0 and the successor
   of each of its members is Nat, and a set of sequences that holds <<>> and each
   of its members with one more element is Seq(T).                             *)
EXTENDS SeqSums, SequenceTheorems, WellFoundedInduction, TLAPS

\* Less-than on the naturals, as a relation.
Below == {p \in Nat \X Nat : p[1] < p[2]}

\* It is well founded, so a set of naturals has a least element.
LEMMA BelowWellFounded == IsWellFoundedOn(Below, Nat)
<1>1. OpToRel(<, Nat) = Below
  BY Zenon DEF OpToRel, Below
<1>2. QED
  BY <1>1, NatLessThanWellFounded

\* A sequence whose elements are all in S is one over S.
LEMMA SeqOver ==
    ASSUME NEW T, NEW S, NEW s \in Seq(T), \A i \in 1..Len(s) : s[i] \in S
    PROVE  s \in Seq(S)
<1>1. Len(s) \in Nat /\ s \in [1..Len(s) -> S]
  BY LenProperties
<1>2. s \in UNION {[1..n -> S] : n \in Nat}
  BY <1>1
<1> QED
  BY <1>2, SeqDef

\* Induction over the naturals, for a set of them.
LEMMA NatSetInduction ==
    ASSUME NEW S \in SUBSET Nat, 0 \in S, \A n \in S : n + 1 \in S
    PROVE  S = Nat
<1> SUFFICES ASSUME Nat \ S # {} PROVE FALSE
  OBVIOUS
<1>1. Nat \ S \subseteq Nat
  OBVIOUS
<1>2. PICK x \in Nat \ S : \A y \in Nat \ S : <<y, x>> \notin Below
  BY <1>1, BelowWellFounded, WFMin
<1>3. x # 0 /\ x - 1 \in Nat
  BY <1>2
<1>4. <<x - 1, x>> \in Below
  BY <1>3 DEF Below
<1>5. x - 1 \in S
  BY <1>2, <1>3, <1>4
<1>6. QED
  BY <1>2, <1>3, <1>5

\* Induction over the sequences on a set, for a set of them.
LEMMA SeqSetInduction ==
    ASSUME NEW T, NEW U \in SUBSET Seq(T), <<>> \in U,
           \A s \in U, e \in T : Append(s, e) \in U
    PROVE  U = Seq(T)
<1> DEFINE N == {n \in Nat : \A s \in Seq(T) : Len(s) = n => s \in U}
<1>1. 0 \in N
  BY EmptySeq
<1>2. ASSUME NEW n \in N PROVE n + 1 \in N
  <2> SUFFICES ASSUME NEW s \in Seq(T), Len(s) = n + 1 PROVE s \in U
    OBVIOUS
  <2>1. s # <<>>
    BY EmptySeq
  <2>2. PICK t \in Seq(T), e \in T : s = Append(t, e)
    BY <2>1, SequenceEmptyOrAppend
  <2>3. Len(t) = n
    BY <2>2, AppendProperties, LenProperties
  <2>4. QED
    BY <2>2, <2>3
<1>3. N = Nat
  <2> HIDE DEF N
  <2>1. N \in SUBSET Nat
    BY DEF N
  <2>2. QED
    BY <1>1, <1>2, <2>1, NatSetInduction
<1>4. QED
  BY <1>3, LenProperties

\* f is what the recursion from b by H computes, up to N.
Recurses(f, N, b, H) == f[0] = b /\ \A n \in 1..N : f[n] = H[<<n, f[n - 1]>>]

\* A step function on the values makes a function on the numbers up to any one.
LEMMA Recursion ==
    ASSUME NEW V, NEW b \in V, NEW H \in [Nat \X V -> V]
    PROVE  \A N \in Nat : \E f \in [0..N -> V] : Recurses(f, N, b, H)
<1> USE DEF Recurses
<1> DEFINE Good(f, N) == Recurses(f, N, b, H)
           S == {N \in Nat : \E f \in [0..N -> V] : Good(f, N)}
<1>1. 0 \in S
  <2>1. [n \in 0..0 |-> b] \in [0..0 -> V] /\ Good([n \in 0..0 |-> b], 0)
    OBVIOUS
  <2>2. QED
    BY <2>1
<1>2. ASSUME NEW N \in S PROVE N + 1 \in S
  <2>1. PICK f \in [0..N -> V] : Good(f, N)
    OBVIOUS
  <2> DEFINE g == [n \in 0..N + 1 |-> IF n = N + 1 THEN H[<<N + 1, f[N]>>] ELSE f[n]]
  <2>2. f[N] \in V /\ <<N + 1, f[N]>> \in Nat \X V
    OBVIOUS
  <2>3. g \in [0..N + 1 -> V]
    BY <2>2
  <2>4. g[0] = b
    BY <2>1
  <2>5. ASSUME NEW n \in 1..N + 1 PROVE g[n] = H[<<n, g[n - 1]>>]
    <3>1. CASE n = N + 1
      <4>1. n - 1 = N /\ n - 1 # N + 1 /\ n - 1 \in 0..N + 1
        BY <3>1
      <4>2. g[n - 1] = f[N] /\ g[n] = H[<<N + 1, f[N]>>]
        BY <3>1, <4>1
      <4>3. QED
        BY <3>1, <4>2
    <3>2. CASE n # N + 1
      <4>1. n \in 1..N /\ n - 1 \in 0..N /\ n \in 0..N
        BY <3>2
      <4>2. g[n] = f[n] /\ g[n - 1] = f[n - 1]
        BY <4>1
      <4>3. QED
        BY <2>1, <4>1, <4>2
    <3>3. QED
      BY <3>1, <3>2
  <2> HIDE DEF g
  <2>6. Good(g, N + 1)
    BY <2>4, <2>5
  <2>7. N + 1 \in Nat
    OBVIOUS
  <2> HIDE DEF Good
  <2>8. QED
    BY <2>3, <2>6, <2>7
<1>3. S = Nat
  <2> HIDE DEF S
  <2>1. S \in SUBSET Nat
    BY DEF S
  <2>2. QED
    BY <1>1, <1>2, <2>1, NatSetInduction
<1>4. QED
  BY <1>3

-----------------------------------------------------------------------------
(* What a sequence of numbers adds up to. *)

\* The recursion is met by the function that is chosen for it.
LEMMA SumToRecursion ==
    ASSUME NEW s \in Seq(Nat)
    PROVE  /\ SumTo(s) \in [0..Len(s) -> Nat]
           /\ SumTo(s)[0] = 0
           /\ \A n \in 1..Len(s) : SumTo(s)[n] = SumTo(s)[n - 1] + s[n]
<1> DEFINE H == [p \in Nat \X Nat |-> IF p[1] \in 1..Len(s) THEN p[2] + s[p[1]] ELSE 0]
           Rec(f) == f = [n \in 0..Len(s) |-> IF n = 0 THEN 0 ELSE f[n - 1] + s[n]]
<1>1. Len(s) \in Nat /\ \A n \in 1..Len(s) : s[n] \in Nat
  BY LenProperties, ElementOfSeq
<1>2. H \in [Nat \X Nat -> Nat]
  BY <1>1
<1>3. PICK f \in [0..Len(s) -> Nat] :
          f[0] = 0 /\ \A n \in 1..Len(s) : f[n] = H[<<n, f[n - 1]>>]
  <2> HIDE DEF H
  <2>1. 0 \in Nat
    OBVIOUS
  <2>2. \A N \in Nat : \E f \in [0..N -> Nat] : Recurses(f, N, 0, H)
    BY <1>2, <2>1, Recursion
  <2>3. QED
    BY <1>1, <2>2 DEF Recurses
<1>4. \A n \in 1..Len(s) : f[n] = f[n - 1] + s[n]
  <2> TAKE n \in 1..Len(s)
  <2>1. n - 1 \in 0..Len(s) /\ n \in Nat
    BY <1>1
  <2>2. <<n, f[n - 1]>> \in Nat \X Nat
    BY <2>1
  <2>3. QED
    BY <1>3, <2>2
<1>5. Rec(f)
  BY <1>1, <1>3, <1>4
<1>6. Rec(SumTo(s))
  <2>1. SumTo(s) = CHOOSE g : Rec(g)
    BY DEF SumTo
  <2> HIDE DEF Rec
  <2>2. QED
    BY <1>5, <2>1
<1>7. SumTo(s)[0] = 0 /\ DOMAIN SumTo(s) = 0..Len(s)
  BY <1>1, <1>6
<1>8. \A n \in 1..Len(s) : SumTo(s)[n] = SumTo(s)[n - 1] + s[n]
  BY <1>1, <1>6
<1> DEFINE N == {n \in Nat : n <= Len(s) => SumTo(s)[n] \in Nat}
<1>9. N = Nat
  <2>1. 0 \in N
    BY <1>7
  <2>2. ASSUME NEW n \in N PROVE n + 1 \in N
    <3>1. CASE n + 1 <= Len(s)
      <4>1. n \in Nat /\ n + 1 \in 1..Len(s) /\ SumTo(s)[n] \in Nat /\ s[n + 1] \in Nat
        BY <1>1, <3>1
      <4>2. SumTo(s)[n + 1] = SumTo(s)[n] + s[n + 1]
        BY <1>8, <4>1
      <4> QED
        BY <4>1, <4>2
    <3>2. CASE ~(n + 1 <= Len(s))
      BY <3>2
    <3> QED
      BY <3>1, <3>2
  <2> HIDE DEF N
  <2>3. N \in SUBSET Nat
    BY DEF N
  <2>4. QED
    BY <2>1, <2>2, <2>3, NatSetInduction
<1>10. \A n \in 0..Len(s) : SumTo(s)[n] \in Nat
  BY <1>1, <1>9
<1>11. SumTo(s) \in [0..Len(s) -> Nat]
  BY <1>6, <1>10
<1>12. QED
  BY <1>7, <1>8, <1>11

\* Naturals add up to a natural.
LEMMA TotalNat ==
    ASSUME NEW s \in Seq(Nat)
    PROVE  Total(s) \in Nat
BY SumToRecursion, LenProperties DEF Total

\* Nothing adds up to 0.
LEMMA TotalEmpty == Total(<<>>) = 0
<1>1. <<>> \in Seq(Nat) /\ Len(<<>>) = 0
  BY EmptySeq
<1>2. QED
  BY <1>1, SumToRecursion DEF Total

\* Sequences that agree so far add up to the same so far.
LEMMA SumToAgrees ==
    ASSUME NEW s \in Seq(Nat), NEW t \in Seq(Nat), NEW m \in Nat,
           m <= Len(s), m <= Len(t), \A i \in 1..m : s[i] = t[i]
    PROVE  SumTo(s)[m] = SumTo(t)[m]
<1> DEFINE N == {n \in Nat : n <= m => SumTo(s)[n] = SumTo(t)[n]}
<1>1. Len(s) \in Nat /\ Len(t) \in Nat
  BY LenProperties
<1>2. 0 \in N
  BY SumToRecursion
<1>3. ASSUME NEW n \in N PROVE n + 1 \in N
  <2> SUFFICES ASSUME n + 1 <= m PROVE SumTo(s)[n + 1] = SumTo(t)[n + 1]
    OBVIOUS
  <2>1. /\ SumTo(s)[n + 1] = SumTo(s)[(n + 1) - 1] + s[n + 1]
        /\ SumTo(t)[n + 1] = SumTo(t)[(n + 1) - 1] + t[n + 1]
    BY <1>1, SumToRecursion
  <2>2. (n + 1) - 1 = n /\ s[n + 1] = t[n + 1] /\ n <= m
    BY <1>1
  <2>3. QED
    BY <2>1, <2>2
<1>4. N = Nat
  <2> HIDE DEF N
  <2>1. N \in SUBSET Nat
    BY DEF N
  <2>2. QED
    BY <1>2, <1>3, <2>1, NatSetInduction
<1>5. QED
  BY <1>4

\* One more element adds its own value.
LEMMA TotalAppend ==
    ASSUME NEW s \in Seq(Nat), NEW e \in Nat
    PROVE  Total(Append(s, e)) = Total(s) + e
<1> DEFINE t == Append(s, e)
<1>1. /\ t \in Seq(Nat) /\ Len(t) = Len(s) + 1 /\ Len(s) \in Nat
      /\ t[Len(s) + 1] = e /\ \A i \in 1..Len(s) : t[i] = s[i]
  BY AppendProperties, LenProperties
<1> HIDE DEF t
<1>2. SumTo(t)[Len(s)] = SumTo(s)[Len(s)]
  <2>1. Len(s) <= Len(s) /\ Len(s) <= Len(t)
    BY <1>1
  <2>2. QED
    BY <1>1, <2>1, SumToAgrees
<1>3. SumTo(t)[Len(s) + 1] = SumTo(t)[(Len(s) + 1) - 1] + t[Len(s) + 1]
  BY <1>1, SumToRecursion
<1>4. (Len(s) + 1) - 1 = Len(s)
  BY <1>1
<1>5. Total(t) = Total(s) + e
  BY <1>1, <1>2, <1>3, <1>4 DEF Total
<1>6. QED
  BY <1>5 DEF t

\* Nothing but zeros adds up to nothing.
LEMMA TotalZero ==
    ASSUME NEW s \in Seq(Nat), \A i \in 1..Len(s) : s[i] = 0
    PROVE  Total(s) = 0
<1> DEFINE S == {n \in Nat : n <= Len(s) => SumTo(s)[n] = 0}
<1>1. 0 \in S
  BY SumToRecursion
<1>2. ASSUME NEW n \in S PROVE n + 1 \in S
  <2> SUFFICES ASSUME n + 1 <= Len(s) PROVE SumTo(s)[n + 1] = 0
    OBVIOUS
  <2>1. Len(s) \in Nat
    BY LenProperties
  <2>2. n + 1 \in 1..Len(s) /\ SumTo(s)[n] = 0
    BY <2>1
  <2>3. SumTo(s)[n + 1] = SumTo(s)[(n + 1) - 1] + s[n + 1]
    BY <2>2, SumToRecursion
  <2>4. QED
    BY <2>2, <2>3
<1>3. S = Nat
  <2> HIDE DEF S
  <2>0. S \in SUBSET Nat
    BY DEF S
  <2>1. QED
    BY <2>0, <1>1, <1>2, NatSetInduction
<1>4. QED
  BY <1>3, LenProperties DEF Total

\* Appending to the second of two sequences appends to both.
LEMMA AppendConcat ==
    ASSUME NEW T, NEW s \in Seq(T), NEW u \in Seq(T), NEW e \in T
    PROVE  s \o Append(u, e) = Append(s \o u, e)
<1>1. s \o u \in Seq(T) /\ <<e>> \in Seq(T)
  BY ConcatProperties
<1>2. Append(u, e) = u \o <<e>> /\ Append(s \o u, e) = (s \o u) \o <<e>>
  BY <1>1, AppendIsConcat
<1>3. (s \o u) \o <<e>> = s \o (u \o <<e>>)
  BY <1>1, ConcatAssociative
<1>4. QED
  BY <1>2, <1>3

\* Nothing is lost or gained where one sequence follows another.
LEMMA TotalConcat ==
    ASSUME NEW s \in Seq(Nat), NEW t \in Seq(Nat)
    PROVE  Total(s \o t) = Total(s) + Total(t)
<1> DEFINE U == {u \in Seq(Nat) : Total(s \o u) = Total(s) + Total(u)}
<1>1. <<>> \in U
  BY EmptySeq, ConcatEmptySeq, TotalEmpty, TotalNat
<1>2. ASSUME NEW u \in U, NEW e \in Nat PROVE Append(u, e) \in U
  <2>1. s \o u \in Seq(Nat) /\ Append(u, e) \in Seq(Nat)
    BY ConcatProperties, AppendProperties
  <2>2. s \o Append(u, e) = Append(s \o u, e)
    BY AppendConcat
  <2>3. Total(Append(s \o u, e)) = Total(s \o u) + e /\ Total(Append(u, e)) = Total(u) + e
    BY <2>1, TotalAppend
  <2>4. Total(s) \in Nat /\ Total(u) \in Nat
    BY TotalNat
  <2>5. Total(s \o u) = Total(s) + Total(u)
    OBVIOUS
  <2>6. Total(s \o Append(u, e)) = Total(s) + Total(Append(u, e))
    BY <2>2, <2>3, <2>4, <2>5
  <2>7. QED
    BY <2>1, <2>6
<1>3. U = Seq(Nat)
  <2> HIDE DEF U
  <2>1. U \in SUBSET Seq(Nat)
    BY DEF U
  <2>2. QED
    BY <1>1, <1>2, <2>1, SeqSetInduction
<1>4. QED
  BY <1>3

\* The first element and the rest add up to the whole.
LEMMA TotalTail ==
    ASSUME NEW s \in Seq(Nat), s # <<>>
    PROVE  Total(s) = Head(s) + Total(Tail(s))
<1>1. Head(s) \in Nat /\ Tail(s) \in Seq(Nat) /\ <<Head(s)>> \in Seq(Nat)
  BY HeadTailProperties
<1>2. s = <<Head(s)>> \o Tail(s)
  <2>1. Len(s) \in Nat /\ Len(s) # 0
    BY LenProperties, EmptySeq
  <2>2. s = SubSeq(s, 1, Len(s)) /\ Tail(s) = SubSeq(s, 2, Len(s)) /\ Head(s) = s[1]
    BY SubSeqFull, TailIsSubSeq
  <2>3. SubSeq(s, 1, Len(s)) = <<s[1]>> \o SubSeq(s, 1 + 1, Len(s))
    BY <2>1, SubSeqRecursiveFirst
  <2>4. QED
    BY <2>2, <2>3
<1>3. Total(<<Head(s)>>) = Head(s)
  <2>1. <<Head(s)>> = Append(<<>>, Head(s))
    OBVIOUS
  <2>2. Total(Append(<<>>, Head(s))) = Total(<<>>) + Head(s)
    BY <1>1, TotalAppend, EmptySeq
  <2>3. QED
    BY <1>1, <2>1, <2>2, TotalEmpty
<1>4. QED
  BY <1>1, <1>2, <1>3, TotalConcat

-----------------------------------------------------------------------------
(* What is kept of a sequence. *)

\* The prefixes of KeptTo follow its recursion.
LEMMA KeptToRecursion ==
    ASSUME NEW T, NEW S, NEW s \in Seq(T)
    PROVE  /\ KeptTo(s, S) \in [0..Len(s) -> Seq(T)]
           /\ KeptTo(s, S)[0] = <<>>
           /\ \A n \in 1..Len(s) : KeptTo(s, S)[n] =
                 IF s[n] \in S THEN Append(KeptTo(s, S)[n - 1], s[n]) ELSE KeptTo(s, S)[n - 1]
<1> DEFINE H == [p \in Nat \X Seq(T) |->
                    IF p[1] \in 1..Len(s) /\ s[p[1]] \in S
                    THEN Append(p[2], s[p[1]]) ELSE p[2]]
           Rec(f) == f = [n \in 0..Len(s) |->
                            IF n = 0 THEN <<>>
                            ELSE IF s[n] \in S THEN Append(f[n - 1], s[n]) ELSE f[n - 1]]
<1>1. Len(s) \in Nat /\ \A n \in 1..Len(s) : s[n] \in T
  BY LenProperties, ElementOfSeq
<1>2. H \in [Nat \X Seq(T) -> Seq(T)]
  BY <1>1, AppendProperties
<1>3. PICK f \in [0..Len(s) -> Seq(T)] : Recurses(f, Len(s), <<>>, H)
  <2> HIDE DEF H
  <2>1. <<>> \in Seq(T)
    BY EmptySeq
  <2>2. \A N \in Nat : \E f \in [0..N -> Seq(T)] : Recurses(f, N, <<>>, H)
    BY <1>2, <2>1, Recursion
  <2>3. QED
    BY <1>1, <2>2
<1>4. \A n \in 1..Len(s) :
          f[n] = IF s[n] \in S THEN Append(f[n - 1], s[n]) ELSE f[n - 1]
  <2> TAKE n \in 1..Len(s)
  <2>1. n - 1 \in 0..Len(s) /\ n \in Nat
    BY <1>1
  <2>2. <<n, f[n - 1]>> \in Nat \X Seq(T)
    BY <2>1
  <2>3. QED
    BY <1>3, <2>2 DEF Recurses
<1>5. f[0] = <<>>
  BY <1>3 DEF Recurses
<1>6. Rec(f)
  <2>1. f = [n \in 0..Len(s) |-> f[n]]
    BY <1>3
  <2>2. \A n \in 0..Len(s) :
            f[n] = IF n = 0 THEN <<>>
                   ELSE IF s[n] \in S THEN Append(f[n - 1], s[n]) ELSE f[n - 1]
    <3> TAKE n \in 0..Len(s)
    <3>1. CASE n = 0
      BY <1>5, <3>1
    <3>2. CASE n # 0
      <4>1. n \in 1..Len(s)
        BY <1>1, <3>2
      <4>2. QED
        BY <1>4, <3>2, <4>1
    <3>3. QED
      BY <3>1, <3>2
  <2>3. QED
    BY <2>1, <2>2
<1>7. Rec(KeptTo(s, S))
  <2>1. KeptTo(s, S) = CHOOSE g : Rec(g)
    BY DEF KeptTo
  <2> HIDE DEF Rec
  <2>2. QED
    BY <1>6, <2>1
<1> DEFINE k == KeptTo(s, S)
<1> HIDE DEF k
<1>8. /\ k[0] = <<>>
      /\ \A n \in 1..Len(s) :
            k[n] = IF s[n] \in S THEN Append(k[n - 1], s[n]) ELSE k[n - 1]
  <2>1. k = [n \in 0..Len(s) |->
               IF n = 0 THEN <<>>
               ELSE IF s[n] \in S THEN Append(k[n - 1], s[n]) ELSE k[n - 1]]
    BY <1>7 DEF k
  <2>2. 0 \in 0..Len(s) /\ \A n \in 1..Len(s) : n \in 0..Len(s) /\ n # 0
    BY <1>1
  <2>3. k[0] = IF 0 = 0 THEN <<>>
               ELSE IF s[0] \in S THEN Append(k[0 - 1], s[0]) ELSE k[0 - 1]
    BY <2>1, <2>2
  <2>4. QED
    BY <2>1, <2>2, <2>3
<1> DEFINE N == {n \in Nat : n <= Len(s) => k[n] \in Seq(T)}
<1>9. N = Nat
  <2>1. 0 \in N
    BY <1>8, EmptySeq
  <2>2. ASSUME NEW n \in N PROVE n + 1 \in N
    <3> SUFFICES ASSUME n + 1 <= Len(s) PROVE k[n + 1] \in Seq(T)
      OBVIOUS
    <3>1. k[n] \in Seq(T) /\ s[n + 1] \in T /\ (n + 1) - 1 = n /\ n + 1 \in 1..Len(s)
      BY <1>1
    <3>2. Append(k[n], s[n + 1]) \in Seq(T)
      BY <3>1, AppendProperties
    <3>3. QED
      BY <1>8, <3>1, <3>2
  <2> HIDE DEF N
  <2>3. N \in SUBSET Nat
    BY DEF N
  <2>4. QED
    BY <2>1, <2>2, <2>3, NatSetInduction
<1>10. \A n \in 0..Len(s) : k[n] \in Seq(T)
  BY <1>1, <1>9
<1>11. k \in [0..Len(s) -> Seq(T)]
  <2>1. k = [n \in 0..Len(s) |-> k[n]]
    BY <1>7 DEF k
  <2>2. QED
    BY <1>10, <2>1
<1>12. QED
  BY <1>8, <1>11 DEF k

\* Of nothing, nothing is kept.
LEMMA KeepOnlyEmpty == ASSUME NEW S PROVE KeepOnly(<<>>, S) = <<>>
<1>1. <<>> \in Seq(Nat) /\ Len(<<>>) = 0
  BY EmptySeq
<1>2. QED
  <2>1. \A s \in Seq(Nat) : KeptTo(s, S)[0] = <<>>
    BY KeptToRecursion
  <2>2. QED
    BY <1>1, <2>1 DEF KeepOnly

\* What is kept of a sequence over T is one over T.
LEMMA KeepOnlyType ==
    ASSUME NEW T, NEW S, NEW s \in Seq(T)
    PROVE  KeepOnly(s, S) \in Seq(T)
BY KeptToRecursion, LenProperties DEF KeepOnly

\* An element at the end is kept at the end or not at all.
LEMMA KeepOnlyAppend ==
    ASSUME NEW T, NEW S, NEW s \in Seq(T), NEW e \in T
    PROVE  KeepOnly(Append(s, e), S) =
               IF e \in S THEN Append(KeepOnly(s, S), e) ELSE KeepOnly(s, S)
<1> DEFINE t == Append(s, e)
           k == KeptTo(s, S)
           l == KeptTo(t, S)
<1>1. /\ t \in Seq(T) /\ Len(t) = Len(s) + 1 /\ Len(s) \in Nat
      /\ t[Len(s) + 1] = e /\ \A i \in 1..Len(s) : t[i] = s[i]
  BY AppendProperties, LenProperties
<1> HIDE DEF t
<1>2. /\ k[0] = <<>>
      /\ \A n \in 1..Len(s) :
            k[n] = IF s[n] \in S THEN Append(k[n - 1], s[n]) ELSE k[n - 1]
  BY KeptToRecursion
<1>3. /\ l[0] = <<>>
      /\ \A n \in 1..Len(t) :
            l[n] = IF t[n] \in S THEN Append(l[n - 1], t[n]) ELSE l[n - 1]
  BY <1>1, KeptToRecursion
<1> HIDE DEF k, l
<1> DEFINE N == {n \in Nat : n <= Len(s) => l[n] = k[n]}
<1>4. N = Nat
  <2>1. 0 \in N
    BY <1>2, <1>3
  <2>2. ASSUME NEW n \in N PROVE n + 1 \in N
    <3> SUFFICES ASSUME n + 1 <= Len(s) PROVE l[n + 1] = k[n + 1]
      OBVIOUS
    <3>1. /\ n + 1 \in 1..Len(s) /\ n + 1 \in 1..Len(t) /\ (n + 1) - 1 = n
          /\ t[n + 1] = s[n + 1] /\ l[n] = k[n]
      BY <1>1
    <3>2. QED
      BY <1>2, <1>3, <3>1
  <2> HIDE DEF N
  <2>3. N \in SUBSET Nat
    BY DEF N
  <2>4. QED
    BY <2>1, <2>2, <2>3, NatSetInduction
<1>5. l[Len(s)] = k[Len(s)]
  BY <1>1, <1>4
<1>6. (Len(s) + 1) - 1 = Len(s) /\ Len(s) + 1 \in 1..Len(t)
  BY <1>1
<1>7. l[Len(s) + 1] = IF e \in S THEN Append(k[Len(s)], e) ELSE k[Len(s)]
  BY <1>1, <1>3, <1>5, <1>6
<1>8. QED
  BY <1>1, <1>7 DEF k, l, t, KeepOnly

\* One more element is in the range.
LEMMA RangeAppend ==
    ASSUME NEW T, NEW s \in Seq(T), NEW e \in T
    PROVE  Range(Append(s, e)) = Range(s) \cup {e}
BY AppendProperties, LenProperties DEF Range

\* What is kept are the elements in S, and all of them.
LEMMA KeepOnlyRange ==
    ASSUME NEW T, NEW S, NEW s \in Seq(T)
    PROVE  /\ Range(KeepOnly(s, S)) = Range(s) \cap S
           /\ Len(KeepOnly(s, S)) <= Len(s)
<1> DEFINE U == {u \in Seq(T) : /\ Range(KeepOnly(u, S)) = Range(u) \cap S
                                /\ Len(KeepOnly(u, S)) <= Len(u)}
<1>1. <<>> \in U
  BY EmptySeq, KeepOnlyEmpty DEF Range
<1>2. ASSUME NEW u \in U, NEW e \in T PROVE Append(u, e) \in U
  <2> DEFINE k == KeepOnly(u, S)
             l == KeepOnly(Append(u, e), S)
  <2>1. k \in Seq(T) /\ l = IF e \in S THEN Append(k, e) ELSE k
    BY KeepOnlyType, KeepOnlyAppend
  <2>2. Append(u, e) \in Seq(T) /\ Len(Append(u, e)) = Len(u) + 1
    BY AppendProperties
  <2>3. Range(k) = Range(u) \cap S /\ Len(k) <= Len(u) /\ Len(u) \in Nat
    BY LenProperties
  <2> HIDE DEF k, l
  <2>4. Range(l) = IF e \in S THEN Range(k) \cup {e} ELSE Range(k)
    <3>1. Range(Append(k, e)) = Range(k) \cup {e}
      BY <2>1, RangeAppend
    <3>2. QED
      BY <2>1, <3>1
  <2>5. Range(Append(u, e)) = Range(u) \cup {e}
    BY RangeAppend
  <2>6. Range(l) = Range(Append(u, e)) \cap S
    BY <2>3, <2>4, <2>5
  <2>7. Len(l) = IF e \in S THEN Len(k) + 1 ELSE Len(k)
    BY <2>1, AppendProperties
  <2>8. Len(k) \in Nat
    BY <2>1, LenProperties
  <2>9. Len(l) <= Len(Append(u, e))
    BY <2>2, <2>3, <2>7, <2>8
  <2>10. QED
    BY <2>2, <2>6, <2>9 DEF l
<1>3. U = Seq(T)
  <2> HIDE DEF U
  <2>1. U \in SUBSET Seq(T)
    BY DEF U
  <2>2. QED
    BY <1>1, <1>2, <2>1, SeqSetInduction
<1>4. QED
  BY <1>3

\* Of a sequence all of whose elements are in S, everything is kept.
LEMMA KeepOnlyAll ==
    ASSUME NEW T, NEW S, NEW s \in Seq(T), T \subseteq S
    PROVE  KeepOnly(s, S) = s
<1> DEFINE U == {u \in Seq(T) : KeepOnly(u, S) = u}
<1>1. <<>> \in U
  BY EmptySeq, KeepOnlyEmpty
<1>2. ASSUME NEW u \in U, NEW e \in T PROVE Append(u, e) \in U
  <2>1. KeepOnly(Append(u, e), S) = Append(KeepOnly(u, S), e)
    BY KeepOnlyAppend
  <2>2. QED
    BY <2>1, AppendProperties
<1>3. U = Seq(T)
  <2> HIDE DEF U
  <2>1. U \in SUBSET Seq(T)
    BY DEF U
  <2>2. QED
    BY <1>1, <1>2, <2>1, SeqSetInduction
<1>4. QED
  BY <1>3

\* Keeping is done part by part.
LEMMA KeepOnlyConcat ==
    ASSUME NEW T, NEW S, NEW s \in Seq(T), NEW t \in Seq(T)
    PROVE  KeepOnly(s \o t, S) = KeepOnly(s, S) \o KeepOnly(t, S)
<1> DEFINE U == {u \in Seq(T) : KeepOnly(s \o u, S) = KeepOnly(s, S) \o KeepOnly(u, S)}
<1>1. <<>> \in U
  <2>1. KeepOnly(s, S) \in Seq(T)
    BY KeepOnlyType
  <2>2. s \o <<>> = s /\ KeepOnly(s, S) \o <<>> = KeepOnly(s, S)
    BY <2>1, ConcatEmptySeq
  <2>3. QED
    BY <2>2, EmptySeq, KeepOnlyEmpty
<1>2. ASSUME NEW u \in U, NEW e \in T PROVE Append(u, e) \in U
  <2>1. s \o u \in Seq(T) /\ Append(u, e) \in Seq(T)
    BY ConcatProperties, AppendProperties
  <2>2. s \o Append(u, e) = Append(s \o u, e)
    BY AppendConcat
  <2>3. /\ KeepOnly(Append(u, e), S) =
              IF e \in S THEN Append(KeepOnly(u, S), e) ELSE KeepOnly(u, S)
        /\ KeepOnly(Append(s \o u, e), S) =
              IF e \in S THEN Append(KeepOnly(s \o u, S), e) ELSE KeepOnly(s \o u, S)
    <3> DEFINE v == s \o u
    <3>1. v \in Seq(T)
      BY <2>1
    <3> HIDE DEF v
    <3>2. KeepOnly(Append(v, e), S) =
              IF e \in S THEN Append(KeepOnly(v, S), e) ELSE KeepOnly(v, S)
      BY <3>1, KeepOnlyAppend
    <3>3. KeepOnly(Append(u, e), S) =
              IF e \in S THEN Append(KeepOnly(u, S), e) ELSE KeepOnly(u, S)
      BY KeepOnlyAppend
    <3>4. QED
      BY <3>2, <3>3 DEF v
  <2>4. KeepOnly(s \o u, S) = KeepOnly(s, S) \o KeepOnly(u, S)
    OBVIOUS
  <2>5. KeepOnly(s, S) \in Seq(T) /\ KeepOnly(u, S) \in Seq(T)
    BY KeepOnlyType
  <2>6. Append(KeepOnly(s, S) \o KeepOnly(u, S), e) =
            KeepOnly(s, S) \o Append(KeepOnly(u, S), e)
    <3> DEFINE v == KeepOnly(s, S)
               w == KeepOnly(u, S)
    <3>1. v \in Seq(T) /\ w \in Seq(T)
      BY <2>5
    <3> HIDE DEF v, w
    <3>2. v \o Append(w, e) = Append(v \o w, e)
      BY <3>1, AppendConcat
    <3>3. QED
      BY <3>2 DEF v, w
  <2>7. KeepOnly(s \o Append(u, e), S) = KeepOnly(s, S) \o KeepOnly(Append(u, e), S)
    BY <2>2, <2>3, <2>4, <2>6
  <2>8. QED
    BY <2>1, <2>7
<1>3. U = Seq(T)
  <2> HIDE DEF U
  <2>1. U \in SUBSET Seq(T)
    BY DEF U
  <2>2. QED
    BY <1>1, <1>2, <2>1, SeqSetInduction
<1>4. QED
  BY <1>3

\* What is kept of what was kept.
LEMMA KeepOnlyTwice ==
    ASSUME NEW T, NEW R, NEW S, NEW s \in Seq(T)
    PROVE  KeepOnly(KeepOnly(s, R), S) = KeepOnly(s, R \cap S)
<1> DEFINE U == {u \in Seq(T) : KeepOnly(KeepOnly(u, R), S) = KeepOnly(u, R \cap S)}
<1>1. <<>> \in U
  BY EmptySeq, KeepOnlyEmpty
<1>2. ASSUME NEW u \in U, NEW e \in T PROVE Append(u, e) \in U
  <2>1. KeepOnly(u, R) \in Seq(T) /\ Append(u, e) \in Seq(T)
    BY KeepOnlyType, AppendProperties
  <2>2. KeepOnly(Append(u, e), R) =
            IF e \in R THEN Append(KeepOnly(u, R), e) ELSE KeepOnly(u, R)
    BY KeepOnlyAppend
  <2>3. KeepOnly(Append(KeepOnly(u, R), e), S) =
            IF e \in S THEN Append(KeepOnly(KeepOnly(u, R), S), e)
                       ELSE KeepOnly(KeepOnly(u, R), S)
    <3> DEFINE v == KeepOnly(u, R)
    <3>1. v \in Seq(T)
      BY <2>1
    <3> HIDE DEF v
    <3>2. KeepOnly(Append(v, e), S) =
              IF e \in S THEN Append(KeepOnly(v, S), e) ELSE KeepOnly(v, S)
      BY <3>1, KeepOnlyAppend
    <3>3. QED
      BY <3>2 DEF v
  <2>4. KeepOnly(Append(u, e), R \cap S) =
            IF e \in R \cap S THEN Append(KeepOnly(u, R \cap S), e)
                              ELSE KeepOnly(u, R \cap S)
    BY KeepOnlyAppend
  <2>5. KeepOnly(KeepOnly(u, R), S) = KeepOnly(u, R \cap S)
    OBVIOUS
  <2>6. KeepOnly(KeepOnly(Append(u, e), R), S) = KeepOnly(Append(u, e), R \cap S)
    <3>1. CASE e \in R /\ e \in S
      BY <2>2, <2>3, <2>4, <2>5, <3>1
    <3>2. CASE e \in R /\ e \notin S
      BY <2>2, <2>3, <2>4, <2>5, <3>2
    <3>3. CASE e \notin R
      BY <2>2, <2>4, <2>5, <3>3
    <3>4. QED
      BY <3>1, <3>2, <3>3
  <2>7. QED
    BY <2>1, <2>6
<1>3. U = Seq(T)
  <2> HIDE DEF U
  <2>1. U \in SUBSET Seq(T)
    BY DEF U
  <2>2. QED
    BY <1>1, <1>2, <2>1, SeqSetInduction
<1>4. QED
  BY <1>3

\* Of a sequence none of whose elements is in S, nothing is kept.
LEMMA KeepOnlyNone ==
    ASSUME NEW T, NEW S, NEW s \in Seq(T), T \cap S = {}
    PROVE  KeepOnly(s, S) = <<>>
<1> DEFINE U == {u \in Seq(T) : KeepOnly(u, S) = <<>>}
<1>1. <<>> \in U
  BY EmptySeq, KeepOnlyEmpty
<1>2. ASSUME NEW u \in U, NEW e \in T PROVE Append(u, e) \in U
  <2>1. KeepOnly(Append(u, e), S) = KeepOnly(u, S)
    BY KeepOnlyAppend
  <2>2. QED
    BY <2>1, AppendProperties
<1>3. U = Seq(T)
  <2> HIDE DEF U
  <2>1. U \in SUBSET Seq(T)
    BY DEF U
  <2>2. QED
    BY <1>1, <1>2, <2>1, SeqSetInduction
<1>4. QED
  BY <1>3

\* The elements of a longer sequence are different if those of the shorter one are
\* and the new one is not among them.
LEMMA AppendNew ==
    ASSUME NEW T, NEW s \in Seq(T), NEW e \in T, IsInjective(s), e \notin Range(s)
    PROVE  IsInjective(Append(s, e))
<1>1. /\ DOMAIN s = 1..Len(s) /\ Len(s) \in Nat /\ DOMAIN Append(s, e) = 1..Len(s) + 1
      /\ Append(s, e)[Len(s) + 1] = e /\ \A i \in 1..Len(s) : Append(s, e)[i] = s[i]
  BY AppendProperties, LenProperties
<1> SUFFICES ASSUME NEW i \in 1..Len(s) + 1, NEW j \in 1..Len(s) + 1, Append(s, e)[i] = Append(s, e)[j]
             PROVE  i = j
  BY <1>1 DEF IsInjective
<1>2. (i \in 1..Len(s) \/ i = Len(s) + 1) /\ (j \in 1..Len(s) \/ j = Len(s) + 1)
  BY <1>1
<1>3. \A k \in 1..Len(s) : s[k] \in Range(s)
  BY <1>1 DEF Range
<1>4. CASE i \in 1..Len(s) /\ j \in 1..Len(s)
  BY <1>1, <1>4 DEF IsInjective
<1>5. CASE i \in 1..Len(s) /\ j = Len(s) + 1
  BY <1>1, <1>3, <1>5
<1>6. CASE i = Len(s) + 1 /\ j \in 1..Len(s)
  BY <1>1, <1>3, <1>6
<1> QED
  BY <1>2, <1>4, <1>5, <1>6

\* And only then.
LEMMA AppendedNew ==
    ASSUME NEW T, NEW s \in Seq(T), NEW e \in T, IsInjective(Append(s, e))
    PROVE  IsInjective(s) /\ e \notin Range(s)
<1>1. /\ DOMAIN s = 1..Len(s) /\ Len(s) \in Nat /\ DOMAIN Append(s, e) = 1..Len(s) + 1
      /\ Append(s, e)[Len(s) + 1] = e /\ \A i \in 1..Len(s) : Append(s, e)[i] = s[i]
  BY AppendProperties, LenProperties
<1>2. \A i \in 1..Len(s) : i \in 1..Len(s) + 1 /\ Len(s) + 1 \in 1..Len(s) + 1 /\ i # Len(s) + 1
  BY <1>1
<1>3. e \notin Range(s)
  BY <1>1, <1>2 DEF IsInjective, Range
<1>4. IsInjective(s)
  BY <1>1, <1>2 DEF IsInjective
<1> QED
  BY <1>3, <1>4

\* What is kept of different elements is different.
LEMMA KeepOnlyInjective ==
    ASSUME NEW T, NEW S, NEW s \in Seq(T), IsInjective(s)
    PROVE  IsInjective(KeepOnly(s, S))
<1> DEFINE U == {u \in Seq(T) : IsInjective(u) => IsInjective(KeepOnly(u, S))}
<1>1. <<>> \in U
  BY EmptySeq, KeepOnlyEmpty DEF IsInjective
<1>2. ASSUME NEW u \in U, NEW e \in T PROVE Append(u, e) \in U
  <2>1. u \in Seq(T) /\ Append(u, e) \in Seq(T)
    BY AppendProperties
  <2>2. SUFFICES ASSUME IsInjective(Append(u, e)) PROVE IsInjective(KeepOnly(Append(u, e), S))
    BY <2>1
  <2>3. IsInjective(u) /\ e \notin Range(u)
    BY <2>1, <2>2, AppendedNew
  <2>4. KeepOnly(u, S) \in Seq(T) /\ Range(KeepOnly(u, S)) = Range(u) \cap S
    BY <2>1, KeepOnlyType, KeepOnlyRange
  <2>5. IsInjective(Append(KeepOnly(u, S), e))
    <3>1. IsInjective(KeepOnly(u, S)) /\ e \notin Range(KeepOnly(u, S))
      BY <2>3, <2>4
    <3> QED
      BY <2>4, <3>1, AppendNew
  <2>6. KeepOnly(Append(u, e), S) = IF e \in S THEN Append(KeepOnly(u, S), e) ELSE KeepOnly(u, S)
    BY <2>1, KeepOnlyAppend
  <2>7. IsInjective(KeepOnly(u, S))
    BY <2>3
  <2> QED
    BY <2>5, <2>6, <2>7
<1> HIDE DEF U
<1>3. U \in SUBSET Seq(T)
  BY DEF U
<1>4. U = Seq(T)
  BY <1>1, <1>2, <1>3, SeqSetInduction
<1> QED
  BY <1>4 DEF U
=============================================================================

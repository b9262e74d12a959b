----------------------------- MODULE ListProofs -----------------------------
(***************************************************************************)
(* Lemmas about sequences that the proofs of the components share.         *)
(***************************************************************************)
EXTENDS Lists, FiniteSetTheorems, FunctionTheorems, TLAPS

\* The elements of a finite set in a strict order, given by what is below
\* each: their ranks number them from 1 on, without a gap.
LEMMA Ranks ==
    ASSUME NEW K, IsFiniteSet(K), NEW below,
           \A k \in K : below[k] \subseteq K /\ k \notin below[k],
           \A a, b \in K : a # b => a \in below[b] \/ b \in below[a],
           \A a, b \in K : a \in below[b] => below[a] \subseteq below[b]
    PROVE  /\ Cardinality(K) \in Nat
           /\ \A k \in K : Cardinality(below[k]) + 1 \in 1 .. Cardinality(K)
           /\ \A a, b \in K :
                 a \in below[b] <=> Cardinality(below[a]) + 1 < Cardinality(below[b]) + 1
           /\ \A a, b \in K : Cardinality(below[a]) + 1 = Cardinality(below[b]) + 1 => a = b
           /\ \A n \in 1 .. Cardinality(K) : \E k \in K : Cardinality(below[k]) + 1 = n
<1> DEFINE rank == [k \in K |-> Cardinality(below[k]) + 1]
<1>1. Cardinality(K) \in Nat
  BY FS_CardinalityType
<1>2. \A k \in K : IsFiniteSet(below[k]) /\ Cardinality(below[k]) \in Nat
  BY FS_Subset, FS_CardinalityType
<1>3. \A k \in K : Cardinality(below[k]) < Cardinality(K)
  <2> SUFFICES ASSUME NEW k \in K PROVE Cardinality(below[k]) < Cardinality(K)
    OBVIOUS
  <2>1. below[k] \in SUBSET K /\ below[k] # K
    OBVIOUS
  <2>2. Cardinality(below[k]) <= Cardinality(K) /\ Cardinality(K) # Cardinality(below[k])
    BY <2>1, FS_Subset
  <2> QED BY <1>1, <1>2, <2>2
<1>4. ASSUME NEW a \in K, NEW b \in K, a \in below[b]
      PROVE  Cardinality(below[a]) < Cardinality(below[b])
  <2>1. below[a] \in SUBSET below[b] /\ below[a] # below[b]
    BY <1>4
  <2>2. Cardinality(below[a]) <= Cardinality(below[b]) /\ Cardinality(below[b]) # Cardinality(below[a])
    BY <1>2, <2>1, FS_Subset
  <2> QED BY <1>2, <2>2
<1>5. \A a, b \in K : a \in below[b] <=> Cardinality(below[a]) < Cardinality(below[b])
  BY <1>2, <1>4
<1>6. \A a, b \in K : Cardinality(below[a]) = Cardinality(below[b]) => a = b
  BY <1>2, <1>4
<1>7. rank \in Injection(K, 1 .. Cardinality(K))
  <2>1. rank \in [K -> 1 .. Cardinality(K)]
    BY <1>1, <1>2, <1>3
  <2>2. \A a, b \in K : rank[a] = rank[b] => a = b
    BY <1>2, <1>6
  <2> HIDE DEF rank
  <2> QED BY <2>1, <2>2, Fun_IsInj
<1>8. rank \in Surjection(K, 1 .. Cardinality(K))
  <2>1. IsFiniteSet(1 .. Cardinality(K)) /\ Cardinality(1 .. Cardinality(K)) = Cardinality(K)
    BY <1>1, FS_Interval
  <2> HIDE DEF rank
  <2> QED BY <1>7, <2>1, FS_Injection
<1>9. \A n \in 1 .. Cardinality(K) : \E k \in K : rank[k] = n
  <2> HIDE DEF rank
  <2> QED BY <1>8 DEF Surjection
<1>10. \A n \in 1 .. Cardinality(K) : \E k \in K : Cardinality(below[k]) + 1 = n
  BY <1>9
<1> QED BY <1>1, <1>2, <1>3, <1>5, <1>6, <1>10

\* The places the elements that are kept of a sequence had in it: all the
\* chosen ones, in their order.
LEMMA KeptPlaces ==
    ASSUME NEW S, NEW q \in Seq(S), NEW I \in SUBSET DOMAIN q
    PROVE  /\ Kept(q, I) \in Seq(S) /\ DOMAIN Kept(q, I) = 1 .. Len(Kept(q, I))
           /\ Len(Kept(q, I)) <= Len(q) /\ Len(Kept(q, I)) \in Nat
           /\ \E f \in [DOMAIN Kept(q, I) -> I] :
                 /\ \A n \in DOMAIN Kept(q, I) : Kept(q, I)[n] = q[f[n]]
                 /\ \A m, n \in DOMAIN Kept(q, I) : m < n => f[m] < f[n]
                 /\ \A i \in I : \E n \in DOMAIN Kept(q, I) : f[n] = i
<1> DEFINE below == [i \in I |-> {j \in I : j < i}]
           place(n) == CHOOSE i \in I : Cardinality({j \in I : j < i}) + 1 = n
<1>1. DOMAIN q = 1 .. Len(q) /\ Len(q) \in Nat /\ \A i \in I : i \in Nat /\ q[i] \in S
  OBVIOUS
<1>2. IsFiniteSet(I) /\ Cardinality(I) <= Len(q) /\ Cardinality(I) \in Nat
  <2>1. IsFiniteSet(1 .. Len(q)) /\ Cardinality(1 .. Len(q)) = Len(q)
    BY <1>1, FS_Interval
  <2> QED BY <1>1, <2>1, FS_Subset, FS_CardinalityType
<1>3. /\ \A a, b \in I : a \in below[b] <=> Cardinality(below[a]) + 1 < Cardinality(below[b]) + 1
      /\ \A k \in I : Cardinality(below[k]) + 1 \in 1 .. Cardinality(I)
      /\ \A a, b \in I : Cardinality(below[a]) + 1 = Cardinality(below[b]) + 1 => a = b
      /\ \A n \in 1 .. Cardinality(I) : \E k \in I : Cardinality(below[k]) + 1 = n
  <2>1. \A k \in I : below[k] \subseteq I /\ k \notin below[k]
    BY <1>1
  <2>2. \A a, b \in I : a # b => a \in below[b] \/ b \in below[a]
    BY <1>1
  <2>3. \A a, b \in I : a \in below[b] => below[a] \subseteq below[b]
    BY <1>1
  <2> HIDE DEF below
  <2> QED BY <1>2, <2>1, <2>2, <2>3, Ranks
<1>4. \A n \in 1 .. Cardinality(I) : place(n) \in I /\ Cardinality(below[place(n)]) + 1 = n
  <2> SUFFICES ASSUME NEW n \in 1 .. Cardinality(I)
               PROVE  place(n) \in I /\ Cardinality(below[place(n)]) + 1 = n
    OBVIOUS
  <2>1. \E i \in I : Cardinality({j \in I : j < i}) + 1 = n
    BY <1>3
  <2>2. place(n) \in I /\ Cardinality({j \in I : j < place(n)}) + 1 = n
    BY <2>1
  <2> QED BY <2>2
<1>5. Kept(q, I) = [n \in 1 .. Cardinality(I) |-> q[place(n)]]
  BY DEF Kept
<1> HIDE DEF below, place
<1>6. /\ Kept(q, I) \in Seq(S) /\ Len(Kept(q, I)) = Cardinality(I)
      /\ DOMAIN Kept(q, I) = 1 .. Cardinality(I)
      /\ \A n \in 1 .. Cardinality(I) : Kept(q, I)[n] = q[place(n)]
  BY <1>1, <1>2, <1>4, <1>5
<1>7. ASSUME NEW i \in I
      PROVE  \E n \in 1 .. Cardinality(I) : place(n) = i
  <2> DEFINE n == Cardinality(below[i]) + 1
  <2>1. n \in 1 .. Cardinality(I)
    BY <1>3
  <2>2. place(n) = i
    BY <1>3, <1>4, <2>1
  <2> QED BY <2>1, <2>2
<1>8. ASSUME NEW m \in 1 .. Cardinality(I), NEW n \in 1 .. Cardinality(I), m < n
      PROVE  place(m) < place(n)
  <2>1. place(m) \in below[place(n)]
    BY <1>3, <1>4, <1>8
  <2> QED BY <2>1, <1>4 DEF below
<1> DEFINE f == [n \in 1 .. Cardinality(I) |-> place(n)]
<1>9. /\ f \in [1 .. Cardinality(I) -> I]
      /\ \A n \in 1 .. Cardinality(I) : Kept(q, I)[n] = q[f[n]]
      /\ \A m, n \in 1 .. Cardinality(I) : m < n => f[m] < f[n]
      /\ \A i \in I : \E n \in 1 .. Cardinality(I) : f[n] = i
  BY <1>4, <1>6, <1>7, <1>8
<1> HIDE DEF f
<1>10. \E g \in [DOMAIN Kept(q, I) -> I] :
          /\ \A n \in DOMAIN Kept(q, I) : Kept(q, I)[n] = q[g[n]]
          /\ \A m, n \in DOMAIN Kept(q, I) : m < n => g[m] < g[n]
          /\ \A i \in I : \E n \in DOMAIN Kept(q, I) : g[n] = i
  <2> DEFINE D == DOMAIN Kept(q, I)
  <2>1. /\ f \in [D -> I]
        /\ \A n \in D : Kept(q, I)[n] = q[f[n]]
        /\ \A m, n \in D : m < n => f[m] < f[n]
        /\ \A i \in I : \E n \in D : f[n] = i
    BY <1>6, <1>9
  <2> HIDE DEF D
  <2> SUFFICES \E g \in [D -> I] : /\ \A n \in D : Kept(q, I)[n] = q[g[n]]
                                   /\ \A m, n \in D : m < n => g[m] < g[n]
                                   /\ \A i \in I : \E n \in D : g[n] = i
    BY DEF D
  <2> USE <2>1
  <2> WITNESS f \in [D -> I]
  <2> QED BY <2>1
<1> QED BY <1>1, <1>2, <1>6, <1>10

\* What is kept of a sequence are the elements at the chosen places, all of
\* them, in their order.
LEMMA KeptElements ==
    ASSUME NEW S, NEW q \in Seq(S), NEW I \in SUBSET DOMAIN q
    PROVE  /\ Kept(q, I) \in Seq(S) /\ DOMAIN Kept(q, I) = 1 .. Len(Kept(q, I))
           /\ Len(Kept(q, I)) <= Len(q) /\ Len(Kept(q, I)) \in Nat
           /\ \A n \in DOMAIN Kept(q, I) : \E i \in I : Kept(q, I)[n] = q[i]
           /\ \A i \in I : \E n \in DOMAIN Kept(q, I) : Kept(q, I)[n] = q[i]
           /\ \A m, n \in DOMAIN Kept(q, I) :
                 m < n => \E i, j \in I : i < j /\ Kept(q, I)[m] = q[i] /\ Kept(q, I)[n] = q[j]
<1>1. /\ Kept(q, I) \in Seq(S) /\ DOMAIN Kept(q, I) = 1 .. Len(Kept(q, I))
      /\ Len(Kept(q, I)) <= Len(q) /\ Len(Kept(q, I)) \in Nat
  BY KeptPlaces
<1> DEFINE K == Kept(q, I)
<1>2. PICK f \in [DOMAIN K -> I] : /\ \A n \in DOMAIN K : K[n] = q[f[n]]
                                   /\ \A m, n \in DOMAIN K : m < n => f[m] < f[n]
                                   /\ \A i \in I : \E n \in DOMAIN K : f[n] = i
  BY SMTT(30), KeptPlaces
<1> HIDE DEF K
<1>3. \A n \in DOMAIN K : f[n] \in I
  BY <1>2
<1>4. \A n \in DOMAIN K : \E i \in I : K[n] = q[i]
  BY <1>2, <1>3
<1>5. \A i \in I : \E n \in DOMAIN K : K[n] = q[i]
  BY <1>2
<1>6. \A m, n \in DOMAIN K : m < n => \E i, j \in I : i < j /\ K[m] = q[i] /\ K[n] = q[j]
  BY <1>2, <1>3
<1> QED BY <1>1, <1>4, <1>5, <1>6 DEF K

\* A finite set of naturals that is not empty has a greatest element.
LEMMA Greatest ==
    ASSUME NEW K \in SUBSET Nat, IsFiniteSet(K), K # {}
    PROVE  \E m \in K : \A o \in K : o <= m
<1> DEFINE below == [k \in K |-> {j \in K : j < k}]
<1>0. IsFiniteSet(K) /\ \A k \in K : k \in Nat
  OBVIOUS
<1>1. /\ Cardinality(K) \in Nat
      /\ \A k \in K : Cardinality(below[k]) + 1 \in 1 .. Cardinality(K)
      /\ \A a, b \in K : a \in below[b] <=> Cardinality(below[a]) + 1 < Cardinality(below[b]) + 1
      /\ \A n \in 1 .. Cardinality(K) : \E k \in K : Cardinality(below[k]) + 1 = n
  <2>1. \A k \in K : below[k] \subseteq K /\ k \notin below[k]
    BY <1>0
  <2>2. \A a, b \in K : a # b => a \in below[b] \/ b \in below[a]
    BY <1>0
  <2>3. \A a, b \in K : a \in below[b] => below[a] \subseteq below[b]
    <3> SUFFICES ASSUME NEW a \in K, NEW b \in K, a \in below[b], NEW j \in below[a]
                 PROVE  j \in below[b]
      OBVIOUS
    <3>1. j \in K /\ j < a /\ a < b
      OBVIOUS
    <3> QED BY <1>0, <3>1
  <2> HIDE DEF below
  <2> QED BY <1>0, <2>1, <2>2, <2>3, Ranks
<1>2. Cardinality(K) \in 1 .. Cardinality(K)
  <2>1. PICK k \in K : TRUE
    OBVIOUS
  <2> HIDE DEF below
  <2>2. Cardinality(below[k]) + 1 \in 1 .. Cardinality(K)
    BY <1>1
  <2> QED BY <1>1, <2>2
<1>3. PICK m \in K : Cardinality(below[m]) + 1 = Cardinality(K)
  BY <1>1, <1>2
<1>4. \A o \in K : m \notin below[o]
  <2> HIDE DEF below
  <2>1. \A o \in K : ~(Cardinality(below[m]) + 1 < Cardinality(below[o]) + 1)
    BY <1>1, <1>3
  <2> QED BY <1>1, <2>1
<1> QED BY <1>0, <1>4

\* What a sequence holds is finite.
LEMMA RangeFinite ==
    ASSUME NEW S, NEW q \in Seq(S)
    PROVE  IsFiniteSet(Range(q)) /\ Range(q) \subseteq S
<1>1. q \in [1 .. Len(q) -> S] /\ Len(q) \in Nat
  OBVIOUS
<1>2. IsFiniteSet(1 .. Len(q))
  BY <1>1, FS_Interval
<1>3. q \in Surjection(1 .. Len(q), Range(q)) /\ Range(q) \subseteq S
  BY <1>1, Fun_RangeProperties
<1> QED BY <1>2, <1>3, FS_Surjection

\* A non-empty set of numbers has a least one.
LEMMA Least ==
    ASSUME NEW S \in SUBSET Nat, S # {}
    PROVE  \E m \in S : \A o \in S : m <= o
<1>1. PICK t \in S : TRUE
  OBVIOUS
<1> DEFINE K == {n \in 0 .. t : t - n \in S}
<1>2. t \in Nat /\ \A o \in S : o \in Nat
  OBVIOUS
<1>3. IsFiniteSet(K) /\ K \in SUBSET Nat /\ 0 \in K
  <2>1. IsFiniteSet(0 .. t)
    BY <1>2, FS_Interval
  <2> QED BY <1>2, <2>1, FS_Subset
<1>4. PICK n \in K : \A o \in K : o <= n
  <2> HIDE DEF K
  <2> QED BY <1>3, Greatest
<1>5. t - n \in S /\ n \in 0 .. t
  OBVIOUS
<1>6. ASSUME NEW o \in S PROVE t - n <= o
  <2>1. CASE o <= t
    <3>1. t - o \in 0 .. t /\ t - (t - o) = o
      BY <1>2, <2>1
    <3>2. t - o \in K
      BY <3>1
    <3> HIDE DEF K
    <3>3. t - o <= n
      BY <1>4, <3>2
    <3> QED BY <1>2, <1>5, <3>3
  <2>2. CASE ~(o <= t)
    BY <1>2, <1>5, <2>2
  <2> QED BY <2>1, <2>2
<1> QED BY <1>5, <1>6

\* What is kept of a sequence is in it, and all of it only when all is kept.
LEMMA KeptPart ==
    ASSUME NEW S, NEW q \in Seq(S), NEW I \in SUBSET DOMAIN q
    PROVE  /\ Kept(q, I) \in Seq(S) /\ Len(Kept(q, I)) <= Len(q)
           /\ \A n \in DOMAIN Kept(q, I) : \E i \in I : Kept(q, I)[n] = q[i]
           /\ I # DOMAIN q => Len(Kept(q, I)) < Len(q)
           /\ q = <<>> => Kept(q, I) = <<>>
<1> DEFINE K == Kept(q, I)
<1>1. /\ K \in Seq(S) /\ Len(K) <= Len(q)
      /\ \A n \in DOMAIN K : \E i \in I : K[n] = q[i]
  BY KeptElements
<1>2. /\ IsFiniteSet(1 .. Len(q)) /\ Cardinality(1 .. Len(q)) = Len(q) /\ Len(q) \in Nat
      /\ DOMAIN q = 1 .. Len(q)
  <2>1. Len(q) \in Nat /\ DOMAIN q = 1 .. Len(q)
    OBVIOUS
  <2> DEFINE n == Len(q)
  <2>2. n \in Nat
    BY <2>1
  <2> HIDE DEF n
  <2>3. IsFiniteSet(1 .. n) /\ Cardinality(1 .. n) = n
    BY <2>2, FS_Interval
  <2> QED BY <2>1, <2>3 DEF n
<1>3. IsFiniteSet(I) /\ Cardinality(I) \in Nat
  BY <1>2, FS_Subset, FS_CardinalityType
<1>4. Len(K) = Cardinality(I)
  <2>1. DOMAIN K = 1 .. Cardinality(I)
    BY DEF Kept
  <2> HIDE DEF K
  <2> QED BY <1>1, <1>3, <2>1
<1>5. ASSUME I # DOMAIN q PROVE Len(K) < Len(q)
  <2>1. I \in SUBSET (1 .. Len(q)) /\ I # 1 .. Len(q)
    BY <1>2, <1>5
  <2>2. Cardinality(I) # Len(q)
    BY <1>2, <2>1, FS_Subset
  <2> HIDE DEF K
  <2> QED BY <1>1, <1>2, <1>3, <1>4, <2>2
<1>6. ASSUME q = <<>> PROVE K = <<>>
  <2>1. Len(q) = 0
    BY <1>6
  <2> HIDE DEF K
  <2> QED BY <1>1, <2>1
<1> HIDE DEF K
<1> QED BY <1>1, <1>5, <1>6 DEF K

=============================================================================

--------------------------- MODULE DeliveryProofs ---------------------------
(***************************************************************************)
(* What the owner of a subscription withholds is covered by a Rescan on    *)
(* its way, whatever the keys, the subscriptions and the bounds.           *)
(***************************************************************************)
EXTENDS Delivery, ListProofs

-----------------------------------------------------------------------------
(* Keys and the Rescans parked for them.                                   *)

\* A key lies in its own subtree, and in those around the subtrees it lies in.
LEMMA Inside ==
    /\ \A a \in Seq(Component) : StartsWith(a, a)
    /\ \A a, b, c \in Seq(Component) : StartsWith(a, b) /\ StartsWith(b, c) => StartsWith(a, c)
<1>1. \A a \in Seq(Component) : StartsWith(a, a)
  BY DEF StartsWith
<1>2. ASSUME NEW a \in Seq(Component), NEW b \in Seq(Component), NEW c \in Seq(Component),
             StartsWith(a, b), StartsWith(b, c)
      PROVE  StartsWith(a, c)
  <2>1. Len(a) \in Nat /\ Len(b) \in Nat /\ Len(c) \in Nat
    OBVIOUS
  <2>2. Len(c) <= Len(b) /\ Len(b) <= Len(a)
    BY <1>2 DEF StartsWith
  <2>3. \A i \in 1 .. Len(c) : c[i] = b[i] /\ b[i] = a[i]
    BY <1>2, <2>1, <2>2 DEF StartsWith
  <2> QED BY <2>1, <2>2, <2>3 DEF StartsWith
<1> QED BY <1>1, <1>2

\* The common prefix of two keys is a key around both.
LEMMA Prefixes ==
    ASSUME NEW a \in Seq(Component), NEW b \in Seq(Component)
    PROVE  /\ CommonPrefix(a, b) \in Seq(Component)
           /\ StartsWith(a, CommonPrefix(a, b)) /\ StartsWith(b, CommonPrefix(a, b))
<1> DEFINE K == {i \in 0 .. Len(a) : i <= Len(b) /\ \A j \in 1 .. i : a[j] = b[j]}
           P(i) == /\ i <= Len(b)
                   /\ \A j \in 1 .. i : a[j] = b[j]
                   /\ i < Len(a) /\ i < Len(b) => a[i + 1] # b[i + 1]
           n == CHOOSE i \in 0 .. Len(a) : P(i)
<1>1. Len(a) \in Nat /\ Len(b) \in Nat
  OBVIOUS
<1>2. IsFiniteSet(K) /\ K \in SUBSET Nat /\ 0 \in K
  <2>1. IsFiniteSet(0 .. Len(a))
    BY <1>1, FS_Interval
  <2> QED BY <1>1, <2>1, FS_Subset
<1>3. PICK m \in K : \A o \in K : o <= m
  <2> HIDE DEF K
  <2> QED BY <1>2, Greatest
<1>4. m \in 0 .. Len(a) /\ m <= Len(b) /\ \A j \in 1 .. m : a[j] = b[j]
  OBVIOUS
<1>5. ASSUME m < Len(a), m < Len(b), a[m + 1] = b[m + 1]
      PROVE  FALSE
  <2>1. m + 1 \in 0 .. Len(a) /\ m + 1 <= Len(b)
    BY <1>1, <1>4, <1>5
  <2>2. \A j \in 1 .. (m + 1) : a[j] = b[j]
    BY <1>4, <1>5
  <2>3. m + 1 \in K
    BY <2>1, <2>2
  <2> HIDE DEF K
  <2>4. m + 1 <= m
    BY <1>3, <2>3
  <2> QED BY <1>4, <2>4
<1>6. P(m)
  BY <1>4, <1>5
<1>7. n \in 0 .. Len(a) /\ P(n)
  <2> HIDE DEF P
  <2> QED BY <1>4, <1>6
<1>8. CommonPrefix(a, b) = SubSeq(a, 1, n)
  BY DEF CommonPrefix
<1> HIDE DEF n
<1>9. /\ SubSeq(a, 1, n) \in Seq(Component)
      /\ Len(SubSeq(a, 1, n)) = n
      /\ \A i \in 1 .. n : SubSeq(a, 1, n)[i] = a[i]
  BY <1>1, <1>7
<1> QED BY <1>1, <1>7, <1>8, <1>9 DEF StartsWith

\* A Rescan that covers all another one does.
Wider(r, q) == q.epoch <= r.epoch /\ StartsWith(q.key, r.key)

LEMMA WiderCovers ==
    ASSUME NEW q \in Parked, NEW r \in Parked, Wider(r, q),
           NEW o \in [keys : SUBSET Key, need : Nat], Covers(q, o)
    PROVE  Covers(r, o)
<1>1. q.key \in Seq(Component) /\ r.key \in Seq(Component) /\ q.epoch \in Nat /\ r.epoch \in Nat
  BY DEF Parked
<1>2. o.need \in Nat /\ \A k \in o.keys : k \in Seq(Component)
  BY KeyAssumption
<1>3. o.need <= r.epoch
  BY <1>1, <1>2 DEF Wider, Covers
<1>4. ASSUME NEW k \in o.keys PROVE StartsWith(k, r.key)
  <2>1. StartsWith(k, q.key) /\ StartsWith(q.key, r.key)
    BY DEF Wider, Covers
  <2> QED BY <1>1, <1>2, <2>1, Inside
<1> QED BY <1>1, <1>2, <1>3, <1>4 DEF Covers

LEMMA WiderItself ==
    \A r \in Parked : Wider(r, r)
BY Inside DEF Wider, Parked

\* The greater of two epochs.
LEMMA Larger ==
    \A a, b \in Nat : larger(a, b) \in Nat /\ a <= larger(a, b) /\ b <= larger(a, b)
                      /\ larger(a, b) \in {a, b}
BY DEF larger

\* A map of parked Rescans.
Plane(p) == p \in [DOMAIN p -> Parked] /\ DOMAIN p \subseteq Sub

\* What a merge gives: every Rescan merged is covered, no epoch is new, and
\* the subscriptions not merged keep theirs.
Merged(m, p, T, d) ==
    /\ Plane(m) /\ DOMAIN m = DOMAIN p \cup T
    /\ \A s \in DOMAIN p : Wider(m[s], p[s])
    /\ \A s \in T : Wider(m[s], d[s])
    /\ \A s \in T : m[s].epoch = d[s].epoch \/ (s \in DOMAIN p /\ m[s].epoch = p[s].epoch)
    /\ \A s \in DOMAIN p \ T : m[s] = p[s]

LEMMA MergeMax ==
    ASSUME NEW p, Plane(p), NEW T \in SUBSET Sub, NEW d, \A s \in T : d[s] \in Parked
    PROVE  Merged(merge_max(p, T, d), p, T, d)
<1> DEFINE m == merge_max(p, T, d)
<1>1. m = [s \in DOMAIN p \cup T |->
              IF s \notin T THEN p[s] ELSE IF s \notin DOMAIN p THEN d[s]
              ELSE [key |-> CommonPrefix(p[s].key, d[s].key), epoch |-> larger(p[s].epoch, d[s].epoch)]]
  BY DEF merge_max
<1>2. \A s \in DOMAIN p : p[s] \in Parked /\ Wider(p[s], p[s])
  BY WiderItself DEF Plane
<1>3. \A s \in T : d[s] \in Parked /\ Wider(d[s], d[s])
  BY WiderItself
<1>4. DOMAIN m = DOMAIN p \cup T
  BY <1>1
<1>5. ASSUME NEW s \in DOMAIN p \ T PROVE m[s] = p[s]
  BY <1>1
<1>6. ASSUME NEW s \in T \ DOMAIN p PROVE m[s] = d[s]
  BY <1>1
<1>7. ASSUME NEW s \in T, s \in DOMAIN p
      PROVE  /\ m[s] \in Parked /\ Wider(m[s], p[s]) /\ Wider(m[s], d[s])
             /\ m[s].epoch = d[s].epoch \/ m[s].epoch = p[s].epoch
  <2>1. /\ p[s].key \in Seq(Component) /\ d[s].key \in Seq(Component)
        /\ p[s].epoch \in Nat /\ d[s].epoch \in Nat
    BY <1>2, <1>3, <1>7 DEF Parked
  <2> DEFINE c == CommonPrefix(p[s].key, d[s].key)
             e == larger(p[s].epoch, d[s].epoch)
  <2>2. m[s] = [key |-> c, epoch |-> e]
    BY <1>1, <1>7
  <2>3. c \in Seq(Component) /\ StartsWith(p[s].key, c) /\ StartsWith(d[s].key, c)
    BY <2>1, Prefixes
  <2>4. e \in Nat /\ p[s].epoch <= e /\ d[s].epoch <= e /\ e \in {p[s].epoch, d[s].epoch}
    BY <2>1, Larger
  <2> HIDE DEF c, e, m
  <2> QED BY <2>2, <2>3, <2>4 DEF Parked, Wider
<1>8. \A s \in DOMAIN m : m[s] \in Parked
  BY <1>2, <1>3, <1>4, <1>5, <1>6, <1>7
<1>9. m \in [DOMAIN m -> Parked] /\ DOMAIN m \subseteq Sub
  <2>1. m = [s \in DOMAIN m |-> m[s]]
    BY <1>1
  <2> HIDE DEF m
  <2> QED BY <1>4, <1>8, <2>1 DEF Plane
<1> HIDE DEF m
<1>10. Plane(m)
  BY <1>9 DEF Plane
<1>11. \A s \in DOMAIN p : Wider(m[s], p[s])
  BY <1>2, <1>5, <1>7
<1>12. \A s \in T : Wider(m[s], d[s])
  BY <1>3, <1>6, <1>7
<1>13. \A s \in T : m[s].epoch = d[s].epoch \/ (s \in DOMAIN p /\ m[s].epoch = p[s].epoch)
  BY <1>6, <1>7
<1> QED BY <1>4, <1>5, <1>10, <1>11, <1>12, <1>13 DEF m, Merged

\* What the growth of a debt gives: it covers what it covered, and every
\* endpoint it grew over at the epoch it was given.
Widened(w, p, s, keys, epoch) ==
    /\ Plane(w) /\ DOMAIN w = DOMAIN p
    /\ \A x \in DOMAIN p \ {s} : w[x] = p[x]
    /\ s \in DOMAIN p =>
          /\ Wider(w[s], p[s]) /\ epoch <= w[s].epoch
          /\ \A k \in keys : StartsWith(k, w[s].key)
          /\ w[s].epoch \in {p[s].epoch, epoch}

LEMMA WidenDebt ==
    ASSUME NEW p, Plane(p), NEW s \in Sub, NEW keys \in SUBSET Key, keys # {}, NEW epoch \in Nat
    PROVE  Widened(widen_debt(p, s, keys, epoch), p, s, keys, epoch)
<1>1. CASE s \notin DOMAIN p
  BY <1>1 DEF widen_debt, Widened
<1>2. CASE s \in DOMAIN p
  <2> DEFINE w == widen_debt(p, s, keys, epoch)
             top == p[s].key
             over == {CommonPrefix(top, k) : k \in keys}
             c == CHOOSE x \in over : \A o \in over : Len(x) <= Len(o)
             e == larger(p[s].epoch, epoch)
  <2>1. top \in Seq(Component) /\ p[s].epoch \in Nat /\ \A k \in keys : k \in Seq(Component)
    BY <1>2, KeyAssumption DEF Plane, Parked
  <2>2. w = [p EXCEPT ![s] = [key |-> c, epoch |-> e]]
    BY <1>2 DEF widen_debt
  <2>3. \A k \in keys : /\ CommonPrefix(top, k) \in Seq(Component)
                        /\ StartsWith(top, CommonPrefix(top, k))
                        /\ StartsWith(k, CommonPrefix(top, k))
    BY <2>1, Prefixes
  <2>4. \A x \in over : x \in Seq(Component) /\ StartsWith(top, x)
    BY <2>3
  <2>5. c \in over /\ \A o \in over : Len(c) <= Len(o)
    <3> DEFINE L == {Len(x) : x \in over}
    <3>0. over # {} /\ \A x \in over : Len(x) \in Nat
      <4>1. over # {}
        OBVIOUS
      <4> HIDE DEF over
      <4> QED BY <2>4, <4>1
    <3>1. L \in SUBSET Nat /\ L # {}
      <4> HIDE DEF over
      <4> QED BY <3>0
    <3>2. PICK m \in L : \A o \in L : m <= o
      <4> HIDE DEF L
      <4> QED BY <3>1, Least
    <3>3. PICK x \in over : Len(x) = m
      OBVIOUS
    <3>4. \A o \in over : Len(x) <= Len(o)
      BY <3>2, <3>3
    <3> HIDE DEF over
    <3> QED BY <3>4
  <2> HIDE DEF c, over
  <2>6. c \in Seq(Component) /\ StartsWith(top, c)
    BY <2>4, <2>5
  <2>7. ASSUME NEW x \in over PROVE StartsWith(x, c)
    <3>1. x \in Seq(Component) /\ StartsWith(top, x) /\ Len(c) <= Len(x)
      BY <2>4, <2>5
    <3>2. Len(c) \in Nat /\ Len(x) \in Nat
      BY <2>6, <3>1
    <3>3. \A i \in 1 .. Len(c) : c[i] = top[i]
      BY <2>6 DEF StartsWith
    <3>4. \A i \in 1 .. Len(x) : x[i] = top[i]
      BY <3>1 DEF StartsWith
    <3>5. \A i \in 1 .. Len(c) : c[i] = x[i]
      BY <3>1, <3>2, <3>3, <3>4
    <3> QED BY <3>1, <3>5 DEF StartsWith
  <2>8. ASSUME NEW k \in keys PROVE StartsWith(k, c)
    <3>1. CommonPrefix(top, k) \in over
      BY DEF over
    <3>2. StartsWith(CommonPrefix(top, k), c)
      BY <2>7, <3>1
    <3> QED BY <2>1, <2>3, <2>6, <3>2, Inside
  <2>9. e \in Nat /\ p[s].epoch <= e /\ epoch <= e /\ e \in {p[s].epoch, epoch}
    BY <2>1, Larger
  <2> HIDE DEF e
  <2>10. /\ DOMAIN w = DOMAIN p /\ w[s] = [key |-> c, epoch |-> e]
         /\ \A x \in DOMAIN p \ {s} : w[x] = p[x]
    BY <1>2, <2>2
  <2>11. w[s] \in Parked
    BY <2>6, <2>9, <2>10 DEF Parked
  <2>12. Plane(w)
    BY <1>2, <2>2, <2>10, <2>11 DEF Plane
  <2>13. Wider(w[s], p[s])
    BY <2>6, <2>9, <2>10 DEF Wider
  <2>14. \A k \in keys : StartsWith(k, w[s].key)
    BY <2>8, <2>10
  <2>15. epoch <= w[s].epoch /\ w[s].epoch \in {p[s].epoch, epoch}
    BY <2>9, <2>10
  <2> HIDE DEF w
  <2>16. Widened(w, p, s, keys, epoch)
    BY <2>10, <2>12, <2>13, <2>14, <2>15 DEF Widened
  <2> QED BY <2>16 DEF w
<1> QED BY <1>1, <1>2

\* A map of parked Rescans without some of its entries is one.
LEMMA DropPlane ==
    ASSUME NEW p, Plane(p), NEW T
    PROVE  /\ Plane(Drop(p, T)) /\ DOMAIN Drop(p, T) = DOMAIN p \ T
           /\ \A x \in DOMAIN p \ T : Drop(p, T)[x] = p[x]
BY DEF Plane, Drop

\* The Rescan of a subscription is parked in the map of its claim state.
LEMMA Parks ==
    ASSUME NEW T \in SUBSET Sub, NEW d, \A s \in T : d[s] \in Parked,
           Plane(needs), Plane(suppressed), park(T, d)
    PROVE  /\ Merged(needs', needs, T \ unclaimed, d)
           /\ Merged(suppressed', suppressed, T \cap unclaimed, d)
<1> DEFINE N == T \ unclaimed
           S == T \cap unclaimed
<1>1. needs' = merge_max(needs, N, d) /\ suppressed' = merge_max(suppressed, S, d)
  BY DEF park
<1>2. N \in SUBSET Sub /\ S \in SUBSET Sub /\ (\A s \in N : d[s] \in Parked) /\ \A s \in S : d[s] \in Parked
  OBVIOUS
<1> HIDE DEF N, S
<1>3. Merged(merge_max(needs, N, d), needs, N, d)
  BY <1>2, MergeMax
<1>4. Merged(merge_max(suppressed, S, d), suppressed, S, d)
  BY <1>2, MergeMax
<1> QED BY <1>1, <1>3, <1>4 DEF N, S

\* `first_from` finds the subscription to offer.
LEMMA FirstFrom ==
    ASSUME DOMAIN needs \subseteq Sub, DOMAIN needs # {}
    PROVE  first_from \in DOMAIN needs
<1> DEFINE past == {s \in DOMAIN needs : s > flush.at \/ (s = flush.at /\ ~flush.ex)}
           pool == IF past # {} THEN past ELSE DOMAIN needs
<1>1. pool # {} /\ pool \subseteq DOMAIN needs
  OBVIOUS
<1>2. pool \in SUBSET Nat
  BY <1>1, SubAssumption
<1>3. first_from = CHOOSE s \in pool : \A o \in pool : s <= o
  BY DEF first_from
<1> HIDE DEF pool
<1>4. \E s \in pool : \A o \in pool : s <= o
  BY <1>1, <1>2, Least
<1> QED BY <1>1, <1>3, <1>4

-----------------------------------------------------------------------------
(* What passes through the coalescer.                                      *)

\* The deltas of a sequence as they are emitted.
LEMMA EmissionsTyped ==
    ASSUME NEW q \in Seq(Delta)
    PROVE  /\ Emissions(q) \in Seq(Emission) /\ Len(Emissions(q)) = Len(q)
           /\ \A i \in DOMAIN Emissions(q) : i \in DOMAIN q /\ Emissions(q)[i] = AsEmission(q[i])
<1>1. \A i \in DOMAIN q : q[i] \in Delta /\ AsEmission(q[i]) \in Emission
  <2>1. \A d \in Delta : AsEmission(d) \in Emission
    BY DEF AsEmission, Delta, Emission
  <2> QED BY <2>1
<1>2. Emissions(q) = [i \in 1 .. Len(q) |-> AsEmission(q[i])] /\ Len(q) \in Nat
  BY DEF Emissions
<1>3. Emissions(q) \in Seq(Emission) /\ Len(Emissions(q)) = Len(q)
  BY <1>1, <1>2
<1> QED BY <1>2, <1>3

\* What a pass through the coalescer leaves held and hands out.
Pushed(pre, h) ==
    /\ out' \in [Sub -> Seq(Emission)] /\ held' \in [Sub -> Seq(Delta)]
    /\ \A s \in Sub :
          /\ Len(held'[s]) <= Len(h[s])
          /\ \A i \in DOMAIN held'[s] : \E j \in DOMAIN h[s] : held'[s][i] = h[s][j]
          /\ \A i \in DOMAIN out'[s] : \/ i \in DOMAIN pre[s] /\ out'[s][i] = pre[s][i]
                                       \/ \E j \in DOMAIN h[s] : out'[s][i] = AsEmission(h[s][j])
          /\ h[s] = <<>> => out'[s] = pre[s] /\ held'[s] = <<>>

LEMMA Concat ==
    ASSUME NEW S, NEW p \in Seq(S), NEW q \in Seq(S)
    PROVE  /\ p \o q \in Seq(S)
           /\ \A i \in DOMAIN (p \o q) : \/ i \in DOMAIN p /\ (p \o q)[i] = p[i]
                                         \/ \E j \in DOMAIN q : (p \o q)[i] = q[j]
           /\ q = <<>> => p \o q = p
<1>1. Len(p) \in Nat /\ Len(q) \in Nat /\ DOMAIN p = 1 .. Len(p) /\ DOMAIN q = 1 .. Len(q)
  OBVIOUS
<1> DEFINE r == p \o q
<1>2. r \in Seq(S) /\ Len(r) = Len(p) + Len(q) /\ DOMAIN r = 1 .. (Len(p) + Len(q))
  OBVIOUS
<1>3. \A i \in 1 .. Len(p) + Len(q) : r[i] = IF i <= Len(p) THEN p[i] ELSE q[i - Len(p)]
  OBVIOUS
<1>4. q = <<>> => r = p
  OBVIOUS
<1> HIDE DEF r
<1>5. ASSUME NEW i \in DOMAIN r
      PROVE  (i \in DOMAIN p /\ r[i] = p[i]) \/ \E j \in DOMAIN q : r[i] = q[j]
  <2>1. CASE i <= Len(p)
    BY <1>1, <1>2, <1>3, <2>1
  <2>2. CASE ~(i <= Len(p))
    <3>1. i - Len(p) \in DOMAIN q /\ r[i] = q[i - Len(p)]
      BY <1>1, <1>2, <1>3, <2>2
    <3> QED BY <3>1
  <2> QED BY <2>1, <2>2
<1> QED BY <1>2, <1>4, <1>5 DEF r

LEMMA PushAll ==
    ASSUME NEW pre \in [Sub -> Seq(Emission)], NEW h \in [Sub -> Seq(Delta)],
           NEW due, NEW overflowed, push_all(pre, h, due, overflowed)
    PROVE  Pushed(pre, h)
<1> DEFINE D(s) == {i \in DOMAIN h[s] : h[s][i].keys \subseteq due[s]}
           W(s) == {i \in DOMAIN h[s] : ~(h[s][i].keys \subseteq due[s])}
           d(s) == Kept(h[s], D(s))
           w(s) == Kept(h[s], W(s))
           tail(s) == IF s \in Debounced THEN Emissions(d(s)) ELSE <<>>
           rest(s) == IF s \in overflowed THEN <<>> ELSE IF s \in Debounced THEN w(s) ELSE h[s]
<1>1. /\ out' = [s \in Sub |-> pre[s] \o tail(s)]
      /\ held' = [s \in Sub |-> rest(s)]
  BY DEF push_all, Due, Wait
<1>2. ASSUME NEW s \in Sub
      PROVE  /\ d(s) \in Seq(Delta) /\ w(s) \in Seq(Delta)
             /\ Len(w(s)) <= Len(h[s])
             /\ \A i \in DOMAIN d(s) : \E j \in DOMAIN h[s] : d(s)[i] = h[s][j]
             /\ \A i \in DOMAIN w(s) : \E j \in DOMAIN h[s] : w(s)[i] = h[s][j]
             /\ h[s] = <<>> => d(s) = <<>> /\ w(s) = <<>>
  <2> DEFINE q == h[s]
             I == D(s)
             J == W(s)
  <2>1. q \in Seq(Delta) /\ I \in SUBSET DOMAIN q /\ J \in SUBSET DOMAIN q
    OBVIOUS
  <2> HIDE DEF q, I, J
  <2>2. /\ Kept(q, I) \in Seq(Delta)
        /\ \A n \in DOMAIN Kept(q, I) : \E i \in I : Kept(q, I)[n] = q[i]
        /\ q = <<>> => Kept(q, I) = <<>>
    BY <2>1, KeptPart
  <2>3. /\ Kept(q, J) \in Seq(Delta) /\ Len(Kept(q, J)) <= Len(q)
        /\ \A n \in DOMAIN Kept(q, J) : \E i \in J : Kept(q, J)[n] = q[i]
        /\ q = <<>> => Kept(q, J) = <<>>
    BY <2>1, KeptPart
  <2>4. /\ \A n \in DOMAIN Kept(q, I) : \E i \in DOMAIN q : Kept(q, I)[n] = q[i]
        /\ \A n \in DOMAIN Kept(q, J) : \E i \in DOMAIN q : Kept(q, J)[n] = q[i]
    BY <2>1, <2>2, <2>3
  <2> QED BY <2>2, <2>3, <2>4 DEF q, I, J
<1> HIDE DEF d, w
<1>3. ASSUME NEW s \in Sub
      PROVE  /\ tail(s) \in Seq(Emission)
             /\ \A i \in DOMAIN tail(s) : \E j \in DOMAIN h[s] : tail(s)[i] = AsEmission(h[s][j])
             /\ h[s] = <<>> => tail(s) = <<>>
  <2>1. CASE s \notin Debounced
    BY <2>1
  <2>2. CASE s \in Debounced
    <3> DEFINE q == d(s)
    <3>1. /\ q \in Seq(Delta)
          /\ \A i \in DOMAIN q : \E j \in DOMAIN h[s] : q[i] = h[s][j]
      BY <1>2
    <3>2. tail(s) = Emissions(q)
      BY <2>2
    <3> HIDE DEF q, tail
    <3>3. /\ Emissions(q) \in Seq(Emission) /\ Len(Emissions(q)) = Len(q)
          /\ \A i \in DOMAIN Emissions(q) : i \in DOMAIN q /\ Emissions(q)[i] = AsEmission(q[i])
      BY <1>2, EmissionsTyped DEF q
    <3>4. \A i \in DOMAIN Emissions(q) : \E j \in DOMAIN h[s] : Emissions(q)[i] = AsEmission(h[s][j])
      BY <3>1, <3>3
    <3>5. h[s] = <<>> => Emissions(q) = <<>>
      <4> SUFFICES ASSUME h[s] = <<>> PROVE Emissions(q) = <<>>
        OBVIOUS
      <4>1. q = <<>>
        BY <1>2 DEF q
      <4>2. Len(Emissions(q)) = 0
        BY <3>3, <4>1
      <4> QED BY <3>3, <4>2
    <3> QED BY <3>2, <3>3, <3>4, <3>5
  <2> QED BY <2>1, <2>2
<1>4. ASSUME NEW s \in Sub
      PROVE  /\ rest(s) \in Seq(Delta) /\ Len(rest(s)) <= Len(h[s])
             /\ \A i \in DOMAIN rest(s) : \E j \in DOMAIN h[s] : rest(s)[i] = h[s][j]
             /\ h[s] = <<>> => rest(s) = <<>>
  <2>1. h[s] \in Seq(Delta) /\ Len(h[s]) \in Nat
    OBVIOUS
  <2>2. CASE s \in overflowed
    <3>1. rest(s) = <<>>
      BY <2>2
    <3> HIDE DEF rest
    <3> QED BY <2>1, <3>1
  <2>3. CASE s \notin overflowed /\ s \in Debounced
    <3>1. rest(s) = w(s)
      BY <2>3
    <3> HIDE DEF rest
    <3> QED BY <1>2, <3>1
  <2>4. CASE s \notin overflowed /\ s \notin Debounced
    <3>1. rest(s) = h[s]
      BY <2>4
    <3> HIDE DEF rest
    <3> QED BY <2>1, <3>1
  <2> QED BY <2>2, <2>3, <2>4
<1> HIDE DEF tail, rest
<1>5. out' \in [Sub -> Seq(Emission)]
  <2>1. \A s \in Sub : pre[s] \o tail(s) \in Seq(Emission)
    BY <1>3
  <2> QED BY <1>1, <2>1
<1>6. held' \in [Sub -> Seq(Delta)]
  BY <1>1, <1>4
<1>7. ASSUME NEW s \in Sub
      PROVE  /\ Len(held'[s]) <= Len(h[s])
             /\ \A i \in DOMAIN held'[s] : \E j \in DOMAIN h[s] : held'[s][i] = h[s][j]
             /\ h[s] = <<>> => held'[s] = <<>>
  <2>1. held'[s] = rest(s)
    BY <1>1
  <2> QED BY <1>4, <2>1
<1>8. ASSUME NEW s \in Sub
      PROVE  /\ \A i \in DOMAIN out'[s] : \/ i \in DOMAIN pre[s] /\ out'[s][i] = pre[s][i]
                                          \/ \E j \in DOMAIN h[s] : out'[s][i] = AsEmission(h[s][j])
             /\ h[s] = <<>> => out'[s] = pre[s]
  <2> DEFINE p == pre[s]
             q == tail(s)
  <2>1. out'[s] = p \o q /\ p \in Seq(Emission)
    BY <1>1
  <2>2. \A i \in DOMAIN q : \E j \in DOMAIN h[s] : q[i] = AsEmission(h[s][j])
    BY <1>3
  <2>6. h[s] = <<>> => q = <<>>
    BY <1>3
  <2>7. q \in Seq(Emission)
    BY <1>3
  <2> HIDE DEF p, q
  <2>3. /\ \A i \in DOMAIN (p \o q) : \/ i \in DOMAIN p /\ (p \o q)[i] = p[i]
                                      \/ \E j \in DOMAIN q : (p \o q)[i] = q[j]
        /\ q = <<>> => p \o q = p
    BY <2>1, <2>7, Concat
  <2>4. \A i \in DOMAIN out'[s] : \/ i \in DOMAIN p /\ out'[s][i] = p[i]
                                  \/ \E j \in DOMAIN h[s] : out'[s][i] = AsEmission(h[s][j])
    BY <2>1, <2>2, <2>3
  <2>5. h[s] = <<>> => out'[s] = p
    BY <2>1, <2>6, <2>3
  <2> QED BY <2>4, <2>5 DEF p
<1> QED BY <1>5, <1>6, <1>7, <1>8 DEF Pushed

-----------------------------------------------------------------------------
(* One pass over a raw event.                                              *)

\* The types, as the proofs use them.
LEMMA Typing ==
    ASSUME TypeOK, RestTyped
    PROVE  /\ Plane(needs) /\ Plane(suppressed)
           /\ held \in [Sub -> Seq(Delta)] /\ out \in [Sub -> Seq(Emission)]
           /\ \A s \in Sub : /\ base[s] \in Nat /\ hw[s] \in Nat /\ peak[s] \in Nat
                             /\ KeyOf[s] \in Key /\ KeyOf[s] \in Seq(Component)
                             /\ Len(held[s]) \in Nat /\ Len(held[s]) <= MaxHeld
                             /\ last[s] \in Parked
           /\ raw \in Nat /\ live \subseteq Sub
<1>1. Plane(needs) /\ Plane(suppressed)
  BY DEF TypeOK, RestTyped, Plane
<1>2. held \in [Sub -> Seq(Delta)] /\ out \in [Sub -> Seq(Emission)]
  BY DEF RestTyped
<1>3. raw \in Nat /\ live \subseteq Sub
  BY DEF TypeOK
<1>4. ASSUME NEW s \in Sub
      PROVE  /\ base[s] \in Nat /\ hw[s] \in Nat /\ peak[s] \in Nat
             /\ KeyOf[s] \in Key /\ KeyOf[s] \in Seq(Component)
             /\ Len(held[s]) \in Nat /\ Len(held[s]) <= MaxHeld
             /\ last[s] \in Parked
  BY <1>2, KeyAssumption, SubAssumption DEF TypeOK, RestTyped
<1> QED BY <1>1, <1>2, <1>3, <1>4

\* What an ordinary change does: the deltas it emits or buffers were minted
\* for the subscriptions they go to, and what it withholds is parked.
Below(s, keys) == \A k \in keys : StartsWith(k, KeyOf[s])
Observed(P, d) ==
    /\ P \subseteq live
    /\ \A s \in P : d[s] \in Parked /\ d[s].key = KeyOf[s] /\ d[s].epoch = hw'[s] /\ hw[s] < hw'[s]
    /\ park(P, d)
    /\ hw' \in [Sub -> Nat] /\ \A s \in Sub : hw[s] <= hw'[s]
    /\ out' \in [Sub -> Seq(Emission)] /\ held' \in [Sub -> Seq(Delta)]
    /\ \A s \in Sub :
          /\ Len(held'[s]) <= MaxHeld
          /\ held'[s] # <<>> => s \in live \cap settling
          /\ out'[s] # <<>> => s \in live
          /\ \A i \in DOMAIN held'[s] : held'[s][i].epoch <= hw'[s] /\ Below(s, held'[s][i].keys)
          /\ \A i \in DOMAIN out'[s] : /\ out'[s][i].epoch <= hw'[s] /\ Below(s, out'[s][i].keys)
                                       /\ ~out'[s][i].rescan
                                       /\ s \notin settling => hw[s] <= out'[s][i].epoch
    /\ owed' \in [Sub -> SUBSET [keys : SUBSET Key, need : Nat]]
    /\ \A s \in Sub : \A o \in owed'[s] : o \in owed[s] \/ (s \in P /\ Covers(d[s], o))

LEMMA ObservePass ==
    ASSUME TypeOK, RestTyped, EntriesMinted,
           NEW ks \in Changes, NEW admitted, NEW poisoned, NEW cancelled, NEW due,
           Observe(ks, admitted, poisoned, cancelled, due)
    PROVE  \E P, d : Observed(P, d)
<1> DEFINE delta(s) == [keys |-> project(s, ks), epoch |-> stamp(s)]
           settles == {s \in (admitted \ poisoned) \cap settling : Cardinality(delta(s).keys) = 1}
           passing == admitted \ (poisoned \cup settles)
           overflow == {s \in settles : overflows(held[s], delta(s))}
           buffer == [s \in Sub |->
               IF s \in poisoned \cup passing THEN <<>>
               ELSE IF s \in settles \ overflow THEN coalesce(held[s], delta(s), s \in cancelled)
               ELSE held[s]]
           pre == [s \in Sub |->
               IF s \in poisoned THEN <<AsEmission(delta(s))>>
               ELSE IF s \in passing THEN Emissions(Append(held[s], delta(s)))
               ELSE <<>>]
           bumped(s) == larger(hw[s], stamp(s))
           parks == poisoned \cup overflow
           rescan == [s \in parks |-> [key |-> KeyOf[s], epoch |-> bumped(s) + 1]]
           Elem(s, d) == \/ \E j \in DOMAIN held[s] : d = held[s][j]
                         \/ s \in admitted /\ d = delta(s)
<1>1. /\ admitted \subseteq {s \in live : project(s, ks) # {}}
      /\ poisoned \subseteq admitted \ retired
      /\ push_all(pre, buffer, due, overflow)
      /\ park(parks, rescan)
      /\ hw' = [s \in Sub |-> IF s \in parks THEN bumped(s) + 1
                             ELSE IF s \in admitted THEN bumped(s) ELSE hw[s]]
      /\ owed' = [s \in Sub |->
             owed[s] \cup
             (IF s \in poisoned
              THEN Dropped(s) \cup {[keys |-> {KeyOf[s]}, need |-> bumped(s) + 1]} ELSE {})
             \cup
             (IF s \in overflow
              THEN {DebtOf(d) : d \in {delta(s)} \cup Range(Wait(buffer[s], due[s]))} ELSE {})]
  BY DEF Observe
<1>2. /\ held \in [Sub -> Seq(Delta)] /\ live \subseteq Sub
      /\ \A s \in Sub : /\ base[s] \in Nat /\ hw[s] \in Nat /\ raw \in Nat
                        /\ KeyOf[s] \in Key /\ KeyOf[s] \in Seq(Component)
                        /\ Len(held[s]) \in Nat /\ Len(held[s]) <= MaxHeld
  BY Typing
<1>3. /\ admitted \subseteq live /\ admitted \subseteq Sub /\ poisoned \subseteq admitted
      /\ settles \subseteq admitted \cap settling /\ settles \cap poisoned = {}
      /\ overflow \subseteq settles /\ parks \subseteq admitted
      /\ passing \subseteq admitted /\ passing \cap settles = {}
  BY <1>1, <1>2
<1>4. ASSUME NEW s \in Sub
      PROVE  /\ stamp(s) \in Nat /\ hw[s] <= stamp(s)
             /\ bumped(s) \in Nat /\ hw[s] <= bumped(s) /\ stamp(s) <= bumped(s)
  <2>1. stamp(s) \in Nat /\ hw[s] <= stamp(s)
    <3>1. base[s] + raw \in Nat /\ hw[s] \in Nat
      BY <1>2
    <3> QED BY <3>1, Larger DEF stamp
  <2> QED BY <1>2, <2>1, Larger
<1>5. ASSUME NEW s \in admitted
      PROVE  delta(s) \in Delta /\ Below(s, delta(s).keys) /\ delta(s).epoch = stamp(s)
  <2>1. project(s, ks) # {} /\ project(s, ks) \subseteq ks /\ Below(s, project(s, ks))
    BY <1>1 DEF project, Below
  <2>2. ks \subseteq Key
    BY ChangesAssumption
  <2>3. stamp(s) \in Nat /\ project(s, ks) \in (SUBSET Key) \ {{}}
    BY <1>3, <1>4, <2>1, <2>2
  <2> QED BY <2>1, <2>3 DEF Delta
<1>6. ASSUME NEW s \in Sub, NEW j \in DOMAIN held[s]
      PROVE  held[s][j] \in Delta /\ held[s][j].epoch <= hw[s] /\ Below(s, held[s][j].keys)
  BY <1>2 DEF EntriesMinted, Minted, Below
<1>7. ASSUME NEW s \in Sub, s \notin live \cap settling
      PROVE  held[s] = <<>>
  BY <1>7 DEF EntriesMinted
<1> HIDE DEF delta, settles, passing, overflow, parks, bumped
<1>8. ASSUME NEW s \in Sub
      PROVE  /\ pre[s] \in Seq(Emission)
             /\ \A i \in DOMAIN pre[s] : \E e \in Delta : Elem(s, e) /\ pre[s][i] = AsEmission(e)
             /\ pre[s] # <<>> => s \in admitted
  <2>1. CASE s \in poisoned
    <3>1. pre[s] = <<AsEmission(delta(s))>>
      BY <2>1
    <3>2. AsEmission(delta(s)) \in Emission
      BY <1>3, <1>5, <2>1 DEF AsEmission, Delta, Emission
    <3>3. delta(s) \in Delta /\ Elem(s, delta(s))
      BY <1>3, <1>5, <2>1
    <3> HIDE DEF pre, Elem
    <3> QED BY <1>3, <2>1, <3>1, <3>2, <3>3
  <2>2. CASE s \notin poisoned /\ s \in passing
    <3> DEFINE q == Append(held[s], delta(s))
    <3>1. pre[s] = Emissions(q)
      BY <2>2
    <3>2. held[s] \in Seq(Delta) /\ delta(s) \in Delta
      BY <1>2, <1>3, <1>5, <2>2
    <3>3. q \in Seq(Delta) /\ \A i \in DOMAIN q : Elem(s, q[i])
      <4>1. DOMAIN q = 1 .. Len(held[s]) + 1 /\ DOMAIN held[s] = 1 .. Len(held[s])
        BY <3>2
      <4>2. \A i \in 1 .. Len(held[s]) + 1 : q[i] = IF i <= Len(held[s]) THEN held[s][i] ELSE delta(s)
        BY <3>2
      <4>3. q \in Seq(Delta)
        BY <3>2
      <4> HIDE DEF q
      <4>4. ASSUME NEW i \in DOMAIN q PROVE Elem(s, q[i])
        <5>1. CASE i <= Len(held[s])
          BY <1>2, <4>1, <4>2, <5>1
        <5>2. CASE ~(i <= Len(held[s]))
          BY <1>3, <2>2, <4>1, <4>2, <5>2
        <5> QED BY <5>1, <5>2
      <4> QED BY <4>3, <4>4
    <3> HIDE DEF q, pre, Elem
    <3>4. /\ Emissions(q) \in Seq(Emission)
          /\ \A i \in DOMAIN Emissions(q) : i \in DOMAIN q /\ Emissions(q)[i] = AsEmission(q[i])
      BY <3>3, EmissionsTyped
    <3>5. \A i \in DOMAIN q : q[i] \in Delta
      BY <3>3
    <3> QED BY <1>3, <2>2, <3>1, <3>3, <3>4, <3>5
  <2>3. CASE s \notin poisoned /\ s \notin passing
    <3>1. pre[s] = <<>>
      BY <2>3
    <3> HIDE DEF pre
    <3> QED BY <3>1
  <2> QED BY <2>1, <2>2, <2>3
<1>9. ASSUME NEW s \in Sub
      PROVE  /\ buffer[s] \in Seq(Delta)
             /\ \A i \in DOMAIN buffer[s] : Elem(s, buffer[s][i])
             /\ Len(buffer[s]) <= MaxHeld
             /\ buffer[s] # <<>> => s \in live \cap settling
  <2>1. CASE s \in poisoned \cup passing
    <3>1. buffer[s] = <<>>
      BY <2>1
    <3> HIDE DEF buffer
    <3> QED BY <3>1, BoundAssumption
  <2>2. CASE s \notin poisoned \cup passing /\ s \in settles \ overflow
    <3> DEFINE q == held[s]
               I == {i \in DOMAIN q : q[i].keys # delta(s).keys}
               o == Kept(q, I)
               b == buffer[s]
    <3>1. b = IF s \in cancelled THEN o ELSE Append(o, delta(s))
      BY <1>3, <2>2 DEF coalesce, Others
    <3>2. q \in Seq(Delta) /\ delta(s) \in Delta /\ I \in SUBSET DOMAIN q /\ s \in live \cap settling
      BY <1>2, <1>3, <1>5, <2>2
    <3>3. ~Holds(q, delta(s)) => Len(q) < MaxHeld
      <4>1. ~overflows(q, delta(s))
        BY <2>2 DEF overflow
      <4> QED BY <1>2, <4>1, BoundAssumption DEF overflows
    <3>4. Holds(q, delta(s)) => I # DOMAIN q
      BY DEF Holds
    <3>5. Len(q) \in Nat /\ Len(q) <= MaxHeld
      BY <1>2
    <3> HIDE DEF I
    <3>6. /\ o \in Seq(Delta) /\ Len(o) <= Len(q) /\ (I # DOMAIN q => Len(o) < Len(q))
          /\ \A n \in DOMAIN o : \E i \in I : o[n] = q[i]
      <4> HIDE DEF q
      <4> QED BY <3>2, KeptPart
    <3>7. \A n \in DOMAIN o : Elem(s, o[n])
      <4>1. \A n \in DOMAIN o : \E j \in DOMAIN q : o[n] = q[j]
        BY <3>2, <3>6
      <4> HIDE DEF o
      <4> QED BY <4>1
    <3>8. Elem(s, delta(s))
      BY <1>3, <2>2
    <3> HIDE DEF o, b, q, Elem
    <3>9. Len(o) \in Nat /\ (Len(o) < Len(q) \/ Len(q) < MaxHeld)
      BY <3>3, <3>4, <3>6
    <3>10. b \in Seq(Delta) /\ Len(b) <= MaxHeld /\ \A i \in DOMAIN b : Elem(s, b[i])
      <4>1. CASE s \in cancelled
        BY <3>1, <3>5, <3>6, <3>7, <3>9, <4>1, BoundAssumption
      <4>2. CASE s \notin cancelled
        <5>1. b = Append(o, delta(s))
          BY <3>1, <4>2
        <5>2. b \in Seq(Delta) /\ Len(b) = Len(o) + 1
          BY <3>2, <3>6, <5>1
        <5>3. Len(b) <= MaxHeld
          BY <3>5, <3>6, <3>9, <5>2, BoundAssumption
        <5>4. ASSUME NEW i \in DOMAIN b PROVE Elem(s, b[i])
          <6>1. i \in 1 .. Len(o) + 1 /\ DOMAIN o = 1 .. Len(o)
            BY <3>6, <5>2
          <6>2. b[i] = IF i <= Len(o) THEN o[i] ELSE delta(s)
            BY <3>2, <3>6, <5>1, <6>1
          <6> QED BY <3>7, <3>8, <3>9, <6>1, <6>2
        <5> QED BY <5>2, <5>3, <5>4
      <4> QED BY <4>1, <4>2
    <3> QED BY <3>2, <3>10 DEF b
  <2>3. CASE s \notin poisoned \cup passing /\ s \notin settles \ overflow
    <3>1. buffer[s] = held[s]
      BY <2>3
    <3>2. \A i \in DOMAIN held[s] : Elem(s, held[s][i])
      OBVIOUS
    <3> HIDE DEF buffer, Elem
    <3> QED BY <1>2, <1>7, <3>1, <3>2
  <2> QED BY <2>1, <2>2, <2>3
<1> HIDE DEF Elem
<1>10. pre \in [Sub -> Seq(Emission)] /\ buffer \in [Sub -> Seq(Delta)]
  BY <1>8, <1>9
<1>11. \A s \in overflow : buffer[s] = held[s]
  <2>1. \A s \in overflow : s \in Sub /\ s \notin poisoned \cup passing /\ s \notin settles \ overflow
    BY <1>3 DEF passing
  <2> QED BY <2>1
<1> HIDE DEF pre, buffer, rescan
<1>12. Pushed(pre, buffer)
  BY <1>1, <1>10, PushAll
<1>13. \A s \in Sub : hw'[s] \in Nat /\ hw[s] <= hw'[s] /\ (s \in admitted => stamp(s) <= hw'[s])
  <2> SUFFICES ASSUME NEW s \in Sub
               PROVE  hw'[s] \in Nat /\ hw[s] <= hw'[s] /\ (s \in admitted => stamp(s) <= hw'[s])
    OBVIOUS
  <2>1. hw'[s] = IF s \in parks THEN bumped(s) + 1 ELSE IF s \in admitted THEN bumped(s) ELSE hw[s]
    BY <1>1
  <2> QED BY <1>2, <1>4, <2>1
<1>14. ASSUME NEW s \in Sub, NEW e \in Delta, Elem(s, e)
       PROVE  /\ e.epoch <= hw'[s] /\ Below(s, e.keys)
              /\ s \notin settling => hw[s] <= e.epoch
  <2>1. CASE \E j \in DOMAIN held[s] : e = held[s][j]
    <3>1. PICK j \in DOMAIN held[s] : e = held[s][j]
      BY <2>1
    <3>2. e.epoch <= hw[s] /\ Below(s, e.keys) /\ e.epoch \in Nat
      BY <1>6, <3>1 DEF Delta
    <3>3. s \in settling
      <4>1. held[s] # <<>>
        BY <3>1
      <4> QED BY <1>7, <4>1
    <3> QED BY <1>2, <1>13, <3>2, <3>3
  <2>2. CASE s \in admitted /\ e = delta(s)
    BY <1>4, <1>5, <1>13, <2>2
  <2> QED BY <1>14, <2>1, <2>2 DEF Elem
<1>15. \A s \in parks : /\ rescan[s] \in Parked /\ rescan[s].key = KeyOf[s]
                        /\ rescan[s].epoch = hw'[s] /\ hw[s] < hw'[s]
                        /\ hw'[s] = bumped(s) + 1
  <2> SUFFICES ASSUME NEW s \in parks
               PROVE  /\ rescan[s] \in Parked /\ rescan[s].key = KeyOf[s]
                      /\ rescan[s].epoch = hw'[s] /\ hw[s] < hw'[s] /\ hw'[s] = bumped(s) + 1
    OBVIOUS
  <2>1. s \in Sub
    BY <1>3
  <2>2. hw'[s] = bumped(s) + 1
    BY <1>1, <2>1
  <2>3. rescan[s] = [key |-> KeyOf[s], epoch |-> bumped(s) + 1]
    BY DEF rescan
  <2> QED BY <1>2, <1>4, <2>1, <2>2, <2>3 DEF Parked
<1>16. ASSUME NEW s \in Sub
       PROVE  /\ Len(held'[s]) <= MaxHeld
              /\ held'[s] # <<>> => s \in live \cap settling
              /\ \A i \in DOMAIN held'[s] : held'[s][i].epoch <= hw'[s] /\ Below(s, held'[s][i].keys)
  <2>1. /\ Len(held'[s]) <= Len(buffer[s]) /\ held' \in [Sub -> Seq(Delta)]
        /\ \A i \in DOMAIN held'[s] : \E j \in DOMAIN buffer[s] : held'[s][i] = buffer[s][j]
        /\ buffer[s] = <<>> => held'[s] = <<>>
    BY <1>12 DEF Pushed
  <2>2. \A i \in DOMAIN held'[s] : held'[s][i] \in Delta /\ Elem(s, held'[s][i])
    BY <1>9, <2>1
  <2>3. Len(held'[s]) \in Nat /\ Len(buffer[s]) \in Nat
    BY <1>9, <2>1
  <2>4. Len(held'[s]) <= MaxHeld
    BY <1>9, <2>1, <2>3, BoundAssumption
  <2>5. held'[s] # <<>> => s \in live \cap settling
    BY <1>9, <2>1
  <2> QED BY <1>14, <2>2, <2>4, <2>5
<1>17. ASSUME NEW s \in Sub
       PROVE  /\ out'[s] # <<>> => s \in live
              /\ \A i \in DOMAIN out'[s] : /\ out'[s][i].epoch <= hw'[s] /\ Below(s, out'[s][i].keys)
                                           /\ ~out'[s][i].rescan
                                           /\ s \notin settling => hw[s] <= out'[s][i].epoch
  <2>1. /\ out' \in [Sub -> Seq(Emission)]
        /\ \A i \in DOMAIN out'[s] : \/ i \in DOMAIN pre[s] /\ out'[s][i] = pre[s][i]
                                     \/ \E j \in DOMAIN buffer[s] : out'[s][i] = AsEmission(buffer[s][j])
        /\ buffer[s] = <<>> => out'[s] = pre[s]
    BY <1>12 DEF Pushed
  <2>2. ASSUME NEW i \in DOMAIN out'[s]
        PROVE  \E e \in Delta : Elem(s, e) /\ out'[s][i] = AsEmission(e)
    <3>1. CASE i \in DOMAIN pre[s] /\ out'[s][i] = pre[s][i]
      BY <1>8, <3>1
    <3>2. CASE \E j \in DOMAIN buffer[s] : out'[s][i] = AsEmission(buffer[s][j])
      <4>1. PICK j \in DOMAIN buffer[s] : out'[s][i] = AsEmission(buffer[s][j])
        BY <3>2
      <4>2. buffer[s][j] \in Delta /\ Elem(s, buffer[s][j])
        BY <1>9
      <4> QED BY <4>1, <4>2
    <3> QED BY <2>1, <3>1, <3>2
  <2>3. ASSUME NEW i \in DOMAIN out'[s]
        PROVE  /\ out'[s][i].epoch <= hw'[s] /\ Below(s, out'[s][i].keys)
               /\ ~out'[s][i].rescan
               /\ s \notin settling => hw[s] <= out'[s][i].epoch
    <3>1. PICK e \in Delta : Elem(s, e) /\ out'[s][i] = AsEmission(e)
      BY <2>2
    <3>2. out'[s][i].epoch = e.epoch /\ out'[s][i].keys = e.keys /\ ~out'[s][i].rescan
      BY <3>1 DEF AsEmission
    <3> QED BY <1>14, <3>1, <3>2
  <2>4. out'[s] # <<>> => s \in live
    <3>1. CASE buffer[s] = <<>>
      BY <1>3, <1>8, <2>1, <3>1
    <3>2. CASE buffer[s] # <<>>
      BY <1>9, <3>2
    <3> QED BY <3>1, <3>2
  <2> QED BY <2>3, <2>4
<1>18. ASSUME NEW s \in Sub, NEW o \in owed'[s], o \notin owed[s]
       PROVE  /\ s \in parks /\ Covers(rescan[s], o)
              /\ o \in [keys : SUBSET Key, need : Nat]
  <2>1. ASSUME NEW e \in Delta, Elem(s, e), o = DebtOf(e), s \in parks
        PROVE  Covers(rescan[s], o) /\ o \in [keys : SUBSET Key, need : Nat]
    <3>1. e.epoch \in Nat /\ e.keys \in SUBSET Key
      BY DEF Delta
    <3>2. e.epoch <= bumped(s)
      <4>1. CASE \E j \in DOMAIN held[s] : e = held[s][j]
        BY <1>2, <1>4, <1>6, <3>1, <4>1
      <4>2. CASE s \in admitted /\ e = delta(s)
        BY <1>4, <1>5, <4>2
      <4> QED BY <2>1, <4>1, <4>2 DEF Elem
    <3>3. o.need = e.epoch + 1 /\ o.keys = e.keys
      BY <2>1 DEF DebtOf
    <3>4. o \in [keys : SUBSET Key, need : Nat]
      BY <2>1, <3>1 DEF DebtOf
    <3>5. Below(s, e.keys) /\ rescan[s].key = KeyOf[s] /\ rescan[s].epoch = bumped(s) + 1
      BY <1>14, <1>15, <2>1
    <3>6. o.need <= rescan[s].epoch
      BY <1>4, <3>1, <3>2, <3>3, <3>5
    <3> QED BY <3>3, <3>4, <3>5, <3>6 DEF Covers, Below
  <2>2. owed'[s] = owed[s] \cup
             (IF s \in poisoned
              THEN Dropped(s) \cup {[keys |-> {KeyOf[s]}, need |-> bumped(s) + 1]} ELSE {})
             \cup
             (IF s \in overflow
              THEN {DebtOf(d) : d \in {delta(s)} \cup Range(Wait(buffer[s], due[s]))} ELSE {})
    BY <1>1
  <2>3. ASSUME s \in poisoned, o \in Dropped(s)
        PROVE  s \in parks /\ \E e \in Delta : Elem(s, e) /\ o = DebtOf(e)
    <3>1. PICK j \in DOMAIN held[s] : o = DebtOf(held[s][j])
      BY <2>3 DEF Dropped, Range
    <3>2. held[s][j] \in Delta /\ Elem(s, held[s][j])
      BY <1>6 DEF Elem
    <3> QED BY <2>3, <3>1, <3>2 DEF parks
  <2>4. ASSUME s \in overflow, o \in {DebtOf(d) : d \in {delta(s)} \cup Range(Wait(buffer[s], due[s]))}
        PROVE  s \in parks /\ \E e \in Delta : Elem(s, e) /\ o = DebtOf(e)
    <3>1. CASE o = DebtOf(delta(s))
      <4>1. delta(s) \in Delta /\ Elem(s, delta(s))
        BY <1>3, <1>5, <2>4 DEF Elem
      <4> QED BY <2>4, <3>1, <4>1 DEF parks
    <3>2. CASE \E d \in Range(Wait(buffer[s], due[s])) : o = DebtOf(d)
      <4> DEFINE q == held[s]
                 I == {i \in DOMAIN q : ~(q[i].keys \subseteq due[s])}
      <4>1. Wait(buffer[s], due[s]) = Kept(q, I) /\ q \in Seq(Delta) /\ I \in SUBSET DOMAIN q
        BY <1>2, <1>11, <2>4 DEF Wait
      <4> HIDE DEF q, I
      <4>2. \A n \in DOMAIN Kept(q, I) : \E i \in I : Kept(q, I)[n] = q[i]
        BY <4>1, KeptPart
      <4>3. PICK n \in DOMAIN Kept(q, I) : o = DebtOf(Kept(q, I)[n])
        BY <3>2, <4>1 DEF Range
      <4>4. PICK i \in DOMAIN q : o = DebtOf(q[i])
        BY <4>1, <4>2, <4>3
      <4>5. q[i] \in Delta /\ Elem(s, q[i])
        BY <1>6 DEF q, Elem
      <4> QED BY <2>4, <4>4, <4>5 DEF parks
    <3> QED BY <2>4, <3>1, <3>2
  <2>5. CASE s \in poisoned /\ o = [keys |-> {KeyOf[s]}, need |-> bumped(s) + 1]
    <3>1. s \in parks
      BY <2>5 DEF parks
    <3>2. rescan[s].key = KeyOf[s] /\ rescan[s].epoch = bumped(s) + 1
      BY <1>15, <3>1
    <3>3. StartsWith(KeyOf[s], KeyOf[s]) /\ bumped(s) + 1 \in Nat /\ {KeyOf[s]} \in SUBSET Key
      BY <1>2, <1>4, Inside
    <3>4. Covers(rescan[s], o)
      BY <2>5, <3>2, <3>3 DEF Covers
    <3> QED BY <2>5, <3>1, <3>3, <3>4
  <2>6. \/ s \in poisoned /\ o \in Dropped(s)
        \/ s \in poisoned /\ o = [keys |-> {KeyOf[s]}, need |-> bumped(s) + 1]
        \/ s \in overflow /\ o \in {DebtOf(d) : d \in {delta(s)} \cup Range(Wait(buffer[s], due[s]))}
    BY <1>18, <2>2
  <2>7. CASE s \in parks /\ \E e \in Delta : Elem(s, e) /\ o = DebtOf(e)
    BY <2>1, <2>7
  <2> QED BY <2>3, <2>4, <2>5, <2>6, <2>7
<1>19. hw' \in [Sub -> Nat] /\ \A s \in Sub : hw[s] <= hw'[s]
  BY <1>1, <1>13
<1>20. owed' \in [Sub -> SUBSET [keys : SUBSET Key, need : Nat]]
  <2>1. \A s \in Sub : owed[s] \in SUBSET [keys : SUBSET Key, need : Nat]
    BY DEF RestTyped
  <2>2. \A s \in Sub : owed'[s] \in SUBSET [keys : SUBSET Key, need : Nat]
    BY <1>18, <2>1
  <2>3. owed' = [s \in Sub |-> owed'[s]]
    BY <1>1
  <2> QED BY <2>2, <2>3
<1>21. parks \subseteq live /\ out' \in [Sub -> Seq(Emission)] /\ held' \in [Sub -> Seq(Delta)]
  BY <1>3, <1>12 DEF Pushed
<1>22. Observed(parks, rescan)
  BY <1>1, <1>15, <1>16, <1>17, <1>18, <1>19, <1>20, <1>21 DEF Observed
<1> QED BY <1>22

\* What every pass leaves: deltas held and deliveries to emit that were
\* minted for live subscriptions, a Rescan above all that was sent and last.
Emitted ==
    /\ hw' \in [Sub -> Nat]
    /\ out' \in [Sub -> Seq(Emission)] /\ held' \in [Sub -> Seq(Delta)]
    /\ \A s \in Sub :
          /\ hw[s] <= hw'[s]
          /\ Len(held'[s]) <= MaxHeld
          /\ held'[s] # <<>> => s \in live \cap settling
          /\ out'[s] # <<>> => s \in live
          /\ \A i \in DOMAIN held'[s] : held'[s][i].epoch <= hw'[s] /\ Below(s, held'[s][i].keys)
          /\ \A i \in DOMAIN out'[s] :
                /\ out'[s][i].epoch <= hw'[s] /\ Below(s, out'[s][i].keys)
                /\ s \notin settling => hw[s] <= out'[s][i].epoch
                /\ out'[s][i].rescan =>
                      /\ i = Len(out'[s]) /\ hw[s] < out'[s][i].epoch
                      /\ \A j \in 1 .. i - 1 : out'[s][j].epoch < out'[s][i].epoch

\* What a pass adds to what is owed is covered by what it emits.
OwedEmitted ==
    /\ owed' \in [Sub -> SUBSET [keys : SUBSET Key, need : Nat]]
    /\ \A s \in Sub : \A o \in owed'[s] :
          o \in owed[s] \/ \E i \in DOMAIN out'[s] : out'[s][i].rescan /\ Covers(AsParked(out'[s][i]), o)

LEMMA ObserveEmits ==
    ASSUME NEW P, NEW d, Observed(P, d)
    PROVE  Emitted
BY DEF Observed, Emitted

\* What is held was minted and is typed.
LEMMA HeldMinted ==
    ASSUME TypeOK, RestTyped, EntriesMinted, NEW s \in Sub
    PROVE  /\ \A j \in DOMAIN held[s] : /\ held[s][j] \in Delta /\ held[s][j].epoch \in Nat
                                        /\ held[s][j].epoch <= hw[s] /\ Below(s, held[s][j].keys)
           /\ held[s] # <<>> => s \in live \cap settling
           /\ held[s] \in Seq(Delta)
<1>1. held[s] \in Seq(Delta)
  BY Typing
<1>2. \A j \in DOMAIN held[s] : held[s][j] \in Delta
  BY <1>1
<1>3. \A j \in DOMAIN held[s] : held[s][j].epoch <= hw[s] /\ Below(s, held[s][j].keys)
  BY DEF EntriesMinted, Minted, Below
<1>4. held[s] # <<>> => s \in live \cap settling
  BY DEF EntriesMinted
<1> QED BY <1>1, <1>2, <1>3, <1>4 DEF Delta

\* A buffer dropped with a Rescan of the subscription's key above its
\* high-water is covered by it.
LEMMA DroppedCovered ==
    ASSUME TypeOK, RestTyped, EntriesMinted, NEW s \in Sub, NEW r \in Parked,
           r.key = KeyOf[s], hw[s] + 1 <= r.epoch
    PROVE  \A o \in Dropped(s) : o \in [keys : SUBSET Key, need : Nat] /\ Covers(r, o)
<1> SUFFICES ASSUME NEW o \in Dropped(s)
             PROVE  o \in [keys : SUBSET Key, need : Nat] /\ Covers(r, o)
  OBVIOUS
<1>1. PICK j \in DOMAIN held[s] : o = DebtOf(held[s][j])
  BY DEF Dropped, Range
<1> DEFINE e == held[s][j]
<1>2. e \in Delta /\ e.epoch \in Nat /\ e.epoch <= hw[s] /\ Below(s, e.keys)
  BY HeldMinted
<1>3. o = [keys |-> e.keys, need |-> e.epoch + 1]
  BY <1>1 DEF DebtOf
<1>4. hw[s] \in Nat /\ r.epoch \in Nat
  BY Typing DEF Parked
<1> HIDE DEF e
<1> QED BY <1>2, <1>3, <1>4 DEF Covers, Below, Delta

\* The Rescan of one key is parked as it is emitted.
LEMMA ParkedSingle ==
    ASSUME NEW k, NEW n, NEW b
    PROVE  AsParked([rescan |-> b, keys |-> {k}, epoch |-> n]) = [key |-> k, epoch |-> n]
<1>1. (CHOOSE x \in {k} : TRUE) = k
  OBVIOUS
<1> QED BY <1>1 DEF AsParked

LEMMA RepointPass ==
    ASSUME TypeOK, RestTyped, EntriesMinted, repoint
    PROVE  /\ Emitted /\ OwedEmitted
           /\ base' \in [Sub -> Nat]
<1> DEFINE n(s) == hw[s] + 1
           rescan(s) == [rescan |-> TRUE, keys |-> {KeyOf[s]}, epoch |-> n(s)]
           parked(s) == [key |-> KeyOf[s], epoch |-> n(s)]
<1>1. /\ held' = [s \in Sub |-> IF s \in live THEN <<>> ELSE held[s]]
      /\ base' = [s \in Sub |-> IF s \in live THEN n(s) ELSE base[s]]
      /\ hw' = [s \in Sub |-> IF s \in live THEN n(s) ELSE hw[s]]
      /\ out' = [s \in Sub |-> IF s \in live THEN <<rescan(s)>> ELSE <<>>]
      /\ owed' = [s \in Sub |-> IF s \in live
                                THEN owed[s] \cup Dropped(s) \cup {Debt(rescan(s))}
                                ELSE owed[s]]
  BY DEF repoint, drop_subscription, shed_rescan
<1>2. ASSUME NEW s \in Sub
      PROVE  /\ hw[s] \in Nat /\ base[s] \in Nat /\ n(s) \in Nat /\ hw[s] < n(s)
             /\ KeyOf[s] \in Key /\ KeyOf[s] \in Seq(Component) /\ StartsWith(KeyOf[s], KeyOf[s])
             /\ rescan(s) \in Emission /\ parked(s) \in Parked
  <2>1. hw[s] \in Nat /\ base[s] \in Nat /\ KeyOf[s] \in Key /\ KeyOf[s] \in Seq(Component)
    BY Typing
  <2>2. n(s) \in Nat /\ hw[s] < n(s)
    BY <2>1
  <2>3. StartsWith(KeyOf[s], KeyOf[s])
    BY <2>1, Inside
  <2>4. {KeyOf[s]} \in (SUBSET Key) \ {{}}
    BY <2>1
  <2> HIDE DEF n
  <2>5. rescan(s) \in Emission /\ parked(s) \in Parked
    BY <2>1, <2>2, <2>4 DEF Emission, Parked
  <2> QED BY <2>1, <2>2, <2>3, <2>5
<1>3. base' \in [Sub -> Nat] /\ hw' \in [Sub -> Nat]
  BY <1>1, <1>2
<1>4. out' \in [Sub -> Seq(Emission)]
  <2>1. \A s \in Sub : rescan(s) \in Emission
    BY <1>2
  <2> HIDE DEF rescan
  <2>2. \A s \in Sub : <<rescan(s)>> \in Seq(Emission) /\ <<>> \in Seq(Emission)
    BY <2>1
  <2> QED BY <1>1, <2>2
<1>5. held' \in [Sub -> Seq(Delta)]
  <2>1. \A s \in Sub : held[s] \in Seq(Delta) /\ <<>> \in Seq(Delta)
    BY HeldMinted
  <2> QED BY <1>1, <2>1
<1>6. ASSUME NEW s \in Sub
      PROVE  /\ hw[s] <= hw'[s]
             /\ Len(held'[s]) <= MaxHeld
             /\ held'[s] # <<>> => s \in live \cap settling
             /\ out'[s] # <<>> => s \in live
             /\ \A i \in DOMAIN held'[s] : held'[s][i].epoch <= hw'[s] /\ Below(s, held'[s][i].keys)
             /\ \A i \in DOMAIN out'[s] :
                   /\ out'[s][i].epoch <= hw'[s] /\ Below(s, out'[s][i].keys)
                   /\ hw[s] <= out'[s][i].epoch
                   /\ i = Len(out'[s]) /\ hw[s] < out'[s][i].epoch
                   /\ \A j \in 1 .. i - 1 : out'[s][j].epoch < out'[s][i].epoch
  <2>0. held'[s] = <<>>
    <3>1. s \notin live => held[s] = <<>>
      BY HeldMinted
    <3> QED BY <1>1, <3>1
  <2>1. CASE s \in live
    <3>1. out'[s] = <<rescan(s)>> /\ hw'[s] = n(s)
      BY <1>1, <2>1
    <3>2. rescan(s).epoch = n(s) /\ rescan(s).keys = {KeyOf[s]}
      OBVIOUS
    <3>3. hw[s] \in Nat /\ n(s) \in Nat /\ hw[s] < n(s) /\ StartsWith(KeyOf[s], KeyOf[s])
      BY <1>2
    <3> HIDE DEF rescan, n
    <3>4. Len(out'[s]) = 1 /\ DOMAIN out'[s] = {1} /\ out'[s][1] = rescan(s)
      BY <3>1
    <3> QED BY <2>0, <2>1, <3>1, <3>2, <3>3, <3>4, BoundAssumption DEF Below
  <2>2. CASE s \notin live
    <3>1. out'[s] = <<>> /\ hw'[s] = hw[s]
      BY <1>1, <2>2
    <3>2. Len(held'[s]) = 0 /\ DOMAIN held'[s] = {} /\ DOMAIN out'[s] = {}
      BY <2>0, <3>1
    <3>3. hw[s] \in Nat
      BY <1>2
    <3> QED BY <2>0, <2>2, <3>1, <3>2, <3>3, BoundAssumption
  <2> QED BY <2>1, <2>2
<1>7. Emitted
  BY <1>3, <1>4, <1>5, <1>6 DEF Emitted
<1>8. ASSUME NEW s \in Sub, NEW o \in owed'[s], o \notin owed[s]
      PROVE  /\ \E i \in DOMAIN out'[s] : out'[s][i].rescan /\ Covers(AsParked(out'[s][i]), o)
             /\ o \in [keys : SUBSET Key, need : Nat]
  <2>1. s \in live /\ (o \in Dropped(s) \/ o = Debt(rescan(s)))
    BY <1>1, <1>8
  <2>2. 1 \in DOMAIN out'[s] /\ out'[s][1] = rescan(s)
    <3> HIDE DEF rescan
    <3>1. out'[s] = <<rescan(s)>>
      BY <1>1, <2>1
    <3> QED BY <3>1
  <2>3. AsParked(rescan(s)) = parked(s) /\ rescan(s).rescan
    BY ParkedSingle
  <2>4. Covers(parked(s), o) /\ o \in [keys : SUBSET Key, need : Nat]
    <3>1. CASE o \in Dropped(s)
      <4>1. parked(s) \in Parked /\ parked(s).key = KeyOf[s] /\ parked(s).epoch = hw[s] + 1
        BY <1>2
      <4>2. hw[s] \in Nat
        BY <1>2
      <4> HIDE DEF parked
      <4>3. hw[s] + 1 <= parked(s).epoch
        BY <4>1, <4>2
      <4> QED BY <3>1, <4>1, <4>3, DroppedCovered
    <3>2. CASE o = Debt(rescan(s))
      <4>1. o = [keys |-> {KeyOf[s]}, need |-> n(s)]
        BY <3>2 DEF Debt
      <4>2. n(s) \in Nat /\ {KeyOf[s]} \in SUBSET Key /\ StartsWith(KeyOf[s], KeyOf[s])
        BY <1>2
      <4> HIDE DEF n
      <4> QED BY <4>1, <4>2 DEF Covers
    <3> QED BY <2>1, <3>1, <3>2
  <2> HIDE DEF parked, rescan
  <2> QED BY <2>2, <2>3, <2>4
<1>9. owed' \in [Sub -> SUBSET [keys : SUBSET Key, need : Nat]]
  <2>1. \A s \in Sub : owed[s] \in SUBSET [keys : SUBSET Key, need : Nat]
    BY DEF RestTyped
  <2>2. \A s \in Sub : owed'[s] \in SUBSET [keys : SUBSET Key, need : Nat]
    BY <1>8, <2>1
  <2>3. owed' = [s \in Sub |-> owed'[s]]
    BY <1>1
  <2> QED BY <2>2, <2>3
<1>10. OwedEmitted
  BY <1>8, <1>9 DEF OwedEmitted
<1> QED BY <1>3, <1>7, <1>10

LEMMA SourcePass ==
    ASSUME TypeOK, RestTyped, EntriesMinted, NEW k \in Key, NEW due, SourceRescan(k, due)
    PROVE  Emitted /\ OwedEmitted
<1> DEFINE at == clamp(k)
           touched == {s \in live : StartsWith(at, KeyOf[s]) \/ StartsWith(KeyOf[s], at)}
           n(s) == stamp_rescan(s, raw + 1)
           p(s) == project_rescan(s, at)
           rescan(s) == [rescan |-> TRUE, keys |-> {p(s)}, epoch |-> n(s)]
           parked(s) == [key |-> p(s), epoch |-> n(s)]
           buffer == [s \in Sub |-> IF s \in touched THEN <<>> ELSE held[s]]
           pre == [s \in Sub |-> IF s \in touched THEN Append(Emissions(held[s]), rescan(s)) ELSE <<>>]
<1>1. /\ push_all(pre, buffer, due, {})
      /\ hw' = [s \in Sub |-> IF s \in touched THEN larger(hw[s], rescan(s).epoch) ELSE hw[s]]
      /\ owed' = [s \in Sub |-> IF s \in touched THEN owed[s] \cup {Debt(rescan(s))} ELSE owed[s]]
      /\ live # {}
  BY DEF SourceRescan
<1>2. at \in Key
  BY <1>1 DEF clamp, RestTyped
<1>3. ASSUME NEW s \in Sub
      PROVE  /\ hw[s] \in Nat /\ n(s) \in Nat /\ hw[s] < n(s)
             /\ p(s) \in Key /\ p(s) \in Seq(Component) /\ StartsWith(p(s), KeyOf[s])
             /\ rescan(s) \in Emission /\ parked(s) \in Parked
  <2>1. hw[s] \in Nat /\ base[s] \in Nat /\ raw \in Nat /\ KeyOf[s] \in Key /\ KeyOf[s] \in Seq(Component)
    BY Typing
  <2>2. n(s) \in Nat /\ hw[s] < n(s)
    <3>1. base[s] + (raw + 1) \in Nat /\ hw[s] + 1 \in Nat
      BY <2>1
    <3>2. n(s) \in Nat /\ hw[s] + 1 <= n(s)
      BY <3>1, Larger DEF stamp_rescan
    <3> HIDE DEF n
    <3> QED BY <2>1, <3>2
  <2>3. p(s) \in Key /\ StartsWith(p(s), KeyOf[s])
    BY <1>2, <2>1, Inside DEF project_rescan
  <2>4. p(s) \in Seq(Component)
    BY <2>3, KeyAssumption
  <2> HIDE DEF n, p
  <2>5. {p(s)} \in (SUBSET Key) \ {{}}
    BY <2>3
  <2>6. rescan(s) \in Emission /\ parked(s) \in Parked
    BY <2>2, <2>4, <2>5 DEF Emission, Parked
  <2> QED BY <2>1, <2>2, <2>3, <2>4, <2>6
<1>5. ASSUME NEW s \in Sub
      PROVE  rescan(s).rescan /\ rescan(s).epoch = n(s) /\ rescan(s).keys = {p(s)}
             /\ AsParked(rescan(s)) = parked(s)
             /\ Debt(rescan(s)) = [keys |-> {p(s)}, need |-> n(s)]
  BY ParkedSingle DEF Debt
<1> HIDE DEF n, p, rescan, at
<1>6. hw' \in [Sub -> Nat] /\ \A s \in Sub : /\ hw[s] <= hw'[s]
                                             /\ s \in touched => n(s) <= hw'[s]
  <2>1. ASSUME NEW s \in Sub
        PROVE  /\ hw'[s] \in Nat /\ hw[s] <= hw'[s]
               /\ s \in touched => n(s) <= hw'[s]
    <3>1. hw'[s] = IF s \in touched THEN larger(hw[s], n(s)) ELSE hw[s]
      BY <1>1, <1>5
    <3>2. hw[s] \in Nat /\ n(s) \in Nat
      BY <1>3
    <3> QED BY <3>1, <3>2, Larger
  <2>2. hw' = [s \in Sub |-> hw'[s]]
    BY <1>1
  <2> QED BY <2>1, <2>2
<1>7. buffer \in [Sub -> Seq(Delta)]
  <2>1. \A s \in Sub : held[s] \in Seq(Delta) /\ <<>> \in Seq(Delta)
    BY HeldMinted
  <2> QED BY <2>1
<1>8. ASSUME NEW s \in Sub
      PROVE  /\ Emissions(held[s]) \in Seq(Emission) /\ Len(Emissions(held[s])) \in Nat
             /\ \A i \in DOMAIN Emissions(held[s]) :
                   i \in DOMAIN held[s] /\ Emissions(held[s])[i] = AsEmission(held[s][i])
  <2>1. held[s] \in Seq(Delta)
    BY HeldMinted
  <2>2. Emissions(held[s]) \in Seq(Emission)
    BY <2>1, EmissionsTyped
  <2> QED BY <2>1, <2>2, EmissionsTyped
<1>9. pre \in [Sub -> Seq(Emission)]
  <2>1. \A s \in Sub : Emissions(held[s]) \in Seq(Emission) /\ rescan(s) \in Emission
    BY <1>3, <1>8
  <2>2. \A s \in Sub : Append(Emissions(held[s]), rescan(s)) \in Seq(Emission)
    BY <2>1
  <2>3. <<>> \in Seq(Emission)
    OBVIOUS
  <2> QED BY <2>2, <2>3
<1>11. Pushed(pre, buffer)
  BY <1>1, <1>7, <1>9, PushAll
<1>12. ASSUME NEW s \in Sub, s \in touched
       PROVE  held'[s] = <<>> /\ out'[s] = Append(Emissions(held[s]), rescan(s))
  <2>1. buffer[s] = <<>> /\ pre[s] = Append(Emissions(held[s]), rescan(s))
    BY <1>12
  <2> HIDE DEF buffer, pre
  <2> QED BY <1>11, <2>1 DEF Pushed
<1>13. ASSUME NEW s \in Sub, s \notin touched
       PROVE  /\ Len(held'[s]) <= Len(held[s])
              /\ \A i \in DOMAIN held'[s] : \E j \in DOMAIN held[s] : held'[s][i] = held[s][j]
              /\ \A i \in DOMAIN out'[s] : \E j \in DOMAIN held[s] : out'[s][i] = AsEmission(held[s][j])
              /\ held[s] = <<>> => held'[s] = <<>> /\ out'[s] = <<>>
  <2>1. buffer[s] = held[s] /\ pre[s] = <<>>
    BY <1>13
  <2> HIDE DEF buffer, pre
  <2>2. /\ Len(held'[s]) <= Len(buffer[s])
        /\ \A i \in DOMAIN held'[s] : \E j \in DOMAIN buffer[s] : held'[s][i] = buffer[s][j]
        /\ \A i \in DOMAIN out'[s] : \/ i \in DOMAIN pre[s]
                                     \/ \E j \in DOMAIN buffer[s] : out'[s][i] = AsEmission(buffer[s][j])
        /\ buffer[s] = <<>> => out'[s] = pre[s] /\ held'[s] = <<>>
    BY <1>11 DEF Pushed
  <2>3. DOMAIN pre[s] = {}
    BY <2>1
  <2> QED BY <2>1, <2>2, <2>3
<1> HIDE DEF buffer, pre, touched
<1>14. held' \in [Sub -> Seq(Delta)] /\ out' \in [Sub -> Seq(Emission)]
  BY <1>11 DEF Pushed
<1>15. ASSUME NEW s \in Sub
       PROVE  /\ Len(held'[s]) <= MaxHeld
              /\ held'[s] # <<>> => s \in live \cap settling
              /\ \A i \in DOMAIN held'[s] : held'[s][i].epoch <= hw'[s] /\ Below(s, held'[s][i].keys)
  <2>1. CASE s \in touched
    <3>1. held'[s] = <<>>
      BY <1>12, <2>1
    <3>2. Len(held'[s]) = 0 /\ DOMAIN held'[s] = {}
      BY <3>1
    <3> QED BY <3>1, <3>2, BoundAssumption
  <2>2. CASE s \notin touched
    <3>1. /\ Len(held'[s]) <= Len(held[s])
          /\ \A i \in DOMAIN held'[s] : \E j \in DOMAIN held[s] : held'[s][i] = held[s][j]
          /\ held[s] = <<>> => held'[s] = <<>>
      BY <1>13, <2>2
    <3>2. Len(held'[s]) \in Nat /\ Len(held[s]) \in Nat /\ Len(held[s]) <= MaxHeld
      BY <1>14, Typing
    <3>3. Len(held'[s]) <= MaxHeld
      BY <3>1, <3>2, BoundAssumption
    <3>4. ASSUME NEW i \in DOMAIN held'[s]
          PROVE  held'[s][i].epoch <= hw'[s] /\ Below(s, held'[s][i].keys)
      <4>1. PICK j \in DOMAIN held[s] : held'[s][i] = held[s][j]
        BY <3>1
      <4>2. held[s][j].epoch \in Nat /\ held[s][j].epoch <= hw[s] /\ Below(s, held[s][j].keys)
        BY HeldMinted
      <4>3. hw[s] \in Nat /\ hw'[s] \in Nat /\ hw[s] <= hw'[s]
        BY <1>3, <1>6
      <4> QED BY <4>1, <4>2, <4>3
    <3> QED BY <3>1, <3>3, <3>4, HeldMinted
  <2> QED BY <2>1, <2>2
<1>16. ASSUME NEW s \in Sub
       PROVE  /\ out'[s] # <<>> => s \in live
              /\ \A i \in DOMAIN out'[s] :
                /\ out'[s][i].epoch <= hw'[s] /\ Below(s, out'[s][i].keys)
                /\ s \notin settling => hw[s] <= out'[s][i].epoch
                /\ out'[s][i].rescan =>
                      /\ i = Len(out'[s]) /\ hw[s] < out'[s][i].epoch
                      /\ \A j \in 1 .. i - 1 : out'[s][j].epoch < out'[s][i].epoch
  <2>0. hw[s] \in Nat /\ hw'[s] \in Nat /\ hw[s] <= hw'[s] /\ n(s) \in Nat /\ hw[s] < n(s)
    BY <1>3, <1>6
  <2>1. CASE s \in touched
    <3> DEFINE q == Emissions(held[s])
               m == Len(q)
               e == rescan(s)
    <3>1. q \in Seq(Emission) /\ m \in Nat /\ e \in Emission
      BY <1>3, <1>8
    <3>2. out'[s] = Append(q, e)
      BY <1>12, <2>1
    <3>3. \A i \in 1 .. m : /\ q[i].epoch \in Nat /\ q[i].epoch <= hw[s] /\ ~q[i].rescan
                            /\ Below(s, q[i].keys) /\ s \in settling
      <4> SUFFICES ASSUME NEW i \in 1 .. m
                   PROVE  /\ q[i].epoch \in Nat /\ q[i].epoch <= hw[s] /\ ~q[i].rescan
                          /\ Below(s, q[i].keys) /\ s \in settling
        OBVIOUS
      <4>1. i \in DOMAIN q
        BY <3>1
      <4>2. i \in DOMAIN held[s] /\ q[i] = AsEmission(held[s][i])
        BY <1>8, <4>1
      <4>3. /\ held[s][i].epoch \in Nat /\ held[s][i].epoch <= hw[s]
            /\ Below(s, held[s][i].keys)
        BY <4>2, HeldMinted
      <4>4. s \in settling
        <5>1. held[s] # <<>>
          BY <4>2
        <5> QED BY <5>1, HeldMinted
      <4>5. q[i].epoch = held[s][i].epoch /\ q[i].keys = held[s][i].keys /\ ~q[i].rescan
        BY <4>2 DEF AsEmission
      <4> QED BY <4>3, <4>4, <4>5
    <3>4. e.rescan /\ e.epoch = n(s) /\ e.keys = {p(s)} /\ StartsWith(p(s), KeyOf[s])
      BY <1>3, <1>5
    <3>5. n(s) <= hw'[s] /\ s \in live
      BY <1>6, <2>1 DEF touched
    <3> HIDE DEF q, e
    <3>6. /\ Len(out'[s]) = m + 1 /\ DOMAIN out'[s] = 1 .. m + 1
          /\ \A i \in 1 .. m : out'[s][i] = q[i]
          /\ out'[s][m + 1] = e
      BY <3>1, <3>2
    <3> HIDE DEF m
    <3>7. ASSUME NEW i \in 1 .. m
          PROVE  /\ out'[s][i].epoch <= hw'[s] /\ Below(s, out'[s][i].keys)
                 /\ s \in settling /\ ~out'[s][i].rescan /\ out'[s][i].epoch < n(s)
      <4>1. out'[s][i] = q[i]
        BY <3>6
      <4>2. /\ q[i].epoch \in Nat /\ q[i].epoch <= hw[s] /\ ~q[i].rescan
            /\ Below(s, q[i].keys) /\ s \in settling
        BY <3>3
      <4> QED BY <2>0, <4>1, <4>2
    <3>8. Below(s, e.keys)
      BY <3>4 DEF Below
    <3>9. \A j \in 1 .. (m + 1) - 1 : out'[s][j].epoch < n(s)
      BY <3>1, <3>7
    <3>10. ASSUME NEW i \in DOMAIN out'[s], i \notin 1 .. m PROVE i = m + 1
      BY <3>1, <3>6, <3>10
    <3>11. ASSUME NEW i \in DOMAIN out'[s]
           PROVE  /\ out'[s][i].epoch <= hw'[s] /\ Below(s, out'[s][i].keys)
                  /\ s \notin settling => hw[s] <= out'[s][i].epoch
                  /\ out'[s][i].rescan =>
                        /\ i = Len(out'[s]) /\ hw[s] < out'[s][i].epoch
                        /\ \A j \in 1 .. i - 1 : out'[s][j].epoch < out'[s][i].epoch
      <4>1. CASE i \in 1 .. m
        BY <3>7, <4>1
      <4>2. CASE i = m + 1
        <5>1. out'[s][i] = e
          BY <3>6, <4>2
        <5>2. \A j \in 1 .. i - 1 : out'[s][j].epoch < n(s)
          BY <3>9, <4>2
        <5>3. i = Len(out'[s])
          BY <3>6, <4>2
        <5>4. hw[s] <= n(s)
          BY <2>0
        <5> QED BY <2>0, <3>4, <3>5, <3>8, <5>1, <5>2, <5>3, <5>4
      <4> QED BY <3>10, <4>1, <4>2
    <3> QED BY <3>5, <3>11
  <2>2. CASE s \notin touched
    <3>1. /\ \A i \in DOMAIN out'[s] : \E j \in DOMAIN held[s] : out'[s][i] = AsEmission(held[s][j])
          /\ held[s] = <<>> => out'[s] = <<>>
      BY <1>13, <2>2
    <3>2. ASSUME NEW i \in DOMAIN out'[s]
          PROVE  /\ out'[s][i].epoch <= hw'[s] /\ Below(s, out'[s][i].keys)
                 /\ s \in settling /\ ~out'[s][i].rescan
      <4>1. PICK j \in DOMAIN held[s] : out'[s][i] = AsEmission(held[s][j])
        BY <3>1
      <4>2. /\ held[s][j].epoch \in Nat /\ held[s][j].epoch <= hw[s] /\ Below(s, held[s][j].keys)
        BY HeldMinted
      <4>3. s \in settling
        <5>1. held[s] # <<>>
          BY <4>1
        <5> QED BY <5>1, HeldMinted
      <4>4. /\ out'[s][i].epoch = held[s][j].epoch /\ out'[s][i].keys = held[s][j].keys
            /\ ~out'[s][i].rescan
        BY <4>1 DEF AsEmission
      <4> QED BY <2>0, <4>2, <4>3, <4>4
    <3>3. out'[s] # <<>> => s \in live
      BY <3>1, HeldMinted
    <3> QED BY <3>2, <3>3
  <2> QED BY <2>1, <2>2
<1>17. Emitted
  BY <1>6, <1>14, <1>15, <1>16 DEF Emitted
<1>18. ASSUME NEW s \in Sub, NEW o \in owed'[s], o \notin owed[s]
       PROVE  /\ \E i \in DOMAIN out'[s] : out'[s][i].rescan /\ Covers(AsParked(out'[s][i]), o)
              /\ o \in [keys : SUBSET Key, need : Nat]
  <2>1. s \in touched /\ o = Debt(rescan(s))
    BY <1>1, <1>18
  <2>2. out'[s] = Append(Emissions(held[s]), rescan(s))
    BY <1>12, <2>1
  <2> DEFINE m == Len(Emissions(held[s])) + 1
  <2>3. m \in DOMAIN out'[s] /\ out'[s][m] = rescan(s)
    BY <1>3, <1>8, <2>2
  <2>4. AsParked(rescan(s)) = parked(s) /\ rescan(s).rescan /\ o = [keys |-> {p(s)}, need |-> n(s)]
    BY <1>5, <2>1
  <2>5. p(s) \in Key /\ n(s) \in Nat /\ StartsWith(p(s), p(s))
    BY <1>3, Inside
  <2>6. Covers(parked(s), o) /\ o \in [keys : SUBSET Key, need : Nat]
    BY <2>4, <2>5 DEF Covers
  <2> HIDE DEF m, parked
  <2> QED BY <2>3, <2>4, <2>6
<1>19. owed' \in [Sub -> SUBSET [keys : SUBSET Key, need : Nat]]
  <2>1. \A s \in Sub : owed[s] \in SUBSET [keys : SUBSET Key, need : Nat]
    BY DEF RestTyped
  <2>2. \A s \in Sub : owed'[s] \in SUBSET [keys : SUBSET Key, need : Nat]
    BY <1>18, <2>1
  <2>3. owed' = [s \in Sub |-> owed'[s]]
    BY <1>1
  <2> QED BY <2>2, <2>3
<1>20. OwedEmitted
  BY <1>18, <1>19 DEF OwedEmitted
<1> QED BY <1>17, <1>20

LEMMA DrainPass ==
    ASSUME TypeOK, RestTyped, EntriesMinted, NEW due, DrainDue(due)
    PROVE  Emitted /\ \A s \in Sub : \A i \in DOMAIN out'[s] : ~out'[s][i].rescan
<1>1. push_all(Nothing, held, due, {}) /\ hw' = hw
  BY DEF DrainDue, ledger
<1>2. Nothing \in [Sub -> Seq(Emission)] /\ held \in [Sub -> Seq(Delta)]
  <2>1. <<>> \in Seq(Emission)
    OBVIOUS
  <2> QED BY <2>1, Typing DEF Nothing
<1>3. Pushed(Nothing, held)
  BY <1>1, <1>2, PushAll
<1>4. ASSUME NEW s \in Sub
      PROVE  /\ Len(held'[s]) <= Len(held[s])
             /\ \A i \in DOMAIN held'[s] : \E j \in DOMAIN held[s] : held'[s][i] = held[s][j]
             /\ \A i \in DOMAIN out'[s] : \E j \in DOMAIN held[s] : out'[s][i] = AsEmission(held[s][j])
             /\ held[s] = <<>> => held'[s] = <<>> /\ out'[s] = <<>>
  <2>1. Nothing[s] = <<>> /\ DOMAIN Nothing[s] = {}
    BY DEF Nothing
  <2> QED BY <1>3, <2>1 DEF Pushed
<1>5. held' \in [Sub -> Seq(Delta)] /\ out' \in [Sub -> Seq(Emission)]
  BY <1>3 DEF Pushed
<1>6. ASSUME NEW s \in Sub
      PROVE  /\ Len(held'[s]) <= MaxHeld
             /\ held'[s] # <<>> => s \in live \cap settling
             /\ out'[s] # <<>> => s \in live
             /\ \A i \in DOMAIN held'[s] : held'[s][i].epoch <= hw[s] /\ Below(s, held'[s][i].keys)
             /\ \A i \in DOMAIN out'[s] : /\ out'[s][i].epoch <= hw[s] /\ Below(s, out'[s][i].keys)
                                          /\ s \in settling /\ ~out'[s][i].rescan
  <2>1. Len(held'[s]) <= MaxHeld
    <3>1. Len(held'[s]) \in Nat /\ Len(held[s]) \in Nat /\ Len(held[s]) <= MaxHeld
      BY <1>5, Typing
    <3> QED BY <1>4, <3>1, BoundAssumption
  <2>2. (held'[s] # <<>> => s \in live \cap settling) /\ (out'[s] # <<>> => s \in live)
    BY <1>4, HeldMinted
  <2>3. ASSUME NEW i \in DOMAIN held'[s]
        PROVE  held'[s][i].epoch <= hw[s] /\ Below(s, held'[s][i].keys)
    BY <1>4, HeldMinted
  <2>4. ASSUME NEW i \in DOMAIN out'[s]
        PROVE  /\ out'[s][i].epoch <= hw[s] /\ Below(s, out'[s][i].keys)
               /\ s \in settling /\ ~out'[s][i].rescan
    <3>1. PICK j \in DOMAIN held[s] : out'[s][i] = AsEmission(held[s][j])
      BY <1>4
    <3>2. held[s][j].epoch <= hw[s] /\ Below(s, held[s][j].keys)
      BY HeldMinted
    <3>3. s \in settling
      <4>1. held[s] # <<>>
        BY <3>1
      <4> QED BY <4>1, HeldMinted
    <3>4. /\ out'[s][i].epoch = held[s][j].epoch /\ out'[s][i].keys = held[s][j].keys
          /\ ~out'[s][i].rescan
      BY <3>1 DEF AsEmission
    <3> QED BY <3>2, <3>3, <3>4
  <2> QED BY <2>1, <2>2, <2>3, <2>4
<1>7. hw' \in [Sub -> Nat] /\ \A s \in Sub : hw'[s] = hw[s] /\ hw[s] <= hw'[s]
  BY <1>1, Typing DEF TypeOK
<1> QED BY <1>5, <1>6, <1>7 DEF Emitted

-----------------------------------------------------------------------------
(* The invariant, part by part.                                            *)

\* The Rescan a delivery is parked as.
LEMMA ParkedEmission ==
    ASSUME NEW e \in Emission
    PROVE  /\ AsParked(e) \in Parked /\ AsParked(e).epoch = e.epoch
           /\ AsParked(e).key \in e.keys /\ AsParked(e).key \in Key /\ e.epoch \in Nat
<1>1. e.keys # {} /\ e.keys \subseteq Key /\ e.epoch \in Nat
  BY DEF Emission
<1>2. (CHOOSE k \in e.keys : TRUE) \in e.keys
  BY <1>1
<1>3. AsParked(e) = [key |-> CHOOSE k \in e.keys : TRUE, epoch |-> e.epoch]
  BY DEF AsParked
<1> QED BY <1>1, <1>2, <1>3, KeyAssumption DEF Parked

\* What is emitted next, and what is left after it.
LEMMA Popped ==
    ASSUME TypeOK, RestTyped, EntriesMinted, NEW s \in Sub, Emitting(s)
    PROVE  /\ Head(out[s]) \in Emission /\ 1 \in DOMAIN out[s] /\ Head(out[s]) = out[s][1]
           /\ out' \in [Sub -> Seq(Emission)]
           /\ \A x \in Sub \ {s} : out'[x] = out[x]
           /\ Len(out'[s]) = Len(out[s]) - 1 /\ Len(out[s]) \in Nat
           /\ \A i \in DOMAIN out'[s] : i + 1 \in DOMAIN out[s] /\ out'[s][i] = out[s][i + 1]
           /\ \A i \in DOMAIN out[s] : i # 1 => i - 1 \in DOMAIN out'[s] /\ out'[s][i - 1] = out[s][i]
           /\ Head(out[s]).epoch <= hw[s] /\ Below(s, Head(out[s]).keys)
           /\ s \in live
<1> DEFINE q == out[s]
           t == out'[s]
<1>1. q \in Seq(Emission) /\ out \in [Sub -> Seq(Emission)]
  BY Typing
<1>2. q # <<>> /\ out' = [out EXCEPT ![s] = Tail(q)]
  BY DEF Emitting
<1>3. t = Tail(q) /\ \A x \in Sub \ {s} : out'[x] = out[x]
  BY <1>1, <1>2
<1>4. Tail(q) \in Seq(Emission)
  <2> HIDE DEF q
  <2> QED BY <1>1, <1>2
<1>5. out' \in [Sub -> Seq(Emission)]
  BY <1>1, <1>2, <1>4
<1>6. s \in live /\ \A i \in DOMAIN q : q[i].epoch <= hw[s] /\ Below(s, q[i].keys)
  BY <1>2 DEF EntriesMinted, Minted, Below
<1> HIDE DEF q, t
<1>7. Len(q) \in Nat /\ Len(q) > 0 /\ DOMAIN q = 1 .. Len(q)
  BY <1>1, <1>2
<1>8. Head(q) \in Emission /\ 1 \in DOMAIN q /\ Head(q) = q[1]
  BY <1>1, <1>2, <1>7
<1>9. /\ Len(t) = Len(q) - 1 /\ DOMAIN t = 1 .. Len(q) - 1
      /\ \A i \in 1 .. Len(q) - 1 : t[i] = q[i + 1]
  BY <1>1, <1>2, <1>3, <1>7
<1>10. \A i \in DOMAIN t : i + 1 \in DOMAIN q /\ t[i] = q[i + 1]
  BY <1>7, <1>9
<1>11. \A i \in DOMAIN q : i # 1 => i - 1 \in DOMAIN t /\ t[i - 1] = q[i]
  <2> SUFFICES ASSUME NEW i \in DOMAIN q, i # 1 PROVE i - 1 \in DOMAIN t /\ t[i - 1] = q[i]
    OBVIOUS
  <2>1. i - 1 \in 1 .. Len(q) - 1 /\ (i - 1) + 1 = i
    BY <1>7
  <2> QED BY <1>9, <2>1
<1> QED BY <1>3, <1>5, <1>6, <1>7, <1>8, <1>9, <1>10, <1>11 DEF q, t

LEMMA ClaimsStep ==
    ASSUME TypeOK, RestTyped, ClaimsSound, EntriesMinted, [Next]_vars
    PROVE  ClaimsSound'
<1> DEFINE Same == UNCHANGED <<live, needs, suppressed, unclaimed, grant, owned, cut, used>>
<1>1. ASSUME Same, then' = "last" => then = "last"
      PROVE  ClaimsSound'
  BY <1>1 DEF ClaimsSound, OfferedIsOwned
<1>2. ASSUME NEW T, T \subseteq live,
             DOMAIN needs' = DOMAIN needs \cup (T \ unclaimed),
             DOMAIN suppressed' = DOMAIN suppressed \cup (T \cap unclaimed),
             live' \subseteq live, UNCHANGED <<unclaimed, grant, owned, cut, used>>,
             then' = "last" => then = "last"
      PROVE  ClaimsSound'
  BY <1>2 DEF ClaimsSound, OfferedIsOwned
<1>3. ASSUME NEW s \in Sub, NEW taken \in BOOLEAN, reply(s, taken), s \notin used,
             UNCHANGED planes, then' = then \/ then' = "idle", running
      PROVE  ClaimsSound'
  <2>1. owned \subseteq used /\ unclaimed \subseteq used /\ s \notin owned
    BY <1>3 DEF TypeOK
  <2>2. grant \in [Sub -> {"none", "open", "claim", "orphan"}]
    BY DEF TypeOK
  <2>3. owned' = owned /\ cut' = cut /\ needs' = needs /\ suppressed' = suppressed /\ used' = used \cup {s}
    BY <1>3 DEF reply, planes
  <2>4. CASE ~taken
    <3>1. live' = live /\ unclaimed' = unclaimed /\ grant' = grant
      BY <1>3, <2>4 DEF reply
    <3> QED BY <1>3, <2>3, <3>1 DEF ClaimsSound, OfferedIsOwned
  <2>5. CASE taken
    <3>1. /\ live' = live \cup {s} /\ unclaimed' = unclaimed \cup {s}
          /\ grant' = [grant EXCEPT ![s] = "open"]
      BY <1>3, <2>5 DEF reply
    <3>2. grant'[s] = "open" /\ \A x \in Sub \ {s} : grant'[x] = grant[x]
      BY <2>2, <3>1
    <3>3. unclaimed \subseteq Sub /\ owned \subseteq Sub
      BY DEF TypeOK
    <3>4. OfferedIsOwned'
      BY <2>1, <2>3, <3>1 DEF ClaimsSound, OfferedIsOwned
    <3>5. /\ live' \ unclaimed' \subseteq owned'
          /\ \A x \in owned' \cap unclaimed' : grant'[x] = "claim"
          /\ \A x \in unclaimed' : grant'[x] = "claim" => x \in owned'
          /\ \A x \in Sub : grant'[x] # "none" => x \in used'
      BY <2>1, <2>3, <3>1, <3>2, <3>3 DEF ClaimsSound
    <3>6. then' = "last" => cut' /\ \A x \in Sub : grant'[x] \notin {"claim", "orphan"}
      BY <1>3, <2>3, <3>2 DEF ClaimsSound
    <3> QED BY <3>4, <3>5, <3>6 DEF ClaimsSound
  <2> QED BY <2>4, <2>5
<1>4. ASSUME NEW s \in Sub, release_subscription(s), UNCHANGED <<used, cut, then>>,
             owned' = owned \/ owned' = owned \ {s}, grant' = grant \/ grant' = [grant EXCEPT ![s] = "none"]
      PROVE  ClaimsSound'
  <2>1. /\ live' = live \ {s} /\ unclaimed' = unclaimed \ {s}
        /\ DOMAIN needs' = DOMAIN needs \ {s} /\ DOMAIN suppressed' = DOMAIN suppressed \ {s}
    BY <1>4 DEF release_subscription, Drop
  <2>2. grant \in [Sub -> {"none", "open", "claim", "orphan"}]
    BY DEF TypeOK
  <2>3. \A x \in Sub \ {s} : grant'[x] = grant[x]
    BY <1>4, <2>2
  <2>4. grant'[s] = grant[s] \/ grant'[s] = "none"
    BY <1>4, <2>2
  <2>5. unclaimed \subseteq Sub /\ owned \subseteq Sub
    BY DEF TypeOK
  <2>6. OfferedIsOwned'
    BY <1>4, <2>1 DEF ClaimsSound, OfferedIsOwned
  <2>7. /\ live' \ unclaimed' \subseteq owned'
        /\ \A x \in owned' \cap unclaimed' : grant'[x] = "claim"
        /\ \A x \in unclaimed' : grant'[x] = "claim" => x \in owned'
    BY <1>4, <2>1, <2>3, <2>5 DEF ClaimsSound
  <2>8. \A x \in Sub : grant'[x] # "none" => x \in used'
    BY <1>4, <2>3, <2>4 DEF ClaimsSound
  <2>9. then' = "last" => cut' /\ \A x \in Sub : grant'[x] \notin {"claim", "orphan"}
    BY <1>4, <2>3, <2>4 DEF ClaimsSound
  <2> QED BY <2>6, <2>7, <2>8, <2>9 DEF ClaimsSound
<1>5. ASSUME NEW s \in Sub, grant[s] = "open",
             UNCHANGED <<live, needs, suppressed, unclaimed, cut, used, then>>,
             \/ CallerClaims(s)
             \/ CallerDrops(s)
      PROVE  ClaimsSound'
  <2>1. grant \in [Sub -> {"none", "open", "claim", "orphan"}] /\ unclaimed \subseteq Sub /\ owned \subseteq Sub
    BY DEF TypeOK
  <2>2. \A x \in Sub \ {s} : grant'[x] = grant[x]
    BY <1>5, <2>1 DEF CallerClaims, CallerDrops
  <2>3. s \in used /\ s \notin owned \cap unclaimed
    BY <1>5 DEF ClaimsSound
  <2>4. CASE cut
    <3>1. grant'[s] = "none" /\ owned' = owned
      BY <1>5, <2>1, <2>4 DEF CallerClaims, CallerDrops
    <3> QED BY <1>5, <2>1, <2>2, <2>3, <3>1 DEF ClaimsSound, OfferedIsOwned
  <2>5. CASE ~cut /\ CallerClaims(s)
    <3>1. grant'[s] = "claim" /\ owned' = owned \cup {s}
      BY <2>1, <2>5 DEF CallerClaims
    <3>2. then # "last"
      BY <2>5 DEF ClaimsSound
    <3> QED BY <1>5, <2>1, <2>2, <2>3, <3>1, <3>2 DEF ClaimsSound, OfferedIsOwned
  <2>6. CASE ~cut /\ CallerDrops(s)
    <3>1. grant'[s] = "orphan" /\ owned' = owned
      BY <2>1, <2>6 DEF CallerDrops
    <3>2. then # "last"
      BY <2>6 DEF ClaimsSound
    <3> QED BY <1>5, <2>1, <2>2, <2>3, <3>1, <3>2 DEF ClaimsSound, OfferedIsOwned
  <2> QED BY <1>5, <2>4, <2>5, <2>6
<1>6. ASSUME NEW s \in Sub, ApplyClaim(s)
      PROVE  ClaimsSound'
  <2>1. grant \in [Sub -> {"none", "open", "claim", "orphan"}] /\ unclaimed \subseteq Sub /\ owned \subseteq Sub
    BY DEF TypeOK
  <2>2. /\ grant'[s] = "none" /\ \A x \in Sub \ {s} : grant'[x] = grant[x]
        /\ unclaimed' = unclaimed \ {s} /\ grant[s] = "claim"
        /\ UNCHANGED <<live, owned, cut, used, then>>
    BY <1>6, <2>1 DEF ApplyClaim, control, minted
  <2>3. /\ DOMAIN suppressed' = DOMAIN suppressed \ {s}
        /\ DOMAIN needs' \subseteq DOMAIN needs \cup (DOMAIN suppressed \cap {s})
    BY <1>6 DEF ApplyClaim, promote, Drop, merge_max
  <2>4. s \in unclaimed => s \in owned
    BY <2>2 DEF ClaimsSound
  <2>5. OfferedIsOwned'
    BY <2>2, <2>3, <2>4 DEF ClaimsSound, OfferedIsOwned
  <2>6. live' \ unclaimed' \subseteq owned'
    <3>1. s \in live => s \in owned
      BY <2>4 DEF ClaimsSound
    <3> QED BY <2>2, <3>1 DEF ClaimsSound
  <2>7. /\ \A x \in owned' \cap unclaimed' : grant'[x] = "claim"
        /\ \A x \in unclaimed' : grant'[x] = "claim" => x \in owned'
        /\ \A x \in Sub : grant'[x] # "none" => x \in used'
        /\ then' = "last" => cut' /\ \A x \in Sub : grant'[x] \notin {"claim", "orphan"}
    BY <2>1, <2>2 DEF ClaimsSound
  <2> QED BY <2>5, <2>6, <2>7 DEF ClaimsSound
<1>7. ASSUME NEW s \in Sub, EmitMerge(s) \/ EmitShed(s)
      PROVE  ClaimsSound'
  <2>1. Emitting(s) /\ \E d : park({s}, d)
    BY <1>7 DEF EmitMerge, EmitShed
  <2>2. PICK d : park({s}, d)
    BY <2>1
  <2>3. s \in live
    BY <2>1, Popped
  <2>4. /\ DOMAIN needs' = DOMAIN needs \cup ({s} \ unclaimed)
        /\ DOMAIN suppressed' = DOMAIN suppressed \cup ({s} \cap unclaimed)
    BY <2>2 DEF park, merge_max
  <2>5. UNCHANGED <<live, unclaimed, grant, owned, cut, used, then>>
    BY <1>7 DEF EmitMerge, EmitShed, claims, control, minted
  <2> QED BY ZenonT(30), <1>2, <2>3, <2>4, <2>5
<1>8. CASE Environment
  <2>1. ASSUME NEW s \in Sub, NEW taken \in BOOLEAN, Watch(s, taken) PROVE ClaimsSound'
    BY <1>3, <2>1 DEF Watch, control, planes
  <2>2. ASSUME NEW s \in Sub, NEW taken \in BOOLEAN, Widen(s, taken) PROVE ClaimsSound'
    BY <1>3, <2>2 DEF Widen, repoint
  <2>3. ASSUME NEW s \in Sub, CallerClaims(s) \/ CallerDrops(s) PROVE ClaimsSound'
    BY <1>5, <2>3 DEF CallerClaims, CallerDrops, planes, control, minted
  <2>4. ASSUME NEW s \in Sub, Unwatch(s) PROVE ClaimsSound'
    BY <1>4, <2>4 DEF Unwatch, control, minted
  <2>5. ASSUME NEW due, NEW ks \in Changes, NEW a, NEW p, NEW c, Observe(ks, a, p, c, due)
        PROVE  ClaimsSound'
    <3>1. PICK P, d : Observed(P, d)
      BY <2>5, ObservePass
    <3>2. P \subseteq live /\ park(P, d)
      BY <3>1 DEF Observed
    <3>3. /\ DOMAIN needs' = DOMAIN needs \cup (P \ unclaimed)
          /\ DOMAIN suppressed' = DOMAIN suppressed \cup (P \cap unclaimed)
      BY <3>2 DEF park, merge_max
    <3>4. UNCHANGED <<live, unclaimed, grant, owned, cut, used>> /\ then' = "settle"
      BY <2>5 DEF Observe, claims, minted
    <3> QED BY <1>2, <3>2, <3>3, <3>4
  <2>6. ASSUME NEW due, NEW k, SourceRescan(k, due) PROVE ClaimsSound'
    BY <1>1, <2>6 DEF SourceRescan, planes, claims, minted
  <2>7. CASE Restore
    BY <1>1, <2>7 DEF Restore, repoint, planes, claims, minted
  <2>8. CASE Rollback \/ Retire
    <3>1. \E d : park(live, d)
      BY <2>8 DEF Rollback, Retire, rescan_live_root
    <3>2. PICK d : park(live, d)
      BY <3>1
    <3>3. /\ DOMAIN needs' = DOMAIN needs \cup (live \ unclaimed)
          /\ DOMAIN suppressed' = DOMAIN suppressed \cup (live \cap unclaimed)
      BY <3>2 DEF park, merge_max
    <3>4. live' \subseteq live /\ UNCHANGED <<unclaimed, grant, owned, cut, used, then>>
      BY <2>8 DEF Rollback, Retire, claims, control, minted
    <3> QED BY <1>2, <3>3, <3>4
  <2>9. CASE SourceEnds
    BY <1>1, <2>9 DEF SourceEnds, planes, claims, minted
  <2>10. CASE Close
    <3>1. /\ live' = {} /\ unclaimed' = {} /\ DOMAIN needs' = {} /\ DOMAIN suppressed' = {} /\ cut'
          /\ UNCHANGED <<grant, owned, used, then>>
      BY <2>10 DEF Close, minted
    <3> QED BY <3>1 DEF ClaimsSound, OfferedIsOwned
  <2> QED BY <1>8, <2>1, <2>2, <2>3, <2>4, <2>5, <2>6, <2>7, <2>8, <2>9, <2>10 DEF Environment
<1>9. CASE Owner
  <2>1. ASSUME NEW s \in Sub, ApplyOrphan(s) PROVE ClaimsSound'
    BY <1>4, <2>1 DEF ApplyOrphan, control, minted
  <2>2. ASSUME NEW s \in Sub, EmitSend(s) PROVE ClaimsSound'
    BY <1>1, <2>2 DEF EmitSend, planes, claims, control, minted
  <2>3. ASSUME NEW s \in Sub, EmitSuppress(s) PROVE ClaimsSound'
    <3>1. DOMAIN needs' = DOMAIN needs /\ DOMAIN suppressed' = DOMAIN suppressed
      BY <2>3 DEF EmitSuppress, widen_debt
    <3>2. UNCHANGED <<live, unclaimed, grant, owned, cut, used, then>>
      BY <2>3 DEF EmitSuppress, claims, control, minted
    <3> QED BY <3>1, <3>2 DEF ClaimsSound, OfferedIsOwned
  <2>4. ASSUME NEW due, DrainDue(due) PROVE ClaimsSound'
    BY <1>1, <2>4 DEF DrainDue, planes, claims, minted
  <2>5. CASE EmitDone \/ FlushEnd \/ DrainTest \/ DrainLast
    BY <1>1, <2>5 DEF EmitDone, FlushEnd, DrainTest, DrainLast, planes, claims, minted
  <2>6. CASE Flush
    BY <1>1, <2>6 DEF Flush, planes, claims, minted
  <2>7. CASE FlushSend
    <3>1. DOMAIN needs' \subseteq DOMAIN needs /\ suppressed' = suppressed
      BY <2>7 DEF FlushSend, Drop
    <3>2. UNCHANGED <<live, unclaimed, grant, owned, cut, used, then>>
      BY <2>7 DEF FlushSend, claims, control, minted
    <3> QED BY <3>1, <3>2 DEF ClaimsSound, OfferedIsOwned
  <2>8. CASE DrainOwed
    <3>1. /\ UNCHANGED <<live, needs, suppressed, unclaimed, grant, owned, cut, used>>
          /\ then' = "last" => cut
          /\ \A s \in Sub : grant[s] \notin {"claim", "orphan"}
      BY <2>8 DEF DrainOwed, planes, claims, minted
    <3> QED BY <3>1 DEF ClaimsSound, OfferedIsOwned
  <2>9. CASE Cut
    <3>1. UNCHANGED <<live, needs, suppressed, unclaimed, grant, owned, used, then>> /\ cut' = TRUE
      BY <2>9 DEF Cut, planes, control, minted
    <3> QED BY <3>1 DEF ClaimsSound, OfferedIsOwned
  <2> QED BY <1>6, <1>7, <1>9, <2>1, <2>2, <2>3, <2>4, <2>5, <2>6, <2>7, <2>8, <2>9 DEF Owner
<1>10. CASE Recv \/ UNCHANGED vars
  BY <1>1, <1>10 DEF Recv, vars, planes, claims, control, minted
<1> QED BY <1>8, <1>9, <1>10 DEF Next

LEMMA ControlStep ==
    ASSUME TypeOK, ClaimsSound, ControlSound, [Next]_vars
    PROVE  ControlSound'
<1>1. ASSUME UNCHANGED <<phase, pc, then>>, cut' = cut \/ cut' = TRUE, out' = out \/ pc \in {"emit", "flush"}
      PROVE  ControlSound'
  BY <1>1 DEF ControlSound, Nothing
<1>2. ASSUME phase = "run", phase' = phase, pc' = "emit" \/ pc' = "flush", then' \in {"idle", "settle"}
      PROVE  ControlSound'
  BY <1>2 DEF ControlSound
<1>3. CASE Environment
  <2>1. ASSUME NEW s \in Sub, NEW taken \in BOOLEAN, Watch(s, taken) PROVE ControlSound'
    BY <1>1, <2>1 DEF Watch, reply, control, sent
  <2>2. ASSUME NEW s \in Sub, NEW taken \in BOOLEAN, Widen(s, taken) PROVE ControlSound'
    BY <1>2, <2>2 DEF Widen, repoint, running
  <2>3. ASSUME NEW s \in Sub, CallerClaims(s) \/ CallerDrops(s) \/ Unwatch(s) PROVE ControlSound'
    BY <1>1, <2>3 DEF CallerClaims, CallerDrops, Unwatch, control
  <2>4. ASSUME NEW due, NEW ks, NEW a, NEW p, NEW c, Observe(ks, a, p, c, due) PROVE ControlSound'
    BY <1>2, <2>4 DEF Observe, running
  <2>5. ASSUME NEW due, NEW k, SourceRescan(k, due) PROVE ControlSound'
    BY <1>2, <2>5 DEF SourceRescan, running
  <2>6. CASE Restore
    BY <1>2, <2>6 DEF Restore, repoint, running
  <2>7. CASE Rollback \/ Retire
    BY <1>1, <2>7 DEF Rollback, Retire, control, claims
  <2>8. CASE SourceEnds
    BY <2>8 DEF SourceEnds, running, ControlSound, Nothing
  <2>9. CASE Close
    BY <2>9 DEF Close, ControlSound, Nothing
  <2> QED BY <1>3, <2>1, <2>2, <2>3, <2>4, <2>5, <2>6, <2>7, <2>8, <2>9 DEF Environment
<1>4. CASE Owner
  <2>1. ASSUME NEW s \in Sub, ApplyClaim(s) \/ ApplyOrphan(s) PROVE ControlSound'
    BY <1>1, <2>1 DEF ApplyClaim, ApplyOrphan, control
  <2>2. ASSUME NEW s \in Sub, EmitSend(s) \/ EmitMerge(s) \/ EmitSuppress(s) \/ EmitShed(s)
        PROVE  ControlSound'
    BY <1>1, <2>2 DEF EmitSend, EmitMerge, EmitSuppress, EmitShed, Emitting, control, claims
  <2>3. ASSUME NEW due, DrainDue(due) PROVE ControlSound'
    BY <1>2, <2>3 DEF DrainDue, running
  <2>4. CASE EmitDone
    BY <2>4 DEF EmitDone, claims, ControlSound, ClaimsSound
  <2>5. CASE Flush
    BY <1>2, <2>5 DEF Flush, start_flush, running
  <2>6. CASE FlushSend
    BY <1>1, <2>6 DEF FlushSend, control, claims
  <2>7. CASE FlushEnd
    <3>1. pc = "flush" /\ pc' = "emit" /\ UNCHANGED <<phase, then, cut, out>>
      BY <2>7 DEF FlushEnd, end_flush, claims
    <3> QED BY <3>1 DEF ControlSound
  <2>8. CASE DrainOwed
    <3>1. /\ phase = "drain" /\ phase' = phase /\ pc' \in {"emit", "flush"}
          /\ then' \in {"last", "test"} /\ cut' = cut
      BY <2>8 DEF DrainOwed, start_flush, claims
    <3> QED BY <3>1 DEF ControlSound
  <2>9. CASE DrainTest
    BY <2>9 DEF DrainTest, claims, ControlSound, Nothing
  <2>10. CASE Cut
    BY <1>1, <2>10 DEF Cut, control
  <2>11. CASE DrainLast
    BY <2>11 DEF DrainLast, claims, ControlSound, ClaimsSound, Nothing
  <2> QED BY <1>4, <2>1, <2>2, <2>3, <2>4, <2>5, <2>6, <2>7, <2>8, <2>9, <2>10, <2>11 DEF Owner
<1>5. CASE Recv \/ UNCHANGED vars
  BY <1>1, <1>5 DEF Recv, vars, control, claims
<1> QED BY <1>3, <1>4, <1>5 DEF Next

\* A pass leaves what was minted.
LEMMA EmittedMinted ==
    ASSUME Emitted, live \subseteq live', settling \subseteq settling'
    PROVE  EntriesMinted'
BY DEF Emitted, EntriesMinted, Minted, Below

LEMMA EntriesStep ==
    ASSUME TypeOK, RestTyped, ControlSound, EntriesMinted, [Next]_vars
    PROVE  EntriesMinted'
<1>1. ASSUME UNCHANGED <<held, out, hw>>, live \subseteq live', settling \subseteq settling'
      PROVE  EntriesMinted'
  BY <1>1 DEF EntriesMinted, Minted
<1>2. ASSUME NEW s \in Sub, Emitting(s), UNCHANGED <<live, settling>>,
             \A x \in Sub : hw[x] <= hw'[x] /\ hw'[x] \in Nat,
             held' \in [Sub -> Seq(Delta)], \A x \in Sub : held'[x] = held[x] \/ held'[x] = <<>>
      PROVE  EntriesMinted'
  <2>1. /\ out' \in [Sub -> Seq(Emission)]
        /\ \A x \in Sub \ {s} : out'[x] = out[x]
        /\ \A i \in DOMAIN out'[s] : i + 1 \in DOMAIN out[s] /\ out'[s][i] = out[s][i + 1]
        /\ s \in live
    BY <1>2, Popped
  <2>2. ASSUME NEW x \in Sub, NEW i \in DOMAIN out'[x]
        PROVE  out'[x][i].epoch <= hw'[x] /\ Below(x, out'[x][i].keys)
    <3>1. PICK j \in DOMAIN out[x] : out'[x][i] = out[x][j]
      BY <2>1
    <3>2. out[x][j].epoch <= hw[x] /\ Below(x, out[x][j].keys)
      BY DEF EntriesMinted, Minted, Below
    <3>3. out[x][j].epoch \in Nat /\ hw[x] \in Nat /\ hw'[x] \in Nat /\ hw[x] <= hw'[x]
      <4>1. out[x][j] \in Emission
        BY Typing
      <4> QED BY <1>2, <4>1, Typing DEF Emission
    <3> QED BY <3>1, <3>2, <3>3
  <2>3. ASSUME NEW x \in Sub, NEW i \in DOMAIN held'[x]
        PROVE  held'[x][i].epoch <= hw'[x] /\ Below(x, held'[x][i].keys)
    <3>1. held'[x] = held[x]
      BY <1>2
    <3>2. held[x][i].epoch \in Nat /\ held[x][i].epoch <= hw[x] /\ Below(x, held[x][i].keys)
      BY <3>1, HeldMinted
    <3>3. hw[x] \in Nat /\ hw'[x] \in Nat /\ hw[x] <= hw'[x]
      BY <1>2, Typing
    <3> QED BY <3>1, <3>2, <3>3
  <2>4. \A x \in Sub : (held'[x] # <<>> => x \in live' \cap settling') /\ (out'[x] # <<>> => x \in live')
    BY <1>2, <2>1 DEF EntriesMinted
  <2> QED BY <2>2, <2>3, <2>4 DEF EntriesMinted, Minted, Below
<1>3. ASSUME NEW s \in Sub, release_subscription(s), out' = out, settling' = settling, out = Nothing
      PROVE  EntriesMinted'
  <2>1. \A x \in Sub : out'[x] = <<>>
    BY <1>3 DEF Nothing
  <2>2. held \in [Sub -> Seq(Delta)] /\ hw \in [Sub -> Nat]
    BY DEF TypeOK, RestTyped
  <2>3. /\ held'[s] = <<>> /\ live' = live \ {s}
        /\ \A x \in Sub \ {s} : held'[x] = held[x] /\ hw'[x] = hw[x]
    BY <1>3, <2>2 DEF release_subscription
  <2>4. \A x \in Sub : /\ held'[x] # <<>> => x \in live' \cap settling'
                       /\ \A i \in DOMAIN held'[x] : held'[x][i].epoch <= hw'[x] /\ Below(x, held'[x][i].keys)
    BY <1>3, <2>3 DEF EntriesMinted, Minted, Below
  <2> QED BY <2>1, <2>4 DEF EntriesMinted, Minted, Below
<1>4. ASSUME NEW s \in Sub, NEW taken \in BOOLEAN, reply(s, taken)
      PROVE  live \subseteq live' /\ settling \subseteq settling'
  BY <1>4 DEF reply
<1>5. pc \in {"idle", "settle", "cut"} => out = Nothing
  BY DEF ControlSound
<1>6. CASE Environment
  <2>1. ASSUME NEW s \in Sub, NEW taken \in BOOLEAN, Watch(s, taken) PROVE EntriesMinted'
    <3>1. UNCHANGED <<held, out, hw>> /\ reply(s, taken)
      BY <2>1 DEF Watch
    <3> QED BY <1>1, <1>4, <3>1
  <2>2. ASSUME NEW s \in Sub, NEW taken \in BOOLEAN, Widen(s, taken) PROVE EntriesMinted'
    <3>1. repoint /\ reply(s, taken)
      BY <2>2 DEF Widen
    <3> QED BY <1>4, <3>1, RepointPass, EmittedMinted
  <2>3. ASSUME NEW s \in Sub, CallerClaims(s) \/ CallerDrops(s) PROVE EntriesMinted'
    BY <1>1, <2>3 DEF CallerClaims, CallerDrops, ledger, minted
  <2>4. ASSUME NEW s \in Sub, Unwatch(s) PROVE EntriesMinted'
    BY <1>3, <1>5, <2>4 DEF Unwatch, running, minted
  <2>5. ASSUME NEW due, NEW ks \in Changes, NEW a, NEW p, NEW c, Observe(ks, a, p, c, due)
        PROVE  EntriesMinted'
    <3>1. PICK P, d : Observed(P, d)
      BY <2>5, ObservePass
    <3>2. UNCHANGED <<live, settling>>
      BY <2>5 DEF Observe, minted
    <3> QED BY <3>1, <3>2, ObserveEmits, EmittedMinted
  <2>6. ASSUME NEW due, NEW k \in Key, SourceRescan(k, due) PROVE EntriesMinted'
    <3>1. UNCHANGED <<live, settling>>
      BY <2>6 DEF SourceRescan, minted
    <3> QED BY <2>6, <3>1, SourcePass, EmittedMinted
  <2>7. CASE Restore
    <3>1. repoint /\ UNCHANGED <<live, settling>>
      BY <2>7 DEF Restore, minted
    <3> QED BY <3>1, RepointPass, EmittedMinted
  <2>8. CASE Rollback \/ Retire
    <3>1. /\ out' = out /\ out = Nothing
          /\ held' = [s \in Sub |-> IF s \in live THEN <<>> ELSE held[s]]
      BY <1>5, <2>8 DEF Rollback, Retire, rescan_live_root, drop_subscription, running
    <3>2. \A s \in Sub : held'[s] = <<>> /\ out'[s] = <<>>
      BY <3>1 DEF EntriesMinted, Nothing
    <3> QED BY <3>2 DEF EntriesMinted
  <2>9. CASE SourceEnds
    BY <1>1, <2>9 DEF SourceEnds, ledger, minted
  <2>10. CASE Close
    <3>1. out' = Nothing /\ held' = Nothing
      BY <1>5, <2>10 DEF Close
    <3> QED BY <3>1 DEF EntriesMinted, Nothing
  <2> QED BY <1>6, <2>1, <2>2, <2>3, <2>4, <2>5, <2>6, <2>7, <2>8, <2>9, <2>10 DEF Environment
<1>7. CASE Owner
  <2>1. ASSUME NEW s \in Sub, ApplyClaim(s) PROVE EntriesMinted'
    BY <1>1, <2>1 DEF ApplyClaim, ledger, minted
  <2>2. ASSUME NEW s \in Sub, ApplyOrphan(s) PROVE EntriesMinted'
    BY <1>3, <1>5, <2>2 DEF ApplyOrphan, AppliesCleanup, minted
  <2>3. ASSUME NEW s \in Sub, EmitSend(s) \/ EmitMerge(s) PROVE EntriesMinted'
    <3>1. Emitting(s) /\ UNCHANGED <<live, settling, hw, held>>
      BY <2>3 DEF EmitSend, EmitMerge, ledger, minted
    <3>2. \A x \in Sub : hw[x] \in Nat
      BY Typing
    <3>3. held \in [Sub -> Seq(Delta)]
      BY Typing
    <3> QED BY <1>2, <3>1, <3>2, <3>3
  <2>4. ASSUME NEW s \in Sub, EmitSuppress(s) \/ EmitShed(s) PROVE EntriesMinted'
    <3>1. /\ Emitting(s) /\ UNCHANGED <<live, settling>>
          /\ hw' = [hw EXCEPT ![s] = hw[s] + 1]
          /\ held' = held \/ held' = [x \in Sub |-> IF x \in {s} THEN <<>> ELSE held[x]]
      BY <2>4 DEF EmitSuppress, EmitShed, minted, shed_rescan, drop_subscription
    <3>2. hw \in [Sub -> Nat] /\ held \in [Sub -> Seq(Delta)]
      BY Typing DEF TypeOK
    <3>3. \A x \in Sub : hw'[x] \in Nat /\ hw[x] <= hw'[x]
      BY <3>1, <3>2
    <3>4. held' \in [Sub -> Seq(Delta)] /\ \A x \in Sub : held'[x] = held[x] \/ held'[x] = <<>>
      <4>1. <<>> \in Seq(Delta)
        OBVIOUS
      <4> QED BY <3>1, <3>2, <4>1
    <3> QED BY <1>2, <3>1, <3>3, <3>4
  <2>5. ASSUME NEW due, DrainDue(due) PROVE EntriesMinted'
    <3>1. UNCHANGED <<live, settling>>
      BY <2>5 DEF DrainDue, minted
    <3> QED BY <2>5, <3>1, DrainPass, EmittedMinted
  <2>6. CASE EmitDone \/ FlushEnd \/ DrainTest \/ DrainLast \/ Cut \/ Flush
    BY <1>1, <2>6 DEF EmitDone, FlushEnd, DrainTest, DrainLast, Cut, Flush, ledger, minted
  <2>7. CASE FlushSend
    BY <1>1, <2>7 DEF FlushSend, ledger, minted
  <2>8. CASE DrainOwed
    <3>1. /\ held' = Nothing /\ UNCHANGED <<hw, live, settling>>
          /\ out' = [s \in Sub |-> IF in_debt(s) THEN <<>> ELSE Emissions(held[s])]
      BY <2>8 DEF DrainOwed, ledger, minted
    <3>2. ASSUME NEW s \in Sub
          PROVE  /\ out'[s] # <<>> => s \in live
                 /\ \A i \in DOMAIN out'[s] : out'[s][i].epoch <= hw[s] /\ Below(s, out'[s][i].keys)
      <4>1. CASE in_debt(s)
        <5>1. out'[s] = <<>>
          BY <3>1, <4>1
        <5> QED BY <5>1
      <4>2. CASE ~in_debt(s)
        <5>1. out'[s] = Emissions(held[s]) /\ held[s] \in Seq(Delta)
          BY <3>1, <4>2, HeldMinted
        <5>2. /\ Len(Emissions(held[s])) = Len(held[s]) /\ Emissions(held[s]) \in Seq(Emission)
              /\ \A i \in DOMAIN Emissions(held[s]) :
                    i \in DOMAIN held[s] /\ Emissions(held[s])[i] = AsEmission(held[s][i])
          BY <5>1, EmissionsTyped
        <5>3. \A i \in DOMAIN held[s] : /\ AsEmission(held[s][i]).epoch <= hw[s]
                                        /\ Below(s, AsEmission(held[s][i]).keys)
          BY HeldMinted DEF AsEmission
        <5>4. Emissions(held[s]) # <<>> => held[s] # <<>>
          BY <5>1, <5>2
        <5> QED BY <5>1, <5>2, <5>3, <5>4, HeldMinted
      <4> QED BY <4>1, <4>2
    <3>3. \A s \in Sub : held'[s] = <<>> /\ DOMAIN held'[s] = {}
      BY <3>1 DEF Nothing
    <3>4. hw' = hw /\ live' = live
      BY <3>1
    <3>5. \A s \in Sub : \A i \in DOMAIN out'[s] : out'[s][i].epoch <= hw'[s] /\ Below(s, out'[s][i].keys)
      BY <3>2, <3>4
    <3>6. \A s \in Sub : out'[s] # <<>> => s \in live'
      BY <3>2, <3>4
    <3> QED BY <3>3, <3>5, <3>6 DEF EntriesMinted, Minted, Below
  <2> QED BY <1>7, <2>1, <2>2, <2>3, <2>4, <2>5, <2>6, <2>7, <2>8 DEF Owner
<1>8. CASE Recv \/ UNCHANGED vars
  BY <1>1, <1>8 DEF Recv, vars, ledger, minted
<1> QED BY <1>6, <1>7, <1>8 DEF Next

\* The types survive a step.  A delivery is put on the channel as it is.
LEMMA SendTyped ==
    ASSUME RestTyped, NEW s \in Sub, NEW e, send(s, e),
           e.rescan \in BOOLEAN, e.keys \subseteq Seq(Component), e.keys # {}, e.epoch \in Nat
    PROVE  /\ AsParked(e) \in Parked /\ AsParked(e).epoch = e.epoch
           /\ chan' \in Seq([sub : Sub, rescan : BOOLEAN, keys : SUBSET Seq(Component), epoch : Nat])
           /\ chan \in Seq([sub : Sub, rescan : BOOLEAN, keys : SUBSET Seq(Component), epoch : Nat])
           /\ Len(chan') = Len(chan) + 1
           /\ chan'[Len(chan')] = [sub |-> s, rescan |-> e.rescan, keys |-> e.keys, epoch |-> e.epoch]
           /\ peak' \in [Sub -> Nat] /\ peak' = [peak EXCEPT ![s] = larger(peak[s], e.epoch)]
           /\ last' \in [Sub -> Parked]
           /\ last' = IF e.rescan THEN [last EXCEPT ![s] = AsParked(e)] ELSE last
           /\ owed' \in [Sub -> SUBSET [keys : SUBSET Key, need : Nat]]
           /\ owed' = IF e.rescan
                      THEN [owed EXCEPT ![s] = {o \in owed[s] : ~Covers(AsParked(e), o)}] ELSE owed
<1> DEFINE M == [sub : Sub, rescan : BOOLEAN, keys : SUBSET Seq(Component), epoch : Nat]
           m == [sub |-> s, rescan |-> e.rescan, keys |-> e.keys, epoch |-> e.epoch]
           D == [keys : SUBSET Key, need : Nat]
<1>1. AsParked(e) \in Parked /\ AsParked(e).epoch = e.epoch
  <2>1. (CHOOSE k \in e.keys : TRUE) \in Seq(Component)
    OBVIOUS
  <2> QED BY <2>1 DEF AsParked, Parked
<1>2. /\ chan' = Append(chan, m)
      /\ peak' = [peak EXCEPT ![s] = larger(peak[s], e.epoch)]
      /\ last' = IF e.rescan THEN [last EXCEPT ![s] = AsParked(e)] ELSE last
      /\ owed' = IF e.rescan
                 THEN [owed EXCEPT ![s] = {o \in owed[s] : ~Covers(AsParked(e), o)}] ELSE owed
  BY DEF send
<1>3. m \in M
  OBVIOUS
<1>4. chan \in Seq(M) /\ peak \in [Sub -> Nat] /\ last \in [Sub -> Parked] /\ owed \in [Sub -> SUBSET D]
  BY DEF RestTyped
<1> HIDE DEF M, m, D
<1>5. chan' \in Seq(M) /\ Len(chan') = Len(chan) + 1 /\ chan'[Len(chan')] = m
  BY <1>2, <1>3, <1>4
<1>6. peak' \in [Sub -> Nat]
  <2>1. larger(peak[s], e.epoch) \in Nat
    BY <1>4, Larger
  <2> QED BY <1>2, <1>4, <2>1
<1>7. last' \in [Sub -> Parked]
  BY <1>1, <1>2, <1>4
<1>8. owed' \in [Sub -> SUBSET D]
  <2>1. {o \in owed[s] : ~Covers(AsParked(e), o)} \in SUBSET D
    BY <1>4
  <2> QED BY <1>2, <1>4, <2>1
<1> QED BY <1>1, <1>2, <1>4, <1>5, <1>6, <1>7, <1>8 DEF M, m, D

LEMMA OfferedTyped ==
    ASSUME Plane(needs), NEW s \in DOMAIN needs
    PROVE  /\ AsParked(Offered(s)) = needs[s] /\ Offered(s).rescan /\ Offered(s).rescan \in BOOLEAN
           /\ Offered(s).keys \subseteq Seq(Component) /\ Offered(s).keys # {}
           /\ Offered(s).epoch \in Nat /\ Offered(s).epoch = needs[s].epoch
<1>1. needs[s] \in Parked
  BY DEF Plane
<1>2. Offered(s) = [rescan |-> TRUE, keys |-> {needs[s].key}, epoch |-> needs[s].epoch]
  BY DEF Offered
<1>3. needs[s].key \in Seq(Component) /\ needs[s].epoch \in Nat
      /\ needs[s] = [key |-> needs[s].key, epoch |-> needs[s].epoch]
  BY <1>1 DEF Parked
<1>4. AsParked(Offered(s)) = [key |-> needs[s].key, epoch |-> needs[s].epoch]
  BY <1>2, ParkedSingle
<1> QED BY <1>2, <1>3, <1>4

\* The types in two halves: the books of what is withheld and sent, and the
\* rest of the owner's state.
TypedBooks ==
    /\ base \in [Sub -> Nat] /\ hw \in [Sub -> Nat]
    /\ Plane(needs) /\ Plane(suppressed)
    /\ held \in [Sub -> Seq(Delta)] /\ \A s \in Sub : Len(held[s]) <= MaxHeld
    /\ out \in [Sub -> Seq(Emission)]
    /\ owed \in [Sub -> SUBSET [keys : SUBSET Key, need : Nat]]
    /\ chan \in Seq([sub : Sub, rescan : BOOLEAN, keys : SUBSET Seq(Component), epoch : Nat])
    /\ Len(chan) <= Capacity
    /\ peak \in [Sub -> Nat]
    /\ last \in [Sub -> Parked]

TypedRest ==
    /\ live \subseteq used /\ used \subseteq Sub /\ settling \subseteq used \cap Debounced
    /\ root \in Key \cup {<<>>}
    /\ live # {} => root \in Key
    /\ raw \in Nat
    /\ retired \subseteq live
    /\ unclaimed \subseteq used /\ owned \subseteq used
    /\ grant \in [Sub -> {"none", "open", "claim", "orphan"}]
    /\ cut \in BOOLEAN
    /\ cursor \in Sub \cup {0}
    /\ phase \in {"run", "drain", "ended", "closed"}
    /\ pc \in {"idle", "emit", "settle", "flush", "test", "cut", "last"}
    /\ then \in {"idle", "settle", "test", "last"}
    /\ events \in 0..MaxEvents

LEMMA TypesSplit == TypeOK /\ RestTyped <=> TypedBooks /\ TypedRest
<1>1. ASSUME TypeOK, RestTyped PROVE TypedBooks /\ TypedRest
  <2>1. TypedBooks
    BY <1>1, Typing DEF TypeOK, RestTyped, TypedBooks
  <2>2. TypedRest
    BY <1>1 DEF TypeOK, RestTyped, TypedRest
  <2> QED BY <2>1, <2>2
<1>2. ASSUME TypedBooks, TypedRest PROVE TypeOK /\ RestTyped
  <2>1. ASSUME NEW s \in Sub
        PROVE  /\ Len(held[s]) <= MaxHeld
               /\ Range(held[s]) \subseteq Delta /\ Range(out[s]) \subseteq Emission
    <3>1. held[s] \in Seq(Delta) /\ out[s] \in Seq(Emission) /\ Len(held[s]) <= MaxHeld
      BY <1>2 DEF TypedBooks
    <3>2. (\A i \in DOMAIN held[s] : held[s][i] \in Delta) /\ \A i \in DOMAIN out[s] : out[s][i] \in Emission
      BY <3>1
    <3> QED BY <3>1, <3>2 DEF Range
  <2>2. TypeOK
    BY <1>2, <2>1 DEF TypedBooks, TypedRest, TypeOK, Plane
  <2>3. RestTyped
    BY <1>2 DEF TypedBooks, TypedRest, RestTyped, Plane
  <2> QED BY <2>2, <2>3
<1> QED BY <1>1, <1>2

LEMMA RestStep ==
    ASSUME TypedRest, ClaimsSound, DOMAIN needs \subseteq Sub, [Next]_vars
    PROVE  TypedRest'
<1>1. ASSUME NEW s \in Sub, NEW taken \in BOOLEAN, reply(s, taken), s \notin used
      PROVE  /\ live' \subseteq used' /\ used' \subseteq Sub /\ settling' \subseteq used' \cap Debounced
             /\ unclaimed' \subseteq used' /\ owned' \subseteq used' /\ live \subseteq live'
             /\ grant' \in [Sub -> {"none", "open", "claim", "orphan"}] /\ cut' \in BOOLEAN
  <2>1. used' = used \cup {s} /\ owned' = owned /\ cut' = cut
    BY <1>1 DEF reply
  <2>2. settling' = settling \/ settling' = settling \cup ({s} \cap Debounced)
    BY <1>1 DEF reply
  <2>3. (live' = live \/ live' = live \cup {s}) /\ (unclaimed' = unclaimed \/ unclaimed' = unclaimed \cup {s})
    BY <1>1 DEF reply
  <2>4. grant' = grant \/ grant' = [grant EXCEPT ![s] = "open"]
    BY <1>1 DEF reply
  <2>5. cut' \in BOOLEAN
    BY <2>1, Zenon DEF TypedRest
  <2> QED BY <2>1, <2>2, <2>3, <2>4, <2>5 DEF TypedRest
<1>2. ASSUME NEW s \in Sub, release_subscription(s)
      PROVE  live' = live \ {s} /\ unclaimed' = unclaimed \ {s} /\ retired' = retired \ {s}
  BY <1>2 DEF release_subscription
<1>3. spends => events' \in 0..MaxEvents
  BY BoundAssumption DEF spends, TypedRest
<1>4. start_flush => pc' \in {"emit", "flush"} /\ cursor' \in Sub \cup {0}
  BY DEF start_flush, flushing, TypedRest
<1>5. \A s \in Sub : KeyOf[s] \in Key
  BY SubAssumption
<1>6. ASSUME cut' = cut PROVE cut' \in BOOLEAN
  BY <1>6, Zenon DEF TypedRest
<1>7. CASE Environment
  <2>1. ASSUME NEW s \in Sub, NEW taken \in BOOLEAN, Watch(s, taken) PROVE TypedRest'
    <3>1. reply(s, taken) /\ s \notin used /\ UNCHANGED <<retired, cursor, phase, pc, then, events>>
      BY <2>1 DEF Watch, flushing, control
    <3>2. root' \in Key /\ raw' \in Nat
      <4>1. \/ root' = KeyOf[s] /\ raw' = 0
            \/ live # {} /\ root' = root /\ raw' = raw
        BY <2>1 DEF Watch
      <4> QED BY <1>5, <4>1 DEF TypedRest
    <3>3. /\ live' \subseteq used' /\ used' \subseteq Sub /\ settling' \subseteq used' \cap Debounced
          /\ unclaimed' \subseteq used' /\ owned' \subseteq used' /\ live \subseteq live'
          /\ grant' \in [Sub -> {"none", "open", "claim", "orphan"}] /\ cut' \in BOOLEAN
      BY <1>1, <3>1
    <3> QED BY <3>1, <3>2, <3>3 DEF TypedRest
  <2>2. ASSUME NEW s \in Sub, NEW taken \in BOOLEAN, Widen(s, taken) PROVE TypedRest'
    <3>1. /\ reply(s, taken) /\ s \notin used /\ UNCHANGED <<retired, cursor, phase>>
          /\ spends /\ pc' = "emit" /\ then' = "idle" /\ root' = KeyOf[s] /\ raw' \in {0, raw}
      BY <2>2 DEF Widen, repoint, flushing
    <3>2. root' \in Key /\ raw' \in Nat
      BY <1>5, <3>1 DEF TypedRest
    <3>3. /\ live' \subseteq used' /\ used' \subseteq Sub /\ settling' \subseteq used' \cap Debounced
          /\ unclaimed' \subseteq used' /\ owned' \subseteq used' /\ live \subseteq live'
          /\ grant' \in [Sub -> {"none", "open", "claim", "orphan"}] /\ cut' \in BOOLEAN
      BY <1>1, <3>1
    <3> QED BY <1>3, <3>1, <3>2, <3>3 DEF TypedRest
  <2>3. ASSUME NEW s \in Sub, CallerClaims(s) \/ CallerDrops(s) PROVE TypedRest'
    <3>1. /\ UNCHANGED <<live, root, raw, retired, unclaimed, cut, cursor, phase, pc, then, used, settling, events>>
          /\ owned' = owned \/ (owned' = owned \cup {s} /\ grant[s] = "open")
          /\ \E g \in {"none", "claim", "orphan"} : grant' = [grant EXCEPT ![s] = g]
      BY <2>3 DEF CallerClaims, CallerDrops, ledger, flushing, control, minted
    <3>2. cut' \in BOOLEAN
      BY <1>6, <3>1
    <3>3. owned' \subseteq used
      BY <3>1 DEF TypedRest, ClaimsSound
    <3> QED BY <3>1, <3>2, <3>3 DEF TypedRest
  <2>4. ASSUME NEW s \in Sub, Unwatch(s) PROVE TypedRest'
    <3>1. /\ release_subscription(s) /\ owned' = owned \ {s}
          /\ UNCHANGED <<root, raw, grant, cut, cursor, phase, pc, then, used, settling, events>>
      BY <2>4 DEF Unwatch, flushing, control, minted
    <3>2. cut' \in BOOLEAN
      BY <1>6, <3>1
    <3> QED BY <1>2, <3>1, <3>2 DEF TypedRest
  <2>5. ASSUME NEW due, NEW ks, NEW a, NEW p, NEW c, Observe(ks, a, p, c, due) PROVE TypedRest'
    <3>1. /\ UNCHANGED <<live, root, raw, unclaimed, grant, owned, cut, cursor, phase, used, settling>>
          /\ spends /\ pc' = "emit" /\ then' = "settle"
          /\ a \subseteq live /\ p \subseteq a /\ retired' = retired \cup p
      BY <2>5 DEF Observe, claims, flushing, minted
    <3>2. cut' \in BOOLEAN
      BY <1>6, <3>1
    <3> QED BY <1>3, <3>1, <3>2 DEF TypedRest
  <2>6. ASSUME NEW due, NEW k, SourceRescan(k, due) PROVE TypedRest'
    <3>1. /\ UNCHANGED <<live, root, retired, unclaimed, grant, owned, cut, cursor, phase, used, settling>>
          /\ spends /\ raw' = raw + 1 /\ pc' = "emit" /\ then' = "settle"
      BY <2>6 DEF SourceRescan, claims, flushing, minted
    <3>2. cut' \in BOOLEAN
      BY <1>6, <3>1
    <3> QED BY <1>3, <3>1, <3>2 DEF TypedRest
  <2>7. CASE Restore
    <3>1. /\ UNCHANGED <<live, root, retired, unclaimed, grant, owned, cut, cursor, phase, used, settling>>
          /\ spends /\ raw' = 0 /\ pc' = "emit" /\ then' = "idle"
      BY <2>7 DEF Restore, repoint, claims, flushing, minted
    <3>2. cut' \in BOOLEAN
      BY <1>6, <3>1
    <3> QED BY <1>3, <3>1, <3>2 DEF TypedRest
  <2>8. CASE Rollback \/ Retire
    <3>1. /\ UNCHANGED <<root, raw, unclaimed, grant, owned, cut, cursor, phase, pc, then, used, settling>>
          /\ spends
          /\ (live' = live /\ retired' = retired) \/ (live' = {} /\ retired' = retired \ live)
      BY <2>8 DEF Rollback, Retire, claims, flushing, control, minted
    <3>2. cut' \in BOOLEAN
      BY <1>6, <3>1
    <3> QED BY <1>3, <3>1, <3>2 DEF TypedRest
  <2>9. CASE SourceEnds
    <3>1. cut' \in BOOLEAN
      BY <1>6, <2>9 DEF SourceEnds, claims
    <3> QED BY <2>9, <3>1 DEF SourceEnds, ledger, claims, flushing, minted, TypedRest
  <2>10. CASE Close
    <3>1. /\ live' = {} /\ unclaimed' = {} /\ retired' = {} /\ cut' = TRUE /\ phase' = "closed"
          /\ UNCHANGED <<root, raw, grant, owned, cursor, pc, then, used, settling, events>>
      BY <2>10 DEF Close, ledger, flushing, minted
    <3> QED BY <3>1 DEF TypedRest
  <2> QED BY <1>7, <2>1, <2>2, <2>3, <2>4, <2>5, <2>6, <2>7, <2>8, <2>9, <2>10 DEF Environment
<1>8. CASE Owner
  <2>1. ASSUME NEW s \in Sub, ApplyClaim(s) PROVE TypedRest'
    <3>1. /\ UNCHANGED <<live, root, raw, retired, owned, cut, cursor, phase, pc, then, used, settling, events>>
          /\ unclaimed' = unclaimed \ {s} /\ grant' = [grant EXCEPT ![s] = "none"]
      BY <2>1 DEF ApplyClaim, ledger, flushing, control, minted
    <3>2. cut' \in BOOLEAN
      BY <1>6, <3>1
    <3> QED BY <3>1, <3>2 DEF TypedRest
  <2>2. ASSUME NEW s \in Sub, ApplyOrphan(s) PROVE TypedRest'
    <3>1. /\ UNCHANGED <<root, raw, owned, cut, cursor, phase, pc, then, used, settling, events>>
          /\ release_subscription(s) /\ grant' = [grant EXCEPT ![s] = "none"]
      BY <2>2 DEF ApplyOrphan, flushing, control, minted
    <3>2. cut' \in BOOLEAN
      BY <1>6, <3>1
    <3> QED BY <1>2, <3>1, <3>2 DEF TypedRest
  <2>3. ASSUME NEW s \in Sub, EmitSend(s) \/ EmitMerge(s) \/ EmitSuppress(s) \/ EmitShed(s)
        PROVE  TypedRest'
    <3>1. UNCHANGED <<live, root, raw, retired, unclaimed, grant, owned, cut, cursor, phase, pc, then, used,
                      settling, events>>
      BY <2>3 DEF EmitSend, EmitMerge, EmitSuppress, EmitShed, ledger, claims, flushing, control, minted
    <3>2. cut' \in BOOLEAN
      BY <1>6, <3>1
    <3> QED BY <3>1, <3>2 DEF TypedRest
  <2>4. ASSUME NEW due, DrainDue(due) PROVE TypedRest'
    <3>1. /\ UNCHANGED <<live, root, raw, retired, unclaimed, grant, owned, cut, cursor, phase, used, settling, events>>
          /\ pc' = "emit" /\ then' = "idle"
      BY <2>4 DEF DrainDue, ledger, claims, flushing, minted
    <3>2. cut' \in BOOLEAN
      BY <1>6, <3>1
    <3> QED BY <3>1, <3>2 DEF TypedRest
  <2>5. CASE EmitDone \/ DrainTest \/ DrainLast
    <3>1. /\ UNCHANGED <<live, root, raw, retired, unclaimed, grant, owned, cut, cursor, then, used, settling, events>>
          /\ pc' \in {then, "cut", "idle"} /\ phase' \in {phase, "ended"}
      BY <2>5 DEF EmitDone, DrainTest, DrainLast, ledger, claims, flushing, minted
    <3>2. cut' \in BOOLEAN
      BY <1>6, <3>1
    <3> QED BY <3>1, <3>2 DEF TypedRest
  <2>6. CASE Cut
    <3>1. /\ UNCHANGED <<live, root, raw, retired, unclaimed, grant, owned, cursor, phase, pc, then, used,
                         settling, events>>
          /\ cut' = TRUE
      BY <2>6 DEF Cut, ledger, flushing, control, minted
    <3> QED BY <3>1 DEF TypedRest
  <2>7. CASE Flush \/ DrainOwed
    <3>1. /\ UNCHANGED <<live, root, raw, retired, unclaimed, grant, owned, cut, phase, used, settling, events>>
          /\ start_flush /\ then' \in {"idle", "last", "test"}
      BY <2>7 DEF Flush, DrainOwed, ledger, claims, minted
    <3>2. cut' \in BOOLEAN
      BY <1>6, <3>1
    <3> QED BY <1>4, <3>1, <3>2 DEF TypedRest
  <2>8. CASE FlushSend
    <3>1. UNCHANGED <<live, root, raw, retired, unclaimed, grant, owned, cut, cursor, phase, pc, then, used,
                      settling, events>>
      BY <2>8 DEF FlushSend, ledger, claims, control, minted
    <3>2. cut' \in BOOLEAN
      BY <1>6, <3>1
    <3> QED BY <3>1, <3>2 DEF TypedRest
  <2>9. CASE FlushEnd
    <3>1. /\ UNCHANGED <<live, root, raw, retired, unclaimed, grant, owned, cut, phase, then, used, settling, events>>
          /\ pc' = "emit" /\ (cursor' = 0 \/ (DOMAIN needs # {} /\ cursor' = first_from))
      BY <2>9 DEF FlushEnd, end_flush, ledger, claims, minted
    <3>2. cut' \in BOOLEAN
      BY <1>6, <3>1
    <3>3. cursor' \in Sub \cup {0}
      BY <3>1, FirstFrom
    <3> QED BY <3>1, <3>2, <3>3 DEF TypedRest
  <2> QED BY <1>8, <2>1, <2>2, <2>3, <2>4, <2>5, <2>6, <2>7, <2>8, <2>9 DEF Owner
<1>9. CASE Recv \/ UNCHANGED vars
  <2>1. UNCHANGED <<live, root, raw, retired, unclaimed, grant, owned, cut, cursor, phase, pc, then, used,
                    settling, events>>
    BY <1>9 DEF Recv, vars, ledger, claims, flushing, control, minted
  <2>2. cut' \in BOOLEAN
    BY <1>6, <2>1
  <2> QED BY <2>1, <2>2 DEF TypedRest
<1> QED BY <1>7, <1>8, <1>9 DEF Next

\* A Rescan of a subscription's own key, to be parked.
LEMMA OwnRescan ==
    ASSUME TypeOK, RestTyped, NEW s \in Sub
    PROVE  /\ [key |-> KeyOf[s], epoch |-> shed_rescan(s)] \in Parked
           /\ shed_rescan(s) \in Nat /\ hw[s] < shed_rescan(s)
<1>1. hw[s] \in Nat /\ KeyOf[s] \in Seq(Component)
  BY Typing
<1>2. shed_rescan(s) \in Nat /\ hw[s] < shed_rescan(s)
  BY <1>1 DEF shed_rescan
<1> QED BY <1>1, <1>2 DEF Parked

\* What a root change parks: a Rescan of its own key for every live
\* subscription, above all it was sent.
RootRescans == [s \in live |-> [key |-> KeyOf[s], epoch |-> shed_rescan(s)]]

LEMMA RootParks ==
    ASSUME TypeOK, RestTyped, EntriesMinted, rescan_live_root
    PROVE  /\ \A s \in live : /\ RootRescans[s] \in Parked
                              /\ RootRescans[s] = [key |-> KeyOf[s], epoch |-> shed_rescan(s)]
           /\ park(live, RootRescans)
           /\ Merged(needs', needs, live \ unclaimed, RootRescans)
           /\ Merged(suppressed', suppressed, live \cap unclaimed, RootRescans)
           /\ held' \in [Sub -> Seq(Delta)] /\ \A s \in Sub : held'[s] = <<>>
           /\ owed' \in [Sub -> SUBSET [keys : SUBSET Key, need : Nat]]
           /\ \A s \in Sub : \A o \in owed'[s] :
                 o \in owed[s] \/ (s \in live /\ Covers(RootRescans[s], o))
<1>1. \A s \in live : /\ RootRescans[s] \in Parked
                      /\ RootRescans[s] = [key |-> KeyOf[s], epoch |-> shed_rescan(s)]
  <2>1. live \subseteq Sub
    BY Typing
  <2> QED BY <2>1, OwnRescan DEF RootRescans
<1>2. park(live, RootRescans)
  BY DEF rescan_live_root, RootRescans
<1>3. live \in SUBSET Sub /\ Plane(needs) /\ Plane(suppressed)
  BY Typing
<1>4. Merged(needs', needs, live \ unclaimed, RootRescans) /\ Merged(suppressed', suppressed, live \cap unclaimed, RootRescans)
  <2> DEFINE d == RootRescans
             T == live
  <2>1. T \in SUBSET Sub /\ (\A s \in T : d[s] \in Parked) /\ Plane(needs) /\ Plane(suppressed) /\ park(T, d)
    BY <1>1, <1>2, <1>3
  <2> HIDE DEF d, T
  <2>2. Merged(needs', needs, T \ unclaimed, d) /\ Merged(suppressed', suppressed, T \cap unclaimed, d)
    BY <2>1, Parks
  <2> QED BY <2>2 DEF d, T
<1>5. /\ held' = [s \in Sub |-> IF s \in live THEN <<>> ELSE held[s]]
      /\ owed' = [s \in Sub |-> IF s \in live
               THEN owed[s] \cup Dropped(s) \cup {[keys |-> {KeyOf[s]}, need |-> shed_rescan(s)]}
               ELSE owed[s]]
  BY DEF rescan_live_root, drop_subscription
<1>6. \A s \in Sub : held'[s] = <<>>
  BY <1>5, HeldMinted
<1>7. held' \in [Sub -> Seq(Delta)]
  <2>1. <<>> \in Seq(Delta)
    OBVIOUS
  <2>2. held' = [s \in Sub |-> held'[s]]
    BY <1>5
  <2> QED BY <1>6, <2>1, <2>2
<1>8. ASSUME NEW s \in Sub, NEW o \in owed'[s], o \notin owed[s]
      PROVE  s \in live /\ Covers(RootRescans[s], o) /\ o \in [keys : SUBSET Key, need : Nat]
  <2>1. s \in live /\ (o \in Dropped(s) \/ o = [keys |-> {KeyOf[s]}, need |-> shed_rescan(s)])
    BY <1>5, <1>8
  <2> DEFINE r == RootRescans[s]
  <2>2. r \in Parked /\ r.key = KeyOf[s] /\ r.epoch = shed_rescan(s)
    <3>1. r \in Parked /\ r = [key |-> KeyOf[s], epoch |-> shed_rescan(s)]
      BY <1>1, <2>1
    <3> HIDE DEF r
    <3> QED BY <3>1
  <2>3. hw[s] \in Nat /\ KeyOf[s] \in Key /\ KeyOf[s] \in Seq(Component)
    BY Typing
  <2>4. shed_rescan(s) = hw[s] + 1
    BY DEF shed_rescan
  <2> HIDE DEF r
  <2>5. CASE o \in Dropped(s)
    <3>1. hw[s] + 1 <= r.epoch
      BY <2>2, <2>3, <2>4
    <3> QED BY <2>1, <2>2, <2>5, <3>1, DroppedCovered DEF r
  <2>6. CASE o = [keys |-> {KeyOf[s]}, need |-> shed_rescan(s)]
    <3>1. StartsWith(KeyOf[s], KeyOf[s]) /\ shed_rescan(s) \in Nat
      BY <2>3, <2>4, Inside
    <3>2. Covers(r, o) /\ o \in [keys : SUBSET Key, need : Nat]
      BY <2>2, <2>3, <2>6, <3>1 DEF Covers
    <3> QED BY <2>1, <3>2 DEF r
  <2> QED BY <2>1, <2>5, <2>6
<1>9. owed' \in [Sub -> SUBSET [keys : SUBSET Key, need : Nat]]
  <2>1. \A s \in Sub : owed[s] \in SUBSET [keys : SUBSET Key, need : Nat]
    BY DEF RestTyped
  <2>2. \A s \in Sub : owed'[s] \in SUBSET [keys : SUBSET Key, need : Nat]
    BY <1>8, <2>1
  <2>3. owed' = [s \in Sub |-> owed'[s]]
    BY <1>5
  <2> QED BY <2>2, <2>3
<1> QED BY <1>1, <1>2, <1>4, <1>6, <1>7, <1>8, <1>9

\* What the shedding of one delta parks.
LEMMA ShedParks ==
    ASSUME TypeOK, RestTyped, EntriesMinted, NEW s \in Sub, EmitShed(s)
    PROVE  \E d : /\ d[s] \in Parked /\ d[s] = [key |-> KeyOf[s], epoch |-> shed_rescan(s)]
                  /\ Merged(needs', needs, {s} \ unclaimed, d)
                  /\ Merged(suppressed', suppressed, {s} \cap unclaimed, d)
                  /\ hw' \in [Sub -> Nat] /\ hw'[s] = shed_rescan(s)
                  /\ \A x \in Sub \ {s} : hw'[x] = hw[x] /\ owed'[x] = owed[x] /\ held'[x] = held[x]
                  /\ held' \in [Sub -> Seq(Delta)] /\ held'[s] = <<>>
                  /\ owed' \in [Sub -> SUBSET [keys : SUBSET Key, need : Nat]]
                  /\ \A o \in owed'[s] : o \in owed[s] \/ Covers(d[s], o)
<1> DEFINE d == [x \in {s} |-> [key |-> KeyOf[s], epoch |-> shed_rescan(s)]]
           e == Head(out[s])
<1>1. /\ Emitting(s) /\ ~e.rescan /\ park({s}, d)
      /\ hw' = [hw EXCEPT ![s] = shed_rescan(s)]
      /\ held' = [x \in Sub |-> IF x \in {s} THEN <<>> ELSE held[x]]
      /\ owed' = [owed EXCEPT ![s] = owed[s] \cup {Debt(e)} \cup Dropped(s)]
  BY DEF EmitShed, drop_subscription
<1>2. d[s] = [key |-> KeyOf[s], epoch |-> shed_rescan(s)] /\ d[s] \in Parked
      /\ shed_rescan(s) \in Nat /\ hw[s] < shed_rescan(s)
  BY OwnRescan
<1> HIDE DEF d
<1>3. Merged(needs', needs, {s} \ unclaimed, d) /\ Merged(suppressed', suppressed, {s} \cap unclaimed, d)
  <2> DEFINE T == {s}
  <2>1. T \in SUBSET Sub /\ (\A x \in T : d[x] \in Parked) /\ Plane(needs) /\ Plane(suppressed) /\ park(T, d)
    BY <1>1, <1>2, Typing
  <2> HIDE DEF T
  <2>2. Merged(needs', needs, T \ unclaimed, d) /\ Merged(suppressed', suppressed, T \cap unclaimed, d)
    BY <2>1, Parks
  <2> QED BY <2>2 DEF T
<1>4. hw \in [Sub -> Nat] /\ held \in [Sub -> Seq(Delta)]
      /\ owed \in [Sub -> SUBSET [keys : SUBSET Key, need : Nat]]
  BY Typing DEF TypeOK, RestTyped
<1>5. e \in Emission /\ e.epoch <= hw[s] /\ Below(s, e.keys)
  BY <1>1, Popped
<1>6. \A o \in Dropped(s) \cup {Debt(e)} : o \in [keys : SUBSET Key, need : Nat] /\ Covers(d[s], o)
  <2>1. d[s].key = KeyOf[s] /\ d[s].epoch = shed_rescan(s) /\ hw[s] \in Nat /\ shed_rescan(s) = hw[s] + 1
    BY <1>2, Typing DEF shed_rescan
  <2>2. hw[s] + 1 <= d[s].epoch
    BY <2>1
  <2>3. \A o \in Dropped(s) : o \in [keys : SUBSET Key, need : Nat] /\ Covers(d[s], o)
    BY <1>2, <2>1, <2>2, DroppedCovered
  <2>4. Debt(e) = [keys |-> e.keys, need |-> e.epoch + 1] /\ e.epoch \in Nat /\ e.keys \in SUBSET Key
    BY <1>1, <1>5 DEF Debt, Emission
  <2> HIDE DEF e
  <2>5. Debt(e) \in [keys : SUBSET Key, need : Nat] /\ Covers(d[s], Debt(e))
    BY <1>5, <2>1, <2>4 DEF Covers, Below
  <2> QED BY <2>3, <2>5
<1> HIDE DEF e
<1>7. owed'[s] = owed[s] \cup {Debt(e)} \cup Dropped(s) /\ \A x \in Sub \ {s} : owed'[x] = owed[x]
  BY <1>1, <1>4
<1>8. owed' \in [Sub -> SUBSET [keys : SUBSET Key, need : Nat]]
  <2>1. owed[s] \cup {Debt(e)} \cup Dropped(s) \in SUBSET [keys : SUBSET Key, need : Nat]
    BY <1>4, <1>6
  <2> QED BY <1>1, <1>4, <2>1
<1>9. held' \in [Sub -> Seq(Delta)] /\ held'[s] = <<>> /\ \A x \in Sub \ {s} : held'[x] = held[x]
  <2>1. <<>> \in Seq(Delta)
    OBVIOUS
  <2> QED BY <1>1, <1>4, <2>1
<1>10. hw' \in [Sub -> Nat] /\ hw'[s] = shed_rescan(s) /\ \A x \in Sub \ {s} : hw'[x] = hw[x]
  BY <1>1, <1>2, <1>4
<1>11. \A o \in owed'[s] : o \in owed[s] \/ Covers(d[s], o)
  BY <1>6, <1>7
<1> QED BY <1>2, <1>3, <1>7, <1>8, <1>9, <1>10, <1>11

\* What the parking of a Rescan itself does.
LEMMA MergeParks ==
    ASSUME TypeOK, RestTyped, EntriesMinted, NEW s \in Sub, EmitMerge(s)
    PROVE  \E d : /\ d[s] \in Parked /\ d[s] = AsParked(Head(out[s]))
                  /\ Merged(needs', needs, {s} \ unclaimed, d)
                  /\ Merged(suppressed', suppressed, {s} \cap unclaimed, d)
<1> DEFINE e == Head(out[s])
           d == [x \in {s} |-> AsParked(e)]
<1>1. Emitting(s) /\ park({s}, d)
  BY DEF EmitMerge
<1>2. e \in Emission
  BY <1>1, Popped
<1>3. d[s] = AsParked(e) /\ AsParked(e) \in Parked
  BY <1>2, ParkedEmission
<1> HIDE DEF d, e
<1> DEFINE T == {s}
<1>4. T \in SUBSET Sub /\ (\A x \in T : d[x] \in Parked) /\ Plane(needs) /\ Plane(suppressed) /\ park(T, d)
  BY <1>1, <1>3, Typing
<1> HIDE DEF T
<1>5. Merged(needs', needs, T \ unclaimed, d) /\ Merged(suppressed', suppressed, T \cap unclaimed, d)
  BY <1>4, Parks
<1> QED BY <1>3, <1>5 DEF T, e

\* What the growth of a debt does.
LEMMA SuppressGrows ==
    ASSUME TypeOK, RestTyped, EntriesMinted, NEW s \in Sub, EmitSuppress(s)
    PROVE  /\ Plane(needs') /\ Plane(suppressed')
           /\ DOMAIN needs' = DOMAIN needs /\ DOMAIN suppressed' = DOMAIN suppressed
           /\ \A x \in DOMAIN needs \ {s} : needs'[x] = needs[x]
           /\ \A x \in DOMAIN suppressed \ {s} : suppressed'[x] = suppressed[x]
           /\ s \in DOMAIN needs =>
                 /\ Wider(needs'[s], needs[s]) /\ Covers(needs'[s], Debt(Head(out[s])))
                 /\ needs'[s].epoch \in {needs[s].epoch, shed_rescan(s)}
           /\ s \in DOMAIN suppressed =>
                 /\ Wider(suppressed'[s], suppressed[s]) /\ Covers(suppressed'[s], Debt(Head(out[s])))
                 /\ suppressed'[s].epoch \in {suppressed[s].epoch, shed_rescan(s)}
           /\ s \in DOMAIN needs \/ s \in DOMAIN suppressed
           /\ hw' \in [Sub -> Nat] /\ hw'[s] = shed_rescan(s) /\ hw[s] < hw'[s]
           /\ \A x \in Sub \ {s} : hw'[x] = hw[x] /\ owed'[x] = owed[x]
           /\ owed'[s] = owed[s] \cup {Debt(Head(out[s]))}
           /\ owed' \in [Sub -> SUBSET [keys : SUBSET Key, need : Nat]]
<1> DEFINE e == Head(out[s])
           n == shed_rescan(s)
           K == e.keys
<1>1. /\ Emitting(s) /\ ~e.rescan /\ (s \in DOMAIN needs \/ s \in DOMAIN suppressed)
      /\ needs' = widen_debt(needs, s, K, n)
      /\ suppressed' = widen_debt(suppressed, s, K, n)
      /\ hw' = [hw EXCEPT ![s] = n]
      /\ owed' = [owed EXCEPT ![s] = owed[s] \cup {Debt(e)}]
  BY DEF EmitSuppress, in_debt
<1>2. e \in Emission /\ e.epoch <= hw[s]
  BY <1>1, Popped
<1>3. K \in SUBSET Key /\ K # {} /\ e.epoch \in Nat
  BY <1>2 DEF Emission
<1>4. n \in Nat /\ hw[s] < n /\ hw[s] \in Nat /\ n = hw[s] + 1
  BY OwnRescan, Typing DEF shed_rescan
<1>5. Debt(e) = [keys |-> K, need |-> e.epoch + 1]
  BY <1>1 DEF Debt
<1> HIDE DEF e, n, K
<1>6. ASSUME NEW p, NEW q, Plane(p), q = widen_debt(p, s, K, n)
      PROVE  /\ Plane(q) /\ DOMAIN q = DOMAIN p
             /\ \A x \in DOMAIN p \ {s} : q[x] = p[x]
             /\ s \in DOMAIN p => /\ Wider(q[s], p[s]) /\ Covers(q[s], Debt(e))
                                  /\ q[s].epoch \in {p[s].epoch, n}
  <2>1. Widened(widen_debt(p, s, K, n), p, s, K, n)
    BY <1>3, <1>4, <1>6, WidenDebt
  <2>2. /\ Plane(q) /\ DOMAIN q = DOMAIN p
        /\ \A x \in DOMAIN p \ {s} : q[x] = p[x]
        /\ s \in DOMAIN p =>
              /\ Wider(q[s], p[s]) /\ n <= q[s].epoch
              /\ \A k \in K : StartsWith(k, q[s].key)
              /\ q[s].epoch \in {p[s].epoch, n}
    BY <1>6, <2>1 DEF Widened
  <2>3. s \in DOMAIN p => Covers(q[s], Debt(e))
    <3> SUFFICES ASSUME s \in DOMAIN p PROVE Covers(q[s], Debt(e))
      OBVIOUS
    <3>1. q[s].epoch \in Nat
      BY <2>2 DEF Plane, Parked
    <3>2. e.epoch + 1 <= q[s].epoch
      BY <1>2, <1>3, <1>4, <2>2, <3>1
    <3> QED BY <1>5, <2>2, <3>2 DEF Covers
  <2> QED BY <2>2, <2>3
<1>7. Plane(needs) /\ Plane(suppressed) /\ hw \in [Sub -> Nat]
      /\ owed \in [Sub -> SUBSET [keys : SUBSET Key, need : Nat]]
  BY Typing DEF TypeOK, RestTyped
<1>8. /\ Plane(needs') /\ DOMAIN needs' = DOMAIN needs
      /\ \A x \in DOMAIN needs \ {s} : needs'[x] = needs[x]
      /\ s \in DOMAIN needs => /\ Wider(needs'[s], needs[s]) /\ Covers(needs'[s], Debt(e))
                               /\ needs'[s].epoch \in {needs[s].epoch, n}
  BY <1>1, <1>6, <1>7
<1>9. /\ Plane(suppressed') /\ DOMAIN suppressed' = DOMAIN suppressed
      /\ \A x \in DOMAIN suppressed \ {s} : suppressed'[x] = suppressed[x]
      /\ s \in DOMAIN suppressed =>
            /\ Wider(suppressed'[s], suppressed[s]) /\ Covers(suppressed'[s], Debt(e))
            /\ suppressed'[s].epoch \in {suppressed[s].epoch, n}
  BY <1>1, <1>6, <1>7
<1>10. hw' \in [Sub -> Nat] /\ hw'[s] = n /\ \A x \in Sub \ {s} : hw'[x] = hw[x]
  BY <1>1, <1>4, <1>7
<1>11. owed'[s] = owed[s] \cup {Debt(e)} /\ \A x \in Sub \ {s} : owed'[x] = owed[x]
  BY <1>1, <1>7
<1>12. owed' \in [Sub -> SUBSET [keys : SUBSET Key, need : Nat]]
  <2>1. Debt(e) \in [keys : SUBSET Key, need : Nat]
    BY <1>3, <1>5
  <2>2. owed[s] \cup {Debt(e)} \in SUBSET [keys : SUBSET Key, need : Nat]
    BY <1>7, <2>1
  <2> QED BY <1>1, <1>7, <2>2
<1> QED BY <1>1, <1>4, <1>8, <1>9, <1>10, <1>11, <1>12 DEF e, n

\* What is owed, as it is typed.
DebtSets == [Sub -> SUBSET [keys : SUBSET Key, need : Nat]]
Messages == Seq([sub : Sub, rescan : BOOLEAN, keys : SUBSET Seq(Component), epoch : Nat])

LEMMA BooksStep ==
    ASSUME TypeOK, RestTyped, EntriesMinted, [Next]_vars
    PROVE  TypedBooks'
<1>0. TypedBooks /\ owed \in DebtSets /\ chan \in Messages
  BY TypesSplit DEF TypedBooks, DebtSets, Messages
<1> DEFINE M == [sub : Sub, rescan : BOOLEAN, keys : SUBSET Seq(Component), epoch : Nat]
<1>1. ASSUME UNCHANGED <<base, hw, needs, suppressed, held, out, owed, peak, last>>,
             chan' \in Messages, Len(chan') <= Capacity
      PROVE  TypedBooks'
  BY <1>0, <1>1 DEF TypedBooks, Plane, Messages
<1>2. ASSUME UNCHANGED chan PROVE chan' \in Messages /\ Len(chan') <= Capacity
  BY <1>0, <1>2 DEF TypedBooks, Messages
<1>3. ASSUME hw' \in [Sub -> Nat], base' \in [Sub -> Nat], UNCHANGED sent,
             Plane(needs'), Plane(suppressed'), held' \in [Sub -> Seq(Delta)],
             \A s \in Sub : Len(held'[s]) <= MaxHeld, out' \in [Sub -> Seq(Emission)],
             owed' \in DebtSets
      PROVE  TypedBooks'
  <2>1. UNCHANGED <<chan, peak, last>>
    BY <1>3 DEF sent
  <2>2. chan' \in Messages /\ Len(chan') <= Capacity
    BY <1>2, <2>1
  <2> QED BY <1>0, <1>3, <2>1, <2>2 DEF TypedBooks, Plane, DebtSets, Messages
<1>4. UNCHANGED planes => Plane(needs') /\ Plane(suppressed')
  BY <1>0 DEF planes, TypedBooks
<1>5. Emitted => /\ hw' \in [Sub -> Nat] /\ held' \in [Sub -> Seq(Delta)]
                 /\ \A s \in Sub : Len(held'[s]) <= MaxHeld
                 /\ out' \in [Sub -> Seq(Emission)]
  BY DEF Emitted
<1>6. UNCHANGED base => base' \in [Sub -> Nat]
  BY <1>0 DEF TypedBooks
<1>7. UNCHANGED held => held' \in [Sub -> Seq(Delta)] /\ \A s \in Sub : Len(held'[s]) <= MaxHeld
  BY <1>0 DEF TypedBooks
<1>8. \A s \in Sub : held'[s] = <<>> => Len(held'[s]) <= MaxHeld
  BY BoundAssumption
<1>9. ASSUME NEW s \in Sub, release_subscription(s), UNCHANGED <<out, sent>> PROVE TypedBooks'
  <2>1. /\ needs' = Drop(needs, {s}) /\ suppressed' = Drop(suppressed, {s})
        /\ held' = [held EXCEPT ![s] = <<>>]
        /\ base' = [base EXCEPT ![s] = 0] /\ hw' = [hw EXCEPT ![s] = 0]
        /\ owed' = [owed EXCEPT ![s] = {}]
    BY <1>9 DEF release_subscription
  <2>2. Plane(needs') /\ Plane(suppressed')
    BY <1>0, <2>1, DropPlane DEF TypedBooks
  <2>3. base' \in [Sub -> Nat] /\ hw' \in [Sub -> Nat]
    BY <1>0, <2>1 DEF TypedBooks
  <2>4. held' \in [Sub -> Seq(Delta)] /\ \A x \in Sub : held'[x] = held[x] \/ held'[x] = <<>>
    <3>1. <<>> \in Seq(Delta)
      OBVIOUS
    <3> QED BY <1>0, <2>1, <3>1 DEF TypedBooks
  <2>5. \A x \in Sub : Len(held'[x]) <= MaxHeld
    BY <1>0, <1>8, <2>4 DEF TypedBooks
  <2>6. owed' \in DebtSets
    BY <1>0, <2>1 DEF DebtSets
  <2>7. out' \in [Sub -> Seq(Emission)]
    BY <1>0, <1>9 DEF TypedBooks
  <2> QED BY <1>3, <1>9, <2>2, <2>3, <2>4, <2>5, <2>6, <2>7
<1>10. ASSUME NEW s \in Sub, NEW e, send(s, e), accepts, e.rescan \in BOOLEAN,
              e.keys \subseteq Seq(Component), e.keys # {}, e.epoch \in Nat,
              Plane(needs'), UNCHANGED <<base, hw, suppressed, held>>, out' \in [Sub -> Seq(Emission)]
       PROVE  TypedBooks'
  <2>1. /\ chan' \in Messages /\ Len(chan') = Len(chan) + 1 /\ peak' \in [Sub -> Nat]
        /\ last' \in [Sub -> Parked] /\ owed' \in DebtSets
    BY <1>10, SendTyped DEF Messages, DebtSets
  <2>2. Len(chan') <= Capacity
    <3>1. Len(chan) \in Nat
      BY <1>0 DEF Messages
    <3> QED BY <1>10, <2>1, <3>1, BoundAssumption DEF accepts, Full
  <2> QED BY <1>0, <1>10, <2>1, <2>2 DEF TypedBooks, Plane, DebtSets, Messages
<1>11. CASE Environment
  <2>1. ASSUME NEW s \in Sub, NEW taken \in BOOLEAN, Watch(s, taken) PROVE TypedBooks'
    BY <1>1, <1>2, <2>1 DEF Watch, planes, sent
  <2>2. ASSUME NEW s \in Sub, NEW taken \in BOOLEAN, Widen(s, taken) PROVE TypedBooks'
    <3>1. repoint /\ UNCHANGED <<planes, sent>>
      BY <2>2 DEF Widen
    <3>2. Emitted /\ owed' \in DebtSets /\ base' \in [Sub -> Nat]
      BY <3>1, RepointPass DEF OwedEmitted, DebtSets
    <3> QED BY <1>3, <1>4, <1>5, <3>1, <3>2
  <2>3. ASSUME NEW s \in Sub, CallerClaims(s) \/ CallerDrops(s) PROVE TypedBooks'
    BY <1>1, <1>2, <2>3 DEF CallerClaims, CallerDrops, ledger, planes, sent
  <2>4. ASSUME NEW s \in Sub, Unwatch(s) PROVE TypedBooks'
    BY <1>9, <2>4 DEF Unwatch
  <2>5. ASSUME NEW due, NEW ks \in Changes, NEW a, NEW p, NEW c, Observe(ks, a, p, c, due)
        PROVE  TypedBooks'
    <3>1. PICK P, d : Observed(P, d)
      BY <2>5, ObservePass
    <3>2. UNCHANGED <<base, sent>>
      BY <2>5 DEF Observe
    <3>3. Emitted /\ owed' \in DebtSets
      BY <3>1, ObserveEmits DEF Observed, DebtSets
    <3>4. P \in SUBSET Sub /\ (\A s \in P : d[s] \in Parked) /\ park(P, d)
      BY <1>0, <3>1, Typing DEF Observed
    <3>5. Plane(needs') /\ Plane(suppressed')
      BY <1>0, <3>4, Parks DEF TypedBooks, Merged
    <3> QED BY <1>3, <1>5, <1>6, <3>2, <3>3, <3>5
  <2>6. ASSUME NEW due, NEW k \in Key, SourceRescan(k, due) PROVE TypedBooks'
    <3>1. UNCHANGED <<base, planes, sent>>
      BY <2>6 DEF SourceRescan
    <3>2. Emitted /\ owed' \in DebtSets
      BY <2>6, SourcePass DEF OwedEmitted, DebtSets
    <3> QED BY <1>3, <1>4, <1>5, <1>6, <3>1, <3>2
  <2>7. CASE Restore
    <3>1. repoint /\ UNCHANGED <<planes, sent>>
      BY <2>7 DEF Restore
    <3>2. Emitted /\ owed' \in DebtSets /\ base' \in [Sub -> Nat]
      BY <3>1, RepointPass DEF OwedEmitted, DebtSets
    <3> QED BY <1>3, <1>4, <1>5, <3>1, <3>2
  <2>8. CASE Rollback \/ Retire
    <3>1. /\ rescan_live_root /\ UNCHANGED <<out, sent>>
          /\ base' = base \/ base' = [s \in Sub |-> IF s \in live THEN 0 ELSE base[s]]
          /\ hw' = [s \in Sub |-> IF s \in live THEN shed_rescan(s) ELSE hw[s]]
             \/ hw' = [s \in Sub |-> IF s \in live THEN 0 ELSE hw[s]]
      BY <2>8 DEF Rollback, Retire
    <3>2. /\ Plane(needs') /\ Plane(suppressed') /\ held' \in [Sub -> Seq(Delta)]
          /\ owed' \in DebtSets /\ \A s \in Sub : held'[s] = <<>>
      BY <3>1, RootParks DEF Merged, DebtSets
    <3>3. \A s \in Sub : shed_rescan(s) \in Nat /\ hw[s] \in Nat /\ base[s] \in Nat
      BY OwnRescan, Typing
    <3>4. base' \in [Sub -> Nat]
      BY <1>6, <3>1, <3>3
    <3>6. hw' \in [Sub -> Nat]
      <4>1. CASE hw' = [s \in Sub |-> IF s \in live THEN shed_rescan(s) ELSE hw[s]]
        BY <3>3, <4>1
      <4>2. CASE hw' = [s \in Sub |-> IF s \in live THEN 0 ELSE hw[s]]
        BY <3>3, <4>2
      <4> QED BY <3>1, <4>1, <4>2
    <3>5. out' \in [Sub -> Seq(Emission)]
      BY <1>0, <3>1 DEF TypedBooks
    <3> QED BY <1>3, <1>8, <3>6, <3>1, <3>2, <3>4, <3>5
  <2>9. CASE SourceEnds
    BY <1>1, <1>2, <2>9 DEF SourceEnds, ledger, planes, sent
  <2>10. CASE Close
    <3>1. /\ UNCHANGED <<base, hw, out, sent>> /\ held' = Nothing
          /\ needs' = [s \in {} |-> s] /\ suppressed' = [s \in {} |-> s]
          /\ owed' = [s \in Sub |-> {}]
      BY <2>10 DEF Close, ledger
    <3>2. Plane(needs') /\ Plane(suppressed')
      BY <3>1 DEF Plane
    <3>3. owed' \in DebtSets
      BY <3>1 DEF DebtSets
    <3>4. held' \in [Sub -> Seq(Delta)] /\ \A s \in Sub : held'[s] = <<>>
      <4>1. <<>> \in Seq(Delta)
        OBVIOUS
      <4> QED BY <3>1, <4>1 DEF Nothing
    <3>5. base' \in [Sub -> Nat] /\ hw' \in [Sub -> Nat] /\ out' \in [Sub -> Seq(Emission)]
      BY <1>0, <3>1 DEF TypedBooks
    <3> QED BY <1>3, <1>8, <3>1, <3>2, <3>3, <3>4, <3>5
  <2> QED BY <1>11, <2>1, <2>2, <2>3, <2>4, <2>5, <2>6, <2>7, <2>8, <2>9, <2>10 DEF Environment
<1>12. CASE Owner
  <2>1. ASSUME NEW s \in Sub, ApplyClaim(s) PROVE TypedBooks'
    <3>1. promote(s) /\ UNCHANGED <<base, hw, held, out, sent, owed>>
      BY <2>1 DEF ApplyClaim, ledger
    <3>2. Plane(needs) /\ Plane(suppressed)
      BY <1>0 DEF TypedBooks
    <3>3. Plane(suppressed')
      BY <3>1, <3>2, DropPlane DEF promote
    <3>4. Plane(needs')
      <4>1. CASE s \in DOMAIN suppressed
        <5> DEFINE T == {s}
        <5>1. T \in SUBSET Sub /\ (\A x \in T : suppressed[x] \in Parked) /\ Plane(needs)
          BY <3>2, <4>1 DEF Plane
        <5>2. needs' = merge_max(needs, T, suppressed)
          BY <3>1, <4>1 DEF promote
        <5> HIDE DEF T
        <5>3. Merged(needs', needs, T, suppressed)
          BY <5>1, <5>2, MergeMax
        <5> QED BY <5>3 DEF Merged
      <4>2. CASE s \notin DOMAIN suppressed
        BY <3>1, <3>2, <4>2 DEF promote
      <4> QED BY <4>1, <4>2
    <3>5. base' \in [Sub -> Nat] /\ hw' \in [Sub -> Nat] /\ out' \in [Sub -> Seq(Emission)] /\ owed' \in DebtSets
      BY <1>0, <3>1 DEF TypedBooks
    <3> QED BY <1>3, <1>7, <3>1, <3>3, <3>4, <3>5
  <2>2. ASSUME NEW s \in Sub, ApplyOrphan(s) PROVE TypedBooks'
    BY <1>9, <2>2 DEF ApplyOrphan
  <2>3. ASSUME NEW s \in Sub, EmitSend(s) PROVE TypedBooks'
    <3>1. /\ Emitting(s) /\ accepts /\ send(s, Head(out[s]))
          /\ UNCHANGED <<base, hw, needs, suppressed, held>>
      BY <2>3 DEF EmitSend, ledger, planes
    <3>2. Head(out[s]) \in Emission /\ out' \in [Sub -> Seq(Emission)]
      BY <3>1, Popped
    <3> DEFINE e == Head(out[s])
    <3>3. e.rescan \in BOOLEAN /\ e.keys \subseteq Seq(Component) /\ e.keys # {} /\ e.epoch \in Nat
      BY <3>2, KeyAssumption DEF Emission
    <3>4. Plane(needs')
      BY <1>0, <3>1 DEF TypedBooks
    <3>5. accepts /\ send(s, e) /\ UNCHANGED <<base, hw, suppressed, held>>
      BY <3>1
    <3> HIDE DEF e
    <3> QED BY <1>10, <3>2, <3>3, <3>4, <3>5
  <2>4. ASSUME NEW s \in Sub, EmitMerge(s) PROVE TypedBooks'
    <3>1. Emitting(s) /\ UNCHANGED <<base, hw, held, sent, owed>>
      BY <2>4 DEF EmitMerge, ledger
    <3>2. out' \in [Sub -> Seq(Emission)]
      BY <3>1, Popped
    <3>3. Plane(needs') /\ Plane(suppressed')
      BY <2>4, MergeParks DEF Merged
    <3>4. base' \in [Sub -> Nat] /\ hw' \in [Sub -> Nat] /\ owed' \in DebtSets
      BY <1>0, <3>1 DEF TypedBooks
    <3> QED BY <1>3, <1>7, <3>1, <3>2, <3>3, <3>4
  <2>5. ASSUME NEW s \in Sub, EmitSuppress(s) PROVE TypedBooks'
    <3>1. Emitting(s) /\ UNCHANGED <<base, held, sent>>
      BY <2>5 DEF EmitSuppress
    <3>2. out' \in [Sub -> Seq(Emission)]
      BY <3>1, Popped
    <3>3. Plane(needs') /\ Plane(suppressed') /\ hw' \in [Sub -> Nat] /\ owed' \in DebtSets
      BY <2>5, SuppressGrows DEF DebtSets
    <3> QED BY <1>3, <1>6, <1>7, <3>1, <3>2, <3>3
  <2>6. ASSUME NEW s \in Sub, EmitShed(s) PROVE TypedBooks'
    <3>1. Emitting(s) /\ UNCHANGED <<base, sent>>
      BY <2>6 DEF EmitShed
    <3>2. out' \in [Sub -> Seq(Emission)]
      BY <3>1, Popped
    <3>3. /\ Plane(needs') /\ Plane(suppressed') /\ hw' \in [Sub -> Nat] /\ owed' \in DebtSets
          /\ held' \in [Sub -> Seq(Delta)] /\ held'[s] = <<>> /\ \A x \in Sub \ {s} : held'[x] = held[x]
      BY <2>6, ShedParks DEF DebtSets, Merged
    <3>4. \A x \in Sub : Len(held'[x]) <= MaxHeld
      BY <1>0, <1>8, <3>3 DEF TypedBooks
    <3> QED BY <1>3, <1>6, <3>1, <3>2, <3>3, <3>4
  <2>7. ASSUME NEW due, DrainDue(due) PROVE TypedBooks'
    <3>1. UNCHANGED <<base, planes, sent, owed>>
      BY <2>7 DEF DrainDue, ledger
    <3>2. Emitted
      BY <2>7, DrainPass
    <3> QED BY <1>0, <1>3, <1>4, <1>5, <1>6, <3>1, <3>2
  <2>8. CASE EmitDone \/ FlushEnd \/ DrainTest \/ DrainLast \/ Cut \/ Flush
    BY <1>1, <1>2, <2>8 DEF EmitDone, FlushEnd, DrainTest, DrainLast, Cut, Flush, ledger, planes, sent
  <2>9. CASE FlushSend
    <3>1. /\ DOMAIN needs # {} /\ accepts /\ send(first_from, Offered(first_from))
          /\ needs' = Drop(needs, {first_from}) /\ UNCHANGED <<base, hw, suppressed, held, out>>
      BY <2>9 DEF FlushSend, ledger
    <3> DEFINE s == first_from
               e == Offered(s)
    <3>2. Plane(needs) /\ out \in [Sub -> Seq(Emission)]
      BY <1>0 DEF TypedBooks
    <3>3. s \in DOMAIN needs
      BY <3>1, <3>2, FirstFrom DEF Plane
    <3>4. s \in Sub
      BY <3>2, <3>3 DEF Plane
    <3>5. Plane(needs')
      BY <3>1, <3>2, DropPlane
    <3>6. accepts /\ send(s, e) /\ UNCHANGED <<base, hw, suppressed, held>> /\ out' \in [Sub -> Seq(Emission)]
      BY <3>1, <3>2
    <3> HIDE DEF s
    <3>7. e.rescan \in BOOLEAN /\ e.keys \subseteq Seq(Component) /\ e.keys # {} /\ e.epoch \in Nat
      BY <3>2, <3>3, OfferedTyped
    <3> HIDE DEF e
    <3> QED BY <1>10, <3>4, <3>5, <3>6, <3>7
  <2>10. CASE DrainOwed
    <3>1. /\ held' = Nothing /\ UNCHANGED <<base, hw, planes, sent>>
          /\ out' = [s \in Sub |-> IF in_debt(s) THEN <<>> ELSE Emissions(held[s])]
          /\ owed' = [s \in Sub |-> IF in_debt(s) THEN owed[s] \cup Dropped(s) ELSE owed[s]]
      BY <2>10 DEF DrainOwed, ledger
    <3>2. held' \in [Sub -> Seq(Delta)] /\ \A s \in Sub : held'[s] = <<>>
      <4>1. <<>> \in Seq(Delta)
        OBVIOUS
      <4> QED BY <3>1, <4>1 DEF Nothing
    <3>3. out' \in [Sub -> Seq(Emission)]
      <4>1. \A s \in Sub : Emissions(held[s]) \in Seq(Emission) /\ <<>> \in Seq(Emission)
        BY HeldMinted, EmissionsTyped
      <4> QED BY <3>1, <4>1
    <3>4. owed' \in DebtSets
      <4>1. \A s \in Sub : Dropped(s) \in SUBSET [keys : SUBSET Key, need : Nat]
        <5> SUFFICES ASSUME NEW s \in Sub, NEW o \in Dropped(s) PROVE o \in [keys : SUBSET Key, need : Nat]
          OBVIOUS
        <5>1. PICK j \in DOMAIN held[s] : o = DebtOf(held[s][j])
          BY DEF Dropped, Range
        <5>2. held[s][j] \in Delta
          BY HeldMinted
        <5> QED BY <5>1, <5>2 DEF DebtOf, Delta
      <4> QED BY <1>0, <3>1, <4>1 DEF DebtSets
    <3>5. base' \in [Sub -> Nat] /\ hw' \in [Sub -> Nat]
      BY <1>0, <3>1 DEF TypedBooks
    <3> QED BY <1>3, <1>4, <1>8, <3>1, <3>2, <3>3, <3>4, <3>5
  <2> QED BY <1>12, <2>1, <2>2, <2>3, <2>4, <2>5, <2>6, <2>7, <2>8, <2>9, <2>10 DEF Owner
<1>13. CASE Recv
  <2>1. chan # <<>> /\ chan' = Tail(chan) /\ UNCHANGED <<base, hw, needs, suppressed, held, out, owed, peak, last>>
    BY <1>13 DEF Recv, ledger, planes
  <2>2. chan' \in Messages /\ Len(chan') <= Capacity
    <3>1. chan \in Seq(M) /\ chan # <<>> /\ Len(chan) <= Capacity
      BY <1>0, <2>1 DEF Messages, TypedBooks
    <3> HIDE DEF M
    <3>2. Tail(chan) \in Seq(M) /\ Len(Tail(chan)) = Len(chan) - 1 /\ Len(chan) \in Nat
      BY <3>1
    <3>3. Len(chan') <= Capacity
      BY <2>1, <3>1, <3>2, BoundAssumption
    <3> QED BY <2>1, <3>2, <3>3 DEF M, Messages
  <2> QED BY <1>1, <2>1, <2>2
<1>14. CASE UNCHANGED vars
  BY <1>1, <1>2, <1>14 DEF vars, ledger, planes, sent
<1> QED BY <1>11, <1>12, <1>13, <1>14 DEF Next

-----------------------------------------------------------------------------
(* The Rescans on their way dominate what was sent.                        *)

\* The parts of RescansDominate: the parked planes, what is being emitted,
\* and what a flush pass may find there.
PlanesAbove ==
    \A s \in Sub :
        /\ s \in DOMAIN needs => needs[s].epoch > peak[s] /\ (s \in live => needs[s].epoch <= hw[s])
        /\ s \in DOMAIN suppressed =>
              suppressed[s].epoch > peak[s] /\ (s \in live => suppressed[s].epoch <= hw[s])
        /\ s \in live => peak[s] <= hw[s]
        /\ s \notin used => peak[s] = 0
        /\ last[s].epoch <= peak[s]

OutAbove ==
    \A s \in Sub :
        /\ \A i \in DOMAIN out[s] : out[s][i].rescan =>
              /\ i = Len(out[s])
              /\ out[s][i].epoch > peak[s]
              /\ \A j \in 1 .. i - 1 : out[s][j].epoch < out[s][i].epoch
        /\ s \notin settling => \A i \in DOMAIN out[s] : last[s].epoch <= out[s][i].epoch

FlushApart == pc = "flush" => \A s \in Sub : in_debt(s) => out[s] = <<>>

LEMMA DominateSplit == RescansDominate <=> PlanesAbove /\ OutAbove /\ FlushApart
<1>1. ASSUME RescansDominate PROVE PlanesAbove /\ OutAbove /\ FlushApart
  <2>1. PlanesAbove
    BY <1>1 DEF RescansDominate, PlanesAbove
  <2>2. OutAbove
    BY <1>1 DEF RescansDominate, OutAbove
  <2>3. FlushApart
    BY <1>1 DEF RescansDominate, FlushApart
  <2> QED BY <2>1, <2>2, <2>3
<1>2. ASSUME PlanesAbove, OutAbove, FlushApart PROVE RescansDominate
  <2>1. ASSUME NEW s \in Sub
        PROVE  /\ \A plane \in {needs, suppressed} : s \in DOMAIN plane =>
                     plane[s].epoch > peak[s] /\ (s \in live => plane[s].epoch <= hw[s])
               /\ s \in live => peak[s] <= hw[s]
               /\ s \notin used => peak[s] = 0
               /\ last[s].epoch <= peak[s]
    BY <1>2 DEF PlanesAbove
  <2>2. ASSUME NEW s \in Sub
        PROVE  /\ \A i \in DOMAIN out[s] : out[s][i].rescan =>
                     /\ i = Len(out[s])
                     /\ out[s][i].epoch > peak[s]
                     /\ \A j \in 1 .. i - 1 : out[s][j].epoch < out[s][i].epoch
               /\ s \notin settling => \A i \in DOMAIN out[s] : last[s].epoch <= out[s][i].epoch
    BY <1>2 DEF OutAbove
  <2>3. ASSUME NEW s \in Sub PROVE pc = "flush" /\ in_debt(s) => out[s] = <<>>
    BY <1>2 DEF FlushApart
  <2> QED BY <2>1, <2>2, <2>3 DEF RescansDominate
<1> QED BY <1>1, <1>2

\* A Rescan parked by a step: an old one, or a new one above all that was sent.
Sourced(x, s) ==
    \/ s \in DOMAIN needs /\ x.epoch = needs[s].epoch
    \/ s \in DOMAIN suppressed /\ x.epoch = suppressed[s].epoch
    \/ peak[s] < x.epoch /\ (s \in live' => x.epoch <= hw'[s])

LEMMA MergedSourced ==
    ASSUME NEW p \in {needs, suppressed}, NEW m, NEW T, NEW d, Merged(m, p, T, d),
           \A s \in T : peak[s] < d[s].epoch /\ (s \in live' => d[s].epoch <= hw'[s])
    PROVE  \A s \in DOMAIN m : Sourced(m[s], s)
<1> SUFFICES ASSUME NEW s \in DOMAIN m PROVE Sourced(m[s], s)
  OBVIOUS
<1>1. CASE s \in T
  <2>1. m[s].epoch = d[s].epoch \/ (s \in DOMAIN p /\ m[s].epoch = p[s].epoch)
    BY <1>1 DEF Merged
  <2> QED BY <1>1, <2>1 DEF Sourced
<1>2. CASE s \notin T
  <2>1. s \in DOMAIN p /\ m[s] = p[s]
    BY <1>2 DEF Merged
  <2> QED BY <2>1 DEF Sourced
<1> QED BY <1>1, <1>2

\* What keeps its epochs stays above.
LEMMA AboveKept ==
    ASSUME TypedBooks, TypedBooks', PlanesAbove, UNCHANGED <<peak, last>>, used \subseteq used',
           \A s \in Sub : s \in live' =>
              \/ s \in live /\ hw[s] <= hw'[s]
              \/ s \notin used /\ s \notin DOMAIN needs' \cup DOMAIN suppressed',
           \A s \in DOMAIN needs' : Sourced(needs'[s], s),
           \A s \in DOMAIN suppressed' : Sourced(suppressed'[s], s)
    PROVE  PlanesAbove'
<1> SUFFICES ASSUME NEW s \in Sub
    PROVE  /\ s \in DOMAIN needs' => needs'[s].epoch > peak'[s] /\ (s \in live' => needs'[s].epoch <= hw'[s])
           /\ s \in DOMAIN suppressed' =>
                 suppressed'[s].epoch > peak'[s] /\ (s \in live' => suppressed'[s].epoch <= hw'[s])
           /\ s \in live' => peak'[s] <= hw'[s]
           /\ s \notin used' => peak'[s] = 0
           /\ last'[s].epoch <= peak'[s]
  BY DEF PlanesAbove
<1>1. peak'[s] = peak[s] /\ last'[s] = last[s] /\ peak[s] \in Nat /\ hw[s] \in Nat /\ hw'[s] \in Nat
  BY DEF TypedBooks
<1>2. /\ s \in DOMAIN needs => needs[s].epoch \in Nat
      /\ s \in DOMAIN suppressed => suppressed[s].epoch \in Nat
      /\ s \in DOMAIN needs' => needs'[s].epoch \in Nat
      /\ s \in DOMAIN suppressed' => suppressed'[s].epoch \in Nat
  BY DEF TypedBooks, Plane, Parked
<1>3. /\ s \in DOMAIN needs => needs[s].epoch > peak[s] /\ (s \in live => needs[s].epoch <= hw[s])
      /\ s \in DOMAIN suppressed =>
            suppressed[s].epoch > peak[s] /\ (s \in live => suppressed[s].epoch <= hw[s])
      /\ s \in live => peak[s] <= hw[s]
      /\ s \notin used => peak[s] = 0
      /\ last[s].epoch <= peak[s]
  BY DEF PlanesAbove
<1>4. ASSUME NEW x, x.epoch \in Nat, Sourced(x, s), s \in DOMAIN needs' \cup DOMAIN suppressed'
      PROVE  x.epoch > peak[s] /\ (s \in live' => x.epoch <= hw'[s])
  <2>1. CASE peak[s] < x.epoch /\ (s \in live' => x.epoch <= hw'[s])
    BY <1>1, <1>4, <2>1
  <2>2. CASE s \in DOMAIN needs /\ x.epoch = needs[s].epoch
    BY <1>1, <1>2, <1>3, <1>4, <2>2
  <2>3. CASE s \in DOMAIN suppressed /\ x.epoch = suppressed[s].epoch
    BY <1>1, <1>2, <1>3, <1>4, <2>3
  <2> QED BY <1>4, <2>1, <2>2, <2>3 DEF Sourced
<1>5. s \in DOMAIN needs' => needs'[s].epoch > peak[s] /\ (s \in live' => needs'[s].epoch <= hw'[s])
  BY <1>2, <1>4
<1>6. s \in DOMAIN suppressed' =>
         suppressed'[s].epoch > peak[s] /\ (s \in live' => suppressed'[s].epoch <= hw'[s])
  BY <1>2, <1>4
<1>7. s \in live' => peak[s] <= hw'[s]
  BY <1>1, <1>3
<1> QED BY <1>1, <1>3, <1>5, <1>6, <1>7

\* A delivery that is sent raises the peak, and no Rescan of its
\* subscription stays behind.
LEMMA AboveSent ==
    ASSUME TypedBooks, PlanesAbove, NEW s \in Sub, s \in used, NEW n \in Nat,
           s \in live => n <= hw[s],
           s \notin DOMAIN needs' \cup DOMAIN suppressed',
           DOMAIN needs' \subseteq DOMAIN needs, \A x \in DOMAIN needs' : needs'[x] = needs[x],
           suppressed' = suppressed,
           peak' = [peak EXCEPT ![s] = larger(peak[s], n)],
           last' = last \/ (last'[s].epoch = n /\ \A x \in Sub \ {s} : last'[x] = last[x]),
           UNCHANGED <<live, used, hw>>
    PROVE  PlanesAbove'
<1> SUFFICES ASSUME NEW x \in Sub
    PROVE  /\ x \in DOMAIN needs' => needs'[x].epoch > peak'[x] /\ (x \in live' => needs'[x].epoch <= hw'[x])
           /\ x \in DOMAIN suppressed' =>
                 suppressed'[x].epoch > peak'[x] /\ (x \in live' => suppressed'[x].epoch <= hw'[x])
           /\ x \in live' => peak'[x] <= hw'[x]
           /\ x \notin used' => peak'[x] = 0
           /\ last'[x].epoch <= peak'[x]
  BY DEF PlanesAbove
<1>1. /\ x \in DOMAIN needs => needs[x].epoch > peak[x] /\ (x \in live => needs[x].epoch <= hw[x])
      /\ x \in DOMAIN suppressed =>
            suppressed[x].epoch > peak[x] /\ (x \in live => suppressed[x].epoch <= hw[x])
      /\ x \in live => peak[x] <= hw[x]
      /\ x \notin used => peak[x] = 0
      /\ last[x].epoch <= peak[x]
  BY DEF PlanesAbove
<1>2. CASE x # s
  <2>1. peak'[x] = peak[x] /\ last'[x] = last[x]
    BY <1>2 DEF TypedBooks
  <2> QED BY <1>1, <1>2, <2>1
<1>3. CASE x = s
  <2>1. peak[s] \in Nat /\ peak'[s] = larger(peak[s], n) /\ hw[s] \in Nat /\ last[s].epoch \in Nat
    BY DEF TypedBooks, Parked
  <2>2. peak'[s] \in Nat /\ peak[s] <= peak'[s] /\ n <= peak'[s] /\ peak'[s] \in {peak[s], n}
    BY SMTT(30), <2>1, Larger
  <2>3. s \in live' => peak'[s] <= hw'[s]
    BY <1>1, <1>3, <2>1, <2>2
  <2>4. last'[s].epoch <= peak'[s]
    BY <1>1, <1>3, <2>1, <2>2
  <2> QED BY <1>3, <2>3, <2>4
<1> QED BY <1>2, <1>3

\* A pass emits above.
LEMMA OutEmitted ==
    ASSUME TypedBooks, TypedBooks', PlanesAbove, Emitted, UNCHANGED <<peak, last>>, settling \subseteq settling'
    PROVE  OutAbove'
<1> SUFFICES ASSUME NEW s \in Sub, NEW i \in DOMAIN out'[s]
    PROVE  /\ out'[s][i].rescan => /\ i = Len(out'[s])
                                   /\ out'[s][i].epoch > peak[s]
                                   /\ \A j \in 1 .. i - 1 : out'[s][j].epoch < out'[s][i].epoch
           /\ s \notin settling' => last[s].epoch <= out'[s][i].epoch
  BY DEF OutAbove
<1>1. s \in live
  <2>1. out'[s] # <<>>
    OBVIOUS
  <2> QED BY <2>1 DEF Emitted
<1>2. peak[s] <= hw[s] /\ last[s].epoch <= peak[s]
  BY <1>1 DEF PlanesAbove
<1>3. out'[s][i].epoch \in Nat
  <2>1. out'[s] \in Seq(Emission)
    BY DEF Emitted
  <2>2. out'[s][i] \in Emission
    BY <2>1
  <2> QED BY <2>2 DEF Emission
<1>4. peak[s] \in Nat /\ hw[s] \in Nat /\ last[s].epoch \in Nat
  BY DEF TypedBooks, Parked
<1>5. /\ s \notin settling => hw[s] <= out'[s][i].epoch
      /\ out'[s][i].rescan =>
            /\ i = Len(out'[s]) /\ hw[s] < out'[s][i].epoch
            /\ \A j \in 1 .. i - 1 : out'[s][j].epoch < out'[s][i].epoch
  BY DEF Emitted
<1> QED BY <1>2, <1>3, <1>4, <1>5

\* What is left to emit stays above.
LEMMA OutPopped ==
    ASSUME TypeOK, RestTyped, EntriesMinted, OutAbove, NEW s \in Sub, Emitting(s), settling' = settling,
           \A x \in Sub \ {s} : peak'[x] = peak[x] /\ last'[x] = last[x],
           LET e == Head(out[s]) IN
              \/ peak'[s] = peak[s] /\ last'[s] = last[s]
              \/ peak'[s] = larger(peak[s], e.epoch) /\ (e.rescan \/ last'[s] = last[s])
    PROVE  OutAbove'
<1>1. /\ Head(out[s]) \in Emission /\ 1 \in DOMAIN out[s] /\ Head(out[s]) = out[s][1]
      /\ out' \in [Sub -> Seq(Emission)]
      /\ \A x \in Sub \ {s} : out'[x] = out[x]
      /\ Len(out'[s]) = Len(out[s]) - 1 /\ Len(out[s]) \in Nat
      /\ \A i \in DOMAIN out'[s] : i + 1 \in DOMAIN out[s] /\ out'[s][i] = out[s][i + 1]
  BY Popped
<1>2. out[s] \in Seq(Emission) /\ DOMAIN out[s] = 1 .. Len(out[s]) /\ DOMAIN out'[s] = 1 .. Len(out'[s])
  <2>1. out[s] \in Seq(Emission) /\ out'[s] \in Seq(Emission)
    BY <1>1, Typing
  <2> QED BY <2>1
<1> DEFINE q == out[s]
           t == out'[s]
<1>3. ASSUME NEW i \in DOMAIN t
      PROVE  /\ t[i].rescan => /\ i = Len(t)
                               /\ t[i].epoch > peak'[s]
                               /\ \A j \in 1 .. i - 1 : t[j].epoch < t[i].epoch
             /\ s \notin settling' => last'[s].epoch <= t[i].epoch
  <2>1. i + 1 \in DOMAIN q /\ t[i] = q[i + 1] /\ i \in Nat /\ i >= 1 /\ i <= Len(t) /\ Len(t) = Len(q) - 1
    BY <1>1, <1>2
  <2>2. \A j \in DOMAIN q : q[j] \in Emission /\ q[j].epoch \in Nat
    <3>1. \A j \in DOMAIN q : q[j] \in Emission
      BY <1>2
    <3> QED BY <3>1 DEF Emission
  <2>3. peak[s] \in Nat /\ q[1].epoch \in Nat
    BY <1>1, <2>2, Typing
  <2>4. ~q[1].rescan
    <3>1. q[1].rescan => Len(q) = 1
      BY <1>1 DEF OutAbove
    <3>2. Len(q) # 1
      BY <1>1, <1>2, <2>1
    <3> QED BY <3>1, <3>2
  <2>5. peak'[s] = peak[s] \/ peak'[s] = larger(peak[s], q[1].epoch)
    BY <1>1
  <2>6. last'[s] = last[s]
    BY <1>1, <2>4
  <2>7. s \notin settling => last[s].epoch <= q[i + 1].epoch
    BY <2>1 DEF OutAbove
  <2>8. ASSUME q[i + 1].rescan
        PROVE  /\ i + 1 = Len(q) /\ q[i + 1].epoch > peak[s]
               /\ \A j \in 1 .. i : q[j].epoch < q[i + 1].epoch
    <3>1. /\ i + 1 = Len(q) /\ q[i + 1].epoch > peak[s]
          /\ \A j \in 1 .. (i + 1) - 1 : q[j].epoch < q[i + 1].epoch
      BY <2>1, <2>8 DEF OutAbove
    <3>2. (i + 1) - 1 = i
      BY <2>1
    <3> QED BY <3>1, <3>2
  <2>9. ASSUME q[i + 1].rescan
        PROVE  /\ i = Len(t) /\ t[i].epoch > peak'[s]
               /\ \A j \in 1 .. i - 1 : t[j].epoch < t[i].epoch
    <3>1. i = Len(t)
      BY <1>1, <1>2, <2>1, <2>8, <2>9
    <3>2. t[i].epoch > peak'[s]
      <4>1. q[1].epoch < q[i + 1].epoch
        BY <2>1, <2>8, <2>9
      <4>2. q[i + 1].epoch > peak[s] /\ q[i + 1].epoch \in Nat
        BY <2>1, <2>2, <2>8, <2>9
      <4>3. larger(peak[s], q[1].epoch) \in {peak[s], q[1].epoch}
        BY <2>3, Larger
      <4> HIDE DEF q, t
      <4> QED BY <2>1, <2>3, <2>5, <4>1, <4>2, <4>3
    <3>3. ASSUME NEW j \in 1 .. i - 1 PROVE t[j].epoch < t[i].epoch
      <4>1. j \in DOMAIN t /\ j + 1 \in 1 .. i
        BY <1>2, <2>1
      <4>2. t[j] = q[j + 1]
        BY <1>1, <4>1
      <4>3. q[j + 1].epoch < q[i + 1].epoch
        BY <2>8, <2>9, <4>1
      <4> HIDE DEF q, t
      <4> QED BY <2>1, <4>2, <4>3
    <3> QED BY <3>1, <3>2, <3>3
  <2> HIDE DEF q, t
  <2> QED BY <2>1, <2>6, <2>7, <2>9
<1>4. ASSUME NEW x \in Sub \ {s}, NEW i \in DOMAIN out'[x]
      PROVE  /\ out'[x][i].rescan =>
                  /\ i = Len(out'[x])
                  /\ out'[x][i].epoch > peak'[x]
                  /\ \A j \in 1 .. i - 1 : out'[x][j].epoch < out'[x][i].epoch
             /\ x \notin settling' => last'[x].epoch <= out'[x][i].epoch
  <2>1. out'[x] = out[x] /\ peak'[x] = peak[x] /\ last'[x] = last[x]
    BY <1>1
  <2> QED BY <2>1 DEF OutAbove
<1> QED BY <1>3, <1>4 DEF OutAbove

LEMMA DominateStep ==
    ASSUME TypeOK, RestTyped, ClaimsSound, ControlSound, EntriesMinted, RescansDominate, [Next]_vars
    PROVE  RescansDominate'
<1> DEFINE Parted == /\ \A s \in DOMAIN needs' : Sourced(needs'[s], s)
                     /\ \A s \in DOMAIN suppressed' : Sourced(suppressed'[s], s)
           Alive == \A s \in Sub : s \in live' =>
                       \/ s \in live /\ hw[s] <= hw'[s]
                       \/ s \notin used /\ s \notin DOMAIN needs' \cup DOMAIN suppressed'
<1>1. TypedBooks /\ TypedRest /\ TypedBooks' /\ PlanesAbove /\ OutAbove /\ FlushApart
  BY TypesSplit, BooksStep, DominateSplit
<1>2. \A s \in Sub : hw[s] \in Nat /\ peak[s] \in Nat
  BY <1>1 DEF TypedBooks
<1>3. ASSUME UNCHANGED <<out, peak, last>>, settling \subseteq settling'
      PROVE  OutAbove'
  BY <1>1, <1>3 DEF OutAbove
<1>4. ASSUME pc' # "flush" \/ (pc' = pc /\ out' = out /\ DOMAIN needs' \cup DOMAIN suppressed'
                                                        \subseteq DOMAIN needs \cup DOMAIN suppressed)
      PROVE  FlushApart'
  BY <1>1, <1>4 DEF FlushApart, in_debt
<1>5. ASSUME UNCHANGED <<needs, suppressed>> PROVE Parted
  BY <1>5 DEF Sourced
<1>6. ASSUME UNCHANGED hw, live' \subseteq live PROVE Alive
  BY <1>2, <1>6
<1>7. ASSUME UNCHANGED <<peak, last>>, used \subseteq used', Alive, Parted, OutAbove', FlushApart'
      PROVE  RescansDominate'
  <2>1. PlanesAbove'
    BY <1>1, <1>7, AboveKept
  <2>2. PlanesAbove' /\ OutAbove' /\ FlushApart'
    BY <1>7, <2>1
  <2>3. (PlanesAbove /\ OutAbove /\ FlushApart)' <=> RescansDominate'
    BY DominateSplit, PTL
  <2> QED BY <2>2, <2>3
<1>8. ASSUME UNCHANGED <<needs, suppressed, hw, out, peak, last>>, live' \subseteq live, used \subseteq used',
             settling \subseteq settling', FlushApart'
      PROVE  RescansDominate'
  <2>1. OutAbove'
    BY <1>3, <1>8
  <2>2. Parted
    BY <1>5, <1>8
  <2>3. Alive
    BY <1>6, <1>8
  <2> HIDE DEF Parted, Alive
  <2> QED BY <1>7, <1>8, <2>1, <2>2, <2>3
<1>9. ASSUME Emitted, UNCHANGED <<peak, last>>, settling \subseteq settling' PROVE OutAbove'
  BY <1>1, <1>9, OutEmitted
<1>10. ASSUME \A s \in Sub : hw[s] <= hw'[s], live' \subseteq live PROVE Alive
  BY <1>10
<1>11. ASSUME NEW s \in Sub, NEW taken \in BOOLEAN, reply(s, taken), s \notin used
       PROVE  /\ used \subseteq used' /\ settling \subseteq settling' /\ live' \subseteq live \cup {s}
              /\ s \notin DOMAIN needs \cup DOMAIN suppressed
  <2>1. used \subseteq used' /\ settling \subseteq settling' /\ live' \subseteq live \cup {s}
    BY <1>11 DEF reply
  <2>2. s \notin DOMAIN needs \cup DOMAIN suppressed
    BY <1>1, <1>11 DEF ClaimsSound, OfferedIsOwned, TypedRest
  <2> QED BY <2>1, <2>2
<1>12. pc \in {"idle", "settle", "cut"} => out = Nothing
  BY DEF ControlSound
<1>13. ASSUME NEW s \in Sub, release_subscription(s), UNCHANGED <<out, sent, pc, minted>> PROVE RescansDominate'
  <2>1. UNCHANGED <<out, peak, last, pc, used, settling>>
    BY <1>13 DEF sent, minted
  <2>2. /\ needs' = Drop(needs, {s}) /\ suppressed' = Drop(suppressed, {s})
        /\ live' = live \ {s} /\ hw' = [hw EXCEPT ![s] = 0]
    BY <1>13 DEF release_subscription
  <2>3. /\ DOMAIN needs' = DOMAIN needs \ {s} /\ \A x \in DOMAIN needs \ {s} : needs'[x] = needs[x]
        /\ DOMAIN suppressed' = DOMAIN suppressed \ {s}
        /\ \A x \in DOMAIN suppressed \ {s} : suppressed'[x] = suppressed[x]
    BY <1>1, <2>2, DropPlane DEF TypedBooks
  <2>4. Parted
    BY <2>3 DEF Sourced
  <2>5. Alive
    BY SMTT(30), <1>1, <1>2, <2>2 DEF TypedBooks
  <2>6. OutAbove' /\ FlushApart'
    BY <1>3, <1>4, <2>1, <2>3
  <2> HIDE DEF Parted, Alive
  <2> QED BY <1>7, <2>1, <2>4, <2>5, <2>6
<1>14. ASSUME repoint, UNCHANGED <<planes, sent>>, used \subseteq used', settling \subseteq settling',
              \A s \in live' \ live : s \notin used /\ s \notin DOMAIN needs \cup DOMAIN suppressed
       PROVE  RescansDominate'
  <2>1. UNCHANGED <<needs, suppressed, peak, last>> /\ pc' = "emit"
    BY <1>14 DEF planes, sent, repoint
  <2>2. Emitted
    BY <1>14, RepointPass
  <2>3. OutAbove' /\ FlushApart'
    BY <1>4, <1>9, <1>14, <2>1, <2>2
  <2>4. Parted
    BY <1>5, <2>1
  <2>5. Alive
    BY <1>14, <2>1, <2>2 DEF Emitted
  <2> HIDE DEF Parted, Alive
  <2> QED BY <1>7, <1>14, <2>1, <2>3, <2>4, <2>5
<1>15. CASE Environment
  <2>1. ASSUME NEW s \in Sub, NEW taken \in BOOLEAN, Watch(s, taken) PROVE RescansDominate'
    <3>1. /\ s \notin used /\ reply(s, taken)
          /\ UNCHANGED <<needs, suppressed, hw, out, peak, last, pc>>
      BY <2>1 DEF Watch, planes, sent, control
    <3>2. OutAbove' /\ FlushApart'
      BY <1>3, <1>4, <1>11, <3>1
    <3>3. Parted
      BY <1>5, <3>1
    <3>4. Alive
      BY <1>2, <1>11, <3>1
    <3> HIDE DEF Parted, Alive
    <3> QED BY <1>7, <1>11, <3>1, <3>2, <3>3, <3>4
  <2>2. ASSUME NEW s \in Sub, NEW taken \in BOOLEAN, Widen(s, taken) PROVE RescansDominate'
    <3>1. s \notin used /\ repoint /\ reply(s, taken) /\ UNCHANGED <<planes, sent>>
      BY <2>2 DEF Widen
    <3> QED BY <1>11, <1>14, <3>1
  <2>3. ASSUME NEW s \in Sub, CallerClaims(s) \/ CallerDrops(s) PROVE RescansDominate'
    <3>1. UNCHANGED <<needs, suppressed, hw, out, peak, last, live, used, settling, pc>>
      BY <2>3 DEF CallerClaims, CallerDrops, ledger, planes, sent, minted, control
    <3> QED BY <1>4, <1>8, <3>1
  <2>4. ASSUME NEW s \in Sub, Unwatch(s) PROVE RescansDominate'
    <3>1. release_subscription(s) /\ UNCHANGED <<out, sent, pc, minted>>
      BY <2>4 DEF Unwatch, control
    <3> QED BY <1>13, <3>1
  <2>5. ASSUME NEW due, NEW ks \in Changes, NEW a, NEW p, NEW c, Observe(ks, a, p, c, due)
        PROVE  RescansDominate'
    <3>1. PICK P, d : Observed(P, d)
      BY <2>5, ObservePass
    <3>2. UNCHANGED <<live, peak, last, used, settling>> /\ pc' = "emit"
      BY <2>5 DEF Observe, sent, minted
    <3>3. Emitted
      BY <3>1, ObserveEmits
    <3>4. /\ P \in SUBSET Sub /\ P \subseteq live /\ park(P, d)
          /\ \A s \in P : d[s] \in Parked /\ d[s].epoch = hw'[s] /\ hw[s] < hw'[s] /\ hw'[s] \in Nat
      BY <1>1, <3>1, Typing DEF Observed
    <3>5. Merged(needs', needs, P \ unclaimed, d) /\ Merged(suppressed', suppressed, P \cap unclaimed, d)
      BY <1>1, <3>4, Parks DEF TypedBooks
    <3>6. \A s \in P : peak[s] < d[s].epoch /\ (s \in live' => d[s].epoch <= hw'[s])
      <4> SUFFICES ASSUME NEW s \in P PROVE peak[s] < d[s].epoch /\ d[s].epoch <= hw'[s]
        OBVIOUS
      <4>1. peak[s] <= hw[s] /\ peak[s] \in Nat /\ hw[s] \in Nat
        BY <1>1, <1>2, <3>4 DEF PlanesAbove
      <4> QED BY <3>4, <4>1
    <3>7. Parted
      <4>1. \A s \in DOMAIN needs' : Sourced(needs'[s], s)
        <5>1. \A s \in P \ unclaimed : peak[s] < d[s].epoch /\ (s \in live' => d[s].epoch <= hw'[s])
          BY <3>6
        <5> QED BY <3>5, <5>1, MergedSourced
      <4>2. \A s \in DOMAIN suppressed' : Sourced(suppressed'[s], s)
        <5>1. \A s \in P \cap unclaimed : peak[s] < d[s].epoch /\ (s \in live' => d[s].epoch <= hw'[s])
          BY <3>6
        <5> QED BY <3>5, <5>1, MergedSourced
      <4> QED BY <4>1, <4>2
    <3>8. Alive
      BY <1>10, <3>2, <3>3 DEF Emitted
    <3>9. OutAbove' /\ FlushApart'
      BY <1>4, <1>9, <3>2, <3>3
    <3> HIDE DEF Parted, Alive
    <3> QED BY <1>7, <3>2, <3>7, <3>8, <3>9
  <2>6. ASSUME NEW due, NEW k \in Key, SourceRescan(k, due) PROVE RescansDominate'
    <3>1. UNCHANGED <<live, needs, suppressed, peak, last, used, settling>> /\ pc' = "emit"
      BY <2>6 DEF SourceRescan, planes, sent, minted
    <3>2. Emitted
      BY <2>6, SourcePass
    <3>3. Alive
      BY <1>10, <3>1, <3>2 DEF Emitted
    <3>4. Parted
      BY <1>5, <3>1
    <3>5. OutAbove' /\ FlushApart'
      BY <1>4, <1>9, <3>1, <3>2
    <3> HIDE DEF Parted, Alive
    <3> QED BY <1>7, <3>1, <3>3, <3>4, <3>5
  <2>7. CASE Restore
    <3>1. repoint /\ UNCHANGED <<planes, sent>> /\ UNCHANGED <<live, used, settling>>
      BY <2>7 DEF Restore, minted
    <3> QED BY <1>14, <3>1
  <2>8. CASE Rollback \/ Retire
    <3>1. /\ rescan_live_root /\ UNCHANGED <<out, peak, last, used, settling, pc>> /\ pc = "idle"
          /\ \/ live' = live /\ hw' = [s \in Sub |-> IF s \in live THEN shed_rescan(s) ELSE hw[s]]
             \/ live' = {}
      BY <2>8 DEF Rollback, Retire, running, sent, minted, control
    <3>2. /\ \A s \in live : RootRescans[s].epoch = shed_rescan(s)
          /\ Merged(needs', needs, live \ unclaimed, RootRescans)
          /\ Merged(suppressed', suppressed, live \cap unclaimed, RootRescans)
      <4>1. rescan_live_root
        BY <3>1
      <4>2. /\ Merged(needs', needs, live \ unclaimed, RootRescans)
            /\ Merged(suppressed', suppressed, live \cap unclaimed, RootRescans)
        BY <4>1, RootParks
      <4>3. \A s \in live : RootRescans[s].epoch = shed_rescan(s)
        BY DEF RootRescans
      <4> QED BY <4>2, <4>3
    <3>3. \A s \in live : s \in Sub /\ shed_rescan(s) \in Nat /\ hw[s] < shed_rescan(s) /\ peak[s] <= hw[s]
      BY <1>1, OwnRescan, Typing DEF PlanesAbove
    <3>4. \A s \in live : peak[s] < shed_rescan(s)
      BY <1>2, <3>3
    <3>5. \A s \in live : s \in live' => hw'[s] = shed_rescan(s)
      BY <3>1, <3>3
    <3>6. \A s \in live : /\ peak[s] < RootRescans[s].epoch
                          /\ s \in live' => RootRescans[s].epoch <= hw'[s]
      BY <3>2, <3>3, <3>4, <3>5
    <3>7. Parted
      <4>1. \A s \in DOMAIN needs' : Sourced(needs'[s], s)
        <5>1. \A s \in live \ unclaimed : /\ peak[s] < RootRescans[s].epoch
                                          /\ s \in live' => RootRescans[s].epoch <= hw'[s]
          BY <3>6
        <5> QED BY <3>2, <5>1, MergedSourced
      <4>2. \A s \in DOMAIN suppressed' : Sourced(suppressed'[s], s)
        <5>1. \A s \in live \cap unclaimed : /\ peak[s] < RootRescans[s].epoch
                                             /\ s \in live' => RootRescans[s].epoch <= hw'[s]
          BY <3>6
        <5> QED BY <3>2, <5>1, MergedSourced
      <4> QED BY <4>1, <4>2
    <3>8. Alive
      <4> SUFFICES ASSUME NEW s \in Sub, s \in live' PROVE s \in live /\ hw[s] <= hw'[s]
        OBVIOUS
      <4>1. s \in live
        BY <3>1
      <4> QED BY <1>2, <3>3, <3>5, <4>1
    <3>9. OutAbove' /\ FlushApart'
      BY <1>3, <1>4, <3>1
    <3> HIDE DEF Parted, Alive
    <3> QED BY <1>7, <3>1, <3>7, <3>8, <3>9
  <2>9. CASE SourceEnds
    <3>1. UNCHANGED <<needs, suppressed, hw, out, peak, last, live, used, settling, pc>>
      BY <2>9 DEF SourceEnds, ledger, planes, sent, minted
    <3> QED BY <1>4, <1>8, <3>1
  <2>10. CASE Close
    <3>1. /\ UNCHANGED <<out, peak, last, used, settling, pc>> /\ pc = "idle"
          /\ live' = {} /\ needs' = [s \in {} |-> s] /\ suppressed' = [s \in {} |-> s]
      BY <2>10 DEF Close, sent, minted
    <3>2. Parted /\ Alive
      BY <3>1
    <3>3. OutAbove' /\ FlushApart'
      BY <1>3, <1>4, <3>1
    <3> HIDE DEF Parted, Alive
    <3> QED BY <1>7, <3>1, <3>2, <3>3
  <2> QED BY <1>15, <2>1, <2>2, <2>3, <2>4, <2>5, <2>6, <2>7, <2>8, <2>9, <2>10 DEF Environment
<1>16. CASE Owner
  <2>1. ASSUME NEW s \in Sub, ApplyClaim(s) PROVE RescansDominate'
    <3>1. /\ promote(s) /\ UNCHANGED <<live, hw, out, peak, last, used, settling, pc>> /\ pc # "flush"
      BY <2>1 DEF ApplyClaim, AppliesCleanup, ledger, sent, minted, control
    <3>2. Plane(needs) /\ Plane(suppressed)
      BY <1>1 DEF TypedBooks
    <3>3. \A x \in DOMAIN suppressed' : Sourced(suppressed'[x], x)
      <4>1. suppressed' = Drop(suppressed, {s})
        BY <3>1 DEF promote
      <4>2. /\ DOMAIN Drop(suppressed, {s}) = DOMAIN suppressed \ {s}
            /\ \A x \in DOMAIN suppressed \ {s} : Drop(suppressed, {s})[x] = suppressed[x]
        BY <3>2, DropPlane
      <4> QED BY <4>1, <4>2 DEF Sourced
    <3>4. \A x \in DOMAIN needs' : Sourced(needs'[x], x)
      <4>1. CASE s \in DOMAIN suppressed
        <5> DEFINE T == {s}
        <5>1. T \in SUBSET Sub /\ (\A x \in T : suppressed[x] \in Parked) /\ Plane(needs)
          BY <3>2, <4>1 DEF Plane
        <5>2. needs' = merge_max(needs, T, suppressed)
          BY <3>1, <4>1 DEF promote
        <5>3. \A x \in T : peak[x] < suppressed[x].epoch /\ (x \in live' => suppressed[x].epoch <= hw'[x])
          <6>1. peak[s] < suppressed[s].epoch /\ (s \in live => suppressed[s].epoch <= hw[s])
            <7>1. suppressed[s].epoch \in Nat
              BY <5>1 DEF Parked
            <7> QED BY <1>1, <1>2, <4>1, <7>1 DEF PlanesAbove
          <6> QED BY <3>1, <6>1
        <5> HIDE DEF T
        <5>4. Merged(needs', needs, T, suppressed)
          BY <5>1, <5>2, MergeMax
        <5> QED BY <5>3, <5>4, MergedSourced
      <4>2. CASE s \notin DOMAIN suppressed
        BY <3>1, <4>2 DEF promote, Sourced
      <4> QED BY <4>1, <4>2
    <3>5. Alive
      BY <1>6, <3>1
    <3>6. OutAbove' /\ FlushApart'
      BY <1>3, <1>4, <3>1
    <3>7. Parted
      BY <3>3, <3>4
    <3> HIDE DEF Parted, Alive
    <3> QED BY <1>7, <3>1, <3>5, <3>6, <3>7
  <2>2. ASSUME NEW s \in Sub, ApplyOrphan(s) PROVE RescansDominate'
    <3>1. release_subscription(s) /\ UNCHANGED <<out, sent, pc, minted>>
      BY <2>2 DEF ApplyOrphan, control
    <3> QED BY <1>13, <3>1
  <2>3. ASSUME NEW s \in Sub, EmitSend(s) PROVE RescansDominate'
    <3> DEFINE e == Head(out[s])
    <3>1. /\ Emitting(s) /\ send(s, e) /\ ~in_debt(s)
          /\ UNCHANGED <<needs, suppressed, hw, live, used, settling, pc>> /\ pc = "emit"
      BY <2>3 DEF EmitSend, Emitting, ledger, planes, minted, control
    <3>2. e \in Emission /\ e.epoch \in Nat /\ e.epoch <= hw[s] /\ s \in live
      BY <3>1, Popped DEF Emission
    <3>3. e.rescan \in BOOLEAN /\ e.keys \subseteq Seq(Component) /\ e.keys # {}
      BY <3>2, KeyAssumption DEF Emission
    <3> HIDE DEF e
    <3>4. /\ AsParked(e).epoch = e.epoch
          /\ peak' = [peak EXCEPT ![s] = larger(peak[s], e.epoch)]
          /\ last' = IF e.rescan THEN [last EXCEPT ![s] = AsParked(e)] ELSE last
      BY <3>1, <3>2, <3>3, SendTyped
    <3>5. /\ last' = last \/ (last'[s].epoch = e.epoch /\ \A x \in Sub \ {s} : last'[x] = last[x])
          /\ \A x \in Sub \ {s} : peak'[x] = peak[x] /\ last'[x] = last[x]
          /\ peak'[s] = larger(peak[s], e.epoch) /\ (e.rescan \/ last'[s] = last[s])
      BY <1>1, <3>4 DEF TypedBooks
    <3>6. s \in used
      BY <1>1, <3>2 DEF TypedRest
    <3>7. s \notin DOMAIN needs' \cup DOMAIN suppressed'
      BY <3>1 DEF in_debt
    <3>8. PlanesAbove'
      <4>1. /\ DOMAIN needs' \subseteq DOMAIN needs /\ \A x \in DOMAIN needs' : needs'[x] = needs[x]
            /\ suppressed' = suppressed /\ UNCHANGED <<live, used, hw>>
        BY <3>1
      <4> QED BY <1>1, <3>2, <3>4, <3>5, <3>6, <3>7, <4>1, AboveSent
    <3>9. OutAbove'
      BY <1>1, <3>1, <3>5, OutPopped DEF e
    <3>10. FlushApart'
      BY <1>4, <3>1
    <3>11. (PlanesAbove /\ OutAbove /\ FlushApart)' <=> RescansDominate'
      BY DominateSplit, PTL
    <3> QED BY <3>8, <3>9, <3>10, <3>11
  <2>4. ASSUME NEW s \in Sub, EmitMerge(s) PROVE RescansDominate'
    <3> DEFINE e == Head(out[s])
    <3>1. /\ Emitting(s) /\ e.rescan
          /\ UNCHANGED <<hw, live, used, settling, peak, last, pc>> /\ pc = "emit"
      BY <2>4 DEF EmitMerge, Emitting, ledger, sent, minted, control
    <3>2. e \in Emission /\ e.epoch \in Nat /\ e.epoch <= hw[s] /\ 1 \in DOMAIN out[s] /\ e = out[s][1]
      BY <3>1, Popped DEF Emission
    <3>3. peak[s] < e.epoch
      BY <1>1, <1>2, <3>1, <3>2 DEF OutAbove
    <3>4. PICK d : /\ d[s] \in Parked /\ d[s] = AsParked(e)
                   /\ Merged(needs', needs, {s} \ unclaimed, d)
                   /\ Merged(suppressed', suppressed, {s} \cap unclaimed, d)
      BY <2>4, MergeParks
    <3> HIDE DEF e
    <3>5. d[s].epoch = e.epoch
      BY <3>2, <3>4, ParkedEmission
    <3>6. \A x \in {s} : peak[x] < d[x].epoch /\ (x \in live' => d[x].epoch <= hw'[x])
      BY <3>1, <3>2, <3>3, <3>5
    <3>7. Parted
      <4>1. \A x \in DOMAIN needs' : Sourced(needs'[x], x)
        <5>1. \A x \in {s} \ unclaimed : peak[x] < d[x].epoch /\ (x \in live' => d[x].epoch <= hw'[x])
          BY <3>6
        <5> QED BY <3>4, <5>1, MergedSourced
      <4>2. \A x \in DOMAIN suppressed' : Sourced(suppressed'[x], x)
        <5>1. \A x \in {s} \cap unclaimed : peak[x] < d[x].epoch /\ (x \in live' => d[x].epoch <= hw'[x])
          BY <3>6
        <5> QED BY <3>4, <5>1, MergedSourced
      <4> QED BY <4>1, <4>2
    <3>8. OutAbove'
      BY <1>1, <3>1, OutPopped
    <3>9. FlushApart'
      BY <1>4, <3>1
    <3>10. Alive
      BY <1>6, <3>1
    <3> HIDE DEF Parted, Alive
    <3> QED BY <1>7, <3>1, <3>7, <3>8, <3>9, <3>10
  <2>5. ASSUME NEW s \in Sub, EmitSuppress(s) PROVE RescansDominate'
    <3>1. /\ Emitting(s) /\ UNCHANGED <<live, used, settling, peak, last, pc>> /\ pc = "emit"
      BY <2>5 DEF EmitSuppress, Emitting, sent, minted, control
    <3> DEFINE n == shed_rescan(s)
    <3>2. /\ DOMAIN needs' = DOMAIN needs /\ DOMAIN suppressed' = DOMAIN suppressed
          /\ \A x \in DOMAIN needs \ {s} : needs'[x] = needs[x]
          /\ \A x \in DOMAIN suppressed \ {s} : suppressed'[x] = suppressed[x]
          /\ s \in DOMAIN needs => needs'[s].epoch \in {needs[s].epoch, n}
          /\ s \in DOMAIN suppressed => suppressed'[s].epoch \in {suppressed[s].epoch, n}
          /\ hw' \in [Sub -> Nat] /\ hw'[s] = n /\ hw[s] < hw'[s]
          /\ \A x \in Sub \ {s} : hw'[x] = hw[x]
      BY <2>5, SuppressGrows
    <3>3. s \in live
      BY <3>1, Popped
    <3> HIDE DEF n
    <3>4. peak[s] < n /\ n \in Nat /\ n <= hw'[s]
      BY <1>1, <1>2, <3>2, <3>3 DEF PlanesAbove
    <3>5. Parted
      BY <3>2, <3>4 DEF Sourced
    <3>6. Alive
      BY <1>2, <3>1, <3>2
    <3>7. OutAbove'
      BY <1>1, <3>1, OutPopped
    <3>8. FlushApart'
      BY <1>4, <3>1
    <3> HIDE DEF Parted, Alive
    <3> QED BY <1>7, <3>1, <3>5, <3>6, <3>7, <3>8
  <2>6. ASSUME NEW s \in Sub, EmitShed(s) PROVE RescansDominate'
    <3>1. /\ Emitting(s) /\ UNCHANGED <<live, used, settling, peak, last, pc>> /\ pc = "emit"
      BY <2>6 DEF EmitShed, Emitting, sent, minted, control
    <3>2. PICK d : /\ d[s] \in Parked /\ d[s] = [key |-> KeyOf[s], epoch |-> shed_rescan(s)]
                   /\ Merged(needs', needs, {s} \ unclaimed, d)
                   /\ Merged(suppressed', suppressed, {s} \cap unclaimed, d)
                   /\ hw' \in [Sub -> Nat] /\ hw'[s] = shed_rescan(s)
                   /\ \A x \in Sub \ {s} : hw'[x] = hw[x]
      BY <2>6, ShedParks
    <3>3. s \in live /\ shed_rescan(s) \in Nat /\ hw[s] < shed_rescan(s)
      BY <3>1, Popped, OwnRescan
    <3>4. d[s].epoch = shed_rescan(s)
      BY <3>2
    <3>5. peak[s] < shed_rescan(s)
      BY <1>1, <1>2, <3>3 DEF PlanesAbove
    <3>6. \A x \in {s} : peak[x] < d[x].epoch /\ (x \in live' => d[x].epoch <= hw'[x])
      BY <3>2, <3>3, <3>4, <3>5
    <3>7. Parted
      <4>1. \A x \in DOMAIN needs' : Sourced(needs'[x], x)
        <5>1. \A x \in {s} \ unclaimed : peak[x] < d[x].epoch /\ (x \in live' => d[x].epoch <= hw'[x])
          BY <3>6
        <5> QED BY <3>2, <5>1, MergedSourced
      <4>2. \A x \in DOMAIN suppressed' : Sourced(suppressed'[x], x)
        <5>1. \A x \in {s} \cap unclaimed : peak[x] < d[x].epoch /\ (x \in live' => d[x].epoch <= hw'[x])
          BY <3>6
        <5> QED BY <3>2, <5>1, MergedSourced
      <4> QED BY <4>1, <4>2
    <3>8. OutAbove'
      BY <1>1, <3>1, OutPopped
    <3>9. FlushApart'
      BY <1>4, <3>1
    <3>10. Alive
      BY <1>2, <3>1, <3>2, <3>3
    <3> HIDE DEF Parted, Alive
    <3> QED BY <1>7, <3>1, <3>7, <3>8, <3>9, <3>10
  <2>7. ASSUME NEW due, DrainDue(due) PROVE RescansDominate'
    <3>1. UNCHANGED <<live, needs, suppressed, peak, last, used, settling>> /\ pc' = "emit"
      BY <2>7 DEF DrainDue, planes, sent, minted
    <3>2. Emitted
      BY <2>7, DrainPass
    <3>3. Alive
      BY <1>10, <3>1, <3>2 DEF Emitted
    <3>4. Parted
      BY <1>5, <3>1
    <3>5. OutAbove' /\ FlushApart'
      BY <1>4, <1>9, <3>1, <3>2
    <3> HIDE DEF Parted, Alive
    <3> QED BY <1>7, <3>1, <3>3, <3>4, <3>5
  <2>8. CASE EmitDone \/ FlushEnd \/ DrainTest \/ DrainLast \/ Cut \/ Flush
    <3>1. /\ UNCHANGED <<needs, suppressed, hw, out, peak, last, live, used, settling>>
      BY <2>8 DEF EmitDone, FlushEnd, DrainTest, DrainLast, Cut, Flush, ledger, planes, sent, minted
    <3>2. pc' # "flush" \/ pc' = pc \/ pc = "idle"
      <4>1. CASE EmitDone
        <5>1. pc' = then
          BY <4>1 DEF EmitDone
        <5> QED BY <1>1, <5>1 DEF TypedRest
      <4>2. CASE FlushEnd \/ DrainTest \/ DrainLast \/ Cut \/ Flush
        BY <4>2 DEF FlushEnd, end_flush, DrainTest, DrainLast, Cut, Flush, running, control
      <4> QED BY <2>8, <4>1, <4>2
    <3>3. FlushApart'
      <4>1. CASE pc = "idle"
        <5>1. \A s \in Sub : out'[s] = <<>>
          BY <1>12, <3>1, <4>1 DEF Nothing
        <5> QED BY <5>1 DEF FlushApart
      <4>2. CASE pc # "idle"
        BY <1>4, <3>1, <3>2, <4>2
      <4> QED BY <4>1, <4>2
    <3> QED BY <1>8, <3>1, <3>3
  <2>9. CASE FlushSend
    <3> DEFINE s == first_from
               e == Offered(s)
    <3>1. /\ DOMAIN needs # {} /\ send(s, e)
          /\ needs' = Drop(needs, {s}) /\ UNCHANGED <<suppressed, hw, live, used, settling, out, pc>>
          /\ pc = "flush"
      BY <2>9 DEF FlushSend, ledger, minted, control
    <3>2. Plane(needs)
      BY <1>1 DEF TypedBooks
    <3>3. s \in DOMAIN needs
      BY <3>1, <3>2, FirstFrom DEF Plane
    <3>4. s \in Sub
      BY <3>2, <3>3 DEF Plane
    <3> HIDE DEF s
    <3>5. /\ AsParked(e) = needs[s] /\ e.rescan /\ e.rescan \in BOOLEAN
          /\ e.keys \subseteq Seq(Component) /\ e.keys # {}
          /\ e.epoch \in Nat /\ e.epoch = needs[s].epoch
      BY <3>2, <3>3, OfferedTyped
    <3> HIDE DEF e
    <3>6. /\ peak' = [peak EXCEPT ![s] = larger(peak[s], e.epoch)]
          /\ last' = IF e.rescan THEN [last EXCEPT ![s] = AsParked(e)] ELSE last
      BY <3>1, <3>4, <3>5, SendTyped
    <3>7. /\ last'[s].epoch = e.epoch /\ \A x \in Sub \ {s} : last'[x] = last[x]
          /\ \A x \in Sub \ {s} : peak'[x] = peak[x]
      BY <1>1, <3>4, <3>5, <3>6 DEF TypedBooks
    <3>8. s \in used /\ s \notin DOMAIN suppressed
      BY <1>1, <3>3 DEF TypedRest, ClaimsSound, OfferedIsOwned
    <3>9. s \in live => e.epoch <= hw[s]
      BY <1>1, <3>3, <3>4, <3>5 DEF PlanesAbove
    <3>10. DOMAIN needs' = DOMAIN needs \ {s} /\ \A x \in DOMAIN needs \ {s} : needs'[x] = needs[x]
      BY <3>1, <3>2, DropPlane
    <3>11. PlanesAbove'
      <4>1. /\ s \notin DOMAIN needs' \cup DOMAIN suppressed'
            /\ DOMAIN needs' \subseteq DOMAIN needs /\ \A x \in DOMAIN needs' : needs'[x] = needs[x]
            /\ suppressed' = suppressed /\ UNCHANGED <<live, used, hw>>
        BY <3>1, <3>8, <3>10
      <4>2. last' = last \/ (last'[s].epoch = e.epoch /\ \A x \in Sub \ {s} : last'[x] = last[x])
        BY <3>7
      <4> QED BY <1>1, <3>4, <3>5, <3>6, <3>8, <3>9, <4>1, <4>2, AboveSent
    <3>12. OutAbove'
      <4>1. out[s] = <<>>
        BY <1>1, <3>1, <3>3, <3>4 DEF FlushApart, in_debt
      <4>2. \A x \in Sub : \A i \in DOMAIN out'[x] : x # s
        BY <3>1, <4>1
      <4> QED BY <1>1, <3>1, <3>7, <4>2 DEF OutAbove
    <3>13. FlushApart'
      BY <1>4, <3>1, <3>10
    <3>14. (PlanesAbove /\ OutAbove /\ FlushApart)' <=> RescansDominate'
      BY DominateSplit, PTL
    <3> QED BY <3>11, <3>12, <3>13, <3>14
  <2>10. CASE DrainOwed
    <3>1. /\ UNCHANGED <<hw, needs, suppressed, peak, last, live, used, settling>>
          /\ out' = [s \in Sub |-> IF in_debt(s) THEN <<>> ELSE Emissions(held[s])]
      BY <2>10 DEF DrainOwed, ledger, planes, sent, minted
    <3>2. ASSUME NEW s \in Sub
          PROVE  \A i \in DOMAIN out'[s] : ~out'[s][i].rescan /\ s \in settling
      <4>1. CASE in_debt(s)
        BY <3>1, <4>1
      <4>2. CASE ~in_debt(s)
        <5>1. out'[s] = Emissions(held[s]) /\ held[s] \in Seq(Delta) /\ (held[s] # <<>> => s \in settling)
          BY <3>1, <4>2, HeldMinted
        <5>2. \A i \in DOMAIN Emissions(held[s]) :
                 i \in DOMAIN held[s] /\ Emissions(held[s])[i] = AsEmission(held[s][i])
          BY <5>1, EmissionsTyped
        <5>3. \A i \in DOMAIN held[s] : s \in settling
          <6> SUFFICES ASSUME NEW i \in DOMAIN held[s] PROVE s \in settling
            OBVIOUS
          <6>1. held[s] # <<>>
            OBVIOUS
          <6> QED BY <5>1, <6>1
        <5>4. \A i \in DOMAIN held[s] : ~AsEmission(held[s][i]).rescan
          BY DEF AsEmission
        <5> QED BY <5>1, <5>2, <5>3, <5>4
      <4> QED BY <4>1, <4>2
    <3>3. OutAbove'
      BY <3>1, <3>2 DEF OutAbove
    <3>4. FlushApart'
      BY <3>1 DEF FlushApart, in_debt
    <3>5. Alive
      BY <1>6, <3>1
    <3>6. Parted
      BY <1>5, <3>1
    <3> HIDE DEF Parted, Alive
    <3> QED BY <1>7, <3>1, <3>3, <3>4, <3>5, <3>6
  <2> QED BY <1>16, <2>1, <2>2, <2>3, <2>4, <2>5, <2>6, <2>7, <2>8, <2>9, <2>10 DEF Owner
<1>17. CASE Recv \/ UNCHANGED vars
  <2>1. UNCHANGED <<needs, suppressed, hw, out, peak, last, live, used, settling, pc>>
    BY <1>17 DEF Recv, vars, ledger, planes, sent, minted, control
  <2> QED BY <1>4, <1>8, <2>1
<1> QED BY <1>15, <1>16, <1>17 DEF Next

-----------------------------------------------------------------------------
(* What is owed stays covered.                                             *)

\* What a subscription must still be told is told by a Rescan on its way.
CoveredAt(s) == \A o \in owed[s] : \E r \in Pending(s) : Covers(r, o)

\* What a step makes of a Rescan on its way: one as wide is on its way
\* after it, or nothing is owed any more for which it stands.
Handed(s, r) ==
    \/ \E q \in Pending(s)' : Wider(q, r)
    \/ \A o \in owed'[s] : ~Covers(r, o)

\* The Rescans on their way, after a step.
LEMMA PendingNext ==
    ASSUME TypedBooks', NEW s \in Sub
    PROVE  /\ s \in DOMAIN needs' => needs'[s] \in Pending(s)'
           /\ s \in DOMAIN suppressed' => suppressed'[s] \in Pending(s)'
           /\ \A i \in DOMAIN out'[s] : out'[s][i].rescan => AsParked(out'[s][i]) \in Pending(s)'
           /\ \A q \in Pending(s)' : q \in Parked
<1>1. s \in DOMAIN needs' => needs'[s] \in Pending(s)'
  BY DEF Pending
<1>2. s \in DOMAIN suppressed' => suppressed'[s] \in Pending(s)'
  BY DEF Pending
<1>3. \A i \in DOMAIN out'[s] : out'[s][i].rescan => AsParked(out'[s][i]) \in Pending(s)'
  BY DEF Pending, Range
<1>4. ASSUME NEW q \in Pending(s)' PROVE q \in Parked
  <2>1. CASE q \in {needs'[x] : x \in DOMAIN needs' \cap {s}}
    BY <2>1 DEF TypedBooks, Plane
  <2>2. CASE q \in {suppressed'[x] : x \in DOMAIN suppressed' \cap {s}}
    BY <2>2 DEF TypedBooks, Plane
  <2>3. CASE q \in {AsParked(e) : e \in {x \in Range(out'[s]) : x.rescan}}
    <3>1. PICK i \in DOMAIN out'[s] : q = AsParked(out'[s][i])
      BY <2>3 DEF Range
    <3>2. out'[s] \in Seq(Emission)
      BY DEF TypedBooks
    <3>3. out'[s][i] \in Emission
      BY <3>2
    <3> QED BY <3>1, <3>3, ParkedEmission
  <2> QED BY <2>1, <2>2, <2>3 DEF Pending
<1> QED BY <1>1, <1>2, <1>3, <1>4

LEMMA CoveredKept ==
    ASSUME TypedBooks, TypedBooks', NEW s \in Sub, CoveredAt(s),
           s \in DOMAIN needs => Handed(s, needs[s]),
           s \in DOMAIN suppressed => Handed(s, suppressed[s]),
           \A i \in DOMAIN out[s] : out[s][i].rescan => Handed(s, AsParked(out[s][i])),
           \A o \in owed'[s] : o \in owed[s] \/ \E q \in Pending(s)' : Covers(q, o)
    PROVE  CoveredAt(s)'
<1> SUFFICES ASSUME NEW o \in owed'[s] PROVE \E q \in Pending(s)' : Covers(q, o)
  BY DEF CoveredAt
<1>1. CASE o \notin owed[s]
  BY <1>1
<1>2. CASE o \in owed[s]
  <2>1. PICK r \in Pending(s) : Covers(r, o)
    BY <1>2 DEF CoveredAt
  <2>2. r \in Parked /\ Handed(s, r)
    <3>1. CASE r \in {needs[x] : x \in DOMAIN needs \cap {s}}
      BY <3>1 DEF TypedBooks, Plane
    <3>2. CASE r \in {suppressed[x] : x \in DOMAIN suppressed \cap {s}}
      BY <3>2 DEF TypedBooks, Plane
    <3>3. CASE r \in {AsParked(e) : e \in {x \in Range(out[s]) : x.rescan}}
      <4>1. PICK i \in DOMAIN out[s] : r = AsParked(out[s][i]) /\ out[s][i].rescan
        BY <3>3 DEF Range
      <4>2. out[s] \in Seq(Emission)
        BY DEF TypedBooks
      <4>3. out[s][i] \in Emission
        BY <4>2
      <4>4. r \in Parked
        BY <4>1, <4>3, ParkedEmission
      <4> QED BY <4>1, <4>4
    <3> QED BY <3>1, <3>2, <3>3 DEF Pending
  <2>3. PICK q \in Pending(s)' : Wider(q, r)
    BY <2>1, <2>2 DEF Handed
  <2>4. q \in Parked
    BY PendingNext
  <2>5. o \in [keys : SUBSET Key, need : Nat]
    BY <1>2 DEF TypedBooks
  <2>6. Covers(q, o)
    BY <2>1, <2>2, <2>3, <2>4, <2>5, WiderCovers
  <2> QED BY <2>6
<1> QED BY <1>1, <1>2

\* A Rescan that is merged is handed on, and stands for what it stood for.
LEMMA MergedHands ==
    ASSUME TypedBooks', NEW s \in Sub,
           NEW N, NEW S, NEW d, Merged(needs', needs, N, d), Merged(suppressed', suppressed, S, d)
    PROVE  /\ s \in DOMAIN needs => Handed(s, needs[s])
           /\ s \in DOMAIN suppressed => Handed(s, suppressed[s])
           /\ s \in N \cup S => \E q \in Pending(s)' : q \in Parked /\ Wider(q, d[s])
<1>1. /\ s \in DOMAIN needs' => needs'[s] \in Pending(s)'
      /\ s \in DOMAIN suppressed' => suppressed'[s] \in Pending(s)'
      /\ \A q \in Pending(s)' : q \in Parked
  BY PendingNext
<1>2. /\ DOMAIN needs' = DOMAIN needs \cup N
      /\ s \in DOMAIN needs => Wider(needs'[s], needs[s])
      /\ s \in N => Wider(needs'[s], d[s])
  BY DEF Merged
<1>3. /\ DOMAIN suppressed' = DOMAIN suppressed \cup S
      /\ s \in DOMAIN suppressed => Wider(suppressed'[s], suppressed[s])
      /\ s \in S => Wider(suppressed'[s], d[s])
  BY DEF Merged
<1>4. s \in DOMAIN needs => Handed(s, needs[s])
  BY <1>1, <1>2 DEF Handed
<1>5. s \in DOMAIN suppressed => Handed(s, suppressed[s])
  BY <1>1, <1>3 DEF Handed
<1>6. s \in N => \E q \in Pending(s)' : q \in Parked /\ Wider(q, d[s])
  BY <1>1, <1>2
<1>7. s \in S => \E q \in Pending(s)' : q \in Parked /\ Wider(q, d[s])
  BY <1>1, <1>3
<1> QED BY <1>4, <1>5, <1>6, <1>7

\* How the phases follow each other.
LEMMA PhaseStep ==
    ASSUME ControlSound, [Next]_vars
    PROVE  /\ settling \subseteq settling'
           /\ phase' = "run" => phase = "run"
           /\ phase \in {"ended", "closed"} =>
                 /\ phase' = phase /\ UNCHANGED <<owed, settling>>
                 /\ phase = "ended" => owned' \subseteq owned
           /\ phase' = "ended" => phase = "ended" \/ DrainLast
           /\ phase' = "closed" => phase = "closed" \/ Close
<1> DEFINE Run == phase = "run" /\ phase' = "run" /\ settling \subseteq settling'
           Work == phase \in {"run", "drain"} /\ phase' = phase /\ settling' = settling
           Idle == /\ phase' = phase /\ UNCHANGED <<owed, settling>>
                   /\ phase = "ended" => owned' \subseteq owned
<1>1. /\ phase \in {"ended", "closed"} => pc = "idle"
      /\ phase = "ended" => cut
      /\ pc \in {"emit", "flush", "test", "cut", "last", "settle"} => phase \in {"run", "drain"}
  BY DEF ControlSound
<1>2. \A s \in Sub, taken \in BOOLEAN : reply(s, taken) => settling \subseteq settling'
  BY DEF reply
<1>3. CASE Environment
  <2>1. ASSUME NEW s \in Sub, NEW taken \in BOOLEAN, Watch(s, taken) \/ Widen(s, taken) PROVE Run
    <3>1. phase = "run" /\ phase' = phase /\ reply(s, taken)
      BY <2>1 DEF Watch, Widen, running, control, repoint
    <3> QED BY <1>2, <3>1
  <2>2. ASSUME NEW s \in Sub, CallerClaims(s) \/ CallerDrops(s) PROVE Idle
    <3>1. phase' = phase /\ UNCHANGED <<owed, settling>> /\ (cut => owned' = owned)
      BY <2>2 DEF CallerClaims, CallerDrops, control, minted
    <3> QED BY <1>1, <3>1
  <2>3. ASSUME NEW s \in Sub, Unwatch(s) PROVE Run
    BY <2>3 DEF Unwatch, running, control, minted
  <2>4. ASSUME NEW due, NEW ks, NEW a, NEW p, NEW c, Observe(ks, a, p, c, due) PROVE Run
    BY <2>4 DEF Observe, running, minted
  <2>5. ASSUME NEW due, NEW k, SourceRescan(k, due) PROVE Run
    BY <2>5 DEF SourceRescan, running, minted
  <2>6. CASE Restore \/ Rollback \/ Retire
    BY <2>6 DEF Restore, Rollback, Retire, running, repoint, minted, control
  <2>7. CASE SourceEnds
    BY <2>7 DEF SourceEnds, running, minted
  <2>8. CASE Close
    BY <2>8 DEF Close, minted
  <2> QED BY <1>1, <1>3, <2>1, <2>2, <2>3, <2>4, <2>5, <2>6, <2>7, <2>8 DEF Environment
<1>4. CASE Owner
  <2>1. ASSUME NEW s \in Sub, ApplyClaim(s) \/ ApplyOrphan(s) PROVE Work
    BY <2>1 DEF ApplyClaim, ApplyOrphan, AppliesCleanup, control, minted
  <2>2. ASSUME NEW s \in Sub, EmitSend(s) \/ EmitMerge(s) \/ EmitSuppress(s) \/ EmitShed(s) PROVE Work
    BY <1>1, <2>2 DEF EmitSend, EmitMerge, EmitSuppress, EmitShed, Emitting, control, minted
  <2>3. ASSUME NEW due, DrainDue(due) PROVE Work
    BY <2>3 DEF DrainDue, running, minted
  <2>4. CASE EmitDone \/ FlushEnd \/ FlushSend
    BY <1>1, <2>4 DEF EmitDone, FlushEnd, FlushSend, control, minted
  <2>5. CASE Flush \/ DrainOwed \/ DrainTest \/ Cut
    BY <2>5 DEF Flush, DrainOwed, DrainTest, Cut, running, control, minted
  <2>6. CASE DrainLast
    BY <2>6 DEF DrainLast, minted
  <2> QED BY <1>4, <2>1, <2>2, <2>3, <2>4, <2>5, <2>6 DEF Owner
<1>5. CASE Recv \/ UNCHANGED vars
  BY <1>5 DEF Recv, vars, control, minted, claims
<1> QED BY <1>3, <1>4, <1>5 DEF Next

LEMMA CoveredStep ==
    ASSUME TypeOK, RestTyped, ClaimsSound, ControlSound, EntriesMinted, OwedIsCovered, [Next]_vars
    PROVE  OwedIsCovered'
<1>1. TypedBooks /\ TypedRest /\ TypedBooks'
  BY TypesSplit, BooksStep
<1>2. pc \notin {"emit", "flush"} => \A s \in Sub : out[s] = <<>> /\ DOMAIN out[s] = {}
  BY DEF ControlSound, Nothing
<1>3. ASSUME NEW s \in Sub, UNCHANGED <<needs, suppressed, out, owed>>, CoveredAt(s) PROVE CoveredAt(s)'
  BY <1>3 DEF CoveredAt, Pending
<1>4. ASSUME NEW s \in Sub, owed'[s] = {} PROVE CoveredAt(s)'
  BY <1>4 DEF CoveredAt
<1>5. \A s \in Sub : /\ s \in DOMAIN needs => needs[s] \in Parked
                     /\ s \in DOMAIN suppressed => suppressed[s] \in Parked
                     /\ \A i \in DOMAIN out[s] : out[s][i] \in Emission
  BY <1>1 DEF TypedBooks, Plane
<1>6. ASSUME NEW s \in Sub, s \in DOMAIN needs, s \in DOMAIN needs', needs'[s] = needs[s]
      PROVE  Handed(s, needs[s])
  BY <1>1, <1>5, <1>6, PendingNext, WiderItself DEF Handed
<1>7. ASSUME NEW s \in Sub, s \in DOMAIN suppressed, s \in DOMAIN suppressed', suppressed'[s] = suppressed[s]
      PROVE  Handed(s, suppressed[s])
  BY <1>1, <1>5, <1>7, PendingNext, WiderItself DEF Handed
<1>8. ASSUME NEW s \in Sub, NEW i \in DOMAIN out[s], out[s][i].rescan,
             NEW j \in DOMAIN out'[s], out'[s][j] = out[s][i]
      PROVE  Handed(s, AsParked(out[s][i]))
  <2>1. AsParked(out'[s][j]) \in Pending(s)'
    BY <1>1, <1>8, PendingNext
  <2>2. AsParked(out[s][i]) \in Parked
    BY <1>5, ParkedEmission
  <2> QED BY <1>8, <2>1, <2>2, WiderItself DEF Handed
<1>9. ASSUME NEW s \in Sub, UNCHANGED <<needs, suppressed>>, CoveredAt(s), DOMAIN out[s] = {},
             \A o \in owed'[s] :
                o \in owed[s] \/ \E i \in DOMAIN out'[s] : out'[s][i].rescan /\ Covers(AsParked(out'[s][i]), o)
      PROVE  CoveredAt(s)'
  <2>1. \A o \in owed'[s] : o \in owed[s] \/ \E q \in Pending(s)' : Covers(q, o)
    BY <1>1, <1>9, PendingNext
  <2>2. /\ s \in DOMAIN needs => Handed(s, needs[s])
        /\ s \in DOMAIN suppressed => Handed(s, suppressed[s])
    BY <1>6, <1>7, <1>9
  <2> QED BY <1>1, <1>9, <2>1, <2>2, CoveredKept
\* A Rescan is parked for every subscription of P, the new debts' cover.
<1>10. ASSUME NEW s \in Sub, CoveredAt(s), NEW P, NEW d,
              Merged(needs', needs, P \ unclaimed, d), Merged(suppressed', suppressed, P \cap unclaimed, d),
              s \in P => d[s] \in Parked,
              \A i \in DOMAIN out[s] : out[s][i].rescan => Handed(s, AsParked(out[s][i])),
              \A o \in owed'[s] : o \in owed[s] \/ (s \in P /\ Covers(d[s], o))
       PROVE  CoveredAt(s)'
  <2>1. /\ s \in DOMAIN needs => Handed(s, needs[s])
        /\ s \in DOMAIN suppressed => Handed(s, suppressed[s])
        /\ s \in P => \E q \in Pending(s)' : q \in Parked /\ Wider(q, d[s])
    <3> DEFINE N == P \ unclaimed
               S == P \cap unclaimed
    <3>1. Merged(needs', needs, N, d) /\ Merged(suppressed', suppressed, S, d) /\ (s \in P => s \in N \cup S)
      BY <1>10
    <3> HIDE DEF N, S
    <3> QED BY <1>1, <3>1, MergedHands
  <2>2. ASSUME NEW o \in owed'[s], o \notin owed[s] PROVE \E q \in Pending(s)' : Covers(q, o)
    <3>1. s \in P /\ Covers(d[s], o) /\ d[s] \in Parked
      BY <1>10, <2>2
    <3>2. PICK q \in Pending(s)' : q \in Parked /\ Wider(q, d[s])
      BY <2>1, <3>1
    <3>3. o \in [keys : SUBSET Key, need : Nat]
      BY <1>1 DEF TypedBooks
    <3> QED BY <3>1, <3>2, <3>3, WiderCovers
  <2> QED BY <1>1, <1>10, <2>1, <2>2, CoveredKept
<1>11. ASSUME NEW x \in Sub, release_subscription(x), UNCHANGED out, pc \notin {"emit", "flush"},
              NEW s \in Sub, CoveredAt(s)
       PROVE  CoveredAt(s)'
  <2>1. /\ needs' = Drop(needs, {x}) /\ suppressed' = Drop(suppressed, {x}) /\ owed' = [owed EXCEPT ![x] = {}]
    BY <1>11 DEF release_subscription
  <2>2. CASE s = x
    BY <1>1, <1>4, <2>1, <2>2 DEF TypedBooks
  <2>3. CASE s # x
    <3>1. owed'[s] = owed[s]
      BY <1>1, <2>1, <2>3 DEF TypedBooks
    <3>2. /\ s \in DOMAIN needs => s \in DOMAIN needs' /\ needs'[s] = needs[s]
          /\ s \in DOMAIN suppressed => s \in DOMAIN suppressed' /\ suppressed'[s] = suppressed[s]
      BY <2>1, <2>3 DEF Drop
    <3>3. /\ s \in DOMAIN needs => Handed(s, needs[s])
          /\ s \in DOMAIN suppressed => Handed(s, suppressed[s])
      BY <1>6, <1>7, <3>2
    <3>4. DOMAIN out[s] = {}
      BY <1>2, <1>11
    <3> QED BY <1>1, <1>11, <3>1, <3>3, <3>4, CoveredKept
  <2> QED BY <2>2, <2>3
\* What is left behind the delivery emitted.
<1>12. ASSUME NEW x \in Sub, Emitting(x), NEW s \in Sub, NEW i \in DOMAIN out[s], out[s][i].rescan,
              s = x => i # 1 \/ Handed(x, AsParked(Head(out[x])))
       PROVE  Handed(s, AsParked(out[s][i]))
  <2>1. /\ \A y \in Sub \ {x} : out'[y] = out[y]
        /\ \A j \in DOMAIN out[x] : j # 1 => j - 1 \in DOMAIN out'[x] /\ out'[x][j - 1] = out[x][j]
        /\ Head(out[x]) = out[x][1]
    BY <1>12, Popped
  <2>2. CASE s # x
    BY <1>8, <1>12, <2>1, <2>2
  <2>3. CASE s = x /\ i # 1
    BY <1>8, <1>12, <2>1, <2>3
  <2>4. CASE s = x /\ i = 1
    BY <1>12, <2>1, <2>4
  <2> QED BY <2>2, <2>3, <2>4
<1>13. ASSUME NEW s \in Sub, CoveredAt(s), s \notin settling \/ phase' = "run"
       PROVE  CoveredAt(s)'
  <2>1. CASE Environment
    <3>1. ASSUME NEW x \in Sub, NEW taken \in BOOLEAN, Watch(x, taken) PROVE CoveredAt(s)'
      BY <1>3, <1>13, <3>1 DEF Watch, planes
    <3>2. ASSUME repoint, UNCHANGED planes, running PROVE CoveredAt(s)'
      <4>1. OwedEmitted
        BY <3>2, RepointPass
      <4>2. DOMAIN out[s] = {} /\ UNCHANGED <<needs, suppressed>>
        BY <1>2, <3>2 DEF running, planes
      <4> QED BY <1>9, <1>13, <4>1, <4>2 DEF OwedEmitted
    <3>3. ASSUME NEW x \in Sub, NEW taken \in BOOLEAN, Widen(x, taken) PROVE CoveredAt(s)'
      BY <3>2, <3>3 DEF Widen
    <3>4. ASSUME NEW x \in Sub, CallerClaims(x) \/ CallerDrops(x) PROVE CoveredAt(s)'
      BY <1>3, <1>13, <3>4 DEF CallerClaims, CallerDrops, planes
    <3>5. ASSUME NEW x \in Sub, Unwatch(x) PROVE CoveredAt(s)'
      <4>1. release_subscription(x) /\ UNCHANGED out /\ pc \notin {"emit", "flush"}
        BY <3>5 DEF Unwatch, running
      <4> QED BY <1>11, <1>13, <4>1
    <3>6. ASSUME NEW due, NEW ks \in Changes, NEW a, NEW p, NEW c, Observe(ks, a, p, c, due)
          PROVE  CoveredAt(s)'
      <4>1. PICK P, d : Observed(P, d)
        BY <3>6, ObservePass
      <4>2. P \in SUBSET Sub /\ (\A x \in P : d[x] \in Parked) /\ park(P, d)
        BY <1>1, <4>1, Typing DEF Observed
      <4>3. Merged(needs', needs, P \ unclaimed, d) /\ Merged(suppressed', suppressed, P \cap unclaimed, d)
        BY <1>1, <4>2, Parks DEF TypedBooks
      <4>4. DOMAIN out[s] = {}
        BY <1>2, <3>6 DEF Observe, running
      <4>5. \A o \in owed'[s] : o \in owed[s] \/ (s \in P /\ Covers(d[s], o))
        BY <4>1 DEF Observed
      <4> QED BY <1>10, <1>13, <4>2, <4>3, <4>4, <4>5
    <3>7. ASSUME NEW due, NEW k \in Key, SourceRescan(k, due) PROVE CoveredAt(s)'
      <4>1. OwedEmitted
        BY <3>7, SourcePass
      <4>2. DOMAIN out[s] = {} /\ UNCHANGED <<needs, suppressed>>
        BY <1>2, <3>7 DEF SourceRescan, running, planes
      <4> QED BY <1>9, <1>13, <4>1, <4>2 DEF OwedEmitted
    <3>8. CASE Restore
      BY <3>2, <3>8 DEF Restore
    <3>9. CASE Rollback \/ Retire
      <4>1. rescan_live_root /\ DOMAIN out[s] = {}
        BY <1>2, <3>9 DEF Rollback, Retire, running
      <4>2. /\ Merged(needs', needs, live \ unclaimed, RootRescans)
            /\ Merged(suppressed', suppressed, live \cap unclaimed, RootRescans)
        BY <4>1, RootParks
      <4>3. \A o \in owed'[s] : o \in owed[s] \/ (s \in live /\ Covers(RootRescans[s], o))
        BY <4>1, RootParks
      <4>4. s \in live => RootRescans[s] \in Parked
        BY <4>1, RootParks
      <4> QED BY <1>10, <1>13, <4>1, <4>2, <4>3, <4>4
    <3>10. CASE SourceEnds
      BY <1>3, <1>13, <3>10 DEF SourceEnds, planes
    <3>11. CASE Close
      BY <1>4, <3>11 DEF Close
    <3> QED BY <2>1, <3>1, <3>3, <3>4, <3>5, <3>6, <3>7, <3>8, <3>9, <3>10, <3>11 DEF Environment
  <2>2. CASE Owner
    <3>1. ASSUME NEW x \in Sub, ApplyClaim(x) PROVE CoveredAt(s)'
      <4>1. promote(x) /\ UNCHANGED <<out, owed>> /\ DOMAIN out[s] = {}
        BY <1>2, <3>1 DEF ApplyClaim, AppliesCleanup
      <4>2. Plane(needs) /\ Plane(suppressed)
        BY <1>1 DEF TypedBooks
      <4>3. CASE x \notin DOMAIN suppressed
        <5>1. needs' = needs /\ suppressed' = Drop(suppressed, {x})
          BY <4>1, <4>3 DEF promote
        <5>2. s \in DOMAIN suppressed => s \in DOMAIN suppressed' /\ suppressed'[s] = suppressed[s]
          BY <4>3, <5>1 DEF Drop
        <5>3. /\ s \in DOMAIN needs => Handed(s, needs[s])
              /\ s \in DOMAIN suppressed => Handed(s, suppressed[s])
          BY <1>6, <1>7, <5>1, <5>2
        <5> QED BY <1>1, <1>13, <4>1, <5>3, CoveredKept
      <4>4. CASE x \in DOMAIN suppressed
        <5> DEFINE T == {x}
        <5>1. T \in SUBSET Sub /\ (\A y \in T : suppressed[y] \in Parked) /\ Plane(needs)
          BY <4>2, <4>4 DEF Plane
        <5>2. needs' = merge_max(needs, T, suppressed) /\ suppressed' = Drop(suppressed, {x})
          BY <4>1, <4>4 DEF promote
        <5> HIDE DEF T
        <5>3. Merged(needs', needs, T, suppressed)
          BY <5>1, <5>2, MergeMax
        <5>4. s \in DOMAIN needs => Handed(s, needs[s])
          <6>1. s \in DOMAIN needs => s \in DOMAIN needs' /\ Wider(needs'[s], needs[s])
            BY <5>3 DEF Merged
          <6> QED BY <1>1, <6>1, PendingNext DEF Handed
        <5>5. s \in DOMAIN suppressed => Handed(s, suppressed[s])
          <6>1. CASE s = x
            <7>1. s \in DOMAIN needs' /\ Wider(needs'[s], suppressed[s])
              BY <5>3, <6>1 DEF Merged, T
            <7> QED BY <1>1, <7>1, PendingNext DEF Handed
          <6>2. CASE s # x
            <7>1. s \in DOMAIN suppressed => s \in DOMAIN suppressed' /\ suppressed'[s] = suppressed[s]
              BY <5>2, <6>2 DEF Drop
            <7> QED BY <1>7, <7>1
          <6> QED BY <6>1, <6>2
        <5> QED BY <1>1, <1>13, <4>1, <5>4, <5>5, CoveredKept
      <4> QED BY <4>3, <4>4
    <3>2. ASSUME NEW x \in Sub, ApplyOrphan(x) PROVE CoveredAt(s)'
      <4>1. release_subscription(x) /\ UNCHANGED out /\ pc \notin {"emit", "flush"}
        BY <3>2 DEF ApplyOrphan, AppliesCleanup
      <4> QED BY <1>11, <1>13, <4>1
    <3>3. ASSUME NEW x \in Sub, EmitSend(x) PROVE CoveredAt(s)'
      <4> DEFINE e == Head(out[x])
      <4>1. Emitting(x) /\ send(x, e) /\ UNCHANGED <<needs, suppressed>>
        BY <3>3 DEF EmitSend, planes
      <4>2. e \in Emission /\ e = out[x][1]
        BY <4>1, Popped
      <4>3. e.rescan \in BOOLEAN /\ e.keys \subseteq Seq(Component) /\ e.keys # {} /\ e.epoch \in Nat
        BY <4>2, KeyAssumption DEF Emission
      <4> HIDE DEF e
      <4>4. owed' = IF e.rescan THEN [owed EXCEPT ![x] = {o \in owed[x] : ~Covers(AsParked(e), o)}] ELSE owed
        BY <1>1, <4>1, <4>3, SendTyped
      <4>5. \A o \in owed'[s] : o \in owed[s]
        BY <1>1, <4>4 DEF TypedBooks
      <4>6. e.rescan => Handed(x, AsParked(e))
        <5>1. e.rescan => \A o \in owed'[x] : ~Covers(AsParked(e), o)
          BY <1>1, <4>4 DEF TypedBooks
        <5> QED BY <5>1 DEF Handed
      <4>7. \A i \in DOMAIN out[s] : out[s][i].rescan => Handed(s, AsParked(out[s][i]))
        <5> SUFFICES ASSUME NEW i \in DOMAIN out[s], out[s][i].rescan PROVE Handed(s, AsParked(out[s][i]))
          OBVIOUS
        <5>1. s = x => i # 1 \/ Handed(x, AsParked(Head(out[x])))
          BY <4>2, <4>6 DEF e
        <5> QED BY <1>12, <4>1, <5>1
      <4>8. /\ s \in DOMAIN needs => Handed(s, needs[s])
            /\ s \in DOMAIN suppressed => Handed(s, suppressed[s])
        BY <1>6, <1>7, <4>1
      <4> QED BY <1>1, <1>13, <4>5, <4>7, <4>8, CoveredKept
    <3>4. ASSUME NEW x \in Sub, EmitMerge(x) PROVE CoveredAt(s)'
      <4>1. Emitting(x) /\ owed' = owed
        BY <3>4 DEF EmitMerge
      <4>2. PICK d : /\ d[x] \in Parked /\ d[x] = AsParked(Head(out[x]))
                     /\ Merged(needs', needs, {x} \ unclaimed, d)
                     /\ Merged(suppressed', suppressed, {x} \cap unclaimed, d)
        BY <3>4, MergeParks
      <4>3. \E q \in Pending(x)' : q \in Parked /\ Wider(q, d[x])
        <5> DEFINE N == {x} \ unclaimed
                   S == {x} \cap unclaimed
        <5>1. Merged(needs', needs, N, d) /\ Merged(suppressed', suppressed, S, d) /\ x \in N \cup S
          BY <4>2
        <5> HIDE DEF N, S
        <5> QED BY <1>1, <5>1, MergedHands
      <4>4. Handed(x, AsParked(Head(out[x])))
        BY <4>2, <4>3 DEF Handed
      <4>5. \A i \in DOMAIN out[s] : out[s][i].rescan => Handed(s, AsParked(out[s][i]))
        BY <1>12, <4>1, <4>4
      <4>6. s \in {x} => d[s] \in Parked
        BY <4>2
      <4> DEFINE P == {x}
      <4>7. /\ Merged(needs', needs, P \ unclaimed, d) /\ Merged(suppressed', suppressed, P \cap unclaimed, d)
            /\ s \in P => d[s] \in Parked
        BY <4>2
      <4> HIDE DEF P
      <4> QED BY <1>10, <1>13, <4>1, <4>5, <4>7
    <3>5. ASSUME NEW x \in Sub, EmitSuppress(x) PROVE CoveredAt(s)'
      <4> DEFINE e == Head(out[x])
      <4>1. Emitting(x) /\ ~e.rescan
        BY <3>5 DEF EmitSuppress
      <4>2. /\ DOMAIN needs' = DOMAIN needs /\ DOMAIN suppressed' = DOMAIN suppressed
            /\ \A y \in DOMAIN needs \ {x} : needs'[y] = needs[y]
            /\ \A y \in DOMAIN suppressed \ {x} : suppressed'[y] = suppressed[y]
            /\ x \in DOMAIN needs => Wider(needs'[x], needs[x]) /\ Covers(needs'[x], Debt(e))
            /\ x \in DOMAIN suppressed => Wider(suppressed'[x], suppressed[x]) /\ Covers(suppressed'[x], Debt(e))
            /\ x \in DOMAIN needs \/ x \in DOMAIN suppressed
            /\ \A y \in Sub \ {x} : owed'[y] = owed[y]
            /\ owed'[x] = owed[x] \cup {Debt(e)}
        BY <3>5, SuppressGrows
      <4>3. \A i \in DOMAIN out[s] : out[s][i].rescan => Handed(s, AsParked(out[s][i]))
        <5> SUFFICES ASSUME NEW i \in DOMAIN out[s], out[s][i].rescan PROVE Handed(s, AsParked(out[s][i]))
          OBVIOUS
        <5>1. s = x => i # 1
          BY <4>1, Popped
        <5> QED BY <1>12, <4>1, <5>1
      <4> HIDE DEF e
      <4>4. CASE s = x
        <5>1. /\ s \in DOMAIN needs' => needs'[s] \in Pending(s)'
              /\ s \in DOMAIN suppressed' => suppressed'[s] \in Pending(s)'
          BY <1>1, PendingNext
        <5>2. /\ s \in DOMAIN needs => Handed(s, needs[s])
              /\ s \in DOMAIN suppressed => Handed(s, suppressed[s])
          BY <4>2, <4>4, <5>1 DEF Handed
        <5>3. \A o \in owed'[s] : o \in owed[s] \/ \E q \in Pending(s)' : Covers(q, o)
          BY <4>2, <4>4, <5>1
        <5> QED BY <1>1, <1>13, <4>3, <5>2, <5>3, CoveredKept
      <4>5. CASE s # x
        <5>1. owed'[s] = owed[s] /\ (s \in DOMAIN needs => needs'[s] = needs[s])
              /\ (s \in DOMAIN suppressed => suppressed'[s] = suppressed[s])
          BY <4>2, <4>5
        <5>2. /\ s \in DOMAIN needs => Handed(s, needs[s])
              /\ s \in DOMAIN suppressed => Handed(s, suppressed[s])
          BY <1>6, <1>7, <4>2, <5>1
        <5> QED BY <1>1, <1>13, <4>3, <5>1, <5>2, CoveredKept
      <4> QED BY <4>4, <4>5
    <3>6. ASSUME NEW x \in Sub, EmitShed(x) PROVE CoveredAt(s)'
      <4>1. Emitting(x) /\ ~Head(out[x]).rescan
        BY <3>6 DEF EmitShed
      <4>2. PICK d : /\ d[x] \in Parked
                     /\ Merged(needs', needs, {x} \ unclaimed, d)
                     /\ Merged(suppressed', suppressed, {x} \cap unclaimed, d)
                     /\ \A y \in Sub \ {x} : owed'[y] = owed[y]
                     /\ \A o \in owed'[x] : o \in owed[x] \/ Covers(d[x], o)
        BY <3>6, ShedParks
      <4>3. \A i \in DOMAIN out[s] : out[s][i].rescan => Handed(s, AsParked(out[s][i]))
        <5> SUFFICES ASSUME NEW i \in DOMAIN out[s], out[s][i].rescan PROVE Handed(s, AsParked(out[s][i]))
          OBVIOUS
        <5>1. s = x => i # 1
          BY <4>1, Popped
        <5> QED BY <1>12, <4>1, <5>1
      <4> DEFINE P == {x}
      <4>4. /\ Merged(needs', needs, P \ unclaimed, d) /\ Merged(suppressed', suppressed, P \cap unclaimed, d)
            /\ s \in P => d[s] \in Parked
            /\ \A o \in owed'[s] : o \in owed[s] \/ (s \in P /\ Covers(d[s], o))
        BY <4>2
      <4> HIDE DEF P
      <4> QED BY <1>10, <1>13, <4>3, <4>4
    <3>7. ASSUME NEW due, DrainDue(due) PROVE CoveredAt(s)'
      <4>1. UNCHANGED <<needs, suppressed, owed>> /\ DOMAIN out[s] = {}
        BY <1>2, <3>7 DEF DrainDue, running, planes
      <4>2. \A o \in owed'[s] : o \in owed[s]
        BY <4>1
      <4> QED BY <1>9, <1>13, <4>1, <4>2
    <3>8. CASE EmitDone \/ FlushEnd \/ DrainTest \/ DrainLast \/ Cut \/ Flush
      <4>1. UNCHANGED <<needs, suppressed, out, owed>>
        BY <3>8 DEF EmitDone, FlushEnd, DrainTest, DrainLast, Cut, Flush, planes
      <4> QED BY <1>3, <1>13, <4>1
    <3>9. CASE FlushSend
      <4> DEFINE x == first_from
                 e == Offered(x)
      <4>1. /\ DOMAIN needs # {} /\ send(x, e)
            /\ needs' = Drop(needs, {x}) /\ UNCHANGED <<suppressed, out>>
        BY <3>9 DEF FlushSend
      <4>2. Plane(needs)
        BY <1>1 DEF TypedBooks
      <4>3. x \in DOMAIN needs
        BY <4>1, <4>2, FirstFrom DEF Plane
      <4>4. x \in Sub
        BY <4>2, <4>3 DEF Plane
      <4> HIDE DEF x
      <4>5. /\ AsParked(e) = needs[x] /\ e.rescan /\ e.rescan \in BOOLEAN
            /\ e.keys \subseteq Seq(Component) /\ e.keys # {} /\ e.epoch \in Nat
        BY <4>2, <4>3, OfferedTyped
      <4> HIDE DEF e
      <4>6. owed' = IF e.rescan THEN [owed EXCEPT ![x] = {o \in owed[x] : ~Covers(AsParked(e), o)}] ELSE owed
        BY <1>1, <4>1, <4>4, <4>5, SendTyped
      <4>7. owed' = [owed EXCEPT ![x] = {o \in owed[x] : ~Covers(needs[x], o)}]
        BY <4>5, <4>6
      <4>8. \A o \in owed'[s] : o \in owed[s]
        BY <1>1, <4>7 DEF TypedBooks
      <4>9. s \in DOMAIN needs => Handed(s, needs[s])
        <5>1. CASE s = x
          <6>1. \A o \in owed'[s] : ~Covers(needs[s], o)
            BY <1>1, <4>7, <5>1 DEF TypedBooks
          <6> QED BY <6>1 DEF Handed
        <5>2. CASE s # x
          <6>1. s \in DOMAIN needs => s \in DOMAIN needs' /\ needs'[s] = needs[s]
            BY <4>1, <5>2 DEF Drop
          <6> QED BY <1>6, <6>1
        <5> QED BY <5>1, <5>2
      <4>10. s \in DOMAIN suppressed => Handed(s, suppressed[s])
        BY <1>7, <4>1
      <4>11. \A i \in DOMAIN out[s] : out[s][i].rescan => Handed(s, AsParked(out[s][i]))
        <5>1. out' = out
          BY <4>1
        <5> QED BY <1>8, <5>1
      <4> QED BY <1>1, <1>13, <4>8, <4>9, <4>10, <4>11, CoveredKept
    <3>10. CASE DrainOwed
      <4>1. /\ UNCHANGED <<needs, suppressed>> /\ phase = "drain" /\ phase' = phase /\ DOMAIN out[s] = {}
            /\ owed' = [x \in Sub |-> IF in_debt(x) THEN owed[x] \cup Dropped(x) ELSE owed[x]]
        BY <1>2, <3>10 DEF DrainOwed, planes
      <4>2. held[s] = <<>>
        BY <1>13, <4>1, HeldMinted
      <4>3. Dropped(s) = {}
        BY <4>2 DEF Dropped, Range
      <4>4. \A o \in owed'[s] : o \in owed[s]
        BY <4>1, <4>3
      <4> QED BY <1>9, <1>13, <4>1, <4>4
    <3> QED BY <2>2, <3>1, <3>2, <3>3, <3>4, <3>5, <3>6, <3>7, <3>8, <3>9, <3>10 DEF Owner
  <2>3. CASE Recv \/ UNCHANGED vars
    <3>1. UNCHANGED <<needs, suppressed, out, owed>>
      BY <2>3 DEF Recv, vars, planes
    <3> QED BY <1>3, <1>13, <3>1
  <2> QED BY <2>1, <2>2, <2>3 DEF Next
<1>14. /\ settling \subseteq settling'
       /\ phase' = "run" => phase = "run"
       /\ phase \in {"ended", "closed"} =>
             /\ phase' = phase /\ UNCHANGED <<owed, settling>>
             /\ phase = "ended" => owned' \subseteq owned
       /\ phase' = "ended" => phase = "ended" \/ DrainLast
       /\ phase' = "closed" => phase = "closed" \/ Close
  BY PhaseStep
<1>15. ASSUME NEW s \in Sub, phase' # "ended", ~Drops(s)'
       PROVE  CoveredAt(s)'
  <2>1. s \notin settling' \/ phase' = "run"
    BY <1>15 DEF Drops
  <2>2. phase # "ended" /\ (s \notin settling \/ phase = "run") /\ (s \notin settling \/ phase' = "run")
    BY <1>14, <1>15, <2>1
  <2>3. CoveredAt(s)
    BY <2>2 DEF OwedIsCovered, CoveredAt, Drops
  <2> QED BY <1>13, <2>2, <2>3
<1>16. ASSUME NEW s \in Sub, phase' = "closed" PROVE owed'[s] = {}
  <2>1. CASE phase = "closed"
    BY <1>14, <2>1 DEF OwedIsCovered
  <2>2. CASE Close
    BY <2>2 DEF Close
  <2> QED BY <1>14, <1>16, <2>1, <2>2
<1>17. ASSUME NEW s \in Sub, phase' = "ended", s \in owned' \ settling' PROVE owed'[s] = {}
  <2>1. CASE phase = "ended"
    BY <1>14, <1>17, <2>1 DEF OwedIsCovered
  <2>2. CASE DrainLast /\ phase # "ended"
    <3>1. /\ phase = "drain" /\ pc = "last" /\ DOMAIN needs = {} /\ s \in owned \ settling /\ owed' = owed
      BY <1>17, <2>2 DEF DrainLast, claims, minted
    <3>2. then = "last" /\ \A x \in Sub : grant[x] # "claim"
      BY <3>1 DEF ControlSound, ClaimsSound
    <3>3. s \notin DOMAIN suppressed
      BY <3>1, <3>2 DEF ClaimsSound, OfferedIsOwned
    <3>4. Pending(s) = {}
      <4>1. DOMAIN out[s] = {}
        BY <1>2, <3>1
      <4> QED BY <3>1, <3>3, <4>1 DEF Pending, Range
    <3>5. \A o \in owed[s] : \E r \in Pending(s) : Covers(r, o)
      BY <3>1 DEF OwedIsCovered, Drops
    <3> QED BY <3>1, <3>4, <3>5
  <2> QED BY <1>14, <1>17, <2>1, <2>2
<1> QED BY <1>15, <1>16, <1>17 DEF OwedIsCovered, CoveredAt

-----------------------------------------------------------------------------
(* The theorems.                                                           *)

LEMMA InitIInv == Init => IInv
<1> SUFFICES ASSUME Init PROVE IInv
  OBVIOUS
<1>1. /\ live = {} /\ root = <<>> /\ used = {} /\ settling = {} /\ raw = 0
      /\ base = [s \in Sub |-> 0] /\ hw = [s \in Sub |-> 0]
      /\ retired = {} /\ held = Nothing /\ out = Nothing /\ chan = <<>>
      /\ needs = [s \in {} |-> s] /\ suppressed = [s \in {} |-> s]
      /\ unclaimed = {} /\ grant = [s \in Sub |-> "none"] /\ owned = {} /\ cut = FALSE
      /\ cursor = 0 /\ phase = "run" /\ pc = "idle" /\ then = "idle" /\ events = 0
      /\ owed = [s \in Sub |-> {}] /\ peak = [s \in Sub |-> 0]
      /\ last = [s \in Sub |-> [key |-> <<>>, epoch |-> 0]]
  BY DEF Init
<1>2. \A s \in Sub : /\ held[s] = <<>> /\ out[s] = <<>>
                     /\ DOMAIN held[s] = {} /\ DOMAIN out[s] = {} /\ Len(held[s]) = 0
  BY <1>1 DEF Nothing
<1>3. DOMAIN needs = {} /\ DOMAIN suppressed = {}
  BY <1>1
<1>4. TypedBooks
  <2>1. Plane(needs) /\ Plane(suppressed)
    BY <1>1 DEF Plane
  <2>2. held \in [Sub -> Seq(Delta)] /\ out \in [Sub -> Seq(Emission)]
    <3>1. <<>> \in Seq(Delta) /\ <<>> \in Seq(Emission)
      OBVIOUS
    <3> QED BY <1>1, <3>1 DEF Nothing
  <2>3. \A s \in Sub : Len(held[s]) <= MaxHeld
    BY <1>2, BoundAssumption
  <2>4. last \in [Sub -> Parked]
    <3>1. [key |-> <<>>, epoch |-> 0] \in Parked
      BY DEF Parked
    <3> QED BY <1>1, <3>1
  <2>5. chan \in Seq([sub : Sub, rescan : BOOLEAN, keys : SUBSET Seq(Component), epoch : Nat])
        /\ Len(chan) <= Capacity
    BY <1>1, BoundAssumption
  <2>6. /\ base \in [Sub -> Nat] /\ hw \in [Sub -> Nat] /\ peak \in [Sub -> Nat]
        /\ owed \in [Sub -> SUBSET [keys : SUBSET Key, need : Nat]]
    BY <1>1
  <2> QED BY <2>1, <2>2, <2>3, <2>4, <2>5, <2>6 DEF TypedBooks
<1>5. TypedRest
  <2>1. cut \in BOOLEAN
    BY <1>1, Zenon
  <2> QED BY <1>1, <2>1, BoundAssumption DEF TypedRest
<1>6. ClaimsSound
  BY <1>1, <1>3 DEF ClaimsSound, OfferedIsOwned
<1>7. ControlSound
  BY <1>1 DEF ControlSound
<1>8. EntriesMinted
  BY <1>2 DEF EntriesMinted
<1>9. RescansDominate
  <2>1. \A s \in Sub : peak[s] = 0 /\ last[s].epoch = 0 /\ s \notin live
    BY <1>1
  <2>2. PlanesAbove
    BY <1>3, <2>1 DEF PlanesAbove
  <2>3. OutAbove
    BY <1>2 DEF OutAbove
  <2>4. FlushApart
    BY <1>1 DEF FlushApart
  <2> QED BY <2>2, <2>3, <2>4, DominateSplit
<1>10. OwedIsCovered
  BY <1>1 DEF OwedIsCovered
<1> QED BY <1>4, <1>5, <1>6, <1>7, <1>8, <1>9, <1>10, TypesSplit DEF IInv

LEMMA NextIInv ==
    ASSUME IInv, [Next]_vars
    PROVE  IInv'
<1>1. /\ TypeOK /\ RestTyped /\ ClaimsSound /\ ControlSound /\ EntriesMinted /\ RescansDominate
      /\ OwedIsCovered /\ TypedBooks /\ TypedRest
  BY TypesSplit DEF IInv
<1>2. TypedBooks' /\ TypedRest'
  BY <1>1, BooksStep, RestStep DEF TypedBooks, Plane
<1>3. (TypedBooks /\ TypedRest)' <=> (TypeOK /\ RestTyped)'
  BY TypesSplit, PTL
<1>4. ClaimsSound' /\ ControlSound' /\ EntriesMinted'
  BY <1>1, ClaimsStep, ControlStep, EntriesStep
<1>5. RescansDominate'
  BY <1>1, DominateStep
<1>6. OwedIsCovered'
  BY <1>1, CoveredStep
<1> QED BY <1>2, <1>3, <1>4, <1>5, <1>6 DEF IInv

\* The books of the owner task are sound in every reachable state: the types
\* of its state, where a parked Rescan may lie, what is minted, what dominates
\* what, and that what is withheld is covered.
THEOREM DeliveryInvariant == Spec => []IInv
<1>1. IInv /\ [Next]_vars => IInv'
  BY NextIInv
<1> QED BY InitIInv, <1>1, PTL DEF Spec

\* No silent loss (`widen_parked_debt`, `park_rescan`, `repoint`,
\* `rescan_live_root`): whatever was shed, suppressed, dropped with a buffer
\* or lost in a gap stays covered by a Rescan on its way until it is told.
THEOREM SilentLossTheorem == Spec => []NoSilentLoss
<1>1. IInv => NoSilentLoss
  <2> SUFFICES ASSUME IInv PROVE NoSilentLoss
    OBVIOUS
  <2> SUFFICES ASSUME NEW s \in Sub, ~Drops(s), NEW o \in owed[s]
      PROVE  \/ phase = "ended" /\ s \notin owned
             \/ phase # "ended" /\ \E r \in Pending(s) : Covers(r, o)
    BY DEF NoSilentLoss
  <2>1. CASE phase # "ended"
    BY <2>1 DEF IInv, OwedIsCovered
  <2>2. CASE phase = "ended"
    <3>1. s \notin settling
      BY <2>2 DEF Drops
    <3>2. s \in owned => owed[s] = {}
      BY <2>2, <3>1 DEF IInv, OwedIsCovered
    <3> QED BY <2>2, <3>2
  <2> QED BY <2>1, <2>2
<1> QED BY <1>1, DeliveryInvariant, PTL

\* The two parked maps (`ParkedRescans`) split by claim state, and the channel
\* and the buffers keep to their capacity.
THEOREM PlanesTheorem == Spec => []PlanesSound
<1>1. IInv => PlanesSound
  BY DEF IInv, PlanesSound, ClaimsSound
<1> QED BY <1>1, DeliveryInvariant, PTL

\* What a step puts on the channel follows what its subscription was sent.
LEMMA FollowsStep ==
    ASSUME IInv, [Next]_vars, Len(chan') > Len(chan)
    PROVE  Follows(chan'[Len(chan')])
<1>1. /\ TypeOK /\ RestTyped /\ ClaimsSound /\ ControlSound /\ EntriesMinted /\ RescansDominate
      /\ TypedBooks
  BY TypesSplit DEF IInv
<1>2. ASSUME UNCHANGED chan PROVE FALSE
  <2>1. Len(chan) \in Nat
    BY <1>1 DEF TypedBooks
  <2> QED BY <1>2, <2>1
<1>3. ASSUME NEW s \in Sub, EmitSend(s) PROVE Follows(chan'[Len(chan')])
  <2> DEFINE e == Head(out[s])
             m == chan'[Len(chan')]
  <2>1. Emitting(s) /\ send(s, e)
    BY <1>3 DEF EmitSend
  <2>2. e \in Emission /\ 1 \in DOMAIN out[s] /\ e = out[s][1]
    BY <1>1, <2>1, Popped
  <2>3. e.rescan \in BOOLEAN /\ e.keys \subseteq Seq(Component) /\ e.keys # {} /\ e.epoch \in Nat
    BY <2>2, KeyAssumption DEF Emission
  <2>4. e.rescan => e.epoch > peak[s]
    BY <1>1, <2>2 DEF RescansDominate
  <2>5. s \notin settling => last[s].epoch <= e.epoch
    BY <1>1, <2>2 DEF RescansDominate
  <2>6. last[s].epoch \in Nat
    BY <1>1 DEF TypedBooks, Parked
  <2> HIDE DEF e
  <2>7. m = [sub |-> s, rescan |-> e.rescan, keys |-> e.keys, epoch |-> e.epoch]
    BY ZenonT(30), <1>1, <2>1, <2>3, SendTyped
  <2> HIDE DEF m
  <2>8. Follows(m)
    BY <2>3, <2>4, <2>5, <2>6, <2>7 DEF Follows
  <2> QED BY <2>8 DEF m
<1>4. ASSUME FlushSend PROVE Follows(chan'[Len(chan')])
  <2> DEFINE s == first_from
             e == Offered(s)
             m == chan'[Len(chan')]
  <2>1. DOMAIN needs # {} /\ send(s, e)
    BY <1>4 DEF FlushSend
  <2>2. Plane(needs)
    BY <1>1 DEF TypedBooks
  <2>3. s \in DOMAIN needs
    BY <2>1, <2>2, FirstFrom DEF Plane
  <2>4. s \in Sub
    BY <2>2, <2>3 DEF Plane
  <2> HIDE DEF s
  <2>5. /\ e.rescan /\ e.rescan \in BOOLEAN /\ e.keys \subseteq Seq(Component) /\ e.keys # {}
        /\ e.epoch \in Nat /\ e.epoch = needs[s].epoch
    BY <2>2, <2>3, OfferedTyped
  <2> HIDE DEF e
  <2>6. m = [sub |-> s, rescan |-> e.rescan, keys |-> e.keys, epoch |-> e.epoch]
    BY <1>1, <2>1, <2>4, <2>5, SendTyped
  <2>7. e.epoch > peak[s]
    BY <1>1, <2>3, <2>4, <2>5 DEF RescansDominate
  <2> HIDE DEF m
  <2>8. Follows(m)
    BY <2>5, <2>6, <2>7 DEF Follows
  <2> QED BY <2>8 DEF m
<1>5. ASSUME Environment PROVE FALSE
  <2>1. ASSUME NEW s \in Sub, NEW taken \in BOOLEAN, Watch(s, taken) \/ Widen(s, taken) PROVE UNCHANGED chan
    BY <2>1 DEF Watch, Widen, sent
  <2>2. ASSUME NEW s \in Sub, CallerClaims(s) \/ CallerDrops(s) \/ Unwatch(s) PROVE UNCHANGED chan
    BY <2>2 DEF CallerClaims, CallerDrops, Unwatch, sent
  <2>3. ASSUME NEW due, NEW ks, NEW a, NEW p, NEW c, Observe(ks, a, p, c, due) PROVE UNCHANGED chan
    BY <2>3 DEF Observe, sent
  <2>4. ASSUME NEW due, NEW k, SourceRescan(k, due) PROVE UNCHANGED chan
    BY <2>4 DEF SourceRescan, sent
  <2>5. CASE Restore \/ Rollback \/ Retire \/ SourceEnds \/ Close
    BY <2>5 DEF Restore, Rollback, Retire, SourceEnds, Close, sent
  <2>6. UNCHANGED chan
    BY <1>5, <2>1, <2>2, <2>3, <2>4, <2>5 DEF Environment
  <2> QED BY <1>2, <2>6
<1>6. ASSUME Owner, ~FlushSend, \A s \in Sub : ~EmitSend(s) PROVE FALSE
  <2>1. UNCHANGED chan
    BY <1>6 DEF Owner, ApplyClaim, ApplyOrphan, EmitMerge, EmitSuppress, EmitShed, DrainDue, EmitDone,
                Flush, FlushEnd, DrainOwed, DrainTest, Cut, DrainLast, sent
  <2> QED BY <1>2, <2>1
<1>7. ASSUME Recv PROVE FALSE
  <2>1. chan # <<>> /\ chan' = Tail(chan)
    BY <1>7 DEF Recv
  <2> DEFINE M == [sub : Sub, rescan : BOOLEAN, keys : SUBSET Seq(Component), epoch : Nat]
  <2>2. chan \in Seq(M)
    BY <1>1 DEF TypedBooks
  <2> HIDE DEF M
  <2>3. Len(chan') = Len(chan) - 1 /\ Len(chan) \in Nat
    BY <2>1, <2>2
  <2> QED BY <2>3
<1>8. ASSUME UNCHANGED vars PROVE FALSE
  BY <1>2, <1>8 DEF vars, sent
<1> QED BY <1>3, <1>4, <1>5, <1>6, <1>7, <1>8 DEF Next

\* A delivered Rescan exceeds every epoch its subscription was sent
\* (`stamp_rescan`, `shed_rescan`), and an undebounced delta that follows it is no
\* older (`stamp`), so that a consumer's high-water never discards it.
THEOREM EpochsTheorem == Spec => EpochsOrdered
<1>1. IInv /\ [Next]_vars => [Len(chan') > Len(chan) => Follows(chan'[Len(chan')])]_vars
  BY FollowsStep
<1> QED BY <1>1, DeliveryInvariant, PTL DEF Spec, EpochsOrdered

=============================================================================

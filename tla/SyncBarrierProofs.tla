-------------------------- MODULE SyncBarrierProofs --------------------------
(***************************************************************************)
(* Machine-checked proofs about the sync barrier, for every set of calls   *)
(* and subscriptions and every bound on pending calls and queued events.   *)
(***************************************************************************)
EXTENDS SyncBarrier, ListProofs, TLAPS

-----------------------------------------------------------------------------
(* The stream of the source.                                               *)

\* What an item is, its kind says; it is nothing else.
LEMMA ItemKinds ==
    ASSUME NEW x \in Item
    PROVE  /\ \A i, c : ~(IsChange(x, i) /\ IsMarker(x, c))
           /\ \A i, s : ~(IsChange(x, i) /\ IsRescan(x, s))
           /\ \A c, s : ~(IsMarker(x, c) /\ IsRescan(x, s))
           /\ x.kind \in {"change", "cookie", "rescan"}
           /\ x.kind = "change" => x.id \in Nat
           /\ x.kind = "cookie" => x.id \in Call
           /\ x.kind = "rescan" => x.of \subseteq Sub
BY DEF Item, IsChange, IsMarker, IsRescan

\* What the stream has once x is behind it.
Put(q, x) ==
    /\ \A i : HasChange(Append(q, x), i) <=> HasChange(q, i) \/ IsChange(x, i)
    /\ \A c : HasMarker(Append(q, x), c) <=> HasMarker(q, c) \/ IsMarker(x, c)
    /\ \A s : HasRescan(Append(q, x), s) <=> HasRescan(q, s) \/ IsRescan(x, s)
    /\ \A i, c : ChangeAhead(q, i, c) /\ ~(IsChange(x, i) /\ HasMarker(q, c))
                    => ChangeAhead(Append(q, x), i, c)
    /\ \A s, c : RescanAhead(q, s, c) => RescanAhead(Append(q, x), s, c)
    /\ \A s, c : IsRescan(x, s) /\ ~HasMarker(q, c) => RescanAhead(Append(q, x), s, c)

LEMMA PutLemma == ASSUME NEW q \in Seq(Item), NEW x \in Item PROVE Append(q, x) \in Seq(Item) /\ Put(q, x)
<1> DEFINE a == Append(q, x)
<1>1. /\ a \in Seq(Item) /\ Len(q) \in Nat
      /\ DOMAIN q = 1 .. Len(q) /\ DOMAIN a = 1 .. Len(q) + 1
      /\ \A n \in 1 .. Len(q) : a[n] = q[n]
      /\ a[Len(q) + 1] = x
  OBVIOUS
<1> HIDE DEF a
<1>2. \A n \in DOMAIN a : (n \in DOMAIN q /\ a[n] = q[n] /\ n < Len(q) + 1) \/ (n = Len(q) + 1 /\ a[n] = x)
  BY <1>1
<1>3. \A n \in DOMAIN q : n \in DOMAIN a /\ a[n] = q[n] /\ n < Len(q) + 1
  BY <1>1
<1>4. Len(q) + 1 \in DOMAIN a /\ a[Len(q) + 1] = x
  BY <1>1
<1>5. /\ \A i : HasChange(a, i) <=> HasChange(q, i) \/ IsChange(x, i)
      /\ \A c : HasMarker(a, c) <=> HasMarker(q, c) \/ IsMarker(x, c)
      /\ \A s : HasRescan(a, s) <=> HasRescan(q, s) \/ IsRescan(x, s)
  BY <1>2, <1>3, <1>4 DEF HasChange, HasMarker, HasRescan
<1>6. ASSUME NEW i, NEW c, ChangeAhead(q, i, c), ~(IsChange(x, i) /\ HasMarker(q, c))
      PROVE  ChangeAhead(a, i, c)
  BY <1>6, <1>2, ItemKinds DEF ChangeAhead, HasMarker
<1>7. ASSUME NEW s, NEW c, RescanAhead(q, s, c) PROVE RescanAhead(a, s, c)
  BY <1>7, <1>2, <1>3 DEF RescanAhead
<1>8. ASSUME NEW s, NEW c, IsRescan(x, s), ~HasMarker(q, c) PROVE RescanAhead(a, s, c)
  BY <1>8, <1>2, <1>4, ItemKinds DEF RescanAhead, HasMarker
<1>9. a \in Seq(Item)
  BY <1>1
<1> QED BY <1>5, <1>6, <1>7, <1>8, <1>9 DEF Put, a

\* What the stream has once its head is taken.
Taken(q) ==
    /\ \A i : HasChange(Tail(q), i) => HasChange(q, i)
    /\ \A i : HasChange(q, i) => HasChange(Tail(q), i) \/ IsChange(Head(q), i)
    /\ \A c : HasMarker(Tail(q), c) => HasMarker(q, c)
    /\ \A c : HasMarker(q, c) => HasMarker(Tail(q), c) \/ IsMarker(Head(q), c)
    /\ \A s : HasRescan(Tail(q), s) => HasRescan(q, s)
    /\ \A s : HasRescan(q, s) => HasRescan(Tail(q), s) \/ IsRescan(Head(q), s)
    /\ \A i, c : ChangeAhead(q, i, c) => ChangeAhead(Tail(q), i, c)
    /\ \A s, c : RescanAhead(q, s, c) => RescanAhead(Tail(q), s, c) \/ IsRescan(Head(q), s)
    /\ \A s, c : IsMarker(Head(q), c) => ~RescanAhead(q, s, c)
    /\ \A i, c : IsMarker(Head(q), c) /\ ChangeAhead(q, i, c) => ~HasChange(q, i)
    /\ \A i : IsChange(Head(q), i) => HasChange(q, i)

LEMMA TakenLemma ==
    ASSUME NEW q \in Seq(Item), q # <<>>
    PROVE  Tail(q) \in Seq(Item) /\ Head(q) \in Item /\ Taken(q)
<1> DEFINE a == Tail(q)
<1>1. /\ a \in Seq(Item) /\ Len(q) \in Nat /\ Head(q) = q[1] /\ 1 \in DOMAIN q /\ Head(q) \in Item
      /\ DOMAIN q = 1 .. Len(q) /\ DOMAIN a = 1 .. Len(q) - 1
      /\ \A n \in DOMAIN a : a[n] = q[n + 1]
  OBVIOUS
<1> HIDE DEF a
<1>2. \A n \in DOMAIN q : n = 1 \/ (n - 1 \in DOMAIN a /\ a[n - 1] = q[n] /\ n \in Nat)
  BY <1>1
<1>3. \A n \in DOMAIN a : n + 1 \in DOMAIN q /\ a[n] = q[n + 1] /\ n \in Nat
  BY <1>1
<1>4. /\ \A i : HasChange(a, i) => HasChange(q, i)
      /\ \A c : HasMarker(a, c) => HasMarker(q, c)
      /\ \A s : HasRescan(a, s) => HasRescan(q, s)
  BY <1>3 DEF HasChange, HasMarker, HasRescan
<1>5. /\ \A i : HasChange(q, i) => HasChange(a, i) \/ IsChange(Head(q), i)
      /\ \A c : HasMarker(q, c) => HasMarker(a, c) \/ IsMarker(Head(q), c)
      /\ \A s : HasRescan(q, s) => HasRescan(a, s) \/ IsRescan(Head(q), s)
      /\ \A i : IsChange(Head(q), i) => HasChange(q, i)
  BY <1>1, <1>2 DEF HasChange, HasMarker, HasRescan
<1>6. ASSUME NEW i, NEW c, ChangeAhead(q, i, c) PROVE ChangeAhead(a, i, c)
  <2>1. ASSUME NEW m \in DOMAIN a, NEW n \in DOMAIN a, IsChange(a[m], i), IsMarker(a[n], c)
        PROVE  m < n
    <3>1. m + 1 < n + 1
      BY <2>1, <1>6, <1>3 DEF ChangeAhead
    <3> QED BY <3>1, <1>3
  <2> QED BY <2>1 DEF ChangeAhead
<1>7. ASSUME NEW s, NEW c, RescanAhead(q, s, c), ~IsRescan(Head(q), s) PROVE RescanAhead(a, s, c)
  <2>1. PICK m \in DOMAIN q : /\ IsRescan(q[m], s)
                              /\ \A n \in DOMAIN q : IsMarker(q[n], c) => m < n
    BY <1>7 DEF RescanAhead
  <2>2. m - 1 \in DOMAIN a /\ IsRescan(a[m - 1], s) /\ m \in Nat
    BY <2>1, <1>7, <1>1, <1>2
  <2>3. \A n \in DOMAIN a : IsMarker(a[n], c) => m - 1 < n
    BY <2>1, <2>2, <1>3
  <2> QED BY <2>2, <2>3 DEF RescanAhead
<1>8. ASSUME NEW s, NEW c, IsMarker(Head(q), c) PROVE ~RescanAhead(q, s, c)
  BY <1>8, <1>1 DEF RescanAhead
<1>9. ASSUME NEW i, NEW c, IsMarker(Head(q), c), ChangeAhead(q, i, c) PROVE ~HasChange(q, i)
  BY <1>9, <1>1 DEF ChangeAhead, HasChange
<1>10. a \in Seq(Item) /\ Head(q) \in Item
  BY <1>1
<1> QED BY <1>4, <1>5, <1>6, <1>7, <1>8, <1>9, <1>10 DEF Taken, a

\* What the stream has once what it says of T is lost.
Lost(q, k, T) ==
    /\ \A i : HasChange(k, i) => HasChange(q, i)
    /\ \A i : HasChange(q, i) /\ at[i] \notin T => HasChange(k, i)
    /\ \A c : HasMarker(k, c) => HasMarker(q, c) /\ call[c].sub \notin T
    /\ \A c : HasMarker(q, c) /\ call[c].sub \notin T => HasMarker(k, c)
    /\ \A s : HasRescan(k, s) <=> HasRescan(q, s)
    /\ \A i, c : ChangeAhead(q, i, c) => ChangeAhead(k, i, c)
    /\ \A s, c : RescanAhead(q, s, c) => RescanAhead(k, s, c)

LEMMA LostLemma ==
    ASSUME NEW q \in Seq(Item), NEW T
    PROVE  LET k == Kept(q, {n \in DOMAIN q : About(q[n]) \cap T = {}})
           IN  k \in Seq(Item) /\ Lost(q, k, T)
<1> DEFINE I == {n \in DOMAIN q : About(q[n]) \cap T = {}}
           k == Kept(q, I)
<1>1. /\ I \in SUBSET DOMAIN q
      /\ \A n \in I : About(q[n]) \cap T = {}
      /\ \A n \in DOMAIN q : About(q[n]) \cap T = {} => n \in I
      /\ \A n \in DOMAIN q : q[n] \in Item /\ n \in Nat
  OBVIOUS
<1> HIDE DEF I
<1>2. /\ k \in Seq(Item) /\ DOMAIN k = 1 .. Len(k) /\ Len(k) \in Nat
      /\ \E f \in [DOMAIN k -> I] :
            /\ \A n \in DOMAIN k : k[n] = q[f[n]]
            /\ \A m, n \in DOMAIN k : m < n => f[m] < f[n]
            /\ \A i \in I : \E n \in DOMAIN k : f[n] = i
  BY <1>1, KeptPlaces
<1> HIDE DEF k
<1>3. PICK f \in [DOMAIN k -> I] :
            /\ \A n \in DOMAIN k : k[n] = q[f[n]]
            /\ \A m, n \in DOMAIN k : m < n => f[m] < f[n]
            /\ \A i \in I : \E n \in DOMAIN k : f[n] = i
  BY <1>2
<1>4. /\ \A n \in DOMAIN k : n \in Nat /\ f[n] \in I /\ f[n] \in DOMAIN q /\ f[n] \in Nat /\ k[n] = q[f[n]]
      /\ \A n \in I : \E m \in DOMAIN k : f[m] = n /\ k[m] = q[n]
  BY <1>1, <1>2, <1>3
<1>5. ASSUME NEW m \in DOMAIN k, NEW n \in DOMAIN k, f[m] < f[n] PROVE m < n
  <2>1. m \in Nat /\ n \in Nat /\ f[m] \in Nat /\ f[n] \in Nat
    BY <1>4
  <2>2. ~(n < m) /\ m # n
    BY <2>1, <1>3, <1>5
  <2> QED BY <2>1, <2>2
<1>6. /\ \A s : \A n \in DOMAIN q : IsRescan(q[n], s) => n \in I
      /\ \A i : \A n \in DOMAIN q : IsChange(q[n], i) /\ at[i] \notin T => n \in I
      /\ \A c : \A n \in DOMAIN q : IsMarker(q[n], c) => (n \in I <=> call[c].sub \notin T)
  BY <1>1 DEF IsRescan, IsChange, IsMarker, About
<1>7. /\ \A i : HasChange(k, i) => HasChange(q, i)
      /\ \A i : HasChange(q, i) /\ at[i] \notin T => HasChange(k, i)
  BY <1>4, <1>6 DEF HasChange
<1>8. /\ \A c : HasMarker(k, c) => HasMarker(q, c) /\ call[c].sub \notin T
      /\ \A c : HasMarker(q, c) /\ call[c].sub \notin T => HasMarker(k, c)
  BY <1>4, <1>6 DEF HasMarker
<1>9. \A s : HasRescan(k, s) <=> HasRescan(q, s)
  BY <1>4, <1>6 DEF HasRescan
<1>10. \A i, c : ChangeAhead(q, i, c) => ChangeAhead(k, i, c)
  BY <1>4, <1>5 DEF ChangeAhead
<1>11. ASSUME NEW s, NEW c, RescanAhead(q, s, c) PROVE RescanAhead(k, s, c)
  <2>1. PICK m \in DOMAIN q : /\ IsRescan(q[m], s)
                              /\ \A n \in DOMAIN q : IsMarker(q[n], c) => m < n
    BY <1>11 DEF RescanAhead
  <2>2. PICK l \in DOMAIN k : f[l] = m /\ k[l] = q[m]
    BY <2>1, <1>4, <1>6
  <2>3. \A n \in DOMAIN k : IsMarker(k[n], c) => l < n
    BY <2>1, <2>2, <1>4, <1>5
  <2> QED BY <2>1, <2>2, <2>3 DEF RescanAhead
<1>12. k \in Seq(Item) /\ Lost(q, k, T)
  BY <1>2, <1>7, <1>8, <1>9, <1>10, <1>11 DEF Lost
<1> QED BY <1>12 DEF k, I

-----------------------------------------------------------------------------
(* Emission.                                                               *)

\* What `try_emit` of B and of a Rescan behind it did for s: all of it went out,
\* or a loss was noted behind a debt.
Emitted(s, B, rescan) ==
    /\ room' \in 0 .. Cap
    /\ needs_rescan \subseteq needs_rescan' /\ needs_rescan' \subseteq Sub \ unclaimed
    /\ suppressed_rescan \subseteq suppressed_rescan' /\ suppressed_rescan' \subseteq unclaimed
    /\ needs_rescan' \cup suppressed_rescan' \subseteq needs_rescan \cup suppressed_rescan \cup {s}
    /\ sent \subseteq sent' /\ covered \subseteq covered'
    /\ buffer' \in [Sub -> SUBSET Change] /\ buffer'[s] \subseteq buffer[s]
    /\ loss_gen' \in Nat /\ loss_gen <= loss_gen'
    /\ loss_serial' \in [Sub -> Nat] /\ loss_serial[s] <= loss_serial'[s]
    /\ \A t \in Sub : t # s => buffer'[t] = buffer[t] /\ loss_serial'[t] = loss_serial[t]
    /\ \/ B \subseteq sent' /\ buffer[s] \ B \subseteq buffer'[s] /\ (rescan => Of(s) \subseteq covered')
       \/ /\ s \in needs_rescan' \cup suppressed_rescan'
          /\ loss_serial[s] < loss_serial'[s] /\ loss_gen < loss_gen'

LEMMA EmittedLemma ==
    ASSUME Typed, NEW s \in Sub, NEW B \in SUBSET Change, NEW rescan \in BOOLEAN, Emits(s, B, rescan)
    PROVE  Emitted(s, B, rescan)
<1>1. IsFiniteSet(Change) /\ Cap \in Nat
  <2>1. Change = 1 .. Len(at) /\ Len(at) \in Nat
    BY DEF Typed, Change
  <2> QED BY <2>1, FS_Interval, SyncAssumption
<1>2. PICK fit \in SUBSET B :
        LET fits == ~in_debt(s) /\ rescan /\ fit = B /\ Cardinality(B) < room
            lost == Cardinality(B \ fit) + IF rescan /\ ~fits THEN 1 ELSE 0
        IN  /\ Cardinality(fit) =
                  IF in_debt(s) THEN 0
                  ELSE IF Cardinality(B) <= room THEN Cardinality(B) ELSE room
            /\ sent' = sent \cup fit
            /\ covered' = covered \cup IF fits THEN Of(s) ELSE {}
            /\ room' = room - Cardinality(fit) - IF fits THEN 1 ELSE 0
            /\ note_losses(s, lost)
            /\ IF lost > 0 /\ ~in_debt(s) THEN park(s)
               ELSE UNCHANGED <<needs_rescan, suppressed_rescan>>
            /\ buffer' = [buffer EXCEPT ![s] = IF fit # B /\ ~in_debt(s) THEN {} ELSE @ \ B]
  BY Zenon DEF Emits
<1> DEFINE fits == ~in_debt(s) /\ rescan /\ fit = B /\ Cardinality(B) < room
           spare == Cardinality(B \ fit)
           lost == spare + IF rescan /\ ~fits THEN 1 ELSE 0
<1>3. /\ Cardinality(B) \in Nat /\ Cardinality(fit) \in Nat /\ spare \in Nat
      /\ spare = 0 => fit = B
  <2>1. B \subseteq Change /\ fit \subseteq Change /\ B \ fit \subseteq Change
    OBVIOUS
  <2>2. IsFiniteSet(B) /\ IsFiniteSet(fit) /\ IsFiniteSet(B \ fit)
    BY <2>1, <1>1, FS_Subset
  <2>3. Cardinality(B) \in Nat /\ Cardinality(fit) \in Nat /\ spare \in Nat
    BY <2>2, FS_CardinalityType
  <2>4. spare = 0 => B \ fit = {}
    BY <2>2, FS_EmptySet
  <2> QED BY <2>3, <2>4
<1>4. lost \in Nat /\ (lost = 0 => fit = B /\ (rescan => fits))
  BY <1>3
<1>5. /\ Cardinality(fit) =
            IF in_debt(s) THEN 0
            ELSE IF Cardinality(B) <= room THEN Cardinality(B) ELSE room
      /\ room' = room - Cardinality(fit) - IF fits THEN 1 ELSE 0
  BY <1>2
<1>6. room' \in 0 .. Cap
  <2>1. room \in 0 .. Cap
    BY DEF Typed
  <2> QED BY <2>1, <1>1, <1>3, <1>5
<1>7. /\ sent' = sent \cup fit
      /\ covered' = covered \cup IF fits THEN Of(s) ELSE {}
      /\ note_losses(s, lost)
      /\ IF lost > 0 /\ ~in_debt(s) THEN park(s)
         ELSE UNCHANGED <<needs_rescan, suppressed_rescan>>
      /\ buffer' = [buffer EXCEPT ![s] = IF fit # B /\ ~in_debt(s) THEN {} ELSE @ \ B]
  BY <1>2
<1> HIDE DEF fits, spare, lost
<1>8. /\ loss_gen' \in Nat /\ loss_gen' = loss_gen + lost
      /\ loss_serial' \in [Sub -> Nat] /\ loss_serial'[s] = loss_serial[s] + lost
      /\ \A t \in Sub : t # s => loss_serial'[t] = loss_serial[t]
  BY <1>4, <1>7 DEF note_losses, Typed
<1>9. /\ buffer' \in [Sub -> SUBSET Change] /\ buffer'[s] \subseteq buffer[s]
      /\ fit = B => buffer[s] \ B \subseteq buffer'[s]
      /\ \A t \in Sub : t # s => buffer'[t] = buffer[t]
  BY <1>7 DEF Typed
<1>10. /\ needs_rescan \subseteq needs_rescan' /\ needs_rescan' \subseteq Sub \ unclaimed
       /\ suppressed_rescan \subseteq suppressed_rescan' /\ suppressed_rescan' \subseteq unclaimed
       /\ needs_rescan' \cup suppressed_rescan' \subseteq needs_rescan \cup suppressed_rescan \cup {s}
       /\ lost > 0 => s \in needs_rescan' \cup suppressed_rescan'
  BY <1>7 DEF Typed, park, in_debt
<1>11. sent \subseteq sent' /\ covered \subseteq covered'
  BY <1>7
<1>12. CASE lost = 0
  <2>1. B \subseteq sent' /\ buffer[s] \ B \subseteq buffer'[s] /\ (rescan => Of(s) \subseteq covered')
    BY <1>12, <1>4, <1>7, <1>9
  <2>2. loss_gen <= loss_gen' /\ loss_serial[s] <= loss_serial'[s]
    BY <1>12, <1>8 DEF Typed
  <2> QED BY <2>1, <2>2, <1>6, <1>8, <1>9, <1>10, <1>11 DEF Emitted
<1>13. CASE lost > 0
  <2>1. loss_gen < loss_gen' /\ loss_serial[s] < loss_serial'[s]
    BY <1>13, <1>4, <1>8 DEF Typed
  <2>2. loss_gen <= loss_gen' /\ loss_serial[s] <= loss_serial'[s]
    BY <2>1, <1>8 DEF Typed
  <2> QED BY <1>13, <2>1, <2>2, <1>6, <1>8, <1>9, <1>10, <1>11 DEF Emitted
<1> QED BY <1>4, <1>12, <1>13

\* What `park_rescan` without an offer did for S.
Parked(S) ==
    /\ room' \in 0 .. Cap /\ sent' = sent /\ covered' = covered
    /\ needs_rescan' \subseteq Sub \ unclaimed /\ suppressed_rescan' \subseteq unclaimed
    /\ needs_rescan' \cup suppressed_rescan' = needs_rescan \cup suppressed_rescan \cup S
    /\ buffer' \in [Sub -> SUBSET Change]
    /\ loss_gen' \in Nat /\ loss_gen <= loss_gen'
    /\ loss_serial' \in [Sub -> Nat]
    /\ \A t \in Sub : loss_serial[t] <= loss_serial'[t]
    /\ \A t \in S : loss_gen < loss_gen'
    /\ \A t \in Sub : t \notin S => buffer'[t] = buffer[t]

LEMMA ParkedLemma ==
    ASSUME Typed, NEW S \in SUBSET Sub, parks(S)
    PROVE  Parked(S)
<1>1. IsFiniteSet(S) /\ Cardinality(S) \in Nat /\ (Cardinality(S) = 0 => S = {})
  <2>1. IsFiniteSet(S)
    BY SyncAssumption, FS_Subset
  <2> QED BY <2>1, FS_CardinalityType, FS_EmptySet
<1>2. loss_gen \in Nat /\ loss_gen' = loss_gen + Cardinality(S)
  BY DEF parks, Typed
<1>3. /\ loss_gen' \in Nat /\ loss_gen <= loss_gen' /\ \A t \in S : loss_gen < loss_gen'
  BY <1>1, <1>2
<1>4. /\ loss_serial' \in [Sub -> Nat] /\ \A t \in Sub : loss_serial[t] <= loss_serial'[t]
  BY DEF parks, Typed
<1>5. /\ needs_rescan' \subseteq Sub \ unclaimed /\ suppressed_rescan' \subseteq unclaimed
      /\ needs_rescan' \cup suppressed_rescan' = needs_rescan \cup suppressed_rescan \cup S
  BY DEF parks, Typed
<1>6. /\ buffer' \in [Sub -> SUBSET Change] /\ \A t \in Sub : t \notin S => buffer'[t] = buffer[t]
  BY DEF parks, Typed
<1>7. room' \in 0 .. Cap /\ sent' = sent /\ covered' = covered
  BY DEF parks, Typed
<1> QED BY <1>3, <1>4, <1>5, <1>6, <1>7 DEF Parked

-----------------------------------------------------------------------------
(* Facts the invariant gives in every state.                               *)

LEMMA InitIInv == Init => IInv
<1> SUFFICES ASSUME Init PROVE IInv
  OBVIOUS
<1>1. \A i, s, c : /\ ~HasChange(queue, i) /\ ~HasMarker(queue, c) /\ ~HasRescan(queue, s)
                   /\ ChangeAhead(queue, i, c)
  BY DEF Init, HasChange, HasMarker, HasRescan, ChangeAhead
<1>2. Change = {} /\ \A c \in Call : call[c].before = {} /\ status[c] = "idle"
  BY DEF Init, Change
<1>3. TypeOK
  BY SyncAssumption, FS_EmptySet DEF Init, TypeOK, Loop, None
<1>4. at \in Seq(Sub) /\ queue \in Seq(Item) /\ DOMAIN queue = {}
  BY DEF Init
<1>5. Typed
  BY <1>4, SyncAssumption DEF Init, Typed, Loop, None
<1>6. InHand /\ CallsKept /\ NoMarkerLeft /\ BegunIsAwaited
  BY <1>1, <1>2, FS_EmptySet DEF Init, InHand, CallsKept, NoMarkerLeft, BegunIsAwaited
<1>7. Accounted /\ Ahead /\ WindowSound /\ FannedOut /\ AnswerStands /\ DeliveredIsEmitted
      /\ PendingIsAwaited
  BY <1>1, <1>2 DEF Init, Accounted, Ahead, WindowSound, FannedOut, AnswerStands,
     DeliveredIsEmitted, PendingIsAwaited, Answered
<1> QED BY <1>3, <1>5, <1>6, <1>7 DEF IInv

\* The changes made are the first ones.
LEMMA ChangesMade == ASSUME Typed PROVE Change = 1 .. Len(at) /\ Len(at) \in Nat /\ \A i \in Change : at[i] \in Sub
BY DEF Typed, Change

\* A change on the stream is a change made, a marker one of a call.
LEMMA QueueKnown ==
    ASSUME Typed
    PROVE  /\ \A i : HasChange(queue, i) => i \in Change
           /\ \A c : HasMarker(queue, c) => c \in Call
           /\ \A s : HasRescan(queue, s) => s \in Sub
           /\ queue # <<>> => Head(queue) \in Item
           /\ queue # <<>> /\ Head(queue).kind = "change" => Head(queue).id \in Change
<1>1. queue \in Seq(Item) /\ \A n \in DOMAIN queue : queue[n] \in Item
  BY DEF Typed
<1>2. /\ \A i : HasChange(queue, i) => i \in Change
      /\ \A c : HasMarker(queue, c) => c \in Call
      /\ \A s : HasRescan(queue, s) => s \in Sub
  BY <1>1, ItemKinds DEF Typed, HasChange, HasMarker, HasRescan, IsChange, IsMarker, IsRescan
<1>3. queue # <<>> => Head(queue) \in Item /\ 1 \in DOMAIN queue /\ Head(queue) = queue[1]
  BY <1>1
<1> QED BY <1>2, <1>3 DEF Typed

-----------------------------------------------------------------------------
(* The world.                                                              *)

LEMMA HappensIInv == ASSUME IInv, NEW s \in Sub, Happens(s) PROVE IInv'
<1> DEFINE x == [kind |-> "change", id |-> Len(at) + 1]
<1>1. /\ at' \in Seq(Sub) /\ Change' = Change \cup {Len(at) + 1} /\ Len(at) + 1 \in Nat
      /\ \A i \in Change : at'[i] = at[i]
      /\ Len(at) + 1 \notin Change
  BY ChangesMade DEF IInv, Happens, Typed, Change
<1>2. /\ x \in Item /\ \A i : IsChange(x, i) <=> i = Len(at) + 1
      /\ (\A c : ~IsMarker(x, c)) /\ (\A t : ~IsRescan(x, t))
  <2>1. x \in [kind : {"change"}, id : Nat] /\ x.kind = "change" /\ x.id = Len(at) + 1
    BY <1>1
  <2>2. x \in Item
    BY <2>1 DEF Item
  <2> QED BY <2>1, <2>2 DEF IsChange, IsMarker, IsRescan
<1>3. queue' = Append(queue, x) /\ queue' \in Seq(Item) /\ Put(queue, x)
  BY <1>2, PutLemma DEF Happens, IInv, Typed
<1> HIDE DEF x
<1>4. /\ \A i : HasChange(queue', i) <=> HasChange(queue, i) \/ i = Len(at) + 1
      /\ \A c : HasMarker(queue', c) <=> HasMarker(queue, c)
      /\ \A t : HasRescan(queue', t) <=> HasRescan(queue, t)
      /\ \A i, c : i # Len(at) + 1 /\ ChangeAhead(queue, i, c) => ChangeAhead(queue', i, c)
      /\ \A t, c : RescanAhead(queue, t, c) => RescanAhead(queue', t, c)
  BY <1>2, <1>3 DEF Put
<1>5. Typed' /\ TypeOK'
  BY <1>1, <1>3, <1>4 DEF IInv, Typed, TypeOK, Happens, evars, cvars, ovars
<1>6. InHand' /\ CallsKept' /\ NoMarkerLeft' /\ BegunIsAwaited' /\ PendingIsAwaited'
  BY <1>1, <1>4 DEF IInv, InHand, CallsKept, NoMarkerLeft, BegunIsAwaited, PendingIsAwaited,
     Happens, evars, cvars, ovars, Of
<1>7. \A t : Owed(t) => Owed(t)'
  BY <1>4 DEF Owed, Happens, evars, cvars, ovars, in_debt
<1>8. Accounted' /\ AnswerStands' /\ DeliveredIsEmitted'
  BY <1>1, <1>4, <1>7 DEF IInv, Accounted, AnswerStands, DeliveredIsEmitted, Answered, Happens,
     evars, cvars, ovars
<1>9. Ahead' /\ FannedOut'
  <2>1. \A c \in Call : call[c].before \subseteq Change
    BY DEF IInv, Typed
  <2> QED BY <2>1, <1>1, <1>4 DEF IInv, Ahead, FannedOut, Happens, evars, cvars, ovars, in_debt
<1>10. \A c : Noted(c) => Noted(c)'
  BY <1>4 DEF Noted, LossNoted, Happens, evars, cvars, ovars, in_debt
<1>11. WindowSound'
  BY <1>4, <1>10 DEF IInv, WindowSound, Happens, evars, cvars, ovars
<1> QED BY <1>5, <1>6, <1>8, <1>9, <1>11 DEF IInv

LEMMA SourceLosesIInv == ASSUME IInv, NEW T \in SUBSET Sub, SourceLoses(T) PROVE IInv'
<1> DEFINE x == [kind |-> "rescan", of |-> T]
           k == Kept(queue, {n \in DOMAIN queue : About(queue[n]) \cap T = {}})
<1>1. /\ x \in Item /\ \A t : IsRescan(x, t) <=> t \in T
      /\ (\A c : ~IsMarker(x, c)) /\ (\A i : ~IsChange(x, i))
  <2>1. x \in [kind : {"rescan"}, of : SUBSET Sub] /\ x.kind = "rescan" /\ x.of = T
    OBVIOUS
  <2>2. x \in Item
    BY <2>1 DEF Item
  <2> QED BY <2>1, <2>2 DEF IsChange, IsMarker, IsRescan
<1>2. k \in Seq(Item) /\ Lost(queue, k, T)
  BY LostLemma DEF IInv, Typed
<1>3. queue' = Append(k, x)
  BY DEF SourceLoses
<1> HIDE DEF k, x
<1>4. queue' \in Seq(Item) /\ Put(k, x)
  BY <1>1, <1>2, <1>3, PutLemma
<1>5. /\ \A i : HasChange(queue', i) => HasChange(queue, i)
      /\ \A i : HasChange(queue, i) => HasChange(queue', i) \/ at[i] \in T
      /\ \A c : HasMarker(queue', c) => HasMarker(queue, c)
      /\ \A c : HasMarker(queue, c) => HasMarker(queue', c) \/ call[c].sub \in T
      /\ \A t : HasRescan(queue', t) <=> HasRescan(queue, t) \/ t \in T
      /\ \A i, c : ChangeAhead(queue, i, c) => ChangeAhead(queue', i, c)
      /\ \A t, c : RescanAhead(queue, t, c) => RescanAhead(queue', t, c)
      /\ \A c : call[c].sub \in T => RescanAhead(queue', call[c].sub, c)
  BY <1>1, <1>2, <1>3, <1>4 DEF Put, Lost
<1>6. Typed' /\ TypeOK'
  <2>1. raises' \in Nat
    BY DEF IInv, Typed, SourceLoses
  <2>2. \A n \in DOMAIN queue' : queue'[n].kind = "change" => queue'[n].id \in Change
    <3>1. \A n \in DOMAIN queue' : queue'[n].kind = "change" => HasChange(queue', queue'[n].id)
      BY DEF HasChange, IsChange
    <3> QED BY <3>1, <1>5, QueueKnown DEF IInv
  <2> QED BY <2>1, <2>2, <1>4 DEF IInv, Typed, TypeOK, SourceLoses, evars, cvars, ovars, Change
<1>7. InHand' /\ CallsKept' /\ NoMarkerLeft' /\ BegunIsAwaited' /\ PendingIsAwaited'
  BY <1>5 DEF IInv, InHand, CallsKept, NoMarkerLeft, BegunIsAwaited, PendingIsAwaited,
     SourceLoses, evars, cvars, ovars, Of, Change
<1>8. \A t : Owed(t) => Owed(t)'
  BY <1>5 DEF Owed, SourceLoses, evars, cvars, ovars, in_debt
<1>9. \A t \in T : Owed(t)'
  BY <1>5 DEF Owed
<1>10. Accounted' /\ AnswerStands' /\ DeliveredIsEmitted'
  BY <1>5, <1>8, <1>9 DEF IInv, Accounted, AnswerStands, DeliveredIsEmitted, Answered, SourceLoses,
     evars, cvars, ovars, Change
<1>11. Ahead' /\ FannedOut'
  BY <1>5 DEF IInv, Ahead, FannedOut, SourceLoses, evars, cvars, ovars, in_debt
<1>12. \A c : Noted(c) => Noted(c)'
  BY <1>5 DEF Noted, LossNoted, SourceLoses, evars, cvars, ovars, in_debt
<1>13. \A c : call[c].sub \in T => Noted(c)'
  BY <1>5 DEF Noted, LossNoted, SourceLoses, cvars
<1>14. WindowSound'
  <2>1. \A c \in Call : status[c] \in Waiting => \A i \in call[c].before : at[i] = call[c].sub
    BY DEF IInv, CallsKept, Of, Waiting
  <2> QED BY <2>1, <1>5, <1>12, <1>13 DEF IInv, WindowSound, SourceLoses, evars, cvars, ovars
<1> QED BY <1>6, <1>7, <1>10, <1>11, <1>14 DEF IInv

LEMMA RecvIInv == ASSUME IInv, Recv PROVE IInv'
<1>1. room' \in 0 .. Cap
  BY SyncAssumption DEF IInv, Typed, Recv
<1>2. Typed' /\ TypeOK' /\ InHand' /\ CallsKept' /\ NoMarkerLeft' /\ BegunIsAwaited' /\ PendingIsAwaited'
  BY <1>1 DEF IInv, Typed, TypeOK, InHand, CallsKept, NoMarkerLeft, BegunIsAwaited, PendingIsAwaited,
     Recv, wvars, cvars, ovars, Of, Change
<1>3. Accounted' /\ AnswerStands' /\ DeliveredIsEmitted' /\ Ahead' /\ WindowSound' /\ FannedOut'
  BY DEF IInv, Accounted, AnswerStands, DeliveredIsEmitted, Answered, Ahead, WindowSound, Noted, LossNoted,
     FannedOut, Owed, in_debt, Recv, wvars, cvars, ovars, Change
<1> QED BY <1>2, <1>3 DEF IInv

LEMMA ClaimIInv == ASSUME IInv, NEW s \in Sub, Claim(s) PROVE IInv'
<1>1. Typed' /\ TypeOK' /\ InHand' /\ CallsKept' /\ NoMarkerLeft' /\ BegunIsAwaited' /\ PendingIsAwaited'
  BY DEF IInv, Typed, TypeOK, InHand, CallsKept, NoMarkerLeft, BegunIsAwaited, PendingIsAwaited,
     Claim, evars, cvars, ovars, Of, Change
<1>2. Accounted' /\ AnswerStands' /\ DeliveredIsEmitted' /\ Ahead' /\ WindowSound' /\ FannedOut'
  BY DEF IInv, Accounted, AnswerStands, DeliveredIsEmitted, Answered, Ahead, WindowSound, Noted, LossNoted,
     FannedOut, Owed, in_debt, Claim, evars, cvars, ovars, Change
<1> QED BY <1>1, <1>2 DEF IInv

\* A call with no marker on the stream has everything ahead of it.
LEMMA NoMarker ==
    ASSUME NEW c, ~HasMarker(queue, c)
    PROVE  /\ \A i : ChangeAhead(queue, i, c)
           /\ \A s : HasRescan(queue, s) => RescanAhead(queue, s, c)
BY DEF HasMarker, ChangeAhead, HasRescan, RescanAhead

LEMMA CallsIInv == ASSUME IInv, NEW c \in Call, NEW s \in Sub, Calls(c, s) PROVE IInv'
<1>1. /\ status[c] = "idle" /\ c \notin pending_syncs /\ ~HasMarker(queue, c)
      /\ ~(pc = "write" /\ c = cur) /\ pc # "ended" /\ s \in claims
  BY DEF IInv, Calls, CallsKept, InHand
<1>0. UNCHANGED wvars /\ UNCHANGED evars /\ UNCHANGED ovars
      /\ UNCHANGED <<pending_syncs, markers, unclaimed, live>>
  BY DEF Calls
<1>2. /\ status' = [status EXCEPT ![c] = "called"]
      /\ call'[c].sub = s /\ call'[c].gen = loss_gen /\ call'[c].before = Of(s) \ covered
      /\ \A d \in Call : d # c => call'[d] = call[d]
      /\ call'[c] = [call[c] EXCEPT !.sub = s, !.gen = loss_gen, !.before = Of(s) \ covered]
      /\ DOMAIN call' = DOMAIN call
  BY DEF IInv, Typed, Calls
<1>3. call' \in [Call -> [sub : Sub \cup {None}, gen : Nat, serial : Nat, dominated : BOOLEAN,
                          before : SUBSET Change]]
  <2>1. Of(s) \ covered \in SUBSET Change /\ loss_gen \in Nat
    BY DEF IInv, Typed, Of
  <2>2. call'[c] \in [sub : Sub \cup {None}, gen : Nat, serial : Nat, dominated : BOOLEAN,
                      before : SUBSET Change]
    <3>1. call[c] \in [sub : Sub \cup {None}, gen : Nat, serial : Nat, dominated : BOOLEAN,
                       before : SUBSET Change]
      BY DEF IInv, Typed
    <3> QED BY <3>1, <2>1, <1>2
  <2>3. \A d \in Call : d # c =>
          call'[d] \in [sub : Sub \cup {None}, gen : Nat, serial : Nat, dominated : BOOLEAN,
                        before : SUBSET Change]
    BY <1>2 DEF IInv, Typed
  <2>4. DOMAIN call' = Call /\ call' = [d \in Call |-> call'[d]]
    BY DEF IInv, Typed, Calls
  <2> QED BY <2>2, <2>3, <2>4
<1>4. /\ status'[c] = "called" /\ \A d \in Call : d # c => status'[d] = status[d]
      /\ status' \in [Call -> {"idle", "called", "begun", "gone", "busy", "unknown", "failed",
                            "closed", "retired", "Delivered", "Dominated"}]
  BY <1>2 DEF IInv, Typed
<1>5. Typed' /\ TypeOK'
  BY <1>0, <1>3, <1>4 DEF IInv, Typed, TypeOK, wvars, evars, ovars, Change
<1>6. InHand' /\ CallsKept' /\ NoMarkerLeft' /\ BegunIsAwaited' /\ PendingIsAwaited'
  <2>1. \A d \in pending_syncs : d # c /\ d \in Call
    BY <1>1 DEF IInv, CallsKept
  <2>2. pc = "write" => cur # c /\ cur \in Call
    BY <1>1 DEF IInv, InHand
  <2>3. loss_gen \in Nat /\ Of(s) \ covered \subseteq Of(s)
    BY DEF IInv, Typed
  <2>4. InHand' /\ NoMarkerLeft' /\ BegunIsAwaited' /\ PendingIsAwaited'
    BY <1>0, <1>2, <1>4, <2>1, <2>2 DEF IInv, InHand, NoMarkerLeft, BegunIsAwaited, PendingIsAwaited,
       wvars, evars, ovars
  <2>5. \A t : Of(t)' = Of(t)
    BY <1>0 DEF wvars, Of, Change
  <2>6. \A d \in Call : status'[d] # "idle" =>
          /\ call'[d].sub \in Sub \cap claims /\ call'[d].gen <= loss_gen
          /\ call'[d].before \subseteq Of(call'[d].sub)
    <3>1. /\ call'[c].sub \in Sub \cap claims /\ call'[c].gen <= loss_gen
          /\ call'[c].before \subseteq Of(call'[c].sub)
      <4>1. call'[c].sub = s /\ call'[c].gen = loss_gen /\ call'[c].before = Of(s) \ covered
        BY <1>2
      <4> QED BY <4>1, <2>3, <1>1
    <3>2. \A d \in Call : d # c => status'[d] = status[d] /\ call'[d] = call[d]
      BY <1>2, <1>4
    <3> QED BY <3>1, <3>2 DEF IInv, CallsKept
  <2>7. CallsKept'
    BY <1>0, <1>1, <1>2, <1>4, <2>1, <2>2, <2>5, <2>6 DEF IInv, CallsKept, wvars, evars, ovars
  <2> QED BY <2>4, <2>7
<1>7. \A t : Owed(t) <=> Owed(t)'
  BY <1>0 DEF Owed, wvars, evars, ovars, in_debt
<1>8. Accounted' /\ DeliveredIsEmitted'
  BY <1>0, <1>1, <1>2, <1>4, <1>7 DEF IInv, Accounted, DeliveredIsEmitted, Answered, wvars, evars,
     ovars, Change
<1>9. AnswerStands'
  BY <1>0, <1>1, <1>2, <1>4, <1>7 DEF IInv, AnswerStands, Answered, wvars, evars, ovars
<1>10. Ahead' /\ FannedOut'
  <2>1. Ahead'
    BY <1>0, <1>1, <1>2, NoMarker DEF IInv, Ahead, wvars
  <2>2. \A d \in pending_syncs : d # c /\ d \in Call
    BY <1>1 DEF IInv, CallsKept
  <2>3. FannedOut'
    BY <1>0, <1>2, <2>2 DEF IInv, FannedOut, wvars, evars, ovars, in_debt
  <2> QED BY <2>1, <2>3
<1>11. \A d \in Call : d # c /\ Noted(d) => Noted(d)'
  BY <1>0, <1>2 DEF Noted, LossNoted, wvars, evars, ovars, in_debt
<1>12. Owed(s) => Noted(c)'
  <2>1. s \in todo => pc = "fan" /\ s \in hit
    BY DEF IInv, InHand, TypeOK
  <2>2. HasRescan(queue, s) => RescanAhead(queue, s, c)
    BY <1>1, NoMarker
  <2> QED BY <1>0, <1>1, <1>2, <2>1, <2>2 DEF Owed, Noted, LossNoted, wvars, evars, ovars, in_debt
<1>13. WindowSound'
  <2>1. ASSUME s \in live
        PROVE  \/ \A i \in Of(s) \ covered : i \in sent \cup buffer[s] \/ HasChange(queue, i)
               \/ Noted(c)'
    BY <2>1, <1>12 DEF IInv, Accounted, Of
  <2> QED BY <1>0, <2>1, <1>2, <1>4, <1>11 DEF IInv, WindowSound, wvars, evars, ovars
<1> QED BY <1>5, <1>6, <1>8, <1>9, <1>10, <1>13 DEF IInv

LEMMA GivesUpIInv == ASSUME IInv, NEW c \in Call, GivesUp(c) PROVE IInv'
<1>1. /\ status[c] \in Waiting /\ status'[c] = "gone"
      /\ \A d \in Call : d # c => status'[d] = status[d]
      /\ status' \in [Call -> {"idle", "called", "begun", "gone", "busy", "unknown", "failed",
                            "closed", "retired", "Delivered", "Dominated"}]
  BY DEF IInv, Typed, GivesUp
<1>2. Typed' /\ TypeOK'
  BY <1>1 DEF IInv, Typed, TypeOK, GivesUp, wvars, evars, ovars, Change
<1>3. InHand' /\ CallsKept' /\ NoMarkerLeft' /\ BegunIsAwaited' /\ PendingIsAwaited'
  BY <1>1 DEF IInv, InHand, CallsKept, NoMarkerLeft, BegunIsAwaited, PendingIsAwaited, Waiting,
     GivesUp, wvars, evars, ovars, Of, Change
<1>4. \A t : Owed(t) <=> Owed(t)'
  BY DEF Owed, GivesUp, wvars, evars, ovars, in_debt
<1>5. Accounted' /\ DeliveredIsEmitted' /\ AnswerStands'
  BY <1>1, <1>4 DEF IInv, Accounted, DeliveredIsEmitted, AnswerStands, Answered, GivesUp, wvars, evars,
     ovars, Change
<1>6. Ahead' /\ FannedOut'
  BY DEF IInv, Ahead, FannedOut, GivesUp, wvars, evars, ovars, in_debt
<1>7. WindowSound'
  BY <1>1 DEF IInv, WindowSound, Noted, LossNoted, Waiting, GivesUp, wvars, evars, ovars, in_debt
<1> QED BY <1>2, <1>3, <1>5, <1>6, <1>7 DEF IInv

-----------------------------------------------------------------------------
(* The owner begins a call.                                                *)

\* Abandoned calls are pruned before anything else.
LEMMA Pruned ==
    ASSUME IInv, pending_syncs' = pending_syncs \ abandoned_syncs
    PROVE  /\ pending_syncs' \subseteq pending_syncs /\ IsFiniteSet(pending_syncs')
           /\ Cardinality(pending_syncs') \in Nat /\ Cardinality(pending_syncs') <= MaxPending
           /\ \A c \in Call : status[c] # "gone" => (c \in pending_syncs' <=> c \in pending_syncs)
<1>1. pending_syncs' \in SUBSET pending_syncs /\ IsFiniteSet(pending_syncs)
  BY DEF IInv, CallsKept
<1>2. IsFiniteSet(pending_syncs') /\ Cardinality(pending_syncs') <= Cardinality(pending_syncs)
  BY <1>1, FS_Subset
<1>3. Cardinality(pending_syncs) \in Nat /\ Cardinality(pending_syncs') \in Nat
  BY <1>1, <1>2, FS_CardinalityType
<1>4. Cardinality(pending_syncs) <= MaxPending /\ MaxPending \in Nat
  BY SyncAssumption DEF IInv, TypeOK
<1>5. \A c \in Call : status[c] # "gone" => (c \in pending_syncs' <=> c \in pending_syncs)
  BY DEF abandoned_syncs
<1> QED BY <1>1, <1>2, <1>3, <1>4, <1>5

LEMMA TopIInv == ASSUME IInv, Top PROVE IInv'
<1>0. /\ pc = "top" /\ pc' = "drain" /\ UNCHANGED <<todo, hit, cur, status, call>>
      /\ UNCHANGED wvars /\ UNCHANGED evars /\ UNCHANGED <<unclaimed, live>>
      /\ pending_syncs' = pending_syncs \ abandoned_syncs
      /\ markers' = markers \ abandoned_syncs
  BY DEF Top, goes
<1>1. /\ pending_syncs' \subseteq pending_syncs /\ IsFiniteSet(pending_syncs')
      /\ Cardinality(pending_syncs') \in Nat /\ Cardinality(pending_syncs') <= MaxPending
      /\ \A c \in Call : status[c] # "gone" => (c \in pending_syncs' <=> c \in pending_syncs)
  BY <1>0, Pruned
<1>2. Typed' /\ TypeOK'
  BY <1>0, <1>1 DEF IInv, Typed, TypeOK, Loop, wvars, evars, Change
<1>3. InHand' /\ CallsKept' /\ NoMarkerLeft' /\ BegunIsAwaited' /\ PendingIsAwaited'
  BY <1>0, <1>1 DEF IInv, InHand, CallsKept, NoMarkerLeft, BegunIsAwaited, PendingIsAwaited,
     wvars, evars, Of, Change
<1>4. \A t : Owed(t) => Owed(t)'
  BY <1>0 DEF Owed, wvars, evars, in_debt
<1>5. Accounted' /\ DeliveredIsEmitted' /\ AnswerStands' /\ Ahead' /\ FannedOut'
  BY <1>0, <1>4 DEF IInv, Accounted, DeliveredIsEmitted, AnswerStands, Answered, Ahead, FannedOut,
     wvars, evars, Change
<1>6. WindowSound'
  BY <1>0, <1>1 DEF IInv, WindowSound, Noted, LossNoted, Waiting, wvars, evars, in_debt
<1> QED BY <1>2, <1>3, <1>5, <1>6 DEF IInv

LEMMA AdmitIInv == ASSUME IInv, NEW c \in Call, Admit(c) PROVE IInv'
<1>0. /\ pc \in {"top", "select"} /\ status[c] = "called" /\ UNCHANGED <<todo, hit, call>>
      /\ UNCHANGED wvars /\ UNCHANGED evars /\ UNCHANGED <<unclaimed, live>>
      /\ pending_syncs' = pending_syncs \ abandoned_syncs
      /\ markers' = markers \ abandoned_syncs
      /\ \/ /\ status' = [status EXCEPT ![c] = "begun"] /\ pc' = "write" /\ cur' = c
            /\ may_begin(abandoned_syncs) /\ call[c].sub \in live
         \/ /\ \E a \in {"busy", "unknown"} : status' = [status EXCEPT ![c] = a]
            /\ pc' = "drain" /\ cur' = cur
  BY DEF Admit, goes
<1>1. /\ pending_syncs' \subseteq pending_syncs /\ IsFiniteSet(pending_syncs')
      /\ Cardinality(pending_syncs') \in Nat /\ Cardinality(pending_syncs') <= MaxPending
      /\ \A d \in Call : status[d] # "gone" => (d \in pending_syncs' <=> d \in pending_syncs)
  BY <1>0, Pruned
<1>2. /\ status'[c] \in {"begun", "busy", "unknown"} /\ (status'[c] = "begun" => pc' = "write" /\ cur' = c)
      /\ \A d \in Call : d # c => status'[d] = status[d]
      /\ status' \in [Call -> {"idle", "called", "begun", "gone", "busy", "unknown", "failed",
                            "closed", "retired", "Delivered", "Dominated"}]
  BY <1>0 DEF IInv, Typed
<1>3. /\ c \notin pending_syncs /\ cur = None /\ ~HasMarker(queue, c) /\ pc' \in {"write", "drain"}
      /\ pc' = "write" => cur' = c /\ status'[c] = "begun" /\ call[c].sub \in live
                          /\ Cardinality(pending_syncs') < MaxPending
      /\ pc' = "drain" => cur' = None
  BY <1>0 DEF IInv, CallsKept, InHand, may_begin, Typed
<1>4. Typed' /\ TypeOK'
  BY <1>0, <1>1, <1>2, <1>3 DEF IInv, Typed, TypeOK, Loop, wvars, evars, Change
<1>5. InHand' /\ CallsKept' /\ NoMarkerLeft' /\ BegunIsAwaited' /\ PendingIsAwaited'
  <2>1. c \notin markers
    BY <1>3, <1>0 DEF IInv, InHand
  <2>2. InHand' /\ NoMarkerLeft' /\ BegunIsAwaited'
    BY <1>0, <1>1, <1>2, <1>3, <2>1 DEF IInv, InHand, NoMarkerLeft, BegunIsAwaited, wvars
  <2>3. PendingIsAwaited'
    BY <1>0, <1>1, <1>2, <1>3 DEF IInv, PendingIsAwaited, CallsKept, wvars
  <2>4. CallsKept'
    BY <1>0, <1>1, <1>2, <1>3 DEF IInv, CallsKept, wvars, evars, Of, Change
  <2> QED BY <2>2, <2>3, <2>4
<1>6. \A t : Owed(t) => Owed(t)'
  BY <1>0, <1>3 DEF Owed, wvars, evars, in_debt
<1>7. Accounted' /\ Ahead' /\ FannedOut'
  BY <1>0, <1>3, <1>6 DEF IInv, Accounted, Ahead, FannedOut, wvars, evars, Change
<1>8. DeliveredIsEmitted' /\ AnswerStands'
  BY <1>0, <1>2, <1>6 DEF IInv, DeliveredIsEmitted, AnswerStands, Answered, wvars, evars
<1>9. WindowSound'
  BY <1>0, <1>1, <1>2, <1>3 DEF IInv, WindowSound, Noted, LossNoted, Waiting, wvars, evars, in_debt
<1> QED BY <1>4, <1>5, <1>7, <1>8, <1>9 DEF IInv

LEMMA WritesIInv == ASSUME IInv, Writes PROVE IInv'
<1> DEFINE x == [kind |-> "cookie", id |-> cur]
<1>0. /\ pc = "write" /\ cur \notin markers /\ queue' = Append(queue, x) /\ markers' = markers \cup {cur}
      /\ UNCHANGED <<at, claims, raises>> /\ UNCHANGED evars /\ UNCHANGED ovars
      /\ UNCHANGED <<pending_syncs, status, call, unclaimed, live>>
  BY DEF Writes
<1>1. cur \in Call /\ cur \notin pending_syncs /\ status[cur] \in {"begun", "gone"} /\ ~HasMarker(queue, cur)
  BY <1>0 DEF IInv, InHand, CallsKept
<1>2. /\ x \in Item /\ \A c : IsMarker(x, c) <=> c = cur
      /\ (\A i : ~IsChange(x, i)) /\ (\A s : ~IsRescan(x, s))
  <2>1. x \in [kind : {"cookie"}, id : Call] /\ x.kind = "cookie" /\ x.id = cur
    BY <1>1
  <2>2. x \in Item
    BY <2>1 DEF Item
  <2> QED BY <2>1, <2>2 DEF IsChange, IsMarker, IsRescan
<1>3. queue' \in Seq(Item) /\ Put(queue, x)
  BY <1>0, <1>2, PutLemma DEF IInv, Typed
<1> HIDE DEF x
<1>4. /\ \A i : HasChange(queue', i) <=> HasChange(queue, i)
      /\ \A c : HasMarker(queue', c) <=> HasMarker(queue, c) \/ c = cur
      /\ \A s : HasRescan(queue', s) <=> HasRescan(queue, s)
      /\ \A i, c : ChangeAhead(queue, i, c) => ChangeAhead(queue', i, c)
      /\ \A s, c : RescanAhead(queue, s, c) => RescanAhead(queue', s, c)
  BY <1>0, <1>2, <1>3 DEF Put
<1>5. Typed' /\ TypeOK'
  <2>1. \A n \in DOMAIN queue' : queue'[n].kind = "change" => queue'[n].id \in Change
    <3>1. \A n \in DOMAIN queue' : queue'[n].kind = "change" => HasChange(queue', queue'[n].id)
      BY DEF HasChange, IsChange
    <3> QED BY <3>1, <1>4, QueueKnown DEF IInv
  <2> QED BY <2>1, <1>0, <1>3 DEF IInv, Typed, TypeOK, evars, ovars, Change
<1>6. InHand' /\ CallsKept' /\ NoMarkerLeft' /\ BegunIsAwaited' /\ PendingIsAwaited'
  BY <1>0, <1>1, <1>4 DEF IInv, InHand, CallsKept, NoMarkerLeft, BegunIsAwaited, PendingIsAwaited,
     evars, ovars, Of, Change
<1>7. \A t : Owed(t) <=> Owed(t)'
  BY <1>0, <1>4 DEF Owed, evars, ovars, in_debt
<1>8. Accounted' /\ DeliveredIsEmitted' /\ AnswerStands' /\ Ahead' /\ FannedOut'
  BY <1>0, <1>4, <1>7 DEF IInv, Accounted, DeliveredIsEmitted, AnswerStands, Answered, Ahead,
     FannedOut, evars, ovars, Change, in_debt
<1>9. \A c : Noted(c) => Noted(c)'
  BY <1>0, <1>4 DEF Noted, LossNoted, evars, ovars, in_debt
<1>10. WindowSound'
  BY <1>0, <1>4, <1>9 DEF IInv, WindowSound, evars, ovars
<1> QED BY <1>5, <1>6, <1>8, <1>10 DEF IInv

LEMMA InstalledIInv == ASSUME IInv, Installed PROVE IInv'
<1>0. /\ pc = "write" /\ cur \in markers /\ pc' = "drain" /\ cur' = None
      /\ UNCHANGED wvars /\ UNCHANGED evars /\ UNCHANGED <<todo, hit, status, unclaimed, live>>
      /\ \/ status[cur] = "gone" /\ markers' = markers \ {cur} /\ UNCHANGED <<pending_syncs, call>>
         \/ /\ status[cur] # "gone" /\ pending_syncs' = pending_syncs \cup {cur} /\ markers' = markers
            /\ call' = [call EXCEPT ![cur].serial = loss_serial[call[cur].sub],
                                    ![cur].dominated = dominated_at_install(cur)]
  BY DEF Installed, goes
<1>1. /\ cur \in Call /\ cur \notin pending_syncs /\ status[cur] \in {"begun", "gone"}
      /\ call[cur].sub \in live /\ call[cur].sub \in Sub /\ Cardinality(pending_syncs) < MaxPending
      /\ IsFiniteSet(pending_syncs) /\ pending_syncs \subseteq Call
      /\ loss_serial[call[cur].sub] \in Nat /\ dominated_at_install(cur) \in BOOLEAN
  <2>1. /\ cur \in Call /\ cur \notin pending_syncs /\ status[cur] \in {"begun", "gone"}
        /\ call[cur].sub \in live /\ call[cur].sub \in Sub /\ Cardinality(pending_syncs) < MaxPending
        /\ IsFiniteSet(pending_syncs) /\ pending_syncs \subseteq Call
        /\ loss_serial[call[cur].sub] \in Nat
    BY <1>0 DEF IInv, InHand, CallsKept, Typed
  <2>2. dominated_at_install(cur) \in BOOLEAN
    BY Zenon DEF dominated_at_install, in_debt
  <2> QED BY <2>1, <2>2
<1>2. /\ pending_syncs' \subseteq pending_syncs \cup {cur} /\ pending_syncs \subseteq pending_syncs'
      /\ cur \in pending_syncs' <=> status[cur] # "gone"
      /\ pending_syncs' \subseteq Call /\ IsFiniteSet(pending_syncs')
      /\ Cardinality(pending_syncs') <= MaxPending
  <2>1. Cardinality(pending_syncs) \in Nat /\ MaxPending \in Nat
    BY <1>1, FS_CardinalityType, SyncAssumption
  <2>2. IsFiniteSet(pending_syncs \cup {cur})
        /\ Cardinality(pending_syncs \cup {cur}) = Cardinality(pending_syncs) + 1
    BY <1>1, FS_AddElement
  <2>3. CASE pending_syncs' = pending_syncs /\ status[cur] = "gone"
    BY <2>3, <1>1, <2>1
  <2>4. CASE pending_syncs' = pending_syncs \cup {cur} /\ status[cur] # "gone"
    <3>1. Cardinality(pending_syncs') <= MaxPending
      BY <2>4, <2>2, <2>1, <1>1
    <3> QED BY <3>1, <2>4, <2>2, <1>1
  <2> QED BY <1>0, <2>3, <2>4
<1>3. /\ call' \in [Call -> [sub : Sub \cup {None}, gen : Nat, serial : Nat, dominated : BOOLEAN,
                             before : SUBSET Change]]
      /\ \A c \in Call : /\ call'[c].sub = call[c].sub /\ call'[c].before = call[c].before
                         /\ call'[c].gen = call[c].gen
                         /\ c # cur => call'[c] = call[c]
      /\ status[cur] # "gone" => /\ call'[cur].serial = loss_serial[call[cur].sub]
                                 /\ call'[cur].dominated = dominated_at_install(cur)
  <2> DEFINE p == loss_serial[call[cur].sub]
             g == dominated_at_install(cur)
  <2>1. p \in Nat /\ g \in BOOLEAN
    BY <1>1
  <2>2. call' = call \/ call' = [call EXCEPT ![cur].serial = p, ![cur].dominated = g]
    BY <1>0
  <2>3. status[cur] # "gone" => call' = [call EXCEPT ![cur].serial = p, ![cur].dominated = g]
    BY <1>0
  <2> HIDE DEF p, g
  <2>4. call \in [Call -> [sub : Sub \cup {None}, gen : Nat, serial : Nat, dominated : BOOLEAN,
                           before : SUBSET Change]]
    BY DEF IInv, Typed
  <2>5. ASSUME call' = [call EXCEPT ![cur].serial = p, ![cur].dominated = g]
        PROVE  /\ call' \in [Call -> [sub : Sub \cup {None}, gen : Nat, serial : Nat, dominated : BOOLEAN,
                             before : SUBSET Change]]
               /\ \A c \in Call : /\ call'[c].sub = call[c].sub /\ call'[c].before = call[c].before
                                  /\ call'[c].gen = call[c].gen
                                  /\ c # cur => call'[c] = call[c]
               /\ call'[cur].serial = p /\ call'[cur].dominated = g
    BY <2>1, <2>4, <2>5, <1>1
  <2>6. CASE call' = call
    BY <2>6, <2>4, <2>3, <2>5 DEF p, g
  <2> QED BY <2>2, <2>5, <2>6 DEF p, g
<1>4. Typed' /\ TypeOK'
  BY <1>0, <1>1, <1>2, <1>3 DEF IInv, Typed, TypeOK, Loop, wvars, evars, Change
<1>5. InHand' /\ NoMarkerLeft' /\ BegunIsAwaited' /\ PendingIsAwaited'
  BY <1>0, <1>1, <1>2, <1>3 DEF IInv, InHand, NoMarkerLeft, BegunIsAwaited, PendingIsAwaited, wvars
<1>6. CallsKept'
  <2>1. \A t : Of(t)' = Of(t)
    BY <1>0 DEF wvars, Of, Change
  <2>2. \A c \in pending_syncs' : call'[c].serial <= loss_serial[call[c].sub]
    BY <1>0, <1>1, <1>2, <1>3 DEF IInv, CallsKept
  <2> QED BY <1>0, <1>1, <1>2, <1>3, <2>1, <2>2 DEF IInv, CallsKept, wvars, evars
<1>7. \A t : Owed(t) <=> Owed(t)'
  BY <1>0 DEF Owed, wvars, evars, in_debt
<1>8. Accounted' /\ DeliveredIsEmitted' /\ AnswerStands' /\ Ahead' /\ FannedOut'
  BY <1>0, <1>3, <1>7 DEF IInv, Accounted, DeliveredIsEmitted, AnswerStands, Answered, Ahead,
     FannedOut, wvars, evars, Change
<1>9. \A c \in Call : Noted(c) /\ status[c] # "gone" => Noted(c)'
  <2>1. \A c \in Call : Noted(c) /\ c # cur => Noted(c)'
    BY <1>0, <1>2, <1>3 DEF Noted, LossNoted, wvars, evars, in_debt
  <2>2. ASSUME NEW c \in Call, c = cur, Noted(c), status[c] # "gone" PROVE Noted(c)'
    <3>1. \/ RescanAhead(queue, call[c].sub, c)
          \/ call[c].gen < loss_gen \/ in_debt(call[c].sub)
      BY <2>2, <1>0, <1>1 DEF Noted, LossNoted
    <3>2. call[c].gen \in Nat /\ loss_gen \in Nat
      BY DEF IInv, Typed
    <3>3. call[c].gen < loss_gen \/ in_debt(call[c].sub) => dominated_at_install(cur)
      BY <2>2, <3>2 DEF dominated_at_install
    <3>4. dominated_at_install(cur) => call'[c].dominated
      BY Zenon, <2>2, <1>3
    <3>5. c \in pending_syncs' /\ call'[c].sub = call[c].sub /\ queue' = queue
      BY <2>2, <1>0, <1>2, <1>3 DEF wvars
    <3>6. RescanAhead(queue, call[c].sub, c) => RescanAhead(queue', call'[c].sub, c)
      BY <3>5
    <3> QED BY <3>1, <3>3, <3>4, <3>5, <3>6 DEF Noted, LossNoted
  <2> QED BY <2>1, <2>2
<1>10. WindowSound'
  BY <1>0, <1>3, <1>9 DEF IInv, WindowSound, Waiting, wvars, evars
<1> QED BY <1>4, <1>5, <1>6, <1>8, <1>10 DEF IInv

LEMMA AbandonedIInv == ASSUME IInv, Abandoned PROVE IInv'
<1>0. /\ pc = "write" /\ status[cur] = "gone" /\ pc' = "drain" /\ cur' = None
      /\ markers' = markers \ {cur} /\ UNCHANGED wvars /\ UNCHANGED evars
      /\ UNCHANGED <<todo, hit, pending_syncs, status, call, unclaimed, live>>
  BY DEF Abandoned, goes
<1>1. Typed' /\ TypeOK'
  BY <1>0 DEF IInv, Typed, TypeOK, Loop, wvars, evars, Change
<1>2. InHand' /\ CallsKept' /\ NoMarkerLeft' /\ BegunIsAwaited' /\ PendingIsAwaited'
  BY <1>0 DEF IInv, InHand, CallsKept, NoMarkerLeft, BegunIsAwaited, PendingIsAwaited, wvars, evars,
     Of, Change
<1>3. \A t : Owed(t) <=> Owed(t)'
  BY <1>0 DEF Owed, wvars, evars, in_debt
<1>4. Accounted' /\ DeliveredIsEmitted' /\ AnswerStands' /\ Ahead' /\ FannedOut' /\ WindowSound'
  BY <1>0, <1>3 DEF IInv, Accounted, DeliveredIsEmitted, AnswerStands, Answered, Ahead,
     FannedOut, WindowSound, Noted, LossNoted, wvars, evars, Change, in_debt
<1> QED BY <1>1, <1>2, <1>4 DEF IInv

LEMMA RefusedIInv == ASSUME IInv, Refused PROVE IInv'
<1> DEFINE x == [kind |-> "rescan", of |-> {call[cur].sub}]
<1>0. /\ pc = "write" /\ cur \notin markers /\ pc' = "drain" /\ cur' = None
      /\ UNCHANGED <<at, claims>> /\ UNCHANGED evars /\ UNCHANGED <<todo, hit, call, unclaimed, live>>
      /\ pending_syncs' = pending_syncs \ {cur} /\ markers' = markers \ {cur}
      /\ \/ status' = replied({cur}, "failed") /\ queue' = queue /\ raises' = raises
         \/ status' = replied({cur}, "Dominated") /\ raises' = raises + 1 /\ queue' = Append(queue, x)
  BY DEF Refused, goes, answers
<1>1. /\ cur \in Call /\ cur \notin pending_syncs /\ status[cur] \in {"begun", "gone"}
      /\ call[cur].sub \in live /\ call[cur].sub \in Sub /\ ~HasMarker(queue, cur)
  BY <1>0 DEF IInv, InHand, CallsKept, Typed
<1>2. /\ x \in Item /\ \A t : IsRescan(x, t) <=> t = call[cur].sub
      /\ (\A c : ~IsMarker(x, c)) /\ (\A i : ~IsChange(x, i))
  <2>1. x \in [kind : {"rescan"}, of : SUBSET Sub] /\ x.kind = "rescan" /\ x.of = {call[cur].sub}
    BY <1>1
  <2>2. x \in Item
    BY <2>1 DEF Item
  <2> QED BY <2>1, <2>2 DEF IsChange, IsMarker, IsRescan
<1>3. Append(queue, x) \in Seq(Item) /\ Put(queue, x)
  BY <1>2, PutLemma DEF IInv, Typed
<1> HIDE DEF x
<1>4. /\ \A i : HasChange(queue', i) <=> HasChange(queue, i)
      /\ \A c : HasMarker(queue', c) <=> HasMarker(queue, c)
      /\ \A s : HasRescan(queue, s) => HasRescan(queue', s)
      /\ \A i, c : ChangeAhead(queue, i, c) => ChangeAhead(queue', i, c)
      /\ \A s, c : RescanAhead(queue, s, c) => RescanAhead(queue', s, c)
      /\ queue' \in Seq(Item)
  <2>1. CASE queue' = queue
    BY <2>1 DEF IInv, Typed
  <2>2. CASE queue' = Append(queue, x)
    BY <2>2, <1>2, <1>3 DEF Put
  <2> QED BY <1>0, <2>1, <2>2
<1>5. /\ pending_syncs' = pending_syncs /\ \A c \in Call : c # cur => status'[c] = status[c]
      /\ status'[cur] \in {"gone", "failed", "Dominated"}
      /\ status'[cur] = "Dominated" => HasRescan(queue', call[cur].sub)
      /\ status' \in [Call -> {"idle", "called", "begun", "gone", "busy", "unknown", "failed",
                            "closed", "retired", "Delivered", "Dominated"}]
  <2>1. status'[cur] = "Dominated" => HasRescan(queue', call[cur].sub)
    BY <1>0, <1>1, <1>2, <1>3 DEF replied, Waiting, Put
  <2>2. /\ pending_syncs' = pending_syncs /\ \A c \in Call : c # cur => status'[c] = status[c]
        /\ status'[cur] \in {"gone", "failed", "Dominated"}
    BY <1>0, <1>1 DEF replied, Waiting
  <2>3. status' \in [Call -> {"idle", "called", "begun", "gone", "busy", "unknown", "failed",
                            "closed", "retired", "Delivered", "Dominated"}]
    BY <1>0, <1>1 DEF replied, Waiting, IInv, Typed
  <2> QED BY <2>1, <2>2, <2>3
<1>6. Typed' /\ TypeOK'
  <2>1. \A n \in DOMAIN queue' : queue'[n].kind = "change" => queue'[n].id \in Change
    <3>1. \A n \in DOMAIN queue' : queue'[n].kind = "change" => HasChange(queue', queue'[n].id)
      BY DEF HasChange, IsChange
    <3> QED BY <3>1, <1>4, QueueKnown DEF IInv
  <2>2. raises' \in Nat
    BY <1>0 DEF IInv, Typed
  <2> QED BY <2>1, <2>2, <1>0, <1>4, <1>5 DEF IInv, Typed, TypeOK, Loop, evars, Change
<1>7. InHand' /\ NoMarkerLeft' /\ BegunIsAwaited' /\ PendingIsAwaited'
  BY <1>0, <1>1, <1>4, <1>5 DEF IInv, InHand, NoMarkerLeft, BegunIsAwaited, PendingIsAwaited, CallsKept
<1>8. CallsKept'
  <2>1. \A t : Of(t)' = Of(t)
    BY <1>0 DEF Of, Change
  <2> QED BY <1>0, <1>1, <1>4, <1>5, <2>1 DEF IInv, CallsKept, evars
<1>9. \A t : Owed(t) => Owed(t)'
  BY <1>0, <1>4 DEF Owed, evars, in_debt
<1>10. Accounted' /\ Ahead' /\ FannedOut'
  BY <1>0, <1>4, <1>9 DEF IInv, Accounted, Ahead, FannedOut, evars, Change
<1>11. DeliveredIsEmitted' /\ AnswerStands'
  <2>1. ASSUME NEW s, s = call[cur].sub, status'[cur] = "Dominated" PROVE Owed(s)'
    BY <2>1, <1>5 DEF Owed
  <2> QED BY <2>1, <1>0, <1>5, <1>9 DEF IInv, DeliveredIsEmitted, AnswerStands, Answered, evars
<1>12. \A c : Noted(c) => Noted(c)'
  BY <1>0, <1>4, <1>5 DEF Noted, LossNoted, evars, in_debt
<1>13. WindowSound'
  BY <1>0, <1>4, <1>5, <1>12 DEF IInv, WindowSound, Waiting, evars
<1> QED BY <1>6, <1>7, <1>8, <1>10, <1>11, <1>13 DEF IInv

-----------------------------------------------------------------------------
(* The owner's loop.                                                       *)

LEMMA DrainIInv == ASSUME IInv, Drain PROVE IInv'
<1>0. /\ pc = "drain" /\ pc' = "flush" /\ UNCHANGED <<todo, hit, cur>>
      /\ unclaimed' = unclaimed \ claims /\ suppressed_rescan' = suppressed_rescan \ claims
      /\ needs_rescan' = needs_rescan \cup (suppressed_rescan \cap claims)
      /\ UNCHANGED wvars /\ UNCHANGED <<buffer, room, loss_serial, loss_gen, sent, covered>>
      /\ UNCHANGED cvars /\ live' = live
  BY DEF Drain, goes, promoted
<1>1. \A t : in_debt(t)' <=> in_debt(t)
  BY <1>0 DEF in_debt
<1>2. Typed' /\ TypeOK'
  BY <1>0 DEF IInv, Typed, TypeOK, Loop, wvars, cvars, Change
<1>3. InHand' /\ NoMarkerLeft' /\ BegunIsAwaited' /\ PendingIsAwaited'
  BY <1>0 DEF IInv, InHand, NoMarkerLeft, BegunIsAwaited, PendingIsAwaited, wvars, cvars
<1>4. CallsKept'
  <2>1. \A t : Of(t)' = Of(t)
    BY <1>0 DEF wvars, Of, Change
  <2>2. \A c \in pending_syncs : call[c].sub \in claims
    BY DEF IInv, CallsKept
  <2> QED BY <1>0, <2>1, <2>2 DEF IInv, CallsKept, wvars, cvars
<1>5. \A t : Owed(t) <=> Owed(t)'
  BY <1>0, <1>1 DEF Owed, wvars
<1>6. Accounted' /\ DeliveredIsEmitted' /\ AnswerStands' /\ Ahead' /\ FannedOut'
  BY <1>0, <1>5 DEF IInv, Accounted, DeliveredIsEmitted, AnswerStands, Answered, Ahead,
     FannedOut, wvars, cvars, Change
<1>7. WindowSound'
  BY <1>0, <1>1 DEF IInv, WindowSound, Noted, LossNoted, wvars, cvars
<1> QED BY <1>2, <1>3, <1>4, <1>6, <1>7 DEF IInv

LEMMA FlushSendIInv == ASSUME IInv, NEW s \in Sub, FlushSend(s) PROVE IInv'
<1>0. /\ pc = "flush" /\ pc' = "published" /\ room > 0 /\ room' = room - 1 /\ hit' = {s}
      /\ covered' = covered \cup Of(s) /\ UNCHANGED <<todo, cur>> /\ UNCHANGED wvars
      /\ UNCHANGED <<buffer, needs_rescan, suppressed_rescan, loss_serial, loss_gen, sent>>
      /\ UNCHANGED cvars /\ UNCHANGED <<unclaimed, live>>
  BY DEF FlushSend
<1>1. room' \in 0 .. Cap /\ todo = {}
  BY <1>0, SyncAssumption DEF IInv, Typed, InHand
<1>2. Typed' /\ TypeOK'
  BY <1>0, <1>1 DEF IInv, Typed, TypeOK, Loop, wvars, cvars, Change
<1>3. InHand' /\ CallsKept' /\ NoMarkerLeft' /\ BegunIsAwaited' /\ PendingIsAwaited'
  BY <1>0, <1>1 DEF IInv, InHand, CallsKept, NoMarkerLeft, BegunIsAwaited, PendingIsAwaited, wvars,
     cvars, Of, Change
<1>4. \A t : t # s /\ Owed(t) => Owed(t)'
  BY <1>0 DEF Owed, wvars, in_debt
<1>5. Accounted' /\ AnswerStands'
  <2>1. \A i \in Change : at[i] = s => i \in covered'
    BY <1>0 DEF Of
  <2>2. \A c \in Answered("Dominated") : call[c].sub = s => call[c].before \subseteq covered'
    BY <1>0 DEF IInv, CallsKept, Answered
  <2> QED BY <1>0, <1>4, <2>1, <2>2 DEF IInv, Accounted, AnswerStands, Answered, wvars, cvars, Change
<1>6. DeliveredIsEmitted' /\ Ahead' /\ FannedOut'
  BY <1>0 DEF IInv, DeliveredIsEmitted, Answered, Ahead, FannedOut, wvars, cvars
<1>7. WindowSound'
  BY <1>0 DEF IInv, WindowSound, Noted, LossNoted, wvars, cvars, in_debt
<1> QED BY <1>2, <1>3, <1>5, <1>6, <1>7 DEF IInv

LEMMA FlushClearIInv == ASSUME IInv, FlushClear PROVE IInv'
<1>0. /\ pc = "published" /\ pc' = "flush" /\ loss_gen' = loss_gen + 1
      /\ needs_rescan' = needs_rescan \ hit /\ hit' = {} /\ UNCHANGED <<todo, cur>>
      /\ UNCHANGED wvars
      /\ UNCHANGED <<buffer, room, suppressed_rescan, loss_serial, sent, covered>>
      /\ UNCHANGED cvars /\ UNCHANGED <<unclaimed, live>>
  BY DEF FlushClear, note_domination
<1>1. loss_gen \in Nat /\ todo = {}
  BY <1>0 DEF IInv, Typed, InHand
<1>2. Typed' /\ TypeOK'
  BY <1>0, <1>1 DEF IInv, Typed, TypeOK, Loop, wvars, cvars, Change
<1>3. InHand' /\ NoMarkerLeft' /\ BegunIsAwaited' /\ PendingIsAwaited'
  BY <1>0, <1>1 DEF IInv, InHand, NoMarkerLeft, BegunIsAwaited, PendingIsAwaited, wvars, cvars
<1>4. \A c \in Call : status[c] # "idle" => call[c].gen < loss_gen'
  BY <1>0, <1>1 DEF IInv, CallsKept, Typed
<1>5. CallsKept'
  <2>1. \A t : Of(t)' = Of(t)
    BY <1>0 DEF wvars, Of, Change
  <2>2. \A c \in Call : status[c] # "idle" => call[c].gen <= loss_gen'
    BY <1>0, <1>1 DEF IInv, CallsKept, Typed
  <2> QED BY <1>0, <2>1, <2>2 DEF IInv, CallsKept, wvars, cvars
<1>6. \A t : Owed(t) => Owed(t)'
  BY <1>0 DEF Owed, wvars, in_debt
<1>7. Accounted' /\ AnswerStands' /\ DeliveredIsEmitted' /\ Ahead' /\ FannedOut'
  BY <1>0, <1>6 DEF IInv, Accounted, AnswerStands, DeliveredIsEmitted, Answered, Ahead, FannedOut,
     wvars, cvars, Change
<1>8. WindowSound'
  BY <1>0, <1>4 DEF IInv, WindowSound, Noted, LossNoted, Waiting, wvars, cvars
<1> QED BY <1>2, <1>3, <1>5, <1>7, <1>8 DEF IInv

\* Turns of the loop that only go on.
LEMMA GoesOnIInv ==
    ASSUME IInv, pc \in {"flush", "select"}, pc' \in {"select", "top"}, UNCHANGED <<todo, hit, cur>>,
           UNCHANGED wvars, UNCHANGED evars, UNCHANGED cvars, UNCHANGED <<unclaimed, live>>
    PROVE  IInv'
<1>1. Typed' /\ TypeOK' /\ InHand' /\ CallsKept' /\ NoMarkerLeft' /\ BegunIsAwaited' /\ PendingIsAwaited'
  BY DEF IInv, Typed, TypeOK, InHand, CallsKept, NoMarkerLeft, BegunIsAwaited, PendingIsAwaited, Loop,
     wvars, evars, cvars, Of, Change
<1>2. \A t : Owed(t) <=> Owed(t)'
  BY DEF Owed, wvars, evars, in_debt
<1>3. Accounted' /\ DeliveredIsEmitted' /\ AnswerStands' /\ Ahead' /\ FannedOut' /\ WindowSound'
  BY <1>2 DEF IInv, Accounted, DeliveredIsEmitted, AnswerStands, Answered, Ahead,
     FannedOut, WindowSound, Noted, LossNoted, wvars, evars, cvars, Change, in_debt
<1> QED BY <1>1, <1>3 DEF IInv

\* Emission carries what it has to, or says so.
EmissionCarries(s, B) ==
    /\ \A t : in_debt(t) => in_debt(t)'
    /\ \A i \in Change, t \in Sub :
          t = at[i] /\ (i \in sent \cup covered \cup buffer[t] \/ (t = s /\ i \in B))
             => i \in sent' \cup covered' \cup buffer'[t] \/ in_debt(t)'
    /\ \A c \in Call : status[c] # "idle" /\ call'[c] = call[c] /\ (c \in pending_syncs' <=> c \in pending_syncs) =>
          /\ LossNoted(c) => LossNoted(c)'
          /\ \/ LossNoted(c)'
             \/ \A i \in call[c].before :
                   i \in sent \cup buffer[call[c].sub] \/ (call[c].sub = s /\ i \in B)
                      => i \in sent' \cup buffer'[call[c].sub]
    /\ \A c \in Call : /\ call[c].gen <= loss_gen => call[c].gen <= loss_gen'
                       /\ \A t \in Sub : call[c].serial <= loss_serial[t] => call[c].serial <= loss_serial'[t]

LEMMA EmissionLemma ==
    ASSUME IInv, NEW s \in Sub, NEW B, NEW rescan \in BOOLEAN, Emitted(s, B, rescan)
    PROVE  EmissionCarries(s, B)
<1>1. \A t : in_debt(t) => in_debt(t)'
  BY DEF Emitted, in_debt
<1>2. /\ loss_gen \in Nat /\ loss_gen' \in Nat /\ loss_gen <= loss_gen'
      /\ \A t \in Sub : loss_serial[t] \in Nat /\ loss_serial'[t] \in Nat /\ loss_serial[t] <= loss_serial'[t]
      /\ \A c \in Call : call[c].gen \in Nat /\ call[c].serial \in Nat
  <2>1. loss_gen \in Nat /\ loss_serial \in [Sub -> Nat]
        /\ \A c \in Call : call[c].gen \in Nat /\ call[c].serial \in Nat
    BY DEF IInv, Typed
  <2>2. /\ loss_gen' \in Nat /\ loss_gen <= loss_gen' /\ loss_serial' \in [Sub -> Nat]
        /\ loss_serial[s] <= loss_serial'[s]
        /\ \A t \in Sub : t # s => loss_serial'[t] = loss_serial[t]
    BY DEF Emitted
  <2> QED BY <2>1, <2>2
<1>3. /\ \A c \in Call : call[c].gen <= loss_gen => call[c].gen <= loss_gen'
      /\ \A c \in Call : call[c].gen < loss_gen => call[c].gen < loss_gen'
  BY <1>2
<1>4. /\ \A c \in Call, t \in Sub : call[c].serial <= loss_serial[t] => call[c].serial <= loss_serial'[t]
      /\ \A c \in Call, t \in Sub : call[c].serial < loss_serial[t] => call[c].serial < loss_serial'[t]
  BY <1>2
<1>5. ASSUME NEW i \in Change, NEW t \in Sub, i \in sent \cup covered \cup buffer[t] \/ (t = s /\ i \in B)
      PROVE  i \in sent' \cup covered' \cup buffer'[t] \/ in_debt(t)'
  BY <1>5 DEF Emitted, in_debt
<1>6. ASSUME NEW c \in Call, status[c] # "idle", call'[c] = call[c],
             c \in pending_syncs' <=> c \in pending_syncs
      PROVE  /\ LossNoted(c) => LossNoted(c)'
             /\ \/ LossNoted(c)'
                \/ \A i \in call[c].before :
                      i \in sent \cup buffer[call[c].sub] \/ (call[c].sub = s /\ i \in B)
                         => i \in sent' \cup buffer'[call[c].sub]
  <2>1. call[c].sub \in Sub /\ call[c].gen <= loss_gen
    BY <1>6 DEF IInv, CallsKept
  <2>2. c \in pending_syncs => call[c].serial <= loss_serial[call[c].sub]
    BY DEF IInv, CallsKept
  <2>3. LossNoted(c) => LossNoted(c)'
    BY <1>1, <1>3, <1>4, <1>6, <2>1 DEF LossNoted
  <2>4. CASE call[c].sub # s
    BY <2>1, <2>3, <2>4 DEF Emitted
  <2>5. CASE call[c].sub = s /\ B \subseteq sent' /\ buffer[s] \ B \subseteq buffer'[s]
    BY <2>5, <2>3 DEF Emitted
  <2>6. CASE call[c].sub = s /\ loss_serial[s] < loss_serial'[s] /\ loss_gen < loss_gen'
    <3>1. call[c].gen < loss_gen' /\ (c \in pending_syncs => call[c].serial < loss_serial'[s])
      BY <2>1, <2>2, <2>6, <1>2
    <3>2. LossNoted(c)'
      BY <3>1, <2>6, <1>6 DEF LossNoted
    <3> QED BY <3>2
  <2> QED BY <2>4, <2>5, <2>6 DEF Emitted
<1> QED BY <1>1, <1>3, <1>4, <1>5, <1>6 DEF EmissionCarries

LEMMA SettlesIInv == ASSUME IInv, NEW s \in Sub, Settles(s) PROVE IInv'
<1>0. /\ pc = "select" /\ pc' = "top" /\ UNCHANGED <<todo, hit, cur>>
      /\ UNCHANGED wvars /\ UNCHANGED cvars /\ UNCHANGED <<unclaimed, live>>
  BY DEF Settles, goes
<1>1. PICK B \in SUBSET buffer[s] : Emits(s, B, FALSE)
  BY DEF Settles
<1>2. Emitted(s, B, FALSE) /\ EmissionCarries(s, B)
  <2>1. B \in SUBSET Change
    BY <1>1 DEF IInv, Typed
  <2> QED BY <2>1, <1>1, EmittedLemma, EmissionLemma DEF IInv
<1>3. Typed' /\ TypeOK'
  BY <1>0, <1>2 DEF IInv, Typed, TypeOK, Loop, Emitted, wvars, cvars, Change
<1>4. InHand' /\ NoMarkerLeft' /\ BegunIsAwaited' /\ PendingIsAwaited'
  BY <1>0 DEF IInv, InHand, NoMarkerLeft, BegunIsAwaited, PendingIsAwaited, wvars, cvars
<1>5. CallsKept'
  <2>1. \A t : Of(t)' = Of(t)
    BY <1>0 DEF wvars, Of, Change
  <2>2. live \subseteq Sub
    BY DEF IInv, Typed
  <2> QED BY <1>0, <1>2, <2>1, <2>2 DEF IInv, CallsKept, EmissionCarries, wvars, cvars
<1>6. \A t : Owed(t) => Owed(t)'
  BY <1>0, <1>2 DEF Owed, EmissionCarries, wvars
<1>7. \A t : in_debt(t)' => Owed(t)'
  BY <1>0 DEF Owed
<1>8. Accounted'
  <2>1. \A i \in Change : at[i] \in Sub
    BY ChangesMade DEF IInv
  <2> QED BY <2>1, <1>0, <1>2, <1>6, <1>7 DEF IInv, Accounted, EmissionCarries, wvars, Change
<1>9. DeliveredIsEmitted' /\ AnswerStands' /\ Ahead' /\ FannedOut'
  BY <1>0, <1>2, <1>6 DEF IInv, DeliveredIsEmitted, AnswerStands, Answered, Ahead, FannedOut, Emitted,
     wvars, cvars
<1>10. WindowSound'
  BY <1>0, <1>2 DEF IInv, WindowSound, Noted, Waiting, EmissionCarries, wvars, cvars
<1> QED BY <1>3, <1>4, <1>5, <1>8, <1>9, <1>10 DEF IInv

-----------------------------------------------------------------------------
(* One item of the source is consumed.                                     *)

\* Calls of S are answered a.
Answers(S, a) ==
    /\ pending_syncs' = pending_syncs \ S /\ markers' = markers \ S /\ call' = call
    /\ pending_syncs' \subseteq Call /\ IsFiniteSet(pending_syncs')
    /\ Cardinality(pending_syncs') <= MaxPending
    /\ \A c \in Call : c \notin S => status'[c] = status[c]
    /\ \A c \in Call : status[c] \notin Waiting => status'[c] = status[c]
    /\ \A c \in Call : c \in S /\ status[c] \in Waiting => status'[c] = a
    /\ status' \in [Call -> {"idle", "called", "begun", "gone", "busy", "unknown", "failed",
                            "closed", "retired", "Delivered", "Dominated"}]

LEMMA AnswersLemma ==
    ASSUME IInv, NEW S, NEW a \in {"Delivered", "Dominated", "retired"}, answers(S, a)
    PROVE  Answers(S, a)
<1>1. /\ pending_syncs' = pending_syncs \ S /\ markers' = markers \ S /\ call' = call
      /\ status' = replied(S, a)
  BY DEF answers
<1>2. pending_syncs \subseteq Call /\ IsFiniteSet(pending_syncs) /\ Cardinality(pending_syncs) <= MaxPending
  BY DEF IInv, CallsKept, TypeOK
<1>3. /\ pending_syncs' \subseteq Call /\ IsFiniteSet(pending_syncs')
      /\ Cardinality(pending_syncs') <= MaxPending
  <2>1. pending_syncs' \in SUBSET pending_syncs
    BY <1>1
  <2>2. IsFiniteSet(pending_syncs') /\ Cardinality(pending_syncs') <= Cardinality(pending_syncs)
    BY <2>1, <1>2, FS_Subset
  <2>3. Cardinality(pending_syncs') \in Nat /\ Cardinality(pending_syncs) \in Nat /\ MaxPending \in Nat
    BY <2>2, <1>2, FS_CardinalityType, SyncAssumption
  <2> QED BY <2>1, <2>2, <2>3, <1>2
<1>4. status \in [Call -> {"idle", "called", "begun", "gone", "busy", "unknown", "failed",
                          "closed", "retired", "Delivered", "Dominated"}]
  BY DEF IInv, Typed
<1>5. \A c \in Call : status'[c] = IF c \in S /\ status[c] \in Waiting THEN a ELSE status[c]
  BY <1>1 DEF replied
<1>6. status' \in [Call -> {"idle", "called", "begun", "gone", "busy", "unknown", "failed",
                           "closed", "retired", "Delivered", "Dominated"}]
  BY <1>1, <1>4 DEF replied
<1> QED BY <1>1, <1>3, <1>5, <1>6 DEF Answers

\* What is left of the stream when its head x is consumed.
Consumed(x) ==
    /\ x \in Item /\ x = Next1 /\ pc = "select" /\ queue' \in Seq(Item)
    /\ \A n \in DOMAIN queue' : queue'[n].kind = "change" => queue'[n].id \in Change
    /\ x.kind = "change" => x.id \in Change
    /\ \A i : HasChange(queue', i) => HasChange(queue, i)
    /\ \A i : HasChange(queue, i) => HasChange(queue', i) \/ (x.kind = "change" /\ x.id = i)
    /\ \A c : HasMarker(queue', c) => HasMarker(queue, c)
    /\ \A c : HasMarker(queue, c) => HasMarker(queue', c) \/ (x.kind = "cookie" /\ x.id = c)
    /\ \A s : HasRescan(queue', s) => HasRescan(queue, s)
    /\ \A s : HasRescan(queue, s) => HasRescan(queue', s) \/ (x.kind = "rescan" /\ s \in x.of)
    /\ \A i, c : ChangeAhead(queue, i, c) => ChangeAhead(queue', i, c)
    /\ \A s, c : RescanAhead(queue, s, c)
                    => RescanAhead(queue', s, c) \/ (x.kind = "rescan" /\ s \in x.of)

LEMMA ConsumedLemma ==
    ASSUME IInv, NEW kind, consumes(kind)
    PROVE  Consumed(Next1) /\ Next1.kind = kind /\ Taken(queue)
<1>1. queue \in Seq(Item) /\ queue # <<>> /\ queue' = Tail(queue) /\ pc = "select" /\ Next1.kind = kind
  BY DEF IInv, Typed, consumes
<1>2. queue' \in Seq(Item) /\ Next1 \in Item /\ Taken(queue)
  BY <1>1, TakenLemma DEF Next1
<1>3. \A n \in DOMAIN queue' : queue'[n].kind = "change" => queue'[n].id \in Change
  <2>1. \A n \in DOMAIN queue' : queue'[n].kind = "change" => HasChange(queue', queue'[n].id)
    BY DEF HasChange, IsChange
  <2> QED BY <2>1, <1>1, <1>2, QueueKnown DEF Taken, IInv
<1>4. Next1.kind = "change" => Next1.id \in Change
  BY <1>1, QueueKnown DEF IInv, Next1
<1> QED BY <1>1, <1>2, <1>3, <1>4 DEF Consumed, Taken, Next1, IsChange, IsMarker, IsRescan

LEMMA ConsumeChangeIInv == ASSUME IInv, ConsumeChange PROVE IInv'
<1> DEFINE i0 == Next1.id
           s == at[i0]
<1>0. /\ consumes("change") /\ pc' = "top" /\ UNCHANGED <<todo, hit, cur>>
      /\ UNCHANGED <<at, claims, raises>> /\ UNCHANGED cvars /\ UNCHANGED <<unclaimed, live>>
      /\ \/ s \notin live /\ UNCHANGED evars
         \/ /\ s \in live /\ buffer' = [buffer EXCEPT ![s] = @ \cup {i0}]
            /\ UNCHANGED <<room, needs_rescan, suppressed_rescan, loss_serial, loss_gen, sent, covered>>
         \/ s \in live /\ Emits(s, {i0}, FALSE)
  BY DEF ConsumeChange, goes
<1>1. Consumed(Next1) /\ Next1.kind = "change"
  BY <1>0, ConsumedLemma
<1>2. i0 \in Change /\ s \in Sub
  BY <1>1, ChangesMade DEF Consumed, IInv
<1>3. /\ \A i : HasChange(queue', i) => HasChange(queue, i)
      /\ \A i : HasChange(queue, i) => HasChange(queue', i) \/ i = i0
      /\ \A c : HasMarker(queue', c) <=> HasMarker(queue, c)
      /\ \A t : HasRescan(queue', t) <=> HasRescan(queue, t)
      /\ \A i, c : ChangeAhead(queue, i, c) => ChangeAhead(queue', i, c)
      /\ \A t, c : RescanAhead(queue, t, c) => RescanAhead(queue', t, c)
      /\ pc = "select" /\ queue' \in Seq(Item)
      /\ \A n \in DOMAIN queue' : queue'[n].kind = "change" => queue'[n].id \in Change
  BY <1>1 DEF Consumed
<1> HIDE DEF i0, s
<1>4. /\ room' \in 0 .. Cap /\ loss_gen' \in Nat /\ loss_serial' \in [Sub -> Nat]
      /\ buffer' \in [Sub -> SUBSET Change]
      /\ needs_rescan' \subseteq Sub \ unclaimed /\ suppressed_rescan' \subseteq unclaimed
      /\ sent \subseteq sent' /\ covered \subseteq covered'
      /\ \A t : in_debt(t) => in_debt(t)'
      /\ \A i \in Change, t \in Sub :
            t = at[i] /\ (i \in sent \cup covered \cup buffer[t] \/ (i = i0 /\ t \in live))
               => i \in sent' \cup covered' \cup buffer'[t] \/ in_debt(t)'
      /\ \A c \in Call : status[c] # "idle" =>
            /\ LossNoted(c) => LossNoted(c)'
            /\ \/ LossNoted(c)'
               \/ \A i \in call[c].before :
                     i \in sent \cup buffer[call[c].sub] \/ (i = i0 /\ call[c].sub \in live)
                        => i \in sent' \cup buffer'[call[c].sub]
      /\ \A c \in Call : /\ call[c].gen <= loss_gen => call[c].gen <= loss_gen'
                         /\ \A t \in Sub : call[c].serial <= loss_serial[t] => call[c].serial <= loss_serial'[t]
  <2>0. \A c \in Call : status[c] # "idle" => call[c].sub \in Sub /\ \A i \in call[c].before : at[i] = call[c].sub
    BY DEF IInv, CallsKept, Of
  <2>1. CASE s \notin live /\ UNCHANGED evars
    <3>1. \A c : LossNoted(c)' <=> LossNoted(c)
      BY <1>0, <2>1 DEF LossNoted, evars, cvars, in_debt
    <3> QED BY <1>0, <2>0, <2>1, <3>1 DEF IInv, Typed, evars, in_debt, s
  <2>2. CASE /\ s \in live /\ buffer' = [buffer EXCEPT ![s] = @ \cup {i0}]
             /\ UNCHANGED <<room, needs_rescan, suppressed_rescan, loss_serial, loss_gen, sent, covered>>
    <3>1. \A c : LossNoted(c)' <=> LossNoted(c)
      BY <1>0, <2>2 DEF LossNoted, cvars, in_debt
    <3>2. /\ buffer' \in [Sub -> SUBSET Change] /\ i0 \in buffer'[s]
          /\ \A t \in Sub : buffer[t] \subseteq buffer'[t]
      BY <2>2, <1>2 DEF IInv, Typed
    <3> QED BY <2>0, <2>2, <3>1, <3>2 DEF IInv, Typed, in_debt, s
  <2>3. CASE s \in live /\ Emits(s, {i0}, FALSE)
    <3>1. Emitted(s, {i0}, FALSE) /\ EmissionCarries(s, {i0})
      BY <2>3, <1>2, EmittedLemma, EmissionLemma DEF IInv
    <3>2. \A c \in Call : call'[c] = call[c] /\ (c \in pending_syncs' <=> c \in pending_syncs)
      BY <1>0 DEF cvars
    <3> QED BY <2>0, <3>1, <3>2 DEF Emitted, EmissionCarries, s
  <2> QED BY <1>0, <2>1, <2>2, <2>3
<1>5. Typed' /\ TypeOK'
  BY <1>0, <1>3, <1>4 DEF IInv, Typed, TypeOK, Loop, cvars, Change
<1>6. InHand' /\ NoMarkerLeft' /\ BegunIsAwaited' /\ PendingIsAwaited'
  BY <1>0, <1>3 DEF IInv, InHand, NoMarkerLeft, BegunIsAwaited, PendingIsAwaited, cvars
<1>7. CallsKept'
  <2>1. \A t : Of(t)' = Of(t)
    BY <1>0 DEF Of, Change
  <2>2. live \subseteq Sub
    BY DEF IInv, Typed
  <2> QED BY <1>0, <1>3, <1>4, <2>1, <2>2 DEF IInv, CallsKept, cvars
<1>8. \A t : (Owed(t) => Owed(t)') /\ (in_debt(t)' => Owed(t)')
  BY <1>0, <1>3, <1>4 DEF Owed
<1>9. Accounted'
  <2>1. \A i \in Change : at[i] \in Sub
    BY ChangesMade DEF IInv
  <2> QED BY <2>1, <1>0, <1>3, <1>4, <1>8 DEF IInv, Accounted, Change
<1>10. DeliveredIsEmitted' /\ AnswerStands' /\ Ahead' /\ FannedOut'
  BY <1>0, <1>3, <1>4, <1>8 DEF IInv, DeliveredIsEmitted, AnswerStands, Answered, Ahead, FannedOut, cvars
<1>11. WindowSound'
  BY <1>0, <1>3, <1>4 DEF IInv, WindowSound, Noted, Waiting, cvars
<1> QED BY <1>5, <1>6, <1>7, <1>9, <1>10, <1>11 DEF IInv

LEMMA FanOutIInv == ASSUME IInv, NEW s \in Sub, FanOut(s) PROVE IInv'
<1>0. /\ pc = "fan" /\ s \in todo /\ Emits(s, buffer[s], TRUE) /\ todo' = todo \ {s}
      /\ UNCHANGED <<pc, cur, hit>> /\ UNCHANGED wvars /\ UNCHANGED cvars /\ UNCHANGED <<unclaimed, live>>
  BY DEF FanOut
<1>1. Emitted(s, buffer[s], TRUE) /\ EmissionCarries(s, buffer[s])
  <2>1. buffer[s] \in SUBSET Change
    BY DEF IInv, Typed
  <2> QED BY <2>1, <1>0, EmittedLemma, EmissionLemma DEF IInv
<1>2. Typed' /\ TypeOK'
  BY <1>0, <1>1 DEF IInv, Typed, TypeOK, Loop, Emitted, wvars, cvars, Change
<1>3. InHand' /\ NoMarkerLeft' /\ BegunIsAwaited' /\ PendingIsAwaited'
  BY <1>0 DEF IInv, InHand, NoMarkerLeft, BegunIsAwaited, PendingIsAwaited, wvars, cvars
<1>4. CallsKept'
  <2>1. \A t : Of(t)' = Of(t)
    BY <1>0 DEF wvars, Of, Change
  <2>2. live \subseteq Sub
    BY DEF IInv, Typed
  <2> QED BY <1>0, <1>1, <2>1, <2>2 DEF IInv, CallsKept, EmissionCarries, wvars, cvars
<1>5. /\ \A t : t # s /\ Owed(t) => Owed(t)'
      /\ \A t : in_debt(t)' => Owed(t)'
  BY <1>0, <1>1 DEF Owed, EmissionCarries, wvars
<1>6. in_debt(s)' \/ Of(s) \subseteq covered'
  BY <1>1 DEF Emitted, in_debt
<1>7. Accounted'
  <2>1. \A i \in Change : at[i] \in Sub
    BY ChangesMade DEF IInv
  <2>2. \A i \in Change : at[i] = s => i \in Of(s)
    BY DEF Of
  <2> QED BY <2>1, <2>2, <1>0, <1>1, <1>5, <1>6 DEF IInv, Accounted, EmissionCarries, wvars, Change
<1>8. sent \subseteq sent' /\ covered \subseteq covered'
  BY <1>1 DEF Emitted
<1>9. \A c \in Call : status[c] # "idle" /\ call[c].sub = s => call[c].before \subseteq Of(s)
  BY DEF IInv, CallsKept
<1>10. DeliveredIsEmitted' /\ AnswerStands' /\ Ahead'
  BY <1>0, <1>5, <1>6, <1>8, <1>9 DEF IInv, DeliveredIsEmitted, AnswerStands, Answered, Ahead, wvars, cvars
<1>11. FannedOut'
  <2>1. \A c \in pending_syncs : c \in Call /\ status[c] # "idle"
    BY DEF IInv, CallsKept
  <2> QED BY <2>1, <1>0, <1>1, <1>6, <1>8, <1>9 DEF IInv, FannedOut, EmissionCarries, wvars, cvars
<1>12. WindowSound'
  BY <1>0, <1>1 DEF IInv, WindowSound, Noted, Waiting, EmissionCarries, wvars, cvars
<1> QED BY <1>2, <1>3, <1>4, <1>7, <1>10, <1>11, <1>12 DEF IInv

LEMMA ConsumeCookieIInv == ASSUME IInv, ConsumeCookie PROVE IInv'
<1> DEFINE c == Next1.id
           s == call[c].sub
           a == IF flushed_cleanly(s) /\ ~lost_during_window(c) /\ ~call[c].dominated
                THEN "Delivered" ELSE "Dominated"
<1>0. /\ consumes("cookie") /\ pc' = "top" /\ UNCHANGED <<todo, hit, cur>>
      /\ UNCHANGED <<at, claims, raises>> /\ UNCHANGED <<unclaimed, live>>
      /\ \/ c \notin pending_syncs /\ UNCHANGED evars /\ UNCHANGED cvars
         \/ c \in pending_syncs /\ Emits(s, buffer[s], FALSE) /\ answers({c}, a)
  BY DEF ConsumeCookie, goes
<1>1. Consumed(Next1) /\ Next1.kind = "cookie" /\ Taken(queue)
  BY <1>0, ConsumedLemma
<1>2. IsMarker(Head(queue), c)
  BY <1>1 DEF Next1, IsMarker
<1>3. /\ \A i : HasChange(queue', i) <=> HasChange(queue, i)
      /\ \A d : HasMarker(queue', d) => HasMarker(queue, d)
      /\ \A d : HasMarker(queue, d) => HasMarker(queue', d) \/ d = c
      /\ \A t : HasRescan(queue', t) <=> HasRescan(queue, t)
      /\ \A i, d : ChangeAhead(queue, i, d) => ChangeAhead(queue', i, d)
      /\ \A t, d : RescanAhead(queue, t, d) => RescanAhead(queue', t, d)
      /\ pc = "select" /\ queue' \in Seq(Item)
      /\ \A n \in DOMAIN queue' : queue'[n].kind = "change" => queue'[n].id \in Change
  BY <1>1 DEF Consumed
<1>4. /\ \A t : ~RescanAhead(queue, t, c)
      /\ \A i : ChangeAhead(queue, i, c) => ~HasChange(queue, i)
  BY <1>1, <1>2 DEF Taken
<1> HIDE DEF c, s, a
<1>5. CASE c \notin pending_syncs /\ UNCHANGED evars /\ UNCHANGED cvars
  <2>1. Typed' /\ TypeOK'
    BY <1>0, <1>3, <1>5 DEF IInv, Typed, TypeOK, Loop, evars, cvars, Change
  <2>2. InHand' /\ CallsKept' /\ NoMarkerLeft' /\ BegunIsAwaited' /\ PendingIsAwaited'
    BY <1>0, <1>3, <1>5 DEF IInv, InHand, CallsKept, NoMarkerLeft, BegunIsAwaited, PendingIsAwaited,
       evars, cvars, Of, Change
  <2>3. \A t : Owed(t) => Owed(t)'
    BY <1>0, <1>3, <1>5 DEF Owed, evars, in_debt
  <2>4. Accounted' /\ DeliveredIsEmitted' /\ AnswerStands' /\ Ahead' /\ FannedOut'
    BY <1>0, <1>3, <1>5, <2>3 DEF IInv, Accounted, DeliveredIsEmitted, AnswerStands, Answered, Ahead,
       FannedOut, evars, cvars, Change
  <2>5. WindowSound'
    BY <1>0, <1>3, <1>5 DEF IInv, WindowSound, Noted, LossNoted, evars, cvars, in_debt
  <2> QED BY <2>1, <2>2, <2>4, <2>5 DEF IInv
<1>6. CASE c \in pending_syncs /\ Emits(s, buffer[s], FALSE) /\ answers({c}, a)
  <2>1. /\ c \in Call /\ s \in Sub /\ s \in live /\ s \notin unclaimed /\ status[c] \in {"begun", "gone"}
        /\ call[c].before \subseteq Of(s) /\ buffer[s] \in SUBSET Change
        /\ a \in {"Delivered", "Dominated"}
    BY <1>3, <1>6 DEF IInv, CallsKept, Typed, s, a
  <2>2. Emitted(s, buffer[s], FALSE) /\ EmissionCarries(s, buffer[s])
    BY <2>1, <1>6, EmittedLemma, EmissionLemma DEF IInv
  <2>3. Answers({c}, a)
    BY <2>1, <1>6, AnswersLemma
  <2>4. Typed' /\ TypeOK'
    BY <1>0, <1>3, <2>2, <2>3 DEF IInv, Typed, TypeOK, Loop, Emitted, Answers, Change
  <2>5. InHand' /\ NoMarkerLeft' /\ BegunIsAwaited' /\ PendingIsAwaited'
    BY <1>0, <1>3, <2>1, <2>3 DEF IInv, InHand, NoMarkerLeft, BegunIsAwaited, PendingIsAwaited, Answers,
       CallsKept
  <2>6. CallsKept'
    <3>1. \A t : Of(t)' = Of(t)
      BY <1>0 DEF Of, Change
    <3>2. live \subseteq Sub
      BY DEF IInv, Typed
    <3> QED BY <1>0, <1>3, <2>1, <2>2, <2>3, <3>1, <3>2 DEF IInv, CallsKept, EmissionCarries, Answers,
        Waiting
  <2>7. \A t : (Owed(t) => Owed(t)') /\ (in_debt(t)' => Owed(t)')
    BY <1>0, <1>3, <2>2 DEF Owed, EmissionCarries
  <2>8. Accounted'
    <3>1. \A i \in Change : at[i] \in Sub
      BY ChangesMade DEF IInv
    <3> QED BY <3>1, <1>0, <1>3, <2>2, <2>7 DEF IInv, Accounted, EmissionCarries, Change
  <2>9. sent \subseteq sent' /\ covered \subseteq covered'
    BY <2>2 DEF Emitted
  <2>10. \A i \in call[c].before : ~HasChange(queue, i)
    BY <1>4, <2>1 DEF IInv, Ahead
  <2>11. status'[c] = "Delivered" => call[c].before \subseteq sent'
    <3>1. SUFFICES ASSUME status'[c] = "Delivered" PROVE call[c].before \subseteq sent'
      OBVIOUS
    <3>2. status[c] \in Waiting /\ a = "Delivered"
      BY <3>1, <2>1, <2>3 DEF Answers, Waiting
    <3>3. /\ s \notin needs_rescan' /\ loss_serial[s] = call[c].serial /\ ~call[c].dominated
      BY <3>2 DEF a, s, flushed_cleanly, lost_during_window
    <3>4. buffer[s] \subseteq sent'
      BY <3>3, <2>1, <2>2 DEF Emitted
    <3>5. loss_serial[s] \in Nat
      BY <2>1 DEF IInv, Typed
    <3>6. ~Noted(c)
      BY <1>3, <1>4, <1>6, <3>3, <3>5 DEF Noted, LossNoted, s
    <3>7. \A i \in call[c].before : i \in sent \cup buffer[s]
      BY <3>2, <3>6, <2>1, <2>10 DEF IInv, WindowSound, s
    <3> QED BY <3>4, <3>7, <2>9
  <2>12. ASSUME NEW t, t = s PROVE Owed(t)' \/ call[c].before \subseteq sent' \cup covered'
    <3>1. CASE Owed(t)
      BY <3>1, <2>7
    <3>2. CASE ~Owed(t)
      <4>1. \A i \in call[c].before : i \in sent \cup covered \cup buffer[s]
        BY <3>2, <2>1, <2>10, <2>12 DEF IInv, Accounted, Of
      <4>2. in_debt(t)' \/ buffer[s] \subseteq sent'
        BY <2>2, <2>12 DEF Emitted, in_debt
      <4> QED BY <4>1, <4>2, <2>7, <2>9
    <3> QED BY <3>1, <3>2
  <2>13. DeliveredIsEmitted'
    BY <2>3, <2>9, <2>11 DEF IInv, DeliveredIsEmitted, Answered, Answers
  <2>14. AnswerStands'
    <3>1. ASSUME NEW d \in Call, NEW t, t = call[d].sub, status'[d] = "Dominated"
          PROVE  call[d].before \subseteq sent' \cup covered' \/ Owed(t)' \/ t \notin live
      <4>1. CASE d = c
        BY <4>1, <3>1, <2>12 DEF s
      <4>2. CASE d # c
        <5>1. status[d] = "Dominated"
          BY <3>1, <4>2, <2>3 DEF Answers
        <5>2. call[d].before \subseteq sent \cup covered \/ Owed(t) \/ t \notin live
          BY <5>1, <3>1 DEF IInv, AnswerStands, Answered
        <5> QED BY <5>2, <2>7, <2>9
      <4> QED BY <4>1, <4>2
    <3> QED BY <3>1, <1>0, <2>3 DEF AnswerStands, Answered, Answers
  <2>15. Ahead' /\ FannedOut'
    BY <1>0, <1>3, <2>3 DEF IInv, Ahead, FannedOut, Answers
  <2>16. WindowSound'
    <3>1. \A d \in Call : status'[d] \in Waiting => d # c /\ status[d] = status'[d]
      BY <2>1, <2>3 DEF Answers, Waiting
    <3> QED BY <3>1, <1>0, <1>3, <2>2, <2>3 DEF IInv, WindowSound, Noted, Waiting, EmissionCarries, Answers
  <2> QED BY <2>4, <2>5, <2>6, <2>8, <2>13, <2>14, <2>15, <2>16 DEF IInv
<1> QED BY <1>0, <1>5, <1>6

LEMMA ConsumeRescanIInv == ASSUME IInv, ConsumeRescan PROVE IInv'
<1> DEFINE T == Next1.of
<1>0. /\ consumes("rescan") /\ pc' = "fan" /\ todo' = T \cap live /\ hit' = T
      /\ UNCHANGED <<cur, at, claims, raises>> /\ UNCHANGED evars /\ UNCHANGED cvars
      /\ UNCHANGED <<unclaimed, live>>
  BY DEF ConsumeRescan
<1>1. Consumed(Next1) /\ Next1.kind = "rescan"
  BY <1>0, ConsumedLemma
<1>2. /\ \A i : HasChange(queue', i) <=> HasChange(queue, i)
      /\ \A c : HasMarker(queue', c) <=> HasMarker(queue, c)
      /\ \A s : HasRescan(queue', s) => HasRescan(queue, s)
      /\ \A s : HasRescan(queue, s) => HasRescan(queue', s) \/ s \in T
      /\ \A i, c : ChangeAhead(queue, i, c) => ChangeAhead(queue', i, c)
      /\ \A s, c : RescanAhead(queue, s, c) => RescanAhead(queue', s, c) \/ s \in T
      /\ pc = "select" /\ queue' \in Seq(Item) /\ T \subseteq Sub
      /\ \A n \in DOMAIN queue' : queue'[n].kind = "change" => queue'[n].id \in Change
  BY <1>1, ItemKinds DEF Consumed
<1> HIDE DEF T
<1>3. Typed' /\ TypeOK'
  BY <1>0, <1>2 DEF IInv, Typed, TypeOK, evars, cvars, Change
<1>4. InHand' /\ CallsKept' /\ NoMarkerLeft' /\ BegunIsAwaited' /\ PendingIsAwaited'
  BY <1>0, <1>2 DEF IInv, InHand, CallsKept, NoMarkerLeft, BegunIsAwaited, PendingIsAwaited,
     evars, cvars, Of, Change
<1>5. \A t \in live : Owed(t) => Owed(t)'
  BY <1>0, <1>2 DEF IInv, InHand, Owed, evars, in_debt
<1>6. Accounted' /\ DeliveredIsEmitted' /\ AnswerStands' /\ Ahead'
  BY <1>0, <1>2, <1>5 DEF IInv, Accounted, DeliveredIsEmitted, AnswerStands, Answered, Ahead,
     evars, cvars, Change
<1>7. FannedOut'
  BY <1>0 DEF IInv, CallsKept, FannedOut, evars, cvars
<1>8. WindowSound'
  BY <1>0, <1>2 DEF IInv, WindowSound, Noted, LossNoted, evars, cvars, in_debt
<1> QED BY <1>3, <1>4, <1>6, <1>7, <1>8 DEF IInv

LEMMA DominateIInv == ASSUME IInv, Dominate PROVE IInv'
<1>0. /\ pc = "fan" /\ todo = {} /\ loss_gen' = loss_gen + 1 /\ answers(pending_of(hit), "Dominated")
      /\ pc' = "top" /\ hit' = {} /\ UNCHANGED <<todo, cur>> /\ UNCHANGED wvars
      /\ UNCHANGED <<buffer, room, needs_rescan, suppressed_rescan, loss_serial, sent, covered>>
      /\ UNCHANGED <<unclaimed, live>>
  BY DEF Dominate, note_domination, rescan_affects
<1>1. Answers(pending_of(hit), "Dominated")
  BY <1>0, AnswersLemma
<1>2. /\ pending_of(hit) = {c \in pending_syncs : call[c].sub \in hit} /\ pending_syncs \subseteq Call
      /\ loss_gen \in Nat
  BY DEF pending_of, IInv, CallsKept, Typed
<1>3. Typed' /\ TypeOK'
  BY <1>0, <1>1, <1>2 DEF IInv, Typed, TypeOK, Loop, wvars, Answers, Change
<1>4. InHand' /\ NoMarkerLeft' /\ BegunIsAwaited' /\ PendingIsAwaited'
  BY <1>0, <1>1, <1>2 DEF IInv, InHand, NoMarkerLeft, BegunIsAwaited, PendingIsAwaited, wvars, Answers
<1>5. \A c \in Call : status[c] # "idle" => call[c].gen < loss_gen' /\ call[c].gen <= loss_gen'
  BY <1>0, <1>2 DEF IInv, CallsKept, Typed
<1>6. CallsKept'
  <2>1. \A t : Of(t)' = Of(t)
    BY <1>0 DEF wvars, Of, Change
  <2> QED BY <1>0, <1>1, <1>2, <1>5, <2>1 DEF IInv, CallsKept, wvars, Answers, Waiting
<1>7. \A t : (Owed(t) => Owed(t)') /\ (in_debt(t) => Owed(t)')
  BY <1>0 DEF Owed, wvars, in_debt
<1>8. Accounted' /\ DeliveredIsEmitted' /\ Ahead' /\ FannedOut'
  BY <1>0, <1>1, <1>7 DEF IInv, Accounted, DeliveredIsEmitted, Answered, Ahead, FannedOut, wvars, Change,
     Answers
<1>9. AnswerStands'
  <2>1. \A c \in Call : status'[c] = "Dominated" => status[c] = "Dominated" \/ c \in pending_of(hit)
    BY <1>1 DEF Answers
  <2>2. \A c \in pending_of(hit) : in_debt(call[c].sub) \/ call[c].before \subseteq sent \cup covered
    BY <1>0, <1>2 DEF IInv, FannedOut
  <2> QED BY <2>1, <2>2, <1>0, <1>1, <1>7 DEF IInv, AnswerStands, Answered, Answers
<1>10. WindowSound'
  <2>1. \A c \in Call : status'[c] \in Waiting => status[c] = status'[c] /\ c \notin pending_of(hit)
    BY <1>1 DEF Answers, Waiting
  <2>2. ASSUME NEW c \in Call, status'[c] \in Waiting, Noted(c) PROVE Noted(c)'
    <3>1. c \notin pending_syncs => LossNoted(c)'
      BY <2>1, <2>2, <1>0, <1>1, <1>5 DEF LossNoted, Answers, Waiting
    <3>2. c \in pending_syncs => c \in pending_syncs' /\ ~(call[c].sub \in hit)
      BY <2>1, <2>2, <1>1, <1>2 DEF Answers
    <3> QED BY <3>1, <3>2, <2>2, <1>0, <1>1 DEF Noted, LossNoted, Answers, wvars
  <2> QED BY <2>1, <2>2, <1>0, <1>1 DEF IInv, WindowSound, wvars, Answers
<1> QED BY <1>3, <1>4, <1>6, <1>8, <1>9, <1>10 DEF IInv

LEMMA FilterUnwindsIInv == ASSUME IInv, FilterUnwinds PROVE IInv'
<1>0. PICK s : /\ s = at[Next1.id] /\ s \in live /\ parks({s}) /\ answers(pending_of({s}), "Dominated")
               /\ consumes("change") /\ raises' = raises + 1
               /\ pc' = "top" /\ UNCHANGED <<todo, hit, cur, at, claims, unclaimed, live>>
  BY DEF FilterUnwinds, goes
<1>1. Consumed(Next1) /\ Next1.kind = "change"
  BY <1>0, ConsumedLemma
<1>2. s \in Sub /\ Parked({s}) /\ Answers(pending_of({s}), "Dominated")
  <2>1. s \in Sub
    BY <1>0 DEF IInv, Typed
  <2> QED BY <2>1, <1>0, ParkedLemma, AnswersLemma DEF IInv
<1>3. /\ \A i : HasChange(queue', i) => HasChange(queue, i)
      /\ \A i : HasChange(queue, i) => HasChange(queue', i) \/ at[i] = s
      /\ \A c : HasMarker(queue', c) <=> HasMarker(queue, c)
      /\ \A t : HasRescan(queue', t) <=> HasRescan(queue, t)
      /\ \A i, c : ChangeAhead(queue, i, c) => ChangeAhead(queue', i, c)
      /\ \A t, c : RescanAhead(queue, t, c) => RescanAhead(queue', t, c)
      /\ pc = "select" /\ queue' \in Seq(Item)
      /\ \A n \in DOMAIN queue' : queue'[n].kind = "change" => queue'[n].id \in Change
  BY <1>0, <1>1 DEF Consumed
<1>4. /\ pending_of({s}) = {c \in pending_syncs : call[c].sub = s} /\ pending_syncs \subseteq Call
      /\ pending_of({s}) \subseteq Call
  BY DEF pending_of, IInv, CallsKept
<1>5. /\ \A t : in_debt(t)' <=> in_debt(t) \/ t = s
      /\ \A c \in Call : /\ call[c].gen <= loss_gen => call[c].gen < loss_gen' /\ call[c].gen <= loss_gen'
                         /\ \A t \in Sub : call[c].serial <= loss_serial[t] => call[c].serial <= loss_serial'[t]
                         /\ \A t \in Sub : call[c].serial < loss_serial[t] => call[c].serial < loss_serial'[t]
  <2>1. \A t : in_debt(t)' <=> in_debt(t) \/ t = s
    BY <1>2 DEF Parked, in_debt
  <2>2. /\ loss_gen \in Nat /\ loss_gen' \in Nat /\ loss_gen < loss_gen'
        /\ \A t \in Sub : loss_serial[t] \in Nat /\ loss_serial'[t] \in Nat /\ loss_serial[t] <= loss_serial'[t]
        /\ \A c \in Call : call[c].gen \in Nat /\ call[c].serial \in Nat
    BY <1>2 DEF Parked, IInv, Typed
  <2> QED BY <2>1, <2>2
<1>6. Typed' /\ TypeOK'
  <2>1. raises' \in Nat
    BY <1>0 DEF IInv, Typed
  <2> QED BY <2>1, <1>0, <1>2, <1>3 DEF IInv, Typed, TypeOK, Loop, Parked, Answers, Change
<1>7. InHand' /\ NoMarkerLeft' /\ BegunIsAwaited' /\ PendingIsAwaited'
  BY <1>0, <1>2, <1>3, <1>4 DEF IInv, InHand, NoMarkerLeft, BegunIsAwaited, PendingIsAwaited, Answers,
     CallsKept
<1>8. CallsKept'
  <2>1. \A t : Of(t)' = Of(t)
    BY <1>0 DEF Of, Change
  <2>2. live \subseteq Sub
    BY DEF IInv, Typed
  <2> QED BY <1>0, <1>2, <1>3, <1>4, <1>5, <2>1, <2>2 DEF IInv, CallsKept, Answers, Waiting
<1>9. \A t : (Owed(t) => Owed(t)') /\ (in_debt(t)' => Owed(t)')
  BY <1>0, <1>3, <1>5 DEF Owed
<1>10. Accounted'
  <2>1. \A i \in Change : at[i] \in Sub
    BY ChangesMade DEF IInv
  <2>2. Owed(s)'
    BY <1>5, <1>9
  <2> QED BY <2>1, <2>2, <1>0, <1>2, <1>3, <1>9 DEF IInv, Accounted, Parked, Change
<1>11. AnswerStands'
  <2>1. ASSUME NEW d \in Call, NEW t, t = call[d].sub, status'[d] = "Dominated"
        PROVE  call[d].before \subseteq sent' \cup covered' \/ Owed(t)' \/ t \notin live
    <3>1. CASE t = s
      BY <3>1, <1>5, <1>9
    <3>2. CASE t # s
      <4>1. status[d] = "Dominated"
        BY <2>1, <3>2, <1>2, <1>4 DEF Answers
      <4> QED BY <4>1, <2>1, <1>2, <1>9 DEF IInv, AnswerStands, Answered, Parked
    <3> QED BY <3>1, <3>2
  <2> QED BY <2>1, <1>0, <1>2 DEF AnswerStands, Answered, Answers
<1>12. DeliveredIsEmitted' /\ Ahead' /\ FannedOut'
  BY <1>0, <1>2, <1>3 DEF IInv, DeliveredIsEmitted, Answered, Ahead, FannedOut, Parked, Answers
<1>13. WindowSound'
  <2>1. \A c \in Call : status'[c] \in Waiting =>
          /\ status[c] = status'[c] /\ c \notin pending_of({s}) /\ call[c].gen <= loss_gen
          /\ call[c].sub \in Sub /\ \A i \in call[c].before : at[i] = call[c].sub
    BY <1>2, <1>4 DEF Answers, Waiting, IInv, CallsKept, Of
  <2>2. ASSUME NEW c \in Call, status'[c] \in Waiting, Noted(c) PROVE Noted(c)'
    BY <2>1, <2>2, <1>0, <1>2, <1>3, <1>5 DEF Noted, LossNoted, Answers
  <2>3. ASSUME NEW c \in Call, status'[c] \in Waiting, call[c].sub = s PROVE Noted(c)'
    <3>1. c \notin pending_syncs'
      BY <2>1, <2>3, <1>2, <1>4 DEF Answers
    <3> QED BY <3>1, <2>1, <2>3, <1>2, <1>5 DEF Noted, LossNoted, Answers
  <2>4. ASSUME NEW c \in Call, status'[c] \in Waiting, call[c].sub # s, NEW i \in call[c].before,
               i \in sent \cup buffer[call[c].sub] \/ HasChange(queue, i)
        PROVE  i \in sent' \cup buffer'[call[c].sub] \/ HasChange(queue', i)
    BY <2>1, <2>4, <1>2, <1>3 DEF Parked
  <2> QED BY <2>1, <2>2, <2>3, <2>4, <1>0, <1>2 DEF IInv, WindowSound, Answers
<1> QED BY <1>6, <1>7, <1>8, <1>10, <1>11, <1>12, <1>13 DEF IInv

-----------------------------------------------------------------------------
(* Roots are re-pointed and die, subscriptions end, and the owner does.    *)

LEMMA RepointIInv == ASSUME IInv, NEW kept \in BOOLEAN, Repoint(kept) PROVE IInv'
<1>0. /\ pc = "select" /\ raises' = raises + 1 /\ pc' = "fan" /\ todo' = live /\ hit' = live
      /\ queue' = queue \/ queue' = <<>>
      /\ buffer' = [t \in Sub |-> {}]
      /\ UNCHANGED <<cur, at, claims, room, needs_rescan, suppressed_rescan, loss_serial, loss_gen,
                     sent, covered, unclaimed, live>> /\ UNCHANGED cvars
  BY DEF Repoint
<1>1. /\ queue' \in Seq(Item)
      /\ \A n \in DOMAIN queue' : queue'[n].kind = "change" => queue'[n].id \in Change
      /\ \A c : HasMarker(queue', c) => HasMarker(queue, c)
      /\ \A i, c : ChangeAhead(queue, i, c) => ChangeAhead(queue', i, c)
  <2>1. CASE queue' = queue
    BY <2>1 DEF IInv, Typed
  <2>2. CASE queue' = <<>>
    BY <2>2 DEF HasMarker, ChangeAhead
  <2> QED BY <1>0, <2>1, <2>2
<1>2. Typed' /\ TypeOK'
  BY <1>0, <1>1 DEF IInv, Typed, TypeOK, Loop, cvars, Change
<1>3. InHand' /\ CallsKept' /\ NoMarkerLeft' /\ BegunIsAwaited' /\ PendingIsAwaited'
  BY <1>0, <1>1 DEF IInv, InHand, CallsKept, NoMarkerLeft, BegunIsAwaited, PendingIsAwaited, cvars,
     Of, Change
<1>4. \A t \in live : Owed(t)'
  BY <1>0 DEF Owed
<1>5. Accounted' /\ DeliveredIsEmitted' /\ AnswerStands' /\ Ahead' /\ FannedOut'
  BY <1>0, <1>1, <1>4 DEF IInv, Accounted, DeliveredIsEmitted, AnswerStands, Answered, Ahead, FannedOut,
     cvars, Change
<1>6. WindowSound'
  BY <1>0 DEF IInv, WindowSound, Noted, cvars
<1> QED BY <1>2, <1>3, <1>5, <1>6 DEF IInv

LEMMA RetireIInv == ASSUME IInv, Retire PROVE IInv'
<1>0. /\ pc = "select" /\ live' = {} /\ queue' = <<>> /\ pc' = "top"
      /\ UNCHANGED <<todo, hit, cur, at, claims, raises, unclaimed>>
      /\ parks(live) /\ answers(pending_of(live), "Dominated")
  BY DEF Retire, goes
<1>1. Parked(live) /\ Answers(pending_of(live), "Dominated")
  <2>1. live \in SUBSET Sub
    BY DEF IInv, Typed
  <2> QED BY <2>1, <1>0, ParkedLemma, AnswersLemma DEF IInv
<1>2. /\ pending_syncs' = {}
      /\ \A c \in Call : status[c] = "begun" => c \in pending_of(live)
  BY <1>0, <1>1 DEF pending_of, Answers, IInv, CallsKept
<1>3. \A i, c : ~HasChange(queue', i) /\ ~HasMarker(queue', c) /\ ChangeAhead(queue', i, c)
  BY <1>0 DEF HasChange, HasMarker, ChangeAhead
<1>4. Typed' /\ TypeOK'
  BY <1>0, <1>1, <1>3 DEF IInv, Typed, TypeOK, Loop, Parked, Answers, Change
<1>5. InHand' /\ NoMarkerLeft' /\ BegunIsAwaited' /\ PendingIsAwaited'
  BY <1>0, <1>1, <1>2 DEF IInv, InHand, NoMarkerLeft, BegunIsAwaited, PendingIsAwaited, Answers,
     CallsKept, pending_of
<1>6. CallsKept'
  <2>1. \A t : Of(t)' = Of(t)
    BY <1>0 DEF Of, Change
  <2>2. \A c \in Call : status[c] # "idle" => call[c].gen <= loss_gen'
    BY <1>1 DEF IInv, CallsKept, Typed, Parked
  <2>3. \A c \in Call : status'[c] # "begun" /\ (status'[c] # "idle" <=> status[c] # "idle")
    BY <1>1, <1>2 DEF Answers, Waiting
  <2> QED BY <1>0, <1>1, <1>2, <1>3, <2>1, <2>2, <2>3 DEF IInv, CallsKept, Answers
<1>7. Accounted' /\ AnswerStands' /\ WindowSound' /\ Ahead' /\ FannedOut'
  BY <1>0, <1>1, <1>3 DEF Accounted, AnswerStands, WindowSound, Ahead, FannedOut, Answers
<1>8. DeliveredIsEmitted'
  BY <1>1 DEF IInv, DeliveredIsEmitted, Answered, Answers, Parked
<1> QED BY <1>4, <1>5, <1>6, <1>7, <1>8 DEF IInv

LEMMA UnwatchIInv == ASSUME IInv, NEW s \in Sub, Unwatch(s) PROVE IInv'
<1>0. /\ pc = "select" /\ live' = live \ {s} /\ unclaimed' = unclaimed \ {s}
      /\ needs_rescan' = needs_rescan \ {s} /\ suppressed_rescan' = suppressed_rescan \ {s}
      /\ buffer' = [buffer EXCEPT ![s] = {}] /\ loss_serial' = [loss_serial EXCEPT ![s] = 0]
      /\ answers(pending_of({s}), "retired") /\ pc' = "top"
      /\ UNCHANGED <<todo, hit, cur, room, loss_gen, sent, covered>> /\ UNCHANGED wvars
  BY DEF Unwatch, goes
<1>1. Answers(pending_of({s}), "retired")
  BY <1>0, AnswersLemma
<1>2. /\ pending_of({s}) = {c \in pending_syncs : call[c].sub = s} /\ pending_syncs \subseteq Call
      /\ \A c \in pending_syncs' : c \in pending_syncs /\ call[c].sub # s
  BY <1>1 DEF pending_of, IInv, CallsKept, Answers
<1>3. /\ loss_serial' \in [Sub -> Nat] /\ buffer' \in [Sub -> SUBSET Change]
      /\ \A t \in Sub : t # s => loss_serial'[t] = loss_serial[t] /\ buffer'[t] = buffer[t]
      /\ \A t : t # s => (in_debt(t)' <=> in_debt(t))
  BY <1>0 DEF IInv, Typed, in_debt
<1>4. Typed' /\ TypeOK'
  BY <1>0, <1>1, <1>3 DEF IInv, Typed, TypeOK, Loop, wvars, Answers, Change
<1>5. InHand' /\ NoMarkerLeft' /\ BegunIsAwaited' /\ PendingIsAwaited'
  BY <1>0, <1>1, <1>2 DEF IInv, InHand, NoMarkerLeft, BegunIsAwaited, PendingIsAwaited, Answers, wvars,
     CallsKept
<1>6. CallsKept'
  <2>1. \A t : Of(t)' = Of(t)
    BY <1>0 DEF Of, Change, wvars
  <2>2. live \subseteq Sub
    BY DEF IInv, Typed
  <2> QED BY <1>0, <1>1, <1>2, <1>3, <2>1, <2>2 DEF IInv, CallsKept, Answers, wvars, Waiting
<1>7. \A t : t # s /\ Owed(t) => Owed(t)'
  BY <1>0, <1>3 DEF Owed, wvars
<1>8. Accounted'
  <2>1. \A i \in Change : at[i] \in Sub
    BY ChangesMade DEF IInv
  <2> QED BY <2>1, <1>0, <1>3, <1>7 DEF IInv, Accounted, wvars, Change
<1>9. DeliveredIsEmitted' /\ AnswerStands' /\ Ahead' /\ FannedOut'
  BY <1>0, <1>1, <1>7 DEF IInv, DeliveredIsEmitted, AnswerStands, Answered, Ahead, FannedOut, Answers, wvars
<1>10. WindowSound'
  <2>1. \A c \in Call : status'[c] \in Waiting =>
          /\ status[c] = status'[c] /\ call[c].sub \in Sub
          /\ call[c].sub # s => (c \in pending_syncs' <=> c \in pending_syncs)
    BY <1>1, <1>2 DEF Answers, Waiting, IInv, CallsKept
  <2>2. ASSUME NEW c \in Call, status'[c] \in Waiting, call[c].sub # s, Noted(c) PROVE Noted(c)'
    BY <2>1, <2>2, <1>0, <1>1, <1>3 DEF Noted, LossNoted, Answers, wvars
  <2> QED BY <2>1, <2>2, <1>0, <1>1, <1>3 DEF IInv, WindowSound, Answers, wvars
<1> QED BY <1>4, <1>5, <1>6, <1>8, <1>9, <1>10 DEF IInv

LEMMA CloseIInv == ASSUME IInv, Close PROVE IInv'
<1>0. /\ pc \in Loop \cup {"write"} /\ pc' = "ended" /\ cur' = None
      /\ status' = [c \in Call |-> IF status[c] \in Waiting THEN "closed" ELSE status[c]]
      /\ pending_syncs' = {} /\ markers' = markers \ (pending_syncs \cup {cur})
      /\ UNCHANGED <<todo, hit, call>> /\ UNCHANGED wvars /\ UNCHANGED evars
      /\ UNCHANGED <<unclaimed, live>>
  BY DEF Close
<1>1. markers' = {} /\ MaxPending \in Nat
  BY <1>0, SyncAssumption DEF IInv, NoMarkerLeft
<1>2. /\ \A c \in Call : /\ status'[c] \notin Waiting
                         /\ status[c] \notin Waiting => status'[c] = status[c]
                         /\ status[c] \in Waiting => status'[c] = "closed"
      /\ status' \in [Call -> {"idle", "called", "begun", "gone", "busy", "unknown", "failed",
                            "closed", "retired", "Delivered", "Dominated"}]
  BY <1>0 DEF IInv, Typed, Waiting
<1>3. Typed' /\ TypeOK'
  BY <1>0, <1>1, <1>2, FS_EmptySet DEF IInv, Typed, TypeOK, Loop, wvars, evars, Change
<1>4. InHand' /\ NoMarkerLeft' /\ BegunIsAwaited' /\ PendingIsAwaited'
  BY <1>0, <1>1 DEF IInv, InHand, NoMarkerLeft, BegunIsAwaited, PendingIsAwaited, Loop
<1>5. CallsKept'
  <2>1. \A t : Of(t)' = Of(t)
    BY <1>0 DEF Of, Change, wvars
  <2> QED BY <1>0, <1>2, <2>1, FS_EmptySet DEF IInv, CallsKept, wvars, evars, Waiting
<1>6. \A t : Owed(t) => Owed(t)'
  BY <1>0 DEF Owed, wvars, evars, in_debt
<1>7. Accounted' /\ DeliveredIsEmitted' /\ AnswerStands' /\ Ahead' /\ FannedOut' /\ WindowSound'
  BY <1>0, <1>2, <1>6 DEF IInv, Accounted, DeliveredIsEmitted, AnswerStands, Answered, Ahead, FannedOut,
     WindowSound, wvars, evars, Change
<1> QED BY <1>3, <1>4, <1>5, <1>7 DEF IInv

-----------------------------------------------------------------------------
LEMMA StutterIInv == ASSUME IInv, UNCHANGED vars PROVE IInv'
<1>1. UNCHANGED wvars /\ UNCHANGED evars /\ UNCHANGED cvars /\ UNCHANGED ovars /\ UNCHANGED <<unclaimed, live>>
  BY DEF vars
<1>2. Typed' /\ TypeOK' /\ InHand' /\ CallsKept' /\ NoMarkerLeft' /\ BegunIsAwaited' /\ PendingIsAwaited'
  BY <1>1 DEF IInv, Typed, TypeOK, InHand, CallsKept, NoMarkerLeft, BegunIsAwaited, PendingIsAwaited,
     wvars, evars, cvars, ovars, Of, Change
<1>3. \A t : Owed(t) <=> Owed(t)'
  BY <1>1 DEF Owed, wvars, evars, ovars, in_debt
<1>4. Accounted' /\ DeliveredIsEmitted' /\ AnswerStands' /\ Ahead' /\ FannedOut' /\ WindowSound'
  BY <1>1, <1>3 DEF IInv, Accounted, DeliveredIsEmitted, AnswerStands, Answered, Ahead, FannedOut,
     WindowSound, Noted, LossNoted, wvars, evars, cvars, ovars, Change, in_debt
<1> QED BY <1>2, <1>4 DEF IInv

LEMMA NextIInv == ASSUME IInv, [Next]_vars PROVE IInv'
<1>1. CASE World
  BY <1>1, HappensIInv, ClaimIInv, SourceLosesIInv, RecvIInv, GivesUpIInv, CallsIInv DEF World
<1>2. CASE Begins
  BY <1>2, WritesIInv, InstalledIInv, RefusedIInv, AbandonedIInv DEF Begins
<1>3. CASE FlushEnd \/ Wakes
  <2>1. /\ pc \in {"flush", "select"} /\ pc' \in {"select", "top"} /\ UNCHANGED <<todo, hit, cur>>
        /\ UNCHANGED wvars /\ UNCHANGED evars /\ UNCHANGED cvars /\ UNCHANGED <<unclaimed, live>>
    BY <1>3 DEF FlushEnd, Wakes, goes
  <2> QED BY <2>1, GoesOnIInv
<1>4. CASE Turns
  BY <1>3, <1>4, TopIInv, DrainIInv, FlushClearIInv, FlushSendIInv, SettlesIInv, FanOutIInv DEF Turns
<1>5. CASE Consumes
  BY <1>5, ConsumeChangeIInv, ConsumeCookieIInv, ConsumeRescanIInv, DominateIInv DEF Consumes
<1>6. CASE Ends
  BY <1>6, RetireIInv, CloseIInv, UnwatchIInv DEF Ends
<1>7. CASE FilterUnwinds \/ (\E kept \in BOOLEAN : Repoint(kept)) \/ \E c \in Call : Admit(c)
  BY <1>7, FilterUnwindsIInv, RepointIInv, AdmitIInv
<1>8. CASE UNCHANGED vars
  BY <1>8, StutterIInv
<1> QED BY <1>1, <1>2, <1>4, <1>5, <1>6, <1>7, <1>8 DEF Next

\* The inductive invariant holds of every reachable state: where every change,
\* every marker and every loss a call must own up to is, at every step of the
\* owner and of its callers.
THEOREM SyncInvariant == Spec => []IInv
<1>1. IInv /\ [Next]_vars => IInv'
  BY NextIInv
<1> QED BY <1>1, InitIInv, PTL DEF Spec

\* Delivered is true, however many calls, subscriptions and losses there are
\* and wherever between call and answer they meet
\* (`resolve_matching_pending_sync`).
THEOREM DeliveredTheorem == Spec => []DeliveredIsEmitted
<1>1. IInv => DeliveredIsEmitted
  BY DEF IInv
<1> QED BY <1>1, SyncInvariant, PTL

\* Dominated is true: a Rescan stands for what was not delivered, at every
\* later state in which the owner's loop is between two items.
THEOREM DominatedTheorem == Spec => []DominatedIsOwed
<1>1. IInv => DominatedIsOwed
  <2>1. ASSUME IInv, pc \notin {"fan", "ended"} PROVE DominatedIsOwed
    <3>1. todo = {}
      BY <2>1 DEF IInv, InHand
    <3> QED BY <2>1, <3>1 DEF IInv, AnswerStands, Owed, DominatedIsOwed
  <2> QED BY <2>1 DEF DominatedIsOwed
<1> QED BY <1>1, SyncInvariant, PTL

\* Markers on the disk and calls that wait account for each other, and the
\* calls that wait stay within MAX_PENDING_SYNCS.
THEOREM MarkersTheorem == Spec => []MarkersAccounted
<1>1. IInv => MarkersAccounted
  BY DEF IInv, MarkersAccounted
<1> QED BY <1>1, SyncInvariant, PTL

=============================================================================

--------------------------- MODULE CoalescerProofs ---------------------------
(***************************************************************************)
(* Machine-checked proofs about the coalescer, for all subscriptions,      *)
(* paths, windows and caps, and however often it is used.                  *)
(***************************************************************************)
EXTENDS Coalescer, ListProofs, SequenceTheorems

\* A slot is a subscription and a path.
LEMMA SlotShape ==
    ASSUME NEW k \in Slot
    PROVE  k[1] \in Sub /\ k[2] \in Path /\ k = <<k[1], k[2]>> /\ k[1] \in Nat
<1>1. k[1] \in Sub /\ k[2] \in Path /\ k = <<k[1], k[2]>>
  BY DEF Slot
<1> QED BY <1>1, SubAssumption

\* What is emitted for a slot.
LEMMA EventOfSlot ==
    ASSUME HeldTyped, NEW k \in DOMAIN buffer
    PROVE  /\ EventOf(k) \in Event /\ EventOf(k).sub = k[1] /\ EventOf(k).epoch = buffer[k].epoch
           /\ k \in Slot /\ k[1] \in Sub /\ k[1] \in Nat
           /\ buffer[k].epoch \in Nat /\ buffer[k].seq \in Nat
           /\ buffer[k].emit_at \in Nat /\ buffer[k].first_seen \in Nat /\ buffer[k].kind \in Lifecycle
<1>1. k \in Slot /\ buffer[k] \in Buffered
  BY DEF HeldTyped
<1>2. k[1] \in Sub /\ k[2] \in Path /\ k[1] \in Nat
  BY <1>1, SlotShape
<1>3. /\ buffer[k].kind \in Lifecycle /\ buffer[k].epoch \in Nat /\ buffer[k].seq \in Nat
      /\ buffer[k].emit_at \in Nat /\ buffer[k].first_seen \in Nat
  BY <1>1 DEF Buffered
<1> QED BY <1>1, <1>2, <1>3 DEF EventOf, Event, Kind

\* The drain order: each slot of K is emitted once, and the slots of one
\* subscription by their admission sequence.
LEMMA SortedElements ==
    ASSUME HeldTyped, SeqOrdersEpochs, NEW K \in SUBSET DOMAIN buffer
    PROVE  /\ Sorted(K) \in Seq(Event) /\ DOMAIN Sorted(K) = 1 .. Len(Sorted(K))
           /\ Len(Sorted(K)) \in Nat
           /\ \A i \in DOMAIN Sorted(K) : \E k \in K : Sorted(K)[i] = EventOf(k)
           /\ \A k \in K : \E i \in DOMAIN Sorted(K) : Sorted(K)[i] = EventOf(k)
           /\ \A i, j \in DOMAIN Sorted(K) :
                 i < j /\ Sorted(K)[i].sub = Sorted(K)[j].sub => Sorted(K)[i].epoch <= Sorted(K)[j].epoch
<1> DEFINE below == [k \in K |-> {j \in K : Less(j, k)}]
           slot(n) == CHOOSE k \in K : Cardinality({j \in K : Less(j, k)}) + 1 = n
<1>1. IsFiniteSet(K) /\ Cardinality(K) \in Nat
  BY FS_Subset, FS_CardinalityType DEF HeldTyped
<1>2. \A k \in K : k \in DOMAIN buffer /\ k[1] \in Nat /\ buffer[k].seq \in Nat /\ buffer[k].epoch \in Nat
  BY EventOfSlot
<1>3. \A j, k \in K : j[1] = k[1] /\ j # k => buffer[j].seq # buffer[k].seq
  BY <1>2 DEF SeqOrdersEpochs
<1>4. /\ \A a, b \in K : a \in below[b] <=> Cardinality(below[a]) + 1 < Cardinality(below[b]) + 1
      /\ \A n \in 1 .. Cardinality(K) : \E k \in K : Cardinality(below[k]) + 1 = n
      /\ \A k \in K : Cardinality(below[k]) + 1 \in 1 .. Cardinality(K)
      /\ \A a, b \in K : Cardinality(below[a]) + 1 = Cardinality(below[b]) + 1 => a = b
  <2>1. \A k \in K : below[k] \subseteq K /\ k \notin below[k]
    BY <1>2 DEF Less
  <2>2. \A a, b \in K : a # b => a \in below[b] \/ b \in below[a]
    BY <1>2, <1>3 DEF Less
  <2>3. \A a, b \in K : a \in below[b] => below[a] \subseteq below[b]
    <3> SUFFICES ASSUME NEW a \in K, NEW b \in K, Less(a, b), NEW j \in K, Less(j, a)
                 PROVE  Less(j, b)
      OBVIOUS
    <3> QED BY <1>2 DEF Less
  <2> HIDE DEF below
  <2> QED BY <1>1, <2>1, <2>2, <2>3, Ranks
<1>5. \A n \in 1 .. Cardinality(K) : slot(n) \in K /\ Cardinality(below[slot(n)]) + 1 = n
  <2> SUFFICES ASSUME NEW n \in 1 .. Cardinality(K)
               PROVE  slot(n) \in K /\ Cardinality(below[slot(n)]) + 1 = n
    OBVIOUS
  <2>1. \E k \in K : Cardinality({j \in K : Less(j, k)}) + 1 = n
    BY <1>4
  <2>2. slot(n) \in K /\ Cardinality({j \in K : Less(j, slot(n))}) + 1 = n
    BY <2>1
  <2> QED BY <2>2
<1>6. Sorted(K) = [n \in 1 .. Cardinality(K) |-> EventOf(slot(n))]
  BY DEF Sorted
<1> HIDE DEF slot, below
<1>7. ASSUME NEW m \in 1 .. Cardinality(K), NEW n \in 1 .. Cardinality(K), m < n
      PROVE  Less(slot(m), slot(n))
  <2>1. slot(m) \in below[slot(n)]
    BY <1>4, <1>5, <1>7
  <2> QED BY <2>1, <1>5 DEF below
<1>8. \A n \in 1 .. Cardinality(K) : /\ Sorted(K)[n] = EventOf(slot(n)) /\ EventOf(slot(n)) \in Event
                                    /\ Sorted(K)[n].sub = slot(n)[1]
                                    /\ Sorted(K)[n].epoch = buffer[slot(n)].epoch
  BY <1>2, <1>5, <1>6, EventOfSlot
<1>9. Sorted(K) \in Seq(Event) /\ Len(Sorted(K)) = Cardinality(K) /\ DOMAIN Sorted(K) = 1 .. Cardinality(K)
  BY <1>1, <1>6, <1>8
<1>10. ASSUME NEW m \in 1 .. Cardinality(K), NEW n \in 1 .. Cardinality(K), m < n,
              slot(m)[1] = slot(n)[1]
       PROVE  buffer[slot(m)].epoch <= buffer[slot(n)].epoch
  <2>1. Less(slot(m), slot(n)) /\ slot(m) \in DOMAIN buffer /\ slot(n) \in DOMAIN buffer
    BY <1>2, <1>5, <1>7, <1>10
  <2>2. buffer[slot(m)].seq < buffer[slot(n)].seq /\ slot(m) # slot(n)
    BY <1>2, <1>5, <1>10, <2>1 DEF Less
  <2> QED BY <2>1, <2>2, <1>10 DEF SeqOrdersEpochs
<1>11. ASSUME NEW k \in K
       PROVE  \E i \in DOMAIN Sorted(K) : Sorted(K)[i] = EventOf(k)
  <2> DEFINE n == Cardinality(below[k]) + 1
  <2>1. n \in 1 .. Cardinality(K)
    BY <1>4
  <2>2. slot(n) = k
    BY <1>4, <1>5, <2>1
  <2> HIDE DEF n
  <2> QED BY <1>8, <1>9, <2>1, <2>2
<1> QED BY <1>1, <1>5, <1>8, <1>9, <1>10, <1>11

-----------------------------------------------------------------------------
(* What the changes of the books preserve.                                 *)

\* The windows and caps are naturals.
LEMMA ConfigTyped ==
    \A s \in Sub : config(s).quiet_window \in Nat /\ config(s).max_hold \in Nat
BY PolicyAssumption DEF config, Config

\* Slots leave: every removal path keeps the index and the counts exact.
LEMMA SlotsRemoved ==
    ASSUME HeldTyped, IndexExact, NEW K \in SUBSET DOMAIN buffer, without(K), counted_without(K)
    PROVE  /\ DOMAIN buffer' = DOMAIN buffer \ K
           /\ \A k \in DOMAIN buffer' : buffer'[k] = buffer[k]
           /\ HeldTyped' /\ IndexExact'
<1>1. /\ DOMAIN buffer' = DOMAIN buffer \ K
      /\ \A k \in DOMAIN buffer' : buffer'[k] = buffer[k]
      /\ deadlines' = {d \in deadlines : d[2] \notin K}
  BY DEF without
<1>2. IsFiniteSet(DOMAIN buffer) /\ IsFiniteSet(DOMAIN buffer') /\ DOMAIN buffer' \subseteq Slot
  BY <1>1, FS_Subset DEF HeldTyped
<1>3. \A k \in DOMAIN buffer' : buffer'[k] \in Buffered
  BY <1>1 DEF HeldTyped
<1>4. \A s \in Sub : /\ per_sub_len'[s] = Cardinality(SlotsOf(s)') /\ per_sub_len'[s] \in Nat
  <2> SUFFICES ASSUME NEW s \in Sub
               PROVE  per_sub_len'[s] = Cardinality(SlotsOf(s)') /\ per_sub_len'[s] \in Nat
    OBVIOUS
  <2> DEFINE gone == {k \in K : k[1] = s}
  <2>1. SlotsOf(s)' = SlotsOf(s) \ gone /\ gone \subseteq SlotsOf(s) /\ SlotsOf(s) \subseteq DOMAIN buffer
    BY <1>1 DEF SlotsOf
  <2>2. per_sub_len'[s] = Cardinality(SlotsOf(s)) - Cardinality(gone)
    BY DEF counted_without, IndexExact
  <2> HIDE DEF gone
  <2>3. IsFiniteSet(SlotsOf(s)) /\ IsFiniteSet(gone)
    BY <1>2, <2>1, FS_Subset
  <2>4. SlotsOf(s) \cap gone = gone
    BY <2>1
  <2>5. IsFiniteSet(SlotsOf(s) \ gone)
        /\ Cardinality(SlotsOf(s) \ gone) = Cardinality(SlotsOf(s)) - Cardinality(gone)
    BY <2>3, <2>4, FS_Difference
  <2>6. Cardinality(SlotsOf(s)') \in Nat
    BY <2>1, <2>5, FS_CardinalityType
  <2> QED BY <2>1, <2>2, <2>5, <2>6
<1>5. per_sub_len' \in [Sub -> Nat]
  BY <1>4 DEF counted_without
<1>6. deadlines' = {<<buffer'[k].emit_at, k>> : k \in DOMAIN buffer'}
  <2>1. deadlines = {<<buffer[k].emit_at, k>> : k \in DOMAIN buffer}
    BY DEF IndexExact
  <2> QED BY <1>1, <2>1
<1> QED BY <1>1, <1>2, <1>3, <1>4, <1>5, <1>6 DEF HeldTyped, IndexExact

\* What stays held keeps its schedule and its order.
LEMMA HeldKept ==
    ASSUME LivesTyped, LivesTyped', HeldTyped, HoldBounded, CapScheduled, OnlySettling, SeqOrdersEpochs,
           DOMAIN buffer' \subseteq DOMAIN buffer,
           \A k \in DOMAIN buffer' : buffer'[k] = buffer[k],
           \A k \in DOMAIN buffer' : config(k[1])' = config(k[1]),
           \A k \in DOMAIN buffer' : passes_through(k[1])' = passes_through(k[1]),
           now' = now, next_seq <= next_seq', \A s \in Sub : epoch[s] <= epoch'[s]
    PROVE  HoldBounded' /\ CapScheduled' /\ OnlySettling' /\ SeqOrdersEpochs'
<1>1. HoldBounded'
  BY DEF HoldBounded
<1>2. CapScheduled'
  BY DEF CapScheduled
<1>3. OnlySettling'
  BY DEF OnlySettling
<1>4. SeqOrdersEpochs'
  <2>1. \A k \in DOMAIN buffer' : buffer[k].seq \in Nat /\ buffer[k].epoch \in Nat /\ k[1] \in Sub
    BY EventOfSlot
  <2>2. /\ \A s \in Sub : epoch[s] \in Nat /\ epoch'[s] \in Nat
        /\ next_seq \in Nat /\ next_seq' \in Nat
    BY DEF LivesTyped
  <2>3. \A k \in DOMAIN buffer' : buffer'[k].seq < next_seq' /\ buffer'[k].epoch <= epoch'[k[1]]
    BY <2>1, <2>2 DEF SeqOrdersEpochs
  <2> QED BY <2>3 DEF SeqOrdersEpochs
<1> QED BY <1>1, <1>2, <1>3, <1>4

\* What stays ready keeps its order.
LEMMA ReadyKept ==
    ASSUME LivesTyped, LivesTyped', QueuesTyped, HeldTyped, ReadyOrdered,
           NEW I \in SUBSET DOMAIN ready, ready' = ready \/ ready' = Kept(ready, I),
           DOMAIN buffer' \subseteq DOMAIN buffer,
           \A k \in DOMAIN buffer' : buffer'[k] = buffer[k],
           \A s \in Sub : epoch[s] <= epoch'[s]
    PROVE  /\ ready' \in Seq(Event) /\ ReadyOrdered'
           /\ \A n \in DOMAIN ready' : \E i \in DOMAIN ready : ready'[n] = ready[i]
           /\ ready' = Kept(ready, I) => \A n \in DOMAIN ready' : \E i \in I : ready'[n] = ready[i]
<1>1. ready \in Seq(Event) /\ \A i \in DOMAIN ready : ready[i] \in Event /\ i \in Nat
  BY DEF QueuesTyped
<1>2. /\ ready' \in Seq(Event)
      /\ \A n \in DOMAIN ready' : \E i \in DOMAIN ready : ready'[n] = ready[i]
      /\ \A m, n \in DOMAIN ready' :
            m < n => \E i, j \in DOMAIN ready : i < j /\ ready'[m] = ready[i] /\ ready'[n] = ready[j]
      /\ ready' = Kept(ready, I) => \A n \in DOMAIN ready' : \E i \in I : ready'[n] = ready[i]
  <2>1. CASE ready' = Kept(ready, I)
    BY <1>1, <2>1, KeptElements
  <2>2. CASE ready' = ready /\ ready' # Kept(ready, I)
    BY <1>1, <2>2
  <2> QED BY <2>1, <2>2
<1>3. \A i \in DOMAIN ready : ready[i].sub \in Sub /\ ready[i].epoch \in Nat
  BY <1>1 DEF Event
<1>4. \A s \in Sub : epoch[s] \in Nat /\ epoch'[s] \in Nat
  BY DEF LivesTyped
<1>5. \A n \in DOMAIN ready' : ready'[n].epoch <= epoch'[ready'[n].sub]
  <2> SUFFICES ASSUME NEW n \in DOMAIN ready' PROVE ready'[n].epoch <= epoch'[ready'[n].sub]
    OBVIOUS
  <2>1. PICK i \in DOMAIN ready : ready'[n] = ready[i]
    BY <1>2
  <2>2. ready[i].epoch <= epoch[ready[i].sub]
    BY DEF ReadyOrdered
  <2> QED BY <1>3, <1>4, <2>1, <2>2
<1>6. ASSUME NEW m \in DOMAIN ready', NEW n \in DOMAIN ready', m < n, ready'[m].sub = ready'[n].sub
      PROVE  ready'[m].epoch <= ready'[n].epoch
  <2>1. PICK i \in DOMAIN ready, j \in DOMAIN ready : i < j /\ ready'[m] = ready[i] /\ ready'[n] = ready[j]
    BY <1>2, <1>6
  <2> QED BY <1>6, <2>1 DEF ReadyOrdered
<1>7. \A n \in DOMAIN ready', k \in DOMAIN buffer' :
         ready'[n].sub = k[1] => ready'[n].epoch <= buffer'[k].epoch
  BY <1>2 DEF ReadyOrdered
<1> QED BY <1>2, <1>5, <1>6, <1>7 DEF ReadyOrdered

-----------------------------------------------------------------------------
(* The parts the admissions and removals are made of.                      *)

\* What happens in the world, told later.
LEMMA ChangeTyped ==
    ASSUME WorldTyped, NEW s \in Sub, NEW p \in Path, NEW kind, changed(s, p, kind)
    PROVE  exists' \in [Slot -> BOOLEAN]
<1>1. exists \in [Slot -> BOOLEAN] /\ (kind # "Removed") \in BOOLEAN
  BY DEF WorldTyped
<1>2. exists' = [exists EXCEPT ![<<s, p>>] = kind # "Removed"]
  BY DEF changed
<1>3. DOMAIN exists' = Slot
  BY <1>1, <1>2
<1>4. \A k \in Slot : exists'[k] \in BOOLEAN
  BY <1>1, <1>2
<1>5. exists' = [k \in Slot |-> exists'[k]]
  BY <1>1, <1>2
<1> QED BY <1>4, <1>5

LEMMA ReportTyped ==
    ASSUME WorldTyped, NEW s \in Sub, NEW p \in Path, NEW kind, reported(s, p, kind),
           seen' \subseteq Slot
    PROVE  WorldTyped'
<1>1. exists' \in [Slot -> BOOLEAN]
  BY ChangeTyped DEF reported
<1>2. stale' \in [Slot -> BOOLEAN]
  BY DEF reported, WorldTyped
<1> QED BY <1>1, <1>2 DEF reported, WorldTyped

\* A subscription that is shed is sent a Rescan.
LEMMA RescanOwed ==
    ASSUME LivesTyped, WorldTyped, NEW s \in Sub, NEW p \in Path, owed_rescan(s, p), view' = view,
           exists' \in [Slot -> BOOLEAN], stale' \in [Slot -> BOOLEAN]
    PROVE  /\ WorldTyped'
           /\ epoch' \in [Sub -> Nat] /\ \A t \in Sub : epoch[t] <= epoch'[t]
<1> DEFINE e == [sub |-> s, path |-> p, from |-> p, kind |-> "Rescan", epoch |-> epoch[s] + 1]
<1>1. epoch \in [Sub -> Nat] /\ epoch' = [epoch EXCEPT ![s] = @ + 1] /\ epoch[s] \in Nat
  BY DEF LivesTyped, owed_rescan
<1>2. epoch' \in [Sub -> Nat] /\ \A t \in Sub : epoch[t] <= epoch'[t]
  BY <1>1
<1>3. peak' \in [Sub -> Nat]
  BY <1>1 DEF WorldTyped, owed_rescan
<1>4. unread' = Append(unread, e)
  BY DEF owed_rescan
<1>5. e \in Event
  BY <1>1 DEF Event, Kind
<1> HIDE DEF e
<1>6. unread' \in Seq(Event)
  BY <1>4, <1>5 DEF WorldTyped
<1>7. seen' \subseteq Slot
  BY DEF WorldTyped, owed_rescan
<1> QED BY <1>2, <1>3, <1>6, <1>7 DEF WorldTyped

\* What a drop leaves: nothing of the subscription, the rest untouched.
LEMMA SubscriptionDropped ==
    ASSUME IInv, NEW s \in Sub, drop_subscription(s)
    PROVE  /\ DOMAIN buffer' = DOMAIN buffer \ SlotsOf(s)
           /\ \A k \in DOMAIN buffer' : buffer'[k] = buffer[k]
           /\ HeldTyped' /\ IndexExact' /\ SlotsOf(s)' = {}
           /\ ready' = Kept(ready, {i \in DOMAIN ready : ready[i].sub # s})
           /\ \A n \in DOMAIN ready' : ready'[n].sub # s /\ \E i \in DOMAIN ready : ready'[n] = ready[i]
<1>1. SlotsOf(s) \in SUBSET DOMAIN buffer
  BY DEF SlotsOf
<1>2. HeldTyped /\ IndexExact /\ without(SlotsOf(s)) /\ counted_without(SlotsOf(s)) /\ QueuesTyped
  BY DEF IInv, drop_subscription
<1>3. /\ DOMAIN buffer' = DOMAIN buffer \ SlotsOf(s)
      /\ \A k \in DOMAIN buffer' : buffer'[k] = buffer[k]
      /\ HeldTyped' /\ IndexExact'
  BY <1>1, <1>2, SlotsRemoved
<1>4. SlotsOf(s)' = {}
  BY <1>3 DEF SlotsOf
<1>5. ready' = Kept(ready, {i \in DOMAIN ready : ready[i].sub # s})
  BY DEF drop_subscription, ready_without
<1>6. \A n \in DOMAIN ready' : ready'[n].sub # s /\ \E i \in DOMAIN ready : ready'[n] = ready[i]
  <2> DEFINE I == {i \in DOMAIN ready : ready[i].sub # s}
  <2>1. ready \in Seq(Event) /\ I \in SUBSET DOMAIN ready /\ \A i \in I : ready[i].sub # s
    BY <1>2 DEF QueuesTyped
  <2>2. ready' = Kept(ready, I)
    BY <1>5
  <2> HIDE DEF I
  <2>3. \A n \in DOMAIN ready' : \E i \in I : ready'[n] = ready[i]
    BY <2>1, <2>2, KeptElements
  <2> QED BY <2>1, <2>3
<1> QED BY <1>3, <1>4, <1>5, <1>6

\* The drop, and the time, the counters and the policies that stay what the
\* rest of the buffer knows them by.
LEMMA DropKeeps ==
    ASSUME IInv, NEW s \in Sub, drop_subscription(s), LivesTyped',
           policies' = policies \/ policies' = [t \in DOMAIN policies \ {s} |-> policies[t]],
           now' = now, next_seq <= next_seq', \A t \in Sub : epoch[t] <= epoch'[t]
    PROVE  /\ HeldTyped' /\ IndexExact' /\ HoldBounded' /\ CapScheduled' /\ OnlySettling'
           /\ SeqOrdersEpochs' /\ ReadyOrdered' /\ ready' \in Seq(Event)
<1> DEFINE I == {i \in DOMAIN ready : ready[i].sub # s}
<1>1. /\ DOMAIN buffer' = DOMAIN buffer \ SlotsOf(s)
      /\ \A k \in DOMAIN buffer' : buffer'[k] = buffer[k]
      /\ HeldTyped' /\ IndexExact' /\ ready' = Kept(ready, I)
  BY SubscriptionDropped
<1>2. I \in SUBSET DOMAIN ready
  OBVIOUS
<1> HIDE DEF I
<1>3. \A k \in DOMAIN buffer' : k[1] # s
  BY <1>1 DEF SlotsOf
<1>4. \A k \in DOMAIN buffer' : /\ k[1] \in DOMAIN policies' <=> k[1] \in DOMAIN policies
                                /\ k[1] \in DOMAIN policies => policies'[k[1]] = policies[k[1]]
  BY <1>3
<1>5. \A k \in DOMAIN buffer' : config(k[1])' = config(k[1])
  BY <1>4 DEF config
<1>6. \A k \in DOMAIN buffer' : passes_through(k[1])' = passes_through(k[1])
  BY <1>4 DEF passes_through
<1>7. /\ LivesTyped /\ HeldTyped /\ HoldBounded /\ CapScheduled /\ OnlySettling /\ SeqOrdersEpochs
      /\ QueuesTyped /\ ReadyOrdered
  BY DEF IInv
<1>8. DOMAIN buffer' \subseteq DOMAIN buffer
  BY <1>1
<1>9. HoldBounded' /\ CapScheduled' /\ OnlySettling' /\ SeqOrdersEpochs'
  BY <1>1, <1>5, <1>6, <1>7, <1>8, HeldKept
<1>10. ready' \in Seq(Event) /\ ReadyOrdered'
  BY <1>1, <1>2, <1>7, <1>8, ReadyKept
<1> QED BY <1>1, <1>9, <1>10

\* A subscription that is no longer live, or that just was dropped, has
\* nothing left.
LEMMA DropOutlived ==
    ASSUME IInv, NEW s \in Sub, drop_subscription(s),
           \A t \in Sub : t # s => life'[t] = life[t],
           \A t \in Sub : t # s => (t \in DOMAIN policies' => t \in DOMAIN policies),
           life'[s] # "live" => s \notin DOMAIN policies'
    PROVE  NothingOutlives'
<1>1. /\ DOMAIN buffer' = DOMAIN buffer \ SlotsOf(s) /\ SlotsOf(s)' = {}
      /\ \A n \in DOMAIN ready' : ready'[n].sub # s /\ \E i \in DOMAIN ready : ready'[n] = ready[i]
  BY SubscriptionDropped
<1>2. \A t \in Sub : SlotsOf(t)' \subseteq SlotsOf(t)
  BY <1>1 DEF SlotsOf
<1>3. \A e \in Range(ready') : e.sub # s /\ e \in Range(ready)
  BY <1>1 DEF Range
<1>4. NothingOutlives
  BY DEF IInv
<1> SUFFICES ASSUME NEW t \in Sub, life'[t] # "live"
             PROVE  /\ t \notin DOMAIN policies' /\ SlotsOf(t)' = {}
                    /\ \A e \in Range(ready') : e.sub # t
  BY DEF NothingOutlives
<1>5. CASE t = s
  BY <1>1, <1>3, <1>5
<1>6. CASE t # s
  <2>1. life[t] # "live"
    BY <1>6
  <2>2. t \notin DOMAIN policies /\ SlotsOf(t) = {} /\ \A e \in Range(ready) : e.sub # t
    BY <1>4, <2>1 DEF NothingOutlives
  <2> QED BY <1>2, <1>3, <1>6, <2>2
<1> QED BY <1>5, <1>6

-----------------------------------------------------------------------------
(* The steps keep the invariant.                                           *)

LEMMA InitIInv == Init => IInv
<1> SUFFICES ASSUME Init PROVE IInv
  OBVIOUS
<1>0. DOMAIN Empty = {}
  BY DEF Empty
<1>1. LivesTyped /\ WorldTyped
  BY <1>0 DEF Init, LivesTyped, WorldTyped
<1>2. HeldTyped
  BY <1>0, FS_EmptySet DEF Init, HeldTyped
<1>3. \A s \in Sub : SlotsOf(s) = {}
  BY <1>0 DEF Init, SlotsOf
<1>4. IndexExact
  <2>1. \A s \in Sub : per_sub_len[s] = Cardinality(SlotsOf(s))
    BY <1>3, FS_EmptySet DEF Init
  <2>2. deadlines = {<<buffer[k].emit_at, k>> : k \in DOMAIN buffer}
    BY <1>0 DEF Init
  <2> QED BY <2>1, <2>2 DEF IndexExact
<1>5. NothingOutlives
  BY <1>0, <1>3 DEF Init, NothingOutlives, Range
<1>6. HoldBounded /\ CapScheduled /\ OnlySettling /\ SeqOrdersEpochs
  BY <1>0 DEF Init, HoldBounded, CapScheduled, OnlySettling, SeqOrdersEpochs
<1>7. QueuesTyped /\ ReadyOrdered /\ DrainInOrder
  BY DEF Init, QueuesTyped, ReadyOrdered, DrainInOrder
<1> QED BY <1>1, <1>2, <1>4, <1>5, <1>6, <1>7 DEF IInv

\* Nothing of the buffer moves: the books stay as they are.
LEMMA BufferSame ==
    ASSUME IInv, LivesTyped', buffer' = buffer, deadlines' = deadlines, per_sub_len' = per_sub_len
    PROVE  HeldTyped' /\ IndexExact' /\ \A s \in Sub : SlotsOf(s)' = SlotsOf(s)
<1>1. \A s \in Sub : SlotsOf(s)' = SlotsOf(s)
  BY DEF SlotsOf
<1>2. HeldTyped'
  BY DEF IInv, HeldTyped
<1>3. IndexExact'
  BY <1>1 DEF IInv, IndexExact
<1> QED BY <1>1, <1>2, <1>3

LEMMA NothingHandedOver ==
    ASSUME out' = <<>>
    PROVE  out' \in Seq(Event) /\ DrainInOrder'
BY DEF DrainInOrder

LEMMA SetPolicyIInv ==
    ASSUME IInv, NEW s \in Sub, NEW policy \in {"Inherit", "Off", "Custom"}, SetPolicy(s, policy)
    PROVE  IInv'
<1> USE DEF SetPolicy
<1>1. /\ LivesTyped /\ WorldTyped /\ HeldTyped /\ QueuesTyped /\ HoldBounded /\ CapScheduled
      /\ OnlySettling /\ SeqOrdersEpochs /\ ReadyOrdered /\ NothingOutlives
  BY DEF IInv
<1>2. SlotsOf(s) = {} /\ s \notin DOMAIN policies
  BY <1>1 DEF NothingOutlives
<1>3. DOMAIN policies' \subseteq DOMAIN policies \cup {s}
        /\ \A t \in DOMAIN policies : t # s => (t \in DOMAIN policies' /\ policies'[t] = policies[t])
  OBVIOUS
<1>4. LivesTyped'
  BY <1>1, <1>3 DEF LivesTyped
<1>5. WorldTyped'
  BY <1>1 DEF WorldTyped, world
<1>6. HeldTyped' /\ IndexExact' /\ \A t \in Sub : SlotsOf(t)' = SlotsOf(t)
  BY <1>4, BufferSame
<1>7. \A k \in DOMAIN buffer : k[1] # s /\ k[1] \in Sub
  BY <1>1, <1>2, EventOfSlot DEF SlotsOf
<1>8. \A k \in DOMAIN buffer : /\ k[1] \in DOMAIN policies' <=> k[1] \in DOMAIN policies
                               /\ k[1] \in DOMAIN policies => policies'[k[1]] = policies[k[1]]
  BY <1>3, <1>7
<1>9. \A k \in DOMAIN buffer' : config(k[1])' = config(k[1])
  BY <1>8 DEF config
<1>10. \A k \in DOMAIN buffer' : passes_through(k[1])' = passes_through(k[1])
  BY <1>8 DEF passes_through
<1>11. now' = now /\ next_seq <= next_seq' /\ \A t \in Sub : epoch[t] <= epoch'[t]
  BY <1>1 DEF LivesTyped
<1>12. HoldBounded' /\ CapScheduled' /\ OnlySettling' /\ SeqOrdersEpochs'
  BY <1>1, <1>4, <1>9, <1>10, <1>11, HeldKept
<1>13. QueuesTyped' /\ ReadyOrdered' /\ DrainInOrder'
  BY <1>1, NothingHandedOver DEF QueuesTyped, ReadyOrdered
<1>14. NothingOutlives'
  <2> SUFFICES ASSUME NEW t \in Sub, life'[t] # "live"
               PROVE  /\ t \notin DOMAIN policies' /\ SlotsOf(t)' = {}
                      /\ \A e \in Range(ready') : e.sub # t
    BY DEF NothingOutlives
  <2>1. t # s /\ life[t] # "live"
    BY <1>1 DEF LivesTyped
  <2> QED BY <1>1, <1>3, <1>6, <2>1 DEF NothingOutlives
<1> QED BY <1>4, <1>5, <1>6, <1>12, <1>13, <1>14 DEF IInv

\* A step that leaves the buffer and what is ready alone.
LEMMA ClockIInv ==
    ASSUME IInv, LivesTyped', WorldTyped', UNCHANGED cvars, UNCHANGED life, out' = <<>>,
           \A t \in Sub : epoch[t] <= epoch'[t], HoldBounded'
    PROVE  IInv'
<1> USE DEF cvars
<1>1. /\ LivesTyped /\ HeldTyped /\ QueuesTyped /\ HoldBounded /\ CapScheduled
      /\ OnlySettling /\ SeqOrdersEpochs /\ ReadyOrdered /\ NothingOutlives
  BY DEF IInv
<1>2. HeldTyped' /\ IndexExact' /\ \A t \in Sub : SlotsOf(t)' = SlotsOf(t)
  BY BufferSame
<1>3. CapScheduled' /\ OnlySettling'
  BY <1>1 DEF CapScheduled, OnlySettling, config, passes_through
<1>4. \A s \in Sub : epoch[s] \in Nat /\ epoch'[s] \in Nat
  BY <1>1 DEF LivesTyped
<1>5. SeqOrdersEpochs'
  <2>1. \A k \in DOMAIN buffer : buffer[k].epoch \in Nat /\ k[1] \in Sub
    BY <1>1, EventOfSlot
  <2>2. \A k \in DOMAIN buffer : buffer[k].seq < next_seq /\ buffer[k].epoch <= epoch'[k[1]]
    BY <1>1, <1>4, <2>1 DEF SeqOrdersEpochs
  <2> QED BY <1>1, <2>2 DEF SeqOrdersEpochs
<1>6. QueuesTyped' /\ DrainInOrder'
  BY <1>1, NothingHandedOver DEF QueuesTyped
<1>7. {} \in SUBSET DOMAIN ready /\ DOMAIN buffer' \subseteq DOMAIN buffer /\ ready' = ready
        /\ \A k \in DOMAIN buffer' : buffer'[k] = buffer[k]
  OBVIOUS
<1>8. ReadyOrdered'
  BY <1>1, <1>7, ReadyKept
<1>9. NothingOutlives'
  BY <1>1, <1>2 DEF NothingOutlives
<1> QED BY <1>2, <1>3, <1>5, <1>6, <1>8, <1>9 DEF IInv

LEMMA EpochMovesIInv ==
    ASSUME IInv, NEW s \in Sub, EpochMoves(s)
    PROVE  IInv'
<1> USE DEF EpochMoves
<1>1. LivesTyped /\ WorldTyped /\ HoldBounded /\ epoch \in [Sub -> Nat]
  BY DEF IInv, LivesTyped
<1>2. epoch' \in [Sub -> Nat] /\ \A t \in Sub : epoch[t] <= epoch'[t]
  BY <1>1
<1>3. LivesTyped' /\ WorldTyped'
  BY <1>1, <1>2 DEF LivesTyped, WorldTyped, world, cvars
<1>4. HoldBounded'
  BY <1>1 DEF HoldBounded, config, cvars
<1> QED BY <1>2, <1>3, <1>4, ClockIInv

\* Time passes only up to the next deadline, which no cap lies before.
LEMMA TickIInv ==
    ASSUME IInv, Tick
    PROVE  IInv'
<1> USE DEF Tick, cvars
<1>1. LivesTyped /\ WorldTyped /\ HeldTyped /\ CapScheduled /\ IndexExact
  BY DEF IInv
<1>2. LivesTyped' /\ WorldTyped'
  BY <1>1 DEF LivesTyped, WorldTyped, world
<1>3. \A t \in Sub : epoch[t] <= epoch'[t]
  BY <1>1 DEF LivesTyped
<1>4. HoldBounded'
  <2> SUFFICES ASSUME NEW k \in DOMAIN buffer
               PROVE  now + 1 <= buffer[k].first_seen + config(k[1]).max_hold
    BY DEF HoldBounded, config
  <2>1. <<buffer[k].emit_at, k>> \in deadlines
    BY <1>1 DEF IndexExact
  <2>2. now < buffer[k].emit_at
    BY <2>1
  <2>3. buffer[k].emit_at \in Nat /\ buffer[k].first_seen \in Nat /\ k[1] \in Sub /\ now \in Nat
    BY <1>1, EventOfSlot DEF LivesTyped
  <2>4. config(k[1]).max_hold \in Nat
    BY <2>3, ConfigTyped
  <2>5. buffer[k].emit_at <= buffer[k].first_seen + config(k[1]).max_hold
    BY <1>1 DEF CapScheduled
  <2> QED BY <2>2, <2>3, <2>4, <2>5
<1> QED BY <1>2, <1>3, <1>4, ClockIInv

LEMMA ShedIInv ==
    ASSUME IInv, NEW s \in Sub, NEW p \in Path, Shed(s, p)
    PROVE  IInv'
<1> USE DEF Shed
<1>1. /\ LivesTyped /\ WorldTyped /\ drop_subscription(s) /\ owed_rescan(s, p)
      /\ exists' = exists /\ view' = view /\ stale' = stale
  BY DEF IInv
<1>2. WorldTyped' /\ epoch' \in [Sub -> Nat] /\ \A t \in Sub : epoch[t] <= epoch'[t]
  BY <1>1, RescanOwed DEF WorldTyped
<1>3. LivesTyped'
  BY <1>1, <1>2 DEF LivesTyped
<1>4. next_seq <= next_seq'
  BY <1>1 DEF LivesTyped
<1>5. /\ HeldTyped' /\ IndexExact' /\ HoldBounded' /\ CapScheduled' /\ OnlySettling'
      /\ SeqOrdersEpochs' /\ ReadyOrdered' /\ ready' \in Seq(Event)
  BY <1>1, <1>2, <1>3, <1>4, DropKeeps
<1>6. NothingOutlives'
  BY <1>1, DropOutlived
<1>7. QueuesTyped' /\ DrainInOrder'
  BY <1>5, NothingHandedOver DEF QueuesTyped
<1> QED BY <1>2, <1>3, <1>5, <1>6, <1>7 DEF IInv

LEMMA AdmitOverflowIInv ==
    ASSUME IInv, NEW s \in Sub, NEW p \in Path, NEW kind \in Lifecycle, AdmitOverflow(s, p, kind)
    PROVE  IInv'
<1> USE DEF AdmitOverflow
<1>1. LivesTyped /\ WorldTyped /\ drop_subscription(s) /\ owed_rescan(s, p) /\ life[s] = "live"
  BY DEF IInv, happens
<1>2. exists' \in [Slot -> BOOLEAN] /\ stale' \in [Slot -> BOOLEAN] /\ view' = view
  BY <1>1, ChangeTyped DEF WorldTyped
<1>3. WorldTyped' /\ epoch' \in [Sub -> Nat] /\ \A t \in Sub : epoch[t] <= epoch'[t]
  BY <1>1, <1>2, RescanOwed
<1>4. LivesTyped' /\ next_seq <= next_seq'
  BY <1>1, <1>3 DEF LivesTyped, bump_seq
<1>5. /\ HeldTyped' /\ IndexExact' /\ HoldBounded' /\ CapScheduled' /\ OnlySettling'
      /\ SeqOrdersEpochs' /\ ReadyOrdered' /\ ready' \in Seq(Event)
  BY <1>1, <1>3, <1>4, DropKeeps
<1>6. NothingOutlives'
  BY <1>1, DropOutlived
<1>7. QueuesTyped' /\ DrainInOrder'
  BY <1>5, NothingHandedOver DEF QueuesTyped
<1> QED BY <1>3, <1>4, <1>5, <1>6, <1>7 DEF IInv

LEMMA ForgetIInv ==
    ASSUME IInv, NEW s \in Sub, Forget(s)
    PROVE  IInv'
<1> USE DEF Forget
<1>1. /\ LivesTyped /\ WorldTyped /\ drop_subscription(s)
      /\ policies' = [t \in DOMAIN policies \ {s} |-> policies[t]]
  BY DEF IInv, forget_subscription
<1>2. LivesTyped' /\ WorldTyped' /\ next_seq <= next_seq' /\ \A t \in Sub : epoch[t] <= epoch'[t]
  BY <1>1 DEF LivesTyped, WorldTyped, world
<1>3. /\ HeldTyped' /\ IndexExact' /\ HoldBounded' /\ CapScheduled' /\ OnlySettling'
      /\ SeqOrdersEpochs' /\ ReadyOrdered' /\ ready' \in Seq(Event)
  BY <1>1, <1>2, DropKeeps
<1>4. NothingOutlives'
  BY <1>1, DropOutlived DEF LivesTyped
<1>5. QueuesTyped' /\ DrainInOrder'
  BY <1>3, NothingHandedOver DEF QueuesTyped
<1> QED BY <1>2, <1>3, <1>4, <1>5 DEF IInv

-----------------------------------------------------------------------------
(* Sequences of events in order.                                           *)

InOrder(q) == \A i, j \in DOMAIN q : i < j /\ q[i].sub = q[j].sub => q[i].epoch <= q[j].epoch

\* Two sequences in order, the first nowhere ahead of the second.
LEMMA Joined ==
    ASSUME NEW q \in Seq(Event), NEW r \in Seq(Event), InOrder(q), InOrder(r),
           \A i \in DOMAIN q, n \in DOMAIN r : q[i].sub = r[n].sub => q[i].epoch <= r[n].epoch
    PROVE  /\ q \o r \in Seq(Event) /\ InOrder(q \o r)
           /\ \A i \in DOMAIN (q \o r) : \/ \E n \in DOMAIN q : (q \o r)[i] = q[n]
                                         \/ \E n \in DOMAIN r : (q \o r)[i] = r[n]
<1>1. Len(q) \in Nat /\ Len(r) \in Nat /\ DOMAIN q = 1 .. Len(q) /\ DOMAIN r = 1 .. Len(r)
  OBVIOUS
<1>2. q \o r \in Seq(Event) /\ DOMAIN (q \o r) = 1 .. Len(q) + Len(r)
  BY <1>1
<1>3. /\ \A i \in 1 .. Len(q) : (q \o r)[i] = q[i]
      /\ \A i \in 1 .. Len(q) + Len(r) : i \notin 1 .. Len(q) =>
            (q \o r)[i] = r[i - Len(q)] /\ i - Len(q) \in DOMAIN r
  BY <1>1
<1> DEFINE j == q \o r
<1>4. \A i \in DOMAIN j : (\E n \in DOMAIN q : j[i] = q[n]) \/ \E n \in DOMAIN r : j[i] = r[n]
  BY <1>1, <1>2, <1>3
<1>5. ASSUME NEW a \in 1 .. Len(q) + Len(r), NEW b \in 1 .. Len(q) + Len(r), a < b, j[a].sub = j[b].sub
      PROVE  j[a].epoch <= j[b].epoch
  <2> HIDE DEF j
  <2>1. CASE b \in 1 .. Len(q)
    <3>1. a \in 1 .. Len(q)
      BY <1>1, <1>5, <2>1
    <3>2. j[a] = q[a] /\ j[b] = q[b]
      BY <1>3, <2>1, <3>1 DEF j
    <3> QED BY <1>1, <1>5, <2>1, <3>1, <3>2 DEF InOrder
  <2>2. CASE b \notin 1 .. Len(q) /\ a \in 1 .. Len(q)
    <3>1. j[a] = q[a] /\ j[b] = r[b - Len(q)] /\ b - Len(q) \in DOMAIN r
      BY <1>3, <2>2 DEF j
    <3> QED BY <1>1, <1>5, <2>2, <3>1
  <2>3. CASE b \notin 1 .. Len(q) /\ a \notin 1 .. Len(q)
    <3>1. /\ j[a] = r[a - Len(q)] /\ j[b] = r[b - Len(q)]
          /\ a - Len(q) \in DOMAIN r /\ b - Len(q) \in DOMAIN r
      BY <1>3, <2>3 DEF j
    <3>2. a - Len(q) < b - Len(q)
      BY <1>1, <1>5
    <3> QED BY <1>5, <3>1, <3>2 DEF InOrder
  <2> QED BY <2>1, <2>2, <2>3
<1>6. InOrder(j)
  BY <1>2, <1>5 DEF InOrder
<1> QED BY <1>2, <1>4, <1>6

\* What becomes ready joins behind what is, and ahead of what stays held.
LEMMA ReadyJoined ==
    ASSUME LivesTyped, LivesTyped', QueuesTyped, HeldTyped, ReadyOrdered,
           NEW q \in Seq(Event), InOrder(q), ready' = ready \o q,
           DOMAIN buffer' \subseteq DOMAIN buffer,
           \A k \in DOMAIN buffer' : buffer'[k] = buffer[k],
           \A s \in Sub : epoch[s] <= epoch'[s],
           \A n \in DOMAIN q : q[n].epoch <= epoch'[q[n].sub],
           \A i \in DOMAIN ready, n \in DOMAIN q : ready[i].sub = q[n].sub => ready[i].epoch <= q[n].epoch,
           \A n \in DOMAIN q, k \in DOMAIN buffer' : q[n].sub = k[1] => q[n].epoch <= buffer'[k].epoch
    PROVE  ready' \in Seq(Event) /\ ReadyOrdered'
<1>1. ready \in Seq(Event) /\ InOrder(ready) /\ \A i \in DOMAIN ready : ready[i] \in Event
  BY DEF QueuesTyped, ReadyOrdered, InOrder
<1>2. /\ ready' \in Seq(Event) /\ InOrder(ready')
      /\ \A i \in DOMAIN ready' : \/ \E n \in DOMAIN ready : ready'[i] = ready[n]
                                  \/ \E n \in DOMAIN q : ready'[i] = q[n]
  BY <1>1, Joined
<1>3. \A i \in DOMAIN ready : ready[i].sub \in Sub /\ ready[i].epoch \in Nat
  BY <1>1 DEF Event
<1>4. \A s \in Sub : epoch[s] \in Nat /\ epoch'[s] \in Nat
  BY DEF LivesTyped
<1>5. \A n \in DOMAIN ready : ready[n].epoch <= epoch'[ready[n].sub]
  BY <1>3, <1>4 DEF ReadyOrdered
<1>6. \A i \in DOMAIN ready' : ready'[i].epoch <= epoch'[ready'[i].sub]
  <2> SUFFICES ASSUME NEW i \in DOMAIN ready' PROVE ready'[i].epoch <= epoch'[ready'[i].sub]
    OBVIOUS
  <2> QED BY <1>2, <1>5
<1>7. \A n \in DOMAIN ready, k \in DOMAIN buffer' : ready[n].sub = k[1] => ready[n].epoch <= buffer'[k].epoch
  BY DEF ReadyOrdered
<1>8. \A i \in DOMAIN ready', k \in DOMAIN buffer' :
         ready'[i].sub = k[1] => ready'[i].epoch <= buffer'[k].epoch
  <2> SUFFICES ASSUME NEW i \in DOMAIN ready', NEW k \in DOMAIN buffer', ready'[i].sub = k[1]
               PROVE  ready'[i].epoch <= buffer'[k].epoch
    OBVIOUS
  <2>1. CASE \E n \in DOMAIN ready : ready'[i] = ready[n]
    BY <1>7, <2>1
  <2>2. CASE \E n \in DOMAIN q : ready'[i] = q[n]
    BY <2>2
  <2> QED BY <1>2, <2>1, <2>2
<1> QED BY <1>2, <1>6, <1>8 DEF ReadyOrdered, InOrder

-----------------------------------------------------------------------------
(* The admissions.                                                         *)

LEMMA AdmitThroughIInv ==
    ASSUME IInv, NEW s \in Sub, NEW p \in Path, NEW kind \in Lifecycle, AdmitThrough(s, p, kind)
    PROVE  IInv'
<1> DEFINE e == [sub |-> s, path |-> p, from |-> p, kind |-> kind, epoch |-> epoch[s]]
           q == <<e>>
<1>1. /\ LivesTyped /\ WorldTyped /\ HeldTyped /\ QueuesTyped /\ HoldBounded /\ CapScheduled
      /\ OnlySettling /\ SeqOrdersEpochs /\ ReadyOrdered /\ NothingOutlives
  BY DEF IInv
<1>2. /\ life[s] = "live" /\ passes_through(s) /\ ready' = ready \o q /\ reported(s, p, kind)
      /\ seen' = seen \ {<<s, p>>}
      /\ out' = <<>> /\ UNCHANGED <<now, life, policies, buffer, deadlines, per_sub_len, next_seq, epoch>>
  BY DEF AdmitThrough, happens, now_ready
<1>3. LivesTyped' /\ WorldTyped'
  <2>1. seen' \subseteq Slot
    BY <1>1, <1>2 DEF WorldTyped
  <2> QED BY <1>1, <1>2, <2>1, ReportTyped DEF LivesTyped
<1>4. HeldTyped' /\ IndexExact' /\ \A t \in Sub : SlotsOf(t)' = SlotsOf(t)
  BY <1>2, <1>3, BufferSame
<1>5. HoldBounded' /\ CapScheduled' /\ OnlySettling' /\ SeqOrdersEpochs'
  BY <1>1, <1>2 DEF HoldBounded, CapScheduled, OnlySettling, SeqOrdersEpochs, config, passes_through
<1>6. epoch[s] \in Nat /\ \A t \in Sub : epoch[t] <= epoch'[t]
  BY <1>1, <1>2 DEF LivesTyped
<1>7. e \in Event
  BY <1>6 DEF Event, Kind
<1> HIDE DEF e
<1>8. /\ q \in Seq(Event) /\ DOMAIN q = {1} /\ q[1] = e /\ InOrder(q)
  BY <1>7 DEF InOrder
<1> HIDE DEF q
<1>9. e.sub = s /\ e.epoch = epoch[s] /\ e.epoch = epoch'[s]
  BY <1>2 DEF e
<1>10. \A i \in DOMAIN ready, n \in DOMAIN q : ready[i].sub = q[n].sub => ready[i].epoch <= q[n].epoch
  <2> SUFFICES ASSUME NEW i \in DOMAIN ready, NEW n \in DOMAIN q, ready[i].sub = q[n].sub
               PROVE  ready[i].epoch <= q[n].epoch
    OBVIOUS
  <2>1. q[n] = e
    BY <1>8
  <2>2. ready[i].epoch <= epoch[ready[i].sub]
    BY <1>1 DEF ReadyOrdered
  <2> QED BY <1>9, <2>1, <2>2
<1>11. \A n \in DOMAIN q, k \in DOMAIN buffer' : q[n].sub = k[1] => q[n].epoch <= buffer'[k].epoch
  BY <1>1, <1>2, <1>8, <1>9 DEF OnlySettling
<1>12. \A n \in DOMAIN q : q[n].epoch <= epoch'[q[n].sub]
  BY <1>6, <1>8, <1>9
<1>13. DOMAIN buffer' \subseteq DOMAIN buffer /\ \A k \in DOMAIN buffer' : buffer'[k] = buffer[k]
  BY <1>2
<1>14. ready' \in Seq(Event) /\ ReadyOrdered'
  BY <1>1, <1>2, <1>3, <1>6, <1>8, <1>10, <1>11, <1>12, <1>13, ReadyJoined
<1>15. QueuesTyped' /\ DrainInOrder'
  BY <1>2, <1>14, NothingHandedOver DEF QueuesTyped
<1>16. NothingOutlives'
  <2>1. \A x \in Range(ready') : x \in Range(ready) \/ x.sub = s
    <3>1. /\ ready \in Seq(Event) /\ q \in Seq(Event) /\ InOrder(ready)
          /\ \A i \in DOMAIN ready, n \in DOMAIN q : ready[i].sub = q[n].sub => ready[i].epoch <= q[n].epoch
      BY <1>1, <1>8, <1>10 DEF QueuesTyped, ReadyOrdered, InOrder
    <3>2. \A i \in DOMAIN (ready \o q) : \/ \E n \in DOMAIN ready : (ready \o q)[i] = ready[n]
                                         \/ \E n \in DOMAIN q : (ready \o q)[i] = q[n]
      BY <1>8, <3>1, Joined
    <3>3. \A i \in DOMAIN ready' : \/ \E n \in DOMAIN ready : ready'[i] = ready[n]
                                   \/ \E n \in DOMAIN q : ready'[i] = q[n]
      BY <1>2, <3>2
    <3> QED BY <1>8, <1>9, <3>3 DEF Range
  <2> QED BY <1>1, <1>2, <1>4, <2>1 DEF NothingOutlives
<1> QED BY <1>3, <1>4, <1>5, <1>14, <1>15, <1>16 DEF IInv

\* No deadline is later than the cap of its burst.
LEMMA DeadlineCapped ==
    ASSUME NEW s \in Sub, NEW first_seen \in Nat, NEW at \in Nat
    PROVE  /\ deadline(config(s), first_seen, at) \in Nat
           /\ deadline(config(s), first_seen, at) <= first_seen + config(s).max_hold
<1>1. config(s).quiet_window \in Nat /\ config(s).max_hold \in Nat
  BY ConfigTyped
<1> QED BY <1>1 DEF deadline, Earlier

\* A fresh slot: numbered past all others, stamped past what left before it.
LEMMA AdmitFreshIInv ==
    ASSUME IInv, NEW s \in Sub, NEW p \in Path, NEW kind \in Lifecycle, AdmitFresh(s, p, kind)
    PROVE  IInv'
<1> DEFINE k == <<s, p>>
           at == deadline(config(s), now, now)
           entry == [kind |-> kind, epoch |-> epoch[s], first_seen |-> now, emit_at |-> at, seq |-> next_seq]
<1>1. /\ LivesTyped /\ WorldTyped /\ HeldTyped /\ QueuesTyped /\ HoldBounded /\ CapScheduled
      /\ OnlySettling /\ SeqOrdersEpochs /\ ReadyOrdered /\ NothingOutlives /\ IndexExact
  BY DEF IInv
<1>2. /\ life[s] = "live" /\ ~passes_through(s) /\ k \notin DOMAIN buffer
      /\ buffer' = [j \in DOMAIN buffer \cup {k} |-> IF j = k THEN entry ELSE buffer[j]]
      /\ deadlines' = deadlines \cup {<<entry.emit_at, k>>}
      /\ per_sub_len' = [per_sub_len EXCEPT ![s] = @ + 1]
      /\ next_seq' = next_seq + 1 /\ reported(s, p, kind) /\ out' = <<>>
      /\ UNCHANGED <<now, life, policies, ready, epoch>>
  BY DEF AdmitFresh, happens, bump_seq
<1>3. now \in Nat /\ next_seq \in Nat /\ epoch \in [Sub -> Nat] /\ epoch[s] \in Nat
  BY <1>1 DEF LivesTyped
<1>4. at \in Nat /\ at <= now + config(s).max_hold /\ config(s).max_hold \in Nat
  BY <1>3, ConfigTyped, DeadlineCapped
<1>5. k \in Slot /\ k[1] = s
  BY DEF Slot
<1>6. /\ entry \in Buffered /\ entry.epoch = epoch[s] /\ entry.first_seen = now
      /\ entry.emit_at = at /\ entry.seq = next_seq
  BY <1>3, <1>4 DEF Buffered
<1> HIDE DEF k, at, entry
<1>7. /\ DOMAIN buffer' = DOMAIN buffer \cup {k} /\ buffer'[k] = entry
      /\ \A j \in DOMAIN buffer : j # k /\ buffer'[j] = buffer[j] /\ j \in DOMAIN buffer'
      /\ \A j \in DOMAIN buffer' : j = k \/ j \in DOMAIN buffer
  BY <1>2
<1>8. LivesTyped' /\ WorldTyped'
  <2>1. seen' \subseteq Slot
    BY <1>1, <1>5 DEF AdmitFresh, WorldTyped, k
  <2> QED BY <1>1, <1>2, <1>3, <2>1, ReportTyped DEF LivesTyped
<1>9. per_sub_len' \in [Sub -> Nat]
  BY <1>1, <1>2 DEF HeldTyped
<1>10. HeldTyped'
  <2>1. IsFiniteSet(DOMAIN buffer')
    BY <1>1, <1>7, FS_AddElement DEF HeldTyped
  <2> QED BY <1>1, <1>5, <1>6, <1>7, <1>9, <2>1 DEF HeldTyped
<1>11. /\ SlotsOf(s)' = SlotsOf(s) \cup {k} /\ k \notin SlotsOf(s)
       /\ \A t \in Sub : t # s => SlotsOf(t)' = SlotsOf(t)
  BY <1>2, <1>5, <1>7 DEF SlotsOf
<1>12. IndexExact'
  <2>1. deadlines' = {<<buffer'[j].emit_at, j>> : j \in DOMAIN buffer'}
    <3>1. deadlines = {<<buffer[j].emit_at, j>> : j \in DOMAIN buffer}
      BY <1>1 DEF IndexExact
    <3>2. \A d \in deadlines : d \in {<<buffer'[j].emit_at, j>> : j \in DOMAIN buffer'}
      BY <1>7, <3>1
    <3> QED BY <1>2, <1>7, <3>1, <3>2
  <2>2. \A t \in Sub : per_sub_len'[t] = Cardinality(SlotsOf(t)')
    <3>1. IsFiniteSet(SlotsOf(s))
      BY <1>1, FS_Subset DEF HeldTyped, SlotsOf
    <3>2. Cardinality(SlotsOf(s)') = Cardinality(SlotsOf(s)) + 1
      BY <1>11, <3>1, FS_AddElement
    <3>3. \A t \in Sub : per_sub_len[t] = Cardinality(SlotsOf(t)) /\ per_sub_len[t] \in Nat
      BY <1>1 DEF IndexExact, HeldTyped
    <3> QED BY <1>1, <1>2, <1>11, <3>2, <3>3 DEF HeldTyped
  <2> QED BY <2>1, <2>2 DEF IndexExact
<1>13. \A t : config(t)' = config(t) /\ passes_through(t)' = passes_through(t)
  BY <1>2 DEF config, passes_through
<1>14. HoldBounded' /\ CapScheduled' /\ OnlySettling'
  BY <1>1, <1>2, <1>3, <1>4, <1>5, <1>6, <1>7, <1>13 DEF HoldBounded, CapScheduled, OnlySettling
<1>15. \A j \in DOMAIN buffer : /\ buffer[j].seq \in Nat /\ buffer[j].epoch \in Nat /\ j[1] \in Sub
                               /\ buffer[j].seq < next_seq /\ buffer[j].epoch <= epoch[j[1]]
  BY <1>1, EventOfSlot DEF SeqOrdersEpochs
<1>16. SeqOrdersEpochs'
  <2>1. ASSUME NEW j \in DOMAIN buffer' PROVE buffer'[j].seq < next_seq' /\ buffer'[j].epoch <= epoch'[j[1]]
    BY <1>2, <1>3, <1>5, <1>6, <1>7, <1>15
  <2>2. ASSUME NEW i \in DOMAIN buffer', NEW j \in DOMAIN buffer', i[1] = j[1], i # j
        PROVE  /\ buffer'[i].seq # buffer'[j].seq
               /\ buffer'[i].seq < buffer'[j].seq => buffer'[i].epoch <= buffer'[j].epoch
    <3>1. CASE i \in DOMAIN buffer /\ j \in DOMAIN buffer
      BY <1>1, <1>7, <2>2, <3>1 DEF SeqOrdersEpochs
    <3>2. CASE i = k
      <4>1. j \in DOMAIN buffer
        BY <1>7, <2>2, <3>2
      <4> QED BY <1>3, <1>6, <1>7, <1>15, <3>2, <4>1
    <3>3. CASE j = k
      <4>1. i \in DOMAIN buffer /\ i[1] = s
        BY <1>5, <1>7, <2>2, <3>3
      <4> QED BY <1>3, <1>6, <1>7, <1>15, <3>3, <4>1
    <3> QED BY <1>7, <2>2, <3>1, <3>2, <3>3
  <2> QED BY <2>1, <2>2 DEF SeqOrdersEpochs
<1>17. ReadyOrdered'
  <2>1. \A i \in DOMAIN ready : ready[i].sub = s => ready[i].epoch <= entry.epoch
    BY <1>1, <1>6 DEF ReadyOrdered
  <2> QED BY <1>1, <1>2, <1>5, <1>7, <2>1 DEF ReadyOrdered
<1>18. QueuesTyped' /\ DrainInOrder'
  BY <1>1, <1>2, NothingHandedOver DEF QueuesTyped
<1>19. NothingOutlives'
  BY <1>1, <1>2, <1>11 DEF NothingOutlives
<1> QED BY <1>8, <1>10, <1>12, <1>14, <1>16, <1>17, <1>18, <1>19 DEF IInv

\* A fold: the burst keeps its first sight, and with it its cap, and takes
\* the number and the stamp of its newest change.
LEMMA AdmitCollapseIInv ==
    ASSUME IInv, NEW s \in Sub, NEW p \in Path, NEW kind \in Lifecycle, AdmitCollapse(s, p, kind)
    PROVE  IInv'
<1> DEFINE k == <<s, p>>
           at == deadline(config(s), buffer[k].first_seen, now)
           entry == [kind |-> collapse(buffer[k].kind, kind), epoch |-> epoch[s],
                     first_seen |-> buffer[k].first_seen, emit_at |-> at, seq |-> next_seq]
<1>1. /\ LivesTyped /\ WorldTyped /\ HeldTyped /\ QueuesTyped /\ HoldBounded /\ CapScheduled
      /\ OnlySettling /\ SeqOrdersEpochs /\ ReadyOrdered /\ NothingOutlives /\ IndexExact
  BY DEF IInv
<1>2. /\ life[s] = "live" /\ k \in DOMAIN buffer /\ entry.kind # "annihilate"
      /\ buffer' = [buffer EXCEPT ![k] = entry]
      /\ deadlines' = (deadlines \ {<<buffer[k].emit_at, k>>}) \cup {<<entry.emit_at, k>>}
      /\ next_seq' = next_seq + 1 /\ reported(s, p, kind) /\ out' = <<>>
      /\ UNCHANGED <<now, life, policies, per_sub_len, ready, epoch, seen>>
  BY DEF AdmitCollapse, happens, bump_seq, renewed_seq
<1>3. /\ now \in Nat /\ next_seq \in Nat /\ epoch[s] \in Nat
      /\ buffer[k].first_seen \in Nat /\ buffer[k].kind \in Lifecycle /\ k \in Slot /\ k[1] = s
  BY <1>1, <1>2, EventOfSlot DEF LivesTyped
<1>4. at \in Nat /\ at <= buffer[k].first_seen + config(s).max_hold /\ config(s).max_hold \in Nat
  BY <1>3, ConfigTyped, DeadlineCapped
<1>5. collapse(buffer[k].kind, kind) \in Lifecycle
  BY <1>2, <1>3 DEF collapse, Lifecycle
<1>6. /\ entry \in Buffered /\ entry.epoch = epoch[s] /\ entry.first_seen = buffer[k].first_seen
      /\ entry.emit_at = at /\ entry.seq = next_seq
  BY <1>3, <1>4, <1>5 DEF Buffered
<1> HIDE DEF k, at, entry
<1>7. /\ DOMAIN buffer' = DOMAIN buffer /\ buffer'[k] = entry
      /\ \A j \in DOMAIN buffer : j # k => buffer'[j] = buffer[j]
  BY <1>2
<1>8. LivesTyped' /\ WorldTyped'
  <2>1. seen' \subseteq Slot
    BY <1>1, <1>2 DEF WorldTyped
  <2> QED BY <1>1, <1>2, <1>3, <2>1, ReportTyped DEF LivesTyped
<1>9. HeldTyped'
  BY <1>1, <1>2, <1>6, <1>7 DEF HeldTyped
<1>10. \A t \in Sub : SlotsOf(t)' = SlotsOf(t)
  BY <1>7 DEF SlotsOf
<1>11. IndexExact'
  <2>1. deadlines = {<<buffer[j].emit_at, j>> : j \in DOMAIN buffer}
    BY <1>1 DEF IndexExact
  <2>2. deadlines' = {<<buffer'[j].emit_at, j>> : j \in DOMAIN buffer'}
    <3>1. \A d \in deadlines' : d \in {<<buffer'[j].emit_at, j>> : j \in DOMAIN buffer'}
      BY <1>2, <1>7, <2>1
    <3>2. \A j \in DOMAIN buffer' : <<buffer'[j].emit_at, j>> \in deadlines'
      BY <1>2, <1>7, <2>1
    <3> QED BY <3>1, <3>2
  <2> QED BY <1>1, <1>2, <1>10, <2>2 DEF IndexExact
<1>12. \A t : config(t)' = config(t) /\ passes_through(t)' = passes_through(t)
  BY <1>2 DEF config, passes_through
<1>13. HoldBounded' /\ CapScheduled' /\ OnlySettling'
  BY <1>1, <1>2, <1>3, <1>4, <1>6, <1>7, <1>12 DEF HoldBounded, CapScheduled, OnlySettling
<1>14. \A j \in DOMAIN buffer : /\ buffer[j].seq \in Nat /\ buffer[j].epoch \in Nat /\ j[1] \in Sub
                               /\ buffer[j].seq < next_seq /\ buffer[j].epoch <= epoch[j[1]]
  BY <1>1, EventOfSlot DEF SeqOrdersEpochs
<1>15. SeqOrdersEpochs'
  <2>1. ASSUME NEW j \in DOMAIN buffer' PROVE buffer'[j].seq < next_seq' /\ buffer'[j].epoch <= epoch'[j[1]]
    BY <1>2, <1>3, <1>6, <1>7, <1>14
  <2>2. ASSUME NEW i \in DOMAIN buffer', NEW j \in DOMAIN buffer', i[1] = j[1], i # j
        PROVE  /\ buffer'[i].seq # buffer'[j].seq
               /\ buffer'[i].seq < buffer'[j].seq => buffer'[i].epoch <= buffer'[j].epoch
    <3>1. CASE i # k /\ j # k
      BY <1>1, <1>7, <2>2, <3>1 DEF SeqOrdersEpochs
    <3>2. CASE i = k
      BY <1>3, <1>6, <1>7, <1>14, <2>2, <3>2
    <3>3. CASE j = k
      <4>1. i \in DOMAIN buffer /\ i[1] = s
        BY <1>3, <1>7, <2>2, <3>3
      <4> QED BY <1>3, <1>6, <1>7, <1>14, <2>2, <3>3, <4>1
    <3> QED BY <3>1, <3>2, <3>3
  <2> QED BY <2>1, <2>2 DEF SeqOrdersEpochs
<1>16. ReadyOrdered'
  <2>1. \A i \in DOMAIN ready : ready[i].sub = s => ready[i].epoch <= entry.epoch
    BY <1>1, <1>6 DEF ReadyOrdered
  <2> QED BY <1>1, <1>2, <1>3, <1>7, <2>1 DEF ReadyOrdered
<1>17. QueuesTyped' /\ DrainInOrder'
  BY <1>1, <1>2, NothingHandedOver DEF QueuesTyped
<1>18. NothingOutlives'
  BY <1>1, <1>2, <1>10 DEF NothingOutlives
<1> QED BY <1>8, <1>9, <1>11, <1>13, <1>15, <1>16, <1>17, <1>18 DEF IInv

\* A burst that amounts to nothing leaves, and its count with it.
LEMMA AdmitAnnihilateIInv ==
    ASSUME IInv, NEW s \in Sub, NEW p \in Path, NEW kind \in Lifecycle, AdmitAnnihilate(s, p, kind)
    PROVE  IInv'
<1> DEFINE k == <<s, p>>
<1>1. /\ LivesTyped /\ WorldTyped /\ HeldTyped /\ QueuesTyped /\ HoldBounded /\ CapScheduled
      /\ OnlySettling /\ SeqOrdersEpochs /\ ReadyOrdered /\ NothingOutlives /\ IndexExact
  BY DEF IInv
<1>2. /\ k \in DOMAIN buffer /\ without({k}) /\ counted_without({k})
      /\ next_seq' = next_seq + 1 /\ reported(s, p, kind) /\ out' = <<>>
      /\ UNCHANGED <<now, life, policies, ready, epoch, seen>>
  BY DEF AdmitAnnihilate, bump_seq
<1> HIDE DEF k
<1>3. {k} \in SUBSET DOMAIN buffer
  BY <1>2
<1>4. /\ DOMAIN buffer' = DOMAIN buffer \ {k}
      /\ \A j \in DOMAIN buffer' : buffer'[j] = buffer[j]
      /\ HeldTyped' /\ IndexExact'
  BY <1>1, <1>2, <1>3, SlotsRemoved
<1>5. LivesTyped' /\ WorldTyped' /\ next_seq <= next_seq' /\ \A t \in Sub : epoch[t] <= epoch'[t]
  <2>1. seen' \subseteq Slot
    BY <1>1, <1>2 DEF WorldTyped
  <2> QED BY <1>1, <1>2, <2>1, ReportTyped DEF LivesTyped
<1>6. \A t : config(t)' = config(t) /\ passes_through(t)' = passes_through(t)
  BY <1>2 DEF config, passes_through
<1>7. HoldBounded' /\ CapScheduled' /\ OnlySettling' /\ SeqOrdersEpochs'
  BY <1>1, <1>2, <1>4, <1>5, <1>6, HeldKept
<1>8. ReadyOrdered'
  BY <1>1, <1>2, <1>4, <1>5 DEF ReadyOrdered
<1>9. QueuesTyped' /\ DrainInOrder'
  BY <1>1, <1>2, NothingHandedOver DEF QueuesTyped
<1>10. NothingOutlives'
  <2>1. \A t \in Sub : SlotsOf(t)' \subseteq SlotsOf(t)
    BY <1>4 DEF SlotsOf
  <2> QED BY <1>1, <1>2, <2>1 DEF NothingOutlives
<1> QED BY <1>4, <1>5, <1>7, <1>8, <1>9, <1>10 DEF IInv

-----------------------------------------------------------------------------
(* The flushes and the drains.                                             *)

\* The buffered events of a set of slots, behind what is ready.
LEMMA SortedBehindReady ==
    ASSUME HeldTyped, QueuesTyped, SeqOrdersEpochs, ReadyOrdered, NEW K \in SUBSET DOMAIN buffer
    PROVE  /\ Sorted(K) \in Seq(Event) /\ InOrder(Sorted(K)) /\ InOrder(ready)
           /\ \A n \in DOMAIN Sorted(K) : \E k \in K : Sorted(K)[n] = EventOf(k)
           /\ \A i \in DOMAIN ready, n \in DOMAIN Sorted(K) :
                 ready[i].sub = Sorted(K)[n].sub => ready[i].epoch <= Sorted(K)[n].epoch
<1>1. /\ Sorted(K) \in Seq(Event) /\ InOrder(Sorted(K))
      /\ \A n \in DOMAIN Sorted(K) : \E k \in K : Sorted(K)[n] = EventOf(k)
  BY SortedElements DEF InOrder
<1>2. InOrder(ready)
  BY DEF ReadyOrdered, InOrder
<1>3. ASSUME NEW i \in DOMAIN ready, NEW n \in DOMAIN Sorted(K), ready[i].sub = Sorted(K)[n].sub
      PROVE  ready[i].epoch <= Sorted(K)[n].epoch
  <2>1. PICK k \in K : Sorted(K)[n] = EventOf(k)
    BY <1>1
  <2>2. k \in DOMAIN buffer /\ EventOf(k).sub = k[1] /\ EventOf(k).epoch = buffer[k].epoch
    BY EventOfSlot
  <2> QED BY <1>3, <2>1, <2>2 DEF ReadyOrdered
<1> QED BY <1>1, <1>2, <1>3

\* An undelayed event, behind all that is held of its subscription.
LEMMA Flushed ==
    ASSUME IInv, NEW s \in Sub, NEW e \in Event, e.sub = s, epoch[s] <= e.epoch, e.epoch <= epoch'[s],
           epoch' \in [Sub -> Nat], \A t \in Sub : epoch[t] <= epoch'[t], flush_subscription(s, e)
    PROVE  /\ LivesTyped' /\ HeldTyped' /\ QueuesTyped' /\ IndexExact' /\ HoldBounded' /\ NothingOutlives'
           /\ CapScheduled' /\ OnlySettling' /\ SeqOrdersEpochs' /\ ReadyOrdered' /\ DrainInOrder'
<1> DEFINE K == SlotsOf(s)
           r == Sorted(K)
           q == r \o <<e>>
<1>1. /\ LivesTyped /\ HeldTyped /\ QueuesTyped /\ HoldBounded /\ CapScheduled
      /\ OnlySettling /\ SeqOrdersEpochs /\ ReadyOrdered /\ NothingOutlives /\ IndexExact
  BY DEF IInv
<1>2. K \in SUBSET DOMAIN buffer /\ \A k \in K : k[1] = s
  BY DEF SlotsOf
<1>3. /\ r \in Seq(Event) /\ InOrder(r)
      /\ \A n \in DOMAIN r : \E k \in K : r[n] = EventOf(k)
      /\ \A i \in DOMAIN ready, n \in DOMAIN r : ready[i].sub = r[n].sub => ready[i].epoch <= r[n].epoch
  BY <1>1, <1>2, SortedBehindReady
<1>4. /\ life[s] = "live" /\ ready' = ready \o Append(r, e) /\ without(K) /\ counted_without(K)
      /\ out' = <<>> /\ UNCHANGED <<now, life, policies, next_seq>>
  BY DEF flush_subscription, now_ready
<1> HIDE DEF K, r
<1>5. /\ epoch[s] \in Nat /\ epoch'[s] \in Nat /\ e.epoch \in Nat
      /\ \A k \in K : /\ EventOf(k).sub = s /\ EventOf(k).epoch <= epoch[s] /\ EventOf(k).epoch \in Nat
  BY <1>1, <1>2, EventOfSlot DEF LivesTyped, SeqOrdersEpochs, Event
<1>6. \A n \in DOMAIN r : r[n].sub = s /\ r[n].epoch <= epoch[s] /\ r[n].epoch \in Nat
  BY <1>3, <1>5
<1>7. /\ <<e>> \in Seq(Event) /\ DOMAIN <<e>> = {1} /\ <<e>>[1] = e /\ InOrder(<<e>>)
  BY DEF InOrder
<1>8. \A n \in DOMAIN r, m \in DOMAIN <<e>> : r[n].sub = <<e>>[m].sub => r[n].epoch <= <<e>>[m].epoch
  BY <1>5, <1>6, <1>7
<1>9. /\ q \in Seq(Event) /\ InOrder(q)
      /\ \A i \in DOMAIN q : (\E n \in DOMAIN r : q[i] = r[n]) \/ q[i] = e
  <2>1. /\ q \in Seq(Event) /\ InOrder(q)
        /\ \A i \in DOMAIN q : (\E n \in DOMAIN r : q[i] = r[n])
                               \/ \E n \in DOMAIN <<e>> : q[i] = <<e>>[n]
    BY <1>3, <1>7, <1>8, Joined
  <2> HIDE DEF q
  <2> QED BY <1>7, <2>1
<1>10. Append(r, e) = q
  BY <1>3
<1> HIDE DEF q
<1>11. \A n \in DOMAIN q : q[n].sub = s /\ q[n].epoch <= epoch'[s]
  <2> SUFFICES ASSUME NEW n \in DOMAIN q PROVE q[n].sub = s /\ q[n].epoch <= epoch'[s]
    OBVIOUS
  <2>1. CASE q[n] = e
    BY <2>1
  <2>2. CASE \E m \in DOMAIN r : q[n] = r[m]
    BY <1>5, <1>6, <2>2
  <2> QED BY <1>9, <2>1, <2>2
<1>12. \A i \in DOMAIN ready : ready[i].sub = s => ready[i].epoch <= epoch[s] /\ ready[i].epoch \in Nat
  <2>1. \A i \in DOMAIN ready : ready[i] \in Event
    BY <1>1 DEF QueuesTyped
  <2>2. \A i \in DOMAIN ready : ready[i].epoch \in Nat
    BY <2>1 DEF Event
  <2> QED BY <1>1, <2>2 DEF ReadyOrdered
<1>13. ASSUME NEW i \in DOMAIN ready, NEW n \in DOMAIN q, ready[i].sub = q[n].sub
       PROVE  ready[i].epoch <= q[n].epoch
  <2>1. CASE q[n] = e
    BY <1>5, <1>12, <1>13, <2>1
  <2>2. CASE \E m \in DOMAIN r : q[n] = r[m]
    BY <1>3, <1>13, <2>2
  <2> QED BY <1>9, <2>1, <2>2
<1>14. /\ DOMAIN buffer' = DOMAIN buffer \ K
       /\ \A k \in DOMAIN buffer' : buffer'[k] = buffer[k]
       /\ HeldTyped' /\ IndexExact'
  BY <1>1, <1>2, <1>4, SlotsRemoved
<1>15. \A k \in DOMAIN buffer' : k[1] # s
  BY <1>14 DEF K, SlotsOf
<1>16. \A n \in DOMAIN q, k \in DOMAIN buffer' : q[n].sub = k[1] => q[n].epoch <= buffer'[k].epoch
  BY <1>11, <1>15
<1>17. LivesTyped' /\ next_seq <= next_seq'
  BY <1>1, <1>4 DEF LivesTyped
<1>18. \A t : config(t)' = config(t) /\ passes_through(t)' = passes_through(t)
  BY <1>4 DEF config, passes_through
<1>19. HoldBounded' /\ CapScheduled' /\ OnlySettling' /\ SeqOrdersEpochs'
  BY <1>1, <1>4, <1>14, <1>17, <1>18, HeldKept
<1>20. DOMAIN buffer' \subseteq DOMAIN buffer /\ \A n \in DOMAIN q : q[n].epoch <= epoch'[q[n].sub]
  BY <1>11, <1>14
<1>21. ready' \in Seq(Event) /\ ReadyOrdered'
  BY <1>1, <1>4, <1>9, <1>10, <1>13, <1>14, <1>16, <1>17, <1>20, ReadyJoined
<1>22. QueuesTyped' /\ DrainInOrder'
  BY <1>4, <1>21, NothingHandedOver DEF QueuesTyped
<1>23. NothingOutlives'
  <2>1. \A t \in Sub : SlotsOf(t)' \subseteq SlotsOf(t)
    BY <1>14 DEF SlotsOf
  <2>2. /\ ready \in Seq(Event) /\ InOrder(ready)
        /\ \A i \in DOMAIN ready, n \in DOMAIN q : ready[i].sub = q[n].sub => ready[i].epoch <= q[n].epoch
    BY <1>1, <1>13 DEF QueuesTyped, ReadyOrdered, InOrder
  <2>3. \A i \in DOMAIN ready' : (\E n \in DOMAIN ready : ready'[i] = ready[n])
                                  \/ \E n \in DOMAIN q : ready'[i] = q[n]
    <3>1. ready' = ready \o q
      BY <1>4, <1>10
    <3>2. q \in Seq(Event) /\ InOrder(q)
      BY <1>9
    <3> QED BY <2>2, <3>1, <3>2, Joined
  <2>4. \A x \in Range(ready') : x \in Range(ready) \/ x.sub = s
    BY <1>11, <2>3 DEF Range
  <2> QED BY <1>1, <1>4, <2>1, <2>4 DEF NothingOutlives
<1> QED BY <1>14, <1>17, <1>19, <1>21, <1>22, <1>23

LEMMA AdmitMovedIInv ==
    ASSUME IInv, NEW s \in Sub, NEW from \in Path, NEW to \in Path, AdmitMoved(s, from, to)
    PROVE  IInv'
<1> DEFINE e == [sub |-> s, path |-> to, from |-> from, kind |-> "Moved", epoch |-> epoch[s]]
<1>1. LivesTyped /\ WorldTyped /\ epoch \in [Sub -> Nat] /\ epoch[s] \in Nat
  BY DEF IInv, LivesTyped
<1>2. flush_subscription(s, e) /\ epoch' = epoch /\ view' = view /\ peak' = peak /\ unread' = unread
  BY DEF AdmitMoved
<1>3. e \in Event /\ e.sub = s /\ e.epoch = epoch[s]
  BY <1>1 DEF Event, Kind
<1> HIDE DEF e
<1>4. /\ LivesTyped' /\ HeldTyped' /\ QueuesTyped' /\ IndexExact' /\ HoldBounded' /\ NothingOutlives'
      /\ CapScheduled' /\ OnlySettling' /\ SeqOrdersEpochs' /\ ReadyOrdered' /\ DrainInOrder'
  BY <1>1, <1>2, <1>3, Flushed
<1>5. exists' \in [Slot -> BOOLEAN] /\ stale' \in [Slot -> BOOLEAN]
  BY <1>1 DEF AdmitMoved, WorldTyped
<1>6. WorldTyped'
  <2>1. seen' \subseteq Slot
    BY <1>1, <1>2 DEF WorldTyped, flush_subscription
  <2> QED BY <1>1, <1>2, <1>5, <2>1 DEF WorldTyped
<1> QED BY <1>4, <1>6 DEF IInv

LEMMA AdmitRescanIInv ==
    ASSUME IInv, NEW s \in Sub, NEW p \in Path, AdmitRescan(s, p)
    PROVE  IInv'
<1> DEFINE e == [sub |-> s, path |-> p, from |-> p, kind |-> "Rescan", epoch |-> epoch[s] + 1]
<1>1. LivesTyped /\ WorldTyped /\ epoch \in [Sub -> Nat] /\ epoch[s] \in Nat
  BY DEF IInv, LivesTyped
<1>2. /\ flush_subscription(s, e) /\ epoch' = [epoch EXCEPT ![s] = @ + 1]
      /\ UNCHANGED <<exists, unread, view, stale, peak>>
  BY DEF AdmitRescan
<1>3. e \in Event /\ e.sub = s /\ e.epoch = epoch[s] + 1
  BY <1>1 DEF Event, Kind
<1> HIDE DEF e
<1>4. /\ epoch' \in [Sub -> Nat] /\ \A t \in Sub : epoch[t] <= epoch'[t]
      /\ epoch[s] <= e.epoch /\ e.epoch <= epoch'[s]
  BY <1>1, <1>2, <1>3
<1>5. /\ LivesTyped' /\ HeldTyped' /\ QueuesTyped' /\ IndexExact' /\ HoldBounded' /\ NothingOutlives'
      /\ CapScheduled' /\ OnlySettling' /\ SeqOrdersEpochs' /\ ReadyOrdered' /\ DrainInOrder'
  BY <1>2, <1>3, <1>4, Flushed
<1>6. WorldTyped'
  <2>1. seen' \subseteq Slot
    BY <1>1, <1>2 DEF WorldTyped, flush_subscription
  <2> QED BY <1>1, <1>2, <2>1 DEF WorldTyped
<1> QED BY <1>5, <1>6 DEF IInv

\* What the consumer makes of an event is a belief.
LEMMA BelievesTyped ==
    ASSUME WorldTyped, NEW e, NEW k \in Slot
    PROVE  Believes(e, k) \in BOOLEAN
<1>1. exists[k] \in BOOLEAN
  BY DEF WorldTyped
<1>2. CASE e.kind = "Rescan"
  BY <1>1, <1>2 DEF Believes
<1>3. CASE e.kind = "Moved"
  BY <1>3 DEF Believes
<1>4. CASE e.kind # "Rescan" /\ e.kind # "Moved"
  BY <1>4 DEF Believes
<1> QED BY <1>2, <1>3, <1>4

\* Events that are handed over in order.
LEMMA HandedOver ==
    ASSUME WorldTyped, NEW events \in Seq(Event), InOrder(events), handed_over(events),
           seen' \subseteq seen
    PROVE  WorldTyped' /\ out' \in Seq(Event) /\ DrainInOrder'
<1>1. out' = events /\ DrainInOrder'
  BY DEF handed_over, InOrder, DrainInOrder
<1>2. /\ exists' \in [Slot -> BOOLEAN] /\ view' \in [Slot -> BOOLEAN] /\ stale' \in [Slot -> BOOLEAN]
      /\ seen' \subseteq Slot
  BY DEF handed_over, WorldTyped
<1>3. unread' \in Seq(Event)
  BY DEF handed_over, WorldTyped
<1>4. peak' \in [Sub -> Nat]
  <2> DEFINE mine(s) == {x \in Range(events) : x.sub = s}
             epochs(s) == {e.epoch : e \in mine(s)}
             met(s) == {peak[s]} \cup epochs(s)
  <2>1. peak' = [s \in Sub |-> CHOOSE m \in met(s) : \A o \in met(s) : o <= m]
    BY DEF handed_over
  <2>2. ASSUME NEW s \in Sub
        PROVE  met(s) \in SUBSET Nat /\ IsFiniteSet(met(s)) /\ met(s) # {}
    <3>1. IsFiniteSet(Range(events)) /\ Range(events) \subseteq Event
      BY RangeFinite
    <3>2. IsFiniteSet(mine(s)) /\ \A e \in mine(s) : e.epoch \in Nat
      BY <3>1, FS_Subset DEF Event
    <3> DEFINE stamp == [e \in mine(s) |-> e.epoch]
    <3>3. stamp \in Surjection(mine(s), epochs(s))
      BY DEF Surjection
    <3>4. IsFiniteSet(epochs(s))
      <4> HIDE DEF mine, epochs, stamp
      <4> QED BY <3>2, <3>3, FS_Surjection
    <3>5. epochs(s) \subseteq Nat /\ peak[s] \in Nat
      BY <3>2 DEF WorldTyped
    <3> HIDE DEF mine, epochs
    <3>6. IsFiniteSet(epochs(s) \cup {peak[s]})
      BY <3>4, FS_AddElement
    <3>7. met(s) = epochs(s) \cup {peak[s]}
      OBVIOUS
    <3> QED BY <3>5, <3>6, <3>7
  <2>3. ASSUME NEW s \in Sub PROVE (CHOOSE m \in met(s) : \A o \in met(s) : o <= m) \in Nat
    <3> HIDE DEF met
    <3>1. \E m \in met(s) : \A o \in met(s) : o <= m
      BY <2>2, Greatest
    <3>2. (CHOOSE m \in met(s) : \A o \in met(s) : o <= m) \in met(s)
      BY <3>1
    <3> QED BY <2>2, <3>2
  <2> HIDE DEF met
  <2> QED BY <2>1, <2>3
<1> QED BY <1>1, <1>2, <1>3, <1>4 DEF WorldTyped

\* What is due is held.
LEMMA DueIsHeld ==
    ASSUME IndexExact
    PROVE  DueSlots \in SUBSET DOMAIN buffer
BY DEF IndexExact, DueSlots

LEMMA DrainIInv ==
    ASSUME IInv, Drain
    PROVE  IInv'
<1> DEFINE K == DueSlots
<1>1. /\ LivesTyped /\ WorldTyped /\ HeldTyped /\ QueuesTyped /\ HoldBounded /\ CapScheduled
      /\ OnlySettling /\ SeqOrdersEpochs /\ ReadyOrdered /\ NothingOutlives /\ IndexExact
  BY DEF IInv
<1>2. K \in SUBSET DOMAIN buffer
  BY <1>1, DueIsHeld
<1>3. /\ handed_over(ready \o Sorted(K)) /\ ready' = <<>> /\ without(K) /\ counted_without(K)
      /\ UNCHANGED <<now, life, policies, next_seq, epoch>>
      /\ seen' \subseteq seen
  BY DEF Drain
<1> HIDE DEF K
<1>4. /\ Sorted(K) \in Seq(Event) /\ InOrder(Sorted(K)) /\ InOrder(ready) /\ ready \in Seq(Event)
      /\ \A i \in DOMAIN ready, n \in DOMAIN Sorted(K) :
            ready[i].sub = Sorted(K)[n].sub => ready[i].epoch <= Sorted(K)[n].epoch
  BY <1>1, <1>2, SortedBehindReady DEF QueuesTyped
<1>5. ready \o Sorted(K) \in Seq(Event) /\ InOrder(ready \o Sorted(K))
  BY <1>4, Joined
<1>6. WorldTyped' /\ out' \in Seq(Event) /\ DrainInOrder'
  BY <1>1, <1>3, <1>5, HandedOver
<1>7. /\ DOMAIN buffer' = DOMAIN buffer \ K
      /\ \A k \in DOMAIN buffer' : buffer'[k] = buffer[k]
      /\ HeldTyped' /\ IndexExact'
  BY <1>1, <1>2, <1>3, SlotsRemoved
<1>8. LivesTyped' /\ next_seq <= next_seq' /\ \A t \in Sub : epoch[t] <= epoch'[t]
  BY <1>1, <1>3 DEF LivesTyped
<1>9. \A t : config(t)' = config(t) /\ passes_through(t)' = passes_through(t)
  BY <1>3 DEF config, passes_through
<1>10. HoldBounded' /\ CapScheduled' /\ OnlySettling' /\ SeqOrdersEpochs'
  BY <1>1, <1>3, <1>7, <1>8, <1>9, HeldKept
<1>11. QueuesTyped' /\ ReadyOrdered'
  BY <1>3, <1>6 DEF QueuesTyped, ReadyOrdered
<1>12. NothingOutlives'
  <2>1. \A t \in Sub : SlotsOf(t)' \subseteq SlotsOf(t)
    BY <1>7 DEF SlotsOf
  <2> QED BY <1>1, <1>3, <2>1 DEF NothingOutlives, Range
<1> QED BY <1>6, <1>7, <1>8, <1>10, <1>11, <1>12 DEF IInv

LEMMA FlushAllIInv ==
    ASSUME IInv, FlushAll
    PROVE  IInv'
<1> DEFINE K == DOMAIN buffer
<1>1. /\ LivesTyped /\ WorldTyped /\ HeldTyped /\ QueuesTyped
      /\ SeqOrdersEpochs /\ ReadyOrdered /\ NothingOutlives
  BY DEF IInv
<1>2. K \in SUBSET DOMAIN buffer
  OBVIOUS
<1>3. /\ handed_over(ready \o Sorted(K)) /\ ready' = <<>>
      /\ buffer' = Empty /\ deadlines' = {} /\ per_sub_len' = [s \in Sub |-> 0]
      /\ UNCHANGED <<now, life, policies, next_seq, epoch>>
      /\ seen' \subseteq seen
  BY DEF FlushAll
<1> HIDE DEF K
<1>4. /\ Sorted(K) \in Seq(Event) /\ InOrder(Sorted(K)) /\ InOrder(ready) /\ ready \in Seq(Event)
      /\ \A i \in DOMAIN ready, n \in DOMAIN Sorted(K) :
            ready[i].sub = Sorted(K)[n].sub => ready[i].epoch <= Sorted(K)[n].epoch
  BY <1>1, <1>2, SortedBehindReady DEF QueuesTyped
<1>5. ready \o Sorted(K) \in Seq(Event) /\ InOrder(ready \o Sorted(K))
  BY <1>4, Joined
<1>6. WorldTyped' /\ out' \in Seq(Event) /\ DrainInOrder'
  BY <1>1, <1>3, <1>5, HandedOver
<1>7. DOMAIN buffer' = {}
  BY <1>3 DEF Empty
<1>8. LivesTyped'
  BY <1>1, <1>3 DEF LivesTyped
<1>9. HeldTyped'
  BY <1>3, <1>7, FS_EmptySet DEF HeldTyped
<1>10. \A t \in Sub : SlotsOf(t)' = {}
  BY <1>7 DEF SlotsOf
<1>11. IndexExact'
  <2>1. deadlines' = {<<buffer'[k].emit_at, k>> : k \in DOMAIN buffer'}
    BY <1>3, <1>7
  <2>2. \A s \in Sub : per_sub_len'[s] = Cardinality(SlotsOf(s)')
    BY <1>3, <1>10, FS_EmptySet
  <2> QED BY <2>1, <2>2 DEF IndexExact
<1>12. HoldBounded' /\ CapScheduled' /\ OnlySettling' /\ SeqOrdersEpochs'
  BY <1>7 DEF HoldBounded, CapScheduled, OnlySettling, SeqOrdersEpochs
<1>13. QueuesTyped' /\ ReadyOrdered'
  BY <1>3, <1>6 DEF QueuesTyped, ReadyOrdered
<1>14. NothingOutlives'
  BY <1>1, <1>3, <1>10 DEF NothingOutlives, Range
<1> QED BY <1>6, <1>8, <1>9, <1>11, <1>12, <1>13, <1>14 DEF IInv

\* Reading touches the consumer alone.
LEMMA ReadIInv ==
    ASSUME IInv, Read
    PROVE  IInv'
<1> DEFINE e == Head(unread)
<1>1. /\ UNCHANGED <<now, life, cvars, epoch, exists, peak>> /\ out' = <<>> /\ unread # <<>>
      /\ unread' = Tail(unread) /\ stale' = [k \in Slot |-> ~Tells(e, k) /\ stale[k]]
      /\ view' = [k \in Slot |-> IF Tells(e, k) THEN Believes(e, k) ELSE view[k]]
      /\ seen' \subseteq seen \cup DOMAIN buffer
  BY DEF Read, SlotsOf
<1> HIDE DEF e
<1>2. LivesTyped /\ WorldTyped /\ HeldTyped /\ QueuesTyped
  BY DEF IInv
<1>3. LivesTyped'
  BY <1>1, <1>2 DEF LivesTyped, cvars
<1>4. WorldTyped'
  <2>1. unread' \in Seq(Event) /\ seen' \subseteq Slot /\ stale' \in [Slot -> BOOLEAN]
    BY <1>1, <1>2 DEF WorldTyped, HeldTyped
  <2>2. \A k \in Slot : view'[k] \in BOOLEAN
    BY <1>1, <1>2, BelievesTyped DEF WorldTyped
  <2>3. view' = [k \in Slot |-> view'[k]]
    BY <1>1
  <2>4. view' \in [Slot -> BOOLEAN]
    BY <2>2, <2>3
  <2> QED BY <1>1, <1>2, <2>1, <2>4 DEF WorldTyped
<1>5. HeldTyped' /\ IndexExact' /\ \A s \in Sub : SlotsOf(s)' = SlotsOf(s)
  BY <1>1, <1>3, BufferSame DEF cvars
<1>6. QueuesTyped' /\ DrainInOrder'
  BY <1>1, <1>2, NothingHandedOver DEF QueuesTyped, cvars
<1>7. NothingOutlives'
  BY <1>1, <1>5 DEF IInv, NothingOutlives, cvars
<1>8. HoldBounded' /\ CapScheduled' /\ OnlySettling'
  BY <1>1 DEF IInv, HoldBounded, CapScheduled, OnlySettling, config, passes_through, cvars
<1>9. SeqOrdersEpochs' /\ ReadyOrdered'
  BY <1>1 DEF IInv, SeqOrdersEpochs, ReadyOrdered, cvars
<1> QED BY <1>3, <1>4, <1>5, <1>6, <1>7, <1>8, <1>9 DEF IInv

LEMMA NextIInv == IInv /\ [Next]_vars => IInv'
<1> SUFFICES ASSUME IInv, [Next]_vars PROVE IInv'
  OBVIOUS
<1>1. ASSUME NEW s \in Sub, NEW p \in Path, NEW kind \in Lifecycle,
             AdmitThrough(s, p, kind) \/ AdmitFresh(s, p, kind) \/ AdmitOverflow(s, p, kind)
             \/ AdmitCollapse(s, p, kind) \/ AdmitAnnihilate(s, p, kind)
      PROVE  IInv'
  BY <1>1, AdmitThroughIInv, AdmitFreshIInv, AdmitOverflowIInv, AdmitCollapseIInv, AdmitAnnihilateIInv
<1>2. ASSUME NEW s \in Sub, NEW from \in Path, NEW to \in Path, AdmitMoved(s, from, to) PROVE IInv'
  BY <1>2, AdmitMovedIInv
<1>3. ASSUME NEW s \in Sub, NEW p \in Path, AdmitRescan(s, p) PROVE IInv'
  BY <1>3, AdmitRescanIInv
<1>4. ASSUME NEW s \in Sub, NEW policy \in {"Inherit", "Off", "Custom"}, SetPolicy(s, policy) PROVE IInv'
  BY <1>4, SetPolicyIInv
<1>5. ASSUME NEW s \in Sub, (\E p \in Path : Shed(s, p)) \/ Forget(s) \/ EpochMoves(s) PROVE IInv'
  BY <1>5, ShedIInv, ForgetIInv, EpochMovesIInv
<1>6. ASSUME Drain \/ FlushAll \/ Tick \/ Read PROVE IInv'
  BY <1>6, DrainIInv, FlushAllIInv, TickIInv, ReadIInv
<1>7. ASSUME UNCHANGED vars PROVE IInv'
  <2> USE <1>7 DEF vars, cvars, world
  <2>1. LivesTyped' /\ WorldTyped' /\ HeldTyped' /\ QueuesTyped'
    BY DEF IInv, LivesTyped, WorldTyped, HeldTyped, QueuesTyped
  <2>2. IndexExact' /\ NothingOutlives'
    BY DEF IInv, IndexExact, NothingOutlives, SlotsOf
  <2>3. HoldBounded' /\ CapScheduled' /\ OnlySettling'
    BY DEF IInv, HoldBounded, CapScheduled, OnlySettling, config, passes_through
  <2>4. SeqOrdersEpochs' /\ ReadyOrdered' /\ DrainInOrder'
    BY DEF IInv, SeqOrdersEpochs, ReadyOrdered, DrainInOrder
  <2> QED BY <2>1, <2>2, <2>3, <2>4 DEF IInv
<1> QED BY <1>1, <1>2, <1>3, <1>4, <1>5, <1>6, <1>7 DEF Next

-----------------------------------------------------------------------------
(* The theorems.                                                           *)

\* The invariant that carries the others: the types, the deadline index and
\* the counts against the slots, the schedule against the hold caps, and the
\* numbers of the slots against the stamps of their newest changes.
THEOREM CoalescerInvariant == Spec => []IInv
<1>1. Init => IInv
  BY InitIInv
<1>2. IInv /\ [Next]_vars => IInv'
  BY NextIInv
<1> QED BY <1>1, <1>2, PTL DEF Spec

\* The deadline index and the counts behind the caps are exact after every
\* step, no burst is held past its cap however often it is touched, and a
\* released subscription leaves no slot, no event and no policy behind
\* (`debug_check_index`, `deadline`, `forget_subscription`).
THEOREM BufferTheorem == Spec => []BufferSound
<1>1. IInv => BufferSound
  <2> SUFFICES ASSUME IInv PROVE BufferSound
    OBVIOUS
  <2>1. Range(ready) \subseteq Event /\ Range(out) \subseteq Event /\ Range(unread) \subseteq Event
    BY RangeFinite DEF IInv, QueuesTyped, WorldTyped
  <2>2. deadlines \subseteq Nat \X Slot
    <3>1. HeldTyped /\ deadlines = {<<buffer[k].emit_at, k>> : k \in DOMAIN buffer}
      BY DEF IInv, IndexExact
    <3>2. \A k \in DOMAIN buffer : buffer[k].emit_at \in Nat /\ k \in Slot
      BY <3>1, EventOfSlot
    <3> HIDE DEF Slot
    <3> QED BY <3>1, <3>2
  <2>3. TypeOK
    BY <2>1, <2>2 DEF IInv, TypeOK, LivesTyped, WorldTyped, HeldTyped
  <2> QED BY <2>3 DEF IInv, BufferSound
<1> QED BY <1>1, CoalescerInvariant, PTL

\* One drain hands over the events of a subscription in the order of their
\* stamps, though collapsing renews the stamp of a slot and its deadline at
\* different times (the sort of `drain_ready` by admission number).
THEOREM DrainOrderTheorem == Spec => []DrainInOrder
<1>1. IInv => DrainInOrder
  BY DEF IInv
<1> QED BY <1>1, CoalescerInvariant, PTL

-----------------------------------------------------------------------------
(* What sequences of events say of a path.                                 *)

\* Of two sequences, one after the other, the second has the last word.
LEMMA JoinedSays ==
    ASSUME NEW q \in Seq(Event), NEW r \in Seq(Event), NEW k, NEW x
    PROVE  /\ Silent(q \o r, k) <=> Silent(q, k) /\ Silent(r, k)
           /\ LastSays(q \o r, k, x) <=> LastSays(r, k, x) /\ (Silent(r, k) => LastSays(q, k, x))
<1>1. Len(q) \in Nat /\ Len(r) \in Nat /\ DOMAIN q = 1 .. Len(q) /\ DOMAIN r = 1 .. Len(r)
  OBVIOUS
<1> DEFINE j == q \o r
<1>2. DOMAIN j = 1 .. Len(q) + Len(r)
  BY <1>1
<1>3. /\ \A i \in 1 .. Len(q) : j[i] = q[i] /\ i \in DOMAIN j
      /\ \A n \in 1 .. Len(r) : j[n + Len(q)] = r[n] /\ n + Len(q) \in DOMAIN j
      /\ \A i \in DOMAIN j : i \notin 1 .. Len(q) => i - Len(q) \in 1 .. Len(r)
  BY <1>1
<1> HIDE DEF j
<1>4. \A i \in DOMAIN j : i \notin DOMAIN q => \E m \in DOMAIN r : i = m + Len(q) /\ j[i] = r[m]
  <2> SUFFICES ASSUME NEW i \in DOMAIN j, i \notin DOMAIN q
               PROVE  \E m \in DOMAIN r : i = m + Len(q) /\ j[i] = r[m]
    OBVIOUS
  <2>1. i - Len(q) \in DOMAIN r /\ i = (i - Len(q)) + Len(q)
    BY <1>1, <1>2, <1>3
  <2> QED BY <1>1, <1>3, <2>1
<1>5. Silent(j, k) <=> Silent(q, k) /\ Silent(r, k)
  <2>1. ASSUME Silent(j, k) PROVE Silent(q, k) /\ Silent(r, k)
    BY <1>1, <1>3, <2>1 DEF Silent
  <2>2. ASSUME Silent(q, k), Silent(r, k) PROVE Silent(j, k)
    BY <1>1, <1>3, <1>4, <2>2 DEF Silent
  <2> QED BY <2>1, <2>2
<1>6. ASSUME LastSays(r, k, x), Silent(r, k) => LastSays(q, k, x)
      PROVE  LastSays(j, k, x)
  <2> SUFFICES ASSUME NEW i \in DOMAIN j, Tells(j[i], k), \A n \in DOMAIN j : Tells(j[n], k) => n <= i
               PROVE  Says(j[i], k, x)
    BY DEF LastSays
  <2>1. CASE i \in DOMAIN q
    <3>1. j[i] = q[i] /\ \A n \in DOMAIN q : Tells(q[n], k) => n <= i
      BY <1>1, <1>3, <2>1
    <3>2. Silent(r, k)
      <4> SUFFICES ASSUME NEW m \in DOMAIN r, Tells(r[m], k) PROVE FALSE
        BY DEF Silent
      <4>1. m + Len(q) <= i
        BY <1>1, <1>3
      <4> QED BY <1>1, <2>1, <4>1
    <3> QED BY <1>6, <2>1, <3>1, <3>2 DEF LastSays
  <2>2. CASE i \notin DOMAIN q
    <3>1. PICK m \in DOMAIN r : i = m + Len(q) /\ j[i] = r[m]
      BY <1>4, <2>2
    <3>2. \A n \in DOMAIN r : Tells(r[n], k) => n <= m
      <4> SUFFICES ASSUME NEW n \in DOMAIN r, Tells(r[n], k) PROVE n <= m
        OBVIOUS
      <4>1. n + Len(q) <= i
        BY <1>1, <1>3
      <4> QED BY <1>1, <3>1, <4>1
    <3> QED BY <1>6, <3>1, <3>2 DEF LastSays
  <2> QED BY <2>1, <2>2
<1>7. ASSUME LastSays(j, k, x)
      PROVE  LastSays(r, k, x)
  <2> SUFFICES ASSUME NEW m \in DOMAIN r, Tells(r[m], k), \A n \in DOMAIN r : Tells(r[n], k) => n <= m
               PROVE  Says(r[m], k, x)
    BY DEF LastSays
  <2> DEFINE i == m + Len(q)
  <2>1. i \in DOMAIN j /\ j[i] = r[m]
    BY <1>1, <1>3
  <2>2. \A n \in DOMAIN j : Tells(j[n], k) => n <= i
    <3> SUFFICES ASSUME NEW n \in DOMAIN j, Tells(j[n], k) PROVE n <= i
      OBVIOUS
    <3>1. CASE n \in DOMAIN q
      BY <1>1, <3>1
    <3>2. CASE n \notin DOMAIN q
      <4>1. PICK o \in DOMAIN r : n = o + Len(q) /\ j[n] = r[o]
        BY <1>4, <3>2
      <4>2. o <= m
        BY <4>1
      <4> QED BY <1>1, <4>1, <4>2
    <3> QED BY <3>1, <3>2
  <2> HIDE DEF i
  <2> QED BY <1>7, <2>1, <2>2 DEF LastSays
<1>8. ASSUME LastSays(j, k, x), Silent(r, k)
      PROVE  LastSays(q, k, x)
  <2> SUFFICES ASSUME NEW i \in DOMAIN q, Tells(q[i], k), \A n \in DOMAIN q : Tells(q[n], k) => n <= i
               PROVE  Says(q[i], k, x)
    BY DEF LastSays
  <2>1. i \in DOMAIN j /\ j[i] = q[i]
    BY <1>1, <1>3
  <2>2. \A n \in DOMAIN j : Tells(j[n], k) => n <= i
    <3> SUFFICES ASSUME NEW n \in DOMAIN j, Tells(j[n], k) PROVE n <= i
      OBVIOUS
    <3>1. n \in DOMAIN q
      BY <1>4, <1>8 DEF Silent
    <3>2. Tells(q[n], k)
      BY <1>1, <1>3, <3>1
    <3> QED BY <3>1, <3>2
  <2> QED BY <1>8, <2>1, <2>2 DEF LastSays
<1>9. LastSays(j, k, x) <=> LastSays(r, k, x) /\ (Silent(r, k) => LastSays(q, k, x))
  BY <1>6, <1>7, <1>8
<1> QED BY <1>5, <1>9 DEF j

\* One event says what it says.
LEMMA OneSays ==
    ASSUME NEW e, NEW k, NEW x
    PROVE  /\ Silent(<<e>>, k) <=> ~Tells(e, k)
           /\ LastSays(<<e>>, k, x) <=> (Tells(e, k) => Says(e, k, x))
<1>1. DOMAIN <<e>> = {1} /\ <<e>>[1] = e
  OBVIOUS
<1> QED BY <1>1 DEF Silent, LastSays

\* A drop leaves what is said of the other subscriptions, and nothing of its
\* own.
LEMMA KeptSays ==
    ASSUME NEW q \in Seq(Event), NEW s, NEW I \in SUBSET DOMAIN q,
           \A i \in DOMAIN q : i \in I <=> q[i].sub # s, NEW k, NEW x
    PROVE  /\ Kept(q, I) \in Seq(Event)
           /\ k[1] = s => Silent(Kept(q, I), k)
           /\ k[1] # s => /\ Silent(Kept(q, I), k) <=> Silent(q, k)
                          /\ LastSays(q, k, x) => LastSays(Kept(q, I), k, x)
<1> DEFINE K == Kept(q, I)
<1>1. I \in SUBSET DOMAIN q /\ \A i \in DOMAIN q : i \in I <=> q[i].sub # s
  OBVIOUS
<1>2. PICK f \in [DOMAIN K -> I] : /\ \A n \in DOMAIN K : K[n] = q[f[n]]
                                   /\ \A m, n \in DOMAIN K : m < n => f[m] < f[n]
                                   /\ \A i \in I : \E n \in DOMAIN K : f[n] = i
  <2> HIDE DEF K
  <2>1. q \in Seq(Event) /\ I \in SUBSET DOMAIN q
    OBVIOUS
  <2>2. \E f \in [DOMAIN Kept(q, I) -> I] :
           /\ \A n \in DOMAIN Kept(q, I) : Kept(q, I)[n] = q[f[n]]
           /\ \A m, n \in DOMAIN Kept(q, I) : m < n => f[m] < f[n]
           /\ \A i \in I : \E n \in DOMAIN Kept(q, I) : f[n] = i
    BY ONLY Z3T(30), <2>1, KeptPlaces
  <2> QED BY <2>2 DEF K
<1>3. /\ K \in Seq(Event) /\ DOMAIN K = 1 .. Len(K) /\ Len(K) \in Nat
      /\ DOMAIN q = 1 .. Len(q) /\ Len(q) \in Nat
  BY <1>1, KeptPlaces
<1> HIDE DEF K
<1>4. \A n \in DOMAIN K : /\ f[n] \in I /\ f[n] \in DOMAIN q /\ K[n] = q[f[n]] /\ K[n].sub # s
                          /\ f[n] \in Nat /\ n \in Nat
  BY <1>1, <1>2, <1>3
<1>5. ASSUME k[1] = s
      PROVE  Silent(K, k)
  BY <1>4, <1>5 DEF Silent, Tells
<1>6. ASSUME k[1] # s, NEW j \in DOMAIN q, Tells(q[j], k)
      PROVE  \E m \in DOMAIN K : f[m] = j /\ K[m] = q[j]
  <2>1. j \in I
    BY <1>1, <1>6 DEF Tells
  <2> QED BY <1>2, <2>1
<1>7. ASSUME k[1] # s
      PROVE  Silent(K, k) <=> Silent(q, k)
  <2>1. ASSUME Silent(K, k) PROVE Silent(q, k)
    BY <1>6, <1>7, <2>1 DEF Silent
  <2>2. ASSUME Silent(q, k) PROVE Silent(K, k)
    BY <1>4, <2>2 DEF Silent
  <2> QED BY <2>1, <2>2
<1>8. ASSUME k[1] # s, LastSays(q, k, x)
      PROVE  LastSays(K, k, x)
  <2> SUFFICES ASSUME NEW n \in DOMAIN K, Tells(K[n], k), \A m \in DOMAIN K : Tells(K[m], k) => m <= n
               PROVE  Says(K[n], k, x)
    BY DEF LastSays
  <2>1. f[n] \in DOMAIN q /\ K[n] = q[f[n]] /\ f[n] \in Nat /\ n \in Nat
    BY <1>4
  <2>2. \A j \in DOMAIN q : Tells(q[j], k) => j <= f[n]
    <3> SUFFICES ASSUME NEW j \in DOMAIN q, Tells(q[j], k) PROVE j <= f[n]
      OBVIOUS
    <3>1. PICK m \in DOMAIN K : f[m] = j /\ K[m] = q[j]
      BY <1>6, <1>8
    <3>2. m <= n /\ m \in Nat /\ j \in Nat
      BY <1>4, <3>1
    <3>3. m < n \/ m = n
      BY <2>1, <3>2
    <3> QED BY <1>2, <2>1, <3>1, <3>2, <3>3
  <2> QED BY <1>8, <2>1, <2>2 DEF LastSays
<1> QED BY <1>3, <1>5, <1>7, <1>8 DEF K

\* The event of a slot tells of that path alone.
LEMMA TellsOfSlot ==
    ASSUME HeldTyped, NEW j \in DOMAIN buffer, NEW k \in Slot
    PROVE  Tells(EventOf(j), k) <=> j = k
<1>1. j \in Slot /\ buffer[j].kind \in Lifecycle
  BY EventOfSlot
<1>2. j = <<j[1], j[2]>> /\ k = <<k[1], k[2]>>
  BY <1>1, SlotShape
<1>3. buffer[j].kind # "Rescan"
  BY <1>1 DEF Lifecycle
<1>4. Tells(EventOf(j), k) <=> j[1] = k[1] /\ k[2] = j[2]
  BY <1>3 DEF Tells, EventOf
<1> QED BY <1>2, <1>4

\* What is held, emitted, says of each of its paths what the slot holds.
LEMMA SortedSays ==
    ASSUME HeldTyped, SeqOrdersEpochs, NEW K \in SUBSET DOMAIN buffer, NEW k \in Slot
    PROVE  /\ Sorted(K) \in Seq(Event)
           /\ Silent(Sorted(K), k) <=> k \notin K
           /\ k \in K => LastSays(Sorted(K), k, buffer[k].kind # "Removed")
<1>1. /\ Sorted(K) \in Seq(Event)
      /\ \A i \in DOMAIN Sorted(K) : \E j \in K : Sorted(K)[i] = EventOf(j)
      /\ \A j \in K : \E i \in DOMAIN Sorted(K) : Sorted(K)[i] = EventOf(j)
  BY SortedElements
<1>2. \A j \in K : Tells(EventOf(j), k) <=> j = k
  BY TellsOfSlot
<1>3. Silent(Sorted(K), k) <=> k \notin K
  BY <1>1, <1>2 DEF Silent
<1>4. ASSUME k \in K, NEW i \in DOMAIN Sorted(K), Tells(Sorted(K)[i], k)
      PROVE  Says(Sorted(K)[i], k, buffer[k].kind # "Removed")
  <2>1. Sorted(K)[i] = EventOf(k)
    BY <1>1, <1>2, <1>4
  <2>2. buffer[k].kind \in Lifecycle
    BY <1>4, EventOfSlot
  <2>3. Sorted(K)[i].kind = buffer[k].kind /\ buffer[k].kind # "Moved"
    BY <2>1, <2>2 DEF EventOf, Lifecycle
  <2> QED BY <2>3 DEF Says
<1> QED BY <1>1, <1>3, <1>4 DEF LastSays

-----------------------------------------------------------------------------
(* The net effect.                                                         *)

LEMMA Associative ==
    ASSUME NEW q \in Seq(Event), NEW r \in Seq(Event), NEW t \in Seq(Event)
    PROVE  (q \o r) \o t = q \o (r \o t)
BY ConcatAssociative

\* What is on its way.
LEMMA OnTheWayTyped ==
    ASSUME IInv
    PROVE  /\ unread \in Seq(Event) /\ ready \in Seq(Event) /\ OnTheWay \in Seq(Event)
           /\ exists \in [Slot -> BOOLEAN] /\ view \in [Slot -> BOOLEAN] /\ stale \in [Slot -> BOOLEAN]
           /\ seen \subseteq Slot /\ DOMAIN buffer \subseteq Slot
<1>1. WorldTyped /\ QueuesTyped /\ HeldTyped
  BY DEF IInv
<1> QED BY <1>1 DEF WorldTyped, QueuesTyped, HeldTyped, OnTheWay

\* A path that a step does not touch, and of which what comes says the same.
LEMMA Untouched ==
    ASSUME NEW k \in Slot, Known(k),
           exists'[k] = exists[k], stale'[k] => stale[k],
           k \in DOMAIN buffer' <=> k \in DOMAIN buffer,
           k \in DOMAIN buffer => buffer'[k] = buffer[k],
           k \in seen' <=> k \in seen,
           life'[k[1]] # "gone" => life[k[1]] # "gone",
           \A x : ComesToBelieve(view[k], OnTheWay, k, x) => ComesToBelieve(view'[k], OnTheWay', k, x),
           Silent(OnTheWay', k) => Silent(OnTheWay, k)
    PROVE  Known(k)'
<1>1. CASE k \in DOMAIN buffer
  <2>1. HeldIsNews(k)
    BY <1>1 DEF Known
  <2>2. HeldIsNews(k)'
    BY <1>1, <2>1 DEF HeldIsNews
  <2> QED BY <1>1, <2>2 DEF Known
<1>2. CASE k \notin DOMAIN buffer /\ life'[k[1]] # "gone"
  <2>1. RestIsKnown(k)
    BY <1>2 DEF Known
  <2>2. RestIsKnown(k)'
    BY <2>1 DEF RestIsKnown
  <2> QED BY <1>2, <2>2 DEF Known
<1>3. CASE k \notin DOMAIN buffer /\ life'[k[1]] = "gone"
  BY <1>3 DEF Known
<1> QED BY <1>1, <1>2, <1>3

\* What joins what is on its way, of paths that are not held any more.
LEMMA Appended ==
    ASSUME IInv, NetIInv, NEW q \in Seq(Event), OnTheWay' = OnTheWay \o q,
           view' = view, life' = life,
           \A k \in Slot : Silent(q, k) =>
              /\ k \in DOMAIN buffer' <=> k \in DOMAIN buffer
              /\ k \in DOMAIN buffer => buffer'[k] = buffer[k]
              /\ exists'[k] = exists[k] /\ (stale'[k] => stale[k])
              /\ k \in seen' <=> k \in seen,
           \A k \in Slot : ~Silent(q, k) =>
              k \notin DOMAIN buffer' /\ k \notin seen' /\ LastSays(q, k, exists'[k])
    PROVE  NetIInv'
<1> SUFFICES ASSUME NEW k \in Slot PROVE Known(k)'
  BY DEF NetIInv
<1>1. OnTheWay \in Seq(Event)
  BY OnTheWayTyped
<1>2. /\ Silent(OnTheWay', k) <=> Silent(OnTheWay, k) /\ Silent(q, k)
      /\ \A x : LastSays(OnTheWay', k, x) <=> LastSays(q, k, x) /\ (Silent(q, k) => LastSays(OnTheWay, k, x))
  BY <1>1, JoinedSays
<1>3. CASE Silent(q, k)
  <2>1. Known(k)
    BY DEF NetIInv
  <2>2. \A x : LastSays(q, k, x)
    BY <1>3 DEF Silent, LastSays
  <2>3. \A x : ComesToBelieve(view[k], OnTheWay, k, x) => ComesToBelieve(view'[k], OnTheWay', k, x)
    BY <1>2, <1>3, <2>2 DEF ComesToBelieve
  <2>4. Silent(OnTheWay', k) => Silent(OnTheWay, k)
    BY <1>2
  <2>5. /\ exists'[k] = exists[k] /\ (stale'[k] => stale[k])
        /\ k \in DOMAIN buffer' <=> k \in DOMAIN buffer
        /\ k \in DOMAIN buffer => buffer'[k] = buffer[k]
        /\ k \in seen' <=> k \in seen
    BY <1>3
  <2> QED BY <2>1, <2>3, <2>4, <2>5, Untouched
<1>4. CASE ~Silent(q, k)
  <2>1. k \notin DOMAIN buffer' /\ k \notin seen' /\ LastSays(q, k, exists'[k])
    BY <1>4
  <2>2. ~Silent(OnTheWay', k) /\ LastSays(OnTheWay', k, exists'[k])
    BY <1>2, <1>4, <2>1
  <2>3. RestIsKnown(k)'
    BY <2>1, <2>2 DEF RestIsKnown, ComesToBelieve
  <2> QED BY <2>1, <2>3 DEF Known
<1> QED BY <1>3, <1>4

\* A drain of all that is ready and of the slots K.
LEMMA DrainedNet ==
    ASSUME IInv, NetIInv, NEW K \in SUBSET DOMAIN buffer, handed_over(ready \o Sorted(K)),
           ready' = <<>>, life' = life, view' = view, seen' = seen \ K,
           DOMAIN buffer' = DOMAIN buffer \ K,
           \A k \in DOMAIN buffer' : buffer'[k] = buffer[k]
    PROVE  NetIInv'
<1> DEFINE q == Sorted(K)
<1>1. /\ HeldTyped /\ SeqOrdersEpochs /\ unread \in Seq(Event) /\ ready \in Seq(Event)
      /\ unread' = unread \o (ready \o q) /\ exists' = exists /\ stale' = stale
  BY OnTheWayTyped DEF IInv, handed_over
<1>2. \A k \in Slot : /\ q \in Seq(Event)
                      /\ Silent(q, k) <=> k \notin K
                      /\ k \in K => LastSays(q, k, buffer[k].kind # "Removed")
  BY <1>1, SortedSays
<1>3. q \in Seq(Event)
  BY <1>1, SortedElements
<1> HIDE DEF q
<1>4. OnTheWay' = OnTheWay \o q
  <2>1. unread \o (ready \o q) \in Seq(Event)
    BY <1>1, <1>3
  <2>2. OnTheWay' = unread \o (ready \o q)
    BY <1>1, <2>1, ConcatEmptySeq DEF OnTheWay
  <2>3. (unread \o ready) \o q = unread \o (ready \o q)
    BY <1>1, <1>3, Associative
  <2> QED BY <2>2, <2>3 DEF OnTheWay
<1>5. ASSUME NEW k \in Slot, Silent(q, k)
      PROVE  /\ k \in DOMAIN buffer' <=> k \in DOMAIN buffer
             /\ k \in DOMAIN buffer => buffer'[k] = buffer[k]
             /\ exists'[k] = exists[k] /\ (stale'[k] => stale[k])
             /\ k \in seen' <=> k \in seen
  BY <1>1, <1>2, <1>5
<1>6. ASSUME NEW k \in Slot, ~Silent(q, k)
      PROVE  k \notin DOMAIN buffer' /\ k \notin seen' /\ LastSays(q, k, exists'[k])
  <2>1. k \in K /\ LastSays(q, k, buffer[k].kind # "Removed")
    BY <1>2, <1>6
  <2>2. exists[k] = (buffer[k].kind # "Removed")
    BY <2>1 DEF NetIInv, Known, HeldIsNews
  <2> QED BY <1>1, <2>1, <2>2
<1> QED BY <1>3, <1>4, <1>5, <1>6, Appended

\* What becomes ready joins behind what is on its way.
LEMMA ReadyOnTheWay ==
    ASSUME IInv, NEW q \in Seq(Event), ready' = ready \o q, unread' = unread
    PROVE  OnTheWay' = OnTheWay \o q
<1>1. unread \in Seq(Event) /\ ready \in Seq(Event)
  BY OnTheWayTyped
<1>2. (unread \o ready) \o q = unread \o (ready \o q)
  BY <1>1, Associative
<1>3. OnTheWay' = unread \o (ready \o q)
  BY DEF OnTheWay
<1> QED BY <1>2, <1>3 DEF OnTheWay

\* An undelayed event, behind all that is held of its subscription.
LEMMA FlushedNet ==
    ASSUME IInv, NetIInv, NEW s \in Sub, NEW e \in Event, e.sub = s, flush_subscription(s, e),
           view' = view, unread' = unread,
           \A k \in Slot : ~Tells(e, k) => exists'[k] = exists[k] /\ (stale'[k] => stale[k]),
           \A k \in Slot : Tells(e, k) => Says(e, k, exists'[k])
    PROVE  NetIInv'
<1> DEFINE K == SlotsOf(s)
           r == Sorted(K)
           q == r \o <<e>>
<1>1. /\ HeldTyped /\ SeqOrdersEpochs /\ IndexExact /\ DOMAIN buffer \subseteq Slot
      /\ K \in SUBSET DOMAIN buffer
  BY OnTheWayTyped DEF IInv, SlotsOf
<1>2. \A k \in Slot : /\ Silent(r, k) <=> k \notin K
                      /\ k \in K => LastSays(r, k, buffer[k].kind # "Removed")
  BY <1>1, SortedSays
<1>3. r \in Seq(Event) /\ <<e>> \in Seq(Event)
  BY <1>1, SortedElements
<1>4. /\ ready' = ready \o Append(r, e) /\ without(K) /\ counted_without(K)
      /\ seen' = {k \in seen \ K : ~Tells(e, k)} /\ life' = life
  BY DEF flush_subscription, now_ready
<1>5. /\ DOMAIN buffer' = DOMAIN buffer \ K
      /\ \A k \in DOMAIN buffer' : buffer'[k] = buffer[k]
  BY <1>1, <1>4 DEF without
<1>6. \A k \in Slot : Tells(e, k) => k \notin DOMAIN buffer'
  BY <1>5 DEF Tells, SlotsOf
<1> HIDE DEF K, r
<1>7. Append(r, e) = q
  BY <1>3, AppendIsConcat
<1>8. /\ q \in Seq(Event)
      /\ \A k : Silent(q, k) <=> Silent(r, k) /\ ~Tells(e, k)
      /\ \A k, x : LastSays(q, k, x) <=>
            (Tells(e, k) => Says(e, k, x)) /\ (~Tells(e, k) => LastSays(r, k, x))
  <2>1. q \in Seq(Event)
    BY <1>3
  <2>2. ASSUME NEW k, NEW x
        PROVE  /\ Silent(q, k) <=> Silent(r, k) /\ ~Tells(e, k)
               /\ LastSays(q, k, x) <=>
                     (Tells(e, k) => Says(e, k, x)) /\ (~Tells(e, k) => LastSays(r, k, x))
    <3>1. /\ Silent(q, k) <=> Silent(r, k) /\ Silent(<<e>>, k)
          /\ LastSays(q, k, x) <=> LastSays(<<e>>, k, x) /\ (Silent(<<e>>, k) => LastSays(r, k, x))
      BY <1>3, JoinedSays
    <3>2. /\ Silent(<<e>>, k) <=> ~Tells(e, k)
          /\ LastSays(<<e>>, k, x) <=> (Tells(e, k) => Says(e, k, x))
      BY OneSays
    <3> HIDE DEF q
    <3> QED BY <3>1, <3>2
  <2> HIDE DEF q
  <2> QED BY <2>1, <2>2
<1> HIDE DEF q
<1>9. OnTheWay' = OnTheWay \o q
  BY <1>4, <1>7, <1>8, ReadyOnTheWay
<1>10. ASSUME NEW k \in Slot, Silent(q, k)
       PROVE  /\ k \in DOMAIN buffer' <=> k \in DOMAIN buffer
              /\ k \in DOMAIN buffer => buffer'[k] = buffer[k]
              /\ exists'[k] = exists[k] /\ (stale'[k] => stale[k])
              /\ k \in seen' <=> k \in seen
  <2>1. k \notin K /\ ~Tells(e, k)
    BY <1>2, <1>8, <1>10
  <2> QED BY <1>4, <1>5, <2>1
<1>11. ASSUME NEW k \in Slot, ~Silent(q, k)
       PROVE  k \notin DOMAIN buffer' /\ k \notin seen' /\ LastSays(q, k, exists'[k])
  <2>1. CASE Tells(e, k)
    <3>1. LastSays(q, k, exists'[k])
      BY <1>8, <2>1
    <3> QED BY <1>4, <1>6, <2>1, <3>1
  <2>2. CASE ~Tells(e, k)
    <3>1. k \in K /\ LastSays(r, k, buffer[k].kind # "Removed")
      BY <1>2, <1>8, <1>11, <2>2
    <3>2. exists[k] = (buffer[k].kind # "Removed") /\ exists'[k] = exists[k]
      BY <1>1, <2>2, <3>1 DEF NetIInv, Known, HeldIsNews
    <3>3. LastSays(r, k, exists'[k])
      BY <3>1, <3>2
    <3>4. LastSays(q, k, exists'[k])
      BY <1>8, <2>2, <3>3
    <3> QED BY <1>4, <1>5, <3>1, <3>4
  <2> QED BY <2>1, <2>2
<1> QED BY <1>4, <1>8, <1>9, <1>10, <1>11, Appended

LEMMA AdmitMovedNet ==
    ASSUME IInv, NetIInv, NEW s \in Sub, NEW from \in Path, NEW to \in Path, AdmitMoved(s, from, to)
    PROVE  NetIInv'
<1> DEFINE e == [sub |-> s, path |-> to, from |-> from, kind |-> "Moved", epoch |-> epoch[s]]
<1>1. /\ flush_subscription(s, e) /\ view' = view /\ unread' = unread /\ from # to
      /\ exists' = [exists EXCEPT ![<<s, from>>] = FALSE, ![<<s, to>>] = TRUE]
      /\ stale' = [stale EXCEPT ![<<s, from>>] = TRUE, ![<<s, to>>] = TRUE]
      /\ exists \in [Slot -> BOOLEAN] /\ stale \in [Slot -> BOOLEAN] /\ epoch[s] \in Nat
  BY OnTheWayTyped DEF AdmitMoved, IInv, LivesTyped
<1>2. e \in Event /\ e.sub = s /\ e.kind = "Moved" /\ e.path = to
  BY <1>1 DEF Event, Kind
<1>3. \A k \in Slot : Tells(e, k) <=> k = <<s, from>> \/ k = <<s, to>>
  <2> SUFFICES ASSUME NEW k \in Slot PROVE Tells(e, k) <=> k = <<s, from>> \/ k = <<s, to>>
    OBVIOUS
  <2>1. k = <<k[1], k[2]>>
    BY SlotShape
  <2> QED BY <2>1 DEF Tells
<1> HIDE DEF e
<1>4. \A k \in Slot : ~Tells(e, k) => exists'[k] = exists[k] /\ (stale'[k] => stale[k])
  BY <1>1, <1>3
<1>5. ASSUME NEW k \in Slot, Tells(e, k)
      PROVE  Says(e, k, exists'[k])
  <2>1. CASE k = <<s, from>>
    <3>1. exists'[k] = FALSE /\ k[2] # to
      BY <1>1, <2>1
    <3> QED BY <1>2, <3>1 DEF Says
  <2>2. CASE k = <<s, to>>
    <3>1. exists'[k] = TRUE /\ k[2] = to
      BY <1>1, <2>2
    <3> QED BY <1>2, <3>1 DEF Says
  <2> QED BY <1>3, <1>5, <2>1, <2>2
<1> QED BY <1>1, <1>2, <1>4, <1>5, FlushedNet

LEMMA AdmitRescanNet ==
    ASSUME IInv, NetIInv, NEW s \in Sub, NEW p \in Path, AdmitRescan(s, p)
    PROVE  NetIInv'
<1> DEFINE e == [sub |-> s, path |-> p, from |-> p, kind |-> "Rescan", epoch |-> epoch[s] + 1]
<1>1. /\ flush_subscription(s, e) /\ UNCHANGED <<exists, unread, view, stale>> /\ epoch[s] \in Nat
  BY DEF AdmitRescan, IInv, LivesTyped
<1>2. e \in Event /\ e.sub = s /\ e.kind = "Rescan"
  BY <1>1 DEF Event, Kind
<1> HIDE DEF e
<1> QED BY <1>1, <1>2, FlushedNet DEF Says

\* A drop that leaves the subscription live: the Rescan it owes has the
\* consumer look, and the rest is untouched.
LEMMA ShedNet ==
    ASSUME IInv, NetIInv, NEW s \in Sub, NEW p \in Path, drop_subscription(s), owed_rescan(s, p),
           life' = life, view' = view,
           \A k \in Slot : k[1] # s => exists'[k] = exists[k] /\ (stale'[k] => stale[k])
    PROVE  NetIInv'
<1> DEFINE e == [sub |-> s, path |-> p, from |-> p, kind |-> "Rescan", epoch |-> epoch[s] + 1]
           u == unread \o <<e>>
           I == {i \in DOMAIN ready : ready[i].sub # s}
<1>1. /\ unread \in Seq(Event) /\ ready \in Seq(Event) /\ epoch[s] \in Nat /\ DOMAIN buffer \subseteq Slot
      /\ unread' = Append(unread, e) /\ seen' = {k \in seen : k[1] # s}
      /\ ready' = Kept(ready, I) /\ I \in SUBSET DOMAIN ready
      /\ \A i \in DOMAIN ready : i \in I <=> ready[i].sub # s
  BY OnTheWayTyped DEF owed_rescan, drop_subscription, ready_without, IInv, LivesTyped
<1>2. e \in Event /\ \A k : Tells(e, k) <=> k[1] = s
  BY <1>1 DEF Event, Kind, Tells
<1>3. e.kind = "Rescan"
  OBVIOUS
<1>4. DOMAIN buffer' = DOMAIN buffer \ SlotsOf(s) /\ \A k \in DOMAIN buffer' : buffer'[k] = buffer[k]
  BY SubscriptionDropped
<1> HIDE DEF e, I
<1>5. ASSUME NEW k, NEW x
      PROVE  /\ ready' \in Seq(Event)
             /\ k[1] = s => Silent(ready', k)
             /\ k[1] # s => /\ Silent(ready', k) <=> Silent(ready, k)
                            /\ LastSays(ready, k, x) => LastSays(ready', k, x)
  <2>1. /\ Kept(ready, I) \in Seq(Event)
        /\ k[1] = s => Silent(Kept(ready, I), k)
        /\ k[1] # s => /\ Silent(Kept(ready, I), k) <=> Silent(ready, k)
                       /\ LastSays(ready, k, x) => LastSays(Kept(ready, I), k, x)
    BY <1>1, KeptSays
  <2> QED BY <1>1, <2>1
<1>6. <<e>> \in Seq(Event) /\ u \in Seq(Event) /\ ready' \in Seq(Event)
  <2>1. ready' \in Seq(Event)
    BY <1>5
  <2> QED BY <1>1, <1>2, <2>1
<1>7. OnTheWay' = u \o ready'
  BY <1>1, <1>2, AppendIsConcat DEF OnTheWay
<1>8. \A k : /\ Silent(u, k) <=> Silent(unread, k) /\ k[1] # s
             /\ Silent(OnTheWay', k) <=> Silent(u, k) /\ Silent(ready', k)
             /\ Silent(OnTheWay, k) <=> Silent(unread, k) /\ Silent(ready, k)
  <2> SUFFICES ASSUME NEW k PROVE /\ Silent(u, k) <=> Silent(unread, k) /\ k[1] # s
                                  /\ Silent(OnTheWay', k) <=> Silent(u, k) /\ Silent(ready', k)
                                  /\ Silent(OnTheWay, k) <=> Silent(unread, k) /\ Silent(ready, k)
    OBVIOUS
  <2>1. Silent(u, k) <=> Silent(unread, k) /\ Silent(<<e>>, k)
    BY <1>1, <1>6, JoinedSays
  <2>2. Silent(<<e>>, k) <=> k[1] # s
    BY <1>2, OneSays
  <2> HIDE DEF u
  <2>3. Silent(OnTheWay', k) <=> Silent(u, k) /\ Silent(ready', k)
    BY <1>6, <1>7, JoinedSays
  <2>4. Silent(OnTheWay, k) <=> Silent(unread, k) /\ Silent(ready, k)
    BY <1>1, JoinedSays DEF OnTheWay
  <2> QED BY <2>1, <2>2, <2>3, <2>4
<1>9. \A k, x : /\ LastSays(u, k, x) <=>
                      /\ k[1] = s => Says(e, k, x)
                      /\ k[1] # s => LastSays(unread, k, x)
                /\ LastSays(OnTheWay', k, x) <=> LastSays(ready', k, x) /\ (Silent(ready', k) => LastSays(u, k, x))
                /\ LastSays(OnTheWay, k, x) <=>
                      LastSays(ready, k, x) /\ (Silent(ready, k) => LastSays(unread, k, x))
  <2> SUFFICES ASSUME NEW k, NEW x
               PROVE  /\ LastSays(u, k, x) <=>
                            /\ k[1] = s => Says(e, k, x)
                            /\ k[1] # s => LastSays(unread, k, x)
                      /\ LastSays(OnTheWay', k, x) <=> LastSays(ready', k, x) /\ (Silent(ready', k) => LastSays(u, k, x))
                      /\ LastSays(OnTheWay, k, x) <=>
                            LastSays(ready, k, x) /\ (Silent(ready, k) => LastSays(unread, k, x))
    OBVIOUS
  <2>1. LastSays(u, k, x) <=> LastSays(<<e>>, k, x) /\ (Silent(<<e>>, k) => LastSays(unread, k, x))
    BY <1>1, <1>6, JoinedSays
  <2>2. /\ Silent(<<e>>, k) <=> k[1] # s
        /\ LastSays(<<e>>, k, x) <=> (k[1] = s => Says(e, k, x))
    BY <1>2, OneSays
  <2> HIDE DEF u
  <2>3. LastSays(OnTheWay', k, x) <=> LastSays(ready', k, x) /\ (Silent(ready', k) => LastSays(u, k, x))
    BY <1>6, <1>7, JoinedSays
  <2>4. LastSays(OnTheWay, k, x) <=> LastSays(ready, k, x) /\ (Silent(ready, k) => LastSays(unread, k, x))
    BY <1>1, JoinedSays DEF OnTheWay
  <2> QED BY <2>1, <2>2, <2>3, <2>4
<1> HIDE DEF u
<1> SUFFICES ASSUME NEW k \in Slot PROVE Known(k)'
  BY DEF NetIInv
<1>10. CASE k[1] = s
  <2>1. k \notin DOMAIN buffer' /\ k \notin seen'
    BY <1>1, <1>4, <1>10 DEF SlotsOf
  <2>2. Silent(ready', k) /\ ~Silent(OnTheWay', k)
    BY <1>5, <1>8, <1>10
  <2>3. LastSays(ready', k, exists'[k])
    BY <2>2 DEF Silent, LastSays
  <2>4. LastSays(OnTheWay', k, exists'[k])
    BY <1>3, <1>9, <1>10, <2>3 DEF Says
  <2>5. RestIsKnown(k)'
    BY <2>1, <2>2, <2>4 DEF RestIsKnown, ComesToBelieve
  <2> QED BY <2>1, <2>5 DEF Known
<1>11. CASE k[1] # s
  <2>1. Known(k)
    BY DEF NetIInv
  <2>2. /\ k \in DOMAIN buffer' <=> k \in DOMAIN buffer
        /\ k \in DOMAIN buffer => buffer'[k] = buffer[k]
        /\ k \in seen' <=> k \in seen
    BY <1>1, <1>4, <1>11 DEF SlotsOf
  <2>3. Silent(OnTheWay', k) <=> Silent(OnTheWay, k)
    BY <1>5, <1>8, <1>11
  <2>4. \A x : LastSays(OnTheWay, k, x) => LastSays(OnTheWay', k, x)
    BY <1>5, <1>9, <1>11
  <2>5. \A x : ComesToBelieve(view[k], OnTheWay, k, x) => ComesToBelieve(view'[k], OnTheWay', k, x)
    BY <2>3, <2>4 DEF ComesToBelieve
  <2>6. exists'[k] = exists[k] /\ (stale'[k] => stale[k])
    BY <1>11
  <2> QED BY <2>1, <2>2, <2>3, <2>5, <2>6, Untouched
<1> QED BY <1>10, <1>11

\* A released subscription is not asked about any more.
LEMMA ForgetNet ==
    ASSUME IInv, NetIInv, NEW s \in Sub, Forget(s)
    PROVE  NetIInv'
<1> DEFINE I == {i \in DOMAIN ready : ready[i].sub # s}
<1>1. /\ unread \in Seq(Event) /\ ready \in Seq(Event) /\ DOMAIN buffer \subseteq Slot /\ LivesTyped
      /\ drop_subscription(s) /\ life' = [life EXCEPT ![s] = "gone"]
      /\ UNCHANGED <<exists, unread, view, stale, seen>>
      /\ ready' = Kept(ready, I) /\ I \in SUBSET DOMAIN ready
      /\ \A i \in DOMAIN ready : i \in I <=> ready[i].sub # s
  BY OnTheWayTyped DEF IInv, Forget, forget_subscription, drop_subscription, ready_without, world
<1>2. DOMAIN buffer' = DOMAIN buffer \ SlotsOf(s) /\ \A k \in DOMAIN buffer' : buffer'[k] = buffer[k]
  BY <1>1, SubscriptionDropped
<1> HIDE DEF I
<1>3. ASSUME NEW k, NEW x
      PROVE  /\ ready' \in Seq(Event)
             /\ k[1] = s => Silent(ready', k)
             /\ k[1] # s => /\ Silent(ready', k) <=> Silent(ready, k)
                            /\ LastSays(ready, k, x) => LastSays(ready', k, x)
  <2>1. /\ Kept(ready, I) \in Seq(Event)
        /\ k[1] = s => Silent(Kept(ready, I), k)
        /\ k[1] # s => /\ Silent(Kept(ready, I), k) <=> Silent(ready, k)
                       /\ LastSays(ready, k, x) => LastSays(Kept(ready, I), k, x)
    BY <1>1, KeptSays
  <2> QED BY <1>1, <2>1
<1>4. ready' \in Seq(Event) /\ OnTheWay' = unread \o ready'
  BY <1>1, <1>3 DEF OnTheWay
<1> SUFFICES ASSUME NEW k \in Slot PROVE Known(k)'
  BY DEF NetIInv
<1>5. CASE k[1] = s
  <2>1. k \notin DOMAIN buffer' /\ life'[k[1]] = "gone"
    BY <1>1, <1>2, <1>5 DEF SlotsOf, LivesTyped
  <2> QED BY <2>1 DEF Known
<1>6. CASE k[1] # s
  <2>1. Known(k)
    BY DEF NetIInv
  <2>2. /\ k \in DOMAIN buffer' <=> k \in DOMAIN buffer
        /\ k \in DOMAIN buffer => buffer'[k] = buffer[k]
        /\ k \in seen' <=> k \in seen
        /\ exists'[k] = exists[k] /\ (stale'[k] => stale[k])
    BY <1>1, <1>2, <1>6 DEF SlotsOf
  <2>3. life'[k[1]] # "gone" => life[k[1]] # "gone"
    BY <1>1, <1>6, SlotShape DEF LivesTyped
  <2>4. /\ Silent(OnTheWay', k) <=> Silent(unread, k) /\ Silent(ready', k)
        /\ \A x : LastSays(OnTheWay', k, x) <=>
              LastSays(ready', k, x) /\ (Silent(ready', k) => LastSays(unread, k, x))
    BY <1>1, <1>4, JoinedSays
  <2>5. /\ Silent(OnTheWay, k) <=> Silent(unread, k) /\ Silent(ready, k)
        /\ \A x : LastSays(OnTheWay, k, x) <=>
              LastSays(ready, k, x) /\ (Silent(ready, k) => LastSays(unread, k, x))
    BY <1>1, JoinedSays DEF OnTheWay
  <2>6. Silent(OnTheWay', k) <=> Silent(OnTheWay, k)
    BY <1>3, <1>6, <2>4, <2>5
  <2>7. \A x : LastSays(OnTheWay, k, x) => LastSays(OnTheWay', k, x)
    BY <1>3, <1>6, <2>4, <2>5
  <2>8. \A x : ComesToBelieve(view[k], OnTheWay, k, x) => ComesToBelieve(view'[k], OnTheWay', k, x)
    BY <1>1, <2>6, <2>7 DEF ComesToBelieve
  <2> QED BY <2>1, <2>2, <2>3, <2>6, <2>8, Untouched
<1> QED BY <1>5, <1>6

\* A change of one path touches no other.
LEMMA ChangeMet ==
    ASSUME IInv, NEW s \in Sub, NEW p \in Path, NEW kind \in Lifecycle, happens(s, p, kind),
           changed(s, p, kind), stale' = [stale EXCEPT ![<<s, p>>] = TRUE]
    PROVE  /\ life[s] = "live" /\ <<s, p>> \in Slot /\ <<s, p>>[1] = s
           /\ exists[<<s, p>>] \/ kind = "Created"
           /\ exists'[<<s, p>>] = (kind # "Removed")
           /\ \A k \in Slot : k # <<s, p>> => exists'[k] = exists[k] /\ (stale'[k] => stale[k])
<1> DEFINE c == <<s, p>>
<1>1. exists \in [Slot -> BOOLEAN] /\ stale \in [Slot -> BOOLEAN] /\ c \in Slot /\ c[1] = s
  BY OnTheWayTyped DEF Slot
<1>2. /\ exists' = [exists EXCEPT ![c] = kind # "Removed"] /\ stale' = [stale EXCEPT ![c] = TRUE]
      /\ life[s] = "live" /\ (exists[c] \/ kind = "Created")
  BY DEF changed, happens
<1> HIDE DEF c
<1>3. exists'[c] = (kind # "Removed")
  BY <1>1, <1>2
<1>4. \A k \in Slot : k # c => exists'[k] = exists[k] /\ (stale'[k] => stale[k])
  BY <1>1, <1>2
<1> QED BY <1>1, <1>2, <1>3, <1>4 DEF c

LEMMA AdmitThroughNet ==
    ASSUME IInv, NetIInv, NEW s \in Sub, NEW p \in Path, NEW kind \in Lifecycle, AdmitThrough(s, p, kind)
    PROVE  NetIInv'
<1> DEFINE e == [sub |-> s, path |-> p, from |-> p, kind |-> kind, epoch |-> epoch[s]]
           c == <<s, p>>
           q == <<e>>
<1>1. /\ happens(s, p, kind) /\ changed(s, p, kind) /\ stale' = [stale EXCEPT ![<<s, p>>] = TRUE]
      /\ passes_through(s) /\ ready' = ready \o q /\ seen' = seen \ {c}
      /\ UNCHANGED <<life, buffer, unread, view>> /\ epoch[s] \in Nat
  BY DEF AdmitThrough, now_ready, reported, IInv, LivesTyped
<1>2. /\ c \in Slot /\ exists'[c] = (kind # "Removed")
      /\ \A k \in Slot : k # c => exists'[k] = exists[k] /\ (stale'[k] => stale[k])
  BY <1>1, ChangeMet
<1>3. e \in Event /\ e.kind = kind /\ kind # "Moved"
  BY <1>1 DEF Event, Kind, Lifecycle
<1>4. \A k \in Slot : Tells(e, k) <=> k = c
  <2> SUFFICES ASSUME NEW k \in Slot PROVE Tells(e, k) <=> k = c
    OBVIOUS
  <2>1. k = <<k[1], k[2]>> /\ kind # "Rescan"
    BY SlotShape DEF Lifecycle
  <2> QED BY <2>1 DEF Tells
<1>5. c \notin DOMAIN buffer
  BY <1>1 DEF IInv, OnlySettling
<1> HIDE DEF e, c
<1>6. q \in Seq(Event)
  BY <1>3
<1>7. OnTheWay' = OnTheWay \o q
  BY <1>1, <1>6, ReadyOnTheWay
<1>8. /\ \A k : Silent(q, k) <=> ~Tells(e, k)
      /\ \A k, x : LastSays(q, k, x) <=> (Tells(e, k) => Says(e, k, x))
  BY OneSays
<1> HIDE DEF q
<1>9. Says(e, c, exists'[c])
  BY <1>2, <1>3 DEF Says
<1>10. \A k \in Slot : Silent(q, k) =>
          /\ k \in DOMAIN buffer' <=> k \in DOMAIN buffer
          /\ k \in DOMAIN buffer => buffer'[k] = buffer[k]
          /\ exists'[k] = exists[k] /\ (stale'[k] => stale[k])
          /\ k \in seen' <=> k \in seen
  BY <1>1, <1>2, <1>4, <1>8
<1>11. \A k \in Slot : ~Silent(q, k) =>
          k \notin DOMAIN buffer' /\ k \notin seen' /\ LastSays(q, k, exists'[k])
  BY <1>1, <1>4, <1>5, <1>8, <1>9
<1> QED BY <1>1, <1>6, <1>7, <1>10, <1>11, Appended

\* A change of one path that stays in the buffer or leaves it.
LEMMA HeldNet ==
    ASSUME IInv, NetIInv, NEW c \in Slot, ready' = ready, unread' = unread, life' = life, view' = view,
           \A k \in Slot : k # c =>
              /\ exists'[k] = exists[k] /\ (stale'[k] => stale[k])
              /\ k \in DOMAIN buffer' <=> k \in DOMAIN buffer
              /\ k \in DOMAIN buffer => buffer'[k] = buffer[k]
              /\ k \in seen' <=> k \in seen,
           Known(c)'
    PROVE  NetIInv'
<1> SUFFICES ASSUME NEW k \in Slot, k # c PROVE Known(k)'
  BY DEF NetIInv
<1>1. OnTheWay' = OnTheWay
  BY DEF OnTheWay
<1>2. Known(k)
  BY DEF NetIInv
<1> QED BY <1>1, <1>2, Untouched

LEMMA AdmitFreshNet ==
    ASSUME IInv, NetIInv, NEW s \in Sub, NEW p \in Path, NEW kind \in Lifecycle, AdmitFresh(s, p, kind)
    PROVE  NetIInv'
<1> DEFINE c == <<s, p>>
<1>1. /\ happens(s, p, kind) /\ changed(s, p, kind) /\ stale' = [stale EXCEPT ![<<s, p>>] = TRUE]
      /\ c \notin DOMAIN buffer
      /\ seen' = IF kind = "Created" /\ exists[c] THEN seen \cup {c} ELSE seen
      /\ UNCHANGED <<life, ready, unread, view>>
  BY DEF AdmitFresh, reported
<1>2. /\ DOMAIN buffer' = DOMAIN buffer \cup {c} /\ buffer'[c].kind = kind
      /\ \A k \in DOMAIN buffer : k # c => buffer'[k] = buffer[k]
  BY DEF AdmitFresh
<1>3. /\ c \in Slot /\ c[1] = s /\ life[s] = "live" /\ exists'[c] = (kind # "Removed")
      /\ \A k \in Slot : k # c => exists'[k] = exists[k] /\ (stale'[k] => stale[k])
  BY <1>1, ChangeMet
<1> HIDE DEF c
<1>4. RestIsKnown(c)
  BY <1>1, <1>3 DEF NetIInv, Known
<1>5. OnTheWay' = OnTheWay
  BY <1>1 DEF OnTheWay
<1>6. ASSUME kind = "Created", c \notin seen'
      PROVE  ComesToBelieve(view'[c], OnTheWay', c, FALSE)
  <2>1. exists[c] = FALSE /\ c \notin seen
    <3>1. exists[c] \in BOOLEAN
      BY <1>3, OnTheWayTyped
    <3> QED BY <1>1, <1>6, <3>1
  <2>2. ComesToBelieve(view[c], OnTheWay, c, exists[c])
    BY <1>4, <2>1 DEF RestIsKnown
  <2> QED BY <1>1, <1>5, <2>1, <2>2
<1>7. HeldIsNews(c)'
  BY <1>2, <1>3, <1>6 DEF HeldIsNews
<1>8. Known(c)'
  BY <1>2, <1>7 DEF Known
<1> QED BY <1>1, <1>2, <1>3, <1>8, HeldNet

LEMMA AdmitCollapseNet ==
    ASSUME IInv, NetIInv, NEW s \in Sub, NEW p \in Path, NEW kind \in Lifecycle, AdmitCollapse(s, p, kind)
    PROVE  NetIInv'
<1> DEFINE c == <<s, p>>
<1>1. /\ happens(s, p, kind) /\ changed(s, p, kind) /\ stale' = [stale EXCEPT ![<<s, p>>] = TRUE]
      /\ c \in DOMAIN buffer /\ collapse(buffer[c].kind, kind) # "annihilate"
      /\ UNCHANGED <<life, ready, unread, view, seen>>
  BY DEF AdmitCollapse, reported
<1>2. /\ DOMAIN buffer' = DOMAIN buffer /\ buffer'[c].kind = collapse(buffer[c].kind, kind)
      /\ \A k \in DOMAIN buffer : k # c => buffer'[k] = buffer[k]
  BY DEF AdmitCollapse
<1>3. /\ c \in Slot /\ exists'[c] = (kind # "Removed")
      /\ \A k \in Slot : k # c => exists'[k] = exists[k] /\ (stale'[k] => stale[k])
  BY <1>1, ChangeMet
<1> HIDE DEF c
<1>4. HeldIsNews(c) /\ buffer[c].kind \in Lifecycle
  BY <1>1, <1>3, EventOfSlot DEF NetIInv, Known, IInv
<1>5. /\ (kind # "Removed") = (buffer'[c].kind # "Removed")
      /\ buffer'[c].kind = "Created" => buffer[c].kind = "Created"
  BY <1>1, <1>2, <1>4 DEF collapse, Lifecycle
<1>6. OnTheWay' = OnTheWay
  BY <1>1 DEF OnTheWay
<1>7. HeldIsNews(c)'
  BY <1>1, <1>3, <1>4, <1>5, <1>6 DEF HeldIsNews
<1>8. Known(c)'
  BY <1>1, <1>2, <1>7 DEF Known
<1> QED BY <1>1, <1>2, <1>3, <1>8, HeldNet

\* A Created that was news and is gone again leaves the consumer with nothing
\* to know.
LEMMA AdmitAnnihilateNet ==
    ASSUME IInv, NetIInv, NEW s \in Sub, NEW p \in Path, NEW kind \in Lifecycle, AdmitAnnihilate(s, p, kind)
    PROVE  NetIInv'
<1> DEFINE c == <<s, p>>
<1>1. /\ happens(s, p, kind) /\ changed(s, p, kind) /\ stale' = [stale EXCEPT ![<<s, p>>] = TRUE]
      /\ c \in DOMAIN buffer /\ collapse(buffer[c].kind, kind) = "annihilate"
      /\ buffer' = [j \in DOMAIN buffer \ {c} |-> buffer[j]]
      /\ UNCHANGED <<life, ready, unread, view, seen>>
  BY DEF AdmitAnnihilate, reported, without
<1>2. /\ c \in Slot /\ exists'[c] = (kind # "Removed")
      /\ \A k \in Slot : k # c => exists'[k] = exists[k] /\ (stale'[k] => stale[k])
  BY <1>1, ChangeMet
<1> HIDE DEF c
<1>3. HeldIsNews(c) /\ buffer[c].kind \in Lifecycle
  BY <1>1, <1>2, EventOfSlot DEF NetIInv, Known, IInv
<1>4. buffer[c].kind = "Created" /\ kind = "Removed"
  BY <1>1, <1>3 DEF collapse, Lifecycle
<1>5. exists'[c] = FALSE
  BY <1>2, <1>4
<1>6. OnTheWay' = OnTheWay
  BY <1>1 DEF OnTheWay
<1>7. RestIsKnown(c)'
  BY <1>1, <1>3, <1>4, <1>5, <1>6 DEF HeldIsNews, RestIsKnown
<1>8. Known(c)'
  BY <1>1, <1>7 DEF Known
<1>9. \A k \in Slot : k # c => /\ k \in DOMAIN buffer' <=> k \in DOMAIN buffer
                               /\ k \in DOMAIN buffer => buffer'[k] = buffer[k]
  BY <1>1
<1> QED BY <1>1, <1>2, <1>8, <1>9, HeldNet

\* What the consumer reads, it knows, and by the end of what is on its way it
\* believes what it was to believe.
LEMMA ReadNet ==
    ASSUME IInv, NetIInv, Read
    PROVE  NetIInv'
<1> DEFINE e == Head(unread)
           q == <<e>>
<1>1. /\ unread \in Seq(Event) /\ ready \in Seq(Event) /\ unread # <<>> /\ unread' = Tail(unread)
      /\ exists \in [Slot -> BOOLEAN] /\ ready' = ready
      /\ stale' = [k \in Slot |-> ~Tells(e, k) /\ stale[k]]
      /\ view' = [k \in Slot |-> IF Tells(e, k) THEN Believes(e, k) ELSE view[k]]
      /\ seen' = IF e.kind # "Rescan" THEN seen
                 ELSE seen \cup {k \in SlotsOf(e.sub) : buffer[k].kind = "Created"}
      /\ UNCHANGED <<life, buffer, exists>>
  BY OnTheWayTyped DEF Read, cvars
<1>2. e \in Event /\ unread = q \o unread' /\ unread' \in Seq(Event) /\ q \in Seq(Event)
  <2>1. e \in Event /\ unread' \in Seq(Event)
    BY <1>1
  <2>2. q \o unread' \in Seq(Event) /\ Len(q \o unread') = Len(unread)
    BY <1>1, <2>1
  <2>3. \A i \in 1 .. Len(unread) : (q \o unread')[i] = unread[i]
    BY <1>1, <2>1
  <2> QED BY <1>1, <2>1, <2>2, <2>3, SeqEqual
<1> HIDE DEF e
<1>3. OnTheWay = q \o OnTheWay' /\ OnTheWay' \in Seq(Event)
  <2>1. OnTheWay' = unread' \o ready
    BY <1>1 DEF OnTheWay
  <2>2. OnTheWay' \in Seq(Event)
    BY <1>1, <1>2, <2>1
  <2>3. (q \o unread') \o ready = q \o (unread' \o ready)
    BY <1>1, <1>2, Associative
  <2>4. OnTheWay = (q \o unread') \o ready
    BY <1>2 DEF OnTheWay
  <2> QED BY <2>1, <2>2, <2>3, <2>4
<1> SUFFICES ASSUME NEW k \in Slot PROVE Known(k)'
  BY DEF NetIInv
<1>4. Known(k)
  BY DEF NetIInv
<1>5. /\ Silent(OnTheWay, k) <=> ~Tells(e, k) /\ Silent(OnTheWay', k)
      /\ \A x : LastSays(OnTheWay, k, x) <=>
            /\ LastSays(OnTheWay', k, x)
            /\ Silent(OnTheWay', k) /\ Tells(e, k) => Says(e, k, x)
  <2>1. ASSUME NEW x
        PROVE  /\ Silent(OnTheWay, k) <=> Silent(q, k) /\ Silent(OnTheWay', k)
               /\ LastSays(OnTheWay, k, x) <=>
                     LastSays(OnTheWay', k, x) /\ (Silent(OnTheWay', k) => LastSays(q, k, x))
               /\ Silent(q, k) <=> ~Tells(e, k)
               /\ LastSays(q, k, x) <=> (Tells(e, k) => Says(e, k, x))
    <3>1. /\ Silent(q \o OnTheWay', k) <=> Silent(q, k) /\ Silent(OnTheWay', k)
          /\ LastSays(q \o OnTheWay', k, x) <=>
                LastSays(OnTheWay', k, x) /\ (Silent(OnTheWay', k) => LastSays(q, k, x))
      BY <1>2, <1>3, JoinedSays
    <3>2. Silent(q, k) <=> ~Tells(e, k)
      BY OneSays
    <3>3. LastSays(q, k, x) <=> (Tells(e, k) => Says(e, k, x))
      BY OneSays
    <3> HIDE DEF q
    <3> QED BY <1>3, <3>1, <3>2, <3>3
  <2> HIDE DEF q
  <2> QED BY <2>1
<1> HIDE DEF q
<1>6. k \in seen' => k \in seen \/ (k \in DOMAIN buffer /\ e.kind = "Rescan" /\ Tells(e, k))
  BY <1>1 DEF SlotsOf, Tells
<1>7. k \in seen => k \in seen'
  BY <1>1
<1>8. CASE ~Tells(e, k)
  <2>1. view'[k] = view[k] /\ (stale'[k] => stale[k])
    BY <1>1, <1>8
  <2>2. \A x : ComesToBelieve(view[k], OnTheWay, k, x) => ComesToBelieve(view'[k], OnTheWay', k, x)
    BY <1>5, <1>8, <2>1 DEF ComesToBelieve
  <2>3. Silent(OnTheWay', k) => Silent(OnTheWay, k)
    BY <1>5, <1>8
  <2>4. k \in seen' <=> k \in seen
    BY <1>6, <1>7, <1>8
  <2>5. exists'[k] = exists[k] /\ buffer' = buffer /\ life' = life
    BY <1>1
  <2> QED BY <1>4, <2>1, <2>2, <2>3, <2>4, <2>5, Untouched
<1>9. CASE Tells(e, k)
  <2>1. ~stale'[k] /\ view'[k] = Believes(e, k)
    BY <1>1, <1>9
  <2>2. ASSUME NEW x \in BOOLEAN, LastSays(OnTheWay, k, x), e.kind = "Rescan" => x = exists[k]
        PROVE  ComesToBelieve(view'[k], OnTheWay', k, x)
    <3>1. LastSays(OnTheWay', k, x)
      BY <1>5, <2>2
    <3>2. ASSUME Silent(OnTheWay', k) PROVE view'[k] = x
      <4>1. Says(e, k, x)
        BY <1>5, <1>9, <2>2, <3>2
      <4>2. CASE e.kind = "Rescan"
        BY <2>1, <2>2, <4>2 DEF Believes
      <4>3. CASE e.kind = "Moved"
        <5>1. x = (k[2] = e.path)
          BY <4>1, <4>3 DEF Says
        <5> QED BY <2>1, <4>3, <5>1 DEF Believes
      <4>4. CASE e.kind # "Rescan" /\ e.kind # "Moved"
        <5>1. x = (e.kind # "Removed")
          BY <4>1, <4>4 DEF Says
        <5> QED BY <2>1, <4>4, <5>1 DEF Believes
      <4> QED BY <4>2, <4>3, <4>4
    <3> QED BY <3>1, <3>2 DEF ComesToBelieve
  <2>3. CASE k \in DOMAIN buffer
    <3>1. HeldIsNews(k)
      BY <1>4, <2>3 DEF Known
    <3>2. ASSUME buffer[k].kind = "Created", k \notin seen'
          PROVE  ComesToBelieve(view'[k], OnTheWay', k, FALSE)
      <4>1. k \notin seen /\ e.kind # "Rescan"
        BY <1>1, <1>7, <1>9, <2>3, <3>2 DEF SlotsOf, Tells
      <4>2. LastSays(OnTheWay, k, FALSE)
        BY <3>1, <3>2, <4>1 DEF HeldIsNews, ComesToBelieve
      <4> QED BY <2>2, <4>1, <4>2
    <3>3. HeldIsNews(k)'
      BY <1>1, <3>1, <3>2 DEF HeldIsNews
    <3> QED BY <1>1, <2>3, <3>3 DEF Known
  <2>4. CASE k \notin DOMAIN buffer /\ life[k[1]] # "gone"
    <3>1. RestIsKnown(k)
      BY <1>4, <2>4 DEF Known
    <3>2. k \in seen' <=> k \in seen
      BY <1>6, <1>7, <2>4
    <3>3. ASSUME k \notin seen'
          PROVE  ComesToBelieve(view'[k], OnTheWay', k, exists'[k])
      <4>1. LastSays(OnTheWay, k, exists[k]) /\ exists[k] \in BOOLEAN
        BY <1>1, <3>1, <3>2, <3>3 DEF RestIsKnown, ComesToBelieve
      <4>2. ComesToBelieve(view'[k], OnTheWay', k, exists[k])
        BY <2>2, <4>1
      <4> QED BY <1>1, <4>2
    <3>4. RestIsKnown(k)'
      BY <1>1, <2>1, <3>1, <3>2, <3>3 DEF RestIsKnown
    <3> QED BY <1>1, <2>4, <3>4 DEF Known
  <2>5. CASE k \notin DOMAIN buffer /\ life[k[1]] = "gone"
    BY <1>1, <2>5 DEF Known
  <2> QED BY <2>3, <2>4, <2>5
<1> QED BY <1>8, <1>9

\* The steps that touch neither what is held nor the world.
LEMMA QuietNet ==
    ASSUME IInv, NetIInv,
           \/ \E s \in Sub, policy \in {"Inherit", "Off", "Custom"} : SetPolicy(s, policy)
           \/ \E s \in Sub : EpochMoves(s)
           \/ Tick \/ UNCHANGED vars
    PROVE  NetIInv'
<1>1. /\ buffer' = buffer /\ ready' = ready /\ unread' = unread /\ seen' = seen
      /\ exists' = exists /\ view' = view /\ stale' = stale
      /\ \A s \in Sub : life'[s] # "gone" => life[s] # "gone"
  BY DEF SetPolicy, EpochMoves, Tick, vars, cvars, world, IInv, LivesTyped
<1> SUFFICES ASSUME NEW k \in Slot PROVE Known(k)'
  BY DEF NetIInv
<1>2. Known(k) /\ OnTheWay' = OnTheWay
  BY <1>1 DEF NetIInv, OnTheWay
<1>3. life'[k[1]] # "gone" => life[k[1]] # "gone"
  BY <1>1, SlotShape
<1> QED BY <1>1, <1>2, <1>3, Untouched

LEMMA NextNetIInv ==
    ASSUME IInv, NetIInv, [Next]_vars
    PROVE  NetIInv'
<1>1. ASSUME NEW s \in Sub, NEW p \in Path, NEW kind \in Lifecycle,
             AdmitThrough(s, p, kind) \/ AdmitFresh(s, p, kind)
             \/ AdmitCollapse(s, p, kind) \/ AdmitAnnihilate(s, p, kind)
      PROVE  NetIInv'
  BY <1>1, AdmitThroughNet, AdmitFreshNet, AdmitCollapseNet, AdmitAnnihilateNet
<1>2. ASSUME NEW s \in Sub, NEW p \in Path, NEW kind \in Lifecycle, AdmitOverflow(s, p, kind)
      PROVE  NetIInv'
  <2>1. /\ happens(s, p, kind) /\ changed(s, p, kind) /\ stale' = [stale EXCEPT ![<<s, p>>] = TRUE]
        /\ drop_subscription(s) /\ owed_rescan(s, p) /\ life' = life /\ view' = view
    BY <1>2 DEF AdmitOverflow
  <2>2. \A k \in Slot : k[1] # s => exists'[k] = exists[k] /\ (stale'[k] => stale[k])
    BY <2>1, ChangeMet
  <2> QED BY <2>1, <2>2, ShedNet
<1>3. ASSUME NEW s \in Sub, \/ \E from, to \in Path : AdmitMoved(s, from, to)
                            \/ \E p \in Path : AdmitRescan(s, p)
      PROVE  NetIInv'
  BY <1>3, AdmitMovedNet, AdmitRescanNet
<1>4. ASSUME NEW s \in Sub, NEW p \in Path, Shed(s, p)
      PROVE  NetIInv'
  <2>1. /\ drop_subscription(s) /\ owed_rescan(s, p)
        /\ UNCHANGED <<life, exists, view, stale>>
    BY <1>4 DEF Shed
  <2> QED BY <2>1, ShedNet
<1>5. ASSUME NEW s \in Sub, Forget(s)
      PROVE  NetIInv'
  BY <1>5, ForgetNet
<1>6. ASSUME Drain
      PROVE  NetIInv'
  <2>1. /\ DueSlots \in SUBSET DOMAIN buffer /\ handed_over(ready \o Sorted(DueSlots))
        /\ ready' = <<>> /\ life' = life /\ seen' = seen \ DueSlots /\ without(DueSlots)
    BY <1>6, DueIsHeld DEF Drain, IInv
  <2>2. DOMAIN buffer' = DOMAIN buffer \ DueSlots /\ \A k \in DOMAIN buffer' : buffer'[k] = buffer[k]
    BY <2>1 DEF without
  <2>3. view' = view
    BY <2>1 DEF handed_over
  <2> QED BY <2>1, <2>2, <2>3, DrainedNet
<1>7. ASSUME FlushAll
      PROVE  NetIInv'
  <2> DEFINE K == DOMAIN buffer
  <2>1. /\ K \in SUBSET DOMAIN buffer /\ handed_over(ready \o Sorted(K))
        /\ ready' = <<>> /\ life' = life /\ seen' = seen \ K /\ DOMAIN buffer' = DOMAIN buffer \ K
        /\ \A k \in DOMAIN buffer' : buffer'[k] = buffer[k]
    BY <1>7 DEF FlushAll, Empty
  <2>2. view' = view
    BY <2>1 DEF handed_over
  <2> HIDE DEF K
  <2> QED BY <2>1, <2>2, DrainedNet
<1>8. ASSUME Read
      PROVE  NetIInv'
  BY <1>8, ReadNet
<1>9. ASSUME \/ \E s \in Sub, policy \in {"Inherit", "Off", "Custom"} : SetPolicy(s, policy)
             \/ \E s \in Sub : EpochMoves(s)
             \/ Tick \/ UNCHANGED vars
      PROVE  NetIInv'
  BY <1>9, QuietNet
<1> QED BY <1>1, <1>2, <1>3, <1>4, <1>5, <1>6, <1>7, <1>8, <1>9 DEF Next

\* Collapsing loses nothing a consumer needs, whenever it reads its channel and
\* whatever a Created reports: of a path that is not held it believes the
\* truth, and it looked at the newest content, once it has read on; only of a
\* path whose Created and Removed annihilated each other, while it could know of
\* an object there, may it still believe in one (`collapse`,
\* `flush_subscription`, `drain_ready`).
THEOREM NetEffectTheorem == Spec => []NetEffect
<1>1. Init => IInv /\ NetIInv
  <2> SUFFICES ASSUME Init PROVE IInv /\ NetIInv
    OBVIOUS
  <2>1. DOMAIN buffer = {} /\ OnTheWay = <<>> /\ view = exists /\ seen = {} /\ stale = [k \in Slot |-> FALSE]
    BY DEF Init, Empty, OnTheWay
  <2>2. \A k \in Slot : RestIsKnown(k)
    BY <2>1 DEF RestIsKnown, ComesToBelieve, LastSays
  <2> QED BY <2>1, <2>2, InitIInv DEF NetIInv, Known
<1>2. IInv /\ NetIInv /\ [Next]_vars => (IInv /\ NetIInv)'
  BY NextIInv, NextNetIInv
<1>3. IInv /\ NetIInv => NetEffect
  <2> SUFFICES ASSUME IInv, NetIInv, ready = <<>>, unread = <<>>,
                      NEW k \in Slot, life[k[1]] = "live", k \notin DOMAIN buffer
               PROVE  /\ exists[k] => view[k] /\ ~stale[k]
                      /\ view[k] => exists[k] \/ k \in seen
    BY DEF NetEffect
  <2>1. RestIsKnown(k) /\ OnTheWay = <<>>
    BY DEF NetIInv, Known, OnTheWay
  <2>2. Silent(OnTheWay, k)
    BY <2>1 DEF Silent
  <2>3. exists[k] \in BOOLEAN /\ view[k] \in BOOLEAN
    BY OnTheWayTyped
  <2> QED BY <2>1, <2>2, <2>3 DEF RestIsKnown, ComesToBelieve
<1> QED BY <1>1, <1>2, <1>3, PTL DEF Spec

=============================================================================

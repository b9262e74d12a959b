----------------------------- MODULE DemuxProofs -----------------------------
(***************************************************************************)
(* Machine-checked proofs about the demultiplexer, for every number of     *)
(* lanes and events and every capacity of its queues.                      *)
(***************************************************************************)
EXTENDS Demux, FiniteSetTheorems, TLAPS

\* The first event is an event only by its id.
LEMMA NoEventIsNone == NoEvent \notin Event /\ NoEvent.id = 0
BY DemuxAssumption DEF NoEvent, Event

\* Taking the head of a sequence moves every other element one place up.
LEMMA TailElements ==
    ASSUME NEW S, NEW q \in Seq(S), q # <<>>
    PROVE  /\ Tail(q) \in Seq(S) /\ Head(q) \in S /\ Len(Tail(q)) = Len(q) - 1
           /\ DOMAIN Tail(q) = 1 .. Len(q) - 1
           /\ \A i \in DOMAIN Tail(q) : i + 1 \in DOMAIN q /\ Tail(q)[i] = q[i + 1]
           /\ Head(q) = q[1] /\ 1 \in DOMAIN q
OBVIOUS

\* Appending keeps every element in its place.
LEMMA AppendElements ==
    ASSUME NEW S, NEW q \in Seq(S), NEW e \in S
    PROVE  /\ Append(q, e) \in Seq(S) /\ Len(Append(q, e)) = Len(q) + 1
           /\ DOMAIN Append(q, e) = DOMAIN q \cup {Len(q) + 1}
           /\ \A i \in DOMAIN q : Append(q, e)[i] = q[i]
           /\ Append(q, e)[Len(q) + 1] = e
OBVIOUS

\* A sequence is a function on its places.
LEMMA SequenceIsFunction ==
    ASSUME NEW S, NEW q \in Seq(S)
    PROVE  q \in [1 .. Len(q) -> S] /\ DOMAIN q = 1 .. Len(q) /\ Len(q) \in Nat
OBVIOUS

\* A call that changes its state stays the call it was, and so do the others.
LEMMA CallMoves ==
    ASSUME Typed, NEW g \in DOMAIN asked, NEW st \in CallState
    PROVE  /\ Moved(g, st) \in Seq(Call) /\ Len(Moved(g, st)) = Len(asked)
           /\ DOMAIN Moved(g, st) = DOMAIN asked
           /\ Moved(g, st)[g].state = st
           /\ \A h \in DOMAIN asked : h # g => Moved(g, st)[h] = asked[h]
<1>1. asked \in [1 .. Len(asked) -> Call] /\ g \in 1 .. Len(asked) /\ Len(asked) \in Nat
  BY SequenceIsFunction DEF Typed
<1>2. Moved(g, st) \in [1 .. Len(asked) -> Call]
  BY <1>1 DEF Call, Moved
<1>3. Moved(g, st) \in Seq(Call) /\ Len(Moved(g, st)) = Len(asked) /\ DOMAIN Moved(g, st) = DOMAIN asked
  BY <1>1, <1>2
<1>4. /\ Moved(g, st)[g].state = st
      /\ \A h \in DOMAIN asked : h # g => Moved(g, st)[h] = asked[h]
  BY <1>1 DEF Call, Moved
<1> QED BY <1>3, <1>4

\* The generations asked for are the first ones, and name a subscription.
LEMMA AskedKnown ==
    ASSUME Typed
    PROVE  /\ DOMAIN asked = 1 .. next_gen /\ next_gen \in 0 .. MaxGen /\ Len(asked) = next_gen
           /\ \A g \in DOMAIN asked : /\ asked[g] \in Call /\ asked[g].sub \in Sub
                                      /\ asked[g].state \in CallState /\ g \in 1 .. MaxGen
<1>1. asked \in Seq(Call) /\ next_gen \in 0 .. MaxGen /\ Len(asked) = next_gen
  BY DEF Typed
<1>2. DOMAIN asked = 1 .. next_gen /\ \A g \in DOMAIN asked : asked[g] \in Call
  BY <1>1, SequenceIsFunction
<1>3. \A g \in DOMAIN asked : asked[g].sub \in Sub /\ asked[g].state \in CallState
  BY <1>2 DEF Call
<1> QED BY <1>1, <1>2, <1>3, DemuxAssumption

LEMMA InitIInv == Init => IInv
<1> SUFFICES ASSUME Init PROVE IInv
  OBVIOUS
<1>1. Typed /\ TypeOK
  BY DemuxAssumption, FS_EmptySet, NoEventIsNone
  DEF Init, Typed, TypeOK, Nothing, NoEvent, Rest, Nowhere
<1>2. MessagesKnown /\ HeldIsRouted /\ LaneKeepsItsClaim
  BY DEF Init, MessagesKnown, HeldIsRouted, LaneKeepsItsClaim, Nothing
<1>3. StreamInOrder /\ StopCounts /\ NothingShed /\ StopDrains
  BY DEF Init, StreamInOrder, StopCounts, NothingShed, StopDrains
<1> QED BY <1>1, <1>2, <1>3 DEF IInv

-----------------------------------------------------------------------------
(* The callers.                                                            *)

LEMMA AsksLaneIInv == ASSUME IInv, NEW s \in Sub, AsksLane(s) PROVE IInv'
<1>1. /\ Len(asked') = next_gen' /\ next_gen' \in 0 .. MaxGen
      /\ asked' \in Seq(Call)
      /\ DOMAIN asked \subseteq DOMAIN asked' /\ \A g \in DOMAIN asked : asked'[g] = asked[g]
  <2>1. [sub |-> s, state |-> "sending"] \in Call
    BY DEF Call, CallState
  <2>2. asked \in Seq(Call) /\ Len(asked) = next_gen /\ next_gen \in 0 .. MaxGen
    BY DEF IInv, Typed
  <2>3. asked' = Append(asked, [sub |-> s, state |-> "sending"]) /\ next_gen' = next_gen + 1
        /\ next_gen < MaxGen
    BY DEF AsksLane
  <2> QED BY <2>1, <2>2, <2>3, AppendElements, DemuxAssumption
<1>2. \A g \in DOMAIN asked : is_closed(g)' = is_closed(g)
  BY <1>1 DEF is_closed, AsksLane, IInv, Typed, Rest
<1>3. Typed' /\ TypeOK'
  BY <1>1 DEF IInv, Typed, TypeOK, AsksLane, table, world, ending, routed, Message
<1>4. MessagesKnown' /\ HeldIsRouted'
  BY <1>1 DEF IInv, MessagesKnown, HeldIsRouted, AsksLane, table, routed, Typed
<1>5. LaneKeepsItsClaim'
  BY <1>2 DEF IInv, LaneKeepsItsClaim, AsksLane, table, ending, Typed
<1>6. (StreamInOrder /\ StopCounts /\ NothingShed /\ StopDrains)'
  BY DEF IInv, StreamInOrder, StopCounts, NothingShed, StopDrains, AsksLane,
         world, ending, routed
<1> QED BY <1>3, <1>4, <1>5, <1>6 DEF IInv

LEMMA RegistersIInv == ASSUME IInv, NEW g \in 1 .. MaxGen, Registers(g) PROVE IInv'
<1> DEFINE m == [op |-> "Register", sub |-> asked[g].sub, gen |-> g]
<1>0. g \in DOMAIN asked /\ "open" \in CallState
  BY DEF CallState, Registers
<1>1. /\ asked' \in Seq(Call)
      /\ Len(asked') = Len(asked) /\ DOMAIN asked' = DOMAIN asked
      /\ \A h \in DOMAIN asked : asked'[h].state = "dropped" <=> asked[h].state = "dropped"
  BY SMTT(30), <1>0, CallMoves DEF IInv, Registers
<1>2. \A h \in DOMAIN asked : is_closed(h)' = is_closed(h)
  BY <1>1 DEF is_closed, Registers, IInv, Typed, Rest
<1>3. m \in Message /\ m.gen \in DOMAIN asked /\ m.sub \in Sub
  BY <1>0, AskedKnown, NoEventIsNone DEF IInv, Message
<1>4. control' = control \/ (control' = Append(control, m) /\ admits)
  BY DEF Registers
<1>5. /\ control' \in Seq(Message) /\ Len(control') <= CONTROL_CAPACITY
      /\ \A i \in DOMAIN control' :
            (i \in DOMAIN control /\ control'[i] = control[i]) \/ control'[i] = m
  <2>1. control \in Seq(Message) /\ Len(control) <= CONTROL_CAPACITY /\ m \in Message
    BY <1>3 DEF IInv, Typed, TypeOK
  <2> QED BY SMTT(30), <2>1, <1>4, AppendElements, DemuxAssumption DEF admits
<1>6. Typed' /\ TypeOK'
  BY <1>1, <1>5 DEF IInv, Typed, TypeOK, Registers, table, world, ending, routed
<1>7. MessagesKnown' /\ HeldIsRouted'
  BY <1>1, <1>3, <1>5 DEF IInv, MessagesKnown, HeldIsRouted, Registers, table, routed
<1>8. LaneKeepsItsClaim'
  BY <1>2 DEF IInv, LaneKeepsItsClaim, Registers, table, ending, Typed
<1>9. (StreamInOrder /\ StopCounts /\ NothingShed /\ StopDrains)'
  BY DEF IInv, StreamInOrder, StopCounts, NothingShed, StopDrains, Registers,
         world, ending, routed
<1> QED BY <1>6, <1>7, <1>8, <1>9 DEF IInv

LEMMA DropsLaneIInv == ASSUME IInv, NEW g \in 1 .. MaxGen, DropsLane(g) PROVE IInv'
<1> DEFINE m == [op |-> "Release", sub |-> asked[g].sub, gen |-> g]
<1>0. g \in DOMAIN asked /\ "dropped" \in CallState
  BY DEF CallState, DropsLane
<1>1. /\ asked' \in Seq(Call)
      /\ Len(asked') = Len(asked) /\ DOMAIN asked' = DOMAIN asked
      /\ asked'[g].state = "dropped"
      /\ \A h \in DOMAIN asked : asked[h].state = "dropped" => asked'[h].state = "dropped"
  BY <1>0, CallMoves DEF IInv, DropsLane
<1>2. \A h \in DOMAIN asked : is_closed(h) => is_closed(h)'
  BY <1>1 DEF is_closed, DropsLane, IInv, Typed, Rest
<1>3. m \in Message /\ m.gen \in DOMAIN asked
  BY <1>0, AskedKnown, NoEventIsNone DEF IInv, Message
<1>4. control' = control \/ (control' = Append(control, m) /\ admits)
  BY DEF DropsLane
<1>5. /\ control' \in Seq(Message) /\ Len(control') <= CONTROL_CAPACITY
      /\ \A i \in DOMAIN control' :
            (i \in DOMAIN control /\ control'[i] = control[i]) \/ control'[i] = m
  <2>1. control \in Seq(Message) /\ Len(control) <= CONTROL_CAPACITY /\ m \in Message
    BY <1>3 DEF IInv, Typed, TypeOK
  <2> QED BY SMTT(30), <2>1, <1>4, AppendElements, DemuxAssumption DEF admits
<1>6. Typed' /\ TypeOK'
  BY <1>1, <1>5 DEF IInv, Typed, TypeOK, DropsLane, table, world, ending, routed
<1>7. MessagesKnown' /\ HeldIsRouted'
  BY SMTT(30), <1>1, <1>3, <1>5 DEF IInv, MessagesKnown, HeldIsRouted, DropsLane, table, routed
<1>8. LaneKeepsItsClaim'
  BY <1>2 DEF IInv, LaneKeepsItsClaim, DropsLane, table, ending, Typed
<1>9. (StreamInOrder /\ StopCounts /\ NothingShed /\ StopDrains)'
  BY DEF IInv, StreamInOrder, StopCounts, NothingShed, StopDrains, DropsLane,
         world, ending, routed
<1> QED BY <1>6, <1>7, <1>8, <1>9 DEF IInv

LEMMA DropsRestIInv == ASSUME IInv, DropsRest PROVE IInv'
<1>1. \A g \in DOMAIN asked : is_closed(g)' = is_closed(g)
  BY DEF is_closed, DropsRest, IInv, Typed, Rest
<1>2. Typed' /\ TypeOK'
  BY DEF IInv, Typed, TypeOK, DropsRest, table, world, ending, routed
<1>3. MessagesKnown' /\ HeldIsRouted' /\ LaneKeepsItsClaim'
  BY <1>1 DEF IInv, MessagesKnown, HeldIsRouted, LaneKeepsItsClaim, DropsRest, table,
              ending, routed, Typed
<1>4. (StreamInOrder /\ StopCounts /\ NothingShed /\ StopDrains)'
  BY DEF IInv, StreamInOrder, StopCounts, NothingShed, StopDrains, DropsRest,
         world, ending, routed
<1> QED BY <1>2, <1>3, <1>4 DEF IInv

LEMMA ShutdownIInv == ASSUME IInv, Shutdown PROVE IInv'
<1> DEFINE m == [op |-> "Shutdown", sub |-> NoEvent.sub, gen |-> 0]
<1>1. m \in Message
  BY DemuxAssumption DEF Message
<1>2. /\ control' \in Seq(Message) /\ Len(control') <= CONTROL_CAPACITY
      /\ \A i \in DOMAIN control' :
            (i \in DOMAIN control /\ control'[i] = control[i]) \/ control'[i] = m
  BY SMTT(30), <1>1, AppendElements, DemuxAssumption DEF IInv, Typed, TypeOK, admits, Shutdown
<1>3. \A g \in DOMAIN asked : is_closed(g)' = is_closed(g)
  BY DEF is_closed, Shutdown, callers
<1>4. Typed' /\ TypeOK'
  BY <1>2 DEF IInv, Typed, TypeOK, Shutdown, callers, table, world, ending, routed
<1>5. MessagesKnown' /\ HeldIsRouted' /\ LaneKeepsItsClaim'
  BY SMTT(30), <1>2, <1>3 DEF IInv, MessagesKnown, HeldIsRouted, LaneKeepsItsClaim, Shutdown,
                    callers, table, ending, routed, Typed
<1>6. (StreamInOrder /\ StopCounts /\ NothingShed /\ StopDrains)'
  BY DEF IInv, StreamInOrder, StopCounts, NothingShed, StopDrains, Shutdown, callers,
         world, ending, routed
<1> QED BY <1>4, <1>5, <1>6 DEF IInv

LEMMA EmitsIInv == ASSUME IInv, NEW s \in Sub, Emits(s) PROVE IInv'
<1> DEFINE e == [id |-> made + 1, sub |-> s]
<1>1. e \in Event
  BY DemuxAssumption DEF Event, Emits, IInv, Typed
<1>2. /\ stream' \in Seq(Event) /\ Len(stream') = Len(stream) + 1
      /\ DOMAIN stream' = 1 .. Len(stream) + 1
      /\ \A k \in DOMAIN stream : stream'[k] = stream[k]
      /\ stream'[Len(stream) + 1] = e
  BY <1>1, AppendElements DEF Emits, IInv, Typed
<1>3. \A g \in DOMAIN asked : is_closed(g)' = is_closed(g)
  BY DEF is_closed, Emits, callers
<1>4. Typed' /\ TypeOK'
  BY SMTT(30), <1>2, DemuxAssumption DEF IInv, Typed, TypeOK, Emits, callers, table, ending, routed
<1>5. MessagesKnown' /\ HeldIsRouted' /\ LaneKeepsItsClaim'
  BY <1>3 DEF IInv, MessagesKnown, HeldIsRouted, LaneKeepsItsClaim, Emits,
              callers, table, ending, routed, Typed
<1>6. StreamInOrder' /\ StopCounts'
  <2>1. Len(stream) \in Nat /\ made \in Nat /\ DOMAIN stream = 1 .. Len(stream)
        /\ made' = made + 1 /\ stop_at \in Nat /\ owed \in Nat
    BY SequenceIsFunction DEF IInv, Typed, Emits
  <2>2. StreamInOrder'
    BY <2>1, <1>2 DEF IInv, StreamInOrder
  <2>3. StopCounts'
    BY SMTT(30), <2>1, <1>2 DEF IInv, StopCounts, Emits, ending
  <2> QED BY <2>2, <2>3
<1>7. NothingShed'
  <2> SUFFICES ASSUME rest_held', NEW i \in 1 .. made'
               PROVE  \/ i \in DOMAIN got' \/ held'.event.id = i
                      \/ \E k \in DOMAIN stream' : stream'[k].id = i
    BY DEF NothingShed
  <2>1. CASE i = made + 1
    <3>1. Len(stream) + 1 \in DOMAIN stream' /\ stream'[Len(stream) + 1].id = i
      BY <1>2, <2>1, SequenceIsFunction DEF IInv, Typed
    <3> QED BY <3>1
  <2>2. CASE i \in 1 .. made
    <3>1. \/ i \in DOMAIN got \/ held.event.id = i
          \/ \E k \in DOMAIN stream : stream[k].id = i
      BY <2>2 DEF IInv, NothingShed, Emits, callers
    <3>2. DOMAIN stream \subseteq DOMAIN stream'
      BY <1>2, SequenceIsFunction DEF IInv, Typed
    <3> QED BY <3>1, <3>2, <1>2 DEF Emits, routed
  <2> QED BY <2>1, <2>2 DEF Emits, IInv, Typed
<1>8. StopDrains'
  BY <1>2 DEF IInv, Typed, StopDrains, StreamInOrder, StopCounts, Emits, ending
<1> QED BY <1>4, <1>5, <1>6, <1>7, <1>8 DEF IInv

LEMMA RecvIInv == ASSUME IInv, NEW g \in 0 .. MaxGen, Recv(g) PROVE IInv'
<1>1. /\ buffer' \in [0 .. MaxGen -> Seq(Event)]
      /\ \A h \in 0 .. MaxGen : Len(buffer[h]) <= Capacity => Len(buffer'[h]) <= Capacity
  <2>1. /\ buffer \in [0 .. MaxGen -> Seq(Event)] /\ buffer[g] \in Seq(Event) /\ buffer[g] # <<>>
        /\ buffer' = [buffer EXCEPT ![g] = Tail(buffer[g])]
    BY DEF Recv, IInv, Typed
  <2>2. Tail(buffer[g]) \in Seq(Event) /\ Len(Tail(buffer[g])) = Len(buffer[g]) - 1
    BY <2>1, TailElements
  <2>3. Capacity \in Nat /\ Len(buffer[g]) \in Nat
    BY <2>1, DemuxAssumption
  <2> QED BY <2>1, <2>2, <2>3
<1>2. \A h \in DOMAIN asked : is_closed(h)' = is_closed(h)
  BY DEF is_closed, Recv, callers
<1>3. Typed' /\ TypeOK'
  BY <1>1 DEF IInv, Typed, TypeOK, Recv, callers, table, world, ending
<1>4. MessagesKnown' /\ HeldIsRouted' /\ LaneKeepsItsClaim'
  BY <1>2 DEF IInv, MessagesKnown, HeldIsRouted, LaneKeepsItsClaim, Recv,
              callers, table, ending, Typed
<1>5. (StreamInOrder /\ StopCounts /\ NothingShed /\ StopDrains)'
  BY DEF IInv, StreamInOrder, StopCounts, NothingShed, StopDrains, Recv, callers,
         world, ending
<1> QED BY <1>3, <1>4, <1>5 DEF IInv

-----------------------------------------------------------------------------
(* The routing task.                                                       *)

\* The message at the head is taken, and the ones behind it are those behind it.
LEMMA HeadTaken ==
    ASSUME IInv, control # <<>>, control' = Tail(control), UNCHANGED asked
    PROVE  /\ control' \in Seq(Message) /\ Len(control') <= CONTROL_CAPACITY
           /\ MessagesKnown' /\ 1 \in DOMAIN control /\ control[1] = Head(control)
           /\ Head(control) \in Message
<1>1. control \in Seq(Message) /\ Len(control) <= CONTROL_CAPACITY
  BY DEF IInv, Typed, TypeOK
<1>2. /\ control' \in Seq(Message) /\ Len(control') = Len(control) - 1
      /\ Head(control) \in Message /\ 1 \in DOMAIN control /\ control[1] = Head(control)
      /\ \A i \in DOMAIN control' : i + 1 \in DOMAIN control /\ control'[i] = control[i + 1]
  BY <1>1, TailElements
<1>3. Len(control') <= CONTROL_CAPACITY
  BY <1>1, <1>2, SequenceIsFunction, DemuxAssumption
<1>4. MessagesKnown'
  BY <1>2 DEF IInv, MessagesKnown
<1> QED BY <1>2, <1>3, <1>4

\* Taking a key away or giving one a value leaves the others.
LEMMA WithoutKeeps ==
    ASSUME NEW f, NEW S
    PROVE  /\ DOMAIN Without(f, S) = DOMAIN f \ S
           /\ \A x \in DOMAIN f \ S : Without(f, S)[x] = f[x]
           /\ Without(f, S) = [x \in DOMAIN Without(f, S) |-> Without(f, S)[x]]
BY DEF Without, Restrict

LEMMA WithKeeps ==
    ASSUME NEW f, NEW x, NEW y
    PROVE  /\ DOMAIN With(f, x, y) = DOMAIN f \cup {x} /\ With(f, x, y)[x] = y
           /\ \A z \in DOMAIN f : z # x => With(f, x, y)[z] = f[z]
           /\ With(f, x, y) = [z \in DOMAIN With(f, x, y) |-> With(f, x, y)[z]]
BY DEF With

LEMMA ApplyRegisterIInv == ASSUME IInv, ApplyRegister PROVE IInv'
<1> DEFINE s == Head(control).sub
           g == Head(control).gen
           free == Without(swept, {s})
<1>1. /\ control # <<>> /\ control' = Tail(control) /\ held.event = NoEvent /\ state = "routing"
      /\ Head(control).op = "Register" /\ UNCHANGED <<callers, world, ending, routed>>
      /\ lanes' = (IF is_closed(g) THEN free ELSE With(free, s, g))
      /\ claimed' = With(claimed, s, g) /\ tracked' = Cardinality(DOMAIN lanes')
  BY DEF ApplyRegister, message, Idle, publishes
<1>2. /\ control' \in Seq(Message) /\ Len(control') <= CONTROL_CAPACITY /\ MessagesKnown'
      /\ 1 \in DOMAIN control /\ control[1] = Head(control)
  BY <1>1, HeadTaken DEF callers
<1>3. g \in DOMAIN asked /\ s \in Sub
  BY <1>1, <1>2 DEF IInv, MessagesKnown
<1>4. \A h : is_closed(h)' = is_closed(h)
  BY <1>1 DEF is_closed, callers
<1>5. /\ DOMAIN lanes' \subseteq Sub
      /\ \A t \in DOMAIN lanes' : t # s => t \in DOMAIN lanes /\ lanes'[t] = lanes[t]
      /\ \A t \in DOMAIN lanes : t # s /\ ~is_closed(lanes[t]) => t \in DOMAIN lanes' /\ lanes'[t] = lanes[t]
      /\ s \in DOMAIN lanes' => lanes'[s] = g
      /\ ~is_closed(g) => s \in DOMAIN lanes'
      /\ lanes' = [t \in DOMAIN lanes' |-> lanes'[t]]
  <2>1. DOMAIN lanes \subseteq Sub
    BY DEF IInv, TypeOK
  <2>2. /\ DOMAIN free \subseteq DOMAIN lanes \ {s} /\ \A t \in DOMAIN free : free[t] = lanes[t]
        /\ \A t \in DOMAIN lanes : t # s /\ ~is_closed(lanes[t]) => t \in DOMAIN free
    <3>1. /\ DOMAIN swept = {t \in DOMAIN lanes : ~is_closed(lanes[t])}
          /\ \A t \in DOMAIN swept : swept[t] = lanes[t]
      BY DEF swept, Without, Restrict
    <3>2. DOMAIN free = DOMAIN swept \ {s} /\ \A t \in DOMAIN free : free[t] = swept[t]
      BY DEF Without, Restrict
    <3> QED BY <3>1, <3>2
  <2>3. CASE is_closed(g)
    <3>1. lanes' = free /\ free = [t \in DOMAIN free |-> free[t]]
      BY <1>1, <2>3, WithoutKeeps
    <3> QED BY <3>1, <2>1, <2>2, <2>3
  <2>4. CASE ~is_closed(g)
    <3>1. lanes' = [t \in DOMAIN free \cup {s} |-> IF t = s THEN g ELSE free[t]]
      BY <1>1, <2>4 DEF With
    <3> HIDE DEF free
    <3> QED BY <3>1, <1>3, <2>1, <2>2
  <2> QED BY <2>3, <2>4
<1>6. /\ lanes' \in [DOMAIN lanes' -> DOMAIN asked']
      /\ claimed' \in [DOMAIN claimed' -> DOMAIN asked']
  <2>1. /\ lanes \in [DOMAIN lanes -> DOMAIN asked] /\ claimed \in [DOMAIN claimed -> DOMAIN asked]
        /\ asked' = asked
    BY <1>1 DEF IInv, Typed, callers
  <2>2. \A t \in DOMAIN lanes' : lanes'[t] \in DOMAIN asked
    BY <1>3, <1>5, <2>1
  <2>3. claimed' = [t \in DOMAIN claimed \cup {s} |-> IF t = s THEN g ELSE claimed[t]]
    BY <1>1 DEF With
  <2>4. claimed' \in [DOMAIN claimed' -> DOMAIN asked]
    BY <1>3, <2>1, <2>3
  <2> QED BY <1>5, <2>1, <2>2, <2>4
<1>7. Typed' /\ TypeOK'
  BY <1>1, <1>2, <1>5, <1>6 DEF IInv, Typed, TypeOK, callers, world, ending, routed
<1>8. HeldIsRouted'
  BY <1>1 DEF HeldIsRouted, routed
<1>9. LaneKeepsItsClaim'
  <2> SUFFICES ASSUME NEW t \in DOMAIN claimed', ~is_closed(claimed[t])'
               PROVE  t \in DOMAIN lanes' /\ lanes'[t] = claimed'[t]
    BY DEF LaneKeepsItsClaim
  <2> DEFINE c == claimed'[t]
  <2>0. /\ claimed' = [u \in DOMAIN claimed \cup {s} |-> IF u = s THEN g ELSE claimed[u]]
        /\ ~is_closed(c)
    BY <1>1, <1>4 DEF With
  <2>1. CASE t = s
    BY <2>0, <1>5, <2>1
  <2>2. CASE t # s
    <3>1. t \in DOMAIN claimed /\ c = claimed[t]
      BY <2>0, <2>2
    <3>2. t \in DOMAIN lanes /\ lanes[t] = claimed[t] /\ ~is_closed(lanes[t])
      BY <1>1, <2>0, <3>1 DEF IInv, LaneKeepsItsClaim
    <3> QED BY <1>5, <2>2, <3>1, <3>2
  <2> QED BY <2>1, <2>2
<1>10. (StreamInOrder /\ StopCounts /\ NothingShed /\ StopDrains)'
  BY <1>1 DEF IInv, StreamInOrder, StopCounts, NothingShed, StopDrains, callers,
              world, ending, routed
<1> QED BY <1>2, <1>7, <1>8, <1>9, <1>10 DEF IInv

LEMMA ApplyReleaseIInv == ASSUME IInv, ApplyRelease PROVE IInv'
<1> DEFINE s == Head(control).sub
           g == Head(control).gen
<1>1. /\ control # <<>> /\ control' = Tail(control) /\ held.event = NoEvent /\ state = "routing"
      /\ Head(control).op = "Release" /\ UNCHANGED <<callers, claimed, world, ending, routed>>
      /\ lanes' = (IF evicts(s, g) THEN Without(lanes, {s}) ELSE lanes)
      /\ tracked' = Cardinality(DOMAIN lanes')
  BY DEF ApplyRelease, message, Idle, publishes
<1>2. /\ control' \in Seq(Message) /\ Len(control') <= CONTROL_CAPACITY /\ MessagesKnown'
      /\ 1 \in DOMAIN control /\ control[1] = Head(control)
  BY <1>1, HeadTaken DEF callers
<1>3. g \in DOMAIN asked /\ asked[g].state = "dropped"
  BY <1>1, <1>2 DEF IInv, MessagesKnown
<1>4. is_closed(g) /\ \A h : is_closed(h)' = is_closed(h)
  BY <1>1, <1>3, AskedKnown, DemuxAssumption DEF is_closed, callers, Rest, IInv
<1>5. /\ DOMAIN lanes' \subseteq DOMAIN lanes
      /\ \A t \in DOMAIN lanes' : lanes'[t] = lanes[t]
      /\ \A t \in DOMAIN lanes : ~is_closed(lanes[t]) => t \in DOMAIN lanes'
      /\ lanes' \in [DOMAIN lanes' -> DOMAIN asked]
  <2>1. lanes \in [DOMAIN lanes -> DOMAIN asked]
    BY DEF IInv, Typed
  <2>2. CASE evicts(s, g)
    <3>1. lanes' = [t \in DOMAIN lanes \ {s} |-> lanes[t]] /\ s \in DOMAIN lanes /\ lanes[s] = g
      BY <1>1, <2>2 DEF evicts, Without, Restrict
    <3> QED BY <3>1, <1>4, <2>1
  <2>3. CASE ~evicts(s, g)
    BY <1>1, <2>1, <2>3
  <2> QED BY <2>2, <2>3
<1>6. Typed' /\ TypeOK'
  BY <1>1, <1>2, <1>5 DEF IInv, Typed, TypeOK, callers, world, ending, routed
<1>7. HeldIsRouted'
  BY <1>1 DEF HeldIsRouted, routed
<1>8. LaneKeepsItsClaim'
  BY <1>1, <1>4, <1>5 DEF IInv, LaneKeepsItsClaim, ending
<1>9. (StreamInOrder /\ StopCounts /\ NothingShed /\ StopDrains)'
  BY <1>1 DEF IInv, StreamInOrder, StopCounts, NothingShed, StopDrains, callers,
              world, ending, routed
<1> QED BY <1>2, <1>6, <1>7, <1>8, <1>9 DEF IInv

LEMMA ApplyShutdownIInv == ASSUME IInv, ApplyShutdown PROVE IInv'
<1>1. /\ control # <<>> /\ control' = Tail(control) /\ state = "routing"
      /\ held.event = NoEvent
      /\ state' = "stopping" /\ owed' = Len(stream) /\ stop_at' = made
      /\ UNCHANGED <<callers, table, world, routed>>
  BY DEF ApplyShutdown, message, Idle, backlog
<1>2. control' \in Seq(Message) /\ Len(control') <= CONTROL_CAPACITY /\ MessagesKnown'
  BY <1>1, HeadTaken DEF callers
<1>3. \A h : is_closed(h)' = is_closed(h)
  BY <1>1 DEF is_closed, callers
<1>4. Len(stream) \in Nat /\ made \in Nat
  BY SequenceIsFunction DEF IInv, Typed
<1>5. Typed' /\ TypeOK'
  BY <1>1, <1>2, <1>4 DEF IInv, Typed, TypeOK, callers, table, world, routed
<1>6. HeldIsRouted' /\ LaneKeepsItsClaim'
  BY <1>1, <1>3 DEF IInv, HeldIsRouted, LaneKeepsItsClaim, routed, table
<1>7. (StreamInOrder /\ StopCounts /\ NothingShed /\ StopDrains)'
  BY <1>1, <1>4 DEF IInv, StreamInOrder, StopCounts, NothingShed, StopDrains, callers,
              world, routed
<1> QED BY <1>2, <1>5, <1>6, <1>7 DEF IInv

\* What leaving does, whichever way the task leaves.
LEMMA LeavesIInv ==
    ASSUME IInv, Leaves, held.event = NoEvent, UNCHANGED <<callers, control, claimed, world, owed, stop_at, routed>>,
           stop_at + Len(stream) <= made
    PROVE  IInv'
<1>1. DOMAIN lanes' = {} /\ lanes' \in [DOMAIN lanes' -> DOMAIN asked] /\ tracked' = Cardinality(DOMAIN lanes')
  BY FS_EmptySet DEF Leaves, Nothing
<1>2. Typed' /\ TypeOK'
  BY <1>1 DEF Leaves, IInv, Typed, TypeOK, callers, world, routed
<1>3. MessagesKnown' /\ HeldIsRouted' /\ LaneKeepsItsClaim'
  BY DEF Leaves, IInv, MessagesKnown, HeldIsRouted, LaneKeepsItsClaim, callers, routed
<1>4. StreamInOrder' /\ StopCounts' /\ NothingShed'
  BY DEF Leaves, IInv, StreamInOrder, StopCounts, NothingShed, callers, world, routed
<1>5. StopDrains'
  <2>1. Len(stream) \in Nat /\ made \in Nat /\ stop_at \in Nat /\ DOMAIN stream = 1 .. Len(stream)
    BY SequenceIsFunction DEF IInv, Typed
  <2>2. \A k \in DOMAIN stream : stream[k].id > stop_at
    BY <2>1 DEF IInv, StreamInOrder
  <2> QED BY <2>2 DEF StopDrains, world
<1> QED BY <1>2, <1>3, <1>4, <1>5 DEF IInv

LEMMA StoppedIInv == ASSUME IInv, Stopped PROVE IInv'
<1>1. stop_at + Len(stream) <= made
  BY SequenceIsFunction DEF Stopped, IInv, Typed, StopCounts
<1> QED BY <1>1, LeavesIInv DEF Stopped

LEMMA StreamEndsIInv == ASSUME IInv, StreamEnds PROVE IInv'
<1>1. stop_at + Len(stream) <= made
  BY DEF StreamEnds, Idle, IInv, Typed, StopCounts
<1> QED BY <1>1, LeavesIInv DEF StreamEnds, Idle

LEMMA TakesIInv == ASSUME IInv, Takes PROVE IInv'
<1> DEFINE e == Head(stream)
           at == IF e.sub \in DOMAIN lanes THEN lanes[e.sub] ELSE Rest
<1>1. /\ held.event = NoEvent /\ stream # <<>> /\ held' = [event |-> e, at |-> at]
      /\ stream' = Tail(stream)
      /\ (state = "routing" /\ owed' = owed) \/ (state = "stopping" /\ owed > 0 /\ owed' = owed - 1)
      /\ UNCHANGED <<callers, control, table, made, state, stop_at, buffer, got, rest_open>>
  BY DEF Takes, Idle
<1>2. /\ stream \in Seq(Event) /\ made \in Nat /\ owed \in Nat /\ stop_at \in Nat
      /\ Len(stream) \in Nat /\ DOMAIN stream = 1 .. Len(stream)
  BY SequenceIsFunction DEF IInv, Typed
<1>3. /\ stream' \in Seq(Event) /\ Len(stream') = Len(stream) - 1 /\ e \in Event
      /\ DOMAIN stream' = 1 .. Len(stream) - 1 /\ stream[1] = e /\ Len(stream) >= 1
      /\ \A k \in DOMAIN stream' : k + 1 \in DOMAIN stream /\ stream'[k] = stream[k + 1]
  BY <1>1, <1>2, TailElements
<1>4. \A h : is_closed(h)' = is_closed(h)
  BY <1>1 DEF is_closed, callers
<1>5. at \in {Rest} \cup DOMAIN asked /\ e # NoEvent
      /\ (at # Rest => e.sub \in DOMAIN lanes /\ lanes[e.sub] = at)
  BY <1>3, NoEventIsNone DEF IInv, Typed
<1>6. owed' \in Nat
  BY <1>1, <1>2
<1>7. Typed' /\ TypeOK'
  <2> HIDE DEF e, at
  <2> QED BY <1>1, <1>3, <1>5, <1>6 DEF IInv, Typed, TypeOK, callers, table
<1>8. MessagesKnown' /\ HeldIsRouted' /\ LaneKeepsItsClaim'
  <2> HIDE DEF e, at
  <2> QED BY <1>1, <1>4, <1>5 DEF IInv, MessagesKnown, HeldIsRouted, LaneKeepsItsClaim, callers, table
<1>9. StreamInOrder'
  <2>1. \A k \in DOMAIN stream' : stream[k + 1].id = made - Len(stream) + (k + 1)
    BY <1>3 DEF IInv, StreamInOrder
  <2> QED BY <1>1, <1>2, <1>3, <2>1 DEF IInv, StreamInOrder
<1>10. StopCounts' /\ StopDrains'
  BY <1>1, <1>2, <1>3 DEF IInv, StopCounts, StopDrains
<1>11. NothingShed'
  <2> SUFFICES ASSUME rest_held, NEW i \in 1 .. made
               PROVE  \/ i \in DOMAIN got \/ e.id = i
                      \/ \E k \in DOMAIN stream' : stream'[k].id = i
    BY <1>1 DEF NothingShed, callers
  <2>1. \/ i \in DOMAIN got \/ held.event.id = i
        \/ \E k \in DOMAIN stream : stream[k].id = i
    BY DEF IInv, NothingShed
  <2>2. held.event.id # i
    BY <1>1, <1>2, NoEventIsNone
  <2>3. ASSUME NEW k \in DOMAIN stream, stream[k].id = i, k # 1
        PROVE  \E j \in DOMAIN stream' : stream'[j].id = i
    <3>1. k - 1 \in DOMAIN stream' /\ stream'[k - 1] = stream[k]
      BY <1>2, <1>3, <2>3
    <3> QED BY <3>1, <2>3
  <2> QED BY <2>1, <2>2, <2>3, <1>3
<1> QED BY <1>7, <1>8, <1>9, <1>10, <1>11 DEF IInv

LEMMA DeliveredIInv == ASSUME IInv, Delivered PROVE IInv'
<1>1. /\ held.event # NoEvent /\ Len(buffer[held.at]) < Capacity
      /\ buffer' = [buffer EXCEPT ![held.at] = Append(buffer[held.at], held.event)]
      /\ got' = With(got, held.event.id, held.at)
      /\ held' = [event |-> NoEvent, at |-> Nowhere]
      /\ UNCHANGED <<callers, control, table, world, ending, rest_open>>
  BY DEF Delivered, Delivering
<1>2. held.event \in Event /\ held.at \in 0 .. MaxGen
  BY SMTT(30), <1>1, AskedKnown, DemuxAssumption DEF IInv, Typed, Rest
<1>3. /\ buffer' \in [0 .. MaxGen -> Seq(Event)]
      /\ \A h \in 0 .. MaxGen : Len(buffer[h]) <= Capacity => Len(buffer'[h]) <= Capacity
  <2>1. /\ buffer \in [0 .. MaxGen -> Seq(Event)] /\ buffer[held.at] \in Seq(Event)
        /\ Len(buffer[held.at]) \in Nat
    BY <1>2, SequenceIsFunction DEF IInv, Typed
  <2>2. /\ Append(buffer[held.at], held.event) \in Seq(Event)
        /\ Len(Append(buffer[held.at], held.event)) = Len(buffer[held.at]) + 1
    BY <1>2, <2>1, AppendElements
  <2> QED BY <1>1, <1>2, <2>1, <2>2, DemuxAssumption
<1>4. \A h : is_closed(h)' = is_closed(h)
  BY <1>1 DEF is_closed, callers
<1>5. /\ DOMAIN got' = DOMAIN got \cup {held.event.id}
      /\ got' = [i \in DOMAIN got' |-> got'[i]]
  BY <1>1 DEF With
<1>6. Typed' /\ TypeOK'
  BY <1>1, <1>3, <1>5 DEF IInv, Typed, TypeOK, callers, table, world, ending
<1>7. MessagesKnown' /\ HeldIsRouted' /\ LaneKeepsItsClaim'
  BY <1>1, <1>4 DEF IInv, MessagesKnown, HeldIsRouted, LaneKeepsItsClaim, callers, table, ending
<1>8. (StreamInOrder /\ StopCounts /\ StopDrains)'
  BY <1>1 DEF IInv, StreamInOrder, StopCounts, StopDrains, world, ending
<1>9. NothingShed'
  BY <1>1, <1>5 DEF IInv, NothingShed, callers, world
<1> QED BY <1>6, <1>7, <1>8, <1>9 DEF IInv

LEMMA LaneGoneIInv == ASSUME IInv, LaneGone PROVE IInv'
<1> DEFINE s == held.event.sub
<1>1. /\ held.event # NoEvent /\ held.at # Rest /\ is_closed(held.at)
      /\ lanes' = [t \in DOMAIN lanes \ {s} |-> lanes[t]] /\ tracked' = Cardinality(DOMAIN lanes')
      /\ UNCHANGED <<callers, control, claimed, world, ending, buffer, got, rest_open>>
  BY DEF LaneGone, Delivering, publishes, Without, Restrict
<1>2. held' = [event |-> held.event, at |-> Rest]
  <2>1. held = [event |-> held.event, at |-> held.at]
    BY DEF IInv, Typed
  <2> QED BY <2>1 DEF LaneGone, recovered
<1>3. s \in DOMAIN lanes /\ lanes[s] = held.at
  BY <1>1 DEF IInv, HeldIsRouted
<1>4. \A h : is_closed(h)' = is_closed(h)
  BY <1>1 DEF is_closed, callers
<1>5. lanes \in [DOMAIN lanes -> DOMAIN asked] /\ lanes' \in [DOMAIN lanes' -> DOMAIN asked]
  BY <1>1 DEF IInv, Typed
<1>6. Typed' /\ TypeOK'
  BY <1>1, <1>2, <1>5 DEF IInv, Typed, TypeOK, callers, world, ending
<1>7. MessagesKnown' /\ HeldIsRouted'
  BY <1>1, <1>2 DEF IInv, MessagesKnown, HeldIsRouted, callers
<1>8. LaneKeepsItsClaim'
  BY <1>1, <1>3, <1>4 DEF IInv, LaneKeepsItsClaim, ending
<1>9. (StreamInOrder /\ StopCounts /\ StopDrains)' /\ NothingShed'
  BY <1>1, <1>2 DEF IInv, StreamInOrder, StopCounts, StopDrains, NothingShed, world, ending, callers
<1> QED BY <1>6, <1>7, <1>8, <1>9 DEF IInv

LEMMA RestGoneIInv == ASSUME IInv, RestGone PROVE IInv'
<1>1. /\ ~rest_held /\ rest_open' = FALSE /\ held' = [event |-> NoEvent, at |-> Nowhere]
      /\ UNCHANGED <<callers, control, table, world, ending, buffer, got>>
  BY DEF RestGone, is_closed
<1>2. \A h : is_closed(h)' = is_closed(h)
  BY <1>1 DEF is_closed, callers
<1>3. Typed' /\ TypeOK'
  BY <1>1 DEF IInv, Typed, TypeOK, callers, table, world, ending
<1>4. MessagesKnown' /\ HeldIsRouted' /\ LaneKeepsItsClaim'
  BY <1>1, <1>2 DEF IInv, MessagesKnown, HeldIsRouted, LaneKeepsItsClaim, callers, table, ending
<1>5. (StreamInOrder /\ StopCounts /\ StopDrains)' /\ NothingShed'
  BY <1>1 DEF IInv, StreamInOrder, StopCounts, StopDrains, NothingShed, world, ending, callers
<1> QED BY <1>3, <1>4, <1>5 DEF IInv

-----------------------------------------------------------------------------
(* The inductive step and what follows from it.                            *)

LEMMA NextIInv == IInv /\ [Next]_vars => IInv'
<1> SUFFICES ASSUME IInv, [Next]_vars PROVE IInv'
  OBVIOUS
<1>1. CASE Task
  BY <1>1, ApplyRegisterIInv, ApplyReleaseIInv, ApplyShutdownIInv, StoppedIInv, TakesIInv,
     DeliveredIInv, LaneGoneIInv, RestGoneIInv DEF Task
<1>2. CASE Callers
  BY <1>2, StreamEndsIInv, AsksLaneIInv, EmitsIInv, RegistersIInv, DropsLaneIInv, DropsRestIInv,
     ShutdownIInv DEF Callers
<1>3. CASE Reads
  BY <1>3, RecvIInv DEF Reads
<1>4. CASE UNCHANGED vars
  <2>1. \A h : is_closed(h)' = is_closed(h)
    BY <1>4 DEF vars, is_closed
  <2>2. Typed' /\ TypeOK'
    BY <1>4 DEF IInv, vars, Typed, TypeOK
  <2>3. MessagesKnown' /\ HeldIsRouted' /\ LaneKeepsItsClaim'
    BY <1>4, <2>1 DEF IInv, vars, MessagesKnown, HeldIsRouted, LaneKeepsItsClaim
  <2>4. (StreamInOrder /\ StopCounts /\ StopDrains)' /\ NothingShed'
    BY <1>4 DEF IInv, vars, StreamInOrder, StopCounts, StopDrains, NothingShed
  <2> QED BY <2>2, <2>3, <2>4 DEF IInv
<1> QED BY <1>1, <1>2, <1>3, <1>4 DEF Next

\* The inductive invariant holds throughout: every queue keeps its capacity,
\* the count callers read is that of the table, and a message names a call.
THEOREM DemuxInvariant == Spec => []IInv
BY InitIInv, NextIInv, PTL DEF Spec

\* The last lane registered for a subscription keeps it until it is dropped,
\* whatever releases of earlier lanes are still on their way (apply_control's
\* generation check, and the recovery of an event from a closed lane).
THEOREM ClaimTheorem == Spec => []LaneKeepsItsClaim
<1>1. IInv => LaneKeepsItsClaim
  BY DEF IInv
<1> QED BY <1>1, DemuxInvariant, PTL

\* No event the task has taken is lost while somebody holds the rest lane, and
\* a stop routes everything that was emitted before it.
THEOREM LossTheorem == Spec => []NothingLost
<1>1. IInv => NothingLost
  BY DEF IInv, NothingLost
<1> QED BY <1>1, DemuxInvariant, PTL

=============================================================================

-------------------------------- MODULE Demux --------------------------------
(***************************************************************************)
(* The demultiplexer (tributaries/src/demux/mod.rs): a task that drains    *)
(* the shared event stream and delivers each event into the lane of its    *)
(* subscription, or into the rest lane.  Lanes are registered, released    *)
(* and stopped over a bounded control queue, which the task does not read  *)
(* while it waits for room in a lane.                                      *)
(*                                                                         *)
(* A lane is named by the generation its registration was given.           *)
(***************************************************************************)
EXTENDS Naturals, Sequences, FiniteSets, Functions

CONSTANTS
    Sub,          \* subscriptions
    MaxGen,       \* bound: calls of lane()
    MaxEvent,     \* bound: events put on the shared stream
    Capacity,     \* of every lane, and of the rest lane
    CONTROL_CAPACITY

ASSUME DemuxAssumption == {MaxGen, MaxEvent, Capacity, CONTROL_CAPACITY} \subseteq Nat \ {0}

VARIABLES
    next_gen,     \* generations handed out so far
    asked,        \* generation -> [sub, state]: a call of lane() and its Lane
    control,      \* the control queue
    lanes,        \* subscription -> generation: the lane table
    buffer,       \* generation (0: the rest lane) -> events it holds
    rest_open,    \* the task still holds the rest lane's sender
    rest_held,    \* the caller still holds the rest lane's receiver
    stream,       \* events on the shared stream: [id, sub]
    made,         \* how many were put there
    held,         \* the event being delivered, and where it waits for room
    tracked,      \* the published number of lanes
    owed,         \* events of the stop's snapshot still to be routed
    state,        \* of the task
    claimed,      \* history: sub -> the last generation applied to it
    got,          \* history: event -> the lane it went into
    stop_at       \* history: events made when the stop was processed

vars == <<next_gen, asked, control, lanes, buffer, rest_open, rest_held, stream, made, held,
          tracked, owed, state, claimed, got, stop_at>>
callers == <<next_gen, asked, rest_held>>
table == <<lanes, tracked, claimed>>
world == <<stream, made>>
ending == <<state, owed, stop_at>>
routed == <<buffer, held, got, rest_open>>

Rest == 0
Nowhere == MaxGen + 1
NoEvent == [id |-> 0, sub |-> CHOOSE s \in Sub : TRUE]
Nothing == [s \in {} |-> 0]

Init ==
    /\ next_gen = 0 /\ asked = <<>> /\ control = <<>>
    /\ lanes = Nothing /\ tracked = 0 /\ claimed = Nothing
    /\ buffer = [g \in 0 .. MaxGen |-> <<>>]
    /\ rest_open = TRUE /\ rest_held = TRUE
    /\ stream = <<>> /\ made = 0 /\ held = [event |-> NoEvent, at |-> Nowhere]
    /\ owed = 0 /\ state = "routing"
    /\ got = <<>> /\ stop_at = 0

Without(f, S) == Restrict(f, DOMAIN f \ S)
With(f, x, y) == [z \in DOMAIN f \cup {x} |-> IF z = x THEN y ELSE f[z]]

\* Mutant: nobody notices that a receiver is gone.
is_closed_never(g) == FALSE

\* The receiver of a lane is gone (its Lane, or the future of its lane()).
is_closed(g) == IF g = Rest THEN ~rest_held ELSE asked[g].state = "dropped"

-----------------------------------------------------------------------------
(* The callers.                                                            *)

admits == Len(control) < CONTROL_CAPACITY /\ state # "ended"

\* lane(): a generation is taken ...
AsksLane(s) ==
    /\ next_gen < MaxGen
    /\ next_gen' = next_gen + 1
    /\ asked' = Append(asked, [sub |-> s, state |-> "sending"])
    /\ UNCHANGED <<control, rest_held, table, world, ending, routed>>

\* A call, or the Lane it gave, moves on.
Moved(g, st) == [asked EXCEPT ![g].state = st]

\* ... and then the registration waits for room in the control queue.
Registers(g) ==
    /\ g \in DOMAIN asked /\ asked[g].state = "sending"
    /\ admits \/ state = "ended"
    /\ control' = IF state = "ended" THEN control
                  ELSE Append(control, [op |-> "Register", sub |-> asked[g].sub, gen |-> g])
    /\ asked' = Moved(g, "open")
    /\ UNCHANGED <<next_gen, rest_held, table, world, ending, routed>>

\* A Lane is dropped: its release is sent if there is room.  (Or the future of
\* lane() is: nothing was sent.)
DropsLane(g) ==
    /\ g \in DOMAIN asked /\ asked[g].state \in {"sending", "open"}
    /\ asked' = Moved(g, "dropped")
    /\ control' = IF asked[g].state = "open" /\ admits
                  THEN Append(control, [op |-> "Release", sub |-> asked[g].sub, gen |-> g])
                  ELSE control
    /\ UNCHANGED <<next_gen, rest_held, table, world, ending, routed>>

DropsRest ==
    /\ rest_held /\ rest_held' = FALSE
    /\ UNCHANGED <<next_gen, asked, control, table, world, ending, routed>>

Shutdown ==
    /\ admits /\ state = "routing"
    /\ \A i \in DOMAIN control : control[i].op # "Shutdown"
    /\ control' = Append(control, [op |-> "Shutdown", sub |-> NoEvent.sub, gen |-> 0])
    /\ UNCHANGED <<callers, table, world, ending, routed>>

Recv(g) ==
    /\ buffer[g] # <<>>
    /\ IF g = Rest THEN rest_held ELSE asked[g].state = "open"
    /\ buffer' = [buffer EXCEPT ![g] = Tail(@)]
    /\ UNCHANGED <<callers, control, table, world, ending, held, got, rest_open>>

\* The owner of the watcher puts an event on the shared stream.
Emits(s) ==
    /\ made < MaxEvent
    /\ made' = made + 1
    /\ stream' = Append(stream, [id |-> made + 1, sub |-> s])
    /\ UNCHANGED <<callers, control, table, ending, routed>>

-----------------------------------------------------------------------------
(* The routing task.                                                       *)

Idle == held.event = NoEvent /\ state = "routing"
message(op) == Idle /\ control # <<>> /\ Head(control).op = op /\ control' = Tail(control)

\* The published count follows every change of the table.
publishes == tracked' = Cardinality(DOMAIN lanes')

\* The table without the lanes whose receivers are gone.
swept == Without(lanes, {s \in DOMAIN lanes : is_closed(lanes[s])})

ApplyRegister ==
    /\ message("Register")
    /\ LET s == Head(control).sub
           g == Head(control).gen
           free == Without(swept, {s})
       IN  /\ lanes' = IF is_closed(g) THEN free ELSE With(free, s, g)
           /\ claimed' = With(claimed, s, g)
    /\ publishes
    /\ UNCHANGED <<callers, world, ending, routed>>

\* Mutant: a release evicts whatever lane the subscription has.
evicts_any(s, g) == s \in DOMAIN lanes

\* A release is for the generation it names only.
evicts(s, g) == s \in DOMAIN lanes /\ lanes[s] = g

ApplyRelease ==
    /\ message("Release")
    /\ LET s == Head(control).sub IN
       lanes' = IF evicts(s, Head(control).gen) THEN Without(lanes, {s}) ELSE lanes
    /\ publishes
    /\ UNCHANGED <<callers, claimed, world, ending, routed>>

\* Mutant: a stop leaves the backlog.
backlog_none == 0

\* The snapshot a stop drains.
backlog == Len(stream)

\* The stop: what the stream holds now is still routed.
ApplyShutdown ==
    /\ message("Shutdown")
    /\ state' = "stopping" /\ owed' = backlog /\ stop_at' = made
    /\ UNCHANGED <<callers, table, world, routed>>

\* The task leaves, and with it its senders and its count.
Leaves == state' = "ended" /\ tracked' = 0 /\ lanes' = Nothing

Stopped ==
    /\ state = "stopping" /\ held.event = NoEvent /\ owed = 0
    /\ Leaves
    /\ UNCHANGED <<callers, control, claimed, world, owed, stop_at, routed>>

\* The watcher is closed and its stream drained.
StreamEnds ==
    /\ Idle /\ control = <<>> /\ stream = <<>>
    /\ Leaves
    /\ UNCHANGED <<callers, control, claimed, world, owed, stop_at, routed>>

\* An event is taken; the control queue comes first.
Takes ==
    /\ \/ /\ Idle /\ control = <<>> /\ owed' = owed
       \/ /\ state = "stopping" /\ held.event = NoEvent /\ owed > 0 /\ owed' = owed - 1
    /\ stream # <<>>
    /\ LET e == Head(stream) IN
       held' = [event |-> e, at |-> IF e.sub \in DOMAIN lanes THEN lanes[e.sub] ELSE Rest]
    /\ stream' = Tail(stream)
    /\ UNCHANGED <<callers, control, table, made, state, stop_at, buffer, got, rest_open>>

Delivering == held.event # NoEvent

\* It finds room in its lane.
Delivered ==
    /\ Delivering
    /\ held.at = Rest => rest_open
    /\ ~is_closed(held.at) /\ Len(buffer[held.at]) < Capacity
    /\ buffer' = [buffer EXCEPT ![held.at] = Append(@, held.event)]
    /\ got' = With(got, held.event.id, held.at)
    /\ held' = [event |-> NoEvent, at |-> Nowhere]
    /\ UNCHANGED <<callers, control, table, world, ending, rest_open>>

\* The event a closed lane gave back goes to the rest lane.
recovered == [held EXCEPT !.at = Rest]

\* The receiver of its lane is gone: the lane goes and the event is kept.
LaneGone ==
    /\ Delivering /\ held.at # Rest /\ is_closed(held.at)
    /\ lanes' = Without(lanes, {held.event.sub})
    /\ publishes
    /\ held' = recovered
    /\ UNCHANGED <<callers, control, claimed, world, ending, buffer, got, rest_open>>

\* So is that of the rest lane, and nobody wants the event.
RestGone ==
    /\ Delivering /\ held.at = Rest /\ is_closed(Rest)
    /\ rest_open' = FALSE
    /\ held' = [event |-> NoEvent, at |-> Nowhere]
    /\ UNCHANGED <<callers, control, table, world, ending, buffer, got>>

Task == ApplyRegister \/ ApplyRelease \/ ApplyShutdown \/ Stopped \/ Takes \/ Delivered
        \/ LaneGone \/ RestGone

Callers ==
    \/ StreamEnds
    \/ \E s \in Sub : AsksLane(s) \/ Emits(s)
    \/ \E g \in 1 .. MaxGen : Registers(g) \/ DropsLane(g)
    \/ DropsRest \/ Shutdown

Reads == \E g \in 0 .. MaxGen : Recv(g)

Next == Task \/ Callers \/ Reads

Spec == Init /\ [][Next]_vars

\* The task is polled, and each lane that is held is read.
FairSpec == Spec /\ WF_vars(Task) /\ \A g \in 0 .. MaxGen : WF_vars(Recv(g))

-----------------------------------------------------------------------------
(* Properties.                                                             *)

\* Every variable keeps its type, the queues their capacity, and the count
\* callers read is that of the table.
TypeOK ==
    /\ Len(control) <= CONTROL_CAPACITY
    /\ \A g \in DOMAIN buffer : Len(buffer[g]) <= Capacity
    /\ DOMAIN lanes \subseteq Sub
    /\ tracked = Cardinality(DOMAIN lanes)

\* The last lane registered for a subscription keeps it until it is dropped:
\* no release, sweep or failed delivery of an earlier one takes it away.
LaneKeepsItsClaim ==
    state # "ended" =>
        \A s \in DOMAIN claimed :
            ~is_closed(claimed[s]) => s \in DOMAIN lanes /\ lanes[s] = claimed[s]

\* "Never sheds": an event the task has taken is in a lane, or was put in one,
\* or in its hands; unless the caller gave up the rest lane too.
NothingShed ==
    rest_held =>
        \A i \in 1 .. made :
            \/ i \in DOMAIN got
            \/ held.event.id = i
            \/ \E k \in DOMAIN stream : stream[k].id = i

\* After an orderly stop everything emitted before it was routed.
StopDrains ==
    state = "ended" => \A k \in DOMAIN stream : stream[k].id > stop_at

\* An event the task has taken is nowhere lost, not by a stop either.
NothingLost == TypeOK /\ NothingShed /\ StopDrains

\* With readers that read, what is emitted is routed, unless the task stops.
StreamDrains == (stream # <<>> /\ state = "routing") ~> (stream = <<>> \/ state # "routing")

-----------------------------------------------------------------------------
(* The inductive invariant behind them.                                    *)

Message == [op : {"Register", "Release", "Shutdown"}, sub : Sub \cup {NoEvent.sub}, gen : 0 .. MaxGen]
Event == [id : 1 .. MaxEvent, sub : Sub]
CallState == {"sending", "open", "dropped"}
Call == [sub : Sub, state : CallState]

Typed ==
    /\ asked \in Seq(Call)
    /\ next_gen \in 0 .. MaxGen /\ Len(asked) = next_gen
    /\ control \in Seq(Message)
    /\ lanes \in [DOMAIN lanes -> DOMAIN asked]
    /\ claimed \in [DOMAIN claimed -> DOMAIN asked]
    /\ buffer \in [0 .. MaxGen -> Seq(Event)]
    /\ rest_open \in BOOLEAN /\ rest_held \in BOOLEAN
    /\ stream \in Seq(Event) /\ made \in 0 .. MaxEvent
    /\ held.event \in Event \cup {NoEvent}
    /\ held = [event |-> held.event, at |-> held.at]
    /\ held.event # NoEvent => held.at \in {Rest} \cup DOMAIN asked
    /\ owed \in Nat /\ stop_at \in Nat
    /\ state \in {"routing", "stopping", "ended"}
    /\ got = [i \in DOMAIN got |-> got[i]]

\* A message names a lane that was asked for; a release, one that was dropped.
MessagesKnown ==
    \A i \in DOMAIN control :
        /\ control[i].op = "Register" => control[i].gen \in DOMAIN asked /\ control[i].sub \in Sub
        /\ control[i].op = "Release" =>
              control[i].gen \in DOMAIN asked /\ asked[control[i].gen].state = "dropped"

\* The table does not change under the event in hand.
HeldIsRouted ==
    held.event # NoEvent /\ held.at # Rest =>
        held.event.sub \in DOMAIN lanes /\ lanes[held.event.sub] = held.at

\* The stream holds the last events made, in order.
StreamInOrder ==
    /\ Len(stream) <= made
    /\ \A k \in DOMAIN stream : stream[k].id = made - Len(stream) + k

\* What a stop still owes are the events that came before it.
StopCounts ==
    /\ state = "routing" => stop_at = 0
    /\ state = "stopping" => stop_at + Len(stream) = made + owed
    /\ state = "ended" => stop_at + Len(stream) <= made

IInv ==
    /\ Typed /\ TypeOK /\ MessagesKnown /\ HeldIsRouted /\ LaneKeepsItsClaim
    /\ StreamInOrder /\ StopCounts /\ NothingShed /\ StopDrains

=============================================================================

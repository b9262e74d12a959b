----------------------------- MODULE SyncBarrier -----------------------------
(***************************************************************************)
(* The sync barrier (tributaries/src/driver/mod.rs, feature "sync").  A    *)
(* caller asks that every change made so far be delivered: the owner has   *)
(* the source write a marker, the marker comes back through the source's   *)
(* ordered stream, and whatever was lost meanwhile turns the answer from   *)
(* Delivered into Dominated.                                               *)
(*                                                                         *)
(* The callers run beside the owner, so the generation they read may move  *)
(* between any two steps of it.  One root serves every subscription; a     *)
(* change belongs to one subscription and a Rescan to a set of them.       *)
(***************************************************************************)
EXTENDS Lists

CONSTANTS
    Sub,         \* subscriptions
    Debounced,   \* those that settle: their changes wait in the coalescer
    Call,        \* the calls of sync()
    MaxPending,  \* MAX_PENDING_SYNCS
    Cap,         \* capacity of the event channel
    MaxChange,   \* bound: changes made
    MaxRaise     \* bound: losses of the source, re-points, filter panics

ASSUME SyncAssumption ==
    /\ Debounced \subseteq Sub /\ IsFiniteSet(Sub)
    /\ {MaxPending, Cap, MaxChange, MaxRaise} \subseteq Nat

VARIABLES
    at,          \* change -> its subscription, in the order made
    queue,       \* the source's stream
    buffer,      \* subscription -> changes the coalescer holds
    room,        \* free slots of the event channel
    needs_rescan, suppressed_rescan, \* who is owed a Rescan, claimed and not
    unclaimed,   \* those the owner has seen no claim of
    claims,      \* those the caller of watch() has claimed
    live,        \* those the subsumption engine knows
    loss_serial, loss_gen,           \* the two clocks of losses
    pending_syncs,                   \* calls whose marker is awaited
    status,      \* call -> where it stands
    call,        \* call -> [sub, gen, serial, dominated, before]
    markers,     \* calls whose marker is on the disk
    pc,          \* where the owner stands in its loop
    cur,         \* the call begun; or none
    todo, hit,   \* subscriptions a Rescan is still to reach, and all it is for
    raises,      \* counts towards MaxRaise
    sent,        \* history: changes put on the event stream
    covered      \* history: changes a Rescan put on the stream came after

wvars == <<at, queue, claims, raises>>
evars == <<buffer, room, needs_rescan, suppressed_rescan, loss_serial, loss_gen, sent, covered>>
cvars == <<pending_syncs, status, call, markers>>
ovars == <<pc, cur, todo, hit>>
vars == <<wvars, evars, cvars, ovars, unclaimed, live>>

None == "none"
Change == DOMAIN at
Of(s) == {i \in Change : at[i] = s}
Waiting == {"called", "begun"}
Loop == {"top", "drain", "flush", "select"}

Init ==
    /\ at = <<>> /\ queue = <<>> /\ claims = {} /\ raises = 0
    /\ buffer = [s \in Sub |-> {}] /\ room = Cap
    /\ needs_rescan = {} /\ suppressed_rescan = {}
    /\ loss_serial = [s \in Sub |-> 0] /\ loss_gen = 0
    /\ sent = {} /\ covered = {}
    /\ pending_syncs = {} /\ markers = {}
    /\ status = [c \in Call |-> "idle"]
    /\ call = [c \in Call |-> [sub |-> None, gen |-> 0, serial |-> 0,
                               dominated |-> FALSE, before |-> {}]]
    /\ pc = "top" /\ cur = None /\ todo = {} /\ hit = {}
    /\ unclaimed = Sub /\ live = Sub

-----------------------------------------------------------------------------
(* The world: changes, losses of the source, the consumer, the callers.     *)

\* A change enters the stream of the source.
Happens(s) ==
    /\ Len(at) < MaxChange
    /\ at' = Append(at, s)
    /\ queue' = Append(queue, [kind |-> "change", id |-> Len(at) + 1])
    /\ UNCHANGED <<claims, raises, evars, cvars, ovars, unclaimed, live>>

\* What the source says of subscription s in an item of its stream.
About(item) ==
    CASE item.kind = "change" -> {at[item.id]}
      [] item.kind = "cookie" -> {call[item.id].sub}
      [] OTHER -> {}

\* Where queue q stands: it has change i, the marker of c, a Rescan that
\* reaches s; change i is ahead of every marker of c; a Rescan that reaches s is.
IsChange(item, i) == item.kind = "change" /\ item.id = i
IsMarker(item, c) == item.kind = "cookie" /\ item.id = c
IsRescan(item, s) == item.kind = "rescan" /\ s \in item.of

HasChange(q, i) == \E n \in DOMAIN q : IsChange(q[n], i)
HasMarker(q, c) == \E n \in DOMAIN q : IsMarker(q[n], c)
HasRescan(q, s) == \E n \in DOMAIN q : IsRescan(q[n], s)
ChangeAhead(q, i, c) ==
    \A m, n \in DOMAIN q : IsChange(q[m], i) /\ IsMarker(q[n], c) => m < n
RescanAhead(q, s, c) ==
    \E m \in DOMAIN q : IsRescan(q[m], s) /\ \A n \in DOMAIN q : IsMarker(q[n], c) => m < n

\* The source overflows over some subscriptions: what it had of them, markers
\* included, is replaced by a Rescan.
SourceLoses(T) ==
    /\ raises < MaxRaise /\ T # {}
    /\ raises' = raises + 1
    /\ queue' = Append(Kept(queue, {n \in DOMAIN queue : About(queue[n]) \cap T = {}}),
                       [kind |-> "rescan", of |-> T])
    /\ UNCHANGED <<at, claims, evars, cvars, ovars, unclaimed, live>>

Recv ==
    /\ room < Cap
    /\ room' = room + 1
    /\ UNCHANGED <<wvars, buffer, needs_rescan, suppressed_rescan, loss_serial, loss_gen,
                   sent, covered, cvars, ovars, unclaimed, live>>

\* watch() returns: its claim is on its way to the owner.
Claim(s) ==
    /\ s \notin claims
    /\ claims' = claims \cup {s}
    /\ UNCHANGED <<at, queue, raises, evars, cvars, ovars, unclaimed, live>>

\* sync(): the generation is read, then the request is sent.
Calls(c, s) ==
    /\ status[c] = "idle" /\ s \in claims /\ pc # "ended"
    /\ status' = [status EXCEPT ![c] = "called"]
    /\ call' = [call EXCEPT ![c].sub = s, ![c].gen = loss_gen, ![c].before = Of(s) \ covered]
    /\ UNCHANGED <<wvars, evars, pending_syncs, markers, ovars, unclaimed, live>>

\* Its timeout fires, or its future is dropped.
GivesUp(c) ==
    /\ status[c] \in Waiting
    /\ status' = [status EXCEPT ![c] = "gone"]
    /\ UNCHANGED <<wvars, evars, pending_syncs, call, markers, ovars, unclaimed, live>>

-----------------------------------------------------------------------------
(* Emission and its losses.                                                *)

in_debt(s) == s \in needs_rescan \cup suppressed_rescan

\* s is owed a Rescan from here on.
park(s) ==
    /\ needs_rescan' = needs_rescan \cup ({s} \ unclaimed)
    /\ suppressed_rescan' = suppressed_rescan \cup ({s} \cap unclaimed)

\* `note_loss`, n times.
note_losses(s, n) ==
    /\ loss_serial' = [loss_serial EXCEPT ![s] = @ + n]
    /\ loss_gen' = loss_gen + n

\* `try_emit` of changes B of s, and of a Rescan behind them: each takes a
\* slot, or is noted as a loss behind the debt that the first to find none (or
\* an earlier one) leaves.
Emits(s, B, rescan) ==
    \E fit \in SUBSET B :
        LET fits == ~in_debt(s) /\ rescan /\ fit = B /\ Cardinality(B) < room
            lost == Cardinality(B \ fit) + IF rescan /\ ~fits THEN 1 ELSE 0
        IN  /\ Cardinality(fit) =
                  IF in_debt(s) THEN 0
                  ELSE IF Cardinality(B) <= room THEN Cardinality(B) ELSE room
            /\ sent' = sent \cup fit
            /\ covered' = covered \cup IF fits THEN Of(s) ELSE {}
            /\ room' = room - Cardinality(fit) - IF fits THEN 1 ELSE 0
            /\ note_losses(s, lost)
            /\ IF lost > 0 /\ ~in_debt(s) THEN park(s)
               ELSE UNCHANGED <<needs_rescan, suppressed_rescan>>
            /\ buffer' = [buffer EXCEPT ![s] = IF fit # B /\ ~in_debt(s) THEN {} ELSE @ \ B]

\* `rescan_live_root`, `quarantine_filters`: owed without being offered.
parks(S) ==
    /\ needs_rescan' = needs_rescan \cup (S \ unclaimed)
    /\ suppressed_rescan' = suppressed_rescan \cup (S \cap unclaimed)
    /\ loss_serial' = [s \in Sub |-> loss_serial[s] + IF s \in S THEN 1 ELSE 0]
    /\ loss_gen' = loss_gen + Cardinality(S)
    /\ buffer' = [s \in Sub |-> IF s \in S THEN {} ELSE buffer[s]]
    /\ UNCHANGED <<room, sent, covered>>

-----------------------------------------------------------------------------
(* Answers.                                                                *)

\* A reply reaches the calls of S that still wait for it.
replied(S, answer) == [c \in Call |-> IF c \in S /\ status[c] \in Waiting THEN answer ELSE status[c]]

\* The pending calls of S are answered and their markers reaped.
answers(S, answer) ==
    /\ status' = replied(S, answer)
    /\ pending_syncs' = pending_syncs \ S
    /\ markers' = markers \ S
    /\ UNCHANGED call

pending_of(S) == {c \in pending_syncs : call[c].sub \in S}

\* `prune_abandoned_syncs` runs before the bound is tested.
may_begin(abandoned) == Cardinality(pending_syncs \ abandoned) < MaxPending

abandoned_syncs == {c \in pending_syncs : status[c] = "gone"}

-----------------------------------------------------------------------------
(* The loop of the owner.                                                  *)

goes(to) == pc' = to /\ UNCHANGED <<todo, hit>>

\* Top of the loop, without a request: abandoned calls are pruned.
Top ==
    /\ pc = "top"
    /\ pending_syncs' = pending_syncs \ abandoned_syncs
    /\ markers' = markers \ abandoned_syncs
    /\ goes("drain") /\ UNCHANGED <<cur, status, call>>
    /\ UNCHANGED <<wvars, evars, unclaimed, live>>

\* `on_sync`, up to the await; at the top of the loop or in its select.
Admit(c) ==
    /\ pc \in {"top", "select"} /\ status[c] = "called"
    /\ pending_syncs' = pending_syncs \ abandoned_syncs
    /\ markers' = markers \ abandoned_syncs
    /\ LET outcome == IF ~may_begin(abandoned_syncs) THEN "busy"
                      ELSE IF call[c].sub \notin live THEN "unknown" ELSE "begun"
       IN  /\ status' = [status EXCEPT ![c] = outcome]
           /\ IF outcome = "begun" THEN goes("write") /\ cur' = c
              ELSE goes("drain") /\ UNCHANGED cur
    /\ UNCHANGED <<wvars, evars, call, unclaimed, live>>

\* The source writes the marker: it is the last thing on its stream.
Writes ==
    /\ pc = "write" /\ cur \notin markers
    /\ queue' = Append(queue, [kind |-> "cookie", id |-> cur])
    /\ markers' = markers \cup {cur}
    /\ UNCHANGED <<at, claims, raises, evars, pending_syncs, status, call, ovars, unclaimed, live>>

\* A loss stands already, or was met since the call.
dominated_at_install(c) == in_debt(call[c].sub) \/ loss_gen # call[c].gen

\* `admit_begun_cookie`: its caller may have given up meanwhile.
Installed ==
    /\ pc = "write" /\ cur \in markers
    /\ goes("drain") /\ cur' = None
    /\ IF status[cur] = "gone"
       THEN markers' = markers \ {cur} /\ UNCHANGED <<pending_syncs, call>>
       ELSE /\ pending_syncs' = pending_syncs \cup {cur}
            /\ call' = [call EXCEPT ![cur].serial = loss_serial[call[cur].sub],
                                    ![cur].dominated = dominated_at_install(cur)]
            /\ UNCHANGED markers
    /\ UNCHANGED <<wvars, evars, status, unclaimed, live>>

\* The source refuses, or answers that a change of coverage stands in for the
\* marker, whose Rescan is on its stream.
Refused ==
    /\ pc = "write" /\ cur \notin markers
    /\ goes("drain") /\ cur' = None
    /\ \/ answers({cur}, "failed") /\ UNCHANGED <<queue, raises>>
       \/ /\ answers({cur}, "Dominated")
          /\ raises < MaxRaise /\ raises' = raises + 1
          /\ queue' = Append(queue, [kind |-> "rescan", of |-> {call[cur].sub}])
    /\ UNCHANGED <<at, claims, evars, unclaimed, live>>

\* The caller gave up: `cancel_sync`.
Abandoned ==
    /\ pc = "write" /\ status[cur] = "gone"
    /\ goes("drain") /\ cur' = None
    /\ markers' = markers \ {cur}
    /\ UNCHANGED <<wvars, evars, pending_syncs, status, call, unclaimed, live>>

\* Mutant: a claim drops the debt that waited for it.
promoted_not == {}

\* The debt that waited for the claims.
promoted == suppressed_rescan \cap claims

\* `drain_pending_cleanup`: claims are applied, their debt can be offered.
Drain ==
    /\ pc = "drain"
    /\ unclaimed' = unclaimed \ claims
    /\ suppressed_rescan' = suppressed_rescan \ claims
    /\ needs_rescan' = needs_rescan \cup promoted
    /\ goes("flush") /\ UNCHANGED cur
    /\ UNCHANGED <<wvars, buffer, room, loss_serial, loss_gen, sent, covered, cvars, live>>

\* `flush_pending_rescans`: a parked Rescan goes out ...
FlushSend(s) ==
    /\ pc = "flush" /\ s \in needs_rescan /\ room > 0
    /\ room' = room - 1
    /\ covered' = covered \cup Of(s)
    /\ pc' = "published" /\ hit' = {s} /\ UNCHANGED <<todo, cur>>
    /\ UNCHANGED <<wvars, buffer, needs_rescan, suppressed_rescan, loss_serial, loss_gen, sent,
                   cvars, unclaimed, live>>

\* Mutant: a published debt leaves no trace.
note_domination_not == UNCHANGED loss_gen

\* The generation moves for calls that are not installed yet.
note_domination == loss_gen' = loss_gen + 1

\* ... and then the generation moves and the debt is cleared.
FlushClear ==
    /\ pc = "published"
    /\ note_domination
    /\ needs_rescan' = needs_rescan \ hit
    /\ pc' = "flush" /\ hit' = {} /\ UNCHANGED <<todo, cur>>
    /\ UNCHANGED <<wvars, buffer, room, suppressed_rescan, loss_serial, sent, covered, cvars,
                   unclaimed, live>>

FlushEnd ==
    /\ pc = "flush" /\ (needs_rescan = {} \/ room = 0)
    /\ goes("select") /\ UNCHANGED cur
    /\ UNCHANGED <<wvars, evars, cvars, unclaimed, live>>

\* The retry timer or a claim: back to the top.
Wakes ==
    /\ pc = "select"
    /\ needs_rescan # {} \/ claims \cap unclaimed # {}
    /\ goes("top") /\ UNCHANGED cur
    /\ UNCHANGED <<wvars, evars, cvars, unclaimed, live>>

Settles(s) ==
    /\ pc = "select" /\ s \in live /\ buffer[s] # {}
    /\ \E B \in SUBSET buffer[s] \ {{}} : Emits(s, B, FALSE)
    /\ goes("top") /\ UNCHANGED cur
    /\ UNCHANGED <<wvars, cvars, unclaimed, live>>

-----------------------------------------------------------------------------
(* One item of the source is consumed.                                     *)

Next1 == Head(queue)
consumes(kind) == pc = "select" /\ queue # <<>> /\ Next1.kind = kind /\ queue' = Tail(queue)

\* A change: dropped if nobody has it, held, or emitted.
ConsumeChange ==
    /\ consumes("change")
    /\ LET s == at[Next1.id] IN
       IF s \notin live THEN UNCHANGED evars
       ELSE IF s \in Debounced
       THEN /\ buffer' = [buffer EXCEPT ![s] = @ \cup {Next1.id}]
            /\ UNCHANGED <<room, needs_rescan, suppressed_rescan, loss_serial, loss_gen, sent, covered>>
       ELSE Emits(s, {Next1.id}, FALSE)
    /\ goes("top") /\ UNCHANGED <<cur, at, claims, raises, cvars, unclaimed, live>>

\* A filter unwinds on it: the subscription is owed a Rescan and its calls are
\* dominated.
FilterUnwinds ==
    /\ consumes("change") /\ raises < MaxRaise /\ raises' = raises + 1
    /\ LET s == at[Next1.id] IN
       /\ s \in live
       /\ parks({s})
       /\ answers(pending_of({s}), "Dominated")
    /\ goes("top") /\ UNCHANGED <<cur, at, claims, unclaimed, live>>

\* What `flush_subscription_now` returns.
flushed_cleanly(s) == s \notin needs_rescan'

\* The serial moved since the marker was installed.
lost_during_window(c) == loss_serial[call[c].sub] # call[c].serial

\* `resolve_matching_pending_sync`: the marker came back.
ConsumeCookie ==
    /\ consumes("cookie")
    /\ LET c == Next1.id
           s == call[c].sub
       IN  IF c \notin pending_syncs THEN UNCHANGED <<evars, cvars>>
           ELSE /\ Emits(s, buffer[s], FALSE)
                /\ answers({c}, IF flushed_cleanly(s) /\ ~lost_during_window(c) /\ ~call[c].dominated
                                THEN "Delivered" ELSE "Dominated")
    /\ goes("top") /\ UNCHANGED <<cur, at, claims, raises, unclaimed, live>>

\* A Rescan is fanned out, subscription by subscription ...
ConsumeRescan ==
    /\ consumes("rescan")
    /\ pc' = "fan" /\ todo' = Next1.of \cap live /\ hit' = Next1.of
    /\ UNCHANGED <<cur, at, claims, raises, evars, cvars, unclaimed, live>>

\* A watch re-points subscriptions: their stream restarts with a Rescan, and
\* what the source still has under the old handle finds no root.
Repoint(kept) ==
    /\ pc = "select" /\ live # {} /\ raises < MaxRaise /\ raises' = raises + 1
    /\ pc' = "fan" /\ todo' = live /\ hit' = live
    /\ queue' = IF kept THEN queue ELSE <<>>
    /\ buffer' = [s \in Sub |-> {}]
    /\ UNCHANGED <<cur, at, claims, room, needs_rescan, suppressed_rescan, loss_serial, loss_gen,
                   sent, covered, cvars, unclaimed, live>>

FanOut(s) ==
    /\ pc = "fan" /\ s \in todo
    /\ Emits(s, buffer[s], TRUE)
    /\ todo' = todo \ {s} /\ UNCHANGED <<pc, cur, hit>>
    /\ UNCHANGED <<wvars, cvars, unclaimed, live>>

\* Mutant: only the calls of one subscription are dominated.
rescan_affects_one(S) == {c \in pending_syncs : S = {call[c].sub}}

\* The pending calls a Rescan stands in for.
rescan_affects(S) == pending_of(S)

\* ... and then the calls it stands in for are dominated.
Dominate ==
    /\ pc = "fan" /\ todo = {}
    /\ note_domination
    /\ answers(rescan_affects(hit), "Dominated")
    /\ pc' = "top" /\ hit' = {} /\ UNCHANGED <<todo, cur>>
    /\ UNCHANGED <<wvars, buffer, room, needs_rescan, suppressed_rescan, loss_serial, sent, covered,
                   unclaimed, live>>

-----------------------------------------------------------------------------
(* Subscriptions end, and the owner does.                                  *)

\* The root dies: everyone is owed a last Rescan.
Retire ==
    /\ pc = "select" /\ live # {}
    /\ parks(live)
    /\ answers(pending_of(live), "Dominated")
    /\ live' = {} /\ queue' = <<>>
    /\ goes("top") /\ UNCHANGED <<cur, at, claims, raises, unclaimed>>

Unwatch(s) ==
    /\ pc = "select" /\ s \in live \cap claims
    /\ live' = live \ {s} /\ unclaimed' = unclaimed \ {s}
    /\ needs_rescan' = needs_rescan \ {s} /\ suppressed_rescan' = suppressed_rescan \ {s}
    /\ buffer' = [buffer EXCEPT ![s] = {}]
    /\ loss_serial' = [loss_serial EXCEPT ![s] = 0]
    /\ answers(pending_of({s}), "retired")
    /\ goes("top") /\ UNCHANGED <<cur, wvars, room, loss_gen, sent, covered>>

\* A close, at the loop or winning the await of the write.
Close ==
    /\ pc \in Loop \cup {"write"}
    /\ status' = [c \in Call |-> IF status[c] \in Waiting THEN "closed" ELSE status[c]]
    /\ pending_syncs' = {} /\ markers' = markers \ (pending_syncs \cup {cur})
    /\ pc' = "ended" /\ cur' = None /\ UNCHANGED <<todo, hit, call>>
    /\ UNCHANGED <<wvars, evars, unclaimed, live>>

-----------------------------------------------------------------------------
World ==
    \/ \E s \in Sub : Happens(s) \/ Claim(s)
    \/ \E T \in SUBSET Sub : SourceLoses(T)
    \/ Recv
    \/ \E c \in Call : GivesUp(c) \/ \E s \in Sub : Calls(c, s)

Begins == Writes \/ Installed \/ Refused \/ Abandoned

Turns ==
    \/ Top \/ Drain \/ FlushClear \/ FlushEnd \/ Wakes
    \/ \E s \in Sub : FlushSend(s) \/ Settles(s) \/ FanOut(s)

Consumes == ConsumeChange \/ ConsumeCookie \/ ConsumeRescan \/ Dominate

Ends == Retire \/ Close \/ \E s \in Sub : Unwatch(s)

Next ==
    \/ World \/ Begins \/ Turns \/ Consumes \/ Ends
    \/ FilterUnwinds \/ \E kept \in BOOLEAN : Repoint(kept)
    \/ \E c \in Call : Admit(c)

Spec == Init /\ [][Next]_vars

-----------------------------------------------------------------------------
(* Properties.                                                             *)

Answered(answer) == {c \in Call : status[c] = answer}

\* Every variable keeps its type, and the pending calls their bound.
TypeOK ==
    /\ room \in 0 .. Cap
    /\ needs_rescan \cap suppressed_rescan = {}
    /\ Cardinality(pending_syncs) <= MaxPending
    /\ \A s \in Sub : buffer[s] \subseteq Change
    /\ cur \in Call \cup {None} /\ todo \subseteq hit /\ hit \subseteq Sub
    /\ pc \in Loop \cup {"write", "published", "fan", "ended"}

\* Delivered: every change made before the call, but for what a Rescan already
\* on the stream at the call stood for, is on the stream.  Losses before the
\* call, in the mailbox, between call and marker and behind the flush all count.
DeliveredIsEmitted ==
    \A c \in Answered("Delivered") : call[c].before \subseteq sent

\* Dominated: what is not on the stream is stood for by a Rescan on it, parked,
\* or about to come from the source, as long as the subscription lives.
DominatedIsOwed ==
    pc \notin {"fan", "ended"} =>
        \A c \in Answered("Dominated") :
            LET s == call[c].sub IN
            \/ call[c].before \subseteq sent \cup covered
            \/ in_debt(s)
            \/ HasRescan(queue, s)
            \/ s \notin live

\* A marker is on the disk only while its call is begun or pending: none is
\* left behind by an answer, a timeout, a retirement or a close.
NoMarkerLeft == markers \subseteq pending_syncs \cup {cur}

\* A call that waits for its marker waits for something: the marker is on the
\* stream of the source, or a Rescan over its ground is.
PendingIsAwaited ==
    \A c \in pending_syncs :
        \/ status[c] = "gone"
        \/ call[c].sub \in hit /\ pc = "fan"
        \/ HasMarker(queue, c) \/ HasRescan(queue, call[c].sub)

\* The markers and the calls that wait for them account for each other.
MarkersAccounted == TypeOK /\ NoMarkerLeft /\ PendingIsAwaited

-----------------------------------------------------------------------------
(* The inductive invariant.                                                *)

Item == [kind : {"change"}, id : Nat] \cup [kind : {"cookie"}, id : Call]
            \cup [kind : {"rescan"}, of : SUBSET Sub]

Typed ==
    /\ at \in Seq(Sub) /\ queue \in Seq(Item)
    /\ \A n \in DOMAIN queue : queue[n].kind = "change" => queue[n].id \in Change
    /\ buffer \in [Sub -> SUBSET Change]
    /\ room \in 0 .. Cap /\ loss_gen \in Nat /\ loss_serial \in [Sub -> Nat]
    /\ unclaimed \subseteq Sub /\ live \subseteq Sub
    /\ needs_rescan \subseteq Sub \ unclaimed /\ suppressed_rescan \subseteq unclaimed
    /\ status \in [Call -> {"idle", "called", "begun", "gone", "busy", "unknown", "failed",
                            "closed", "retired", "Delivered", "Dominated"}]
    /\ call \in [Call -> [sub : Sub \cup {None}, gen : Nat, serial : Nat, dominated : BOOLEAN,
                          before : SUBSET Change]]
    /\ pc \in Loop \cup {"write", "published", "fan", "ended"}
    /\ todo \subseteq hit /\ hit \subseteq Sub /\ raises \in Nat

\* Where the owner stands and what it holds in hand.
InHand ==
    /\ pc # "write" => cur = None /\ markers \subseteq pending_syncs
    /\ todo # {} => pc = "fan"
    /\ pc = "write" => /\ cur \in Call \ pending_syncs /\ status[cur] \in {"begun", "gone"}
                       /\ call[cur].sub \in live
                       /\ Cardinality(pending_syncs) < MaxPending

\* What the calls read, and where they and their markers are.
CallsKept ==
    /\ pending_syncs \subseteq Call /\ IsFiniteSet(pending_syncs)
    /\ \A c \in Call : status[c] # "idle" =>
          /\ call[c].sub \in Sub \cap claims /\ call[c].gen <= loss_gen
          /\ call[c].before \subseteq Of(call[c].sub)
    /\ \A c \in Call : status[c] = "begun" => c \in pending_syncs \/ (pc = "write" /\ c = cur)
    /\ \A c \in pending_syncs :
          /\ status[c] \in {"begun", "gone"} /\ call[c].sub \in live
          /\ call[c].serial <= loss_serial[call[c].sub]
          /\ pc # "drain" => call[c].sub \notin unclaimed
    /\ \A c \in Call : HasMarker(queue, c) =>
          /\ status[c] \notin {"idle", "called"}
          /\ pc = "write" /\ c = cur => c \in markers

\* A Rescan reaches s from here on: on its way, being fanned out or parked.
\* What is parked and just went out counts as told.
Owed(s) ==
    \/ s \in todo
    \/ HasRescan(queue, s)
    \/ in_debt(s) /\ ~(pc = "published" /\ s \in hit)

\* Every change is told, stood for, held or on its way.
Accounted ==
    \A i \in Change : at[i] \in live =>
        \/ i \in sent \cup covered \cup buffer[at[i]]
        \/ HasChange(queue, i)
        \/ Owed(at[i])

\* The source keeps its order: what was before a call is ahead of its marker.
Ahead ==
    \A c \in Call : \A i \in call[c].before : ChangeAhead(queue, i, c)

\* What c read of the clocks is out of date.
LossNoted(c) ==
    \/ c \in pending_syncs /\ (call[c].dominated \/ call[c].serial < loss_serial[call[c].sub])
    \/ c \notin pending_syncs /\ (call[c].gen < loss_gen \/ in_debt(call[c].sub))

\* A loss the answer to c will own up to.
Noted(c) ==
    \/ pc = "fan" /\ call[c].sub \in hit
    \/ RescanAhead(queue, call[c].sub, c)
    \/ LossNoted(c)

\* While a call waits, what was before it reaches the stream ahead of its
\* answer, or a loss is noted.
WindowSound ==
    \A c \in Call : status[c] \in Waiting /\ call[c].sub \in live =>
        \/ \A i \in call[c].before : i \in sent \cup buffer[call[c].sub] \/ HasChange(queue, i)
        \/ Noted(c)

\* What has been fanned out left nothing behind.
FannedOut ==
    pc = "fan" => \A c \in pending_syncs :
        call[c].sub \in hit \ todo => \/ in_debt(call[c].sub)
                                      \/ call[c].before \subseteq sent \cup covered

\* `DominatedIsOwed`, while a Rescan is fanned out as well.
AnswerStands ==
    \A c \in Answered("Dominated") :
        \/ call[c].before \subseteq sent \cup covered
        \/ Owed(call[c].sub)
        \/ call[c].sub \notin live

\* The marker just written is on its way too.
BegunIsAwaited ==
    pc = "write" /\ cur \in markers =>
        HasMarker(queue, cur) \/ HasRescan(queue, call[cur].sub)

IInv ==
    /\ TypeOK /\ Typed /\ InHand /\ CallsKept /\ NoMarkerLeft
    /\ Accounted /\ Ahead /\ WindowSound /\ FannedOut /\ AnswerStands
    /\ DeliveredIsEmitted /\ BegunIsAwaited /\ PendingIsAwaited

=============================================================================

------------------------------ MODULE Delivery ------------------------------
(***************************************************************************)
(* The delivery half of the umbrella's owner task                          *)
(* (tributaries/src/driver/mod.rs, driver/epoch/mod.rs): how a raw source  *)
(* event becomes stamped deliveries on one bounded channel the owner never *)
(* waits for.  What cannot be delivered is owed instead as one parked      *)
(* Rescan per subscription, which must cover everything withheld behind it *)
(* and strictly dominate it.                                               *)
(*                                                                         *)
(* One armed root is modelled; the coverage plane behind it is Subsumer's. *)
(* Filters, values, locations and destructors are payload, and a delta is  *)
(* the set of its endpoints: one key, or two for a whole Moved.  The       *)
(* owner emits one delivery per step, so the consumer runs between any two.*)
(***************************************************************************)
EXTENDS Keys, Lists, Functions

CONSTANTS
    Component,   \* key components
    Key,         \* the keys events and subscriptions name
    Sub,         \* subscription ids, in the order of the parked maps
    KeyOf,       \* the key each subscription is registered at
    Changes,     \* the endpoint sets of the changes observed
    Debounced,   \* the subscriptions that may ask to be debounced
    Capacity,    \* slots of the event channel
    MaxHeld,     \* `max_buffered`: buffered entries per subscription
    MaxEvents    \* bound on the raw events and root changes

ASSUME KeyAssumption == Key \subseteq Seq(Component)
ASSUME SubAssumption == Sub \subseteq Nat \ {0} /\ KeyOf \in [Sub -> Key]
ASSUME ChangesAssumption == \A ks \in Changes : ks \subseteq Key /\ Cardinality(ks) \in {1, 2}
ASSUME DebouncedAssumption == Debounced \subseteq Sub
ASSUME BoundAssumption ==
    /\ Capacity \in Nat \ {0}
    /\ MaxHeld \in Nat
    /\ MaxEvents \in Nat

VARIABLES
    live,        \* subscriptions of the coverage plane
    root,        \* key of the armed root
    raw,         \* the root's raw epoch: the source's reconciliation generation
    base,        \* EpochLedger: `epoch_base` per subscription
    hw,          \* EpochLedger: `high_water` per subscription
    retired,     \* subscriptions whose filter was quarantined
    held,        \* Coalescer: buffered deltas in order of last touch
    needs,       \* `needs_rescan`: offerable parked Rescans
    suppressed,  \* `suppressed_rescan`: parked Rescans of unclaimed subscriptions
    unclaimed,   \* committed subscriptions whose grant is unresolved
    grant,       \* caller's grant and its message on the cleanup channel
    out,         \* deliveries the owner is emitting right now
    chan,        \* the event channel
    cursor,      \* `flush_cursor`, 0 when none
    flush,       \* the running flush pass
    phase,       \* run, drain (the source ended), ended, closed
    pc,          \* where the owner is
    then,        \* where it goes once everything in `out` is emitted
    cut,         \* the cleanup channel is closed
    used,        \* ids already minted
    settling,    \* subscriptions whose effective policy buffers
    events,      \* raw events and root changes so far
    owned,       \* history: subscriptions whose caller holds the id
    owed,        \* history: what each subscription must still be told to re-enumerate
    peak,        \* history: greatest epoch sent
    last         \* history: the last Rescan sent

ledger  == <<raw, base, hw>>
planes  == <<needs, suppressed>>
claims  == <<unclaimed, grant, owned, cut>>
control == <<phase, pc, then>>
flushing == <<cursor, flush>>
minted  == <<used, settling>>
sent    == <<chan, peak, last>>
vars == <<live, root, ledger, retired, held, planes, claims, out, sent,
          flushing, control, minted, events, owed>>

Parked == [key : Seq(Component), epoch : Nat]
Delta  == [keys : (SUBSET Key) \ {{}}, epoch : Nat]
Emission == [rescan : BOOLEAN, keys : (SUBSET Key) \ {{}}, epoch : Nat]
NoFlush == [at |-> 0, ex |-> FALSE, left |-> 0]
Nothing == [s \in Sub |-> <<>>]

Init ==
    /\ live = {} /\ root = <<>> /\ used = {} /\ settling = {}
    /\ raw = 0 /\ base = [s \in Sub |-> 0] /\ hw = [s \in Sub |-> 0]
    /\ retired = {}
    /\ held = Nothing
    /\ needs = [s \in {} |-> s] /\ suppressed = [s \in {} |-> s]
    /\ unclaimed = {} /\ grant = [s \in Sub |-> "none"] /\ owned = {} /\ cut = FALSE
    /\ out = Nothing
    /\ chan = <<>>
    /\ cursor = 0 /\ flush = NoFlush
    /\ phase = "run" /\ pc = "idle" /\ then = "idle"
    /\ events = 0
    /\ owed = [s \in Sub |-> {}]
    /\ peak = [s \in Sub |-> 0]
    /\ last = [s \in Sub |-> [key |-> <<>>, epoch |-> 0]]

running == phase = "run" /\ pc = "idle"
spends  == events < MaxEvents /\ events' = events + 1

-----------------------------------------------------------------------------
(* The epoch ledger (driver/epoch/mod.rs).                                 *)

larger(a, b) == IF a < b THEN b ELSE a

\* Mutant: the stamp is not clamped up to the high-water.
stamp_unclamped(s) == base[s] + raw

\* `stamp`: an ordinary delivery ties the high-water at least.
stamp(s) == larger(base[s] + raw, hw[s])

\* `stamp_rescan`: a source Rescan exceeds the high-water.
stamp_rescan(s, generation) == larger(base[s] + generation, hw[s] + 1)

\* `shed_rescan` and `repoint`: the mint that dominates all sent so far.
shed_rescan(s) == hw[s] + 1

-----------------------------------------------------------------------------
(* The parked planes (`ParkedRescans`).                                    *)

\* Mutant: the parked key is overwritten by the newer one.
merge_max_overwriting(plane, T, d) ==
    [s \in DOMAIN plane \cup T |-> IF s \in T THEN d[s] ELSE plane[s]]

\* `merge_max` for every subscription of T, with the Rescan d[s].
merge_max(plane, T, d) ==
    [s \in DOMAIN plane \cup T |->
        IF s \notin T THEN plane[s]
        ELSE IF s \notin DOMAIN plane THEN d[s]
        ELSE [key   |-> CommonPrefix(plane[s].key, d[s].key),
              epoch |-> larger(plane[s].epoch, d[s].epoch)]]

\* Mutant: a park ignores that the grant is still unresolved.
park_offerable(T, d) ==
    /\ needs' = merge_max(needs, T, d)
    /\ suppressed' = suppressed

\* A park goes to the map that matches the claim state.
park(T, d) ==
    /\ needs' = merge_max(needs, T \ unclaimed, d)
    /\ suppressed' = merge_max(suppressed, T \cap unclaimed, d)

\* `widen_debt`: the debt grows over every endpoint of a delta it displaces.
widen_debt(plane, s, keys, epoch) ==
    IF s \notin DOMAIN plane THEN plane
    ELSE LET grow(k) == CommonPrefix(plane[s].key, k)
             over == {grow(k) : k \in keys}
         IN  [plane EXCEPT ![s] =
                [key   |-> CHOOSE c \in over : \A o \in over : Len(c) <= Len(o),
                 epoch |-> larger(plane[s].epoch, epoch)]]

in_debt(s) == s \in DOMAIN needs \cup DOMAIN suppressed

-----------------------------------------------------------------------------
(* What is owed: a delta that is not delivered must be re-enumerated by a  *)
(* Rescan above it, and a Rescan by itself or by a larger one.             *)

Debt(e) == [keys |-> e.keys, need |-> IF e.rescan THEN e.epoch ELSE e.epoch + 1]
DebtOf(d) == [keys |-> d.keys, need |-> d.epoch + 1]
Covers(r, o) ==
    /\ r.epoch >= o.need
    /\ \A k \in o.keys : StartsWith(k, r.key)

\* `drop_subscription`: the buffered deltas of the subscriptions of T go,
\* and the Rescan minted with it has to stand for them.
drop_subscription(T) == held' = [s \in Sub |-> IF s \in T THEN <<>> ELSE held[s]]
Dropped(s) == {DebtOf(d) : d \in Range(held[s])}

AsEmission(d) == [rescan |-> FALSE, keys |-> d.keys, epoch |-> d.epoch]
Emissions(q) == [i \in DOMAIN q |-> AsEmission(q[i])]

-----------------------------------------------------------------------------
(* Watching: the caller's grant decides whose debt is offered.             *)

\* `commit_widen` and `restore_disarmed_roots`: every subscription of the
\* root rides a fresh one from here on.  Its buffer is dropped, its epochs
\* are rebased above all it was sent, and a Rescan of its own key stands
\* for the gap between the disarm and the arm.
repoint ==
    LET rescan(s) == [rescan |-> TRUE, keys |-> {KeyOf[s]}, epoch |-> shed_rescan(s)]
    IN  /\ drop_subscription(live)
        /\ base' = [s \in Sub |-> IF s \in live THEN shed_rescan(s) ELSE base[s]]
        /\ hw' = [s \in Sub |-> IF s \in live THEN shed_rescan(s) ELSE hw[s]]
        /\ out' = [s \in Sub |-> IF s \in live THEN <<rescan(s)>> ELSE <<>>]
        /\ owed' = [s \in Sub |-> IF s \in live
                                  THEN owed[s] \cup Dropped(s) \cup {Debt(rescan(s))}
                                  ELSE owed[s]]
        /\ pc' = "emit" /\ then' = "idle" /\ phase' = phase

\* The reply of `on_watch`: the grant is in flight, or the caller is gone
\* and the subscription is released at once.
reply(s, taken) ==
    /\ used' = used \cup {s}
    /\ settling' \in {settling} \cup (IF taken THEN {settling \cup ({s} \cap Debounced)} ELSE {})
    /\ live' = IF taken THEN live \cup {s} ELSE live
    /\ unclaimed' = IF taken THEN unclaimed \cup {s} ELSE unclaimed
    /\ grant' = IF taken THEN [grant EXCEPT ![s] = "open"] ELSE grant
    /\ UNCHANGED <<owned, cut>>

\* A watch that arms a root of its own, or joins the armed one.
Watch(s, taken) ==
    /\ running
    /\ s \notin used
    /\ \/ live = {} /\ root' = KeyOf[s] /\ raw' = 0
       \/ live # {} /\ StartsWith(KeyOf[s], root) /\ UNCHANGED <<root, raw>>
    /\ reply(s, taken)
    /\ UNCHANGED <<base, hw, retired, held, planes, out, sent, flushing, control,
                   events, owed>>

\* A watch above the armed root: the root is replaced in place, which keeps
\* the handle and its generation, or disarmed and armed afresh.
Widen(s, taken) ==
    /\ running /\ spends
    /\ s \notin used
    /\ live # {} /\ KeyOf[s] # root /\ StartsWith(root, KeyOf[s])
    /\ root' = KeyOf[s]
    /\ raw' \in {0, raw}
    /\ repoint
    /\ reply(s, taken)
    /\ UNCHANGED <<retired, planes, sent, flushing>>

\* A failed widen that armed the old root again.
Restore ==
    /\ running /\ spends
    /\ live # {}
    /\ raw' = 0
    /\ repoint
    /\ UNCHANGED <<live, root, retired, planes, claims, sent, flushing, minted>>

\* `release_subscription`: nothing is owed to a subscription that is gone.
release_subscription(s) ==
    /\ live' = live \ {s}
    /\ needs' = Drop(needs, {s})
    /\ suppressed' = Drop(suppressed, {s})
    /\ unclaimed' = unclaimed \ {s}
    /\ held' = [held EXCEPT ![s] = <<>>]
    /\ base' = [base EXCEPT ![s] = 0]
    /\ hw' = [hw EXCEPT ![s] = 0]
    /\ retired' = retired \ {s}
    /\ owed' = [owed EXCEPT ![s] = {}]

\* `WatchGrant::defuse`: the caller takes the subscription, unless the
\* cleanup channel is closed, when its watch answers Closed.
CallerClaims(s) ==
    /\ grant[s] = "open"
    /\ grant' = [grant EXCEPT ![s] = IF cut THEN "none" ELSE "claim"]
    /\ owned' = IF cut THEN owned ELSE owned \cup {s}
    /\ UNCHANGED <<live, root, ledger, retired, held, planes, unclaimed, cut, out, sent,
                   flushing, control, minted, events, owed>>

\* `WatchGrant::drop`: the caller's watch was cancelled.
CallerDrops(s) ==
    /\ grant[s] = "open"
    /\ grant' = [grant EXCEPT ![s] = IF cut THEN "none" ELSE "orphan"]
    /\ UNCHANGED <<live, root, ledger, retired, held, planes, unclaimed, owned, cut, out,
                   sent, flushing, control, minted, events, owed>>

\* Mutant: the claim lifts the suppression and forgets the withheld debt.
promote_not(s) == UNCHANGED planes

\* `ParkedRescans::promote`: the withheld debt becomes offerable.
promote(s) ==
    /\ needs' = IF s \in DOMAIN suppressed THEN merge_max(needs, {s}, suppressed) ELSE needs
    /\ suppressed' = Drop(suppressed, {s})

\* `apply_cleanup`: between two passes of the loop, and in the final cut.
AppliesCleanup == phase \in {"run", "drain"} /\ pc \in {"idle", "cut"}

ApplyClaim(s) ==
    /\ AppliesCleanup
    /\ grant[s] = "claim"
    /\ grant' = [grant EXCEPT ![s] = "none"]
    /\ unclaimed' = unclaimed \ {s}
    /\ promote(s)
    /\ UNCHANGED <<live, root, ledger, retired, held, owned, cut, out, sent, flushing,
                   control, minted, events, owed>>

ApplyOrphan(s) ==
    /\ AppliesCleanup
    /\ grant[s] = "orphan"
    /\ grant' = [grant EXCEPT ![s] = "none"]
    /\ release_subscription(s)
    /\ UNCHANGED <<root, raw, owned, cut, out, sent, flushing, control, minted, events>>

\* `on_unwatch`, which may overtake the caller's own claim.
Unwatch(s) ==
    /\ running
    /\ s \in owned
    /\ owned' = owned \ {s}
    /\ release_subscription(s)
    /\ UNCHANGED <<root, raw, grant, cut, out, sent, flushing, control, minted, events>>

-----------------------------------------------------------------------------
(* Consuming a raw event (`consume_source_event`).  Which buffered deltas  *)
(* are due is the clock's choice: any of them may be.                      *)

Due(q, K)  == Kept(q, {i \in DOMAIN q : q[i].keys \subseteq K})
Wait(q, K) == Kept(q, {i \in DOMAIN q : ~(q[i].keys \subseteq K)})
HeldKeys(h, s) == UNION {d.keys : d \in Range(h[s])}

\* `push_all`: what passes the coalescer goes out first, then what is due,
\* and the subscriptions that overflowed it lose their buffer.
push_all(pre, h, due, overflowed) ==
    /\ \A s \in Debounced : due[s] \subseteq HeldKeys(h, s)
    /\ out' = [s \in Sub |-> pre[s] \o IF s \in Debounced
                                       THEN Emissions(Due(h[s], due[s])) ELSE <<>>]
    /\ held' = [s \in Sub |-> IF s \in overflowed THEN <<>>
                             ELSE IF s \in Debounced THEN Wait(h[s], due[s]) ELSE h[s]]

\* `project`: the endpoints of a change inside the subscription's subtree.
project(s, ks) == {k \in ks : StartsWith(k, KeyOf[s])}

\* `Coalescer::coalesce`: a delta merges into the held delta of its key,
\* taking its place at the end, or the pair annihilates.
Holds(q, d) == \E i \in DOMAIN q : q[i].keys = d.keys
Others(q, d) == Kept(q, {i \in DOMAIN q : q[i].keys # d.keys})
coalesce(q, d, annihilates) == IF annihilates THEN Others(q, d) ELSE Append(Others(q, d), d)

\* A delta of a key that is not held finds the buffer at its cap.
overflows(q, d) == ~Holds(q, d) /\ Len(q) >= MaxHeld

\* An ordinary change at the endpoints ks, delivered to the covering
\* subscriptions `admitted` that interest and filter let through.  The
\* filters of `poisoned` unwound: `quarantine_filters` owes each a Rescan
\* first, and the change is emitted behind it.  A single-key delta of a
\* debounced subscription settles in the coalescer, where `cancelled` are
\* those it annihilates a held one of; a whole move flushes the buffer.
Observe(ks, admitted, poisoned, cancelled, due) ==
    LET delta(s)  == [keys |-> project(s, ks), epoch |-> stamp(s)]
        settles   == {s \in (admitted \ poisoned) \cap settling :
                          Cardinality(delta(s).keys) = 1}
        passing   == admitted \ (poisoned \cup settles)
        overflow  == {s \in settles : overflows(held[s], delta(s))}
        buffer    == [s \in Sub |->
            IF s \in poisoned \cup passing THEN <<>>
            ELSE IF s \in settles \ overflow THEN coalesce(held[s], delta(s), s \in cancelled)
            ELSE held[s]]
        pre       == [s \in Sub |->
            IF s \in poisoned THEN <<AsEmission(delta(s))>>
            ELSE IF s \in passing THEN Emissions(Append(held[s], delta(s)))
            ELSE <<>>]
        bumped(s) == larger(hw[s], stamp(s))
        parks     == poisoned \cup overflow
        rescan    == [s \in parks |-> [key |-> KeyOf[s], epoch |-> bumped(s) + 1]]
    IN  /\ running /\ spends
        /\ admitted \subseteq {s \in live : project(s, ks) # {}}
        /\ poisoned \subseteq admitted \ retired
        /\ cancelled \subseteq {s \in settles : Holds(held[s], delta(s))}
        /\ push_all(pre, buffer, due, overflow)
        /\ park(parks, rescan)
        /\ hw' = [s \in Sub |-> IF s \in parks THEN bumped(s) + 1
                               ELSE IF s \in admitted THEN bumped(s) ELSE hw[s]]
        /\ owed' = [s \in Sub |->
               owed[s] \cup
               (IF s \in poisoned
                THEN Dropped(s) \cup {[keys |-> {KeyOf[s]}, need |-> bumped(s) + 1]} ELSE {})
               \cup
               (IF s \in overflow
                THEN {DebtOf(d) : d \in {delta(s)} \cup Range(Wait(buffer[s], due[s]))} ELSE {})]
        /\ retired' = retired \cup poisoned
        /\ pc' = "emit" /\ then' = "settle" /\ phase' = phase
        /\ UNCHANGED <<live, root, raw, base, claims, sent, flushing, minted>>

\* `clamp_disjoint_live_root_rescan`: a Rescan beside the root means the root.
clamp(k) == IF StartsWith(k, root) \/ StartsWith(root, k) THEN k ELSE root

\* `project_rescan`: the part of a Rescan inside the subscription's subtree.
project_rescan(s, k) == IF StartsWith(k, KeyOf[s]) THEN k ELSE KeyOf[s]

\* The source lost coverage under k: its generation moves and a Rescan goes
\* to every subscription it touches, behind the deltas they still hold.
SourceRescan(k, due) ==
    LET at == clamp(k)
        touched == {s \in live : StartsWith(at, KeyOf[s]) \/ StartsWith(KeyOf[s], at)}
        rescan(s) == [rescan |-> TRUE, keys |-> {project_rescan(s, at)},
                      epoch |-> stamp_rescan(s, raw + 1)]
        buffer == [s \in Sub |-> IF s \in touched THEN <<>> ELSE held[s]]
        pre == [s \in Sub |-> IF s \in touched THEN Append(Emissions(held[s]), rescan(s))
                              ELSE <<>>]
    IN  /\ running /\ spends
        /\ live # {}
        /\ raw' = raw + 1
        /\ push_all(pre, buffer, due, {})
        /\ hw' = [s \in Sub |-> IF s \in touched THEN larger(hw[s], rescan(s).epoch)
                               ELSE hw[s]]
        /\ owed' = [s \in Sub |-> IF s \in touched THEN owed[s] \cup {Debt(rescan(s))}
                                 ELSE owed[s]]
        /\ pc' = "emit" /\ then' = "settle" /\ phase' = phase
        /\ UNCHANGED <<live, root, base, retired, planes, claims, sent, flushing, minted>>

\* `rescan_live_root`: every subscription of the root is owed a Rescan of
\* its own key, parked straight away.
rescan_live_root ==
    LET rescan == [s \in live |-> [key |-> KeyOf[s], epoch |-> shed_rescan(s)]]
    IN  /\ park(live, rescan)
        /\ drop_subscription(live)
        /\ owed' = [s \in Sub |-> IF s \in live
               THEN owed[s] \cup Dropped(s) \cup
                    {[keys |-> {KeyOf[s]}, need |-> shed_rescan(s)]}
               ELSE owed[s]]

\* A widen in place that diverged and was rolled back: the root lives on.
Rollback ==
    /\ running /\ spends
    /\ live # {}
    /\ rescan_live_root
    /\ hw' = [s \in Sub |-> IF s \in live THEN shed_rescan(s) ELSE hw[s]]
    /\ UNCHANGED <<live, root, raw, base, retired, claims, out, sent, flushing, control,
                   minted>>

\* `retire_root_with_terminal_rescan`: the root is dead; the terminal Rescan
\* outlives its subscriptions.
Retire ==
    /\ running /\ spends
    /\ live # {}
    /\ rescan_live_root
    /\ live' = {}
    /\ base' = [s \in Sub |-> IF s \in live THEN 0 ELSE base[s]]
    /\ hw' = [s \in Sub |-> IF s \in live THEN 0 ELSE hw[s]]
    /\ retired' = retired \ live
    /\ UNCHANGED <<root, raw, claims, out, sent, flushing, control, minted>>

\* `drain_coalescer_due`, on the timer and after every consumed event.
DrainDue(due) ==
    /\ \/ running /\ \E s \in Debounced : due[s] # {}
       \/ phase = "run" /\ pc = "settle"
    /\ push_all(Nothing, held, due, {})
    /\ pc' = "emit" /\ then' = "idle" /\ phase' = phase
    /\ UNCHANGED <<live, root, ledger, retired, planes, claims, sent, flushing, minted,
                   events, owed>>

-----------------------------------------------------------------------------
(* Emitting (`try_emit`), one delivery at a time.                          *)

Full == Len(chan) >= Capacity

\* `async_channel::Sender::try_send` finds a free slot.
accepts == ~Full

\* The Rescan of a delivery, as it is parked.
AsParked(e) == [key |-> CHOOSE k \in e.keys : TRUE, epoch |-> e.epoch]

\* An accepted delivery: a Rescan discharges what it covers.
send(s, e) ==
    LET r == AsParked(e)
    IN  /\ chan' = Append(chan, [sub |-> s, rescan |-> e.rescan, keys |-> e.keys,
                                 epoch |-> e.epoch])
        /\ peak' = [peak EXCEPT ![s] = larger(@, e.epoch)]
        /\ last' = IF e.rescan THEN [last EXCEPT ![s] = r] ELSE last
        /\ owed' = IF e.rescan
                   THEN [owed EXCEPT ![s] = {o \in @ : ~Covers(r, o)}] ELSE owed

Emitting(s) ==
    /\ pc = "emit"
    /\ out[s] # <<>>
    /\ out' = [out EXCEPT ![s] = Tail(@)]

EmitSend(s) ==
    /\ Emitting(s)
    /\ ~in_debt(s)
    /\ accepts
    /\ send(s, Head(out[s]))
    /\ UNCHANGED <<live, root, ledger, retired, held, planes, claims, flushing, control,
                   minted, events>>

\* `park_rescan_event`: a Rescan that meets debt or a full channel is
\* parked as it is, or merged into the debt.
EmitMerge(s) ==
    LET e == Head(out[s]) IN
    /\ Emitting(s)
    /\ e.rescan
    /\ in_debt(s) \/ Full
    /\ park({s}, [x \in {s} |-> AsParked(e)])
    /\ UNCHANGED <<live, root, ledger, retired, held, claims, sent, flushing, control,
                   minted, events, owed>>

\* `widen_parked_debt`: a delta behind debt is withheld and the debt grows.
EmitSuppress(s) ==
    LET e == Head(out[s]) IN
    /\ Emitting(s)
    /\ ~e.rescan
    /\ in_debt(s)
    /\ needs' = widen_debt(needs, s, e.keys, shed_rescan(s))
    /\ suppressed' = widen_debt(suppressed, s, e.keys, shed_rescan(s))
    /\ hw' = [hw EXCEPT ![s] = shed_rescan(s)]
    /\ owed' = [owed EXCEPT ![s] = @ \cup {Debt(e)}]
    /\ UNCHANGED <<live, root, raw, base, retired, held, claims, sent, flushing, control,
                   minted, events>>

\* `park_rescan`: a delta that finds the channel full is shed.
EmitShed(s) ==
    LET e == Head(out[s]) IN
    /\ Emitting(s)
    /\ ~e.rescan
    /\ ~in_debt(s)
    /\ Full
    /\ park({s}, [x \in {s} |-> [key |-> KeyOf[s], epoch |-> shed_rescan(s)]])
    /\ hw' = [hw EXCEPT ![s] = shed_rescan(s)]
    /\ drop_subscription({s})
    /\ owed' = [owed EXCEPT ![s] = @ \cup {Debt(e)} \cup Dropped(s)]
    /\ UNCHANGED <<live, root, raw, base, retired, claims, sent, flushing, control, minted,
                   events>>

EmitDone ==
    /\ pc = "emit"
    /\ out = Nothing
    /\ pc' = then
    /\ UNCHANGED <<live, root, ledger, retired, held, planes, claims, out, sent, flushing,
                   phase, then, minted, events, owed>>

Recv ==
    /\ chan # <<>>
    /\ chan' = Tail(chan)
    /\ UNCHANGED <<live, root, ledger, retired, held, planes, claims, out, peak, last,
                   flushing, control, minted, events, owed>>

-----------------------------------------------------------------------------
(* Offering the parked Rescans (`flush_pending_rescans`): a round-robin    *)
(* pass that ends at the first full slot and resumes there.                *)

start_flush ==
    IF Full \/ needs = [s \in {} |-> s]
    THEN pc' = "emit" /\ UNCHANGED flushing
    ELSE /\ pc' = "flush"
         /\ flush' = [at |-> cursor, ex |-> FALSE, left |-> Cardinality(DOMAIN needs)]
         /\ cursor' = 0

\* `first_from`: the least owed subscription past the bound, else the least.
first_from ==
    LET past == {s \in DOMAIN needs : s > flush.at \/ (s = flush.at /\ ~flush.ex)}
        pool == IF past # {} THEN past ELSE DOMAIN needs
    IN  CHOOSE s \in pool : \A o \in pool : s <= o

end_flush(at) == pc' = "emit" /\ flush' = NoFlush /\ cursor' = at

\* The top of the loop.
Flush ==
    /\ running
    /\ ~Full /\ DOMAIN needs # {}
    /\ start_flush
    /\ then' = "idle"
    /\ UNCHANGED <<live, root, ledger, retired, held, planes, claims, out, sent, phase,
                   minted, events, owed>>

Offered(s) == [rescan |-> TRUE, keys |-> {needs[s].key}, epoch |-> needs[s].epoch]

FlushSend ==
    /\ pc = "flush"
    /\ flush.left > 0 /\ DOMAIN needs # {}
    /\ accepts
    /\ send(first_from, Offered(first_from))
    /\ needs' = Drop(needs, {first_from})
    /\ flush' = [at |-> first_from, ex |-> TRUE, left |-> flush.left - 1]
    /\ UNCHANGED <<live, root, ledger, retired, held, suppressed, claims, out, cursor,
                   control, minted, events>>

FlushEnd ==
    /\ pc = "flush"
    /\ \/ (flush.left = 0 \/ DOMAIN needs = {}) /\ end_flush(0)
       \/ flush.left > 0 /\ DOMAIN needs # {} /\ Full /\ end_flush(first_from)
    /\ UNCHANGED <<live, root, ledger, retired, held, planes, claims, out, sent, phase,
                   then, minted, events, owed>>

-----------------------------------------------------------------------------
(* Teardown.                                                               *)

\* The source's stream ended: everything owed is delivered first.
SourceEnds ==
    /\ running
    /\ phase' = "drain"
    /\ UNCHANGED <<live, root, ledger, retired, held, planes, claims, out, sent, flushing,
                   pc, then, minted, events, owed>>

\* A close, at any point of either loop: what is owed is abandoned with the
\* owner's state.
Close ==
    /\ phase \in {"run", "drain"} /\ pc = "idle"
    /\ phase' = "closed"
    /\ cut' = TRUE
    /\ live' = {} /\ unclaimed' = {} /\ retired' = {}
    /\ held' = Nothing
    /\ needs' = [s \in {} |-> s] /\ suppressed' = [s \in {} |-> s]
    /\ owed' = [s \in Sub |-> {}]
    /\ UNCHANGED <<root, ledger, grant, owned, out, sent, flushing, pc, then, minted, events>>

\* `drain_owed_once`: the buffers are emptied; the deltas of an indebted
\* subscription are left to its Rescan, the others follow the Rescans.
DrainOwed ==
    /\ phase = "drain" /\ pc \in {"idle", "cut"}
    /\ pc = "cut" => cut
    /\ \A s \in Sub : grant[s] \notin {"claim", "orphan"}
    /\ held' = Nothing
    /\ out' = [s \in Sub |-> IF in_debt(s) THEN <<>> ELSE Emissions(held[s])]
    /\ owed' = [s \in Sub |-> IF in_debt(s) THEN owed[s] \cup Dropped(s) ELSE owed[s]]
    /\ start_flush
    /\ then' = IF pc = "cut" THEN "last" ELSE "test"
    /\ UNCHANGED <<live, root, ledger, retired, planes, claims, sent, phase, minted, events>>

\* `drain_owed_before_shutdown`: once nothing is owed and no message waits,
\* the cleanup channel is closed, and everything it still held is drained.
DrainTest ==
    /\ phase = "drain" /\ pc = "test"
    /\ pc' = IF /\ DOMAIN needs = {}
                /\ \A s \in Sub : grant[s] \notin {"claim", "orphan"}
             THEN "cut" ELSE "idle"
    /\ UNCHANGED <<live, root, ledger, retired, held, planes, claims, out, sent, flushing,
                   phase, then, minted, events, owed>>

Cut ==
    /\ phase = "drain" /\ pc = "cut"
    /\ ~cut
    /\ cut' = TRUE
    /\ UNCHANGED <<live, root, ledger, retired, held, planes, unclaimed, grant, owned, out,
                   sent, flushing, control, minted, events, owed>>

\* The last test of the drain: a late claim may have promoted a debt.
DrainLast ==
    /\ phase = "drain" /\ pc = "last"
    /\ pc' = "idle"
    /\ phase' = IF DOMAIN needs = {} THEN "ended" ELSE phase
    /\ UNCHANGED <<live, root, ledger, retired, held, planes, claims, out, sent, flushing,
                   then, minted, events, owed>>

-----------------------------------------------------------------------------
DueChoice == [Debounced -> SUBSET Key]

\* What the callers, the source and the consumer do.
Environment ==
    \/ \E s \in Sub, taken \in BOOLEAN : Watch(s, taken) \/ Widen(s, taken)
    \/ \E s \in Sub : CallerClaims(s) \/ CallerDrops(s) \/ Unwatch(s)
    \/ \E due \in DueChoice :
           \/ \E ks \in Changes : \E a \in SUBSET {s \in live : project(s, ks) # {}} :
                 \E p \in SUBSET a, c \in SUBSET (a \cap settling) : Observe(ks, a, p, c, due)
           \/ \E k \in Key : SourceRescan(k, due)
    \/ Restore \/ Rollback \/ Retire
    \/ SourceEnds \/ Close

\* What the owner does by itself.
Owner ==
    \/ \E s \in Sub :
          \/ ApplyClaim(s) \/ ApplyOrphan(s)
          \/ EmitSend(s) \/ EmitMerge(s) \/ EmitSuppress(s) \/ EmitShed(s)
    \/ \E due \in DueChoice : DrainDue(due)
    \/ EmitDone
    \/ Flush \/ FlushSend \/ FlushEnd
    \/ DrainOwed \/ DrainTest \/ Cut \/ DrainLast

Next == Environment \/ Owner \/ Recv

Fairness == WF_vars(Owner) /\ WF_vars(Recv)
Spec == Init /\ [][Next]_vars
FairSpec == Spec /\ Fairness

-----------------------------------------------------------------------------
(* Properties.                                                             *)

\* Every variable keeps its type, and the channel its capacity.
TypeOK ==
    /\ live \subseteq used /\ used \subseteq Sub /\ settling \subseteq used \cap Debounced
    /\ root \in Key \cup {<<>>}
    /\ raw \in Nat
    /\ base \in [Sub -> Nat] /\ hw \in [Sub -> Nat]
    /\ retired \subseteq live
    /\ DOMAIN held = Sub
    /\ \A s \in Sub : /\ Len(held[s]) <= MaxHeld
                      /\ Range(held[s]) \subseteq Delta
                      /\ Range(out[s]) \subseteq Emission
    /\ DOMAIN needs \subseteq Sub /\ DOMAIN suppressed \subseteq Sub
    /\ unclaimed \subseteq used /\ owned \subseteq used
    /\ grant \in [Sub -> {"none", "open", "claim", "orphan"}]
    /\ cut \in BOOLEAN
    /\ Len(chan) <= Capacity
    /\ cursor \in Sub \cup {0}
    /\ phase \in {"run", "drain", "ended", "closed"}
    /\ pc \in {"idle", "emit", "settle", "flush", "test", "cut", "last"}
    /\ then \in {"idle", "settle", "test", "last"}
    /\ events \in 0..MaxEvents

\* The Rescans that will still reach the subscription: parked, or about to
\* be emitted.
Pending(s) ==
    {needs[x] : x \in DOMAIN needs \cap {s}}
    \cup {suppressed[x] : x \in DOMAIN suppressed \cap {s}}
    \cup {AsParked(e) : e \in {x \in Range(out[s]) : x.rescan}}

\* No silent loss: whatever was shed, suppressed, dropped with a buffer or
\* lost in a gap is covered, in space and in epoch, by a Rescan still on
\* its way; and when the stream ends by itself nothing is left owing to a
\* subscription its caller obtained.  A debounced subscription is granted the
\* tail its drain drops (WithheldIsCovered).
Drops(s) == s \in settling /\ phase # "run"
NoSilentLoss ==
    \A s \in {t \in Sub : ~Drops(t)} : \A o \in owed[s] :
        \/ phase = "ended" /\ s \notin owned
        \/ phase # "ended" /\ \E r \in Pending(s) : Covers(r, o)

\* The spatial half of it, granting a tie for strict dominance: a Rescan
\* parked, being emitted or sent last, and no older than the delta that
\* was withheld, names a subtree that contains it.
WithheldIsCovered ==
    \A s \in Sub : \A o \in owed[s] :
        phase # "ended" =>
            \E r \in Pending(s) \cup {last[s]} : Covers([r EXCEPT !.epoch = @ + 1], o)

\* The parked planes split by claim state: a Rescan is offered only for a
\* subscription its caller holds, and withheld only while the grant is open.
OfferedIsOwned ==
    /\ DOMAIN needs \subseteq owned \ unclaimed
    /\ DOMAIN suppressed \subseteq unclaimed

\* The owner's books of what it owes are sound.
PlanesSound == TypeOK /\ OfferedIsOwned

\* The delivery e may follow what its subscription was sent before.
Follows(e) ==
    IF e.rescan THEN e.epoch > peak[e.sub]
    ELSE e.sub \in settling \/ e.epoch >= last[e.sub].epoch

\* Epochs tell a consumer that keeps a high-water what to discard: a delivered
\* Rescan strictly dominates every event its subscription was sent before, and
\* no later delta is older than that Rescan, which would discard it.  (A debounced
\* delta keeps the stamp of its admission, and a Rescan shed meanwhile may leave
\* before it: the second half is not theirs.)
EpochsOrdered == [][Len(chan') > Len(chan) => Follows(chan'[Len(chan')])]_vars

\* What a caller is owed reaches its stream, as long as somebody reads it.
OwedIsPaid ==
    \A s \in Sub : (s \in owned /\ owed[s] # {}) ~> owed[s] = {}

-----------------------------------------------------------------------------
(* Why they hold: the inductive invariant.                                 *)

\* The types that TypeOK leaves out.
RestTyped ==
    /\ held \in [Sub -> Seq(Delta)]
    /\ out \in [Sub -> Seq(Emission)]
    /\ needs \in [DOMAIN needs -> Parked]
    /\ suppressed \in [DOMAIN suppressed -> Parked]
    /\ owed \in [Sub -> SUBSET [keys : SUBSET Key, need : Nat]]
    /\ chan \in Seq([sub : Sub, rescan : BOOLEAN, keys : SUBSET Seq(Component), epoch : Nat])
    /\ peak \in [Sub -> Nat]
    /\ last \in [Sub -> Parked]
    /\ live # {} => root \in Key

\* Whose message is on the cleanup channel, and whose debt may be offered.
ClaimsSound ==
    /\ OfferedIsOwned
    /\ live \ unclaimed \subseteq owned
    /\ \A s \in owned \cap unclaimed : grant[s] = "claim"
    /\ \A s \in unclaimed : grant[s] = "claim" => s \in owned
    /\ \A s \in Sub : grant[s] # "none" => s \in used
    /\ then = "last" => cut /\ \A s \in Sub : grant[s] \notin {"claim", "orphan"}

\* Where the owner is, phase by phase; only in the middle of a pass is
\* something being emitted.
ControlSound ==
    /\ phase \in {"ended", "closed"} => pc = "idle"
    /\ phase = "ended" => cut
    /\ pc \in {"test", "cut", "last"} => phase = "drain"
    /\ pc = "settle" => phase = "run"
    /\ pc \in {"emit", "flush"} =>
          (phase = "run" /\ then \in {"idle", "settle"}) \/ (phase = "drain" /\ then \in {"test", "last"})
    /\ pc \notin {"emit", "flush"} => out = Nothing
    /\ pc = "last" => then = "last"

\* What is held or being emitted was minted for a live subscription, below
\* its key and no later than its high-water.
Minted(s, e) == e.epoch <= hw[s] /\ \A k \in e.keys : StartsWith(k, KeyOf[s])
EntriesMinted ==
    \A s \in Sub :
        /\ held[s] # <<>> => s \in live \cap settling
        /\ out[s] # <<>> => s \in live
        /\ \A i \in DOMAIN held[s] : Minted(s, held[s][i])
        /\ \A i \in DOMAIN out[s] : Minted(s, out[s][i])

\* A Rescan on its way dominates all that was sent, and what is emitted
\* ahead of it; nothing is emitted behind it.
RescansDominate ==
    \A s \in Sub :
        /\ \A plane \in {needs, suppressed} : s \in DOMAIN plane =>
              plane[s].epoch > peak[s] /\ (s \in live => plane[s].epoch <= hw[s])
        /\ s \in live => peak[s] <= hw[s]
        /\ s \notin used => peak[s] = 0
        /\ last[s].epoch <= peak[s]
        /\ \A i \in DOMAIN out[s] : out[s][i].rescan =>
              /\ i = Len(out[s])
              /\ out[s][i].epoch > peak[s]
              /\ \A j \in 1 .. i - 1 : out[s][j].epoch < out[s][i].epoch
        /\ s \notin settling => \A i \in DOMAIN out[s] : last[s].epoch <= out[s][i].epoch
        /\ pc = "flush" /\ in_debt(s) => out[s] = <<>>

\* What is owed is covered until the drain has ended, and paid then.
OwedIsCovered ==
    \A s \in Sub :
        /\ phase # "ended" /\ ~Drops(s) => \A o \in owed[s] : \E r \in Pending(s) : Covers(r, o)
        /\ phase = "ended" /\ s \in owned \ settling => owed[s] = {}
        /\ phase = "closed" => owed[s] = {}

IInv ==
    /\ TypeOK /\ RestTyped
    /\ ClaimsSound /\ ControlSound
    /\ EntriesMinted /\ RescansDominate
    /\ OwedIsCovered

=============================================================================

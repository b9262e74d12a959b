------------------------------ MODULE Coalescer ------------------------------
(***************************************************************************)
(* The settle/debounce coalescer (tributaries/src/coalesce/mod.rs): one    *)
(* slot per subscription and path folds a burst of changes into its net    *)
(* effect and is emitted after a quiet window, or at the latest when the   *)
(* hold cap of the burst runs out.  The driver's clock never passes a      *)
(* deadline without a drain.                                               *)
(*                                                                         *)
(* A consumer stands behind it.  It reads its channel when it likes, and   *)
(* forms a picture of each path from what it reads, to compare with the    *)
(* world.                                                                  *)
(***************************************************************************)
EXTENDS Integers, Sequences, FiniteSets, Functions, Lists

CONSTANTS
    Sub,         \* subscriptions, in order
    Path,        \* the keys each of them reports
    Settles,     \* whether the watcher-global policy settles
    Global,      \* its windows and cap
    Custom,      \* the windows and cap of a subscription's own policy
    DefaultMaxBuffered, \* `DEFAULT_MAX_BUFFERED`
    MaxTime,     \* bound on the clock
    MaxAdmits,   \* bound on the admissions that settle
    MaxReady,    \* bound on the ready queue
    MaxUnread,   \* bound on what waits for the consumer
    MaxEpoch     \* bound on the epochs

Config == [quiet_window : Nat, max_hold : Nat, max_buffered : Nat]

ASSUME SubAssumption == Sub \subseteq Nat
ASSUME PolicyAssumption ==
    Settles \in BOOLEAN /\ Global \in Config /\ Custom \in Config /\ DefaultMaxBuffered \in Nat
ASSUME BoundAssumption ==
    /\ MaxTime \in Nat /\ MaxAdmits \in Nat /\ MaxEpoch \in Nat
    /\ MaxReady \in Nat /\ MaxUnread \in Nat

VARIABLES
    now,         \* the driver's monotone clock
    life,        \* "new", then "live" and at last "gone"
    policies,    \* the overrides of the live subscriptions
    buffer,      \* slot -> [kind, epoch, first_seen, emit_at, seq]
    deadlines,   \* the deadline index: <<emit_at, slot>>
    per_sub_len, \* slots per subscription
    ready,       \* what leaves with the next drain
    next_seq,    \* the admission counter
    out,         \* what the last step handed over
    epoch,       \* the stamp of the next admission
    exists,      \* the world: whether the object is there
    unread,      \* the channel to the consumer
    view,        \* the consumer: whether it believes the object is there
    stale,       \* the content changed since the consumer was last told
    seen,        \* history: where a Created is held, or was annihilated, of an
                 \* object the consumer can know of from elsewhere
    peak         \* the greatest epoch handed over

cvars == <<policies, buffer, deadlines, per_sub_len, ready, next_seq>>
world == <<exists, unread, view, stale, seen, peak>>
vars == <<now, life, cvars, out, epoch, world>>

Slot == Sub \X Path
Lifecycle == {"Created", "Modified", "Removed"}
Kind == Lifecycle \cup {"Moved", "Rescan"}
Buffered == [kind : Lifecycle, epoch : Nat, first_seen : Nat, emit_at : Nat, seq : Nat]
Event == [sub : Sub, path : Path, from : Path, kind : Kind, epoch : Nat]

Empty == [k \in {} |-> k]

Init ==
    /\ now = 0
    /\ life = [s \in Sub |-> "new"]
    /\ policies = Empty /\ buffer = Empty
    /\ deadlines = {}
    /\ per_sub_len = [s \in Sub |-> 0]
    /\ ready = <<>> /\ out = <<>>
    /\ next_seq = 0
    /\ epoch = [s \in Sub |-> 0]
    /\ exists \in [Slot -> BOOLEAN]
    /\ unread = <<>>
    /\ view = exists
    /\ stale = [k \in Slot |-> FALSE]
    /\ seen = {}
    /\ peak = [s \in Sub |-> 0]

-----------------------------------------------------------------------------
(* The policies.                                                           *)

\* `effective_policy`: the override, else the watcher-global policy.
passes_through(s) == IF s \in DOMAIN policies THEN policies[s] = "Off" ELSE ~Settles
config(s) == IF s \in DOMAIN policies THEN Custom ELSE Global

structural_cap == IF Settles THEN Global.max_buffered ELSE DefaultMaxBuffered

\* `set_policy`, at the commit of the watch.
SetPolicy(s, policy) ==
    /\ life[s] = "new"
    /\ life' = [life EXCEPT ![s] = "live"]
    /\ policies' = IF policy = "Inherit" THEN policies
                   ELSE [t \in DOMAIN policies \cup {s} |->
                            IF t = s THEN policy ELSE policies[t]]
    /\ out' = <<>>
    /\ UNCHANGED <<now, buffer, deadlines, per_sub_len, ready, next_seq, epoch, world>>

-----------------------------------------------------------------------------
(* The collapse table, the deadlines and the drain order.                  *)

\* Mutant: a Created meeting a buffered Removed stays a Removed.
collapse_keeping(buffered, incoming) ==
    CASE buffered = "Created" /\ incoming = "Removed"  -> "annihilate"
      [] buffered = "Modified" /\ incoming = "Removed" -> "Removed"
      [] OTHER                                         -> buffered

\* `collapse`: the kind a slot has after an incoming change.
collapse(buffered, incoming) ==
    CASE buffered = "Created" /\ incoming = "Removed" -> "annihilate"
      [] buffered = "Removed" /\ incoming = "Created" -> "Modified"
      [] \/ buffered # "Created" /\ incoming = "Removed"
         \/ buffered = "Removed" /\ incoming = "Modified" -> incoming
      [] OTHER -> buffered

Earlier(a, b) == IF a < b THEN a ELSE b

\* `deadline`: the quiet window, but never past the hold cap.
deadline(c, first_seen, at) == Earlier(at + c.quiet_window, first_seen + c.max_hold)

SlotsOf(s) == {k \in DOMAIN buffer : k[1] = s}
EventOf(k) == [sub |-> k[1], path |-> k[2], from |-> k[2], kind |-> buffer[k].kind,
               epoch |-> buffer[k].epoch]
Less(j, k) == j[1] < k[1] \/ (j[1] = k[1] /\ buffer[j].seq < buffer[k].seq)

\* The slots K by subscription and admission sequence.
Sorted(K) ==
    LET rank(k) == Cardinality({j \in K : Less(j, k)}) + 1
    IN  [i \in 1..Cardinality(K) |-> EventOf(CHOOSE k \in K : rank(k) = i)]

\* Mutant: the admission sequence of a slot is never renewed.
renewed_seq_kept(k) == buffer[k].seq

\* The sequence a slot takes on a collapse: that of the newest observation.
renewed_seq(k) == next_seq

without(K) ==
    /\ buffer' = [k \in DOMAIN buffer \ K |-> buffer[k]]
    /\ deadlines' = {d \in deadlines : d[2] \notin K}

\* `dec_per_sub`, and the whole-subscription reconciliations.
counted_without(K) ==
    per_sub_len' = [s \in Sub |-> per_sub_len[s] - Cardinality({k \in K : k[1] = s})]

ready_without(s) == Kept(ready, {i \in DOMAIN ready : ready[i].sub # s})

\* `drop_subscription`: all that is held of s goes.
drop_subscription(s) ==
    /\ without(SlotsOf(s)) /\ counted_without(SlotsOf(s))
    /\ ready' = ready_without(s)

\* Whether an event tells of a path; a Rescan tells of all its subscription has.
Tells(e, k) == e.sub = k[1] /\ (e.kind = "Rescan" \/ k[2] \in {e.path, e.from})

\* The dominating Rescan the driver owes a subscription it sheds: later stamps
\* tie it at the least.
owed_rescan(s, p) ==
    /\ epoch[s] < MaxEpoch
    /\ epoch' = [epoch EXCEPT ![s] = @ + 1]
    /\ peak' = [peak EXCEPT ![s] = epoch[s] + 1]
    /\ Len(unread) < MaxUnread
    /\ unread' = Append(unread, [sub |-> s, path |-> p, from |-> p, kind |-> "Rescan",
                                 epoch |-> epoch[s] + 1])
    /\ seen' = {k \in seen : k[1] # s}

-----------------------------------------------------------------------------
(* `admit`.                                                                *)

now_ready(events) == Len(ready) < MaxReady /\ ready' = ready \o events

\* The bump of the sequence, taken before the slot is looked at.
bump_seq == next_seq < MaxAdmits /\ next_seq' = next_seq + 1

changed(s, p, kind) == exists' = [exists EXCEPT ![<<s, p>>] = kind # "Removed"]
reported(s, p, kind) ==
    /\ changed(s, p, kind)
    /\ stale' = [stale EXCEPT ![<<s, p>>] = TRUE]
    /\ UNCHANGED <<unread, view, peak>>

\* The changes a path can undergo where it stands; a Created may report an
\* object put over another.
happens(s, p, kind) ==
    /\ life[s] = "live"
    /\ exists[<<s, p>>] \/ kind = "Created"

\* Without a settling policy a change passes through.
AdmitThrough(s, p, kind) ==
    /\ happens(s, p, kind)
    /\ passes_through(s)
    /\ now_ready(<<[sub |-> s, path |-> p, from |-> p, kind |-> kind, epoch |-> epoch[s]]>>)
    /\ reported(s, p, kind) /\ seen' = seen \ {<<s, p>>}
    /\ out' = <<>>
    /\ UNCHANGED <<now, life, policies, buffer, deadlines, per_sub_len, next_seq, epoch>>

\* The coalescer-wide cap or the subscription's own.
at_cap(s) ==
    \/ Cardinality(DOMAIN buffer) >= structural_cap
    \/ per_sub_len[s] >= config(s).max_buffered

\* The first change of a path in its window.
AdmitFresh(s, p, kind) ==
    LET k == <<s, p>>
        entry == [kind |-> kind, epoch |-> epoch[s], first_seen |-> now,
                  emit_at |-> deadline(config(s), now, now), seq |-> next_seq]
    IN  /\ happens(s, p, kind)
        /\ ~passes_through(s)
        /\ k \notin DOMAIN buffer
        /\ ~at_cap(s)
        /\ buffer' = [j \in DOMAIN buffer \cup {k} |-> IF j = k THEN entry ELSE buffer[j]]
        /\ deadlines' = deadlines \cup {<<entry.emit_at, k>>}
        /\ per_sub_len' = [per_sub_len EXCEPT ![s] = @ + 1]
        /\ bump_seq
        /\ reported(s, p, kind)
        /\ seen' = IF kind = "Created" /\ exists[k] THEN seen \cup {k} ELSE seen
        /\ out' = <<>>
        /\ UNCHANGED <<now, life, policies, ready, epoch>>

\* A change that finds a cap reached is not held: the driver sheds the
\* subscription (`park_rescan`).
AdmitOverflow(s, p, kind) ==
    /\ happens(s, p, kind)
    /\ ~passes_through(s)
    /\ <<s, p>> \notin DOMAIN buffer
    /\ at_cap(s)
    /\ bump_seq
    /\ changed(s, p, kind) /\ stale' = [stale EXCEPT ![<<s, p>>] = TRUE]
    /\ drop_subscription(s) /\ owed_rescan(s, p)
    /\ out' = <<>>
    /\ UNCHANGED <<now, life, policies, view>>

\* A change of a path that is already held: it is folded in.
AdmitCollapse(s, p, kind) ==
    LET k == <<s, p>>
        entry == [kind |-> collapse(buffer[k].kind, kind), epoch |-> epoch[s],
                  first_seen |-> buffer[k].first_seen,
                  emit_at |-> deadline(config(s), buffer[k].first_seen, now),
                  seq |-> renewed_seq(k)]
    IN  /\ happens(s, p, kind)
        /\ k \in DOMAIN buffer
        /\ entry.kind # "annihilate"
        /\ buffer' = [buffer EXCEPT ![k] = entry]
        /\ deadlines' = (deadlines \ {<<buffer[k].emit_at, k>>}) \cup {<<entry.emit_at, k>>}
        /\ bump_seq
        /\ reported(s, p, kind)
        /\ out' = <<>>
        /\ UNCHANGED <<now, life, policies, per_sub_len, ready, epoch, seen>>

\* A Created that is removed within its window leaves nothing behind.
AdmitAnnihilate(s, p, kind) ==
    LET k == <<s, p>> IN
    /\ happens(s, p, kind)
    /\ k \in DOMAIN buffer
    /\ collapse(buffer[k].kind, kind) = "annihilate"
    /\ without({k}) /\ counted_without({k})
    /\ bump_seq
    /\ reported(s, p, kind)
    /\ out' = <<>>
    /\ UNCHANGED <<now, life, policies, ready, epoch, seen>>

\* `flush_subscription`: a whole move and a Rescan leave undelayed, behind all
\* that is held of the subscription.
flush_subscription(s, e) ==
    /\ life[s] = "live"
    /\ now_ready(Append(Sorted(SlotsOf(s)), e))
    /\ without(SlotsOf(s)) /\ counted_without(SlotsOf(s))
    /\ seen' = {k \in seen \ SlotsOf(s) : ~Tells(e, k)}
    /\ out' = <<>>
    /\ UNCHANGED <<now, life, policies, next_seq>>

AdmitMoved(s, from, to) ==
    /\ from # to /\ exists[<<s, from>>]
    /\ flush_subscription(s, [sub |-> s, path |-> to, from |-> from, kind |-> "Moved",
                              epoch |-> epoch[s]])
    /\ exists' = [exists EXCEPT ![<<s, from>>] = FALSE, ![<<s, to>>] = TRUE]
    /\ stale' = [stale EXCEPT ![<<s, from>>] = TRUE, ![<<s, to>>] = TRUE]
    /\ UNCHANGED <<epoch, unread, view, peak>>

\* A Rescan comes stamped above all its subscription was given before.
AdmitRescan(s, p) ==
    /\ epoch[s] < MaxEpoch
    /\ epoch' = [epoch EXCEPT ![s] = @ + 1]
    /\ flush_subscription(s, [sub |-> s, path |-> p, from |-> p, kind |-> "Rescan",
                              epoch |-> epoch[s] + 1])
    /\ UNCHANGED <<exists, unread, view, stale, peak>>

-----------------------------------------------------------------------------
(* Draining and dropping.                                                  *)

\* What is drained joins the channel.
handed_over(events) ==
    /\ Len(unread) < MaxUnread
    /\ out' = events
    /\ unread' = unread \o events
    /\ peak' = [s \in Sub |->
           LET epochs == {peak[s]} \cup {e.epoch : e \in {x \in Range(events) : x.sub = s}}
           IN  CHOOSE m \in epochs : \A o \in epochs : o <= m]
    /\ UNCHANGED <<exists, view, stale>>

\* `drain_ready`: the ready queue, then what the deadline index says is due.
DueSlots == {d[2] : d \in {x \in deadlines : x[1] <= now}}
Drain ==
    /\ ready # <<>> \/ DueSlots # {}
    /\ handed_over(ready \o Sorted(DueSlots))
    /\ ready' = <<>> /\ seen' = seen \ DueSlots
    /\ without(DueSlots) /\ counted_without(DueSlots)
    /\ UNCHANGED <<now, life, policies, next_seq, epoch>>

\* `flush_all`: the stream ends.
FlushAll ==
    /\ DOMAIN buffer # {}
    /\ handed_over(ready \o Sorted(DOMAIN buffer))
    /\ ready' = <<>> /\ seen' = seen \ DOMAIN buffer
    /\ buffer' = Empty /\ deadlines' = {}
    /\ per_sub_len' = [s \in Sub |-> 0]
    /\ UNCHANGED <<now, life, policies, next_seq, epoch>>

\* A subscription that stays live is shed, and a caller's release, which
\* forgets its policy too.
Shed(s, p) ==
    /\ life[s] = "live"
    /\ drop_subscription(s) /\ owed_rescan(s, p)
    /\ out' = <<>>
    /\ UNCHANGED <<now, life, policies, next_seq, exists, view, stale>>

\* Mutant: a release leaves what is buffered.
forget_subscription_buffered(s) ==
    /\ ready' = ready_without(s)
    /\ policies' = [t \in DOMAIN policies \ {s} |-> policies[t]]
    /\ UNCHANGED <<buffer, deadlines, per_sub_len>>

forget_subscription(s) ==
    /\ drop_subscription(s)
    /\ policies' = [t \in DOMAIN policies \ {s} |-> policies[t]]

Forget(s) ==
    /\ life[s] = "live"
    /\ life' = [life EXCEPT ![s] = "gone"]
    /\ forget_subscription(s)
    /\ out' = <<>>
    /\ UNCHANGED <<now, next_seq, epoch, world>>

\* The stamps move on without a Rescan to the subscription: the generation
\* of its root was raised by a loss outside its subtree.
EpochMoves(s) ==
    /\ life[s] = "live"
    /\ epoch[s] < MaxEpoch
    /\ epoch' = [epoch EXCEPT ![s] = @ + 1]
    /\ out' = <<>>
    /\ UNCHANGED <<now, life, cvars, world>>

\* `next_deadline` is the timer's target: time does not pass it undrained.
Tick ==
    /\ now < MaxTime
    /\ ready = <<>>
    /\ \A d \in deadlines : now < d[1]
    /\ now' = now + 1
    /\ out' = <<>>
    /\ UNCHANGED <<life, cvars, epoch, world>>

\* The consumer reads on, and makes of an event what it says: a Rescan and a
\* change of content have it look again.
Believes(e, k) ==
    CASE e.kind = "Rescan" -> exists[k]
      [] e.kind = "Moved"  -> k[2] = e.path
      [] OTHER             -> e.kind # "Removed"

Read ==
    LET e == Head(unread) IN
    /\ unread # <<>>
    /\ unread' = Tail(unread)
    /\ view' = [k \in Slot |-> IF Tells(e, k) THEN Believes(e, k) ELSE view[k]]
    /\ stale' = [k \in Slot |-> ~Tells(e, k) /\ stale[k]]
    /\ seen' = IF e.kind # "Rescan" THEN seen
               ELSE seen \cup {k \in SlotsOf(e.sub) : buffer[k].kind = "Created"}
    /\ out' = <<>>
    /\ UNCHANGED <<now, life, cvars, epoch, exists, peak>>

Next ==
    \/ \E s \in Sub, p \in Path, kind \in Lifecycle :
          \/ AdmitThrough(s, p, kind)
          \/ AdmitFresh(s, p, kind)
          \/ AdmitOverflow(s, p, kind)
          \/ AdmitCollapse(s, p, kind)
          \/ AdmitAnnihilate(s, p, kind)
    \/ \E s \in Sub, from, to \in Path : AdmitMoved(s, from, to)
    \/ \E s \in Sub, p \in Path : AdmitRescan(s, p) \/ Shed(s, p)
    \/ \E s \in Sub, policy \in {"Inherit", "Off", "Custom"} : SetPolicy(s, policy)
    \/ \E s \in Sub : Forget(s) \/ EpochMoves(s)
    \/ Drain \/ FlushAll \/ Tick \/ Read

Spec == Init /\ [][Next]_vars

-----------------------------------------------------------------------------
(* Properties.                                                             *)

\* Every variable keeps its type.
TypeOK ==
    /\ now \in Nat /\ next_seq \in Nat
    /\ life \in [Sub -> {"new", "live", "gone"}]
    /\ DOMAIN policies \subseteq Sub
    /\ \A s \in DOMAIN policies : policies[s] \in {"Off", "Custom"}
    /\ DOMAIN buffer \subseteq Slot
    /\ \A k \in DOMAIN buffer : buffer[k] \in Buffered
    /\ deadlines \subseteq Nat \X Slot
    /\ per_sub_len \in [Sub -> Nat]
    /\ Range(ready) \subseteq Event /\ Range(out) \subseteq Event
    /\ epoch \in [Sub -> Nat] /\ peak \in [Sub -> Nat]
    /\ exists \in [Slot -> BOOLEAN] /\ view \in [Slot -> BOOLEAN]
    /\ stale \in [Slot -> BOOLEAN] /\ seen \subseteq Slot /\ Range(unread) \subseteq Event

\* The deadline index names every held slot once, at its deadline, and the
\* counts behind the caps are exact: `debug_check_index` and the reconciling
\* assertions of every removal path never fire.
IndexExact ==
    /\ deadlines = {<<buffer[k].emit_at, k>> : k \in DOMAIN buffer}
    /\ \A s \in Sub : per_sub_len[s] = Cardinality(SlotsOf(s))

\* No burst is held past its cap, however often it is touched.
HoldBounded ==
    \A k \in DOMAIN buffer : now <= buffer[k].first_seen + config(k[1]).max_hold

\* A release leaves nothing of its subscription behind: no slot that would
\* settle later and eat into the shared cap, no event, no policy.
NothingOutlives ==
    \A s \in Sub :
        life[s] # "live" =>
            /\ s \notin DOMAIN policies /\ SlotsOf(s) = {}
            /\ \A e \in Range(ready) : e.sub # s

\* The buffer is sound: typed, bounded in time, exactly indexed, and empty of
\* what was released.
BufferSound == TypeOK /\ HoldBounded /\ IndexExact /\ NothingOutlives

\* Collapsing loses nothing a consumer needs, whenever it reads: of what is
\* there and not held it knows, with the newest content; and it believes in
\* nothing that is gone, but for a Created and a Removed that annihilated each
\* other where the consumer could know of an object from elsewhere, because the
\* Created reported one put over another or a Rescan was read meanwhile.
NetEffect ==
    ready = <<>> /\ unread = <<>> =>
        \A k \in {j \in Slot : life[j[1]] = "live"} \ DOMAIN buffer :
            /\ exists[k] => view[k] /\ ~stale[k]
            /\ view[k] => exists[k] \/ k \in seen

\* One drain hands over each subscription's events in epoch order.
DrainInOrder ==
    \A i, j \in DOMAIN out :
        i < j /\ out[i].sub = out[j].sub => out[i].epoch <= out[j].epoch

\* The epochs of a subscription never go backwards on its stream, from one
\* drain to the next either.
EpochsMonotone ==
    [][\A i \in DOMAIN out' : out'[i].epoch >= peak[out'[i].sub]]_vars

-----------------------------------------------------------------------------
(* The inductive invariant behind them.                                    *)

LivesTyped ==
    /\ now \in Nat /\ next_seq \in Nat
    /\ life \in [Sub -> {"new", "live", "gone"}]
    /\ DOMAIN policies \subseteq Sub
    /\ \A s \in DOMAIN policies : policies[s] \in {"Off", "Custom"}
    /\ epoch \in [Sub -> Nat]

WorldTyped ==
    /\ peak \in [Sub -> Nat]
    /\ exists \in [Slot -> BOOLEAN] /\ view \in [Slot -> BOOLEAN]
    /\ stale \in [Slot -> BOOLEAN] /\ seen \subseteq Slot /\ unread \in Seq(Event)

\* Finitely many slots are held, and the queues are sequences.
HeldTyped ==
    /\ DOMAIN buffer \subseteq Slot /\ IsFiniteSet(DOMAIN buffer)
    /\ \A k \in DOMAIN buffer : buffer[k] \in Buffered
    /\ per_sub_len \in [Sub -> Nat]

QueuesTyped == ready \in Seq(Event) /\ out \in Seq(Event)

\* No slot is scheduled past the cap of its burst.
CapScheduled == \A k \in DOMAIN buffer : buffer[k].emit_at <= buffer[k].first_seen + config(k[1]).max_hold

\* Only what settles is held.
OnlySettling == \A k \in DOMAIN buffer : ~passes_through(k[1])

\* The slots of a subscription are numbered by their last admission, and the
\* stamps of admissions never run backwards.
SeqOrdersEpochs ==
    /\ \A k \in DOMAIN buffer : buffer[k].seq < next_seq /\ buffer[k].epoch <= epoch[k[1]]
    /\ \A j, k \in DOMAIN buffer :
          j[1] = k[1] /\ j # k =>
              /\ buffer[j].seq # buffer[k].seq
              /\ buffer[j].seq < buffer[k].seq => buffer[j].epoch <= buffer[k].epoch

\* What is ready is in epoch order and leaves before what is held.
ReadyOrdered ==
    /\ \A i \in DOMAIN ready : ready[i].epoch <= epoch[ready[i].sub]
    /\ \A i, j \in DOMAIN ready :
          i < j /\ ready[i].sub = ready[j].sub => ready[i].epoch <= ready[j].epoch
    /\ \A i \in DOMAIN ready, k \in DOMAIN buffer :
          ready[i].sub = k[1] => ready[i].epoch <= buffer[k].epoch

IInv ==
    /\ LivesTyped /\ WorldTyped /\ HeldTyped /\ QueuesTyped
    /\ IndexExact /\ HoldBounded /\ NothingOutlives /\ CapScheduled
    /\ OnlySettling /\ SeqOrdersEpochs /\ ReadyOrdered /\ DrainInOrder

-----------------------------------------------------------------------------
(* The inductive invariant behind NetEffect.                               *)

\* What an event says of a path it tells of: a Rescan nothing, as it has the
\* consumer look for itself.
Says(e, k, there) ==
    \/ e.kind = "Rescan"
    \/ there = IF e.kind = "Moved" THEN k[2] = e.path ELSE e.kind # "Removed"

Silent(q, k) == \A i \in DOMAIN q : ~Tells(q[i], k)

\* The last word of q of a path, if it has one.
LastSays(q, k, there) ==
    \A i \in DOMAIN q :
        Tells(q[i], k) /\ (\A j \in DOMAIN q : Tells(q[j], k) => j <= i) => Says(q[i], k, there)

\* What is on its way to the consumer, and what one that hears q comes to
\* believe of a path.
OnTheWay == unread \o ready
ComesToBelieve(believed, q, k, there) ==
    /\ LastSays(q, k, there)
    /\ Silent(q, k) => believed = there

\* A held slot is in the state the world has; a held Created is news to the
\* consumer, unless it can know of the object from elsewhere.
HeldIsNews(k) ==
    /\ exists[k] = (buffer[k].kind # "Removed")
    /\ buffer[k].kind = "Created" /\ k \notin seen => ComesToBelieve(view[k], OnTheWay, k, FALSE)

\* What is not held is known, or will be.
RestIsKnown(k) ==
    /\ k \in seen => ~exists[k]
    /\ k \notin seen => ComesToBelieve(view[k], OnTheWay, k, exists[k])
    /\ exists[k] /\ Silent(OnTheWay, k) => ~stale[k]

Known(k) == IF k \in DOMAIN buffer THEN HeldIsNews(k) ELSE life[k[1]] # "gone" => RestIsKnown(k)
NetIInv == \A k \in Slot : Known(k)

=============================================================================

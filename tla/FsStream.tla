------------------------------ MODULE FsStream ------------------------------
(***************************************************************************)
(* The event stream of one watched root: the lag protocol of the           *)
(* filesystem crate's core (tributary-fs/src/core/mod.rs) that keeps a     *)
(* reader honest when the bounded event channel refuses an event, the last *)
(* Rescan a dead root still owes, the probes that watch the liveness of    *)
(* the root and its mounts, and the part of the driver                     *)
(* (tributary-fs/src/driver/mod.rs) that runs the core's effects.          *)
(*                                                                         *)
(* The driver alternates: it runs the core's effects one at a time until   *)
(* none is left, then takes one arm of its select, which enters the core   *)
(* once.  Readers and probe threads run beside it.                         *)
(*                                                                         *)
(* A path is a sequence of names; an event names one by the root it was    *)
(* emitted under and a location below that root.                           *)
(***************************************************************************)
EXTENDS Integers, Sequences, FiniteSets, SequencesExt, Keys, Lists

CONSTANTS
    Paths,                  \* where changes happen
    Root,                   \* the root asked for
    Wide,                   \* a root above it that it may be moved to
    Backends,               \* the backends a root may be served by
    EVENT_CAPACITY,         \* of the event channel
    MAX_LIVENESS_PROBES,    \* probes in flight: here of one root and of the streams it had before
    MaxChanges,             \* bound: changes and losses reported by the source
    MaxSwaps,               \* bound: replacements of the stream or of its root
    MaxTicks,               \* bound: liveness deadlines that pass
    MaxMishaps              \* bound: verdicts against the root, failures, shed batches, a reader leaving

ASSUME FsStreamAssumption ==
    /\ StartsWith(Root, Wide) /\ Root # Wide
    /\ \A p \in Paths : StartsWith(p, Wide)
    /\ Backends \subseteq {"inotify", "fanotify", "fsevents", "rdcw", "usn"}
    /\ {EVENT_CAPACITY, MAX_LIVENESS_PROBES} \subseteq Nat \ {0}
    /\ {MaxChanges, MaxSwaps, MaxTicks, MaxMishaps} \subseteq Nat

\* Paths are sequences of the names that occur in them.
Names == UNION {ToSet(p) : p \in Paths \cup {Root, Wide}}
ASSUME PathsAssumption == \A p \in Paths \cup {Root, Wide} : p \in Seq(Names)

VARIABLES
    core,       \* the scope's state in the core and the core's effects, see Init
    turn,       \* of the driver: "effects", "select"
    events,     \* the event channel
    probes,     \* LivenessProbes: the root's generation, what is in flight
    wanted,     \* the reader has neither unwatched the root nor gone away
    open,       \* the reader still holds its end of the channel
    stale,      \* history: the paths, or whole roots, that changed since the reader was told
    told,       \* history: the epoch of the last event read
    left        \* how much of each bound is left

vars == <<core, turn, events, probes, wanted, open, stale, told, left>>

None == [k |-> "none"]
IdleAttempt == [k |-> "idle"]
SpentAttempt == [k |-> "spent"]
InFlight(epoch) == [k |-> "inflight", epoch |-> epoch]

\* `on_watch_with`, once its SpawnStream effect has run.
Init ==
    /\ core = [alive |-> TRUE, spawned |-> FALSE, live |-> FALSE, backend |-> "none",
               root |-> Root, inc |-> 0, lag |-> "normal", parked |-> None, attempt |-> IdleAttempt,
               pending |-> FALSE, refresh_stale |-> FALSE, authoritative |-> FALSE,
               recovered |-> FALSE, report_owed |-> FALSE, deadline |-> FALSE,
               widen |-> "none", arming |-> FALSE,
               dying |-> None, effects |-> <<>>, epoch |-> 0]
    /\ turn = "effects" /\ events = <<>>
    /\ probes = [tag |-> 0, flight |-> {}]
    /\ wanted = TRUE /\ open = TRUE /\ stale = {} /\ told = 0
    /\ left = [changes |-> MaxChanges, swaps |-> MaxSwaps, ticks |-> MaxTicks, mishaps |-> MaxMishaps]

-----------------------------------------------------------------------------
(* Changes of the monitor and their way through the lag protocol.          *)

Emit(root, change) == [k |-> "emit", root |-> root, change |-> change]
IsEmit(e) == e.k = "emit"
IsRescanEmit(e) == e.k = "emit" /\ e.change.rescan

Push(c, e) == [c EXCEPT !.effects = Append(@, e)]
Purge(c, kind) == [c EXCEPT !.effects = Kept(@, {i \in DOMAIN @ : @[i].k # kind})]
purge_scope_emits(c) == Purge(c, "emit")

covering_merge(prev, newer) ==
    [newer EXCEPT !.loc = CommonPrefix(prev.loc, newer.loc)]

route_event(c, change) ==
    IF ~c.alive THEN IF c.dying = None THEN c ELSE Push(c, Emit(c.dying.root, change))
    ELSE IF ~c.live THEN c
    ELSE IF c.lag = "normal" THEN Push(c, Emit(c.root, change))
    ELSE IF ~change.rescan THEN c
    ELSE [c EXCEPT !.parked = IF @ = None THEN change ELSE covering_merge(@, change)]

\* The monitor's events: a change carries the epoch, a Rescan moves it on.
emit(c, loc) == route_event(c, [loc |-> loc, rescan |-> FALSE, epoch |-> c.epoch])
emit_rescan(c, loc) ==
    route_event([c EXCEPT !.epoch = @ + 1], [loc |-> loc, rescan |-> TRUE, epoch |-> c.epoch + 1])
on_overflow(c) == emit_rescan(c, <<>>)
report_loss(c) == emit_rescan(c, <<>>)

-----------------------------------------------------------------------------
(* The end of a scope.  Its last queued or parked Rescan is kept, with the *)
(* root it was emitted under, until the channel takes it.                  *)

LastRescan(c) ==
    LET at == {i \in DOMAIN c.effects : IsRescanEmit(c.effects[i])}
    IN  IF at = {} THEN 0 ELSE CHOOSE i \in at : \A j \in at : j <= i

Dying(root, change) == [k |-> "dying", root |-> root, change |-> change, attempt |-> IdleAttempt]

\* Mutant: a queued Rescan stays an ordinary effect and is lost when refused.
terminal_parked(c) == IF c.parked = None THEN None ELSE Dying(c.root, c.parked)

terminal(c) ==
    LET i == LastRescan(c)
        queued == c.effects[i]
        merged == IF queued.change.epoch > c.parked.epoch
                  THEN Dying(queued.root, covering_merge(c.parked, queued.change))
                  ELSE Dying(c.root, covering_merge(queued.change, c.parked))
    IN  CASE i # 0 /\ c.parked # None -> merged
          [] i # 0 /\ c.parked = None -> Dying(queued.root, queued.change)
          [] i = 0 /\ c.parked # None -> Dying(c.root, c.parked)
          [] OTHER -> None

\* `Action::Unwatch` of the root: the scope leaves the core's maps.
end_scope(c) ==
    [c EXCEPT !.alive = FALSE, !.live = FALSE, !.spawned = FALSE, !.lag = "normal",
              !.parked = None, !.attempt = IdleAttempt, !.pending = FALSE,
              !.refresh_stale = FALSE, !.authoritative = FALSE, !.recovered = FALSE,
              !.report_owed = FALSE, !.deadline = FALSE, !.widen = "none", !.arming = FALSE,
              !.backend = "none", !.dying = IF c.live THEN terminal(c) ELSE None,
              !.effects = Append(Kept(@, DOMAIN @ \ {LastRescan(c)}), [k |-> "teardown"])]

\* The root was moved away, deleted or lost its source: the reader is sent to
\* look once more, then the scope ends.
root_dies(c, removed) ==
    end_scope(emit_rescan(IF removed THEN emit(c, <<>>) ELSE c, <<>>))

-----------------------------------------------------------------------------
(* Liveness of the root: one refresh of its mounts at a time, asked for    *)
(* when trust in them is lost and when the deadline passes.                *)

IsRefresh(e) == e.k = "refresh"

\* `is_kernel_recursive` and `liveness_ticked` of the backend.
Descends(c) == c.backend = "inotify"
Ticked(c) == c.backend \in {"inotify", "fanotify"}

arm_refresh(c) ==
    IF c.pending THEN [c EXCEPT !.refresh_stale = TRUE]
    ELSE IF ~c.spawned THEN c
    ELSE Push([c EXCEPT !.pending = TRUE], [k |-> "refresh", inc |-> c.inc])

trust_lost(c) == arm_refresh([c EXCEPT !.authoritative = FALSE])

arm_liveness(c) == [c EXCEPT !.deadline = Ticked(c) /\ c.spawned]

on_refresh_declined(c, reason) ==
    LET timed == arm_liveness([c EXCEPT !.pending = FALSE])
        recover == ~c.recovered
        report == ~recover /\ c.live /\ ~c.report_owed
        noted == [timed EXCEPT !.recovered = TRUE,
                               !.report_owed = @ \/ (c.live /\ (recover \/ report))]
    IN  IF ~c.alive THEN c
        ELSE IF reason = "busy" THEN timed
        ELSE IF recover THEN on_overflow(purge_scope_emits(noted))
        ELSE IF report THEN report_loss(purge_scope_emits(noted))
        ELSE noted

\* What a probe finds: the root as it was, its mounts known in full, in part
\* or on another mount; another object there; nothing there.
Verdicts == {"known", "partial", "reframed", "moved", "missing"}
Deaths == {"moved", "missing"}

\* Whether an answer is heard that the root now lies on another mount.
Reframes(c, verdict) == verdict = "reframed" /\ Descends(c) /\ ~c.refresh_stale

on_mounts_refreshed(c, verdict) ==
    LET heard == [c EXCEPT !.recovered = FALSE, !.pending = FALSE]
        settled == [arm_liveness(heard) EXCEPT !.authoritative = verdict # "partial"]
    IN  IF ~c.alive THEN c
        ELSE IF verdict \in Deaths THEN root_dies(heard, verdict = "missing")
        ELSE IF c.refresh_stale THEN trust_lost([heard EXCEPT !.refresh_stale = FALSE])
        ELSE IF Reframes(c, verdict) THEN on_overflow(settled)
        ELSE settled

Tainted(w) == IF w = "none" THEN w ELSE "tainted"

on_root_overflow(c) ==
    IF ~c.alive THEN c
    ELSE on_overflow(trust_lost([c EXCEPT !.widen = Tainted(@)]))

-----------------------------------------------------------------------------
(* Birth and replacement of the stream.                                    *)

on_stream_spawned(c, backend) ==
    LET known == arm_refresh([c EXCEPT !.spawned = TRUE, !.backend = backend])
    IN  IF Descends(known) THEN [known EXCEPT !.arming = TRUE] ELSE [known EXCEPT !.live = TRUE]

on_watch_installed(c) ==
    [c EXCEPT !.live = TRUE, !.arming = FALSE, !.report_owed = IF c.live THEN @ ELSE FALSE]

on_root_replaced(c, root) ==
    LET fresh == [c EXCEPT !.inc = @ + 1, !.root = root, !.pending = FALSE,
                           !.refresh_stale = FALSE, !.widen = "none", !.authoritative = FALSE]
    IN  on_overflow(trust_lost(Purge(fresh, "refresh")))

\* A root is grown in place: no Rescan, so the parked one is made to speak for
\* the whole of the new root.
on_root_widened(c) ==
    LET grown == [c EXCEPT !.inc = @ + 1, !.root = Wide, !.pending = FALSE,
                           !.refresh_stale = FALSE, !.widen = "none",
                           !.parked = IF @ = None THEN None ELSE [@ EXCEPT !.loc = <<>>]]
    IN  arm_liveness(trust_lost(Purge(grown, "refresh")))

-----------------------------------------------------------------------------
(* Effects: the queue, then the parked Rescan, then that of a dead scope.  *)

poll_effect(c) ==
    IF c.effects # <<>>
    THEN [core |-> [c EXCEPT !.effects = Tail(@)], effect |-> Head(c.effects)]
    ELSE IF c.alive /\ c.parked # None /\ c.attempt.k = "idle"
    THEN [core |-> [c EXCEPT !.attempt = InFlight(c.parked.epoch)], effect |-> Emit(c.root, c.parked)]
    ELSE IF c.dying # None /\ c.dying.attempt.k = "idle"
    THEN [core |-> [c EXCEPT !.dying.attempt = InFlight(c.dying.change.epoch)],
          effect |-> Emit(c.dying.root, c.dying.change)]
    ELSE [core |-> c, effect |-> None]

\* Mutant: a refused event is forgotten, as if a later one would make up for it.
on_delivery_forgotten(c, accepted) ==
    IF c.alive /\ c.lag = "normal" THEN c
    ELSE IF accepted THEN [c EXCEPT !.lag = "normal", !.parked = None, !.attempt = IdleAttempt, !.dying = None]
    ELSE c

on_delivery(c, accepted) ==
    LET paid == [c EXCEPT !.report_owed = @ /\ ~accepted]
    IN  IF ~c.alive
        THEN IF c.dying = None \/ c.dying.attempt.k # "inflight" THEN c
             ELSE IF accepted THEN [c EXCEPT !.dying = None]
             ELSE [c EXCEPT !.dying.attempt = SpentAttempt]
        ELSE CASE c.lag = "normal" /\ accepted -> paid
               [] c.lag = "normal" /\ ~accepted ->
                    on_overflow(purge_scope_emits([c EXCEPT !.lag = "lagged", !.parked = None,
                                                            !.attempt = IdleAttempt]))
               [] c.lag = "lagged" /\ ~accepted -> [c EXCEPT !.attempt = SpentAttempt]
               [] c.lag = "lagged" /\ accepted ->
                    IF c.attempt = InFlight(c.parked.epoch)
                    THEN [paid EXCEPT !.lag = "normal", !.parked = None, !.attempt = IdleAttempt]
                    ELSE [paid EXCEPT !.attempt = IdleAttempt]

-----------------------------------------------------------------------------
(* The probes in flight, each with the generation it was claimed under and *)
(* the incarnation of the stream it was sent for.                          *)

forget_settled(pr) == IF pr.flight = {} THEN [pr EXCEPT !.tag = 0] ELSE pr

\* Mutant: the probes of the replaced stream stay current.
retire_generation_not(pr) == pr

retire_generation(pr) == forget_settled([pr EXCEPT !.tag = @ + 1])

claim(pr) ==
    IF \E f \in pr.flight : f.tag = pr.tag THEN "busy"
    ELSE IF Cardinality(pr.flight) >= MAX_LIVENESS_PROBES THEN "full" ELSE "ok"

retire(pr, f) == forget_settled([pr EXCEPT !.flight = @ \ {f}])

-----------------------------------------------------------------------------
(* The driver's turn: `execute_effects`, one effect at a time.             *)

Polled == poll_effect(core)
EffectTurn(kind) == turn = "effects" /\ Polled.effect.k = kind
Spend(what) == left[what] > 0 /\ left' = [left EXCEPT ![what] = @ - 1]

\* What the reader knows of p, or of the whole root at p, is no longer so.
Doubted(p) == IF wanted /\ core.live THEN stale \cup {p} ELSE stale

Deliver ==
    /\ EffectTurn("emit")
    /\ LET accepted == Len(events) < EVENT_CAPACITY
       IN  /\ core' = IF open THEN on_delivery(Polled.core, accepted) ELSE Polled.core
           /\ events' = IF open /\ accepted THEN Append(events, Polled.effect) ELSE events
    /\ UNCHANGED <<turn, probes, wanted, open, stale, told, left>>

RefreshMounts ==
    /\ EffectTurn("refresh")
    /\ LET c == Polled.core
           current == c.alive /\ c.inc = Polled.effect.inc
           verdict == claim(probes)
       IN  /\ core' = IF current /\ verdict # "ok" THEN on_refresh_declined(c, verdict) ELSE c
           /\ probes' = IF current /\ verdict = "ok"
                        THEN [probes EXCEPT !.flight = @ \cup {[tag |-> probes.tag, inc |-> c.inc]}]
                        ELSE probes
    /\ UNCHANGED <<turn, events, wanted, open, stale, told, left>>

TeardownStream ==
    /\ EffectTurn("teardown")
    /\ core' = Polled.core /\ probes' = retire_generation(probes)
    /\ UNCHANGED <<turn, events, wanted, open, stale, told, left>>

\* The effects are done; a control batch the queue has no room for is a loss.
EndEffects ==
    /\ EffectTurn("none")
    /\ turn' = "select"
    /\ \/ UNCHANGED <<core, left>>
       \/ Descends(core) /\ core.alive /\ core' = on_root_overflow(core) /\ Spend("mishaps")
    /\ stale' = IF core' = core THEN stale ELSE Doubted(core.root)
    /\ UNCHANGED <<events, probes, wanted, open, told>>

Effects == Deliver \/ RefreshMounts \/ TeardownStream \/ EndEffects

-----------------------------------------------------------------------------
(* One arm of the select.                                                  *)

Select == turn = "select" /\ turn' = "effects"
NoRead == UNCHANGED <<events, wanted, open, told>>
NoChange == NoRead /\ UNCHANGED stale

Watched(p) == core.live /\ StartsWith(p, core.root)
Below(p) == SubSeq(p, Len(core.root) + 1, Len(p))

Spawned ==
    /\ Select /\ core.alive /\ ~core.spawned
    /\ \/ \E b \in Backends : core' = on_stream_spawned(core, b) /\ UNCHANGED left
       \/ core' = root_dies(core, FALSE) /\ Spend("mishaps")
    /\ UNCHANGED probes /\ NoChange

Installed ==
    /\ Select /\ core.arming
    /\ \/ core' = on_watch_installed(core) /\ UNCHANGED left
       \/ core' = root_dies(core, FALSE) /\ Spend("mishaps")
    /\ UNCHANGED probes /\ NoChange

\* The source reports a change at p; that p and what is below it must be looked
\* at again; that it lost count of the changes.
Report(p, how(_)) ==
    /\ Select /\ Watched(p) /\ Spend("changes")
    /\ core' = how(core)
    /\ stale' = Doubted(p)
    /\ UNCHANGED probes /\ NoRead

Record(p) == Report(p, LAMBDA c : emit(c, Below(p)))
Located(p) == Report(p, LAMBDA c : emit_rescan(c, Below(p)))
Overflow(p) == Report(p, on_root_overflow)

\* `on_source_fatal`
Fatal ==
    /\ Select /\ core.live /\ Spend("mishaps")
    /\ core' = root_dies(core, FALSE) /\ stale' = Doubted(core.root)
    /\ UNCHANGED probes /\ NoRead

\* `on_unwatch`: the monitor says nothing, and the reader no longer cares.
Unwatch ==
    /\ Select /\ core.alive /\ wanted /\ wanted' = FALSE
    /\ core' = end_scope(core) /\ stale' = {}
    /\ UNCHANGED <<events, probes, open, told, left>>

BeginWiden ==
    /\ Select /\ Descends(core) /\ core.live /\ core.widen = "none" /\ core.root # Wide
    /\ Spend("swaps") /\ core' = [core EXCEPT !.widen = "clean"]
    /\ UNCHANGED probes /\ NoChange

\* `commit_widen`, or what the driver does when the arm failed or the window is
\* tainted: the window is closed and the stream replaced.
CommitWiden ==
    /\ Select /\ core.widen # "none"
    /\ IF core.widen = "clean"
       THEN core' = on_root_widened(core) /\ probes' = retire_generation(probes)
       ELSE core' = [core EXCEPT !.widen = "none"] /\ UNCHANGED probes
    /\ NoChange /\ UNCHANGED left

AbortWiden ==
    /\ Select /\ core.widen # "none"
    /\ core' = [core EXCEPT !.widen = "none"]
    /\ UNCHANGED <<probes, left>> /\ NoChange

\* `commit_replace`
Replace(root) ==
    /\ Select /\ core.live /\ core.widen = "none" /\ Spend("swaps")
    /\ StartsWith(core.root, root)
    /\ core' = on_root_replaced(core, root) /\ probes' = retire_generation(probes)
    /\ stale' = Doubted(root) /\ NoRead

\* `OpResult::MountsRefreshed`
Refreshed(f, verdict) ==
    /\ Select
    /\ probes' = retire(probes, f)
    /\ IF f.tag = probes.tag
       THEN /\ core' = on_mounts_refreshed(core, verdict)
            /\ IF verdict \in Deaths \cup {"reframed"} THEN Spend("mishaps") ELSE UNCHANGED left
            /\ stale' = IF verdict \in Deaths \/ Reframes(core, verdict)
                        THEN Doubted(core.root) ELSE stale
       ELSE UNCHANGED <<core, left, stale>>
    /\ NoRead

IsSpent(a) == a.k = "spent"
RetryDue == (core.alive /\ IsSpent(core.attempt)) \/ (core.dying # None /\ IsSpent(core.dying.attempt))

\* The deadlines the driver's timer is set for.
poll_timeout == [retry |-> RetryDue, tick |-> core.deadline]

Retried(c) ==
    [c EXCEPT !.attempt = IF IsSpent(@) THEN IdleAttempt ELSE @,
              !.dying = IF @ # None /\ IsSpent(@.attempt) THEN [@ EXCEPT !.attempt = IdleAttempt] ELSE @]

\* `on_timeout`
Retry ==
    /\ Select /\ poll_timeout.retry
    /\ core' = Retried(core)
    /\ UNCHANGED <<probes, left>> /\ NoChange

Tick ==
    /\ Select /\ poll_timeout.tick /\ Spend("ticks")
    /\ core' = arm_liveness(arm_refresh(core))
    /\ UNCHANGED probes /\ NoChange

\* The batch that held the control queue full answers: the driver's next turn
\* runs the effects the shed one left behind.
BatchDone ==
    /\ Select /\ core.effects # <<>>
    /\ UNCHANGED <<core, probes, left>> /\ NoChange

Arms ==
    \/ Spawned \/ Installed
    \/ \E p \in Paths : Record(p) \/ Located(p) \/ Overflow(p)
    \/ Fatal \/ Unwatch
    \/ BeginWiden \/ CommitWiden \/ AbortWiden \/ \E r \in {Root, Wide} : Replace(r)
    \/ \E f \in probes.flight, v \in Verdicts : Refreshed(f, v)
    \/ Retry \/ Tick \/ BatchDone

-----------------------------------------------------------------------------
(* The reader.                                                             *)

\* The paths an event speaks for.
Speaks(e, p) ==
    LET at == e.root \o e.change.loc
    IN  IF e.change.rescan THEN StartsWith(p, at) ELSE p = at

Read ==
    /\ open /\ events # <<>>
    /\ events' = Tail(events) /\ told' = Head(events).change.epoch
    /\ stale' = {p \in stale : ~Speaks(Head(events), p)}
    /\ UNCHANGED <<core, turn, probes, wanted, open, left>>

\* The reader's end of the channel is dropped.
Leave ==
    /\ open /\ Spend("mishaps")
    /\ open' = FALSE /\ wanted' = FALSE /\ events' = <<>> /\ stale' = {}
    /\ UNCHANGED <<core, turn, probes, told>>

Next == Effects \/ Arms \/ Read \/ Leave

\* The driver's task is polled, its timers fire, a control batch is answered in
\* the end, and the reader keeps reading.
Spec ==
    /\ Init /\ [][Next]_vars
    /\ WF_vars(Effects) /\ WF_vars(Retry) /\ WF_vars(BatchDone) /\ WF_vars(Read)

-----------------------------------------------------------------------------
(* What must hold.                                                         *)

Carriers ==
    ToSet(events) \cup {e \in ToSet(core.effects) : IsEmit(e)}
    \cup (IF core.parked = None THEN {} ELSE {Emit(core.root, core.parked)})
    \cup (IF core.dying = None THEN {} ELSE {Emit(core.dying.root, core.dying.change)})

\* A change the reader has not been told of is always on its way to it: in the
\* channel, in the core's queue, parked behind a full channel or held for a dead
\* scope, under the root and location that lead to it.
StaleIsCarried == \A p \in stale : \E e \in Carriers : Speaks(e, p)

\* The root's liveness is never left unwatched: a refresh the core waits for is
\* queued or out under the current generation, and when none is the deadline is set.
LivenessKept ==
    core.alive /\ core.spawned =>
        IF core.pending
        THEN \/ \E e \in ToSet(core.effects) : IsRefresh(e) /\ e.inc = core.inc
             \/ \E f \in probes.flight : f.tag = probes.tag
        ELSE Ticked(core) => core.deadline

\* A probe whose answer would be believed was sent for the stream there is now.
VerdictIsCurrent ==
    core.alive => \A f \in probes.flight : f.tag = probes.tag => f.inc = core.inc

\* The probes that watch the root's liveness are sound.
ProbesSound == LivenessKept /\ VerdictIsCurrent

\* The stream as its reader sees it.
Over == ~core.alive /\ core.dying = None /\ events = <<>> /\ ~\E e \in ToSet(core.effects) : IsEmit(e)

Contract == 
    INSTANCE StreamContract WITH Paths <- Paths \cup {Root, Wide}, owed <- stale, over <- Over

\* The lag protocol implements what a root promises its reader.
Implements == Contract!Spec

-----------------------------------------------------------------------------
(* The inductive invariant behind them.                                    *)

Known == Paths \cup {Root, Wide}
Change == [loc : Seq(Names), rescan : BOOLEAN, epoch : Nat]
Emission == [k : {"emit"}, root : {Root, Wide}, change : Change]
Effect == Emission \cup [k : {"refresh"}, inc : Nat] \cup [k : {"teardown"}]

CoreFields ==
    {"alive", "spawned", "live", "backend", "root", "inc", "lag", "parked", "attempt", "pending",
     "refresh_stale", "authoritative", "recovered", "report_owed", "deadline", "widen", "arming",
     "dying", "effects", "epoch"}

\* The parts of the core that others are compared with.
CoreTyped(c) ==
    /\ c = [x \in CoreFields |-> c[x]]
    /\ c.root \in {Root, Wide} /\ c.inc \in Nat /\ c.epoch \in Nat
    /\ c.effects \in Seq(Effect)
    /\ c.parked # None => c.parked \in Change
    /\ c.dying # None =>
          /\ c.dying = [x \in {"k", "root", "change", "attempt"} |-> c.dying[x]]
          /\ c.dying.root \in {Root, Wide} /\ c.dying.change \in Change

RestTyped ==
    /\ events \in Seq(Emission) /\ stale \subseteq Known /\ told \in Nat /\ wanted \in BOOLEAN
    /\ probes = [x \in {"tag", "flight"} |-> probes[x]]
    /\ probes.tag \in Nat /\ \A f \in probes.flight : f.tag \in Nat /\ f.tag <= probes.tag

Emits(q) == {i \in DOMAIN q : IsEmit(q[i])}
Rescans(q) == {i \in DOMAIN q : IsRescanEmit(q[i])}

\* The lag machine: behind a refused event everything waits in one Rescan of
\* the whole root.  A scope that is not live has emitted nothing.
Lagging(c) ==
    /\ c.alive =>
          \/ c.lag = "normal" /\ c.parked = None
          \/ /\ c.lag = "lagged" /\ c.live /\ Emits(c.effects) = {}
             /\ c.parked # None /\ c.parked.loc = <<>> /\ c.parked.rescan
    /\ c.alive /\ ~c.live => Emits(c.effects) = {}
    /\ c.alive => c.dying = None
    /\ c.live \/ c.arming => c.alive /\ c.spawned
    /\ c.widen # "none" => c.live

\* What the core emits is in the order of the epochs; the last Rescan, queued or
\* waiting, began the epoch there is.
Ordered(c) ==
    /\ \A i, j \in Emits(c.effects) : i < j => c.effects[i].change.epoch <= c.effects[j].change.epoch
    /\ \A i \in Emits(c.effects) : c.effects[i].change.epoch <= c.epoch
    /\ c.alive => \A i \in Rescans(c.effects) :
          (\A j \in Rescans(c.effects) : j <= i) => c.effects[i].change.epoch = c.epoch
    /\ c.parked # None => c.parked.epoch = c.epoch
    /\ c.dying # None => c.dying.change.epoch = c.epoch

\* No refresh is waited for before there is a stream, no deadline set after its
\* end, and no stream of a living scope torn down.
Armed(c) ==
    /\ c.alive /\ ~c.spawned => ~c.pending
    /\ c.deadline => c.alive
    /\ c.alive => \A i \in DOMAIN c.effects : c.effects[i].k # "teardown"

Sound(c) == CoreTyped(c) /\ Lagging(c) /\ Ordered(c) /\ Armed(c)

\* A reader that gave up is owed nothing, and what it is owed lies below the
\* root there is.
OwedBelow ==
    /\ ~open => ~wanted
    /\ ~wanted => stale = {}
    /\ core.alive /\ ~core.live => stale = {}
    /\ \A p \in stale : StartsWith(p, core.root)

\* Where a change waits in the core: of a root that ended nothing counts that
\* the channel may still refuse.
Waits(c, p) ==
    \/ c.alive /\ c.lag = "normal" /\ \E i \in Emits(c.effects) : Speaks(c.effects[i], p)
    \/ c.alive /\ c.lag = "lagged"
    \/ c.dying # None /\ Speaks(Emit(c.dying.root, c.dying.change), p)

Carried == \A p \in stale : Waits(core, p) \/ \E i \in DOMAIN events : Speaks(events[i], p)

\* Between turns nothing of a dead scope is on its way to a reader who listens.
Settled == open /\ core.dying # None => core.dying.attempt.k # "inflight"

\* The reader, the channel and the core are in the order of the epochs.
EpochsInOrder ==
    /\ \A i \in DOMAIN events : told <= events[i].change.epoch /\ events[i].change.epoch <= core.epoch
    /\ \A i, j \in DOMAIN events : i < j => events[i].change.epoch <= events[j].change.epoch
    /\ \A i \in DOMAIN events, j \in Emits(core.effects) :
          events[i].change.epoch <= core.effects[j].change.epoch
    /\ \A i \in Emits(core.effects) : told <= core.effects[i].change.epoch
    /\ told <= core.epoch

IInv ==
    /\ Sound(core) /\ RestTyped /\ OwedBelow
    /\ Carried /\ Settled /\ EpochsInOrder /\ ProbesSound

=============================================================================

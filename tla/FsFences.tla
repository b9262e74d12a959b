------------------------------ MODULE FsFences ------------------------------
(***************************************************************************)
(* The settle fences of one inotify root: `set_cover` and the answer it    *)
(* waits for, the ordering proofs ("cuts") a clean answer needs, the seal  *)
(* of a widened root's adopted directory, and the queue of control batches *)
(* that carries arms, disarms and proofs to the reader thread             *)
(* (tributary-fs: core/mod.rs, driver/mod.rs, os/linux/inotify/reader).    *)
(*                                                                         *)
(* The tree is a root, Top, and directories directly below it.  The        *)
(* monitor's part (tributary-proto) is kept to what coverage settles on:   *)
(* the arm or the listing each node waits for, an undecided entry, an      *)
(* adopted directory.  The driver alternates a turn -- run the core's      *)
(* effects, drain the source, ask for proofs, answer fences -- with one    *)
(* arm of its select; the kernel, the reader, the pool of blocking threads *)
(* and the callers run beside it.                                          *)
(***************************************************************************)
EXTENDS Integers, Sequences, FiniteSets, SequencesExt, FiniteSetsExt

CONSTANTS
    Dirs,                   \* the directories below the root
    Elsewhere,              \* other paths below the root that a cover may name
    MaxFences,              \* bound: `set_cover` calls whose caller waits
    CEILING,                \* MAX_QUEUED_CONTROL_REQUESTS
    BUDGET,                 \* batches of events the lane may hold
    MaxCovers,              \* bound: `set_cover` calls
    MaxChanges,             \* bound: changes the kernel records
    MaxMishaps              \* bound: losses, failures, undecided entries, callers that leave,
                            \* widenings and replacements of the root

Top == "top"

ASSUME FsFencesAssumption ==
    /\ Top \notin Dirs \cup Elsewhere /\ Dirs # {} /\ Dirs \cap Elsewhere = {}
    /\ {CEILING, BUDGET} \subseteq Nat \ {0}
    /\ {MaxFences, MaxCovers, MaxChanges, MaxMishaps} \subseteq Nat

VARIABLES
    d,          \* the driver and its core, with the control batches it submitted, see Init
    op_rx,      \* answers waiting for the driver
    pool,       \* listings under way
    tap,        \* the current lane: what the reader sent and the driver has not read
    kq,         \* the kernel's queue of the current inotify instance
    kw,         \* the nodes that instance watches
    reader,     \* the current lane's reader is "up" or "down"
    answers,    \* what each fence's caller was told
    owed,       \* history, per fence: the changes it must not be answered clean before
    seen,       \* history: the changes the core took in
    left        \* how much of each bound is left

vars == <<d, op_rx, pool, tap, kq, kw, reader, answers, owed, seen, left>>

Nodes == Dirs \cup {Top}
Fences == 1..MaxFences
None == [k |-> "none"]
NoRequest == [token |-> 0, reach |-> 0]
Unproven == -1
NoCover == {Top}        \* `applied_cover: None`: everything is covered

Node(st, att) == [st |-> st, att |-> att, reprove |-> FALSE, fresh |-> TRUE, dirty |-> FALSE]

\* A root whose bootstrap is over: everything below it is watched.
Init ==
    /\ d = [alive |-> TRUE, lane |-> 1, turn |-> "turn",
            node |-> [n \in Nodes |-> Node("live", 0)],
            stat |-> {}, loss |-> {}, descents |-> [n \in Dirs |-> "none"],
            holes |-> {}, bare |-> {}, bridge |-> {}, adopt |-> "none", serial |-> 0,
            applied |-> NoCover, floor |-> NoCover, entry |-> None, seal |-> None,
            effects |-> <<>>, enums |-> {}, untold |-> "no",
            queue |-> <<>>, latched |-> FALSE, inflight |-> 0, running |-> {}, folded |-> FALSE]
    /\ op_rx = <<>> /\ pool = {}
    /\ tap = <<>> /\ kq = <<>> /\ kw = Nodes /\ reader = "up"
    /\ answers = [f \in Fences |-> "unused"] /\ owed = [f \in Fences |-> {}] /\ seen = {}
    /\ left = [covers |-> MaxCovers, changes |-> MaxChanges, mishaps |-> MaxMishaps]

\* One mishap strikes at most one directory.
AtMostOne(S) == {{}} \cup {{x} : x \in S}

Spend(what) == left[what] > 0 /\ left' = [left EXCEPT ![what] = @ - 1]

-----------------------------------------------------------------------------
(* Tokens and attempts are unique in the code; here the smallest one that  *)
(* nothing names any more.                                                 *)

Smallest(used) == Min((1..(Cardinality(used) + 1)) \ used)

RequestsOf(batches) == UNION {ToSet(b.reqs) : b \in batches}
Queued(c) == ToSet(c.queue)
FreshAttempt(c, n) ==
    LET asked == ToSet(c.effects) \cup RequestsOf(Queued(c)) \cup RequestsOf(c.running)
    IN  Smallest({c.node[n].att} \cup {r.att : r \in {q \in asked : q.n = n}}
                 \cup {o.att : o \in {a \in ToSet(op_rx) : a.k = "ack" /\ a.n = n}})
FreshRead(c, n) ==
    Smallest({c.node[n].att} \cup {e.att : e \in {x \in c.enums \cup pool : x.n = n}})
FreshToken(c) ==
    Smallest({b.token : b \in Queued(c) \cup c.running}
             \cup {o.token : o \in {a \in ToSet(op_rx) : a.k = "done"}}
             \cup (IF c.entry = None THEN {} ELSE {c.entry.flight.token})
             \cup (IF c.seal = None THEN {} ELSE {c.seal.flight.token}))

-----------------------------------------------------------------------------
(* The fence entry of the scope, and its two proof latches.                *)

NewEntry == [pending |-> <<>>, lossy |-> FALSE, stood |-> FALSE, opened |-> 0,
             proven |-> Unproven, flight |-> NoRequest]
EntryOf(c) == IF c.entry = None THEN NewEntry ELSE c.entry

high_water(e) == IF e.pending = <<>> THEN 0 ELSE Last(e.pending).opened
mark_lossy(e) ==
    [e EXCEPT !.lossy = TRUE, !.pending = [i \in DOMAIN @ |-> [@[i] EXCEPT !.lossy = TRUE]]]
invalidate(e) == [e EXCEPT !.proven = Unproven, !.flight = NoRequest]

\* A mark of an older coverage-work epoch answers and proves nothing, and never
\* becomes current again: moving the epoch is forgetting the marks.
acquired_coverage_work(c) == IF c.entry = None THEN c ELSE [c EXCEPT !.entry = invalidate(@)]

cut_answers_for_any(e) == e.flight # NoRequest \/ e.proven # Unproven
cut_answers_for(e) == e.flight # NoRequest \/ e.proven >= high_water(e)
seal_answers_for(c) ==
    /\ c.seal # None /\ c.seal.lane = c.lane
    /\ c.seal.flight # NoRequest \/ c.seal.proven >= c.serial

prove(latch, token) ==
    IF latch.flight.token = token /\ token # 0
    THEN [latch EXCEPT !.proven = Max({@, latch.flight.reach}), !.flight = NoRequest]
    ELSE latch
prove_cut(c, token) == IF c.entry = None THEN c ELSE [c EXCEPT !.entry = prove(@, token)]
prove_adoption_cut(c, lane, token) ==
    IF c.seal = None \/ c.seal.lane # lane THEN c ELSE [c EXCEPT !.seal = prove(@, token)]

open_cover_fence(c, f) ==
    LET e == EntryOf(c)
    IN  [c EXCEPT !.entry = [e EXCEPT !.opened = @ + 1,
                                 !.pending = Append(@, [fence |-> f, lossy |-> e.lossy,
                                                        opened |-> e.opened + 1])]]

\* A Rescan the core emits on the root's stream degrades every open fence, and
\* the claim of a narrowed cover with it.
route_rescan(c) ==
    LET bare == c.applied = NoCover
    IN  [c EXCEPT !.entry = mark_lossy(EntryOf(c)),
                  !.untold = "queued", !.bridge = @ \cup {"lossy"},
                  !.applied = IF bare THEN @ ELSE {}, !.floor = IF bare THEN @ ELSE {}]

-----------------------------------------------------------------------------
(* The monitor: what coverage waits for.                                   *)

Counted == {"arming", "listing"}
rearm_settled(c) == \A n \in Nodes : c.node[n].st \notin Counted
coverage_settled(c) == rearm_settled(c) /\ c.adopt = "none"

\* A window that saw a loss and armed anything closes with one more Rescan.
settle_bridges(c) ==
    IF ~rearm_settled(c) THEN c
    ELSE [(IF c.bridge = {"lossy", "armed"} THEN route_rescan(c) ELSE c) EXCEPT !.bridge = {}]

Entering(c, n) == IF c.node[n].st \in Counted THEN c ELSE acquired_coverage_work(c)
queue_watch(c, n, reprove) ==
    LET att == FreshAttempt(c, n)
    IN  [Entering(c, n) EXCEPT !.node[n] = [Node("arming", att) EXCEPT !.reprove = reprove],
                               !.bridge = IF reprove THEN @ ELSE @ \cup {"armed"},
                               !.effects = Append(@, [op |-> "arm", n |-> n, att |-> att])]
queue_enumerate(c, n, reprove) ==
    LET att == FreshRead(c, n)
    IN  [Entering(c, n) EXCEPT !.node[n] = [Node("listing", att) EXCEPT !.reprove = reprove],
                               !.enums = @ \cup {[n |-> n, att |-> att]}]

\* One arm per node is outstanding: a node that waits for one is asked for no other.
start_reinstall(c, n) ==
    CASE c.node[n].st \in {"live", "listing"} -> queue_watch(c, n, TRUE)
      [] c.node[n].st = "arming" ->
            [c EXCEPT !.node[n] = [@ EXCEPT !.reprove = TRUE, !.fresh = @ /\ c.node[n].reprove]]
      [] OTHER -> c

inherit_rearm(c, n) ==
    CASE c.node[n].st = "live" -> queue_enumerate(c, n, FALSE)
      [] c.node[n].st = "listing" -> [c EXCEPT !.node[n].dirty = TRUE]
      [] OTHER -> c

drop_subtree(c, n) ==
    [c EXCEPT !.node[n] = Node("off", 0), !.descents[n] = "none",
              !.effects = Append(@, [op |-> "disarm", n |-> n, att |-> 0])]

\* `on_root_overflow`: the arms in flight are of before the loss.
on_root_overflow(c) ==
    IF ~c.alive THEN c
    ELSE LET old(n) == c.node[n].st = "arming" /\ c.node[n].reprove
             stale == [c EXCEPT !.node = [n \in Nodes |-> [@[n] EXCEPT !.fresh = @ /\ ~old(n)]]]
         IN  start_reinstall(route_rescan(stale), Top)

OverDirs(c, ds, Op(_, _)) == FoldSet(LAMBDA n, acc : Op(acc, n), c, ds)
adopt_entry(c, n, reprove) ==
    IF c.node[n].st = "off"
    THEN [queue_watch(c, n, FALSE) EXCEPT
             !.holes = @ \ {n}, !.bare = @ \ {n},
             !.bridge = IF n \in c.holes THEN {"lossy", "armed"} ELSE @ \cup {"armed"}]
    ELSE IF reprove THEN start_reinstall(c, n) ELSE inherit_rearm(c, n)

Children(n) == IF n = Top THEN Dirs ELSE {}

\* An entry of unknown kind is left to a stat, and what the listing owed a watch
\* that stands there waits with it.  Nothing covers an empty slot until then.
queue_stat(c, n, reprove) ==
    IF c.node[n].st = "off"
    THEN [c EXCEPT !.stat = @ \cup {n}, !.loss = @ \cup {n}, !.holes = @ \cup {n},
                   !.untold = IF @ = "no" THEN "owed" ELSE @]
    ELSE [c EXCEPT !.stat = @ \cup {n},
                   !.descents[n] = IF reprove \/ @ = "reprove" THEN "reprove" ELSE "rearm"]

\* A listing came back: `how` is "clean", "incomplete", "refuted" (the adopted
\* directory is not the one the widening named) or "unknown" for the entries us.
on_enumerate(c, n, att, how, us) ==
    LET node == c.node[n]
        live == [c EXCEPT !.node[n] = Node("live", 0)]
        below == OverDirs(live, Children(n) \ us, LAMBDA acc, x : adopt_entry(acc, x, node.reprove))
        told == route_rescan(below)
        undecided == OverDirs(below, us, LAMBDA acc, x : queue_stat(acc, x, node.reprove))
    IN  IF node.st # "listing" \/ node.att # att THEN c
        ELSE IF how = "incomplete" \/ node.dirty THEN queue_enumerate(told, n, node.reprove)
        ELSE IF n = Top /\ how = "refuted" THEN on_root_overflow([below EXCEPT !.adopt = "none"])
        ELSE IF n = Top /\ c.adopt = "marked"
        THEN settle_bridges([undecided EXCEPT !.adopt = "staged", !.serial = @ + 1])
        ELSE settle_bridges(undecided)

\* The stat of an undecided entry answers: a directory after all.
on_stat_result(c, n) ==
    LET told == [c EXCEPT !.stat = @ \ {n}, !.loss = @ \ {n}, !.descents[n] = "none"]
    IN  settle_bridges(IF c.node[n].st = "off" THEN adopt_entry(told, n, FALSE)
                       ELSE CASE c.descents[n] = "reprove" -> start_reinstall(told, n)
                              [] c.descents[n] = "rearm" -> inherit_rearm(told, n)
                              [] OTHER -> told)

-----------------------------------------------------------------------------
(* The scope's end, a new lane, and the fence's verdicts.                  *)

\* Everything the core and the control queue knew of the old watches is gone.
Forgotten(c) ==
    [c EXCEPT !.stat = {}, !.loss = {}, !.descents = [n \in Dirs |-> "none"],
              !.holes = {}, !.bare = {}, !.bridge = {}, !.adopt = "none",
              !.effects = <<>>, !.enums = {}, !.queue = <<>>, !.latched = FALSE]

\* The core's fold of a dead scope, and `PendingControl::drop_scope`.
scope_ends(c) ==
    [Forgotten(c) EXCEPT !.alive = FALSE, !.lane = 0, !.node = [n \in Nodes |-> Node("off", 0)],
                         !.entry = None, !.seal = None, !.untold = "no"]
PendingWhere(c, P(_)) == {p.fence : p \in {q \in ToSet(c.entry.pending) : P(q)}}
FencesOf(c) == IF c.entry = None THEN {} ELSE PendingWhere(c, LAMBDA p : TRUE)
Unreached(c) == PendingWhere(c, LAMBDA p : p.opened > c.entry.proven)
DeadAnswers(c) ==
    [f \in Fences |-> IF f \in FencesOf(c) /\ answers[f] = "open" THEN "Dead" ELSE answers[f]]

\* The answer to an arm.  One that bound a watch where none stood ends a dark window.
on_watch_installed(c, n, att, ok, new) ==
    LET node == c.node[n]
        bound == [c EXCEPT !.bridge = IF node.reprove /\ new THEN @ \cup {"armed"} ELSE @]
        failed == route_rescan(drop_subtree(c, n))
    IN  IF node.st # "arming" \/ node.att # att THEN c
        ELSE IF ~ok THEN settle_bridges([failed EXCEPT !.holes = @ \cup {n},
                                      !.bare = IF c.applied = NoCover THEN @ \cup {n} ELSE @])
        ELSE IF node.reprove /\ ~node.fresh THEN queue_watch(bound, n, TRUE)
        ELSE queue_enumerate(bound, n, node.reprove)
RootFails(c, n, att, ok) == n = Top /\ ~ok /\ c.node[n].st = "arming" /\ c.node[n].att = att

\* `on_set_cover`: what it prunes, what it grows, and what it remembers.
broadening_delta_watched(prev, new) == {}    \* every connecting ancestor is watched
broadening_delta(prev, new) == IF prev = NoCover THEN {} ELSE new \ prev
cover_meet(prev, new) == IF prev = NoCover THEN new ELSE prev \cap new

on_set_cover(c, retained) ==
    LET outside == {n \in Dirs \ retained : c.node[n].st # "off"}
        pruned == OverDirs(c, outside, drop_subtree)
        grown == broadening_delta(c.applied, retained)
        targets == IF \E n \in grown : n \in Elsewhere \/ pruned.node[n].st = "off"
                   THEN {Top} ELSE grown
        kicked == settle_bridges(OverDirs(pruned, targets, inherit_rearm))
        moved == outside # {} \/ targets # {}
        fence == IF moved THEN invalidate(EntryOf(kicked)) ELSE EntryOf(kicked)
    IN  [kicked EXCEPT !.entry = fence, !.applied = retained,
                       !.floor = cover_meet(c.floor, retained)]

\* `poll_cover_settlements`, and what its answers are.
Split(e) == Cardinality({i \in DOMAIN e.pending : e.pending[i].opened <= e.proven})
Certain(c, unspent) ==
    c.entry # None /\ coverage_settled(c) /\ ~unspent /\ c.entry.proven # Unproven
Observed(c) ==
    IF c.entry # None /\ coverage_settled(c) /\ c.loss # {}
    THEN [c EXCEPT !.entry = mark_lossy(@)] ELSE c
MustStand_never(c, unspent) == FALSE
MustStand(c, unspent) ==
    Certain(c, unspent) /\ ~c.entry.stood /\ c.loss # {} /\ Split(c.entry) > 0
stand_stat_cover(c) == [settle_bridges(route_rescan(c)) EXCEPT !.entry.stood = TRUE]
Resolving(c, unspent) ==
    IF Certain(c, unspent) /\ ~MustStand(c, unspent)
    THEN ToSet(SubSeq(c.entry.pending, 1, Split(c.entry))) ELSE {}
settle(c) ==
    LET rest == SubSeq(c.entry.pending, Split(c.entry) + 1, Len(c.entry.pending))
    IN  IF rest # <<>> THEN [c EXCEPT !.entry.pending = rest, !.entry.stood = FALSE]
        ELSE [c EXCEPT !.entry = None,
                       !.applied = IF c.entry.lossy THEN c.floor ELSE @,
                       !.floor = IF c.entry.lossy THEN @ ELSE c.applied]
poll_cover_settlements(c, unspent) ==
    IF MustStand(c, unspent) THEN stand_stat_cover(c)
    ELSE IF Certain(c, unspent) THEN settle(c) ELSE c
abandon_cover_fences(c) ==
    IF c.entry = None THEN c
    ELSE [c EXCEPT !.entry.pending = SelectSeq(@, LAMBDA p : answers[p.fence] = "open")]

-----------------------------------------------------------------------------
(* The queue of control batches.                                           *)

Batch(gen, reqs, token) ==
    [gen |-> gen, reqs |-> reqs, token |-> token, st |-> "sent", bad |-> {}, new |-> {}]
holds_queue(c) == c.inflight # 0 /\ c.inflight = c.lane
queued_requests(c) == FoldSeq(LAMBDA b, n : n + Len(b.reqs), 0, c.queue)

Pieces(reqs) ==
    [i \in 1..((Len(reqs) + CEILING - 1) \div CEILING) |->
        SubSeq(reqs, (i - 1) * CEILING + 1, Min({i * CEILING, Len(reqs)}))]
push_coalesced(queue, b) ==
    LET joins == /\ b.token = 0 /\ queue # <<>> /\ Last(queue).token = 0
                 /\ Last(queue).gen = b.gen /\ Len(Last(queue).reqs) < CEILING
        base == IF joins THEN Front(queue) ELSE queue
        reqs == IF joins THEN Last(queue).reqs \o b.reqs ELSE b.reqs
    IN  IF b.token # 0 THEN Append(queue, b)
        ELSE base \o [i \in DOMAIN Pieces(reqs) |-> Batch(b.gen, Pieces(reqs)[i], 0)]

queue_control_batch(c, reqs) ==
    IF c.latched THEN c
    ELSE IF holds_queue(c) /\ queued_requests(c) + Len(reqs) > CEILING
    THEN on_root_overflow([c EXCEPT !.queue = <<>>, !.latched = TRUE, !.folded = TRUE])
    ELSE [c EXCEPT !.queue = push_coalesced(@, Batch(c.lane, reqs, 0))]

queue_cut_proof(c, token) ==
    LET plain == SelectSeq(c.queue, LAMBDA b : b.token = 0)
        packed == FoldLeft(push_coalesced, <<>>, plain)
    IN  [c EXCEPT !.queue = Append(packed, Batch(c.lane, <<>>, token))]

\* The first batch is submitted, unless one of the current lane still runs.
kick_control_queue(c) ==
    IF holds_queue(c) \/ c.queue = <<>> THEN c
    ELSE [c EXCEPT !.queue = Tail(@), !.inflight = Head(c.queue).gen,
                   !.running = @ \cup {Head(c.queue)}]

\* The tail of `execute_effects`: the cohort it gathered becomes one batch.
execute_effects(c) ==
    LET flushed == [c EXCEPT !.effects = <<>>, !.enums = {},
                             !.untold = IF @ = "queued" THEN "no" ELSE @]
    IN  IF c.effects = <<>> THEN flushed ELSE queue_control_batch(flushed, c.effects)

-----------------------------------------------------------------------------
(* The lane: the transport's budget and its overflow signal.               *)

IsBatch(m) == m.k = "batch"
\* An elected overflow signal stands until it is read or a batch follows it.
overflow_pending(t) ==
    \E i \in DOMAIN t : t[i].k = "overflow" /\ \A j \in (i + 1)..Len(t) : ~IsBatch(t[j])
signal_loss(t) == IF overflow_pending(t) THEN t ELSE Append(t, [k |-> "overflow", ids |-> {}])
forward_batch(t, ids, lossy) ==
    LET room == Cardinality({i \in DOMAIN t : IsBatch(t[i])}) < BUDGET
        sent == IF ids # {} /\ room THEN Append(t, [k |-> "batch", ids |-> ids]) ELSE t
    IN  IF lossy \/ (ids # {} /\ ~room) THEN signal_loss(sent) ELSE sent

\* One read of the kernel's queue: a loss in it sheds what was read with it.
attribute_and_forward(t, records) ==
    LET lossy == \E i \in DOMAIN records : records[i] = 0
    IN  forward_batch(t, IF lossy THEN {} ELSE ToSet(records), lossy)

ingest(c, m) ==
    CASE m.k = "overflow" -> on_root_overflow(c)
      [] m.k = "fatal" -> IF c.alive THEN scope_ends(c) ELSE c
      [] OTHER -> c

-----------------------------------------------------------------------------
(* The driver's turn.                                                      *)

cover_settlement_due(c) == c.entry # None /\ coverage_settled(c)
adoption_seal_due(c) == /\ c.seal # None /\ c.seal.lane = c.lane /\ c.adopt = "staged"
                        /\ c.seal.proven >= c.serial
Drained(c, n) == FoldLeft(ingest, c, SubSeq(tap, 1, n))

resolve_adoption_seals(c, unspent) ==
    LET kept == IF c.adopt = "staged" THEN c ELSE [c EXCEPT !.seal = None]
    IN  IF adoption_seal_due(kept) /\ ~unspent THEN [kept EXCEPT !.adopt = "none"] ELSE kept

WantsCut(c) == c.alive /\ c.entry # None /\ coverage_settled(c) /\ ~cut_answers_for(c.entry)
WantsSeal(c) == c.alive /\ c.adopt = "staged" /\ ~seal_answers_for(c)
mark_cut_inflight(c, token) ==
    [c EXCEPT !.entry.flight = [token |-> token, reach |-> high_water(c.entry)]]
mark_adoption_cut_inflight(c, token) ==
    LET base == IF c.seal # None /\ c.seal.lane = c.lane THEN c.seal
                ELSE [lane |-> c.lane, proven |-> Unproven, flight |-> NoRequest]
    IN  [c EXCEPT !.seal = [base EXCEPT !.flight = [token |-> token, reach |-> c.serial]]]
AskCut(c) ==
    LET token == FreshToken(c) IN mark_cut_inflight(queue_cut_proof(c, token), token)
AskSeal(c) ==
    LET token == FreshToken(c) IN mark_adoption_cut_inflight(queue_cut_proof(c, token), token)

Carried(t) == UNION {t[i].ids : i \in DOMAIN t}
Open(f) == answers[f] = "open"
Owing(fs, ids) ==
    [f \in Fences |-> IF f \in fs /\ Open(f) THEN owed[f] \cup ids \cup (ToSet(kq) \ {0})
                      ELSE owed[f]]
Verdict(resolved, f, lossy) == \E p \in resolved : p.fence = f /\ p.lossy = lossy

Turn(n) ==
    /\ d.turn = "turn"
    /\ LET c0 == kick_control_queue(execute_effects(d))
           due == cover_settlement_due(c0) \/ adoption_seal_due(c0)
           c1 == Drained(c0, n)
           unspent == due /\ n < Len(tap)
           c2 == resolve_adoption_seals(c1, unspent)
           c3 == IF WantsCut(c2) THEN kick_control_queue(AskCut(c2)) ELSE c2
           c4 == IF WantsSeal(c3) THEN kick_control_queue(AskSeal(c3)) ELSE c3
           c5 == Observed(abandon_cover_fences(c4))
           resolved == Resolving(c5, unspent)
           rest == SubSeq(tap, n + 1, Len(tap))
       IN  /\ n = 0 \/ (due /\ n <= Len(tap))
           /\ d' = [poll_cover_settlements(c5, unspent) EXCEPT
                      !.turn = IF MustStand(c5, unspent) \/ (n > 0 /\ op_rx = <<>>)
                               THEN "turn" ELSE "select"]
           /\ pool' = pool \cup d.enums
           /\ tap' = rest
           /\ seen' = seen \cup Carried(SubSeq(tap, 1, n))
           /\ owed' = IF WantsCut(c2) THEN Owing(Unreached(c2), Carried(rest)) ELSE owed
           /\ answers' = IF d.alive /\ ~c1.alive THEN DeadAnswers(c0)
                         ELSE [f \in Fences |-> CASE Verdict(resolved, f, FALSE) -> "Applied"
                                                    [] Verdict(resolved, f, TRUE) -> "Degraded"
                                                    [] OTHER -> answers[f]]
    /\ UNCHANGED <<op_rx, kq, kw, reader, left>>

-----------------------------------------------------------------------------
(* The arms of the select.                                                 *)

Select == d.alive /\ d.turn = "select"
Then(c) == d' = [c EXCEPT !.turn = "turn"]
Ends(c) == Then(scope_ends(c)) /\ answers' = DeadAnswers(d)

\* `OpResult::WatchInstalled`.
WatchInstalled ==
    /\ Select /\ op_rx # <<>> /\ Head(op_rx).k = "ack" /\ op_rx' = Tail(op_rx)
    /\ LET o == Head(op_rx)
       IN  IF o.gen = d.lane /\ RootFails(d, o.n, o.att, o.ok) THEN Ends(d)
           ELSE /\ Then(IF o.gen # d.lane THEN d
                        ELSE on_watch_installed(d, o.n, o.att, o.ok, o.new))
                /\ UNCHANGED answers
    /\ UNCHANGED <<pool, tap, kq, kw, reader, owed, seen, left>>

\* `OpResult::ControlBatchDone`.
Released(c, o) ==
    LET holds == c.inflight = o.gen
        freed == IF holds THEN [c EXCEPT !.inflight = 0, !.latched = FALSE] ELSE c
        proved == IF o.end = "answered"
                  THEN prove_adoption_cut(prove_cut(freed, o.token), o.gen, o.token) ELSE freed
        derived == IF c.latched THEN on_root_overflow(proved) ELSE proved
    IN  IF holds THEN kick_control_queue(derived) ELSE c

ControlBatchDone ==
    /\ Select /\ op_rx # <<>> /\ Head(op_rx).k = "done" /\ op_rx' = Tail(op_rx)
    /\ LET o == Head(op_rx)
       IN  IF o.end = "unwound" \/ (o.end = "unanswered" /\ o.gen = d.lane) THEN Ends(d)
           ELSE Then(Released(d, o)) /\ UNCHANGED answers
    /\ UNCHANGED <<pool, tap, kq, kw, reader, owed, seen, left>>

\* A listing of the pool is answered.
Enumerated(e, how, us) ==
    /\ Select /\ e \in pool /\ pool' = pool \ {e}
    /\ how = "refuted" => e.n = Top /\ d.adopt # "none"
    /\ us # {} => e.n = Top /\ how = "clean"
    /\ IF how = "clean" /\ us = {} THEN UNCHANGED left ELSE Spend("mishaps")
    /\ Then(on_enumerate(d, e.n, e.att, how, us))
    /\ UNCHANGED <<op_rx, tap, kq, kw, reader, answers, owed, seen>>

StatAnswered(n) ==
    /\ Select /\ n \in d.stat
    /\ Then(on_stat_result(d, n))
    /\ UNCHANGED <<op_rx, pool, tap, kq, kw, reader, answers, owed, seen, left>>

\* One item of the source.
SourceItem ==
    /\ Select /\ tap # <<>> /\ tap' = Tail(tap)
    /\ seen' = seen \cup Head(tap).ids
    /\ Then(ingest(d, Head(tap)))
    /\ answers' = IF Head(tap).k = "fatal" THEN DeadAnswers(d) ELSE answers
    /\ UNCHANGED <<op_rx, pool, kq, kw, reader, owed, left>>

\* `Command::SetCover`, with a reply (f is the fence it opens) or without one.
SetCover(retained, awaited) ==
    LET f == 1 + Cardinality({x \in Fences : answers[x] # "unused"})
        c == on_set_cover(d, retained)
    IN  /\ Select /\ Spend("covers") /\ (awaited => f \in Fences)
        /\ Then(IF awaited THEN open_cover_fence(c, f) ELSE c)
        /\ answers' = IF awaited THEN [answers EXCEPT ![f] = "open"] ELSE answers
        /\ owed' = IF ~awaited THEN owed
                   ELSE [owed EXCEPT ![f] = Carried(tap) \cup (ToSet(kq) \ {0})]
        /\ UNCHANGED <<op_rx, pool, tap, kq, kw, reader, seen>>

\* A widening on the same transport: a directory of it is adopted unread.
Widen ==
    /\ Select /\ d.adopt = "none" /\ d.node[Top].st = "live" /\ Spend("mishaps")
    /\ Then(queue_enumerate([d EXCEPT !.adopt = "marked"], Top, FALSE))
    /\ UNCHANGED <<op_rx, pool, tap, kq, kw, reader, answers, owed, seen>>

\* The commit of a replacement: a new lane, whose tree is armed from its root.
on_root_replaced(c) ==
    LET armed == [n \in Nodes |-> Node(IF n = Top THEN "live" ELSE "off", 0)]
        fresh == [Forgotten(c) EXCEPT !.lane = @ + 1, !.node = armed]
    IN  on_root_overflow(fresh)
Replace ==
    /\ Select /\ Spend("mishaps") /\ Then(on_root_replaced(d))
    /\ tap' = <<>> /\ kq' = <<>> /\ kw' = {Top} /\ reader' = "up" /\ pool' = {}
    /\ owed' = [f \in Fences |-> {}]
    /\ UNCHANGED <<op_rx, answers, seen>>

Arms ==
    \/ WatchInstalled \/ ControlBatchDone \/ SourceItem \/ Widen \/ Replace
    \/ \E e \in pool, us \in AtMostOne(Dirs), how \in {"clean", "incomplete", "refuted"} :
            Enumerated(e, how, us)
    \/ \E n \in Dirs : StatAnswered(n)
    \/ \E retained \in SUBSET (Dirs \cup Elsewhere) \ {{}}, awaited \in BOOLEAN :
            SetCover(retained, awaited)

\* A caller stops waiting.
Abandon(f) ==
    /\ Open(f) /\ Spend("mishaps") /\ answers' = [answers EXCEPT ![f] = "dropped"]
    /\ UNCHANGED <<d, op_rx, pool, tap, kq, kw, reader, owed, seen>>

-----------------------------------------------------------------------------
(* The kernel and the reader thread of the current lane.                   *)

\* A change below a watched node is recorded; one that overflows the queue
\* leaves a mark, and may take the record of a watch's end with it.
Change(n) ==
    /\ d.alive /\ n \in kw /\ Spend("changes") /\ kq' = Append(kq, left.changes)
    /\ UNCHANGED <<d, op_rx, pool, tap, kw, reader, answers, owed, seen>>
Overflow(gone) ==
    /\ d.alive /\ Spend("mishaps") /\ kq' = Append(kq, 0) /\ kw' = kw \ gone
    /\ UNCHANGED <<d, op_rx, pool, tap, reader, answers, owed, seen>>

Serves == d.alive /\ reader = "up"
Read ==
    /\ Serves /\ kq # <<>> /\ kq' = <<>> /\ tap' = attribute_and_forward(tap, kq)
    /\ UNCHANGED <<d, op_rx, pool, kw, reader, answers, owed, seen, left>>

OfLane(b) == Serves /\ b \in d.running /\ b.gen = d.lane

\* `execute_batch`: the arms that fail are bad ones.
execute_batch(b, bad) ==
    /\ OfLane(b) /\ b.st = "sent" /\ bad \subseteq {r \in ToSet(b.reqs) : r.op = "arm"}
    /\ IF bad = {} THEN UNCHANGED left ELSE Spend("mishaps")
    /\ kw' = FoldLeft(LAMBDA w, r : IF r.op = "disarm" THEN w \ {r.n}
                                    ELSE IF r \in bad THEN w ELSE w \cup {r.n}, kw, b.reqs)
    /\ d' = [d EXCEPT !.running = (@ \ {b}) \cup {[b EXCEPT !.st = "executed", !.bad = bad,
                  !.new = {r \in ToSet(b.reqs) \ bad : r.op = "arm" /\ r.n \notin kw}]}]
    /\ UNCHANGED <<op_rx, pool, tap, kq, reader, answers, owed, seen>>

\* `ControlAnswer::resolve`: the arms' outcomes, then the end of the batch.
Answer(b, good, end) ==
    LET arms == SelectSeq(b.reqs, LAMBDA r : r.op = "arm")
        ack(r) == [k |-> "ack", n |-> r.n, att |-> r.att, ok |-> r \in good, new |-> r \in b.new,
                   gen |-> b.gen]
    IN  op_rx \o [i \in DOMAIN arms |-> ack(arms[i])]
              \o <<[k |-> "done", gen |-> b.gen, token |-> b.token, end |-> end]>>
Finish(b) == d' = [d EXCEPT !.running = @ \ {b}]
Answered(b) == Finish(b) /\ op_rx' = Answer(b, ToSet(b.reqs) \ b.bad, "answered")

CutKernelQueue_unread(b) ==
    /\ OfLane(b) /\ b.st = "executed" /\ Answered(b)
    /\ UNCHANGED <<pool, tap, kq, kw, reader, answers, owed, seen, left>>
\* `cut_kernel_queue`: everything the kernel holds goes to the lane before the
\* answer; a queue that will not end is given up with its instance.
CutKernelQueue(b) ==
    /\ OfLane(b) /\ b.st = "executed" /\ Answered(b)
    /\ kq' = <<>> /\ tap' = attribute_and_forward(tap, kq)
    /\ UNCHANGED <<pool, kw, reader, answers, owed, seen, left>>
RetireUnprovableCut(b) ==
    /\ OfLane(b) /\ b.st = "executed" /\ Answered(b) /\ Spend("mishaps")
    /\ kq' = <<>> /\ kw' = {} /\ tap' = signal_loss(attribute_and_forward(tap, kq))
    /\ UNCHANGED <<pool, reader, answers, owed, seen>>

\* A reader that stopped, or that a replacement shut down, refuses every arm;
\* one shut down inside a batch still answers it, without the cut.
RefuseBatch(b, end) ==
    /\ d.alive /\ b \in d.running /\ (reader = "down" \/ b.gen # d.lane)
    /\ end = "answered" => b.gen # d.lane
    /\ Finish(b) /\ op_rx' = Answer(b, {}, end)
    /\ UNCHANGED <<pool, tap, kq, kw, reader, answers, owed, seen, left>>

\* The thread that runs a batch unwinds.
Unwinds(b) ==
    /\ d.alive /\ b \in d.running /\ Spend("mishaps") /\ Finish(b)
    /\ op_rx' = Append(op_rx, [k |-> "done", gen |-> b.gen, token |-> b.token, end |-> "unwound"])
    /\ UNCHANGED <<pool, tap, kq, kw, reader, answers, owed, seen>>

\* A read fails for good: the lane ends with a fatal item.
ReaderDies ==
    /\ Serves /\ Spend("mishaps") /\ reader' = "down"
    /\ tap' = Append(tap, [k |-> "fatal", ids |-> {}])
    /\ UNCHANGED <<d, op_rx, pool, kq, kw, answers, owed, seen>>

BatchStep(b) ==
    \/ \E bad \in AtMostOne(ToSet(b.reqs)) : execute_batch(b, bad)
    \/ CutKernelQueue(b) \/ RetireUnprovableCut(b) \/ Unwinds(b)
    \/ \E end \in {"answered", "unanswered"} : RefuseBatch(b, end)

Outside ==
    \/ Read \/ ReaderDies
    \/ \E n \in Nodes : Change(n)
    \/ \E gone \in AtMostOne(Dirs) : Overflow(gone)
    \/ \E f \in Fences : Abandon(f)

Next ==
    \/ \E n \in 0..Len(tap) : d.alive /\ Turn(n)
    \/ Arms
    \/ \E b \in d.running : BatchStep(b)
    \/ Outside

Spec == Init /\ [][Next]_vars

-----------------------------------------------------------------------------

\* A fence answered clean is told so only after everything the kernel held when
\* it was opened, or when its proof was asked for, has been taken in: a change
\* still in the lane, or shed with no loss heard, is never behind an `Applied`.
AppliedIsTrue == \A f \in Fences : answers[f] = "Applied" => owed[f] \subseteq seen

LossUnread == 0 \in ToSet(kq) \/ \E i \in DOMAIN tap : tap[i].k # "batch"

\* The cover the core believes in is watched by the kernel, once nothing is
\* under way: no grow trusts a directory that a loss, a prune, a failed arm or a
\* replaced instance left unwatched.
CoverIsWatched ==
    d.alive /\ coverage_settled(d) /\ d.entry = None /\ d.effects = <<>>
        /\ d.applied # NoCover /\ reader = "up"
    => d.applied \cap Dirs \subseteq kw \cup d.stat \cup d.bare \/ LossUnread

\* A fence is answered clean only over a cover that the kernel watches, entries
\* a stat has yet to decide aside: what `CoverOutcome::Applied` says of the
\* writes made from the answer on.
AppliedIsWatched ==
    [][\A f \in Fences : Open(f) /\ answers'[f] = "Applied"
            => d.applied \cap Dirs \subseteq kw \cup d.stat \/ LossUnread]_vars

\* A fence is answered degraded only once the Rescan that covers its loss has
\* left the core.
DegradedIsTold ==
    [][\A f \in Fences : Open(f) /\ answers'[f] = "Degraded" => d.untold # "owed"]_vars

\* What a latch waits for is on its way.
TokensOut(c) == {b.token : b \in Queued(c) \cup c.running}
                \cup {o.token : o \in {a \in ToSet(op_rx) : a.k = "done"}}
LatchIsCarried ==
    d.entry # None /\ d.entry.flight # NoRequest => d.entry.flight.token \in TokensOut(d)

\* With nothing under way, no caller is left waiting.
Quiet == /\ d.alive /\ d.turn = "select" /\ op_rx = <<>> /\ pool = {} /\ tap = <<>>
         /\ d.running = {} /\ d.stat = {}
QuietMeansAnswered == Quiet /\ ~d.folded => \A f \in Fences : ~Open(f)

\* No fence hangs on a proof that nothing carries, or on nothing at all.
NoFenceHangs == LatchIsCarried /\ QuietMeansAnswered

\* An arm the monitor waits for is on its way: what a full control queue drops
\* is asked for again.
ArmingIsCarried ==
    d.alive /\ op_rx = <<>> /\ reader = "up" /\ ~d.latched =>
        LET asked == ToSet(d.effects) \cup RequestsOf(Queued(d)) \cup RequestsOf(d.running)
        IN  \A n \in {x \in Nodes : d.node[x].st = "arming"} :
                \E r \in asked : r.n = n /\ r.att = d.node[n].att

=============================================================================

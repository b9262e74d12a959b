----------------------------- MODULE FsCookies -----------------------------
(***************************************************************************)
(* The sync barrier of the filesystem crate: `sync_root` writes a marker   *)
(* file under a watched root once the root's coverage has settled, and the *)
(* caller looks for the marker in the event stream.  The driver keeps one  *)
(* obligation per marker in a ledger until the file is known to be gone    *)
(* (tributary-fs/src/driver/mod.rs, and the barrier moves of core/mod.rs). *)
(*                                                                         *)
(* Write and unlink jobs run on the pool of blocking threads and share the *)
(* ledger with the driver and with callers that ask for a removal; a step  *)
(* is one section under the ledger's lock, or one call of the filesystem.  *)
(* The driver goes round: flush barrier moves and effects, sweep, settle   *)
(* fences, select.                                                         *)
(*                                                                         *)
(* A call owns its ticket, its marker's name and the record's id.  A root  *)
(* has a top directory and directories below it.  When a fence settles is  *)
(* left open (FsFences); so is whether a directory is covered.             *)
(***************************************************************************)
EXTENDS Integers, Sequences, FiniteSets, SequencesExt, FiniteSetsExt, Keys

CONSTANTS
    Calls,                          \* of sync_root
    Scopes,                         \* watched roots
    Below,                          \* the directories below a root's top
    MAX_BARRIER_MOVES_PER_SCOPE,
    cookie_retry_budget, cookie_backlog_cap, cookie_global_cap,
    Grounds,                        \* the directories that calls name
    MaxMishaps,                     \* bound: moves, renames, replacements, ended roots, marks
                                    \* and callers that leave
    MaxFailures                     \* bound: removals that fail before the driver ends

Top == "top"

ASSUME FsCookiesAssumption ==
    /\ Top \notin Below /\ Scopes # {}
    /\ {MAX_BARRIER_MOVES_PER_SCOPE, cookie_backlog_cap, cookie_global_cap} \subseteq Nat \ {0}
    /\ {cookie_retry_budget, MaxMishaps, MaxFailures} \subseteq Nat
    /\ Grounds \subseteq Below \cup {Top}

VARIABLES
    d,          \* the driver and its core, see Init
    ledger,     \* id -> Obligation
    released,   \* released_markers
    reg,        \* what guards share: shutdown, retiring scopes, generations
    wake,       \* the cleanup wake, a channel of one slot
    op,         \* ids whose write or unlink job reported to the driver
    jobs,       \* id -> its write job
    unlinks,    \* id -> what its unlink job removes
    detached,   \* id -> what the dropped registry still tries to remove
    disk,       \* id -> what of the marker is on disk: "none", "file", "dir"
    lane,       \* markers whose creation the source has recorded
    calls,      \* id -> how the call stands, and for which directory
    told,       \* history: what the reader of the events saw
    left        \* how much of each bound is left

vars == <<d, ledger, released, reg, wake, op, jobs, unlinks, detached, disk, lane, calls, told, left>>
threads == <<jobs, unlinks, detached, disk>>

Dirs == Below \cup {Top}
Empty == [id \in {} |-> {}]
Untold == [seen |-> {}, moved |-> {}, spoken |-> {}, early |-> {}]
NoJob == [st |-> "none", gen |-> 0, end |-> "none"]

\* A record as `admit_parked` makes it.
Obligation(s, dir) ==
    [scope |-> s, dir |-> dir, res |-> "none", reap |-> FALSE, dom |-> FALSE,
     phase |-> "parked", att |-> 0, retry |-> "none"]

Init ==
    /\ d = [pc |-> "select", live |-> Scopes, moves |-> <<>>, effects |-> <<>>, markers |-> {},
            parked |-> {}, settled |-> {}, reported |-> -1]
    /\ ledger = Empty /\ released = {} /\ wake = FALSE /\ op = {} /\ lane = {}
    /\ reg = [shutdown |-> FALSE, retiring |-> {}, gen |-> [s \in Scopes |-> 0]]
    /\ jobs = [id \in Calls |-> NoJob] /\ unlinks = Empty /\ detached = Empty
    /\ disk = [id \in Calls |-> "none"]
    /\ calls = [id \in Calls |-> [st |-> "idle", asked |-> FALSE, scope |-> CHOOSE s \in Scopes : TRUE, dir |-> Top]]
    /\ told = Untold
    /\ left = [mishaps |-> MaxMishaps, failures |-> MaxFailures]

Mishap == left.mishaps > 0 /\ left' = [left EXCEPT !.mishaps = @ - 1]
Failure == left.failures > 0 /\ left' = [left EXCEPT !.failures = @ - 1]

-----------------------------------------------------------------------------
(* The ledger.                                                             *)

In(L, s) == {id \in DOMAIN L : L[id].scope = s}

\* `removal_decision_locked`: what a request may send to the pool.
Removable(ob, req) ==
    /\ ob.res # "none"
    /\ \/ ob.phase = "owned" /\ req = "Targeted"
       \/ ob.phase = "failed" /\ (req = "RetryDue" \/ ob.retry = "none")

request_removal(L, S, req) ==
    [id \in DOMAIN L |->
        IF id \in S /\ Removable(L[id], req)
        THEN [L[id] EXCEPT !.phase = "removing", !.retry = "none", !.att = IF req = "RetryDue" THEN @ ELSE 0]
        ELSE L[id]]

\* `spawn_unlink`: the jobs of the records a driver step moved to removing.
Spawned(L) ==
    unlinks @@ [id \in {i \in DOMAIN L : L[i].phase = "removing" /\ ledger[i].phase # "removing"} |-> L[id].res]

record_remove_failed(ob, res) ==
    [ob EXCEPT !.res = res, !.phase = "failed", !.att = @ + 1, !.retry = "none"]

\* Mutant: a mark is cleared whether or not it sends its record.
sweep_reap_marks_clearing(L) ==
    LET S == {id \in DOMAIN L : L[id].reap}
        R == request_removal(L, S, "Targeted")
    IN  [id \in DOMAIN L |-> [R[id] EXCEPT !.reap = FALSE]]

\* A mark is cleared only when it sends its record to the pool.
sweep_reap_marks(L) ==
    LET S == {id \in DOMAIN L : L[id].reap /\ Removable(L[id], "Targeted")}
        R == request_removal(L, S, "Targeted")
    IN  [id \in DOMAIN L |-> [R[id] EXCEPT !.reap = @ /\ id \notin S]]

schedule_retry(ob) ==
    IF ob.phase # "failed" \/ ob.retry # "none" THEN ob
    ELSE IF ob.att <= cookie_retry_budget THEN [ob EXCEPT !.retry = "later"]
    ELSE IF ob.reap THEN [ob EXCEPT !.reap = FALSE, !.att = 0, !.retry = "due"]
    ELSE ob

\* Callers that still wait hear the answer.
Answered(S, answer) ==
    [id \in Calls |-> IF id \in S /\ calls[id].st = "waiting" THEN [calls[id] EXCEPT !.st = answer] ELSE calls[id]]

-----------------------------------------------------------------------------
(* Barrier moves.                                                          *)

intersects(loc, dir) == loc = Top \/ dir = Top \/ loc = dir

BarrierMove(s, loc, stands) == [scope |-> s, loc |-> loc, stands |-> stands, renamed |-> FALSE]
Renamed(s, loc) == [BarrierMove(s, loc, FALSE) EXCEPT !.renamed = TRUE]

\* Mutant: the fold keeps a Rescan that stands over a part of it.
fold_barrier_moves_any(M, s, stands) ==
    LET folded(e) == e.scope = s /\ ~e.renamed
    IN  Append(SelectSeq(M, LAMBDA e : ~folded(e)),
               BarrierMove(s, Top, stands \/ \E i \in DOMAIN M : folded(M[i]) /\ M[i].stands))

fold_barrier_moves(M, s, stands) ==
    LET folded(e) == e.scope = s /\ ~e.renamed
    IN  Append(SelectSeq(M, LAMBDA e : ~folded(e)),
               BarrierMove(s, Top, stands /\ \A i \in DOMAIN M : folded(M[i]) => M[i].stands))

barrier_moved(M, s, loc, stands) ==
    LET queued == {i \in DOMAIN M : M[i].scope = s /\ ~M[i].renamed}
        over == {i \in queued : M[i].loc \in {loc, Top}}
    IN  IF loc = Top THEN fold_barrier_moves(M, s, stands)
        ELSE IF over # {} THEN [M EXCEPT ![Min(over)].stands = @ /\ stands]
        ELSE IF Cardinality(queued) >= MAX_BARRIER_MOVES_PER_SCOPE THEN fold_barrier_moves(M, s, FALSE)
        ELSE Append(M, BarrierMove(s, loc, stands))

Emit(id) == [k |-> "emit", id |-> id]
Rescan(s, at) == [k |-> "rescan", scope |-> s, at |-> at]
Teardown(s) == [k |-> "teardown", scope |-> s]

stand_covering_rescan(c, s, at) ==
    IF s \notin c.live THEN c
    ELSE [c EXCEPT !.effects = Append(@, Rescan(s, at)), !.moves = barrier_moved(@, s, at, TRUE)]

\* One event of `drain_barrier_moves`: `invalidate_barriers`, the purge of the
\* markers it hit, and the Rescans nobody stood for them.
Drain(x, e) ==
    LET hit == {id \in In(x.ledger, e.scope) : /\ x.ledger[id].phase # "parked" /\ ~x.ledger[id].dom
                                               /\ intersects(e.loc, x.ledger[id].dir)}
        L == [id \in DOMAIN x.ledger |-> [x.ledger[id] EXCEPT !.dom = @ \/ id \in hit]]
        purged == [x.core EXCEPT !.effects = SelectSeq(@, LAMBDA f : ~(f.k = "emit" /\ f.id \in hit))]
        at(id) == IF e.renamed THEN Top ELSE L[id].dir
    IN  [ledger |-> request_removal(L, hit, "Targeted"),
         core |-> IF e.stands THEN purged
                  ELSE FoldLeft(LAMBDA c, id : stand_covering_rescan(c, e.scope, at(id)), purged, SetToSeq(hit))]

drain_barrier_moves(x) ==
    FoldLeft(Drain, [x EXCEPT !.core.moves = <<>>], x.core.moves)

-----------------------------------------------------------------------------
(* What the reader sees.                                                   *)

\* The barriers past their dispatch that a move or a Rescan at loc touches.
Touched(s, loc) ==
    {id \in Calls : /\ calls[id].st # "idle" /\ id \notin d.parked
                    /\ calls[id].scope = s /\ intersects(loc, calls[id].dir)}

\* A marker is early if it comes ahead of the Rescan over a move under it, and
\* its caller still wants it.
Offer(t, f) ==
    IF f.k = "emit"
    THEN [t EXCEPT !.seen = @ \cup {f.id},
                   !.early = @ \cup (IF calls[f.id].st \in {"waiting", "ok"} /\ ~calls[f.id].asked THEN {f.id} \cap t.moved ELSE {})]
    ELSE IF f.k = "rescan"
    THEN [t EXCEPT !.moved = @ \ Touched(f.scope, f.at), !.spoken = @ \cup Touched(f.scope, f.at)]
    ELSE t

Moved(s, loc) == [told EXCEPT !.moved = @ \cup (Touched(s, loc) \ told.spoken)]

-----------------------------------------------------------------------------
(* The driver.                                                             *)

Dropped(L, S) == [id \in DOMAIN L \ S |-> L[id]]

\* `retire`: the records of S leave, and their markers' names are free.
retire(L, S) == ledger' = Dropped(L, S) /\ released' = released \cup (S \cap DOMAIN L)

\* One round of the flush: the moves, then the effect at the head.
Execute ==
    /\ d.pc \in {"flush", "ending"} /\ (d.moves # <<>> \/ d.effects # <<>>)
    /\ LET x == drain_barrier_moves([ledger |-> ledger, core |-> d])
            e == IF x.core.effects = <<>> THEN [k |-> "none"] ELSE Head(x.core.effects)
            L == IF e.k = "teardown" THEN request_removal(x.ledger, In(x.ledger, e.scope), "Targeted") ELSE x.ledger
        IN  /\ d' = IF e.k = "none" THEN x.core ELSE [x.core EXCEPT !.effects = Tail(@)]
            /\ ledger' = L /\ unlinks' = Spawned(L) /\ told' = Offer(told, e)
    /\ UNCHANGED <<released, reg, wake, op, jobs, detached, disk, lane, calls, left>>

dispatch_due_cookie_retries(L) ==
    request_removal(L, {id \in DOMAIN L : L[id].retry = "due"}, "RetryDue")

\* What the settle pass has still to do; then the driver waits.
Unanswerable(f) == {id \in f.parked : calls[id].st = "left" \/ calls[id].scope \notin f.live}
Turned(f) == [f EXCEPT !.pc = IF f.settled = {} /\ Unanswerable(f) = {} THEN "select" ELSE "settle"]

\* The due retries, the released markers, and the marks if a caller left one.
Sweep ==
    /\ d.pc = "flush" /\ d.moves = <<>> /\ d.effects = <<>>
    /\ LET due == dispatch_due_cookie_retries(ledger)
            L == IF wake THEN sweep_reap_marks(due) ELSE due
            gone == IF wake THEN {id \in d.parked : L[id].reap} ELSE {}
        IN  /\ d' = Turned([d EXCEPT !.markers = @ \ released, !.parked = @ \ gone, !.settled = @ \ gone])
            /\ ledger' = Dropped(L, gone) /\ released' = gone
            /\ unlinks' = Spawned(L) /\ calls' = Answered(gone, "retired")
    /\ wake' = FALSE
    /\ UNCHANGED <<reg, op, jobs, detached, disk, lane, told, left>>

dispatch_guard(id) ==
    jobs' = [jobs EXCEPT ![id] = [st |-> "writing", gen |-> reg.gen[ledger[id].scope], end |-> "none"]]

\* A fence that settled is answered by a write job, unless its caller left, its
\* scope ended or its directory is not covered; rewound: the settle itself ended
\* in an uncertain cover, a move over the whole root.
Settled(id, rewound, covered) ==
    LET s == ledger[id].scope
        raised == [ledger |-> ledger, core |-> [d EXCEPT !.moves = IF rewound THEN barrier_moved(@, s, Top, FALSE) ELSE @]]
        x == drain_barrier_moves(raised)
        rest == [x.core EXCEPT !.parked = @ \ {id}, !.settled = @ \ {id}]
    IN  /\ told' = IF rewound THEN Moved(s, Top) ELSE told
        /\ unlinks' = Spawned(x.ledger)
        /\ IF ~covered
           THEN /\ retire(x.ledger, {id})
                /\ d' = Turned(stand_covering_rescan(rest, s, ledger[id].dir))
                /\ calls' = Answered({id}, "dominated") /\ UNCHANGED jobs
           ELSE IF ledger[id].reap
           THEN /\ retire(x.ledger, {id})
                /\ d' = Turned(rest) /\ calls' = Answered({id}, "retired") /\ UNCHANGED jobs
           ELSE /\ ledger' = [x.ledger EXCEPT ![id].phase = "pool"]
                /\ dispatch_guard(id)
                /\ d' = Turned(rest) /\ UNCHANGED <<released, calls>>

Settle ==
    /\ d.pc = "settle" /\ Unanswerable(d) = {}
    /\ \E id \in d.settled, rewound, covered \in BOOLEAN :
        /\ IF rewound THEN Mishap ELSE UNCHANGED left
        /\ Settled(id, rewound, covered)
    /\ UNCHANGED <<reg, wake, op, detached, disk, lane>>

Abandon ==
    /\ d.pc = "settle" /\ Unanswerable(d) # {}
    /\ LET S == Unanswerable(d)
        IN  /\ retire(ledger, S) /\ calls' = Answered(S, "retired")
            /\ d' = Turned([d EXCEPT !.parked = @ \ S, !.settled = @ \ S])
    /\ UNCHANGED <<reg, wake, op, threads, lane, told, left>>

\* Nothing is ready but what the next turn does first.
Retop ==
    /\ d.pc = "select" /\ (d.moves # <<>> \/ d.effects # <<>> \/ wake)
    /\ d' = [d EXCEPT !.pc = "flush"]
    /\ UNCHANGED <<ledger, released, reg, wake, op, threads, lane, calls, told, left>>

-----------------------------------------------------------------------------
(* The arms of the select.                                                 *)

Selected(f) == d.pc = "select" /\ d' = [f EXCEPT !.pc = "flush"]
Drained == d.moves = <<>> /\ d.effects = <<>>

has_pending_write(s) == \E id \in In(ledger, s) : ledger[id].phase \in {"parked", "pool"}
Full(s) ==
    \/ Cardinality(In(ledger, s)) >= cookie_backlog_cap
    \/ Cardinality(DOMAIN ledger) >= cookie_global_cap

SyncRoot(id, s, dir) ==
    /\ calls[id].st = "idle" /\ s \in d.live /\ ~has_pending_write(s) /\ ~Full(s)
    /\ Selected([d EXCEPT !.parked = @ \cup {id}, !.markers = @ \cup {id}])
    /\ ledger' = ledger @@ [i \in {id} |-> Obligation(s, dir)]
    /\ calls' = [calls EXCEPT ![id] = [st |-> "waiting", asked |-> FALSE, scope |-> s, dir |-> dir]]
    /\ UNCHANGED <<released, reg, wake, op, threads, lane, told, left>>

\* `rearm_parked_batch`: a call refused for the backlog tries the records that
\* ran out of retries again, the oldest failures of other scopes at most.
Backlogged(s) ==
    /\ s \in d.live /\ ~has_pending_write(s) /\ Full(s)
    /\ LET spent == {id \in DOMAIN ledger : Removable(ledger[id], "Targeted") /\ ledger[id].phase = "failed"}
            others == spent \ In(ledger, s)
        IN  /\ spent # {}
            /\ \E K \in SUBSET others :
                /\ Cardinality(K) = Min({cookie_backlog_cap, Cardinality(others)})
                /\ ledger' = request_removal(ledger, K \cup (spent \cap In(ledger, s)), "Targeted")
                /\ unlinks' = Spawned(ledger')
    /\ Selected(d)
    /\ UNCHANGED <<released, reg, wake, op, jobs, detached, disk, lane, calls, told, left>>

FenceSettles(id) ==
    /\ id \in d.parked \ d.settled /\ Selected([d EXCEPT !.settled = @ \cup {id}])
    /\ UNCHANGED <<ledger, released, reg, wake, op, threads, lane, calls, told, left>>

\* A job reported: a removal that failed is tried again later.
OpDone(id) ==
    /\ id \in op /\ op' = op \ {id}
    /\ ledger' = IF id \in DOMAIN ledger THEN [ledger EXCEPT ![id] = schedule_retry(@)] ELSE ledger
    /\ \/ Selected(d)
       \/ d.pc = "closing" /\ d' = d
    /\ UNCHANGED <<released, reg, wake, threads, lane, calls, told, left>>

\* The timer of a retry.
Elapse(id) ==
    /\ id \in DOMAIN ledger /\ ledger[id].retry # "none"
    /\ LET due == [ledger EXCEPT ![id].retry = "due"]
        IN  \/ /\ Selected(d) /\ ledger' = due /\ UNCHANGED unlinks
            \/ /\ d.pc = "closing" /\ d' = d
               /\ ledger' = dispatch_due_cookie_retries(due) /\ unlinks' = Spawned(ledger')
    /\ UNCHANGED <<released, reg, wake, op, jobs, detached, disk, lane, calls, told, left>>

\* The record of a marker's creation reaches the core, by the arm of the source or
\* by the drain ahead of a settle pass.  A marker whose name is free again may fall
\* to the caller's own filter.
SourceItem(id) ==
    /\ d.pc \in {"settle", "select"} /\ id \in lane /\ lane' = lane \ {id}
    /\ \/ d' = [d EXCEPT !.effects = Append(@, Emit(id))]
       \/ id \notin d.markers /\ d' = d
    /\ UNCHANGED <<ledger, released, reg, wake, op, threads, calls, told, left>>

\* Coverage moves, at one place or at two directories within one arm: stands says the core queued
\* the Rescan with the move.  What the source had not delivered there may be lost.
Move == [loc : Dirs, stands : BOOLEAN]
Bursts == {<<m>> : m \in Move} \cup {<<m, n>> \in Move \X Move : Top \notin {m.loc, n.loc} /\ m.loc # n.loc}

Stir(c, s, m) ==
    [c EXCEPT !.moves = barrier_moved(@, s, m.loc, m.stands),
              !.effects = IF m.stands THEN Append(@, Rescan(s, m.loc)) ELSE @]

Raise(s, burst) ==
    /\ s \in d.live /\ Mishap
    /\ Selected(FoldLeft(LAMBDA c, m : Stir(c, s, m), d, burst))
    /\ LET hit == UNION {Touched(s, burst[i].loc) : i \in DOMAIN burst}
        IN  /\ told' = [told EXCEPT !.moved = @ \cup (hit \ told.spoken)]
            /\ \E K \in SUBSET (lane \cap hit) : lane' = lane \ K
    /\ UNCHANGED <<ledger, released, reg, wake, op, threads, calls>>

\* A directory is renamed inside the root, both ends known.
Rename(s, from) ==
    /\ s \in d.live /\ Drained /\ Mishap
    /\ Selected([d EXCEPT !.moves = Append(@, Renamed(s, from))])
    /\ told' = Moved(s, from)
    /\ UNCHANGED <<ledger, released, reg, wake, op, threads, lane, calls>>

\* `commit_replace` or `commit_widen`: the records of the old stream are gone.  A
\* narrower root revokes the parked barriers outside it.
Replace(s) ==
    /\ s \in d.live /\ Mishap
    /\ reg' = [reg EXCEPT !.gen[s] = @ + 1]
    /\ \E K \in SUBSET (d.parked \cap In(ledger, s)) :
        /\ Selected([d EXCEPT !.moves = fold_barrier_moves(@, s, TRUE),
                              !.effects = Append(SelectSeq(@, LAMBDA f : f.k = "emit" => calls[f.id].scope # s), Rescan(s, Top)),
                              !.parked = @ \ K, !.settled = @ \ K])
        /\ retire(ledger, K) /\ calls' = Answered(K, "dominated")
    /\ told' = Moved(s, Top) /\ lane' = {id \in lane : calls[id].scope # s}
    /\ UNCHANGED <<wake, op, threads>>

\* The root is unwatched, or dies.
EndScope(s) ==
    /\ s \in d.live /\ Mishap
    /\ Selected([d EXCEPT !.live = @ \ {s}, !.markers = {id \in @ : calls[id].scope # s},
                          !.effects = Append(@, Teardown(s))])
    /\ reg' = [reg EXCEPT !.retiring = @ \cup {s}] /\ lane' = {id \in lane : calls[id].scope # s}
    /\ UNCHANGED <<ledger, released, wake, op, threads, calls, told>>

-----------------------------------------------------------------------------
(* The end of the driver.                                                  *)

\* A caller that leaves after it might as well have left before; and what was seen
\* is forgotten when nothing is left to be said.
Close ==
    /\ d.pc = "select" /\ reg' = [reg EXCEPT !.shutdown = TRUE] /\ lane' = {}
    /\ LET L == request_removal(ledger, DOMAIN ledger, "Targeted")
        IN  retire(L, d.parked) /\ unlinks' = Spawned(L)
    /\ d' = [d EXCEPT !.pc = "closing", !.parked = {}, !.settled = {}]
    /\ calls' = Answered(d.parked, "retired")
    /\ told' = IF Drained THEN [told EXCEPT !.seen = {}, !.moved = {}] ELSE told
    /\ left' = [left EXCEPT !.mishaps = 0]
    /\ UNCHANGED <<wake, op, jobs, detached, disk>>

\* The grace of a second ends, or nothing is owed any more.
GraceEnds ==
    /\ d.pc = "closing" /\ d' = [d EXCEPT !.pc = "ending"]
    /\ UNCHANGED <<ledger, released, reg, wake, op, threads, lane, calls, told, left>>

\* `Drop` of the registry: every record goes, and what it knew on disk and no
\* job has is handed to a thread of its own.
Unregister ==
    /\ ledger' = Empty /\ released' = {} /\ wake' = FALSE /\ op' = {} /\ lane' = {}
    /\ told' = Untold /\ left' = [mishaps |-> 0, failures |-> 0]
    /\ detached' = [id \in {i \in DOMAIN ledger : ledger[i].res # "none" /\ ledger[i].phase # "removing"} |-> ledger[id].res]

Stopped == [d EXCEPT !.pc = "closed", !.live = {}, !.moves = <<>>, !.effects = <<>>, !.markers = {},
                     !.parked = {}, !.settled = {}]

Closed ==
    /\ d.pc = "ending" /\ d.moves = <<>> /\ d.effects = <<>>
    /\ d' = [Stopped EXCEPT !.reported = Cardinality(DOMAIN ledger)]
    /\ Unregister
    /\ UNCHANGED <<reg, jobs, unlinks, disk, calls>>

\* The driver's future is dropped where it waits.
Abort ==
    /\ d.pc \in {"select", "closing"}
    /\ d' = Stopped
    /\ reg' = [reg EXCEPT !.shutdown = TRUE]
    /\ Unregister /\ calls' = Answered(d.parked, "closed")
    /\ UNCHANGED <<jobs, unlinks, disk>>

-----------------------------------------------------------------------------
(* The callers.                                                            *)

\* `mark`, by the path once it is known or by the ticket, and the wake.
Mark(id) ==
    /\ id \in DOMAIN ledger /\ ~ledger[id].reap /\ Mishap
    /\ ledger' = [ledger EXCEPT ![id].reap = TRUE] /\ wake' = TRUE
    /\ calls' = [calls EXCEPT ![id].asked = TRUE]
    /\ UNCHANGED <<d, released, reg, op, threads, lane, told>>

\* The future of `sync_root` is dropped.
Leave(id) ==
    /\ calls[id].st = "waiting" /\ Mishap /\ calls' = [calls EXCEPT ![id].st = "left"]
    /\ UNCHANGED <<d, ledger, released, reg, wake, op, threads, lane, told>>

-----------------------------------------------------------------------------
(* The write job.                                                          *)

Retired(id) ==
    id \in DOMAIN ledger => reg.shutdown \/ ledger[id].reap \/ ledger[id].scope \in reg.retiring

Dominated(id) == ~Retired(id) /\ (reg.gen[ledger[id].scope] # jobs[id].gen \/ ledger[id].dom)

\* What the job tells a caller that it would have told otherwise.
precedence(id, otherwise) ==
    IF Retired(id) THEN "retired" ELSE IF Dominated(id) THEN "dominated" ELSE otherwise

Goes(id, st) == jobs' = [jobs EXCEPT ![id].st = st]

\* The job answers its caller and reports.
Ends(id, answer) ==
    /\ jobs' = [jobs EXCEPT ![id] = NoJob] /\ calls' = Answered({id}, answer)
    /\ op' = IF id \in DOMAIN ledger' THEN op \cup {id} ELSE op

\* While somebody reads the source, the record of a creation is certain as long as
\* coverage stands.
Read(id) == d.pc \in {"flush", "settle", "select"} /\ calls[id].scope \in d.live
Recorded(id) ==
    \/ Read(id) /\ lane' = lane \cup {id}
    \/ (Read(id) => id \in told.moved \cup told.spoken) /\ lane' = lane

\* `write_cookie`: the file is there, or there with an error, or was never made.
Writes(id) ==
    /\ jobs[id].st = "writing" /\ disk' = [disk EXCEPT ![id] = "file"] /\ Recorded(id)
    /\ Goes(id, "landed") \/ Goes(id, "botched")
    /\ UNCHANGED <<d, ledger, released, reg, wake, op, unlinks, detached, calls, told, left>>

LeavesDir(id) ==
    /\ jobs[id].st = "writing" /\ disk' = [disk EXCEPT ![id] = "dir"] /\ Goes(id, "botched")
    /\ UNCHANGED <<d, ledger, released, reg, wake, op, unlinks, detached, lane, calls, told, left>>

\* `retire_never_created`.
WriteFails(id) ==
    /\ jobs[id].st = "writing"
    /\ retire(ledger, {id}) /\ Ends(id, precedence(id, "failed"))
    /\ UNCHANGED <<d, reg, wake, unlinks, detached, disk, lane, told, left>>

\* A claim gives the file to the record, unless something took the record first.
claim(id) ==
    /\ jobs[id].st \in {"landed", "botched"}
    /\ \/ /\ ~Retired(id) /\ ~Dominated(id)
          /\ ledger' = [ledger EXCEPT ![id].phase = "owned", ![id].res = disk[id]]
          /\ jobs' = [jobs EXCEPT ![id].st = IF @ = "landed" THEN "claimed" ELSE "orphaned", ![id].end = "failed"]
       \/ /\ Retired(id) \/ Dominated(id)
          /\ jobs' = [jobs EXCEPT ![id].st = "refused", ![id].end = precedence(id, "failed")]
          /\ UNCHANGED ledger
    /\ UNCHANGED <<d, released, reg, wake, op, unlinks, detached, disk, lane, calls, told, left>>

Reply(id) ==
    /\ jobs[id].st = "claimed" /\ UNCHANGED ledger
    /\ \/ calls[id].st = "waiting" /\ Ends(id, "ok")
       \/ calls[id].st # "waiting" /\ Goes(id, "orphaned") /\ UNCHANGED <<calls, op>>
    /\ UNCHANGED <<d, released, reg, wake, unlinks, detached, disk, lane, told, left>>

\* Mutant: a refused job does not tell the record what it removes.
self_reap_untold(id) ==
    LET ours == IF jobs[id].st = "refused" THEN "pool" ELSE "owned"
        mine == id \in DOMAIN ledger /\ ledger[id].phase = ours
        bare == id \notin DOMAIN ledger /\ jobs[id].st = "refused"
    IN  /\ jobs[id].st \in {"refused", "orphaned"}
        /\ ledger' = IF mine THEN [ledger EXCEPT ![id].phase = "removing", ![id].att = 0] ELSE ledger
        /\ \/ (mine \/ bare) /\ Goes(id, "reaping") /\ UNCHANGED <<calls, op>>
           \/ ~(mine \/ bare) /\ Ends(id, jobs[id].end)
        /\ UNCHANGED <<d, released, reg, wake, unlinks, detached, disk, lane, told, left>>

\* `self_reap`: the job removes what nobody wants, if the record is still its own.
self_reap(id) ==
    LET ours == IF jobs[id].st = "refused" THEN "pool" ELSE "owned"
        mine == id \in DOMAIN ledger /\ ledger[id].phase = ours
        bare == id \notin DOMAIN ledger /\ jobs[id].st = "refused"
    IN  /\ jobs[id].st \in {"refused", "orphaned"}
        /\ ledger' = IF mine THEN [ledger EXCEPT ![id].phase = "removing", ![id].res = disk[id], ![id].att = 0] ELSE ledger
        /\ \/ (mine \/ bare) /\ Goes(id, "reaping") /\ UNCHANGED <<calls, op>>
           \/ ~(mine \/ bare) /\ Ends(id, jobs[id].end)
        /\ UNCHANGED <<d, released, reg, wake, unlinks, detached, disk, lane, told, left>>

-----------------------------------------------------------------------------
(* Removals.                                                               *)

\* `reap_residue`: the file and the directory minted for it go, or the directory
\* stays, or nothing goes.
reap_residue(id, res, after) ==
    /\ after \in {"none", res} \cup (IF res = "file" THEN {"dir"} ELSE {})
    /\ disk' = [disk EXCEPT ![id] = after]
    /\ IF after = "none" \/ d.pc = "closed" THEN UNCHANGED left ELSE Failure

\* What the record, if there is one, says of it.
Removed(id, after) ==
    \/ id \in DOMAIN ledger /\ after = "none" /\ retire(ledger, {id})
    \/ /\ id \in DOMAIN ledger /\ after # "none" /\ UNCHANGED released
       /\ ledger' = [ledger EXCEPT ![id] = record_remove_failed(@, after)]
    \/ id \notin DOMAIN ledger /\ UNCHANGED <<ledger, released>>

JobReaps(id) ==
    /\ jobs[id].st = "reaping"
    /\ \E after \in {"none", "file", "dir"} : reap_residue(id, disk[id], after) /\ Removed(id, after)
    /\ Ends(id, jobs[id].end)
    /\ UNCHANGED <<d, reg, wake, unlinks, detached, lane, told>>

Unlink(id) ==
    /\ id \in DOMAIN unlinks /\ unlinks' = Dropped(unlinks, {id})
    /\ \E after \in {"none", "file", "dir"} : reap_residue(id, unlinks[id], after) /\ Removed(id, after)
    /\ op' = IF id \in DOMAIN ledger' THEN op \cup {id} ELSE op
    /\ UNCHANGED <<d, reg, wake, jobs, detached, lane, calls, told>>

DetachedReaps(id) ==
    /\ id \in DOMAIN detached /\ detached' = Dropped(detached, {id})
    /\ \E after \in {"none", "file", "dir"} : reap_residue(id, detached[id], after)
    /\ UNCHANGED <<d, ledger, released, reg, wake, op, jobs, unlinks, lane, calls, told>>

-----------------------------------------------------------------------------
Turns == Execute \/ Sweep \/ Settle \/ Abandon \/ Retop \/ GraceEnds \/ Closed
Job(id) ==
    \/ Writes(id) \/ LeavesDir(id) \/ WriteFails(id) \/ claim(id) \/ Reply(id)
    \/ self_reap(id) \/ JobReaps(id) \/ Unlink(id) \/ DetachedReaps(id)
Arm(id) == FenceSettles(id) \/ OpDone(id) \/ Elapse(id) \/ SourceItem(id)

Next ==
    \/ Turns \/ Close \/ Abort
    \/ \E id \in Calls : Arm(id) \/ Job(id) \/ Mark(id) \/ Leave(id)
    \/ \E id \in Calls, s \in Scopes, dir \in Grounds : SyncRoot(id, s, dir)
    \/ \E s \in Scopes : Backlogged(s) \/ Replace(s) \/ EndScope(s)
    \/ \E s \in Scopes, burst \in Bursts : Raise(s, burst)
    \/ \E s \in Scopes, from \in Below : Rename(s, from)

Spec ==
    /\ Init /\ [][Next]_vars
    /\ WF_vars(Turns)
    /\ \A id \in Calls : WF_vars(Arm(id)) /\ WF_vars(Job(id))

-----------------------------------------------------------------------------
(* Properties.                                                             *)

\* Who is removing a marker right now.
Removers(id) ==
    Cardinality({u \in {"job", "unlink", "detached"} :
        CASE u = "job" -> jobs[id].st = "reaping"
          [] u = "unlink" -> id \in DOMAIN unlinks
          [] u = "detached" -> id \in DOMAIN detached})

\* No marker is forgotten and none is removed twice at once: while the driver
\* lives, what is on disk has a record that knows it or a write job that is about
\* to tell its record; a record is being removed exactly while one job does so;
\* and the reply of `close` counts every marker still on disk
\* (driver/mod.rs:4320, :5044, :5544, :6862, :14935).
NothingForgotten ==
    /\ \A id \in Calls :
        /\ disk[id] # "none" /\ d.pc # "closed" =>
              /\ id \in DOMAIN ledger
              /\ ledger[id].res # "none" \/ (ledger[id].phase = "pool" /\ jobs[id].st # "none")
        /\ Removers(id) <= 1
        /\ id \in DOMAIN ledger => (ledger[id].phase = "removing" <=> Removers(id) = 1)
    /\ d.reported >= 0 => Cardinality({id \in Calls : disk[id] # "none"}) <= d.reported

Queued(id) ==
    \E i \in DOMAIN d.effects :
        /\ d.effects[i].k = "rescan" /\ d.effects[i].scope = calls[id].scope
        /\ intersects(d.effects[i].at, calls[id].dir)

\* A marker vouches for what came before it: one whose ground moved after its
\* write was sent is not shown to its caller ahead of the Rescan over that
\* ground; and a caller told that its barrier was dominated has that Rescan, or
\* it is queued (driver/mod.rs:17911-17925, core/mod.rs:3188, :7451).
MarkersSpeakTruly ==
    /\ told.early = {}
    /\ \A id \in Calls :
        calls[id].st = "dominated" /\ calls[id].scope \in d.live => id \in told.spoken \/ Queued(id)

Exhausted(id) == ledger[id].phase = "failed" /\ ledger[id].retry = "none"
Doomed(id) == id \in DOMAIN ledger /\ (ledger[id].reap \/ ledger[id].dom \/ calls[id].scope \notin d.live)

\* Nothing will move until somebody calls again: the driver waits, its channels
\* are empty, no job runs, no fence is open and no retry is due.
AtRest ==
    /\ d.pc = "select" /\ Drained /\ ~wake /\ op = {} /\ lane = {} /\ d.parked = {}
    /\ DOMAIN unlinks = {} /\ \A id \in Calls : jobs[id].st = "none"
    /\ \A id \in DOMAIN ledger : ledger[id].retry = "none"

\* Nothing is owed when everything rests.  Every caller was answered; one that
\* was answered with a marker saw it, or a Rescan over its ground, unless it asked
\* for the removal or the root ended; a marker that is to go is gone, or its
\* removal failed as often as it may and nobody asked again; and a marker is kept only for a caller that
\* has not asked for its removal
\* (driver/mod.rs:4161, :5318, :6305, :11950).
NothingOwedAtRest ==
    AtRest => \A id \in Calls :
        /\ calls[id].st # "waiting"
        /\ calls[id].st = "ok" => id \in told.seen \cup told.spoken \/ calls[id].asked \/ calls[id].scope \notin d.live
        /\ Doomed(id) => Exhausted(id) /\ ~ledger[id].reap
        /\ id \in DOMAIN ledger => (calls[id].st = "ok" /\ ~calls[id].asked) \/ Exhausted(id)

\* The same, said of every run that is fair to the driver, its jobs and its fences.
Served ==
    \A id \in Calls :
        /\ (calls[id].st = "waiting") ~> (calls[id].st # "waiting")
        /\ (calls[id].st = "ok") ~> (\/ id \in told.seen \cup told.spoken \/ calls[id].asked
                                     \/ d.pc \notin {"flush", "settle", "select"} \/ calls[id].scope \notin d.live)
        /\ Doomed(id) ~> (id \in DOMAIN ledger => Exhausted(id))

=============================================================================

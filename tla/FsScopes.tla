------------------------------ MODULE FsScopes ------------------------------
(***************************************************************************)
(* The life of a watched root in the filesystem crate: the callers of a    *)
(* Watcher (tributary-fs/src/watcher/mod.rs), the registry of live and     *)
(* reserved roots they share with the driver, and the driver task that     *)
(* spawns, replaces, widens and tears down the native streams              *)
(* (tributary-fs/src/driver/mod.rs).                                       *)
(*                                                                         *)
(* A driver step is one arm of the driver's select together with the       *)
(* effects the next turn runs before anything else: a scope that leaves    *)
(* the core is torn down in the same step.  An operation handed to the     *)
(* blocking pool or to the reaper is in flight while the driver's state    *)
(* says it is owed; its outcome is chosen when it is received, so results  *)
(* arrive in every order.                                                  *)
(*                                                                         *)
(* A root is what a path turns out to name: [path, id, anc], its canonical *)
(* path, the identity of the directory and those of its ancestors.  Two    *)
(* paths may lead to one directory, and a path may lead somewhere else by  *)
(* the time the stream is spawned (Lands).                                 *)
(***************************************************************************)
EXTENDS Integers, Sequences, FiniteSets, FiniteSetsExt, Keys, Lists

CONSTANTS
    Clients,                 \* tasks that may have one call of the watcher open
    Paths,                   \* the canonical paths they ask for
    Lands,                   \* path -> the roots it may name at any moment
    Descends,                \* whether a backend descends (TRUE) or is recursive: what may be met
    MaxScopes,               \* bound: scopes ever registered
    MaxLane,                 \* bound: streams ever given a lane
    MaxCalls,                \* bound: calls made of the watcher
    MaxMishaps,              \* bound: operations that fail, streams that die, calls dropped
    MaxTail,                 \* bound: messages left on a lane when a widen is armed
    COMMAND_CAPACITY,        \* of the command channel
    MAX_TEARDOWN_BACKLOG,
    MAX_PARKED_SETTLEMENTS

Gone == "gone"                  \* the reply half of a call nobody waits for any more

ASSUME FsScopesAssumption ==
    /\ Clients # {} /\ Gone \notin Clients
    /\ Descends \subseteq BOOLEAN /\ Lands \in [Paths -> SUBSET UNION {Lands[p] : p \in Paths}]
    /\ {MaxScopes, MaxLane, COMMAND_CAPACITY, MAX_TEARDOWN_BACKLOG, MAX_PARKED_SETTLEMENTS}
           \subseteq Nat \ {0}
    /\ {MaxTail, MaxMishaps, MaxCalls} \subseteq Nat

VARIABLES
    d,          \* the driver task's maps, see Init
    reg,        \* RootSet: live: scope -> root, pending: path -> identity
    commands,   \* the command channel
    unwinds,    \* scopes whose grant was dropped before it was taken
    calls,      \* client -> its call of the watcher
    held,       \* scopes whose RootHandle was given out and not released since
    released,   \* scopes whose release was asked for
    phase,      \* of the driver: "run", "closing", "closed"
    reported,   \* what close() was told is left, or -1
    running,    \* history: scope -> native streams of it that exist
    dead,       \* history: lanes whose stream failed while it was current
    ended,      \* history: scopes torn down after their grant was sent
    mishaps,    \* how many there were
    asked       \* how many calls were made

vars == <<d, reg, commands, unwinds, calls, held, released, phase, reported, running, dead, ended, mishaps, asked>>

Scope == 1 .. MaxScopes
Empty == [x \in {} |-> 0]
Idle == [op |-> "idle"]

Init ==
    /\ d = [scope_seq |-> 0, handles |-> {}, lanes |-> Empty,
            lane_of |-> <<>>, descending |-> {}, spawns |-> {}, downs |-> [s \in Scope |-> 0],
            unproven |-> [s \in Scope |-> 0], watch_replies |-> Empty, deferred |-> Empty,
            arms |-> {}, replaces |-> Empty, waiters |-> [s \in Scope |-> <<>>]]
    /\ reg = [live |-> Empty, pending |-> Empty]
    /\ commands = <<>> /\ unwinds = <<>>
    /\ calls = [c \in Clients |-> Idle] /\ held = {} /\ released = {}
    /\ phase = "run" /\ reported = -1
    /\ running = [s \in Scope |-> 0] /\ dead = {} /\ ended = {} /\ mishaps = 0 /\ asked = 0

-----------------------------------------------------------------------------
(* The registry.  An overlap is the set of at most one path it names.      *)

AnyOf(S) == IF S = {} THEN {} ELSE {CHOOSE x \in S : TRUE}
Nearest(S) == IF S = {} THEN {} ELSE {CHOOSE p \in S : \A q \in S : Len(q) <= Len(p)}
FirstOf(A, B) == IF A # {} THEN A ELSE B

PathsOf(r, S) == {r.live[s].path : s \in S}

\* An entry of D at or above p, else one below it.
Along(D, p) == FirstOf(Nearest(Ancestors(D, p)), AnyOf(Descendants(D, p)))

live_overlap(r, p, id, exempt) ==
    LET others == DOMAIN r.live \ exempt
    IN  FirstOf(Along(PathsOf(r, others), p),
                AnyOf(PathsOf(r, {s \in others : r.live[s].id = id})))

pending_overlap(r, p, id, own) ==
    LET others == DOMAIN r.pending \ own
    IN  FirstOf(Along(others, p), AnyOf({q \in others : r.pending[q] = id}))

overlap_of(r, p, id, exempt) ==
    FirstOf(live_overlap(r, p, id, exempt), pending_overlap(r, p, id, {}))

\* Mutant: the final root is compared with the live roots by path alone.
final_root_conflict_by_path(r, root, reserved, exempt) ==
    Along(PathsOf(r, DOMAIN r.live \ exempt), root.path)

\* The root a stream really landed on against everything else that is live or
\* reserved, by path, by identity and by the identities above it.
final_root_conflict(r, root, reserved, exempt) ==
    LET others == DOMAIN r.live \ exempt
        above == {s \in others : r.live[s].id \in root.anc}
        below == {s \in others : root.id \in r.live[s].anc}
    IN  FirstOf(live_overlap(r, root.path, root.id, exempt),
        FirstOf(AnyOf(PathsOf(r, above)),
        FirstOf(AnyOf(PathsOf(r, below)),
                pending_overlap(r, root.path, root.id, {reserved}))))

scope_live(r, s, root) == [r EXCEPT !.live = Put(@, s, root)]
scope_dead(r, s) == [r EXCEPT !.live = Drop(@, {s})]
take_reservation(r, p, id) == [r EXCEPT !.pending = Put(@, p, id)]

drop_reservation(r, p) == [r EXCEPT !.pending = Drop(@, {p})]

-----------------------------------------------------------------------------
(* What the driver's steps are made of.                                    *)

answer(cs, who, a) == IF who = Gone THEN cs ELSE [cs EXCEPT ![who].ans = a]
Refused(why) == [k |-> "err", why |-> why, existing |-> {}]
Overlaps(existing) == [k |-> "err", why |-> "overlaps", existing |-> existing]
Granted(s) == [k |-> "grant", s |-> s]
Acked(verdict) == [k |-> verdict]
Waiting == [k |-> "wait"]

submit_teardown(dr, s) == [dr EXCEPT !.downs[s] = @ + 1]

admitted_verdict(dr, s, verdict) == IF dr.unproven[s] > 0 THEN "unproven" ELSE verdict

taint_unproven_scope(dr, s) ==
    [dr EXCEPT !.unproven[s] = @ + 1,
               !.waiters[s] = [i \in DOMAIN @ |-> [@[i] EXCEPT !.verdict = "unproven"]]]

\* Mutant: a replacement still in flight does not keep the scope from resting.
scope_quiesced_too_soon(dr, s) == s \notin dr.handles /\ dr.downs[s] = 0

scope_quiesced(dr, s) ==
    /\ s \notin dr.handles /\ s \notin dr.spawns
    /\ dr.downs[s] = 0 /\ s \notin DOMAIN dr.replaces

\* Mutant: a waiter whose scope comes to rest later is not woken.
resolve_unwatch_waiters_not(cs, dr, s, done) == cs

\* The calls once every waiter of s is told its verdict, when `done`.
resolve_unwatch_waiters(cs, dr, s, done) ==
    IF ~done THEN cs
    ELSE [c \in Clients |->
            LET mine == {i \in DOMAIN dr.waiters[s] : dr.waiters[s][i].who = c}
            IN  IF mine = {} THEN cs[c]
                ELSE [cs[c] EXCEPT !.ans = Acked(dr.waiters[s][CHOOSE i \in mine : TRUE].verdict)]]

Rested(dr, s, done) == IF done THEN [dr EXCEPT !.waiters[s] = <<>>] ELSE dr

\* `prune_canceled_unwatch_waiters`: every turn forgets the waiters that are gone
\* (here as soon as they go).
Pruned(dr) ==
    [dr EXCEPT !.waiters =
        [s \in Scope |-> Kept(@[s], {i \in DOMAIN @[s] : @[s][i].who # Gone})]]

Total(f) == MapThenSumSet(LAMBDA s : f[s], Scope)
\* The streams a reaper has or gave up on.
Landed(dr) == [s \in Scope |-> dr.downs[s] + dr.unproven[s]]

teardown_pressure(dr) ==
    Total(Landed(dr)) + Cardinality(dr.spawns \cup DOMAIN dr.replaces \cup DOMAIN dr.deferred)

\* `Effect::TeardownStream` of a scope with a stream: the scope leaves every
\* map and its stream goes to the reaper.
TeardownStream(dr, s) ==
    submit_teardown([dr EXCEPT !.handles = @ \ {s}, !.lanes = Drop(@, {s}),
                               !.descending = @ \ {s}, !.deferred = Drop(@, {s})], s)

\* A grant still deferred when its scope is torn down is refused.
RefuseDeferred(cs, dr, s) ==
    IF s \in DOMAIN dr.deferred
    THEN answer(cs, dr.deferred[s].who, Refused("unavailable")) ELSE cs

\* A new stream becomes the scope's: the next lane, and a handle.
GoesLive(dr, s, desc) ==
    [dr EXCEPT !.lane_of = Append(@, s), !.lanes = Put(@, s, Len(dr.lane_of) + 1),
               !.handles = @ \cup {s},
               !.descending = IF desc THEN @ \cup {s} ELSE @ \ {s}]

-----------------------------------------------------------------------------
(* Birth: Command::Watch, the spawn, and on a descending backend the arm   *)
(* of the root's own watch, which the grant waits for.                     *)

Cmd == commands[1]
Takes(op) == phase = "run" /\ commands # <<>> /\ Cmd.op = op /\ commands' = Tail(commands)
\* A widen whose lane has been read to its mark is resolved before anything else.
Caught(s) ==
    /\ s \in DOMAIN d.replaces /\ d.replaces[s].mode = "catching up"
    /\ s \in d.handles => (d.replaces[s].left = 0 /\ d.lanes[s] \notin dead)
Ready == phase = "run" /\ \A s \in Scope : ~Caught(s)

front == <<held, released, phase, reported>>
outside == <<commands, unwinds, front>>

TakeWatch ==
    /\ Ready /\ Takes("watch")
    /\ IF teardown_pressure(d) >= MAX_TEARDOWN_BACKLOG
       THEN /\ calls' = answer(calls, Cmd.who, Refused("backlog"))
            /\ UNCHANGED d
       ELSE LET s == d.scope_seq + 1
            IN  /\ d' = [d EXCEPT !.scope_seq = s, !.spawns = @ \cup {s},
                                  !.watch_replies = Put(@, s, [who |-> Cmd.who, path |-> Cmd.path])]
                /\ UNCHANGED calls
    /\ UNCHANGED <<reg, unwinds, front, running, dead>>

Birth(s) == Ready /\ s \in d.spawns /\ s \notin DOMAIN d.replaces
Spawn(dr, s) == [dr EXCEPT !.spawns = @ \ {s}]
Born(dr, s) == [Spawn(dr, s) EXCEPT !.watch_replies = Drop(@, {s})]

\* `commit_grant`: a scope whose caller is gone is unwatched at once.
commit_grant(dr, s, who) == IF who = Gone THEN TeardownStream(dr, s) ELSE dr

SpawnedBirth(s, root, desc) ==
    /\ Birth(s) /\ root \in Lands[d.watch_replies[s].path]
    /\ LET pending == d.watch_replies[s]
           conflict == final_root_conflict(reg, root, pending.path, {})
           live == GoesLive(Born(d, s), s, desc)
       IN  \/ /\ conflict # {}
              /\ d' = submit_teardown(Born(d, s), s)
              /\ calls' = answer(calls, pending.who, Overlaps(conflict))
              /\ UNCHANGED reg
           \/ /\ conflict = {} /\ desc
              /\ d' = [live EXCEPT !.deferred = Put(@, s, pending),
                                   !.arms = @ \cup {[s |-> s, lane |-> live.lanes[s]]}]
              /\ reg' = scope_live(reg, s, root)
              /\ UNCHANGED calls
           \/ /\ conflict = {} /\ ~desc
              /\ d' = commit_grant(live, s, pending.who)
              /\ calls' = answer(calls, pending.who, Granted(s))
              /\ reg' = IF s \in d'.handles THEN scope_live(reg, s, root) ELSE reg
    /\ running' = [running EXCEPT ![s] = @ + 1]
    /\ UNCHANGED <<outside, dead>>

\* The spawn failed, or failed after its stream was running (the rollback).
SpawnFailedBirth(s, rollback) ==
    /\ Birth(s)
    /\ d' = IF rollback THEN submit_teardown(Born(d, s), s) ELSE Born(d, s)
    /\ calls' = answer(calls, d.watch_replies[s].who, Refused("source"))
    /\ running' = [running EXCEPT ![s] = @ + (IF rollback THEN 1 ELSE 0)]
    /\ UNCHANGED <<reg, outside, dead>>

\* `Effect::TeardownStream` as the whole of a step.
TearDown(dr, s) ==
    /\ d' = TeardownStream(dr, s)
    /\ reg' = scope_dead(reg, s)

lane_current(dr, s, l) == s \in DOMAIN dr.lanes /\ dr.lanes[s] = l

\* `OpResult::WatchInstalled` for a root's watch.
WatchInstalled(a, ok) ==
    /\ Ready /\ a \in d.arms
    /\ LET s == a.s
           dr == [d EXCEPT !.arms = @ \ {a}, !.deferred = Drop(@, {s})]
           waits == s \in DOMAIN d.deferred
           who == IF waits THEN d.deferred[s].who ELSE Gone
           unowned == waits /\ ok /\ who = Gone
           fails == ~ok /\ lane_current(d, s, a.lane)
       IN  /\ calls' = answer(calls, who, IF ok THEN Granted(s) ELSE Refused("unavailable"))
           /\ IF s \in d.handles /\ (unowned \/ fails)
              THEN TearDown(dr, s)
              ELSE d' = dr /\ UNCHANGED reg
           /\ dead' = IF fails /\ d.lanes[s] = a.lane THEN dead \cup {a.lane} ELSE dead
    /\ UNCHANGED <<outside, running>>

\* The core asks for the root's watch again (its own re-arm, after a loss).
\* Bounded to the times a replacement is under way, which may outrun the answer.
RearmRoot(s) ==
    /\ Ready /\ s \in (d.descending \ DOMAIN d.deferred) \cap DOMAIN d.replaces
    /\ d' = [d EXCEPT !.arms = @ \cup {[s |-> s, lane |-> d.lanes[s]]}]
    /\ UNCHANGED <<reg, calls, outside, running, dead>>

\* A native stream fails or ends by itself ...
StreamDies(s) ==
    /\ s \in d.handles /\ dead' = dead \cup {d.lanes[s]} /\ dead' # dead
    /\ UNCHANGED <<d, reg, calls, outside, running>>

\* ... and the driver reads the last item of a lane that failed or was retired.
SourceEnds(l) ==
    /\ Ready /\ l \in DOMAIN d.lane_of
    /\ LET s == d.lane_of[l]
       IN  /\ l \in dead \/ ~(s \in DOMAIN d.lanes /\ d.lanes[s] = l)
           /\ lane_current(d, s, l) /\ s \in d.handles
           /\ TearDown(d, s)
           /\ calls' = RefuseDeferred(calls, d, s)
    /\ UNCHANGED <<outside, running, dead>>

-----------------------------------------------------------------------------
(* Teardown: Command::Unwatch, a dropped grant, and the reaper's answers.  *)

Park(dr, s, who, verdict) ==
    IF who = Gone THEN dr
    ELSE [dr EXCEPT !.waiters[s] = Append(@, [who |-> who, verdict |-> admitted_verdict(dr, s, verdict)])]

\* `reply: None` is a release nobody waits for (`request_unwatch`).
TakeUnwatch ==
    /\ Ready /\ Takes("unwatch")
    /\ LET s == Cmd.s
           inflight == s \in d.spawns \/ d.downs[s] > 0 \/ s \in DOMAIN d.replaces
       IN  \/ /\ Cmd.awaited /\ Len(d.waiters[s]) >= MAX_PARKED_SETTLEMENTS
              /\ calls' = answer(calls, Cmd.who, Acked("backlogged"))
              /\ UNCHANGED <<d, reg>>
           \/ /\ ~(Cmd.awaited /\ Len(d.waiters[s]) >= MAX_PARKED_SETTLEMENTS)
              /\ \/ /\ s \in d.handles
                    /\ TearDown(Park(d, s, Cmd.who, "torn"), s)
                    /\ calls' = RefuseDeferred(calls, d, s)
                 \/ /\ s \notin d.handles /\ inflight
                    /\ d' = Park(d, s, Cmd.who, "unknown")
                    /\ UNCHANGED <<reg, calls>>
                 \/ /\ s \notin d.handles /\ ~inflight
                    /\ calls' = answer(calls, Cmd.who, Acked(admitted_verdict(d, s, "unknown")))
                    /\ UNCHANGED <<d, reg>>
    /\ UNCHANGED <<unwinds, front, running, dead>>

\* A grant dropped after it was sent asks for its own unwatch.
TakeUnwind ==
    /\ Ready /\ unwinds # <<>> /\ unwinds' = Tail(unwinds)
    /\ IF unwinds[1] \in d.handles THEN TearDown(d, unwinds[1]) ELSE UNCHANGED <<d, reg>>
    /\ UNCHANGED <<calls, commands, front, running, dead>>

\* `OpResult::TornDown` and `TeardownFailed`: a reaper has finished with one
\* stream, and could prove or not that it is gone.
TornDown(s, proven) ==
    /\ phase # "closed" /\ (phase = "run" => Ready) /\ d.downs[s] > 0
    /\ LET landed == [d EXCEPT !.downs[s] = @ - 1]
           dr == IF proven THEN landed ELSE taint_unproven_scope(landed, s)
           done == IF phase = "run" THEN scope_quiesced(dr, s)
                   ELSE s \notin dr.spawns /\ dr.downs[s] = 0
       IN  /\ d' = Rested(dr, s, done)
           /\ calls' = resolve_unwatch_waiters(calls, dr, s, done)
    /\ running' = [running EXCEPT ![s] = @ - (IF proven THEN 1 ELSE 0)]
    /\ UNCHANGED <<reg, outside, dead>>

-----------------------------------------------------------------------------
(* Replacement: a new stream beside the old one, or on a descending        *)
(* backend a wider root on the same stream (the widen).                    *)

\* `widen_predicate`: the new root is strictly above the old one.
widen_predicate(old, new) == StartsWith(old, new) /\ old # new

NoRoot == [path |-> <<>>, id |-> 0, anc |-> {}]
ReplaceState(who, path, mode) ==
    [who |-> who, path |-> path, mode |-> mode, root |-> NoRoot, left |-> 0]
dispatch_replace_spawn(dr, s, rs) ==
    [dr EXCEPT !.spawns = @ \cup {s}, !.replaces = Put(@, s, rs)]

\* A replacement that ends with a: its state and its reservation are dropped,
\* and waiters that were held up by it are told.
Ends(dr, r, s, a) ==
    LET rs == d.replaces[s]
        left == [dr EXCEPT !.replaces = Drop(@, {s})]
        done == scope_quiesced(left, s)
    IN  /\ d' = Rested(left, s, done)
        /\ reg' = drop_reservation(r, rs.path)
        /\ calls' = resolve_unwatch_waiters(answer(calls, rs.who, a), left, s, done)

TakeReplace ==
    /\ Ready /\ Takes("replace")
    /\ LET s == Cmd.s
           refusal == IF s \notin d.handles THEN "unknown root"
                      ELSE IF teardown_pressure(d) >= MAX_TEARDOWN_BACKLOG THEN "backlog"
                      ELSE IF s \in DOMAIN d.replaces THEN "in flight" ELSE "none"
       IN  \/ /\ refusal # "none"
              /\ calls' = answer(calls, Cmd.who, Refused(refusal))
              /\ reg' = drop_reservation(reg, Cmd.path)
              /\ UNCHANGED d
           \/ /\ refusal = "none"
              /\ s \in d.descending /\ widen_predicate(reg.live[s].path, Cmd.path)
              /\ d' = [d EXCEPT !.replaces = Put(@, s, ReplaceState(Cmd.who, Cmd.path, "meta"))]
              /\ UNCHANGED <<calls, reg>>
           \/ /\ refusal = "none"       \* or the root is pruned: no widen
              /\ d' = dispatch_replace_spawn(d, s, ReplaceState(Cmd.who, Cmd.path, "spawning"))
              /\ UNCHANGED <<calls, reg>>
    /\ UNCHANGED <<unwinds, front, running, dead>>

retire_old(dr, s) == submit_teardown(dr, s)

\* Mutant: break before make.
commit_replace_break_first(dr, s, root, desc) ==
    LET conflict == final_root_conflict(reg, root, d.replaces[s].path, {s})
    IN  IF conflict # {}
        THEN Ends(TeardownStream(submit_teardown(dr, s), s), scope_dead(reg, s), s, Overlaps(conflict))
        ELSE Ends(GoesLive(retire_old(dr, s), s, desc), scope_live(reg, s, root), s, Acked("ok"))

\* `commit_replace`: make before break, the old stream retired last.
commit_replace(dr, s, root, desc) ==
    LET conflict == final_root_conflict(reg, root, d.replaces[s].path, {s})
    IN  IF conflict # {}
        THEN Ends(submit_teardown(dr, s), reg, s, Overlaps(conflict))
        ELSE Ends(GoesLive(retire_old(dr, s), s, desc), scope_live(reg, s, root), s, Acked("ok"))

SpawnedReplacement(s, root, desc) ==
    /\ Ready /\ s \in d.spawns \cap DOMAIN d.replaces
    /\ root \in Lands[d.replaces[s].path]
    /\ \/ /\ s \notin d.handles
          /\ Ends(submit_teardown(Spawn(d, s), s), reg, s, Refused("retired"))
       \/ /\ s \in d.handles /\ (s \in d.descending) # desc
          /\ Ends(submit_teardown(Spawn(d, s), s), reg, s, Refused("diverged"))
       \/ /\ s \in d.handles /\ s \notin d.descending /\ ~desc
          /\ commit_replace(Spawn(d, s), s, root, desc)
       \/ /\ s \in d.handles /\ s \in d.descending /\ desc
          /\ d' = [Spawn(d, s) EXCEPT !.replaces[s].mode = "arming", !.replaces[s].root = root]
          /\ UNCHANGED <<reg, calls>>
    /\ running' = [running EXCEPT ![s] = @ + 1]
    /\ UNCHANGED <<outside, dead>>

SpawnFailedReplacement(s, rollback) ==
    /\ Ready /\ s \in d.spawns \cap DOMAIN d.replaces
    /\ Ends(IF rollback THEN submit_teardown(Spawn(d, s), s) ELSE Spawn(d, s),
            reg, s, Refused("source"))
    /\ running' = [running EXCEPT ![s] = @ + (IF rollback THEN 1 ELSE 0)]
    /\ UNCHANGED <<outside, dead>>

InMode(s, mode) == Ready /\ s \in DOMAIN d.replaces /\ d.replaces[s].mode = mode

\* The replacement's root watch was armed on the new stream, or was not.
RebindArmed(s, ok) ==
    /\ InMode(s, "arming")
    /\ IF s \in d.handles /\ ok
       THEN commit_replace(d, s, d.replaces[s].root, TRUE)
       ELSE Ends(submit_teardown(d, s), reg, s, Refused("source"))
    /\ UNCHANGED <<outside, running, dead>>

\* What the wider path names was resolved off the loop; the root may have been
\* released meanwhile, and the ground may not be one frame (`same`).
ReplaceMeta(s, ok, root, same) ==
    /\ InMode(s, "meta") /\ root \in Lands[d.replaces[s].path]
    /\ LET rs == d.replaces[s]
       IN  \/ /\ ~ok \/ s \notin d.handles
              /\ Ends(d, reg, s, Refused("source"))
           \/ /\ ok /\ s \in d.handles
              /\ d' = IF same /\ widen_predicate(reg.live[s].path, root.path)
                      THEN [d EXCEPT !.replaces[s].mode = "widening", !.replaces[s].root = root]
                      ELSE dispatch_replace_spawn(d, s, ReplaceState(rs.who, rs.path, "spawning"))
              /\ UNCHANGED <<reg, calls>>
    /\ UNCHANGED <<outside, running, dead>>

WidenArmed(s, ok, left) ==
    /\ InMode(s, "widening")
    /\ IF s \in d.handles /\ ok
       THEN /\ d' = [d EXCEPT !.replaces[s].mode = "catching up", !.replaces[s].left = left]
            /\ UNCHANGED <<reg, calls>>
       ELSE Ends(d, reg, s, Refused("source"))
    /\ UNCHANGED <<outside, running, dead>>

\* A message of the lane a widen is catching up on is read.
CatchUpItem(s) ==
    /\ InMode(s, "catching up") /\ d.replaces[s].left > 0
    /\ d' = [d EXCEPT !.replaces[s].left = @ - 1]
    /\ UNCHANGED <<reg, calls, outside, running, dead>>

\* The wider root goes live on the stream the scope has.
commit_widen(s, root) == Ends(d, scope_live(reg, s, root), s, Acked("ok"))

\* The window was tainted: a new stream is spawned as for any other replacement.
falls_back(s, rs) ==
    /\ d' = dispatch_replace_spawn(d, s, ReplaceState(rs.who, rs.path, "spawning"))
    /\ UNCHANGED <<reg, calls>>

\* `resolve_widen_catchups`: the widen commits on the stream it has, or, when
\* what was read in the window taints it, falls back to a new stream.
ResolveCatchUp(s, clean) ==
    /\ phase = "run" /\ Caught(s)
    /\ LET rs == d.replaces[s]
           conflict == final_root_conflict(reg, rs.root, rs.path, {s})
       IN  \/ /\ s \notin d.handles
              /\ Ends(d, reg, s, Refused("retired"))
           \/ /\ s \in d.handles /\ conflict # {}
              /\ Ends(d, reg, s, Overlaps(conflict))
           \/ /\ s \in d.handles /\ conflict = {} /\ clean
              /\ commit_widen(s, rs.root)
           \/ /\ s \in d.handles /\ conflict = {} /\ ~clean
              /\ falls_back(s, rs)
    /\ UNCHANGED <<outside, running, dead>>

-----------------------------------------------------------------------------
(* Close: every stream is retired, the results of one grace period are     *)
(* drained, and what is still owed is reported.                            *)

Arming == {s \in DOMAIN d.replaces : d.replaces[s].mode = "arming"}
ClosedTo(cs, S) == [c \in Clients |-> IF c \in S THEN [cs[c] EXCEPT !.ans = Acked("closed")] ELSE cs[c]]

TakeClose ==
    /\ Ready /\ Takes("close")
    /\ phase' = "closing"
    /\ d' = [d EXCEPT !.handles = {}, !.replaces = Empty,
                      !.downs = [s \in Scope |-> @[s] + (IF s \in d.handles THEN 1 ELSE 0)
                                                      + (IF s \in Arming THEN 1 ELSE 0)]]
    /\ reg' = [live |-> Empty,
               pending |-> Drop(reg.pending, {d.replaces[s].path : s \in DOMAIN d.replaces})]
    /\ calls' = ClosedTo(calls, {d.replaces[s].who : s \in DOMAIN d.replaces} \ {Gone})
    /\ UNCHANGED <<unwinds, held, released, reported, running, dead>>

swept(dr, s) == submit_teardown(dr, s)

\* A spawn that lands during the close, or after it (`deliver_spawned`, the
\* driver's own queue dropped): its stream goes straight to the reaper.
LateSpawn(s, made) ==
    /\ phase # "run" /\ s \in d.spawns
    /\ LET dr == IF made THEN swept(Spawn(d, s), s) ELSE Spawn(d, s)
           done == phase = "closing" /\ dr.downs[s] = 0
       IN  /\ d' = Rested(dr, s, done)
           /\ calls' = resolve_unwatch_waiters(calls, dr, s, done)
    /\ running' = [running EXCEPT ![s] = @ + (IF made THEN 1 ELSE 0)]
    /\ UNCHANGED <<reg, outside, dead>>

outstanding(dr) == Total(Landed(dr)) + Cardinality(dr.spawns)

\* Everything has landed, or the grace ran out.  The driver returns: every
\* reply it still holds, and every command in its channel, is dropped.
CloseReply ==
    /\ phase = "closing" /\ phase' = "closed"
    /\ reported' = outstanding(d)
    /\ d' = [d EXCEPT !.watch_replies = Empty, !.deferred = Empty,
                      !.waiters = [s \in Scope |-> <<>>], !.arms = {}]
    /\ calls' = ClosedTo(calls, {c \in Clients : calls[c] # Idle /\ calls[c].ans = Waiting})
    /\ reg' = [reg EXCEPT !.pending =
                  Drop(@, {commands[i].path : i \in {j \in DOMAIN commands : commands[j].op = "replace"}})]
    /\ commands' = <<>> /\ unwinds' = <<>>
    /\ UNCHANGED <<held, released, running, dead>>

\* The driver's task is dropped where it stands (its runtime shuts down): the
\* streams it holds go to the reapers, and every reply it holds is dropped.
TaskDropped ==
    /\ phase # "closed" /\ phase' = "closed"
    /\ d' = [d EXCEPT !.handles = {}, !.replaces = Empty,
                      !.downs = [s \in Scope |-> @[s] + (IF s \in d.handles THEN 1 ELSE 0)
                                                      + (IF s \in Arming THEN 1 ELSE 0)],
                      !.watch_replies = Empty, !.deferred = Empty,
                      !.waiters = [s \in Scope |-> <<>>], !.arms = {}]
    /\ calls' = ClosedTo(calls, {c \in Clients : calls[c] # Idle /\ calls[c].ans = Waiting})
    /\ reg' = [reg EXCEPT !.pending = Drop(Drop(@, {d.replaces[s].path : s \in DOMAIN d.replaces}),
                  {commands[i].path : i \in {j \in DOMAIN commands : commands[j].op = "replace"}})]
    /\ commands' = <<>> /\ unwinds' = <<>>
    /\ UNCHANGED <<held, released, reported, running, dead>>

\* The reapers outlive the driver.
LateDown(s, proven) ==
    /\ phase = "closed" /\ d.downs[s] > 0
    /\ d' = [d EXCEPT !.downs[s] = @ - 1, !.unproven[s] = @ + (IF proven THEN 0 ELSE 1)]
    /\ running' = [running EXCEPT ![s] = @ - (IF proven THEN 1 ELSE 0)]
    /\ UNCHANGED <<reg, calls, outside, dead>>

-----------------------------------------------------------------------------
(* The callers of the watcher.                                             *)

Room == phase # "closed" /\ Len(commands) < COMMAND_CAPACITY
Call(op, path, s) == [op |-> op, path |-> path, s |-> s, ans |-> Waiting]
Command(op, c, path, s) == [op |-> op, who |-> c, path |-> path, s |-> s, awaited |-> TRUE]
Send(cmd) == Room /\ commands' = Append(commands, cmd)

Queued(op) == {i \in DOMAIN commands : commands[i].op = op}
\* Streams that may still be given a lane by what is under way.
Coming == Cardinality(d.spawns \cup DOMAIN d.replaces) + Cardinality(Queued("watch"))
              + Cardinality(Queued("replace"))
WatchBound == /\ d.scope_seq + Cardinality(Queued("watch")) < MaxScopes
              /\ Len(d.lane_of) + Coming < MaxLane
ReplaceBound == Len(d.lane_of) + Coming < MaxLane

\* `watch_with`: the root is reserved, then the driver is asked for it.
CallWatch(c, root) ==
    /\ calls[c] = Idle /\ WatchBound
    /\ overlap_of(reg, root.path, root.id, {}) = {}
    /\ reg' = take_reservation(reg, root.path, root.id)
    /\ Send(Command("watch", c, root.path, 0))
    /\ calls' = [calls EXCEPT ![c] = Call("watch", root.path, 0)]
    /\ UNCHANGED <<d, unwinds, front, running, dead>>

\* `replace_root`: the reservation travels in the command.
CallReplace(c, s, root) ==
    /\ calls[c] = Idle /\ s \in held /\ ReplaceBound
    /\ overlap_of(reg, root.path, root.id, {s}) = {}
    /\ reg' = take_reservation(reg, root.path, root.id)
    /\ Send(Command("replace", c, root.path, s))
    /\ calls' = [calls EXCEPT ![c] = Call("replace", root.path, s)]
    /\ UNCHANGED <<d, unwinds, front, running, dead>>

Release(s) == held' = held \ {s} /\ released' = released \cup {s}

CallUnwatch(c, s) ==
    /\ calls[c] = Idle /\ s \in held \cup released
    /\ Send(Command("unwatch", c, <<>>, s)) /\ Release(s)
    /\ calls' = [calls EXCEPT ![c] = Call("unwatch", <<>>, s)]
    /\ UNCHANGED <<d, reg, unwinds, phase, reported, running, dead>>

\* `request_unwatch`: no reply, and nothing when the channel is full.
RequestUnwatch(s) ==
    /\ s \in held /\ Send([Command("unwatch", Gone, <<>>, s) EXCEPT !.awaited = FALSE]) /\ Release(s)
    /\ UNCHANGED <<d, reg, calls, unwinds, phase, reported, running, dead>>

CallClose(c) ==
    /\ calls[c] = Idle /\ phase = "run" /\ Send(Command("close", c, <<>>, 0))
    /\ calls' = [calls EXCEPT ![c] = Call("close", <<>>, 0)]
    /\ UNCHANGED <<d, reg, unwinds, front, running, dead>>

\* `driver_gone`: a caller whose reply was dropped empties the registry.
driver_gone(r, a) == IF a = Acked("closed") THEN [r EXCEPT !.live = Empty] ELSE r

\* The caller takes its answer; a watch gives its reservation back.
TakeAnswer(c) ==
    /\ calls[c] # Idle /\ calls[c].ans # Waiting
    /\ calls' = [calls EXCEPT ![c] = Idle]
    /\ reg' = driver_gone(IF calls[c].op = "watch" THEN drop_reservation(reg, calls[c].path) ELSE reg,
                          calls[c].ans)
    /\ held' = IF calls[c].ans.k = "grant" THEN held \cup {calls[c].ans.s} ELSE held
    /\ UNCHANGED <<d, commands, unwinds, released, phase, reported, running, dead>>

Orphaned(f, c) == [x \in DOMAIN f |-> IF f[x].who = c THEN [f[x] EXCEPT !.who = Gone] ELSE f[x]]

\* Mutant: a dropped grant unwinds nothing.
drop_grant_silently(us, call) == us

\* `WatchGrant::drop`: a grant that was never taken asks for its unwatch.
drop_grant(us, call) == IF call.ans.k = "grant" /\ phase # "closed" THEN Append(us, call.ans.s) ELSE us

\* The future of a call is dropped, wherever the call has got to.
Cancel(c) ==
    /\ calls[c] # Idle
    /\ calls' = [calls EXCEPT ![c] = Idle]
    /\ commands' = Orphaned(commands, c)
    /\ d' = Pruned([d EXCEPT !.watch_replies = Orphaned(@, c), !.deferred = Orphaned(@, c),
                             !.replaces = Orphaned(@, c),
                             !.waiters = [s \in Scope |-> Orphaned(@[s], c)]])
    /\ unwinds' = drop_grant(unwinds, calls[c])
    /\ reg' = IF calls[c].op = "watch" THEN drop_reservation(reg, calls[c].path) ELSE reg
    /\ UNCHANGED <<front, running, dead>>

-----------------------------------------------------------------------------
\* Steps in which nothing goes wrong: the driver takes what is sent to it ...
Commands == TakeWatch \/ TakeReplace \/ TakeUnwatch \/ TakeUnwind \/ TakeClose \/ CloseReply

\* ... an operation in flight for s comes to its end ...
Finishes(s) ==
    \/ TornDown(s, TRUE) \/ RebindArmed(s, TRUE) \/ ResolveCatchUp(s, TRUE)
    \/ LateSpawn(s, TRUE) \/ LateDown(s, TRUE) \/ CatchUpItem(s)
    \/ \E n \in 0 .. MaxTail : WidenArmed(s, TRUE, n)
    \/ \E p \in Paths : \E root \in Lands[p] :
          \/ \E desc \in Descends : SpawnedBirth(s, root, desc) \/ SpawnedReplacement(s, root, desc)
          \/ ReplaceMeta(s, TRUE, root, TRUE)

\* ... a root's own watch is installed, and the end of a stream is read.
Installs(s) == \E a \in d.arms : a.s = s /\ WatchInstalled(a, TRUE)
Hears(s) == \E l \in {n \in DOMAIN d.lane_of : d.lane_of[n] = s} : SourceEnds(l)

Quiet == Commands \/ \E s \in Scope : Finishes(s) \/ Installs(s) \/ Hears(s) \/ RearmRoot(s)

\* ... and those in which something does.
Faults ==
    \/ \E s \in Scope :
          \/ \E rollback \in BOOLEAN : SpawnFailedBirth(s, rollback) \/ SpawnFailedReplacement(s, rollback)
          \/ TornDown(s, FALSE) \/ RebindArmed(s, FALSE) \/ ResolveCatchUp(s, FALSE)
          \/ LateSpawn(s, FALSE) \/ LateDown(s, FALSE) \/ WidenArmed(s, FALSE, 0) \/ StreamDies(s)
          \/ \E p \in Paths : \E root \in Lands[p] :
                ReplaceMeta(s, FALSE, root, TRUE) \/ ReplaceMeta(s, TRUE, root, FALSE)
    \/ \E a \in d.arms : WatchInstalled(a, FALSE)

Mishaps == Faults \/ TaskDropped \/ \E c \in Clients : Cancel(c)

Takeaways == \E c \in Clients : TakeAnswer(c)

Asks ==
    \/ \E c \in Clients, p \in Paths : \E root \in Lands[p] :
          \/ CallWatch(c, root)
          \/ \E s \in held : CallReplace(c, s, root)
    \/ \E c \in Clients, s \in held \cup released : CallUnwatch(c, s)
    \/ \E s \in held : RequestUnwatch(s)
    \/ \E c \in Clients : CallClose(c)

\* What was torn down after its grant: nothing gates its retirement.
Ungated == ended' = ended \cup {s \in d.handles \ d'.handles : s \notin DOMAIN d.deferred}

\* Taking the answer of any call but a watch touches nothing else: it is taken at
\* once, which loses no behaviour of the rest.
Taken == \A c \in Clients : calls[c] # Idle /\ calls[c].ans # Waiting => calls[c].op = "watch"

Next ==
    /\ \/ Takeaways /\ UNCHANGED <<mishaps, asked>>
       \/ Taken /\ Quiet /\ UNCHANGED <<mishaps, asked>>
       \/ Taken /\ asked < MaxCalls /\ Asks /\ asked' = asked + 1 /\ UNCHANGED mishaps
       \/ Taken /\ mishaps < MaxMishaps /\ Mishaps /\ mishaps' = mishaps + 1 /\ UNCHANGED asked
    /\ Ungated

Spec == Init /\ [][Next]_vars

-----------------------------------------------------------------------------
One(p) == IF p THEN 1 ELSE 0

\* No two live roots overlap: not by path, not by being one directory under two
\* names, not by one lying inside the other under another name.  A reservation is
\* taken on what the path named when the call was made; the stream lands later,
\* and the old root of a replacement is live beside the new one's reservation.
LiveRootsDisjoint ==
    \A s, t \in DOMAIN reg.live : s # t =>
        LET a == reg.live[s]
            b == reg.live[t]
        IN  ~StartsWith(a.path, b.path) /\ a.id # b.id /\ a.id \notin b.anc

\* Every native stream that exists is in somebody's hands: it is a scope's
\* stream, a replacement being armed, or owed to (or given up on by) a reaper.
\* None is dropped on a refusal, a rollback, a late result or a close.
EveryStreamHeld ==
    \A s \in Scope :
        running[s] = One(s \in d.handles) + One(s \in Arming) + d.downs[s] + d.unproven[s]

\* An awaited unwatch answers Torn only when every native stream of the scope is
\* proven gone, the one a replacement had in flight included.
TornMeansGone ==
    \A c \in Clients :
        calls[c] # Idle /\ calls[c].ans = Acked("torn") =>
            running[calls[c].s] = 0 /\ calls[c].s \notin d.spawns

\* A grant that is in its reply, and one that was dropped there.
Grantee(c, s) == calls[c] # Idle /\ calls[c].ans = Granted(s)
Promised(s) == \E c \in Clients : Grantee(c, s)
Discarded(s) == \E i \in DOMAIN unwinds : unwinds[i] = s

\* A live stream has an owner, or its end is already on the way: a caller holds
\* its handle or is about to (the grant is in its reply, or waits for the root's
\* watch), or an unwatch of it is queued.
NoOrphan ==
    phase = "run" => \A s \in d.handles :
        \/ s \in held \/ Promised(s) \/ Discarded(s)
        \/ s \in DOMAIN d.deferred /\ [s |-> s, lane |-> d.lanes[s]] \in d.arms
        \/ \E i \in DOMAIN commands : commands[i].op = "unwatch" /\ commands[i].s = s

\* A root that was not released stays live unless the stream it was living on
\* failed: nothing a retired stream still says ends its successor.
KeptUntilReleased ==
    phase = "run" => \A s \in held : s \in d.handles \/ \E l \in dead : d.lane_of[l] = s

\* The registry names exactly the live streams, and a reservation lasts no longer
\* than the call or the replacement that took it: no path stays refused for ever.
RegistryHonest ==
    /\ phase = "run" => DOMAIN reg.live = d.handles
    /\ \A p \in DOMAIN reg.pending :
          \/ \E c \in Clients : calls[c] # Idle /\ calls[c].op = "watch" /\ calls[c].path = p
          \/ \E i \in Queued("replace") : commands[i].path = p
          \/ \E s \in DOMAIN d.replaces : d.replaces[s].path = p

\* The registry of roots is sound.
RootsSound == LiveRootsDisjoint /\ RegistryHonest

\* The retired streams of each root, and the one its work in flight may retire.
InFlight == d.spawns \cup DOMAIN d.replaces \cup DOMAIN d.deferred
Backlog ==
    [s \in Scope |->
        Max({0, d.downs[s] + d.unproven[s] - One(s \in ended) + One(s \in InFlight)})]

\* The streams retired and not reclaimed, with those the work in flight may still
\* retire, stay within MAX_TEARDOWN_BACKLOG, but for one of each root its owner
\* gave back: however many operations are admitted at once.
BacklogBounded == phase = "run" => Total(Backlog) <= MAX_TEARDOWN_BACKLOG

\* Every native stream is held, owned and within the backlog's limit.
StreamsSound == EveryStreamHeld /\ NoOrphan /\ BacklogBounded

\* close() that reports nothing left leaves no native stream running and none
\* that may still start.
CloseHonest == reported = 0 => d.spawns = {} /\ \A s \in Scope : running[s] = 0

\* What a caller is told, or may rely on, of a stream's end is true.
AnswersHonest == TornMeansGone /\ KeptUntilReleased /\ CloseHonest

\* A replacement that fails leaves the root it was to replace as it was: on its
\* stream, its lane and its ground.
ReplaceAtomic ==
    [][\A c \in Clients :
         calls[c] # Idle /\ calls[c].op = "replace" /\ calls'[c] # Idle /\ calls'[c].ans.k = "err" =>
             LET s == calls[c].s
             IN  s \in d.handles =>
                     /\ s \in d'.handles /\ d'.lanes[s] = d.lanes[s]
                     /\ reg'.live[s] = reg.live[s]]_vars

-----------------------------------------------------------------------------
(* The inductive invariant.                                                *)

Whose == Clients \cup {Gone}
Waiter == [who : Whose, verdict : {"torn", "unknown", "unproven"}]
Modes == {"meta", "spawning", "widening", "catching up", "arming"}
Calls == {"watch", "replace", "unwatch", "close"}
Where == {<<>>} \cup {root.path : root \in UNION {Lands[p] : p \in Paths}}
Fields == {"scope_seq", "handles", "lanes", "lane_of", "descending", "spawns", "downs", "unproven",
           "watch_replies", "deferred", "arms", "replaces", "waiters"}

DriverTyped ==
    /\ DOMAIN d = Fields
    /\ d.scope_seq \in Nat /\ d.spawns \subseteq 1 .. d.scope_seq
    /\ d.handles \subseteq Scope /\ d.lane_of \in Seq(Scope)
    /\ d.downs \in [Scope -> Nat] /\ d.unproven \in [Scope -> Nat]
    /\ \A s \in DOMAIN d.watch_replies : DOMAIN d.watch_replies[s] = {"who", "path"}
    /\ \A s \in DOMAIN d.deferred : DOMAIN d.deferred[s] = {"who", "path"}
    /\ \A s \in DOMAIN d.replaces :
          /\ s \in Scope /\ DOMAIN d.replaces[s] = {"who", "path", "mode", "root", "left"}
          /\ d.replaces[s].mode \in Modes
    /\ d.waiters \in [Scope -> Seq(Waiter)]

CallsTyped ==
    /\ DOMAIN calls = Clients
    /\ \A c \in Clients : calls[c] # Idle =>
          /\ DOMAIN calls[c] = {"op", "path", "s", "ans"} /\ calls[c].op \in Calls
          /\ calls[c].ans.k = "grant" => calls[c].ans.s \in Scope /\ calls[c].ans = Granted(calls[c].ans.s)
    /\ commands \in Seq([op : Calls, who : Whose, path : Where, s : Scope \cup {0}, awaited : BOOLEAN])
    /\ unwinds \in Seq(Scope)
    /\ held \subseteq Scope /\ released \subseteq Scope

HistoryTyped ==
    /\ DOMAIN reg = {"live", "pending"}
    /\ phase \in {"run", "closing", "closed"} /\ reported \in Int
    /\ running \in [Scope -> Int] /\ dead \subseteq DOMAIN d.lane_of

\* A driver that was closed or dropped holds no stream and no replacement, and
\* nobody is told before that it is gone.
PhasesSound ==
    /\ phase # "run" => d.handles = {} /\ DOMAIN d.replaces = {}
    /\ reported >= 0 => phase = "closed"
    /\ phase = "closed" => \A s \in Scope : d.waiters[s] = <<>>
    /\ \A c \in Clients : calls[c] # Idle /\ calls[c].ans = Acked("closed") => phase # "run"

\* Every scope is at one stage of its life: it is born, waits for its root's
\* watch, is live, is being replaced.
StagesSound ==
    phase = "run" =>
        /\ DOMAIN d.replaces \cup d.handles \cup ended \subseteq 1 .. d.scope_seq
        /\ DOMAIN d.watch_replies = d.spawns \ DOMAIN d.replaces
        /\ DOMAIN d.watch_replies \cap (d.handles \cup ended) = {}
        /\ ended \cap d.handles = {}
        /\ \A s \in d.spawns \cap DOMAIN d.replaces : d.replaces[s].mode = "spawning"
        /\ \A s \in DOMAIN d.deferred :
              /\ s \in d.handles /\ s \notin DOMAIN d.replaces
              /\ [s |-> s, lane |-> d.lanes[s]] \in d.arms

\* The lane of a live scope is its own.
LanesSound ==
    phase = "run" =>
        /\ DOMAIN d.lanes = d.handles
        /\ \A s \in d.handles : d.lanes[s] \in DOMAIN d.lane_of /\ d.lane_of[d.lanes[s]] = s

\* A root's watch that is being armed is of a scope already live once, and where a
\* grant waits for it, of the lane it waits on.  The reply half of a birth is a
\* caller's, or nobody's any more.
GatesSound ==
    phase = "run" =>
        /\ \A a \in d.arms :
              /\ a.s \in 1 .. d.scope_seq /\ a.s \notin DOMAIN d.watch_replies
              /\ a.s \in DOMAIN d.deferred => a = [s |-> a.s, lane |-> d.lanes[a.s]]
        /\ \A s \in DOMAIN d.watch_replies : d.watch_replies[s].who \in Whose
        /\ \A s \in DOMAIN d.deferred : d.deferred[s].who \in Whose

\* A scope is unknown outside the driver until it is granted, and its handle is in
\* one place: in the reply, with its owner, dropped unseen, or given back.
OwnersSound ==
    phase = "run" =>
        /\ \A s \in Scope :
              /\ s \in held \cup released \cup DOMAIN d.deferred \/ Promised(s) \/ Discarded(s) =>
                    s \in 1 .. d.scope_seq /\ s \notin DOMAIN d.watch_replies
              /\ s \in held => s \notin released
              /\ s \in DOMAIN d.deferred => s \notin held \cup released
              /\ Promised(s) => s \notin held \cup released \cup DOMAIN d.deferred
              /\ Discarded(s) => s \notin held \cup DOMAIN d.deferred /\ ~Promised(s)
              /\ \A c, o \in Clients : Grantee(c, s) /\ Grantee(o, s) => c = o
        /\ \A s \in DOMAIN d.replaces : s \in held \cup released
        /\ \A s \in Scope : d.waiters[s] # <<>> => s \in released /\ s \notin d.handles

\* What is asked of a scope comes from who has it, or gave it back.
AskersSound ==
    /\ \A c \in Clients :
          calls[c] # Idle /\ calls[c].op \in {"replace", "unwatch"} => calls[c].s \in held \cup released
    /\ \A i \in DOMAIN commands :
          /\ commands[i].op = "replace" => commands[i].s \in held \cup released
          /\ commands[i].op = "unwatch" => commands[i].s \in released

\* The reply half of a call is in one place, until the call is answered.
Open(c) == calls[c] # Idle /\ calls[c].ans = Waiting
InDriver(c) ==
    \/ \E s \in DOMAIN d.watch_replies : d.watch_replies[s].who = c
    \/ \E s \in DOMAIN d.deferred : d.deferred[s].who = c
    \/ \E s \in DOMAIN d.replaces : d.replaces[s].who = c
    \/ \E s \in Scope : \E i \in DOMAIN d.waiters[s] : d.waiters[s][i].who = c
PlacesSound ==
    \A c \in Clients :
        /\ \A i \in DOMAIN commands : commands[i].who = c =>
              /\ Open(c) /\ calls[c].op = commands[i].op /\ calls[c].s = commands[i].s
              /\ ~InDriver(c) /\ \A j \in DOMAIN commands : commands[j].who = c => j = i
        /\ \A s \in DOMAIN d.watch_replies : d.watch_replies[s].who = c =>
              /\ Open(c) /\ calls[c].op = "watch"
              /\ \A t \in DOMAIN d.watch_replies : d.watch_replies[t].who = c => t = s
              /\ \A t \in DOMAIN d.deferred : d.deferred[t].who # c
        /\ \A s \in DOMAIN d.deferred : d.deferred[s].who = c =>
              /\ Open(c) /\ calls[c].op = "watch"
              /\ \A t \in DOMAIN d.deferred : d.deferred[t].who = c => t = s
        /\ \A s \in DOMAIN d.replaces : d.replaces[s].who = c =>
              Open(c) /\ calls[c].op = "replace" /\ calls[c].s = s
        /\ \A s \in Scope : \A i \in DOMAIN d.waiters[s] : d.waiters[s][i].who = c =>
              Open(c) /\ calls[c].op = "unwatch" /\ calls[c].s = s

\* A verdict holds of what was torn down so far, and for good once it is told.
VerdictsSound ==
    /\ \A s \in Scope : \A i \in DOMAIN d.waiters[s] :
          d.waiters[s][i].verdict = "torn" => d.unproven[s] = 0
    /\ \A c \in Clients : calls[c] # Idle /\ calls[c].ans = Acked("torn") =>
          LET s == calls[c].s
          IN  /\ s \in Scope /\ calls[c].op = "unwatch"
              /\ s \notin d.handles \cup d.spawns \cup DOMAIN d.replaces
              /\ d.downs[s] = 0 /\ d.unproven[s] = 0

\* A root that was granted is live unless its stream failed.
GrantsKept ==
    phase = "run" => \A s \in Scope :
        s \in held \/ Promised(s) => s \in d.handles \/ \E l \in dead : d.lane_of[l] = s

ScopesIInv ==
    /\ DriverTyped /\ CallsTyped /\ HistoryTyped /\ PhasesSound /\ StagesSound /\ LanesSound
    /\ OwnersSound /\ AskersSound /\ PlacesSound /\ VerdictsSound /\ GrantsKept
    /\ RootsSound /\ StreamsSound /\ CloseHonest

Inductive == ScopesIInv /\ GatesSound

=============================================================================

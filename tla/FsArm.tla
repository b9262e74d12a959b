------------------------------- MODULE FsArm --------------------------------
(***************************************************************************)
(* The filesystem source of the umbrella crate                             *)
(* (tributaries/src/source/fs/mod.rs) over the watcher and driver of       *)
(* FsScopes.  One owner uses it, one call at a time: arm, replace and grow *)
(* are awaited, disarm and set_cover are not, and what the command channel *)
(* has no room for waits in the source.                                    *)
(*                                                                         *)
(* A release is asked for by disarm and reaches the driver later: handed   *)
(* off by an arm, or awaited by an arm the watcher refuses because of it.  *)
(* A synchronous call finds the room the channel has when it begins.       *)
(***************************************************************************)
EXTENDS FsScopes, SequencesExt

CONSTANTS
    src,                              \* the one client of the watcher
    OPPORTUNISTIC_RELEASE_HANDOFFS,
    MaxAsks,                          \* bound: calls of the source, but for disarms
    MaxReplaces                       \* bound: a replace is among the first after the first arm

ASSUME FsArmAssumption ==
    /\ Clients = {src}
    /\ OPPORTUNISTIC_RELEASE_HANDOFFS \in Nat \ {0} /\ {MaxAsks, MaxReplaces} \subseteq Nat

VARIABLES
    fs,       \* FsSource: pending (releases), enqueued, set (pending_set), deferred (prunes)
    op,       \* the owner's call: its stage, and how the last one ended
    keys,     \* scope -> the key its owner was told, for the roots it holds
    cover,    \* scope -> the newest cover the driver applied to it
    made      \* how many calls there were

avars == <<vars, fs, op, keys, cover, made>>

Done(result, existing) == [stage |-> "idle", result |-> result, existing |-> existing]

AInit ==
    /\ Init
    /\ fs = [pending |-> <<>>, enqueued |-> <<>>, set |-> {}, deferred |-> Empty]
    /\ op = Done("none", {}) /\ keys = Empty
    /\ cover = [s \in Scope |-> 0] /\ made = 0

-----------------------------------------------------------------------------
(* The source's pieces.                                                    *)

root_path(s) == s \in DOMAIN reg.live
FreeSlots(cs) == IF phase = "closed" THEN 0 ELSE COMMAND_CAPACITY - Len(cs)

CoverCommand(s, v, awaited) == [Command("cover", IF awaited THEN src ELSE Gone, <<>>, s)
                                   EXCEPT !.awaited = awaited] @@ ("cover" :> v)

\* `flush_deferred_prunes`: the prunes the channel has room for, in any order.
Flushed(f, cs, S) ==
    [fs |-> [f EXCEPT !.deferred = Drop(@, S)],
     commands |-> cs \o SetToSeq({CoverCommand(s, f.deferred[s], FALSE) : s \in S})]
Flushable(f, cs) == {S \in SUBSET DOMAIN f.deferred :
                        Cardinality(S) = Min({FreeSlots(cs), Cardinality(DOMAIN f.deferred)})}

\* Mutant: the prune queued before a newer cover of its root is kept.
superseded_not(f, s) == f

superseded(f, s) == [f EXCEPT !.deferred = Drop(@, {s})]

\* The top of arm: what the watcher has forgotten is forgotten.
pruned(f) ==
    LET alive(e) == root_path(e[1])
    IN  [f EXCEPT !.enqueued = SelectSeq(@, alive), !.set = {s \in @ : root_path(s)}]

\* The releases an arm hands over without waiting.
handed_off(f, cs) ==
    LET n == Min({OPPORTUNISTIC_RELEASE_HANDOFFS, Len(f.pending), FreeSlots(cs)})
        out == SubSeq(f.pending, 1, n)
    IN  [fs |-> [f EXCEPT !.pending = SubSeq(@, n + 1, Len(@)), !.enqueued = @ \o out],
         commands |-> cs \o [i \in 1 .. n |->
             [Command("unwatch", Gone, <<>>, out[i][1]) EXCEPT !.awaited = FALSE]]]

\* Entries of q stored under the path the watcher named.
Named(q, existing) == {i \in DOMAIN q : {q[i][2]} = existing}
FirstNamed(q, existing) == Min(Named(q, existing))

-----------------------------------------------------------------------------
(* arm                                                                     *)

driver == <<d, phase, reported, running, dead, mishaps, asked>>
Asked == op.stage = "idle" /\ made < MaxAsks /\ made' = made + 1

\* An arm may ask the watcher once more for every release in its way.
ArmBound == /\ d.scope_seq + Len(fs.pending) + Len(fs.enqueued) < MaxScopes
            /\ Len(d.lane_of) + Coming < MaxLane

ArmBegin(path) ==
    /\ Asked /\ ArmBound
    /\ \E S \in Flushable(pruned(fs), commands) :
          LET f1 == Flushed(pruned(fs), commands, S)
              f2 == handed_off(f1.fs, f1.commands)
          IN  fs' = f2.fs /\ commands' = f2.commands
    /\ op' = [stage |-> "watch", path |-> path]
    /\ UNCHANGED <<driver, reg, calls, unwinds, held, released, ended, keys, cover>>

\* `watch_with`, refused at once or sent.
ArmWatch(root) ==
    /\ op.stage = "watch" /\ root \in Lands[op.path]
    /\ LET existing == overlap_of(reg, root.path, root.id, {})
       IN  IF existing # {}
           THEN /\ op' = [stage |-> "named", path |-> op.path, existing |-> existing]
                /\ UNCHANGED <<reg, calls, commands>>
           ELSE /\ Send(Command("watch", src, root.path, 0))
                /\ reg' = take_reservation(reg, root.path, root.id)
                /\ calls' = [calls EXCEPT ![src] = Call("watch", root.path, 0)]
                /\ op' = [stage |-> "watching", path |-> op.path]
    /\ UNCHANGED <<driver, unwinds, held, released, ended, fs, keys, cover, made>>

Answered(o) == calls[src] # Idle /\ calls[src].op = o /\ calls[src].ans # Waiting
Answer == calls[src].ans
Heard == calls' = [calls EXCEPT ![src] = Idle]

\* The watcher answers: a root, whose path is read at once, or a refusal.
ArmAnswered ==
    /\ op.stage = "watching" /\ Answered("watch") /\ Heard
    /\ reg' = drop_reservation(reg, calls[src].path)
    /\ \/ /\ Answer.k = "grant" /\ root_path(Answer.s)
          /\ keys' = Put(keys, Answer.s, reg.live[Answer.s].path)
          /\ held' = held \cup {Answer.s} /\ op' = Done("armed", {})
          /\ UNCHANGED released
       \/ /\ Answer.k = "grant" /\ ~root_path(Answer.s)
          /\ op' = [stage |-> "release", s |-> Answer.s, path |-> op.path, dead |-> TRUE]
          /\ released' = released \cup {Answer.s}
          /\ UNCHANGED <<keys, held>>
       \/ /\ Answer.k = "err" /\ Answer.existing # {}
          /\ op' = [stage |-> "named", path |-> op.path, existing |-> Answer.existing]
          /\ UNCHANGED <<keys, held, released>>
       \/ /\ Answer.k # "grant" /\ (Answer.k = "err" => Answer.existing = {})
          /\ op' = Done("refused", {})
          /\ UNCHANGED <<keys, held, released>>
    /\ UNCHANGED <<driver, commands, unwinds, ended, fs, cover, made>>

\* Mutant: only the releases not handed over yet are looked through.
release_of_pending(f, existing) ==
    IF Named(f.pending, existing) # {}
    THEN LET i == FirstNamed(f.pending, existing)
         IN  {[s |-> f.pending[i][1], fs |-> [f EXCEPT !.pending = RemoveAt(@, i)]]}
    ELSE {}

\* The release the watcher's refusal names, taken out of its queue.
release_of(f, existing) ==
    IF Named(f.pending, existing) # {}
    THEN LET i == FirstNamed(f.pending, existing)
         IN  {[s |-> f.pending[i][1], fs |-> [f EXCEPT !.pending = RemoveAt(@, i)]]}
    ELSE IF Named(f.enqueued, existing) # {}
    THEN LET i == FirstNamed(f.enqueued, existing)
         IN  {[s |-> f.enqueued[i][1], fs |-> [f EXCEPT !.enqueued = RemoveAt(@, i)]]}
    ELSE {}

ArmConflict ==
    /\ op.stage = "named"
    /\ LET mine == release_of(fs, op.existing)
       IN  \/ /\ mine = {} /\ op' = Done("overlaps", op.existing)
              /\ UNCHANGED fs
           \/ \E r \in mine :
                 /\ fs' = r.fs
                 /\ op' = [stage |-> "release", s |-> r.s, path |-> op.path, dead |-> FALSE]
    /\ UNCHANGED <<driver, reg, calls, commands, unwinds, held, released, ended, keys, cover, made>>

\* The awaited `unwatch` of the root in the way, or of one dead on arrival.
ArmRelease ==
    /\ op.stage = "release" /\ Send(Command("unwatch", src, <<>>, op.s))
    /\ calls' = [calls EXCEPT ![src] = Call("unwatch", <<>>, op.s)]
    /\ op' = [op EXCEPT !.stage = "releasing"]
    /\ UNCHANGED <<driver, reg, unwinds, held, released, ended, fs, keys, cover, made>>

ArmReleased ==
    /\ op.stage = "releasing" /\ Answered("unwatch") /\ Heard
    /\ fs' = IF op.dead THEN fs ELSE [fs EXCEPT !.set = @ \ {op.s}]
    /\ op' = IF op.dead THEN Done("dead on arrival", {}) ELSE [stage |-> "watch", path |-> op.path]
    /\ UNCHANGED <<driver, reg, commands, unwinds, held, released, ended, keys, cover, made>>

-----------------------------------------------------------------------------
(* disarm, replace, grow and set_cover                                     *)

Forgets(s) == held' = held \ {s} /\ released' = released \cup {s} /\ keys' = Drop(keys, {s})

disarm(s) ==
    /\ op.stage = "idle" /\ s \in held /\ Forgets(s)
    /\ \E S \in Flushable(superseded(fs, s), commands) :
          LET f == Flushed(superseded(fs, s), commands, S)
          IN  /\ commands' = f.commands
              /\ fs' = IF root_path(s)
                       THEN [f.fs EXCEPT !.set = @ \cup {s},
                                         !.pending = Append(@, <<s, reg.live[s].path>>)]
                       ELSE f.fs
    /\ UNCHANGED <<driver, reg, calls, unwinds, ended, op, cover, made>>

\* `replace` begins: prunes are flushed first, then the watcher is asked.
ReplaceBegin(s, path) ==
    /\ Asked /\ s \in held /\ ReplaceBound /\ made <= MaxReplaces
    /\ \E S \in Flushable(superseded(fs, s), commands) :
          LET f == Flushed(superseded(fs, s), commands, S)
          IN  fs' = f.fs /\ commands' = f.commands
    /\ op' = [stage |-> "replace", s |-> s, path |-> path]
    /\ UNCHANGED <<driver, reg, calls, unwinds, held, released, ended, keys, cover>>

ReplaceAsk(root) ==
    /\ op.stage = "replace" /\ root \in Lands[op.path]
    /\ IF ~root_path(op.s) \/ overlap_of(reg, root.path, root.id, {op.s}) # {}
       THEN op' = Done("refused", {}) /\ UNCHANGED <<reg, calls, commands>>
       ELSE /\ Send(Command("replace", src, root.path, op.s))
            /\ reg' = take_reservation(reg, root.path, root.id)
            /\ calls' = [calls EXCEPT ![src] = Call("replace", root.path, op.s)]
            /\ op' = [op EXCEPT !.stage = "replacing"]
    /\ UNCHANGED <<driver, unwinds, held, released, ended, fs, keys, cover, made>>

ReplaceAnswered ==
    /\ op.stage = "replacing" /\ Answered("replace") /\ Heard
    /\ \/ /\ Answer.k = "ok" /\ root_path(op.s)
          /\ keys' = Put(keys, op.s, reg.live[op.s].path) /\ op' = Done("armed", {})
       \/ /\ ~(Answer.k = "ok" /\ root_path(op.s))
          /\ op' = Done("refused", {}) /\ UNCHANGED keys
    /\ UNCHANGED <<driver, reg, commands, unwinds, held, released, ended, fs, cover, made>>

\* `grow`: awaited, but for a root the kernel watches recursively.
GrowBegin(s) ==
    /\ Asked /\ s \in held
    /\ \E S \in Flushable(superseded(fs, s), commands) :
          LET f == Flushed(superseded(fs, s), commands, S)
          IN  fs' = f.fs /\ commands' = f.commands
    /\ op' = IF root_path(s) /\ s \notin d.descending THEN Done("grown", {})
             ELSE [stage |-> "grow", s |-> s, cover |-> made + 1]
    /\ UNCHANGED <<driver, reg, calls, unwinds, held, released, ended, keys, cover>>

GrowAsk ==
    /\ op.stage = "grow"
    /\ Send(CoverCommand(op.s, op.cover, TRUE))
    /\ calls' = [calls EXCEPT ![src] = Call("cover", <<>>, op.s)]
    /\ op' = [op EXCEPT !.stage = "growing"]
    /\ UNCHANGED <<driver, reg, unwinds, held, released, ended, fs, keys, cover, made>>

GrowAnswered ==
    /\ op.stage = "growing" /\ Answered("cover") /\ Heard
    /\ op' = Done(IF Answer.k = "ok" THEN "grown" ELSE "refused", {})
    /\ UNCHANGED <<driver, reg, commands, unwinds, held, released, ended, fs, keys, cover, made>>

\* `set_cover`: a prune nobody waits for, deferred when the channel is full.
set_cover(s) ==
    /\ Asked /\ s \in held /\ s \notin fs.set /\ root_path(s)
    /\ \E S \in Flushable(superseded(fs, s), commands) :
          LET f == Flushed(superseded(fs, s), commands, S)
          IN  IF FreeSlots(f.commands) > 0
              THEN /\ fs' = f.fs
                   /\ commands' = Append(f.commands, CoverCommand(s, made + 1, FALSE))
              ELSE /\ fs' = [f.fs EXCEPT !.deferred = Put(@, s, made + 1)]
                   /\ commands' = f.commands
    /\ UNCHANGED <<driver, reg, calls, unwinds, held, released, ended, op, keys, cover>>

\* The driver takes a cover: applied to a root it knows, else skipped.
TakeCover ==
    /\ Ready /\ Takes("cover")
    /\ cover' = IF Cmd.s \in d.handles THEN [cover EXCEPT ![Cmd.s] = Cmd.cover] ELSE cover
    /\ calls' = answer(calls, Cmd.who, Acked(IF Cmd.s \in d.handles THEN "ok" ELSE "unknown"))
    /\ UNCHANGED <<driver, reg, unwinds, held, released, ended, fs, op, keys, made>>

-----------------------------------------------------------------------------
OwnerAsks ==
    \/ \E p \in Paths : ArmBegin(p) \/ \E s \in held : ReplaceBegin(s, p)
    \/ \E s \in held : disarm(s) \/ GrowBegin(s) \/ set_cover(s)

Proceeds ==
    \/ \E p \in Paths : \E root \in Lands[p] : ArmWatch(root) \/ ReplaceAsk(root)
    \/ ArmAnswered \/ ArmConflict \/ ArmRelease \/ ArmReleased
    \/ ReplaceAnswered \/ GrowAsk \/ GrowAnswered \/ TakeCover

source == <<fs, op, keys, cover, made>>
Driven(A) == A /\ Ungated /\ UNCHANGED <<mishaps, asked, source>>
DriverStep == Driven(Commands \/ \E s \in Scope : Finishes(s) \/ Installs(s) \/ Hears(s))
Troubles == /\ mishaps < MaxMishaps /\ mishaps' = mishaps + 1
            /\ Faults /\ Ungated /\ UNCHANGED <<asked, source>>

ANext == OwnerAsks \/ Proceeds \/ DriverStep \/ Troubles

\* The owner is polled while its call has something to do; the driver is one task
\* that is polled while it has work; the pool and the reapers finish what they run.
AFairness == WF_avars(Proceeds) /\ WF_avars(DriverStep)
ASafe == AInit /\ [][ANext]_avars
ASpec == ASafe /\ AFairness

-----------------------------------------------------------------------------
\* No arm surfaces an overlap with a root whose release was asked for: what it
\* reports is the key of a root its owner still holds, wherever the release of
\* any other has got to (queued here, in the channel, being torn down).
NoReleasedOverlap ==
    [][op'.stage = "idle" /\ op'.result = "overlaps" /\ op # op'
         => \E s \in held : {keys[s]} = op'.existing]_avars

\* A root's cover is never overwritten by one asked for earlier, though a prune
\* the channel had no room for is sent on by whatever call comes next.
NewestCoverWins == [][\A s \in Scope : cover'[s] >= cover[s]]_avars

\* Every call of the source returns: an arm in the face of releases queued, in
\* flight and failing included.
EveryCallReturns == op.stage # "idle" ~> op.stage = "idle"

=============================================================================

------------------------------ MODULE Reconcile ------------------------------
(***************************************************************************)
(* The owner's reconcile (tributaries/src/driver/mod.rs): how a watch or   *)
(* an unwatch is carried out against the source.  Every step that changes  *)
(* the engine is a step of Subsumer; this module adds the source's side,   *)
(* the awaits between planning and committing, the close that may win each *)
(* of them, and the loss of coverage each failure leaves.                  *)
(*                                                                         *)
(* The source is the filesystem one (source/fs/mod.rs): it covers what     *)
(* `kept` says of a root, and its prunes go through a bounded control      *)
(* channel, or wait aside while that is full.                              *)
(***************************************************************************)
EXTENDS Subsumer

CONSTANTS
    ControlCap   \* capacity of the watcher's control channel

ASSUME ControlAssumption == ControlCap \in Nat

VARIABLES
    source,      \* handle -> [key, kept]: the roots it holds, what it covers
    used,        \* the handles it has ever returned
    control,     \* prunes on their way: <<handle, cover>>
    deferred_prunes, \* handle -> cover: those the channel had no room for
    raised,      \* handles a Rescan or an end of the source is queued for
    step,        \* where the owner stands in a reconcile
    asked_cover, \* the cover a grow or a prune is about
    root,        \* the handle it is about
    todo,        \* disarmed roots not restored or retired yet
    closing,     \* `begin_source_close` was called
    quarantined, \* the source unwound out of a call and gets no other
    untold,      \* history: cut off by a gap, and not owed a Rescan for it
    rescanned    \* history: told of a loss by the source itself

svars == <<source, used, control, deferred_prunes, raised>>
ovars == <<step, asked_cover, root, todo, closing, quarantined>>
hvars == <<untold, rescanned>>
rvars == <<vars, svars, ovars, hvars>>

RInit ==
    /\ Init
    /\ source = Empty /\ used = {}
    /\ control = <<>> /\ deferred_prunes = Empty
    /\ raised = {}
    /\ step = "idle" /\ asked_cover = {} /\ root = NoHandle /\ todo = {}
    /\ closing = FALSE /\ quarantined = FALSE
    /\ untold = {} /\ rescanned = {}

-----------------------------------------------------------------------------
(* The source.                                                             *)

\* The root of s is held and covers its key.
Served(s) ==
    /\ subs[s].root \in DOMAIN source
    /\ CoveredBy(subs[s].key, source[subs[s].root].kept)

\* After a step the cohorts the source lost are cut off, those owed a
\* (dominating, parked or pushed) Rescan in it are told.
Tells(told) ==
    untold' = (untold \cup {s \in DOMAIN subs' :
                               ~Served(s)' /\ (s \in DOMAIN subs => Served(s))}) \ told

\* Holding a root anew covers all of it.
Held(h, key) == Put(source, h, [key |-> key, kept |-> {key}])

Covers(f, h) == [f EXCEPT ![h].kept = asked_cover]
asks(h, cover) == root' = h /\ asked_cover' = cover

\* `disarm`: the source gives roots up.
disarm(H) == Drop(source, H)

\* `flush_deferred_prunes`, at every call that touches the watcher, after the
\* prune the call supersedes is dropped: some may find room, the others stay.
flush_deferred_prunes(superseded) ==
    LET rest == Drop(deferred_prunes, superseded) IN
    \/ control' = control /\ deferred_prunes' = rest
    \/ \E h \in DOMAIN rest :
          /\ Len(control) < ControlCap
          /\ control' = Append(control, <<h, rest[h]>>)
          /\ deferred_prunes' = Drop(rest, {h})

\* Mutant: a replace leaves the prune of its root waiting.
superseded_by_replace_not(h) == {}

\* The prune a replace drops, and that a grow drops.
superseded_by_replace(h) == {h}

\* `request_set_cover`: a prune is forwarded, or waits while there is no room.
set_cover(h, cover) ==
    LET rest == Drop(deferred_prunes, {h}) IN
    IF h \notin DOMAIN source
    THEN UNCHANGED <<control, deferred_prunes>>
    ELSE IF Len(control) < ControlCap
    THEN control' = Append(control, <<h, cover>>) /\ deferred_prunes' = rest
    ELSE control' = control /\ deferred_prunes' = Put(rest, h, cover)

\* A prune reaches the watcher.
SourcePrunes ==
    /\ control # <<>>
    /\ LET h == Head(control)[1] IN
       source' = IF h \in DOMAIN source
                 THEN [source EXCEPT ![h].kept = Head(control)[2]] ELSE source
    /\ control' = Tail(control)
    /\ UNCHANGED <<vars, used, deferred_prunes, raised, ovars, rescanned>>
    /\ Tells({})

\* A root goes away under the source, which says so on its stream.
SourceLosesRoot(h) ==
    /\ h \in DOMAIN source
    /\ source' = Drop(source, {h})
    /\ raised' = raised \cup {h}
    /\ UNCHANGED <<vars, used, control, deferred_prunes, ovars, rescanned>>
    /\ Tells({})

\* A pruned root loses a part of what it kept, and a Rescan is queued.  (A
\* root that was never pruned re-arms itself.)
SourceDegrades(h) ==
    /\ h \in DOMAIN source
    /\ source[h].kept \notin {{}, {source[h].key}}
    /\ source' = [source EXCEPT ![h].kept = {}]
    /\ raised' = raised \cup {h}
    /\ UNCHANGED <<vars, used, control, deferred_prunes, ovars, rescanned>>
    /\ Tells({})

-----------------------------------------------------------------------------
(* Planning.                                                               *)

goes(to) == step' = to /\ UNCHANGED <<todo, closing, quarantined>>
same_question == UNCHANGED <<asked_cover, root>>

Request(key, globs) ==
    /\ step = "idle" /\ ~closing /\ ~quarantined
    /\ PlanCovered(key, globs) \/ PlanWiden(key, globs) \/ PlanDisjoint(key, globs)
    /\ goes("planned") /\ same_question
    /\ UNCHANGED <<svars, hvars>>

\* The source no longer has the root the plan joins.
covering_root_dead == plan.root \notin DOMAIN source

\* It is retired, and the request planned again.
CoveringRootDead ==
    /\ step = "planned" /\ plan.kind = "covered"
    /\ covering_root_dead
    /\ AbortWatch
    /\ goes("retire") /\ asks(plan.root, {})
    /\ UNCHANGED <<svars, hvars>>

Joins ==
    /\ step = "planned" /\ plan.kind = "covered"
    /\ ~covering_root_dead
    /\ ~plan.outside
    /\ CommitCovered
    /\ goes("idle") /\ same_question
    /\ UNCHANGED <<svars, hvars>>

-----------------------------------------------------------------------------
(* Joining a pruned root: the source grows first.                          *)

cover_for(h, newcomers) ==
    LET cover == retained_cover_for(h, newcomers)
    IN  IF cover = Full THEN {by_handle[h]} ELSE cover

BeginGrow ==
    /\ step = "planned" /\ plan.kind = "covered"
    /\ ~covering_root_dead
    /\ plan.outside
    /\ asks(plan.root, cover_for(plan.root, {pending[plan.sub]}))
    /\ flush_deferred_prunes({plan.root})
    /\ goes("growing")
    /\ UNCHANGED <<vars, source, used, raised, hvars>>

GrowApplied ==
    /\ step = "growing"
    /\ control = <<>> /\ root \in DOMAIN source
    /\ source' = Covers(source, root)
    /\ CommitCovered
    /\ goes("record") /\ same_question
    /\ UNCHANGED <<used, control, deferred_prunes, raised, rescanned>>
    /\ Tells({})

\* The cover that is recorded once the newcomer is in.
grown_cover == IF asked_cover = {by_handle[root]} THEN Full ELSE asked_cover

RecordGrown ==
    /\ step = "record"
    /\ SetRetainedCover(root, grown_cover)
    /\ goes("idle") /\ same_question
    /\ UNCHANGED <<svars, hvars>>

\* The grow settles short of its cover, with a Rescan queued, or is refused.
GrowFails ==
    /\ step = "growing"
    /\ control = <<>>
    /\ AbortWatch
    /\ \/ /\ root \in DOMAIN source
          /\ source' = [source EXCEPT ![root].kept = {}]
          /\ raised' = raised \cup {root}
       \/ UNCHANGED <<source, raised>>
    /\ goes("idle") /\ same_question
    /\ UNCHANGED <<used, control, deferred_prunes, rescanned>>
    /\ Tells({})

-----------------------------------------------------------------------------
(* Arming a root of its own.                                               *)

fresh(h) == h \notin used /\ used' = used \cup {h}

BeginArm ==
    /\ step = "planned" /\ plan.kind = "disjoint"
    /\ flush_deferred_prunes({})
    /\ goes("arming") /\ same_question
    /\ UNCHANGED <<vars, source, used, raised, hvars>>

\* The key the source resolved to may have drifted from the planned one.
Armed(h, key) ==
    /\ step = "arming"
    /\ fresh(h)
    /\ CommitDisjoint(h, key)
    /\ source' = Held(h, key)
    /\ goes("idle") /\ same_question
    /\ UNCHANGED <<control, deferred_prunes, raised, rescanned>>
    /\ Tells({})

\* It drifted into or over another root (or was dead on arrival): disarmed
\* again.  Or it was not armed at all.
ArmFails ==
    /\ step = "arming"
    /\ AbortWatch
    /\ goes("idle") /\ same_question
    /\ UNCHANGED <<svars, hvars>>

-----------------------------------------------------------------------------
(* Widening: one root is replaced in place.                                *)

InPlace(h) == plan.unwatch = {h} /\ h \in DOMAIN source

BeginReplace(h) ==
    /\ step = "planned" /\ plan.kind = "widen"
    /\ InPlace(h)
    /\ flush_deferred_prunes(superseded_by_replace(h))
    /\ asks(h, {})
    /\ goes("replacing")
    /\ UNCHANGED <<vars, source, used, raised, hvars>>

\* Mutant: re-pointed subscriptions are not told.
told_of_widen_not == {}

\* `commit_widen` mints each re-pointed subscription a Rescan.
told_of_widen == plan.repointed

Replaced(key) ==
    /\ step = "replacing"
    /\ control = <<>> /\ root \in DOMAIN source
    /\ CommitWiden(root, key)
    /\ source' = Held(root, key)
    /\ goes("idle") /\ same_question
    /\ UNCHANGED <<used, control, deferred_prunes, raised, rescanned>>
    /\ Tells(told_of_widen)

\* The committed key no longer fits the plan: the owner replaces it back.
ReplacedAstray(key) ==
    /\ step = "replacing"
    /\ control = <<>> /\ root \in DOMAIN source
    /\ ~fs_path_preserves_plan(key, plan.unwatch)
    /\ source' = Held(root, key)
    /\ goes("rollback") /\ same_question
    /\ UNCHANGED <<vars, used, control, deferred_prunes, raised, rescanned>>
    /\ Tells({})

\* For want of capacity the widen fails with its root untouched; any other
\* refusal falls back on releasing and arming.
ReplaceRefused ==
    /\ step = "replacing"
    /\ \/ AbortWatch /\ goes("idle")
       \/ UNCHANGED vars /\ goes("release")
    /\ same_question
    /\ UNCHANGED <<svars, hvars>>

RolledBack ==
    /\ step = "rollback"
    /\ control = <<>> /\ root \in DOMAIN source
    /\ AbortWatch
    /\ source' = Held(root, by_handle[root])
    /\ goes("idle") /\ same_question
    /\ UNCHANGED <<used, control, deferred_prunes, raised, rescanned>>
    /\ Tells(root_subs[root])

\* Replacing back failed too: the root is retired and disarmed.
RollbackFails ==
    /\ step = "rollback"
    /\ Unwind
    /\ step' = "retiring" /\ todo' = {root}
    /\ source' = disarm({root})
    /\ same_question
    /\ UNCHANGED <<used, control, deferred_prunes, raised, closing, quarantined, rescanned>>
    /\ Tells({})

-----------------------------------------------------------------------------
(* Widening: the roots inside are released and a wider one is armed.       *)

Release ==
    /\ \/ step = "release"
       \/ step = "planned" /\ plan.kind = "widen" /\ \A h \in Handle : ~InPlace(h)
    /\ source' = disarm(plan.unwatch)
    /\ flush_deferred_prunes(plan.unwatch)
    /\ goes("widening") /\ same_question
    /\ UNCHANGED <<vars, used, raised, rescanned>>
    /\ Tells({})

Widened(h, key) ==
    /\ step = "widening"
    /\ fresh(h)
    /\ CommitWiden(h, key)
    /\ source' = Held(h, key)
    /\ goes("idle") /\ same_question
    /\ UNCHANGED <<control, deferred_prunes, raised, rescanned>>
    /\ Tells(told_of_widen)

\* The arm failed or drifted: the released roots are armed again one by one.
WidenFails ==
    /\ step = "widening"
    /\ Unwind
    /\ step' = "restoring" /\ todo' = plan.unwatch
    /\ same_question
    /\ UNCHANGED <<svars, closing, quarantined, hvars>>

\* `restore_disarmed_roots`: at its own key again, under a new handle.
Restored(old, h) ==
    /\ step = "restoring"
    /\ old \in todo
    /\ fresh(h)
    /\ RebindRoot(old, h)
    /\ source' = Held(h, by_handle[old])
    /\ todo' = todo \ {old}
    /\ same_question
    /\ UNCHANGED <<control, deferred_prunes, raised, step, closing, quarantined, rescanned>>
    /\ Tells(root_subs[old])

\* `retire_root_with_terminal_rescan` parks each subscriber its last Rescan.
told_of_retirement(h) == root_subs[h]

\* Mutant: no retry budget, a root is restored or waited for.
NotRestored_never(old) == FALSE

\* It cannot be armed at its key within the retry budget.
NotRestored(old) ==
    /\ step \in {"restoring", "retiring"}
    /\ old \in todo
    /\ ForceRemoveRoot(old)
    /\ todo' = todo \ {old}
    /\ same_question
    /\ UNCHANGED <<svars, step, closing, quarantined, rescanned>>
    /\ Tells(told_of_retirement(old))

WidenAborted ==
    /\ step \in {"restoring", "retiring"} /\ todo = {}
    /\ AbortWatch
    /\ goes("idle") /\ same_question
    /\ UNCHANGED <<svars, hvars>>

-----------------------------------------------------------------------------
(* Departures, and what the source reports.                                *)

\* The source drops a root whose last subscription leaves.
Unwatch(s) ==
    LET h == subs[s].root
        survivors == root_subs[h] \ {s}
        shrink == detect_shrink(h, survivors)
    IN  /\ step = "idle" /\ ~closing
        /\ PlanUnwatch(s)
        /\ IF survivors = {}
           THEN /\ IF quarantined THEN UNCHANGED <<source, control, deferred_prunes>>
                   ELSE source' = disarm({h}) /\ flush_deferred_prunes({h})
                /\ goes("idle") /\ same_question
           ELSE /\ UNCHANGED <<source, control, deferred_prunes>>
                /\ IF shrink = Full THEN goes("idle") /\ same_question
                   ELSE goes("prune") /\ asks(h, shrink)
        /\ untold' = untold \ {s}
        /\ UNCHANGED <<used, raised, rescanned>>

\* The cover of a root whose prune was skipped or unwound claims nothing.
cover_unless_made == {}

\* The prune is offered; a source that unwinds out of it is quarantined, and
\* what it did of the prune is not known.
Prune ==
    /\ step = "prune"
    /\ \/ /\ ~quarantined /\ UNCHANGED quarantined
          /\ set_cover(root, asked_cover)
          /\ SetRetainedCover(root, asked_cover)
       \/ /\ ~quarantined /\ quarantined' = TRUE
          /\ set_cover(root, asked_cover) \/ UNCHANGED <<control, deferred_prunes>>
          /\ SetRetainedCover(root, cover_unless_made)
       \/ /\ quarantined
          /\ SetRetainedCover(root, cover_unless_made)
          /\ UNCHANGED <<control, deferred_prunes, quarantined>>
    /\ step' = "idle"
    /\ same_question
    /\ UNCHANGED <<source, used, raised, todo, closing, hvars>>

\* A root the source no longer has (met by a plan, or by an event of it).
RetireDead(h) ==
    /\ \/ step = "retire" /\ h = root
       \/ step = "idle" /\ ~closing /\ h \notin DOMAIN source
    /\ ForceRemoveRoot(h)
    /\ raised' = raised \ {h}
    /\ goes("idle") /\ same_question
    /\ UNCHANGED <<source, used, control, deferred_prunes, rescanned>>
    /\ Tells(told_of_retirement(h))

\* Mutant: a Rescan leaves the record of a pruned root.
DegradeRecord_not(h) == UNCHANGED vars

\* `degrade_retained_cover_on_rescan`.
DegradeRecord(h) ==
    IF index[by_handle[h]].cover \in {Full, {}} THEN UNCHANGED vars
    ELSE DegradeRetainedCover(h)

\* A Rescan of a live root reaches every subscriber of it.
ConsumeRescan(h) ==
    /\ step = "idle" /\ ~closing
    /\ h \in raised /\ h \in DOMAIN source /\ h \in DOMAIN by_handle
    /\ DegradeRecord(h)
    /\ raised' = raised \ {h}
    /\ untold' = untold \ root_subs[h]
    /\ rescanned' = rescanned \cup root_subs[h]
    /\ UNCHANGED <<source, used, control, deferred_prunes, ovars>>

-----------------------------------------------------------------------------
(* A close, or the last handle going, wins the await it races.             *)

Awaiting == step \in {"growing", "arming", "replacing", "rollback"}

CloseWins ==
    /\ Awaiting
    /\ AbortWatch
    /\ step' = "idle" /\ closing' = TRUE
    /\ same_question
    /\ UNCHANGED <<svars, todo, quarantined, hvars>>

\* `begin_close_then_retire_disarmed_roots`.
CloseWinsWiden ==
    /\ step = "widening"
    /\ Unwind
    /\ step' = "retiring" /\ todo' = plan.unwatch /\ closing' = TRUE
    /\ same_question
    /\ UNCHANGED <<svars, quarantined, hvars>>

CloseWinsRestore ==
    /\ step = "restoring" /\ todo # {}
    /\ step' = "retiring" /\ closing' = TRUE
    /\ todo' = plan.unwatch \cap DOMAIN by_handle
    /\ same_question
    /\ UNCHANGED <<vars, svars, quarantined, hvars>>

CloseIdle ==
    /\ step = "idle" /\ ~closing
    /\ closing' = TRUE
    /\ UNCHANGED <<vars, svars, step, asked_cover, root, todo, quarantined, hvars>>

\* The teardown leaves readers an empty view.
Teardown ==
    /\ step = "idle" /\ closing
    /\ SwapInEmpty
    /\ UNCHANGED <<svars, ovars, hvars>>

-----------------------------------------------------------------------------
Source ==
    \/ SourcePrunes
    \/ \E h \in Handle : SourceLosesRoot(h) \/ SourceDegrades(h)

Owner ==
    \/ \E key \in Key, globs \in Words : Request(key, globs)
    \/ CoveringRootDead \/ Joins
    \/ BeginGrow \/ GrowApplied \/ RecordGrown \/ GrowFails
    \/ BeginArm \/ ArmFails
    \/ \E h \in Handle, key \in Key : Armed(h, key) \/ Widened(h, key)
    \/ \E h \in Handle : BeginReplace(h)
    \/ \E key \in Key : Replaced(key) \/ ReplacedAstray(key)
    \/ ReplaceRefused \/ RolledBack \/ RollbackFails
    \/ Release \/ WidenFails \/ WidenAborted
    \/ \E old, h \in Handle : Restored(old, h)
    \/ \E old \in Handle : NotRestored(old)
    \/ \E s \in DOMAIN subs : Unwatch(s)
    \/ Prune
    \/ \E h \in Handle : RetireDead(h) \/ ConsumeRescan(h)
    \/ CloseWins \/ CloseWinsWiden \/ CloseWinsRestore \/ CloseIdle \/ Teardown

RNext == Source \/ Owner

RSpec == RInit /\ [][RNext]_rvars

-----------------------------------------------------------------------------
(* Properties.                                                             *)

Resting == step = "idle"

\* Every variable keeps its type.
RTypeOK ==
    /\ DOMAIN source \subseteq used /\ used \subseteq Handle
    /\ \A h \in DOMAIN source : source[h] \in [key : Key, kept : SUBSET Key]
    /\ Len(control) <= ControlCap
    /\ DOMAIN deferred_prunes \subseteq Handle
    /\ raised \subseteq Handle /\ todo \subseteq Handle
    /\ asked_cover \subseteq Key /\ root \in Handle \cup {NoHandle}
    /\ untold \subseteq Sub /\ rescanned \subseteq Sub

\* Between reconciles no subscription is cut off unawares: whenever the root
\* that serves it was released, replaced astray, re-armed, retired or lost,
\* it was owed a Rescan, or one of the source's is on its way.
NoSilentGap ==
    Resting =>
        \A s \in untold \cap DOMAIN subs :
            \/ subs[s].root \in raised
            \/ closing /\ subs[s].root \in DOMAIN source

\* A retired subscription had its last Rescan.
RetiredTold == Resting => untold \subseteq DOMAIN subs

\* A subscription cut off from the source was told so, while it lives and when
\* it is retired.
CutOffIsTold == NoSilentGap /\ RetiredTold

\* Between reconciles every subscription is covered by the source, or was told
\* of the loss by it: no prune (forwarded or waiting), replace, restore or
\* failed grow takes away what a record says the root keeps.
ServedOrTold ==
    Resting /\ ~closing =>
        \A s \in DOMAIN subs :
            Served(s) \/ s \in rescanned \/ subs[s].root \in raised

\* What the record of a root claims, the source covers and will cover once the
\* prunes on their way have been made.
RecordHonest ==
    Resting /\ ~closing =>
        \A h \in (DOMAIN by_handle \cap DOMAIN source) \ raised :
            \A k \in Descendants(Key, by_handle[h]) :
                ~covered_outside(index[by_handle[h]], k) =>
                    /\ CoveredBy(k, source[h].kept)
                    /\ h \in DOMAIN deferred_prunes => CoveredBy(k, deferred_prunes[h])
                    /\ \A i \in DOMAIN control :
                          control[i][1] = h => CoveredBy(k, control[i][2])

\* The source holds the recorded roots at their recorded keys and no other:
\* nothing armed is leaked by an abort, a drift or a failed restore.
SourceAgrees ==
    Resting /\ ~closing =>
        \A h \in DOMAIN source :
            \/ h \in DOMAIN by_handle /\ source[h].key = by_handle[h]
            \/ quarantined

\* The records and the source agree, on what is armed and on what it covers.
RecordsAgree == RTypeOK /\ RecordHonest /\ SourceAgrees

\* A reconcile never gets stuck: whatever was armed, refused, lost or pruned
\* meanwhile, the engine accepts the commit or the abort that is due.
NeverStuck == Resting \/ ENABLED Owner

-----------------------------------------------------------------------------
(* The inductive invariant, beside the engine's.                           *)

RTyped ==
    /\ control \in Seq(Handle \X SUBSET Key)
    /\ \A h \in DOMAIN deferred_prunes : deferred_prunes[h] \subseteq Key
    /\ {closing, quarantined} \subseteq BOOLEAN

\* The covers root h is still to be pruned to.
OnTheirWay(h) ==
    {deferred_prunes[g] : g \in DOMAIN deferred_prunes \cap {h}}
    \cup {control[i][2] : i \in {j \in DOMAIN control : control[j][1] = h}}

\* Every handle anybody holds was returned by the source, once.
HandlesUsed ==
    /\ DOMAIN by_handle \subseteq used
    /\ \A h \in Handle : OnTheirWay(h) # {} => h \in used

\* Where the owner stands, and the plan it holds there.
StepSound ==
    /\ step \in {"idle", "retire", "record", "prune"} => plan.phase \in {"idle", "closed"}
    /\ plan.phase = "closed" => step = "idle" /\ closing
    /\ step \in {"restoring", "retiring"} =>
          plan.phase = "unwinding" /\ todo \subseteq plan.unwatch \cap DOMAIN by_handle
    /\ step \notin {"idle", "retire", "record", "prune", "restoring", "retiring"} =>
          plan.phase = "planned"
    /\ step \in {"idle", "planned", "retire", "growing", "record", "arming", "replacing",
                 "rollback", "release", "widening", "restoring", "retiring", "prune"}
    /\ step = "growing" => plan.kind = "covered"
    /\ step = "arming" => plan.kind = "disjoint"
    /\ step \in {"replacing", "rollback", "release"} =>
          plan.kind = "widen" /\ plan.unwatch = {root}
    /\ step = "widening" => plan.kind = "widen"
    /\ step \notin {"restoring", "retiring"} => todo = {}
    /\ closing => step \in {"idle", "retiring"}
    /\ quarantined => step \in {"idle", "prune"}

\* What the cover asked for is worth.
AskedSound ==
    /\ step \in {"planned", "growing"} /\ plan.kind = "covered" =>
          plan.outside = covered_outside(index[by_handle[plan.root]], pending[plan.sub])
    /\ step = "growing" =>
          /\ root = plan.root /\ plan.outside
          /\ asked_cover = cover_for(root, {pending[plan.sub]})
    /\ step = "record" =>
          /\ root \in DOMAIN by_handle /\ control = <<>>
          /\ index[by_handle[root]].cover # Full
          /\ grown_cover = retained_cover_for(root, {})
    /\ step = "prune" =>
          /\ root \in DOMAIN by_handle
          /\ asked_cover = retained_cover_for(root, {})
          /\ \A k \in Key : CoveredBy(k, asked_cover) => ~covered_outside(index[by_handle[root]], k)
    /\ step \in {"growing", "record", "replacing", "rollback"} => root \notin DOMAIN deferred_prunes
    /\ step = "retire" => root \notin DOMAIN source
    /\ step = "widening" => plan.unwatch \cap DOMAIN source = {}
    /\ step \in {"restoring", "retiring"} /\ ~closing => todo \cap DOMAIN source = {}

\* A cover that is recorded is a part of the root.
RecordsProper ==
    \A k \in DOMAIN index : index[k].cover # Full => ~CoveredBy(k, index[k].cover)

\* No prune on its way takes what its record claims or a subscription needs.
PrunesSafe ==
    \A h \in DOMAIN by_handle : \A cover \in OnTheirWay(h) :
        /\ index[by_handle[h]].cover # Full
        /\ \A k \in Descendants(Key, by_handle[h]) :
              ~covered_outside(index[by_handle[h]], k) => CoveredBy(k, cover)
        /\ \A s \in root_subs[h] : CoveredBy(subs[s].key, cover)

\* A replace or a grow is under way on the root.
Underway(h) == step \in {"rollback", "record"} /\ h = root

\* Until a close the source holds the recorded roots and covers what their
\* records claim; of a root that is being grown, what was asked.
SourceSound ==
    ~closing =>
        \A h \in DOMAIN source :
            /\ h \in DOMAIN by_handle \/ quarantined
            /\ h \in DOMAIN by_handle =>
                  /\ source[h].key = by_handle[h] \/ (step = "rollback" /\ h = root)
                  /\ ~Underway(h) =>
                        /\ index[by_handle[h]].cover = Full => source[h].kept = {by_handle[h]}
                        /\ h \notin raised =>
                              \A k \in Descendants(Key, by_handle[h]) :
                                  ~covered_outside(index[by_handle[h]], k) =>
                                      CoveredBy(k, source[h].kept)
                  /\ step = "record" /\ h = root =>
                        \/ source[h].kept = asked_cover
                        \/ h \in raised /\ asked_cover # {by_handle[h]}

\* The roots a reconcile has in hand: it tells their subscriptions before it
\* comes to rest.
InHand(h) ==
    \/ step = "rollback" /\ h = root /\ h \in DOMAIN source
    \/ step = "widening" /\ h \in plan.unwatch
    \/ step \in {"restoring", "retiring"} /\ h \in todo

\* A loss of h is known: the subscriptions of it are told, or the close is.
Noted(h) == h \in raised \/ InHand(h) \/ (closing /\ h \in DOMAIN source)

GapsNoted ==
    /\ untold \subseteq DOMAIN subs
    /\ \A s \in untold : Noted(subs[s].root)

AllServed ==
    ~closing =>
        \A s \in DOMAIN subs : Served(s) \/ s \in rescanned \/ Noted(subs[s].root)

RIInv ==
    /\ IInv /\ RTypeOK /\ RTyped /\ HandlesUsed /\ StepSound /\ AskedSound
    /\ RecordsProper /\ PrunesSafe /\ SourceSound /\ GapsNoted /\ AllServed

=============================================================================

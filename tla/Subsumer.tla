------------------------------ MODULE Subsumer ------------------------------
(***************************************************************************)
(* The subsumption engine (tributaries/src/subsume/mod.rs): which watch    *)
(* roots the source must hold so that every subscription is covered, never *)
(* one root inside another.  The owner task drives it in two phases: plan, *)
(* then (once the source has armed, replaced or grown) commit or abort.    *)
(* Between the two the owner does nothing else to the engine except, when  *)
(* a widen fails, re-bind or retire the roots it had already disarmed.     *)
(*                                                                         *)
(* The value and the interest a subscription carries are payload here: an  *)
(* entry of `covers` is the set of its subscriptions, and the value it     *)
(* answers with is that of the newest one.                                 *)
(***************************************************************************)
EXTENDS Keys, FiniteSets

CONSTANTS
    Component,   \* key components
    Key,         \* the keys a subscription or a root may name
    Handle,      \* source handles
    Words,       \* the glob words (`RootGlobs`) a root is armed under
    Pruning,     \* those whose prune patterns are not empty
    Full,        \* `retained_cover: None`: the source covers the whole root
    NoHandle,    \* the root of a plan that joins none
    MaxSub       \* bound on the subscriptions minted

ASSUME KeyAssumption == Key \subseteq Seq(Component)
ASSUME WordsAssumption == Words # {} /\ Pruning \subseteq Words
ASSUME FullAssumption == \A C \in SUBSET Key : Full # C
ASSUME HandleAssumption == NoHandle \notin Handle
ASSUME MaxSubAssumption == MaxSub \in Nat

VARIABLES
    index,       \* root key -> [handle, globs, cover]
    covers,      \* subscription key -> the subscriptions at it
    by_handle,   \* handle -> root key
    root_subs,   \* handle -> the cohort of the root
    subs,        \* subscription -> [root, key]
    pending,     \* reserved subscription -> requested key
    next_sub,    \* the next subscription id
    shared,      \* the published snapshot readers see
    plan,        \* the owner's outstanding outcome, and how far it got
    asked        \* history: subscription -> words it was admitted under

maps == <<index, covers, by_handle, root_subs, subs>>
vars == <<index, covers, by_handle, root_subs, subs, pending, next_sub,
          shared, plan, asked>>

Sub == 1..MaxSub
Cover == {Full} \cup SUBSET Key
RootRecord == [handle : Handle, globs : Words, cover : Cover]
Empty == [x \in {} |-> x]

\* What the owner holds between plan_watch and commit_watch or abort_watch.
NoPlan == [phase |-> "idle", kind |-> "none", sub |-> 0, root |-> NoHandle,
           globs |-> CHOOSE w \in Words : TRUE, unwatch |-> {},
           repointed |-> {}, outside |-> FALSE]

Init ==
    /\ index = Empty
    /\ covers = Empty
    /\ by_handle = Empty
    /\ root_subs = Empty
    /\ subs = Empty
    /\ pending = Empty
    /\ next_sub = 1
    /\ shared = [roots |-> Empty, covers |-> Empty]
    /\ plan = NoPlan
    /\ asked = Empty

idle == plan.phase = "idle"

-----------------------------------------------------------------------------
(* Queries.                                                                *)

\* `covered_outside`: a pruned root does not keep the key.
covered_outside(record, key) ==
    record.cover # Full /\ ~CoveredBy(key, record.cover)

\* `get_ancestor` on the index: the deepest root at or above the key.
AncestorRoot(key) ==
    CHOOSE r \in Ancestors(DOMAIN index, key) :
        \A o \in Ancestors(DOMAIN index, key) : Len(o) <= Len(r)

\* Mutant: anchored patterns are only refused on a join, not on a widen.
Conflicts_join_only(key, globs) ==
    {r \in Ancestors(DOMAIN index, key) \cup Descendants(DOMAIN index, key) :
        \/ index[r].globs # globs
        \/ Len(r) < Len(key) /\ globs \in Pruning}

\* The roots plan_watch refuses to join or to subsume: their words differ,
\* or patterns anchored at one root key would be read from another.
Conflicts(key, globs) ==
    IF Ancestors(DOMAIN index, key) # {}
    THEN LET r == AncestorRoot(key) IN
         {c \in {r} : \/ index[c].globs # globs
                      \/ Len(c) # Len(key) /\ globs \in Pruning}
    ELSE {d \in Descendants(DOMAIN index, key) :
             \/ index[d].globs # globs
             \/ globs \in Pruning
             \/ index[d].globs \in Pruning}

\* Mutant: a root the plan never named may lie inside the key.
fs_path_preserves_plan_superset(key, planned) ==
    /\ Ancestors(DOMAIN index, key) = {}
    /\ planned \subseteq {index[d].handle : d \in Descendants(DOMAIN index, key)}

\* `fs_path_preserves_plan`: no root has the key inside it, and the roots
\* inside it are exactly the planned ones.
fs_path_preserves_plan(key, planned) ==
    /\ Ancestors(DOMAIN index, key) = {}
    /\ {index[d].handle : d \in Descendants(DOMAIN index, key)} = planned

\* The keys of a cohort, the departing or arriving member aside.
KeysOf(S) == {subs[s].key : s \in S}

\* `retained_cover_for`: the cover the root's subscribers and the newcomers need.
retained_cover_for(handle, newcomers) ==
    LET needed == KeysOf(root_subs[handle]) \cup newcomers
    IN  IF by_handle[handle] \in needed THEN Full ELSE Antichain(needed)

\* `detect_shrink`: the cover to prune the root to once only the survivors
\* are left, or Full when the root is to be left alone.
detect_shrink(handle, survivors) ==
    LET root_key == by_handle[handle]
        recorded == index[root_key].cover
        needed   == Antichain(KeysOf(survivors))
    IN  IF recorded = Full
        THEN IF root_key \in KeysOf(survivors) THEN Full ELSE needed
        ELSE IF /\ \A k \in needed : CoveredBy(k, recorded)
                /\ needed # recorded
             THEN needed ELSE Full

-----------------------------------------------------------------------------
(* The published view (tributaries/src/view/mod.rs), read by any thread.   *)

\* `WatchView::is_watched`: some subscription's key is at or above k.
is_watched(view, k) == Ancestors(DOMAIN view.covers, k) # {}

\* `publish`: the snapshot of the maps an operation has just written.
publish == shared' = [roots |-> index', covers |-> covers']

\* `cover_add` and `cover_remove` on the map of subscription keys.
cover_add(key, sub) ==
    Put(covers, key, {sub} \cup IF key \in DOMAIN covers THEN covers[key] ELSE {})

cover_remove(departing) ==
    [k \in {c \in DOMAIN covers : covers[c] \ departing # {}} |->
        covers[k] \ departing]

\* A cohort served by another root from now on, every member at its own key.
repoint(cohort, h) ==
    [s \in DOMAIN subs |->
        IF s \in cohort THEN [root |-> h, key |-> subs[s].key] ELSE subs[s]]

-----------------------------------------------------------------------------
(* plan_watch: classify a request and reserve its subscription.            *)

\* `reserve` and `mint_subscription`.
reserve(key) ==
    /\ next_sub <= MaxSub
    /\ pending' = Put(pending, next_sub, key)
    /\ next_sub' = next_sub + 1

Planned(kind, root, globs, unwatch, repointed, outside) ==
    plan' = [phase |-> "planned", kind |-> kind, sub |-> next_sub, root |-> root,
             globs |-> globs, unwatch |-> unwatch, repointed |-> repointed,
             outside |-> outside]

PlanCovered(key, globs) ==
    /\ idle
    /\ Conflicts(key, globs) = {}
    /\ Ancestors(DOMAIN index, key) # {}
    /\ reserve(key)
    /\ LET r == index[AncestorRoot(key)]
       IN  Planned("covered", r.handle, globs, {}, {}, covered_outside(r, key))
    /\ UNCHANGED <<maps, shared, asked>>

PlanWiden(key, globs) ==
    LET inside == {index[d].handle : d \in Descendants(DOMAIN index, key)} IN
    /\ idle
    /\ Conflicts(key, globs) = {}
    /\ Ancestors(DOMAIN index, key) = {}
    /\ inside # {}
    /\ reserve(key)
    /\ Planned("widen", NoHandle, globs, inside,
               UNION {root_subs[h] : h \in inside}, FALSE)
    /\ UNCHANGED <<maps, shared, asked>>

PlanDisjoint(key, globs) ==
    /\ idle
    /\ Ancestors(DOMAIN index, key) = {}
    /\ Descendants(DOMAIN index, key) = {}
    /\ reserve(key)
    /\ Planned("disjoint", NoHandle, globs, {}, {}, FALSE)
    /\ UNCHANGED <<maps, shared, asked>>

-----------------------------------------------------------------------------
(* commit_watch: the source side succeeded.                                *)

\* `take_pending`, the end of the plan, and the words the newcomer is under.
Settle ==
    /\ pending' = Drop(pending, {plan.sub})
    /\ plan' = NoPlan
    /\ asked' = Put(asked, plan.sub, plan.globs)
    /\ UNCHANGED next_sub

CommitCovered ==
    LET sub == plan.sub
        key == pending[plan.sub]
    IN  /\ plan.phase = "planned" /\ plan.kind = "covered"
        /\ root_subs' = [root_subs EXCEPT ![plan.root] = @ \cup {sub}]
        /\ covers' = cover_add(key, sub)
        /\ subs' = Put(subs, sub, [root |-> plan.root, key |-> key])
        /\ UNCHANGED <<index, by_handle>>
        /\ publish
        /\ Settle

\* The newcomer takes the key the source armed, which may have drifted from
\* the one requested; the caller has checked that the plan still holds there.
CommitDisjoint(h, key) ==
    LET sub == plan.sub IN
    /\ plan.phase = "planned" /\ plan.kind = "disjoint"
    /\ h \notin DOMAIN by_handle
    /\ fs_path_preserves_plan(key, plan.unwatch)
    /\ index' = Put(index, key, [handle |-> h, globs |-> plan.globs, cover |-> Full])
    /\ by_handle' = Put(by_handle, h, key)
    /\ root_subs' = Put(root_subs, h, {sub})
    /\ covers' = cover_add(key, sub)
    /\ subs' = Put(subs, sub, [root |-> h, key |-> key])
    /\ publish
    /\ Settle

\* An in-place replace keeps the one subsumed root's handle; otherwise the
\* handle is a new one.
CommitWiden(h, key) ==
    LET sub  == plan.sub
        gone == Descendants(DOMAIN index, key)
    IN  /\ plan.phase = "planned" /\ plan.kind = "widen"
        /\ h \notin DOMAIN by_handle \/ plan.unwatch = {h}
        /\ fs_path_preserves_plan(key, plan.unwatch)
        /\ index' = Put(Drop(index, gone), key,
                        [handle |-> h, globs |-> plan.globs, cover |-> Full])
        /\ by_handle' = Put(Drop(by_handle, plan.unwatch), h, key)
        /\ root_subs' = Put(Drop(root_subs, plan.unwatch), h, plan.repointed \cup {sub})
        /\ covers' = cover_add(key, sub)
        /\ subs' = Put(repoint(plan.repointed, h), sub, [root |-> h, key |-> key])
        /\ publish
        /\ Settle

\* The source side of a widen failed after roots were disarmed: from here the
\* owner only re-binds or retires those roots, and then aborts.
Unwind ==
    /\ plan.phase = "planned" /\ plan.kind = "widen"
    /\ plan' = [plan EXCEPT !.phase = "unwinding"]
    /\ UNCHANGED <<maps, pending, next_sub, shared, asked>>

\* `abort_watch`: drop the reservation; the maps were never touched.
AbortWatch ==
    /\ plan.phase \in {"planned", "unwinding"}
    /\ pending' = Drop(pending, {plan.sub})
    /\ plan' = NoPlan
    /\ UNCHANGED <<maps, next_sub, shared, asked>>

-----------------------------------------------------------------------------
(* Departures.                                                             *)

\* `plan_unwatch`: a subscription leaves; an emptied root leaves with it.
PlanUnwatch(sub) ==
    LET h        == subs[sub].root
        root_key == by_handle[h]
        emptied  == root_subs[h] = {sub}
    IN  /\ idle
        /\ sub \in DOMAIN subs
        /\ subs' = Drop(subs, {sub})
        /\ covers' = cover_remove({sub})
        /\ index' = IF emptied THEN Drop(index, {root_key}) ELSE index
        /\ by_handle' = IF emptied THEN Drop(by_handle, {h}) ELSE by_handle
        /\ root_subs' = IF emptied THEN Drop(root_subs, {h})
                        ELSE [root_subs EXCEPT ![h] = @ \ {sub}]
        /\ publish
        /\ UNCHANGED <<pending, next_sub, plan, asked>>

\* The roots an operation outside a plan, or an unwinding widen, may touch.
Removable(h) ==
    /\ h \in DOMAIN by_handle
    /\ idle \/ (plan.phase = "unwinding" /\ h \in plan.unwatch)

\* `force_remove_root`: a root that could not be kept leaves with its cohort.
ForceRemoveRoot(h) ==
    /\ Removable(h)
    /\ index' = Drop(index, {by_handle[h]})
    /\ by_handle' = Drop(by_handle, {h})
    /\ subs' = Drop(subs, root_subs[h])
    /\ covers' = cover_remove(root_subs[h])
    /\ root_subs' = Drop(root_subs, {h})
    /\ publish
    /\ UNCHANGED <<pending, next_sub, plan, asked>>

\* `rebind_root`: a root disarmed by a failed widen is armed again under a
\* new handle; its key, its words and its recorded cover stay.
RebindRoot(old, new) ==
    LET root_key == by_handle[old] IN
    /\ plan.phase = "unwinding" /\ old \in plan.unwatch
    /\ old \in DOMAIN by_handle
    /\ new \notin DOMAIN by_handle
    /\ index' = [index EXCEPT ![root_key].handle = new]
    /\ by_handle' = Put(Drop(by_handle, {old}), new, root_key)
    /\ root_subs' = Put(Drop(root_subs, {old}), new, root_subs[old])
    /\ subs' = repoint(root_subs[old], new)
    /\ UNCHANGED covers
    /\ publish
    /\ UNCHANGED <<pending, next_sub, plan, asked>>

-----------------------------------------------------------------------------
(* The record of what the source still covers.                             *)

SetCover(h, cover) ==
    /\ index' = [index EXCEPT ![by_handle[h]].cover = cover]
    /\ UNCHANGED <<covers, by_handle, root_subs, subs, pending, next_sub, plan, asked>>
    /\ publish

\* `set_retained_cover`: recorded after a prune or a grow of a live root.
SetRetainedCover(h, cover) ==
    /\ idle
    /\ h \in DOMAIN by_handle
    /\ SetCover(h, cover)

\* `degrade_retained_cover`: after a loss a pruned root claims nothing.
DegradeRetainedCover(h) ==
    /\ idle
    /\ h \in DOMAIN by_handle
    /\ index[by_handle[h]].cover \notin {Full, {}}
    /\ SetCover(h, {})

\* `swap_in_empty`: at teardown readers are left with an empty snapshot.
SwapInEmpty ==
    /\ idle
    /\ shared' = [roots |-> Empty, covers |-> Empty]
    /\ plan' = [NoPlan EXCEPT !.phase = "closed"]
    /\ UNCHANGED <<maps, pending, next_sub, asked>>

-----------------------------------------------------------------------------
Next ==
    \/ \E key \in Key, globs \in Words :
          PlanCovered(key, globs) \/ PlanWiden(key, globs) \/ PlanDisjoint(key, globs)
    \/ CommitCovered
    \/ \E h \in Handle, key \in Key : CommitDisjoint(h, key) \/ CommitWiden(h, key)
    \/ Unwind
    \/ AbortWatch
    \/ \E sub \in Sub : PlanUnwatch(sub)
    \/ \E h \in Handle : ForceRemoveRoot(h) \/ DegradeRetainedCover(h)
    \/ \E h \in DOMAIN by_handle :
          \E cover \in {{}, retained_cover_for(h, {})} : SetRetainedCover(h, cover)
    \/ \E old, new \in Handle : RebindRoot(old, new)
    \/ SwapInEmpty

Spec == Init /\ [][Next]_vars

-----------------------------------------------------------------------------
(* Properties.                                                             *)

Plans == [phase : {"idle", "planned", "unwinding", "closed"},
          kind : {"none", "covered", "widen", "disjoint"},
          sub : Sub \cup {0}, root : Handle \cup {NoHandle}, globs : Words,
          unwatch : SUBSET Handle, repointed : SUBSET Sub, outside : BOOLEAN]

\* Every table maps what its declaration says, and the plan is a WatchOutcome.
TypeOK ==
    /\ DOMAIN index \subseteq Key
    /\ \A k \in DOMAIN index : index[k] \in RootRecord
    /\ DOMAIN covers \subseteq Key
    /\ \A k \in DOMAIN covers : covers[k] \in SUBSET Sub
    /\ DOMAIN by_handle \subseteq Handle
    /\ \A h \in DOMAIN by_handle : by_handle[h] \in Key
    /\ DOMAIN root_subs \subseteq Handle
    /\ \A h \in DOMAIN root_subs : root_subs[h] \in SUBSET Sub
    /\ DOMAIN subs \subseteq Sub
    /\ \A s \in DOMAIN subs : subs[s] \in [root : Handle, key : Key]
    /\ DOMAIN pending \subseteq Sub
    /\ \A s \in DOMAIN pending : pending[s] \in Key
    /\ next_sub \in 1..(MaxSub + 1)
    /\ plan \in Plans
    /\ DOMAIN asked \subseteq Sub
    /\ \A s \in DOMAIN asked : asked[s] \in Words

\* No root the source is asked to hold lies inside another: every plan
\* (covered, widen, disjoint), drifted commit, restore and departure keeps
\* the index an antichain, so no event can arrive through two roots.
RootsDisjoint ==
    \A r1, r2 \in DOMAIN index : StartsWith(r1, r2) => r1 = r2

\* index, by_handle and root_subs describe the same roots, root_subs and subs
\* the same membership, and no root outlives its last subscriber: the
\* `expect`s of commit_watch, plan_unwatch and force_remove_root never fire.
Lockstep ==
    /\ \A k \in DOMAIN index : index[k].handle \in DOMAIN by_handle
                              /\ by_handle[index[k].handle] = k
    /\ \A h \in DOMAIN by_handle : by_handle[h] \in DOMAIN index
                                  /\ index[by_handle[h]].handle = h
    /\ DOMAIN root_subs = DOMAIN by_handle
    /\ \A s \in DOMAIN subs : subs[s].root \in DOMAIN root_subs
                              /\ s \in root_subs[subs[s].root]
    /\ \A h \in DOMAIN root_subs :
          /\ root_subs[h] # {}
          /\ \A s \in root_subs[h] : s \in DOMAIN subs /\ subs[s].root = h

\* Every live subscription sits inside the root that serves it, through every
\* widen that re-points it and every restore that re-binds it.
SubsInsideRoot ==
    \A s \in DOMAIN subs : StartsWith(subs[s].key, by_handle[subs[s].root])

\* The cover map answers for exactly the live subscriptions.
CoversExact ==
    /\ \A k \in DOMAIN covers :
          covers[k] # {} /\ covers[k] = {s \in DOMAIN subs : subs[s].key = k}
    /\ \A s \in DOMAIN subs : subs[s].key \in DOMAIN covers

\* Every live subscription is served by a root armed under the very words it
\* asked for, and pruning words are read from the subscription's own key.
WordsHonoured ==
    \A s \in DOMAIN subs :
        LET root_key == by_handle[subs[s].root] IN
        /\ s \in DOMAIN asked
        /\ index[root_key].globs = asked[s]
        /\ asked[s] \in Pruning => root_key = subs[s].key

\* Readers always see the tables as of the last completed operation.
PublishedIsCommitted ==
    plan.phase # "closed" => shared = [roots |-> index, covers |-> covers]

\* A reservation lives exactly as long as its plan: none is leaked by an abort
\* and none is committed twice.
ReservationsMatchPlan ==
    DOMAIN pending = IF plan.phase \in {"planned", "unwinding"} THEN {plan.sub} ELSE {}

\* At any moment a reader of the view is told that a key is watched exactly
\* when a live subscription covers it: subscriptions sharing a key, widens,
\* restores and prunes never make a covered key look unwatched.
ViewExact ==
    plan.phase # "closed" =>
        \A k \in Key : is_watched(shared, k) <=>
                        \E s \in DOMAIN subs : StartsWith(k, subs[s].key)

\* A subscription keeps the key it was admitted at for its whole life, and an
\* id that has left is never admitted again.
SubscriptionsKeepTheirKey ==
    [][\A s \in DOMAIN subs' :
          \/ s \in DOMAIN subs /\ subs'[s].key = subs[s].key
          \/ s \notin DOMAIN subs /\ s \notin DOMAIN asked]_vars

-----------------------------------------------------------------------------
(* The inductive invariant behind the properties.                          *)

\* Ids are handed out in order: every id seen so far is below the counter.
IdsFresh ==
    \A s \in DOMAIN subs \cup DOMAIN asked \cup DOMAIN pending : s < next_sub

\* An outstanding plan still describes the tables: the owner touched nothing
\* since, unless it is unwinding, when the plan is never committed.
PlanSound ==
    /\ plan.phase \in {"planned", "unwinding"} =>
          plan.sub \notin DOMAIN subs \cup DOMAIN asked
    /\ plan.phase = "planned" /\ plan.kind = "covered" =>
          /\ plan.root \in DOMAIN by_handle
          /\ StartsWith(pending[plan.sub], by_handle[plan.root])
          /\ index[by_handle[plan.root]].globs = plan.globs
          /\ plan.globs \in Pruning => by_handle[plan.root] = pending[plan.sub]
    /\ plan.phase = "planned" /\ plan.kind = "widen" =>
          /\ plan.unwatch \subseteq DOMAIN by_handle
          /\ plan.repointed = UNION {root_subs[h] : h \in plan.unwatch}
          /\ plan.globs \notin Pruning
          /\ \A h \in plan.unwatch : index[by_handle[h]].globs = plan.globs
    /\ plan.phase = "planned" /\ plan.kind = "disjoint" => plan.unwatch = {}

IInv ==
    /\ TypeOK
    /\ RootsDisjoint
    /\ Lockstep
    /\ SubsInsideRoot
    /\ CoversExact
    /\ WordsHonoured
    /\ PublishedIsCommitted
    /\ ReservationsMatchPlan
    /\ IdsFresh
    /\ PlanSound

=============================================================================

----------------------------- MODULE WatchTree -----------------------------
(***************************************************************************)
(* The watch tree of tributary-proto's Monitor for one scope on a          *)
(* descending backend (one kernel watch per directory), as operators on a  *)
(* record m:                                                               *)
(*                                                                         *)
(*   nodes        watch id -> node; a node's children are the nodes that   *)
(*                name it as their parent                                  *)
(*   child_index  <<parent, name>> -> watch id, the slot's occupant        *)
(*   root         the scope's root watch, None once it is gone             *)
(*   rearm_pending, latent, held, dirtied, dark, stamps, bridge, deficits  *)
(*                the coverage books                                       *)
(*   pending      cookie -> the stored first half of a move                *)
(*   loss_gen     the generation of the last loss                          *)
(*   out          watches, arm attempts and requests still in flight       *)
(*   actions, events   what the current call has queued                    *)
(*                                                                         *)
(* Watch ids, arm attempts and request ids are only ever compared for      *)
(* equality, so a fresh one is the least that nothing still holds.  The    *)
(* topology clock is only read to ask whether a node moved since another   *)
(* was stamped, so an asking node keeps the set of those that did.  Every  *)
(* interest is on and every kind known, so no stat is ever asked.          *)
(***************************************************************************)
EXTENDS Integers, Sequences, FiniteSets, SequencesExt, FiniteSetsExt, TLC

CONSTANTS Reproves,        \* the profile's lossy_watch_teardown
          RearmMaxRetries, \* re-listings after an incomplete one
          DeficitCap,      \* fine-grained holes before the book collapses
          PendingMoveCap   \* stored first halves per scope

ASSUME TreeAssumption ==
    /\ Reproves \in BOOLEAN
    /\ RearmMaxRetries \in Nat
    /\ DeficitCap \in Nat
    /\ PendingMoveCap \in Nat

None == 0
NoName == "/"
Unknown == 0      \* no identity known

-----------------------------------------------------------------------------
(* Node states. *)

State(tag, rearm, reprove, req, attempts, dirty) ==
    [tag |-> tag, rearm |-> rearm, reprove |-> reprove, req |-> req,
     attempts |-> attempts, dirty |-> dirty]

Live == State("Live", FALSE, FALSE, 0, 0, FALSE)
Arming(rearm, reprove) == State("Arming", rearm, reprove, 0, 0, FALSE)
Cold == [rearm |-> FALSE, reprove |-> FALSE]
Rearm(reprove) == [rearm |-> TRUE, reprove |-> reprove]
Enumerating(req, kind, attempts, dirty) ==
    State("Enumerating", kind.rearm, kind.reprove, req, attempts, dirty)

Watched(m, id) == id \in DOMAIN m.nodes
Tag(m, id) == m.nodes[id].st.tag

-----------------------------------------------------------------------------
(* Places: the chain from the root to a watch, and locations as the        *)
(* sequences of names along it.                                            *)

Chain(m, id) ==
    LET up[x \in DOMAIN m.nodes] ==
          IF m.nodes[x].parent \in DOMAIN m.nodes
          THEN Append(up[m.nodes[x].parent], x)
          ELSE <<x>>
    IN  IF Watched(m, id) THEN up[id] ELSE <<>>

OnChain(m, id) == ToSet(Chain(m, id))
Subtree(m, id) == {x \in DOMAIN m.nodes : id \in OnChain(m, x)}
Children(m, id) == {x \in DOMAIN m.nodes : m.nodes[x].parent = id}

LocationOf(m, id) ==
    LET named == SelectSeq(Chain(m, id), LAMBDA x : m.nodes[x].name # NoName)
    IN  [i \in DOMAIN named |-> m.nodes[named[i]].name]

ChildLocation(m, parent, name) == Append(LocationOf(m, parent), name)
Touch(a, b) == IsPrefix(a, b) \/ IsPrefix(b, a)

ChildWatch(m, parent, name) ==
    IF <<parent, name>> \in DOMAIN m.child_index
    THEN m.child_index[<<parent, name>>] ELSE None

IsSlotChild(m, parent, child) ==
    ChildWatch(m, parent, m.nodes[child].name) = child

(* The innermost held source above a watch, None if no hold carries it. *)
InHeldSubtree(m, id) ==
    LET carried == SelectSeq(Chain(m, id), LAMBDA x : x \in m.held)
    IN  IF carried = <<>> THEN None ELSE Last(carried)

PlacementMovedSince(m, id) == m.nodes[id].moved \cap OnChain(m, id) # {}

CanReparent(m, child, new_parent) ==
    /\ Watched(m, child)
    /\ Watched(m, new_parent)
    /\ child \notin OnChain(m, new_parent)

IdentityDiffers(m, id, other) ==
    m.nodes[id].identity # Unknown /\ other # Unknown /\ m.nodes[id].identity # other
IdentityMatches(m, id, other) ==
    m.nodes[id].identity # Unknown /\ m.nodes[id].identity = other

MovedPlacement(m, id) ==
    [m EXCEPT !.nodes = [x \in DOMAIN @ |->
        [@[x] EXCEPT !.moved =
            IF Watched(m, id) /\ m.nodes[x].st.tag # "Live" THEN @ \cup {id} ELSE @]]]

Stamped(m, ids) ==
    [m EXCEPT !.nodes = [x \in DOMAIN @ |->
        IF x \in ids THEN [@[x] EXCEPT !.moved = {}] ELSE @[x]]]

-----------------------------------------------------------------------------
(* Events.  A change repeats nothing when the last queued change touching  *)
(* its place is the same change and no stored half starts there.           *)

PendingFrom(m, half) == LocationOf(m, half.from_parent) \o half.from
LiveHalf(m, half) == Watched(m, half.from_parent)

Places(e) == {e.at} \cup (IF e.kind = "Moved" THEN {e.from} ELSE {})

WouldCoalesce(m, e) ==
    LET touches(q) == \E a \in Places(q), b \in Places(e) : Touch(a, b)
        touching == SelectSeq(m.events, touches)
    IN  /\ ~ \E c \in DOMAIN m.pending :
               /\ LiveHalf(m, m.pending[c])
               /\ \E b \in Places(e) : Touch(PendingFrom(m, m.pending[c]), b)
        /\ touching # <<>>
        /\ Last(touching) = e

Emit(m, e) ==
    IF WouldCoalesce(m, e) THEN m ELSE [m EXCEPT !.events = Append(@, e)]

Change(kind, at) == [kind |-> kind, at |-> at, from |-> <<>>]
MovedChange(from, to) == [kind |-> "Moved", at |-> to, from |-> from]

BridgeSawRescan(m) == [m EXCEPT !.bridge.saw_rescan = TRUE]
BridgeFreshRearm(m) == [m EXCEPT !.bridge.fresh_rearm = TRUE]

MintRescan(m, at) == Emit(m, Change("Rescan", at))
EmitRescan(m, at) == MintRescan(BridgeSawRescan(m), at)

-----------------------------------------------------------------------------
(* State changes of one node, with the counters they carry. *)

SetState(m, id, st) ==
    LET old == m.nodes[id].st
        entered_fresh == /\ st.tag = "Arming" /\ st.rearm /\ ~st.reprove
                         /\ ~(old.tag = "Arming" /\ old.rearm)
        marked == IF entered_fresh THEN BridgeFreshRearm(m) ELSE m
        delta == IF st.rearm = old.rearm THEN 0 ELSE 1
    IN  IF ~Watched(m, id) THEN m
        ELSE [marked EXCEPT !.nodes[id].st = st,
                            !.nodes[id].moved = IF st.tag = "Live" THEN {} ELSE @,
                            !.rearm_pending = IF st.rearm THEN @ + delta ELSE @ - delta]

\* Mutant: a record during a re-arm listing leaves it clean.
MarkEnumerateDirty_rearm(m, id) ==
    IF Watched(m, id) /\ Tag(m, id) = "Enumerating" /\ ~m.nodes[id].st.rearm
    THEN [m EXCEPT !.nodes[id].st.dirty = TRUE] ELSE m

MarkEnumerateDirty(m, id) ==
    IF Watched(m, id) /\ Tag(m, id) = "Enumerating"
    THEN [m EXCEPT !.nodes[id].st.dirty = TRUE] ELSE m

BookHold(m, source) == [m EXCEPT !.dirtied = @ \cup {source}]

Unused(used) == CHOOSE n \in 1..(Cardinality(used) + 1) : n \notin used

InFlight(m) == m.out \cup {[op |-> a.op, id |-> a.id, n |-> a.n] : a \in ToSet(m.actions)}
FreshNumber(m, op, id) ==
    Unused({f.n : f \in {g \in InFlight(m) : g.op = op /\ g.id = id}})

(* A reused or retired attempt takes a fresh number and a fresh stamp. *)
AdoptArm(m, id) ==
    IF Watched(m, id)
    THEN [Stamped(m, {id}) EXCEPT
            !.nodes[id].attempt = FreshNumber(m, "Watch", id)]
    ELSE m

QueueWatch(m, id) ==
    LET armed == AdoptArm(m, id)
        n == armed.nodes[id]
    IN  [armed EXCEPT !.actions =
            Append(@, [op |-> "Watch", id |-> id, n |-> n.attempt,
                       parent |-> n.parent, name |-> n.name])]

(* The slot arm of a node, stamped with the loss generation it re-proves. *)
QueueReinstall(m, id) ==
    [QueueWatch(m, id) EXCEPT !.stamps =
        [x \in DOMAIN @ \cup {id} |-> IF x = id THEN m.loss_gen ELSE @[x]]]

ForgetRead(m, id) == [m EXCEPT !.latent = @ \ {id}]

QueueEnumerate(m, id, kind, attempts) ==
    LET req == FreshNumber(m, "Enumerate", id)
        asked == [Stamped(ForgetRead(m, id), {id}) EXCEPT
                    !.actions = Append(@, [op |-> "Enumerate", id |-> id, n |-> req,
                                           parent |-> None, name |-> NoName])]
    IN  IF Watched(m, id) THEN SetState(asked, id, Enumerating(req, kind, attempts, FALSE))
        ELSE m

-----------------------------------------------------------------------------
(* Re-arm kickoffs. *)

StartRearm(m, id) ==
    LET st == m.nodes[id].st
        redo == SetState(m, id, [st EXCEPT !.attempts = 0, !.dirty = TRUE])
    IN  CASE ~Watched(m, id)           -> m
          [] st.tag = "Live"           -> QueueEnumerate(m, id, Rearm(FALSE), 0)
          [] st.tag = "Enumerating"    -> IF st.rearm THEN redo
                                          ELSE [redo EXCEPT !.latent = @ \cup {id}]
          [] st.tag = "Arming"         -> m

InheritRearm(m, id) ==
    IF Watched(m, id) /\ Tag(m, id) = "Arming"
    THEN SetState(m, id, [m.nodes[id].st EXCEPT !.rearm = TRUE])
    ELSE StartRearm(m, id)

StartReinstall(m, id) ==
    LET rearming == SetState(ForgetRead(m, id), id, Arming(TRUE, TRUE))
        stale == IF m.loss_gen = 0 THEN 0 ELSE m.loss_gen - 1
    IN  CASE ~Watched(m, id) -> m
          [] Watched(m, id) /\ Tag(m, id) # "Arming" -> QueueReinstall(rearming, id)
          [] OTHER -> [SetState(m, id, Arming(TRUE, TRUE)) EXCEPT !.stamps =
                         IF id \in DOMAIN @ THEN @
                         ELSE [x \in DOMAIN @ \cup {id} |-> IF x = id THEN stale ELSE @[x]]]

NeedsReproof(m) == Reproves /\ m.loss_gen > 0

HealKick(m, id) == IF NeedsReproof(m) THEN StartReinstall(m, id) ELSE InheritRearm(m, id)

RescanAndRearm(m, id) == StartRearm(EmitRescan(m, LocationOf(m, id)), id)

StandCountedCover(m) ==
    IF m.root = None THEN m
    ELSE InheritRearm(EmitRescan(m, LocationOf(m, m.root)), m.root)

ScopeLossRecovery(m) ==
    IF ~Reproves THEN RescanAndRearm(m, m.root)
    ELSE StartReinstall(
           EmitRescan([m EXCEPT !.loss_gen = @ + 1], LocationOf(m, m.root)), m.root)

ReaddressOutstandingArm(m, id) ==
    IF Watched(m, id) /\ Tag(m, id) = "Arming"
    THEN IF m.nodes[id].st.reprove THEN QueueReinstall(m, id) ELSE QueueWatch(m, id)
    ELSE m

-----------------------------------------------------------------------------
(* The deficit book: holes the consumer was told of and nobody watches. *)

EmptyBook == [slots |-> {}, interiors |-> {}, collapsed |-> FALSE]

EnforceDeficitCap(book) ==
    IF Cardinality(book.slots) + Cardinality(book.interiors) > DeficitCap
    THEN [EmptyBook EXCEPT !.collapsed = TRUE] ELSE book

RecordSlotDeficit(m, parent, name) ==
    IF Watched(m, parent) /\ ~m.deficits.collapsed
    THEN [m EXCEPT !.deficits = EnforceDeficitCap([@ EXCEPT !.slots = @ \cup {<<parent, name>>}])]
    ELSE m

RecordInteriorDeficit(m, id) ==
    IF Watched(m, id) /\ ~m.deficits.collapsed
    THEN [m EXCEPT !.deficits = EnforceDeficitCap([@ EXCEPT !.interiors = @ \cup {id}])]
    ELSE m

RemoveSlotDeficit(m, parent, name) ==
    IF <<parent, name>> \in m.deficits.slots
    THEN BridgeFreshRearm(BridgeSawRescan(
           [m EXCEPT !.deficits.slots = @ \ {<<parent, name>>}]))
    ELSE m

ClearInteriorDeficit(m, id) ==
    IF id \in m.deficits.interiors
    THEN BridgeFreshRearm(BridgeSawRescan([m EXCEPT !.deficits.interiors = @ \ {id}]))
    ELSE m

-----------------------------------------------------------------------------
(* Dropping a subtree: every book forgets its nodes; holes die into the    *)
(* bridge, onto the vacated slot or with the scope, as the caller says,    *)
(* and a dirtied hold is made good by a counted root cover.                *)

DropSubtree(m, id, discharge) ==
    LET gone == Subtree(m, id)
        kept == DOMAIN m.nodes \ gone
        n == m.nodes[id]
        holes == \/ \E s \in m.deficits.slots : s[1] \in gone
                 \/ m.deficits.interiors \cap gone # {}
        counted == m.dirtied \cap gone # {}
        slots == {k \in DOMAIN m.child_index : m.child_index[k] \notin gone}
        unwatch(acc, x) == Append(acc, [op |-> "Unwatch", id |-> x, n |-> 0,
                                        parent |-> None, name |-> NoName])
        swept == [m EXCEPT
            !.nodes = [x \in kept |-> [@[x] EXCEPT !.moved = @ \ gone]],
            !.child_index = [k \in slots |-> @[k]],
            !.root = IF @ \in gone THEN None ELSE @,
            !.rearm_pending = @ - Cardinality({x \in gone : m.nodes[x].st.rearm}),
            !.latent = @ \ gone,
            !.held = @ \ gone,
            !.dirtied = @ \ gone,
            !.dark = @ \ gone,
            !.stamps = [x \in DOMAIN @ \ gone |-> @[x]],
            !.deficits.slots = {s \in @ : s[1] \notin gone},
            !.deficits.interiors = @ \ gone,
            !.actions = FoldSet(LAMBDA x, acc : unwatch(acc, x), @, gone)]
        discharged(x) ==
            CASE holes /\ discharge = "CoveringRescan" ->
                    BridgeFreshRearm(BridgeSawRescan(x))
              [] holes /\ discharge = "Reanchor" /\ n.parent # None ->
                    RecordSlotDeficit(x, n.parent, n.name)
              [] OTHER -> x
        covered(x) == IF counted /\ discharge # "Teardown" THEN StandCountedCover(x) ELSE x
    IN  IF Watched(m, id) THEN covered(discharged(swept)) ELSE m

InvalidateRoot(m) ==
    [DropSubtree(m, m.root, "Teardown") EXCEPT
        !.pending = <<>>,
        !.bridge = [saw_rescan |-> FALSE, fresh_rearm |-> FALSE, bootstrap |-> FALSE],
        !.deficits = EmptyBook,
        !.loss_gen = 0]

-----------------------------------------------------------------------------
(* Installing children and reconciling a slot with its occupant. *)

Mint(m) ==
    Unused(DOMAIN m.nodes \cup {f.id : f \in InFlight(m)}
             \cup UNION {{m.pending[c].held, m.pending[c].from_parent} : c \in DOMAIN m.pending})

InstallChild(m, parent, name, identity) ==
    LET id == Mint(m)
        node == [parent |-> parent, name |-> name, attempt |-> 0, moved |-> {},
                 identity |-> identity, st |-> Arming(FALSE, FALSE)]
        placed(y) == [y EXCEPT
            !.nodes = [x \in DOMAIN @ \cup {id} |-> IF x = id THEN node ELSE @[x]],
            !.child_index = [k \in DOMAIN @ \cup {<<parent, name>>} |->
                               IF k = <<parent, name>> THEN id ELSE @[k]]]
    IN  IF Watched(m, parent) /\ ChildWatch(m, parent, name) = None
        THEN QueueWatch(placed(RemoveSlotDeficit(m, parent, name)), id) ELSE m

(* A slot whose watch died is told of and watched again, as re-arm work. *)
CoverAndRebuildSlot(m, parent, name, identity) ==
    LET rearm(x) == InheritRearm(x, ChildWatch(x, parent, name))
        rebuild(x) == IF ChildWatch(x, parent, name) = None
                      THEN rearm(InstallChild(x, parent, name, identity)) ELSE x
    IN  rebuild(EmitRescan(m, ChildLocation(m, parent, name)))

ReconcileDir(m, parent, name, replaced, identity) ==
    LET existing == ChildWatch(m, parent, name)
        replace == existing # None /\ (replaced \/ IdentityDiffers(m, existing, identity))
        inherit == replace /\ m.nodes[existing].st.rearm
        dark == inherit /\ existing \in m.dark
        cleared == IF replace THEN DropSubtree(m, existing, "CoveringRescan") ELSE m
        darken(x, fresh) == [x EXCEPT !.dark = IF dark THEN @ \cup {fresh} ELSE @]
        inherited(x, fresh) ==
            IF inherit /\ fresh # None THEN darken(InheritRearm(x, fresh), fresh) ELSE x
        owed(x) == inherited(x, ChildWatch(x, parent, name))
    IN  owed(InstallChild(cleared, parent, name, identity))

ReconcileGone(m, parent, name) ==
    RemoveSlotDeficit(DropSubtree(m, ChildWatch(m, parent, name), "CoveringRescan"),
                      parent, name)

ReconcileSlot(m, parent, name, is_dir, replaced, identity) ==
    IF is_dir THEN ReconcileDir(m, parent, name, replaced, identity)
    ELSE ReconcileGone(m, parent, name)

MarkFreshInstall(m, id) ==
    LET marked == IF m.bridge.bootstrap THEN BridgeSawRescan(m) ELSE m
    IN  IF id = None THEN marked ELSE [marked EXCEPT !.dark = @ \cup {id}]

(* When no re-arm is left, a window that saw both a loss and a watch armed *)
(* behind it ends in one Rescan of the whole scope.                        *)
SettleBridges(m) ==
    LET told == IF m.root # None /\ m.bridge.saw_rescan /\ m.bridge.fresh_rearm
                THEN EmitRescan(m, <<>>) ELSE m
    IN  IF m.rearm_pending # 0 THEN m
        ELSE [told EXCEPT !.bridge =
                [saw_rescan |-> FALSE, fresh_rearm |-> FALSE, bootstrap |-> FALSE]]
=============================================================================

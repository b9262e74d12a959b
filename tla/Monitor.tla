------------------------------ MODULE Monitor ------------------------------
(***************************************************************************)
(* The inputs of tributary-proto's Monitor, each as an operator from the   *)
(* record of WatchTree before the call to the record after it, with the    *)
(* actions and events the call queues still in it.                         *)
(*                                                                         *)
(* A record is [kind, id, name, cookie, is_dir]; the inotify backend gives *)
(* no identity with a record, one name with a slot record and none with a  *)
(* self event.  A listing is [kind, entries]: Ok, Partial or Failed, and   *)
(* entries [name, is_dir, ino].                                            *)
(***************************************************************************)
EXTENDS WatchTree

IsSelf(rec) == rec.kind \in {"MoveSelf", "DeleteSelf", "Ignored"}
RecordLocation(m, rec) ==
    IF IsSelf(rec) THEN LocationOf(m, rec.id) ELSE ChildLocation(m, rec.id, rec.name)

-----------------------------------------------------------------------------
(* register_root: the bootstrap window opens with the root's own arm. *)

RegisterRoot ==
    LET node == [parent |-> None, name |-> NoName, attempt |-> 0, moved |-> {},
                 identity |-> Unknown, st |-> Arming(TRUE, FALSE)]
        m == [nodes |-> 1 :> node, child_index |-> <<>>, root |-> 1,
              rearm_pending |-> 1, latent |-> {}, held |-> {}, dirtied |-> {},
              dark |-> {}, stamps |-> <<>>, pending |-> <<>>,
              bridge |-> [saw_rescan |-> FALSE, fresh_rearm |-> TRUE, bootstrap |-> TRUE],
              deficits |-> EmptyBook, loss_gen |-> 0, out |-> {},
              actions |-> <<>>, events |-> <<>>]
    IN  QueueWatch(m, 1)

-----------------------------------------------------------------------------
(* Stored halves of moves. *)

AdmitsPendingMove(m, cookie) ==
    cookie \in DOMAIN m.pending \/ Cardinality(DOMAIN m.pending) < PendingMoveCap

\* Mutant: no stored half hears of what touches its source.
DirtyPendingSourcesTouching_deaf(m, at, exclude, carried) == m

DirtyPendingSourcesTouching(m, at, exclude, carried) ==
    LET hit(c) == /\ c # exclude
                  /\ LiveHalf(m, m.pending[c])
                  /\ carried \notin OnChain(m, m.pending[c].from_parent)
                  /\ Touch(PendingFrom(m, m.pending[c]), at)
    IN  [m EXCEPT !.pending =
            [c \in DOMAIN @ |-> IF hit(c) THEN [@[c] EXCEPT !.dirty = TRUE] ELSE @[c]]]

DirtyHeldSources(m) == [m EXCEPT !.dirtied = @ \cup m.held]

(* A completed move carries the halves stored beneath it along, dirty. *)
ReanchorPendingSources(m, from, to) ==
    LET moved(c) == LiveHalf(m, m.pending[c]) /\ IsPrefix(from, PendingFrom(m, m.pending[c]))
        rewritten(half) ==
            LET source == PendingFrom(m, half)
                anchor == LocationOf(m, half.from_parent)
            IN  IF source # from /\ IsPrefix(anchor, to)
                THEN SubSeq(to, Len(anchor) + 1, Len(to))
                       \o SubSeq(source, Len(from) + 1, Len(source))
                ELSE half.from
    IN  [m EXCEPT !.pending =
            [c \in DOMAIN @ |->
               IF moved(c) THEN [@[c] EXCEPT !.from = rewritten(@), !.dirty = TRUE] ELSE @[c]]]

ResolveLostSource(m, from) == Emit(m, Change("Removed", from))

ResolveStoredHalf(m, half) ==
    LET covered(x, from) == IF half.dirty THEN EmitRescan(x, from) ELSE x
        told(x, from) == DirtyPendingSourcesTouching(
                           covered(ResolveLostSource(x, from), from), from, None, None)
        settled(x) == IF LiveHalf(x, half) THEN told(x, PendingFrom(x, half)) ELSE x
    IN  settled(DropSubtree(m, half.held, "CoveringRescan"))

RescanDirtyPair(m, half, to) ==
    LET source == IF LiveHalf(m, half) THEN EmitRescan(m, PendingFrom(m, half)) ELSE m
    IN  IF half.dirty THEN EmitRescan(source, to) ELSE m

EmitPair(m, half, to) ==
    IF LiveHalf(m, half) THEN Emit(m, MovedChange(PendingFrom(m, half), to))
    ELSE Emit(m, Change("Created", to))

\* Mutant: the detached child keeps its slot.
DetachChild_indexed(m, id) ==
    LET moved == MovedPlacement(m, id)
    IN  IF m.nodes[id].st.tag = "Arming" THEN AdoptArm(moved, id) ELSE moved

DetachChild(m, id) ==
    LET n == m.nodes[id]
        vacated == [m EXCEPT !.child_index =
                      [k \in DOMAIN @ \ {<<n.parent, n.name>>} |-> @[k]]]
        moved == MovedPlacement(vacated, id)
    IN  IF n.st.tag = "Arming" THEN AdoptArm(moved, id) ELSE moved

(* The slot's stale occupant is dropped, its re-arm obligation inherited;  *)
(* .ok is the function's answer.                                           *)
Reparent(m, child, new_parent, name) ==
    LET stale == ChildWatch(m, new_parent, name)
        displaces == stale # None /\ stale # child
        inherit == displaces /\ m.nodes[stale].st.rearm
        cleared == IF displaces THEN DropSubtree(m, stale, "CoveringRescan") ELSE m
        linked(x) == [x EXCEPT
            !.nodes[child].parent = new_parent,
            !.nodes[child].name = name,
            !.child_index = [k \in DOMAIN @ \cup {<<new_parent, name>>} |->
                               IF k = <<new_parent, name>> THEN child ELSE @[k]]]
        owed(x) == IF inherit THEN InheritRearm(x, child) ELSE x
        moved(x) == ReaddressOutstandingArm(owed(MovedPlacement(linked(x), child)), child)
        tried(x) == IF Watched(x, child) /\ Watched(x, new_parent)
                    THEN [ok |-> TRUE, m |-> moved(x)] ELSE [ok |-> FALSE, m |-> x]
    IN  tried(cleared)

-----------------------------------------------------------------------------
(* Records. *)

OnCreated(m, rec) ==
    ReconcileSlot(Emit(m, Change("Created", RecordLocation(m, rec))),
                  rec.id, rec.name, rec.is_dir, FALSE, Unknown)

OnRemoved(m, rec) ==
    ReconcileGone(Emit(m, Change("Removed", RecordLocation(m, rec))), rec.id, rec.name)

(* The first half of a move: its subtree is detached and held, unless the  *)
(* table of halves is full.                                                *)
OnMovedFrom(m, rec) ==
    LET src == ChildWatch(m, rec.id, rec.name)
        lossy == NeedsReproof(m) /\ m.rearm_pending # 0
        detached == [DetachChild(m, src) EXCEPT !.held = @ \cup {src}]
        carried == IF src = None THEN m
                   ELSE IF lossy THEN BookHold(detached, src) ELSE detached
        half == [from_parent |-> rec.id, from |-> <<rec.name>>,
                 held |-> src, is_dir |-> src # None \/ rec.is_dir, dirty |-> FALSE]
        parked == [carried EXCEPT !.pending =
                     [c \in DOMAIN @ \cup {rec.cookie} |->
                        IF c = rec.cookie THEN half ELSE @[c]]]
        dropped == IF src = None THEN m
                   ELSE DropSubtree(StandCountedCover(m), src, "CoveringRescan")
        lost(x) == ResolveLostSource(x, RecordLocation(x, rec))
    IN  IF AdmitsPendingMove(m, rec.cookie)
        THEN IF rec.cookie \in DOMAIN m.pending
             THEN ResolveStoredHalf(parked, m.pending[rec.cookie]) ELSE parked
        ELSE lost(dropped)

Unstore(m, cookie) == [m EXCEPT !.pending = [c \in DOMAIN @ \ {cookie} |-> @[c]]]

(* A half whose other end is nowhere in the tree any more. *)
CoverUnplaced(m) ==
    StandCountedCover(DirtyHeldSources(DirtyPendingSourcesTouching(m, <<>>, None, None)))

(* The pair is told; what is stored beneath its source, if that was known  *)
(* when the second half came, goes along.                                  *)
TellPair(m, half, known, from, to) ==
    LET anchored(x) == IF known THEN ReanchorPendingSources(x, from, to) ELSE x
    IN  RescanDirtyPair(anchored(EmitPair(m, half, to)), half, to)

(* The destination of a move is built anew; rearms: as re-arm work. *)
BuildDestination(m, rec, half, rearms) ==
    LET arrived(x, fresh) == IF rearms /\ fresh # None THEN InheritRearm(x, fresh) ELSE x
        owed(x) == arrived(x, ChildWatch(x, rec.id, rec.name))
    IN  owed(ReconcileSlot(m, rec.id, rec.name, half.is_dir \/ rec.is_dir, TRUE, Unknown))

(* A half in its window whose subtree was held: the subtree moves with it, *)
(* or is dropped and its destination built anew.                           *)
PairHeld(m, rec, half, to) ==
    LET src == half.held
        tell(x) == TellPair(x, half, LiveHalf(m, half), PendingFrom(m, half), to)
        dirtied == src \in m.dirtied
        free == [m EXCEPT !.held = @ \ {src}, !.dirtied = @ \ {src}]
        tree == IF CanReparent(free, src, rec.id)
                THEN Reparent(free, src, rec.id, rec.name) ELSE [ok |-> FALSE, m |-> free]
        joined(x) == IF dirtied THEN HealKick(EmitRescan(x, to), src) ELSE x
        rebuilt(x) ==
            IF Watched(x, rec.id)
            THEN BuildDestination(EmitRescan(tell(x), to), rec, half, TRUE)
            ELSE CoverUnplaced(x)
        paired(t) == IF t.ok THEN joined(tell(t.m))
                     ELSE rebuilt(DropSubtree(t.m, src, "CoveringRescan"))
    IN  paired(tree)

PairBare(m, rec, half, to) ==
    BuildDestination(TellPair(m, half, LiveHalf(m, half), PendingFrom(m, half), to),
                     rec, half, FALSE)

(* A half whose window has closed: a removal there and an arrival here. *)
PairLate(m, rec, half, to) ==
    LET carried == half.held # None /\ Watched(m, half.held)
        covered(x) == IF carried THEN EmitRescan(x, to) ELSE x
        arrive(x) ==
            IF Watched(x, rec.id)
            THEN BuildDestination(covered(Emit(x, Change("Created", to))), rec, half, carried)
            ELSE CoverUnplaced(x)
    IN  arrive(ResolveStoredHalf(m, half))

(* late: the pairing window has closed when the second half comes. *)
OnMovedTo(m, rec, late) ==
    LET to == RecordLocation(m, rec)
        half == m.pending[rec.cookie]
        taken == Unstore(m, rec.cookie)
    IN  CASE rec.cookie \notin DOMAIN m.pending ->
               ReconcileSlot(Emit(m, Change("Created", to)),
                             rec.id, rec.name, rec.is_dir, TRUE, Unknown)
          [] late -> PairLate(taken, rec, half, to)
          [] ~late /\ half.held # None -> PairHeld(taken, rec, half, to)
          [] OTHER -> PairBare(taken, rec, half, to)

OnMoveSelf(m, rec) ==
    IF rec.id = m.root THEN InvalidateRoot(EmitRescan(m, <<>>)) ELSE m

OnDeleteSelf(m, rec) ==
    IF rec.id = m.root
    THEN InvalidateRoot(EmitRescan(Emit(m, Change("Removed", <<>>)), <<>>))
    ELSE DropSubtree(m, rec.id, "CoveringRescan")

OnIgnored(m, rec) ==
    LET source == InHeldSubtree(m, rec.id)
        n == m.nodes[rec.id]
    IN  CASE rec.id = m.root -> InvalidateRoot(EmitRescan(m, <<>>))
          [] rec.id # m.root /\ source # None ->
               DropSubtree(BookHold(m, source), rec.id, "CoveringRescan")
          [] OTHER -> CoverAndRebuildSlot(DropSubtree(m, rec.id, "CoveringRescan"),
                                          n.parent, n.name, Unknown)

(* Inside a held subtree a slot record is not applied: its place is the    *)
(* old one, so the hold is dirtied instead.  The one exception completes   *)
(* the very move that holds the subtree.                                   *)
Fenced(m, rec, source) ==
    /\ source # None
    /\ ~IsSelf(rec)
    /\ ~(/\ rec.kind = "MovedTo"
         /\ rec.cookie \in DOMAIN m.pending
         /\ m.pending[rec.cookie].held = source)

IngestRecord(m, rec, late) ==
    LET source == InHeldSubtree(m, rec.id)
        carried == IF rec.kind = "MovedFrom" /\ AdmitsPendingMove(m, rec.cookie)
                   THEN ChildWatch(m, rec.id, rec.name) ELSE None
        exclude == IF rec.kind = "MovedTo" THEN rec.cookie ELSE None
        touched == MarkEnumerateDirty(
            DirtyPendingSourcesTouching(m, RecordLocation(m, rec), exclude, carried), rec.id)
    IN  CASE ~Watched(m, rec.id) -> m
          [] Watched(m, rec.id) /\ Fenced(m, rec, source) ->
               MarkEnumerateDirty(BookHold(m, source), rec.id)
          [] rec.kind = "Created" -> OnCreated(touched, rec)
          [] rec.kind = "Removed" -> OnRemoved(touched, rec)
          [] rec.kind = "MovedFrom" -> OnMovedFrom(touched, rec)
          [] rec.kind = "MovedTo" -> OnMovedTo(touched, rec, late)
          [] rec.kind = "MoveSelf" -> OnMoveSelf(m, rec)
          [] rec.kind = "DeleteSelf" -> OnDeleteSelf(m, rec)
          [] rec.kind = "Ignored" -> OnIgnored(m, rec)

OnOsRecord(m, rec, late) == SettleBridges(IngestRecord(m, rec, late))

-----------------------------------------------------------------------------
(* Listings. *)

Listed(entry, m, dir, mark) ==
    LET fresh == entry.is_dir /\ ChildWatch(m, dir, entry.name) = None
        marked(x) == IF mark /\ fresh
                     THEN MarkFreshInstall(x, ChildWatch(x, dir, entry.name)) ELSE x
    IN  marked(ReconcileSlot(m, dir, entry.name, entry.is_dir, FALSE, entry.ino))

(* A listing that proves nothing: what it adds is added, every child is    *)
(* owed another look, and the directory is listed again while retries      *)
(* last; then the hole is booked.                                          *)
HandleIncomplete(m, dir, entries, attempts, deliver, reprove) ==
    LET added == FoldSet(LAMBDA e, acc : Listed(e, acc, dir, TRUE), m, entries)
        again(c, acc) == IF reprove /\ IsSlotChild(acc, dir, c)
                         THEN StartReinstall(acc, c) ELSE InheritRearm(acc, c)
        kicked(x) == FoldSet(again, x, Children(x, dir))
        told(x) == IF deliver THEN EmitRescan(x, LocationOf(x, dir)) ELSE x
        booked(x) == IF deliver THEN RecordInteriorDeficit(x, dir) ELSE x
        retried(x) == IF attempts < RearmMaxRetries
                      THEN QueueEnumerate(x, dir, Rearm(reprove), attempts + 1)
                      ELSE booked([x EXCEPT !.dark = @ \ {dir}])
    IN  retried(told(kicked(added)))

(* A complete listing under re-arm: the children it confirms are looked    *)
(* at in turn, the others dropped, the missing ones installed.             *)
RearmEnumerate(m, dir, entries, reprove) ==
    LET dirs == {e \in entries : e.is_dir}
        names == {e.name : e \in dirs}
        slots == {c \in Children(m, dir) : IsSlotChild(m, dir, c)}
        survives(c) == \E e \in dirs : e.name = m.nodes[c].name /\ IdentityMatches(m, c, e.ino)
        retired == {c \in slots : ~survives(c)}
        rebuilt == \A c \in retired : m.nodes[c].name \in names
        visit(c, acc) ==
            CASE ~survives(c) -> DropSubtree(acc, c, "Reanchor")
              [] survives(c) /\ reprove -> StartReinstall(acc, c)
              [] OTHER -> InheritRearm(acc, c)
        told(x) == IF retired # {} /\ ~(rebuilt /\ x.bridge.saw_rescan)
                   THEN EmitRescan(x, LocationOf(x, dir)) ELSE x
        owed(x, fresh) == MarkFreshInstall(InheritRearm(x, fresh), fresh)
        fill(e, x) == owed(x, ChildWatch(x, dir, e.name))
        install(e, acc) == IF ChildWatch(acc, dir, e.name) # None THEN acc
                           ELSE fill(e, InstallChild(acc, dir, e.name, e.ino))
    IN  FoldSet(install, told(FoldSet(visit, m, slots)), dirs)

ColdEnumerate(m, dir, entries) ==
    FoldSet(LAMBDA e, acc : Listed(e, Emit(acc, Change("Created", ChildLocation(acc, dir, e.name))),
                                   dir, FALSE),
            m, entries)

\* Mutant: a directory with entries is listed once more, every time.
SettleDarkInstall_again(m, dir, entries) ==
    LET settled == [m EXCEPT !.dark = @ \ {dir}]
    IN  IF entries # {} THEN StartRearm(BridgeSawRescan(settled), dir) ELSE settled

SettleDarkInstall(m, dir, entries) ==
    LET settled == [m EXCEPT !.dark = @ \ {dir}]
    IN  IF dir \in m.dark /\ entries # {} THEN BridgeSawRescan(settled) ELSE settled

(* Entries a listing read elsewhere may still add. *)
Additive(m, dir, entries) ==
    {e \in entries : e.is_dir /\ ChildWatch(m, dir, e.name) = None}

IngestEnumerate(m, dir, req, res) ==
    LET st == m.nodes[dir].st
        source == InHeldSubtree(m, dir)
        moved == PlacementMovedSince(m, dir)
        evidence == source = None /\ ~moved
        fenced == IF source # None THEN BookHold(m, source) ELSE m
        read == SetState(ForgetRead(fenced, dir), dir, Live)
        entries == IF evidence THEN res.entries
                   ELSE IF moved THEN {} ELSE Additive(read, dir, res.entries)
        cleared == ClearInteriorDeficit(read, dir)
        applied == IF st.rearm THEN RearmEnumerate(cleared, dir, res.entries, st.reprove)
                   ELSE ColdEnumerate(cleared, dir, res.entries)
    IN  CASE ~(/\ Watched(m, dir)
               /\ m.nodes[dir].st.tag = "Enumerating"
               /\ m.nodes[dir].st.req = req) -> m
          [] res.kind # "Ok" \/ st.dirty \/ ~evidence ->
               HandleIncomplete(read, dir, entries, st.attempts, source = None, st.reprove)
          [] OTHER -> SettleDarkInstall(applied, dir, res.entries)

OnEnumerate(m, dir, req, res) == SettleBridges(IngestEnumerate(m, dir, req, res))

-----------------------------------------------------------------------------
(* Arm results. *)

RetireUnprovableBinding(m, id, locatable) ==
    LET n == m.nodes[id]
        cleared == DropSubtree(m, id, "CoveringRescan")
    IN  CASE id = m.root -> InvalidateRoot(EmitRescan(m, LocationOf(m, id)))
          [] id # m.root /\ locatable ->
               CoverAndRebuildSlot(cleared, n.parent, n.name, n.identity)
          [] OTHER -> cleared

(* The generation an arm was sent under is the current one. *)
StampCurrent(m, id) == id \in DOMAIN m.stamps /\ m.stamps[id] = m.loss_gen

Certify(m, id, ack) ==
    LET st == m.nodes[id].st
        fresh == IF st.reprove /\ ack = "Installed" THEN BridgeFreshRearm(m) ELSE m
        proved == [fresh EXCEPT !.stamps = [x \in DOMAIN @ \ {id} |-> @[x]]]
        live(x) == SetState(x, id, Live)
    IN  CASE st.reprove /\ ~StampCurrent(m, id) -> QueueReinstall(fresh, id)
          [] st.reprove /\ StampCurrent(m, id) ->
               QueueEnumerate(live(proved), id, Rearm(TRUE), 0)
          [] ~st.reprove /\ st.rearm -> StartRearm(live(m), id)
          [] OTHER -> QueueEnumerate(live(m), id, Cold, 0)

ArmFailed(m, id, locatable) ==
    LET n == m.nodes[id]
        told == EmitRescan(m, LocationOf(m, id))
    IN  CASE ~locatable -> DropSubtree(m, id, "CoveringRescan")
          [] locatable /\ id = m.root -> InvalidateRoot(told)
          [] OTHER -> DropSubtree(RecordSlotDeficit(told, n.parent, n.name),
                                  id, "CoveringRescan")

IngestWatchResult(m, id, attempt, ack) ==
    LET source == InHeldSubtree(m, id)
        moved == PlacementMovedSince(m, id)
        fenced == IF source # None THEN BookHold(m, source) ELSE m
        ok == ack # "Failed"
        arming == m.nodes[id].st.tag = "Arming"
    IN  CASE ~(Watched(m, id) /\ m.nodes[id].attempt = attempt) -> m
          [] ok /\ arming /\ (moved \/ source # None) ->
               RetireUnprovableBinding(fenced, id, source = None)
          [] moved -> ReaddressOutstandingArm(fenced, id)
          [] ok /\ ~moved -> IF arming THEN Certify(fenced, id, ack) ELSE fenced
          [] OTHER -> ArmFailed(fenced, id, source = None)

OnWatchResult(m, id, attempt, ack) == SettleBridges(IngestWatchResult(m, id, attempt, ack))

-----------------------------------------------------------------------------
(* Loss, timeouts and the heal signal. *)

OnOverflow(m) ==
    SettleBridges(
        IF m.root = None THEN m
        ELSE DirtyHeldSources(ScopeLossRecovery(DirtyPendingSourcesTouching(m, <<>>, None, None))))

HandleTimeout(m, expired) ==
    SettleBridges(FoldSet(LAMBDA c, acc : ResolveStoredHalf(Unstore(acc, c), acc.pending[c]),
                          m, expired))

ResignalCoverageDeficits(m) ==
    LET interior(d, acc) ==
            IF InHeldSubtree(acc, d) # None THEN BookHold(acc, InHeldSubtree(acc, d))
            ELSE [HealKick(EmitRescan(acc, LocationOf(acc, d)), d)
                    EXCEPT !.deficits.interiors = @ \ {d}]
        slot(s, acc) ==
            IF InHeldSubtree(acc, s[1]) # None THEN BookHold(acc, InHeldSubtree(acc, s[1]))
            ELSE [HealKick(EmitRescan(acc, ChildLocation(acc, s[1], s[2])), s[1])
                    EXCEPT !.deficits.slots = @ \ {s}]
    IN  SettleBridges(
            IF m.root = None \/ m.deficits = EmptyBook THEN m
            ELSE IF m.deficits.collapsed
            THEN [HealKick(EmitRescan(m, <<>>), m.root) EXCEPT !.deficits = EmptyBook]
            ELSE FoldSet(slot, FoldSet(interior, m, m.deficits.interiors), m.deficits.slots))

-----------------------------------------------------------------------------
(* The queries the driver's fences ask. *)

RearmSettled(m) == m.rearm_pending = 0
CoverageSettled(m) ==
    RearmSettled(m) /\ m.held = {} /\ m.latent = {} /\ m.pending = <<>>

(* poll_action: an arm the node has since superseded is passed over, and   *)
(* a dispatched one stamps the node's placement.                           *)
Superseded(m, a) ==
    a.op = "Watch" /\ Watched(m, a.id) /\ m.nodes[a.id].attempt # a.n
Polled(m) == SelectSeq(m.actions, LAMBDA a : ~Superseded(m, a))
Drained(m) ==
    LET armed == {a.id : a \in {b \in ToSet(Polled(m)) : b.op = "Watch"}}
    IN  [Stamped(m, armed) EXCEPT !.actions = <<>>, !.events = <<>>, !.out = {}]
=============================================================================

---------------------------- MODULE WatchedTree ----------------------------
(***************************************************************************)
(* One inotify scope end to end: a directory tree that changes, the        *)
(* kernel's marks and event queue, the reader's descriptor table, the      *)
(* driver's control batches and listings, the Monitor, and a consumer that *)
(* keeps a picture of the tree from the changes it is handed, listing a    *)
(* place anew when told to rescan it.                                      *)
(*                                                                         *)
(* Objects are numbered; 1 is the watched root and stays where it is.  An  *)
(* object whose parent is 0 is outside the watched tree, or dead.          *)
(***************************************************************************)
EXTENDS Monitor

CONSTANTS Objects,   \* the objects, 1 the root
          Dirs,      \* those that are directories
          Names,     \* names an entry may have
          Scenarios  \* what the environment may do, see env

ASSUME ScopeAssumption ==
    /\ Objects \subseteq Nat \ {0}
    /\ Dirs \subseteq Objects /\ 1 \in Dirs
    /\ Scenarios # {}
    /\ \A s \in Scenarios :
          /\ DOMAIN s.planted \subseteq Objects \ {1}
          /\ \A i \in DOMAIN s.planted : s.planted[i] \in Dirs \X Names
          /\ {s.ops, s.losses, s.faults, s.heals} \subseteq Nat
          /\ s.when \in {"any", "boot", "settled"} /\ {s.apart, s.outrun} \subseteq BOOLEAN

VARIABLES
    m,        \* the Monitor
    world,    \* [up, name, dead]: where each object is
    kernel,   \* [mark, queue, half]: object -> descriptor, the event queue, and
              \* a rename whose second record is still to be queued
    table,    \* the reader's WdTable: descriptor -> [live, draining]
    control,  \* arms and disarms on their way to the reader, in order
    anchors,  \* watch -> the object its arm opened, until its first listing
    acks,     \* arm results on their way back, in order
    asks,     \* listings dispatched
    lists,    \* listings read, on their way back
    view,     \* the consumer's picture: a set of locations
    live,     \* the root's arm has been acknowledged
    env       \* the scenario, its budgets counting down, and the last cookie:
              \*   planted   object -> <<parent, name>>, what is there at the start
              \*   ops       changes to the tree
              \*   losses    queue overflows
              \*   faults    arms and listings that fail though they could succeed
              \*   heals     calls of resignal_coverage_deficits
              \*   when      "any" time; or only at "boot", before the root's arm is
              \*             acknowledged; or first when "settled"
              \*   apart     other records may come between the two of a rename
              \*   outrun    answers may overtake the records queued before them

vars == <<m, world, kernel, table, control, anchors, acks, asks, lists, view, live, env>>

-----------------------------------------------------------------------------
(* The tree. *)

Route(w, i) ==
    LET up[x \in Objects] ==
          IF x = 1 THEN <<1>>
          ELSE IF w.up[x] = 0 THEN <<>>
          ELSE LET above == up[w.up[x]]
               IN  IF above = <<>> THEN <<>> ELSE Append(above, x)
    IN  up[i]

InTree(w, i) == Route(w, i) # <<>>
PathOf(w, i) == [k \in 1..(Len(Route(w, i)) - 1) |-> w.name[Route(w, i)[k + 1]]]
Paths(w) == {PathOf(w, i) : i \in {j \in Objects : InTree(w, j)}}
Resolve(w, path) ==
    LET at == {i \in Objects : InTree(w, i) /\ PathOf(w, i) = path}
    IN  IF at = {} THEN 0 ELSE CHOOSE i \in at : TRUE
Contents(w, i) == {j \in Objects : w.up[j] = i}
Occupant(w, p, n) ==
    LET at == {j \in Contents(w, p) : w.name[j] = n}
    IN  IF at = {} THEN 0 ELSE CHOOSE j \in at : TRUE
Entries(w, i) == {[name |-> w.name[j], is_dir |-> j \in Dirs, ino |-> j] : j \in Contents(w, i)}

-----------------------------------------------------------------------------
(* The kernel's queue.  A full queue drops an event and all that follow    *)
(* until it drains, leaving one overflow marker.  A rename queues its      *)
(* records one after the other with both parents locked, so that records   *)
(* of other directories may come between them.                             *)

NoHalf == [to |-> 0, locked |-> {}, name |-> NoName, cookie |-> 0, is_dir |-> FALSE]

Event(kind, wd, name, cookie, is_dir) ==
    [kind |-> kind, wd |-> wd, name |-> name, cookie |-> cookie, is_dir |-> is_dir]
Overflow == Event("Overflow", 0, NoName, 0, FALSE)

On(i, kind, name, cookie, is_dir) ==
    IF kernel.mark[i] = 0 THEN <<>>
    ELSE <<Event(kind, kernel.mark[i], name, cookie, is_dir)>>

Post(evs, k) ==
    IF k = Len(evs) THEN kernel.queue \o evs
    ELSE Append(kernel.queue \o SubSeq(evs, 1, k), Overflow)

CanPost(evs, k) == k = Len(evs) \/ env.losses > 0
Losing(evs, k) == IF k = Len(evs) THEN 0 ELSE 1

-----------------------------------------------------------------------------
(* The consumer. *)

Below(v, at) == {p \in v : IsPrefix(at, p)}

Applied(v, e) ==
    CASE e.kind = "Created" -> v \cup {e.at}
      [] e.kind = "Removed" -> v \ Below(v, e.at)
      [] e.kind = "Rescan"  -> (v \ Below(v, e.at)) \cup Below(Paths(world), e.at)
      [] e.kind = "Moved"   ->
           (v \ Below(v, e.from))
             \cup {e.at}
             \cup {e.at \o SubSeq(p, Len(e.from) + 1, Len(p)) : p \in Below(v, e.from)}

(* The Monitor as a call finds it, knowing what is still in flight. *)
Flight(op, id, n) == [op |-> op, id |-> id, n |-> n]
M == [m EXCEPT !.out =
        {Flight(c.op, c.id, c.n) : c \in ToSet(control)}
          \cup {Flight("Watch", a.id, a.n) : a \in ToSet(acks)}
          \cup {Flight("Enumerate", a.id, a.req) : a \in asks \cup lists}
          \cup {Flight("Held", id, 0) :
                  id \in DOMAIN anchors \cup UNION {table[wd].live : wd \in DOMAIN table}}]

(* After a call into the Monitor: the changes reach the consumer, arms and *)
(* disarms join the control queue with the path and identity they have     *)
(* now, and listings are dispatched on the anchor if it is still there.    *)
Drain(n) ==
    LET polled == Polled(n)
        isListing(a) == a.op = "Enumerate"
        listings == ToSet(SelectSeq(polled, isListing))
        wires == SelectSeq(polled, LAMBDA a : ~isListing(a))
        wire(a) == [op |-> a.op, id |-> a.id, n |-> a.n, parent |-> a.parent, name |-> a.name,
                    path |-> IF a.op = "Unwatch" \/ a.parent = None THEN <<>>
                             ELSE ChildLocation(n, a.parent, a.name),
                    expected |-> IF a.parent = None THEN 1
                                 ELSE IF Watched(n, a.id) THEN n.nodes[a.id].identity
                                 ELSE Unknown]
        anchored(id) == IF id \in DOMAIN anchors THEN anchors[id] ELSE 0
    IN  /\ m' = Drained(n)
        /\ control' = control \o [i \in DOMAIN wires |-> wire(wires[i])]
        /\ asks' = asks \cup {[id |-> a.id, req |-> a.n, ino |-> anchored(a.id),
                               path |-> LocationOf(n, a.id)] : a \in listings}
        /\ anchors' = [x \in DOMAIN anchors \ {a.id : a \in listings} |-> anchors[x]]
        /\ view' = FoldLeft(Applied, view, n.events)

-----------------------------------------------------------------------------
Init ==
    /\ \E s \in Scenarios :
          LET put(i, k, else) == IF i \in DOMAIN s.planted THEN s.planted[i][k] ELSE else
          IN  /\ env = [cookie |-> 0] @@ s
              /\ world = [up |-> [i \in Objects |-> put(i, 1, 0)],
                          name |-> [i \in Objects |-> put(i, 2, NoName)],
                          dead |-> {}]
    /\ kernel = [mark |-> [i \in Objects |-> 0], queue |-> <<>>, half |-> NoHalf]
    /\ table = <<>>
    /\ m = Drained(RegisterRoot)
    /\ control = <<[op |-> "Watch", id |-> 1, n |-> 1, parent |-> None, name |-> NoName,
                    path |-> <<>>, expected |-> 1]>>
    /\ anchors = <<>> /\ acks = <<>> /\ asks = {} /\ lists = {}
    /\ view = {} /\ live = FALSE

(* The world moves. *)

Evictable(i) ==
    /\ i \in world.dead /\ kernel.mark[i] # 0
    /\ i \notin {anchors[x] : x \in DOMAIN anchors}
    /\ i \notin {a.ino : a \in asks}

Quiet ==
    /\ kernel.queue = <<>> /\ kernel.half = NoHalf /\ control = <<>> /\ acks = <<>>
    /\ asks = {} /\ lists = {} /\ m.pending = <<>>
    /\ ~ \E i \in Objects : Evictable(i)

Settled == Quiet /\ live /\ m.root # None

Cookie == env.cookie + 1

MayChange ==
    /\ env.ops > 0 /\ kernel.mark[1] # 0
    /\ env.when = "boot" => ~live
    /\ env.when = "settled" => Settled

(* A change to the directories dirs. *)
WorldOp(w, dirs, evs, half) ==
    /\ dirs \cap kernel.half.locked = {}
    /\ world' = w
    /\ \E k \in 0..Len(evs) :
          /\ CanPost(evs, k)
          /\ kernel' = [kernel EXCEPT !.queue = Post(evs, k), !.half = half]
          /\ env' = [env EXCEPT !.ops = @ - 1, !.when = IF @ = "settled" THEN "any" ELSE @, !.cookie = Cookie,
                                  !.losses = @ - Losing(evs, k)]
    /\ UNCHANGED <<m, table, control, anchors, acks, asks, lists, view, live>>

Place(i, p, n) == [world EXCEPT !.up[i] = p, !.name[i] = n]

Create(i, p, n) ==
    /\ MayChange /\ i # 1 /\ i \notin world.dead /\ world.up[i] = 0 /\ Contents(world, i) = {}
    /\ kernel.mark[i] = 0
    /\ p \in Dirs /\ InTree(world, p) /\ Occupant(world, p, n) = 0
    /\ WorldOp(Place(i, p, n), {p}, On(p, "Created", n, 0, i \in Dirs), kernel.half)

Unlink(i) ==
    /\ MayChange /\ i # 1 /\ InTree(world, i) /\ Contents(world, i) = {}
    /\ WorldOp([Place(i, 0, NoName) EXCEPT !.dead = @ \cup {i}], {world.up[i], i},
               On(world.up[i], "Removed", world.name[i], 0, i \in Dirs), kernel.half)

(* A rename within the tree; an empty object of the same kind at its       *)
(* destination dies without a record of its own.                           *)
Rename(i, p, n) ==
    LET victim == Occupant(world, p, n)
        w == Place(i, p, n)
        first == On(world.up[i], "MovedFrom", world.name[i], Cookie, i \in Dirs)
        second == On(p, "MovedTo", n, Cookie, i \in Dirs)
    IN  /\ MayChange /\ i # 1 /\ InTree(world, i)
        /\ p \in Dirs /\ InTree(world, p) /\ i \notin ToSet(Route(world, p))
        /\ victim # i /\ kernel.half = NoHalf
        /\ victim # 0 => (victim \in Dirs <=> i \in Dirs) /\ Contents(world, victim) = {}
        /\ WorldOp(IF victim = 0 THEN w
                   ELSE [w EXCEPT !.up[victim] = 0, !.name[victim] = NoName,
                                  !.dead = @ \cup {victim}],
                   {world.up[i], p, victim},
                   IF env.apart THEN first ELSE first \o second,
                   IF env.apart
                   THEN [to |-> p, locked |-> {world.up[i], p}, name |-> n,
                         cookie |-> Cookie, is_dir |-> i \in Dirs]
                   ELSE NoHalf)

Land ==
    LET half == kernel.half
        evs == On(half.to, "MovedTo", half.name, half.cookie, half.is_dir)
    IN  /\ half # NoHalf
        /\ \E k \in 0..Len(evs) :
              /\ CanPost(evs, k)
              /\ kernel' = [kernel EXCEPT !.queue = Post(evs, k), !.half = NoHalf]
              /\ env' = [env EXCEPT !.losses = @ - Losing(evs, k)]
        /\ UNCHANGED <<m, world, table, control, anchors, acks, asks, lists, view, live>>

MoveOut(i) ==
    /\ MayChange /\ i # 1 /\ InTree(world, i)
    /\ WorldOp(Place(i, 0, NoName), {world.up[i]},
               On(world.up[i], "MovedFrom", world.name[i], Cookie, i \in Dirs), kernel.half)

MoveIn(i, p, n) ==
    /\ MayChange /\ i # 1 /\ i \notin world.dead /\ world.up[i] = 0
    /\ p \in Dirs /\ InTree(world, p) /\ Occupant(world, p, n) = 0
    /\ WorldOp(Place(i, p, n), {p}, On(p, "MovedTo", n, Cookie, i \in Dirs), kernel.half)

(* A dead object goes with its last reference: its mark reports and dies. *)
Evict(i) ==
    /\ Evictable(i)
    /\ LET evs == On(i, "DeleteSelf", NoName, 0, TRUE) \o On(i, "Ignored", NoName, 0, TRUE)
       IN  \E k \in 0..2 :
             /\ CanPost(evs, k)
             /\ kernel' = [kernel EXCEPT !.mark[i] = 0, !.queue = Post(evs, k)]
             /\ env' = [env EXCEPT !.losses = @ - Losing(evs, k)]
    /\ UNCHANGED <<m, world, table, control, anchors, acks, asks, lists, view, live>>

-----------------------------------------------------------------------------
(* Arm results and listings come back on the driver's op channel, records  *)
(* on its source lane.  An answer that may not outrun waits until the      *)
(* records the kernel held when it was taken have been read.               *)
Behind == IF env.outrun THEN 0 ELSE Len(kernel.queue)
Closer(a) == [a EXCEPT !.behind = IF @ = 0 THEN 0 ELSE @ - 1]

(* The reader: its control queue and its descriptor table. *)

WdOf(t, id) ==
    LET bound == {wd \in DOMAIN t : id \in t[wd].live}
    IN  IF bound = {} THEN 0 ELSE CHOOSE wd \in bound : TRUE

Object(k, wd) ==
    LET at == {i \in Objects : k.mark[i] = wd}
    IN  IF at = {} THEN 0 ELSE CHOOSE i \in at : TRUE

(* begin_drain: the anchor leaves its descriptor; the last one out removes *)
(* the watch, which the kernel reports, or erases an entry whose watch the *)
(* kernel no longer has.                                                   *)
BeginDrain(t, k, id) ==
    LET wd == WdOf(t, id)
        rest == t[wd].live \ {id}
        owner == Object(k, wd)
    IN  CASE wd = 0 -> [table |-> t, kernel |-> k]
          [] wd # 0 /\ rest # {} -> [table |-> [t EXCEPT ![wd].live = rest], kernel |-> k]
          [] wd # 0 /\ rest = {} /\ owner = 0 ->
               [table |-> [x \in DOMAIN t \ {wd} |-> t[x]], kernel |-> k]
          [] OTHER ->
               [table |-> [t EXCEPT ![wd] = [live |-> {}, draining |-> TRUE]],
                kernel |-> [k EXCEPT !.mark[owner] = 0,
                              !.queue = Append(@, Event("Ignored", wd, NoName, 0, TRUE))]]

(* The object an arm opens: beneath the parent's anchor when there is one, *)
(* by path otherwise, and refused unless it is the object expected.        *)
Opened(c) ==
    LET i == IF c.parent \in DOMAIN anchors THEN Occupant(world, anchors[c.parent], c.name)
             ELSE Resolve(world, c.path)
    IN  IF i \in Dirs /\ (c.expected = Unknown \/ c.expected = i) THEN i ELSE 0

(* The kernel grants descriptors in order and the instance is rebuilt      *)
(* before they wrap: one that nothing still names.                         *)
FreshWd ==
    LET used == {kernel.mark[i] : i \in Objects} \cup DOMAIN table
                  \cup {e.wd : e \in ToSet(kernel.queue)}
    IN  CHOOSE wd \in 1..(Cardinality(used) + 1) : wd \notin used

Arm(c, i) ==
    LET bound == kernel.mark[i]
        wd == IF bound # 0 THEN bound ELSE FreshWd
        old == WdOf(table, c.id)
        d == IF old # 0 /\ old # wd THEN BeginDrain(table, kernel, c.id)
             ELSE [table |-> table, kernel |-> kernel]
        ids == IF wd \in DOMAIN d.table THEN d.table[wd].live ELSE {}
    IN  /\ table' = [x \in DOMAIN d.table \cup {wd} |->
                       IF x = wd THEN [live |-> ids \cup {c.id}, draining |-> FALSE]
                       ELSE d.table[x]]
        /\ kernel' = IF bound # 0 THEN d.kernel
                     ELSE [d.kernel EXCEPT !.mark[i] = wd]
        /\ anchors' = [x \in DOMAIN anchors \cup {c.id} |->
                         IF x = c.id THEN i ELSE anchors[x]]
        /\ acks' = Append(acks, [id |-> c.id, n |-> c.n, behind |-> Behind,
                                 ack |-> IF bound # 0 THEN "Aliased" ELSE "Installed"])

Refuse(c) ==
    /\ acks' = Append(acks, [id |-> c.id, n |-> c.n, behind |-> Behind, ack |-> "Failed"])
    /\ UNCHANGED <<table, kernel, anchors>>

ArmStep ==
    /\ control # <<>> /\ Head(control).op = "Watch"
    /\ control' = Tail(control)
    /\ LET c == Head(control) IN
         \/ Opened(c) # 0 /\ Arm(c, Opened(c)) /\ UNCHANGED env
         \/ Opened(c) = 0 /\ Refuse(c) /\ UNCHANGED env
         \/ /\ Opened(c) # 0 /\ env.faults > 0
            /\ Refuse(c)
            /\ env' = [env EXCEPT !.faults = @ - 1]
    /\ UNCHANGED <<m, world, asks, lists, view, live>>

DisarmStep ==
    /\ control # <<>> /\ Head(control).op = "Unwatch"
    /\ control' = Tail(control)
    /\ LET d == BeginDrain(table, kernel, Head(control).id)
       IN  table' = d.table /\ kernel' = d.kernel
    /\ anchors' = [x \in DOMAIN anchors \ {Head(control).id} |-> anchors[x]]
    /\ UNCHANGED <<m, world, acks, asks, lists, view, live, env>>

(* One event is read, attributed to the watches bound to its descriptor    *)
(* now, and fed to the Monitor for each; late when a second half is read   *)
(* after its pairing window.                                               *)
ReadEvent(late) ==
    /\ kernel.queue # <<>>
    /\ late => Head(kernel.queue).kind = "MovedTo" /\ Head(kernel.queue).cookie \in DOMAIN m.pending
    /\ LET e == Head(kernel.queue)
           ids == IF e.wd \in DOMAIN table THEN table[e.wd].live ELSE {}
           rec(id) == [kind |-> e.kind, id |-> id, name |-> e.name,
                       cookie |-> e.cookie, is_dir |-> e.is_dir]
       IN  /\ table' = CASE e.kind = "Ignored" -> [x \in DOMAIN table \ {e.wd} |-> table[x]]
                         [] e.kind = "Overflow" ->
                              [x \in {y \in DOMAIN table : ~table[y].draining} |-> table[x]]
                         [] OTHER -> table
           /\ Drain(IF e.kind = "Overflow" THEN OnOverflow(M)
                    ELSE FoldSet(LAMBDA id, acc : OnOsRecord(acc, rec(id), late), M, ids))
    /\ kernel' = [kernel EXCEPT !.queue = Tail(@)]
    /\ acks' = [i \in DOMAIN acks |-> Closer(acks[i])]
    /\ lists' = {Closer(l) : l \in lists}
    /\ UNCHANGED <<world, live, env>>

-----------------------------------------------------------------------------
(* The driver: listings, answers and timers. *)

(* A directory that died under its anchor reads as empty. *)
ListDir(a) ==
    LET i == IF a.ino # 0 THEN a.ino ELSE Resolve(world, a.path)
        failed == [kind |-> "Failed", entries |-> {}]
        answer(res) == lists' = lists \cup {[id |-> a.id, req |-> a.req, behind |-> Behind, res |-> res]}
    IN  /\ a \in asks
        /\ asks' = asks \ {a}
        /\ \/ /\ answer(IF i \in Dirs
                        THEN [kind |-> "Ok", entries |-> Entries(world, i)] ELSE failed)
              /\ UNCHANGED env
           \/ /\ i \in Dirs /\ env.faults > 0
              /\ env' = [env EXCEPT !.faults = @ - 1]
              /\ \/ answer(failed)
                 \/ \E kept \in SUBSET Entries(world, i) :
                       answer([kind |-> "Partial", entries |-> kept])
        /\ UNCHANGED <<m, world, kernel, table, control, anchors, acks, view, live>>

OnListed(l) ==
    /\ l \in lists /\ l.behind = 0
    /\ lists' = lists \ {l}
    /\ Drain(OnEnumerate(M, l.id, l.req, l.res))
    /\ UNCHANGED <<world, kernel, table, acks, live, env>>

(* The subscriber starts from the tree it finds once the root is armed. *)
OnWatchInstalled ==
    /\ acks # <<>> /\ Head(acks).behind = 0
    /\ acks' = Tail(acks)
    /\ LET a == Head(acks)
           n == OnWatchResult(M, a.id, a.n, a.ack)
           opens == ~live /\ a.id = 1 /\ a.ack # "Failed"
       IN  /\ live' = (live \/ opens)
           /\ IF opens THEN
                              Drain([n EXCEPT !.events = <<Change("Rescan", <<>>)>>])
              ELSE Drain(n)
    /\ UNCHANGED <<world, kernel, table, lists, env>>

(* Halves are stored in the order of their cookies, so the oldest expire   *)
(* first.                                                                  *)
Timeout ==
    /\ \E last \in DOMAIN m.pending :
          Drain(HandleTimeout(M, {c \in DOMAIN m.pending : c <= last}))
    /\ UNCHANGED <<world, kernel, table, acks, lists, live, env>>

Heal ==
    /\ m.deficits # EmptyBook /\ env.heals > 0
    /\ Drain(ResignalCoverageDeficits(M))
    /\ env' = [env EXCEPT !.heals = @ - 1]
    /\ UNCHANGED <<world, kernel, table, acks, lists, live>>

Machinery ==
    \/ Land \/ ArmStep \/ DisarmStep \/ OnWatchInstalled \/ Timeout
    \/ \E late \in BOOLEAN : ReadEvent(late)
    \/ \E i \in Objects : Evict(i)
    \/ \E a \in asks : ListDir(a)
    \/ \E l \in lists : OnListed(l)

Next ==
    \/ Machinery
    \/ Heal
    \/ \E i \in Objects : Unlink(i) \/ MoveOut(i)
    \/ \E i, p \in Objects, n \in Names : Create(i, p, n) \/ Rename(i, p, n) \/ MoveIn(i, p, n)
    \/ Quiet /\ UNCHANGED vars

(* The reader thread, the pool and the driver's timers keep running: the   *)
(* system does not stop changing for good with work outstanding.  Outside  *)
(* Quiet some step is always possible, or TLC would report a deadlock, and *)
(* the environment's own steps are finite, so this is weak fairness of     *)
(* Machinery without its ENABLED.                                          *)
Fairness == []<>Quiet \/ []<><<TRUE>>_vars

Spec == Init /\ [][Next]_vars /\ Fairness

-----------------------------------------------------------------------------
(* A place a standing hole accounts for: the consumer was told to rescan   *)
(* it, and the book remembers that nobody watches it.                      *)
Owed(path) ==
    \/ m.deficits.collapsed
    \/ \E s \in m.deficits.slots : IsPrefix(ChildLocation(m, s[1], s[2]), path)
    \/ \E d \in m.deficits.interiors : IsPrefix(LocationOf(m, d), path)

Told == \A p \in (view \ Paths(world)) \cup (Paths(world) \ view) : Owed(p)

EveryDirWatched ==
    \A i \in Dirs : InTree(world, i) =>
        \/ Owed(PathOf(world, i))
        \/ \E x \in DOMAIN m.nodes :
              /\ LocationOf(m, x) = PathOf(world, i)
              /\ m.nodes[x].st = Live
              /\ kernel.mark[i] # 0 /\ WdOf(table, x) = kernel.mark[i]

(* The Monitor's books agree with its tree after every call, whatever      *)
(* moves, drops and losses cross: the re-arm counter behind the coverage   *)
(* fence counts exactly the nodes that owe a re-arm, the slot index holds  *)
(* exactly the children no move has detached, every hold belongs to a      *)
(* stored half, stamps are kept for the watches being re-proved and no     *)
(* others, and no hole outlives the directory it is in                     *)
(* (set_state, drop_subtree, detach_child, reparent, on_moved_to).         *)
BooksAgree ==
    /\ m.rearm_pending = Cardinality({x \in DOMAIN m.nodes : m.nodes[x].st.rearm})
    /\ \A x \in DOMAIN m.nodes : x = m.root \/ m.nodes[x].parent \in DOMAIN m.nodes
    /\ DOMAIN m.child_index =
          {<<m.nodes[x].parent, m.nodes[x].name>> : x \in DOMAIN m.nodes \ (m.held \cup {1})}
    /\ \A k \in DOMAIN m.child_index :
          LET x == m.child_index[k]
          IN  x \in DOMAIN m.nodes \ m.held /\ k = <<m.nodes[x].parent, m.nodes[x].name>>
    /\ m.held \subseteq {m.pending[c].held : c \in DOMAIN m.pending}
    /\ m.dirtied \subseteq m.held /\ m.held \cup m.dark \subseteq DOMAIN m.nodes
    /\ \A x \in m.latent : m.nodes[x].st.tag = "Enumerating" /\ ~m.nodes[x].st.rearm
    /\ DOMAIN m.stamps =
          {x \in DOMAIN m.nodes : m.nodes[x].st.tag = "Arming" /\ m.nodes[x].st.reprove}
    /\ m.deficits.interiors \cup {s[1] : s \in m.deficits.slots} \subseteq DOMAIN m.nodes

(* Once nothing is outstanding, a consumer that applied every change it    *)
(* was handed and listed what it was told to rescan has the tree as it is, *)
(* but for places the deficit book still owes: whatever the order of       *)
(* records, answers, losses and failures, no change is dropped in silence  *)
(* (emit, emit_rescan, settle_bridges, on_overflow, resolve_stored_half).  *)
ToldOrCovered == Settled => Told

(* And every directory of the tree then has a live watch at its place,     *)
(* bound to the very object there, or is a hole the book owes: a rename, a *)
(* replacement or a failed arm never leaves a directory that looks watched *)
(* and is not (reparent, reconcile_slot, ingest_watch_result).  This needs *)
(* that no answer overtakes a record queued before it was taken; see       *)
(* NeverSilent.                                                            *)
WatchedOrOwed == Settled /\ ~env.outrun => EveryDirWatched

(* The same without that proviso, as tributary-fs/README.md:101 states it: *)
(* every coverage gap surfaces as a Rescan.                                *)
NeverSilent == Settled => EveryDirWatched

(* The machinery comes to rest, with the coverage fence open: no listing,  *)
(* arm or re-arm is asked for without end, and no obligation stays counted *)
(* that nothing outstanding would discharge (handle_incomplete's bounded   *)
(* retries, ingest_watch_result, coverage_settled).                        *)
Settles == <>[](Quiet /\ (m.root = None \/ CoverageSettled(m)))
=============================================================================

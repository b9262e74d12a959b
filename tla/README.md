# Tributaries in TLA+

A verification development for the `tributaries` workspace: TLA+ modules
translated from the Rust sources, TLC configurations that check them on small
instances, and TLAPS proofs of what holds for every instance. `PROJECT.json`
lists every run, theorem and hazard, and maps each definition to the lines it
models; paths below are relative to `src/`.

## The system

The workspace is three crates, each a layer over the one below.

| Layer | Crate | Role |
|---|---|---|
| umbrella | `tributaries` | many subscriptions over few watch roots of one `Source`; delivery to a bounded stream |
| filesystem | `tributary-fs` | a watcher task per process: kernel transports, a driver that runs the monitor, a front end with lag handling |
| protocol | `tributary-proto` | `Monitor`, a sans-I/O machine that turns raw records into changes and asks for arms, listings and stats |

One **owner task** (`tributaries/src/driver/mod.rs`) holds all of the umbrella's
state. Callers of `watch`, `unwatch`, `sync` and `close` send it commands over a
mailbox; a `watch` is answered by a grant the caller claims or abandons over a
separate cleanup channel. The owner reads the source's event stream and puts
stamped events on one bounded channel that it never waits for. A consumer reads
that channel, directly or through a `Demux` task that splits it into lanes.

### Inventory

| Component | State it keeps | Operations | What makes it correct |
|---|---|---|---|
| Subsumption engine, `subsume/` and `view/` | radix `index` of roots, `covers`, `by_handle`, `root_subs`, `subs`, `pending` reservations, published snapshot | plan and commit of watch (covered, widen, disjoint), abort, plan_unwatch, force_remove_root, rebind_root, set_retained_cover, degrade | roots never nest, the tables agree, every subscription is served under the words it asked for, readers see what is committed |
| Delivery, `driver/` and `driver/epoch/` | epoch ledger, parked Rescans (offerable and suppressed), claims, orphans, event channel | consume an event, emit or shed, park, promote, round-robin flush, teardown drain | nothing is withheld without a Rescan that covers it and dominates it |
| Coalescer, `coalesce/` | buffer per subscription and path, deadline index, counters, ready queue | set policy, admit, collapse, drain, shed, flush, forget | the net effect is told, the wait is bounded, index and counters stay exact |
| Reconcile, `driver/` with `source/` | step of an outstanding watch or unwatch, disarmed roots, quarantine, close | join, grow, arm, replace in place, release-and-arm, roll back, restore, retire, prune | coverage is lost only with notice, record and source agree, the owner never gets stuck |
| Sync barrier, `driver/` | pending calls, loss serial per subscription, loss generation, markers on disk | admit, write, await, dominate, time out, retire, close | Delivered means emitted, Dominated means a Rescan is owed, no marker stays |
| Demux, `demux/` | lane table with generations, control queue, the event in hand, backlog of a stop | register, release, sweep, deliver, recover, shut down | no event is shed, a stale release evicts nothing, a stop drains |
| Routing, `route/` | none (pure) | project a change or Rescan to a subscription; split a move at its boundary | the projection is total and leaks no reserved endpoint |
| Filesystem source, `source/fs/` | deferred prunes, releases asked for and not yet handed off, sync registry | arm with its retry, disarm, set_cover, grow, replace, begin_sync | arms never overlap a release, the newest cover wins, every call returns |
| Close and disposal, `driver/` | join deadline, disposal budget | begin close, bounded join, dispose, drop | close ends, and nothing of a caller is dropped on the owner |
| Values: subscriptions, interests, filters, options, events, errors | builders | accessors | no protocol |
| Monitor, `tributary-proto/src/monitor/` | watch tree, pending moves, re-arm state, outstanding asks, epochs | register and remove roots, ingest record, stat, listing and watch results, timeout, overflow | what changed is told or covered by a Rescan; the tree's tables agree; a barrier settles |
| Filesystem driver: scopes, `tributary-fs/src/driver/` | registry of live and reserved roots, streams and their lanes, operations in flight, teardowns, unwatch waiters | watch, replace, widen, unwatch, late results, retirement, close | every native stream is owned and released; roots never overlap; a replacement succeeds or leaves the old root as it was |
| Filesystem core: delivery and lag, `tributary-fs/src/core/` | stale locations per root, parked Rescan, last words of a dead root, liveness probes | emit, retry, refresh, mount batches, replace, widen | every change below a root is told by an event or a Rescan |
| Filesystem core and driver: fences | applied cover, books of claims, fence entries with their cuts, control queue | set_cover, settle, cut, adoption seal, control batches, overflow | an applied cover is watched; no fence hangs; a loss is told |
| Filesystem driver: sync markers | ledger of marker files, backlog, parked barriers, barrier moves, retries | admit, write, remove, mark, dominate, sweep, close | no marker is forgotten; a marker speaks only for ground that stood still |
| Watcher front end, `tributary-fs/src/watcher/` | the shared `RootSet`, grants, tickets | watch, replace_root, unwatch, set_cover, sync_root, recv, close | a dropped call leaves nothing behind; a reservation ends with its call |
| Record compilation, `core/compile/` | none (pure, one per backend) | kernel record to `OsRecord` | no kernel record is lost or mistaken |
| Transports, `os/` | descriptor tables, fid map, journal cursor, rename pairing, bounded queue | read, register, forget | a reused descriptor is not mistaken for its predecessor |

### What is hard about it

* *Interleaving at every await.* The owner is single-threaded, but callers, the
  consumer, the source and a close run between any two of its steps.
* *Loss.* Two bounded queues (the source's and the consumer's) overflow
  independently, and both losses must end in a Rescan that covers the gap.
* *Two-phase operations.* A widen disarms before it arms; each half may fail,
  be cut by a close, or come back with a different key.
* *Dominance.* A consumer may drop what an epoch says is stale, so epochs must
  order Rescans against deltas across shedding and re-pointing.
* *Timing.* Debounce windows, hold caps and sync timeouts race with arrivals.

* *Results that arrive late.* An arm, a listing, a spawn, a marker's write or an
  unlink answers after the root it was for was replaced, narrowed or released.

`hazards` of `PROJECT.json` lists these one by one, each at the line where it
bites, with the properties that would catch it. One has none: the fold of the
control queue at its ceiling (`tributary-fs/src/driver/mod.rs:17687`), where the
property that states what the comments promise does not hold; it is the fifth of
the disagreements below.

## The modules

| Module | Models | Extends |
|---|---|---|
| `Keys` | keys as component sequences under the prefix order; the radix queries as sets | – |
| `Lists` | what a retain or a sort does to a sequence, said by places | – |
| `ListProofs` | lemmas about `Lists` | `Lists` |
| `Subsumer` | the subsumption engine and the published view | `Keys` |
| `Reconcile` | watch and unwatch against the source, close included | `Subsumer` (composition) |
| `ReconcileProofs` | the theorems of the engine and of the reconcile over it, with their two invariants | `Reconcile`, `ListProofs` |
| `Delivery` | ledger, parking, emission, flush, claims, teardown drain | `Keys`, `Lists` |
| `DeliveryProofs` | its invariant and theorems | `Delivery`, `ListProofs` |
| `Coalescer` | debounce with the world and a consumer's picture of it | `Lists` |
| `CoalescerProofs` | its two invariants and theorems | `Coalescer`, `ListProofs` |
| `SyncBarrier` | `sync()` from call to answer | `Lists` |
| `SyncBarrierProofs` | its invariant and theorems | `SyncBarrier`, `ListProofs` |
| `Demux` | the demultiplexer with its callers and readers | – |
| `DemuxProofs` | its invariant and theorems | `Demux` |
| `WatchTree` | the monitor's tree and coverage books: node states, re-arm, deficits, drops, slots, bridges | – |
| `Monitor` | the monitor's inputs: records, listings, arm results, overflow, timeout, heal | `WatchTree` |
| `WatchedTree` | one inotify scope end to end: world, kernel, reader, driver, monitor, consumer | `Monitor` (composition) |
| `FsScopes` | the watcher front end and the driver's roots: streams, lanes, operations, teardown, close | `Keys`, `Lists` |
| `FsScopesProofs` | its invariant and theorems | `FsScopes`, `ListProofs` |
| `FsArm` | the umbrella's filesystem source over that watcher and driver | `FsScopes` (composition) |
| `StreamContract` | what a watched root promises the reader of its stream (abstract) | – |
| `FsStream` | delivery, lag, last words and liveness of one root; implements `StreamContract` | `Keys`, `Lists` |
| `FsStreamProofs` | its invariant and theorems, and the refinement step by step | `FsStream`, `ListProofs` |
| `FsFences` | `set_cover`, settle fences, cuts, adoption, control batches of one inotify root | – |
| `FsCookies` | the marker files of `sync_root`: ledger, write and unlink jobs, barrier moves | – |

The three crates meet in the middle: `Reconcile` and `SyncBarrier` take the
filesystem source by its contract, which `FsArm` and `FsCookies` look into;
`FsFences` and `FsCookies` leave open when coverage settles, which `WatchedTree`
and `FsFences` look into.

`MC*` modules only give constants their values, with symmetry sets and views.

**Subsumer.** One action per public operation. A plan reserves an id and is
remembered in `plan` until it is committed or aborted, as the owner holds the
`Plan` value; between the two only re-binding and forced removal can happen,
which is what the owner does when a widen fails. A commit takes the handle and
the key *the source answered with*: it may have drifted from the planned one.
The destructor discipline of the code (`Salvage`) and caller values are payload.

**Reconcile** conjoins each engine step with the source's side: `source` is what
the filesystem source holds and still covers, `control` and `deferred_prunes`
its prunes on the way. `step` is where the owner stands between two awaits.
Each await has the outcomes the code distinguishes (granted, refused, unwound,
granted at another key, overtaken by the close). `untold` collects the
subscriptions that lost coverage and have not been parked a Rescan. Assumed of
the source: a root that was never pruned repairs itself after a loss it reports,
releases take effect at once, and a plan that must be made again is a new
request.

**Delivery.** The owner emits one delivery per step, so the consumer may run
between two. A watch says whether its subscription is debounced. One armed root is enough here, because nothing in delivery relates
two roots; its key changes when it is widened, rolled back or restored. Which
buffered entries are due is a free choice (an over-approximation of the
deadlines, which `Coalescer` treats exactly). `owed` is history: for each
subscription, the endpoints withheld that no delivery has covered yet.

**Coalescer.** Time is explicit and a tick never passes a deadline that is due,
as the driver sleeps until `next_deadline`. Around the code stands the world
(which objects exist) and a consumer that forms a picture from what it reads,
so that the collapse table is judged by its effect. What is drained joins the
channel `unread`, and the consumer reads it (`Read`) whenever it likes, also when
the world and the buffer have moved on; a Rescan, or a change of content, has it
look at the world of that moment. The Rescan of a shed joins the channel at once:
when it is parked instead is a matter of `Delivery`. A Created may report an object
put over another. `seen` is history: the slots where a Created is held, or was
annihilated by its Removed, although the consumer can know of an object there from
elsewhere.

**SyncBarrier.** Callers read `loss_gen` beside the owner; `pc` follows the
owner's loop at the grain of its awaits and of the flush's single sends. One
root; a Rescan is of whole subscriptions; a marker seen as an endpoint of a
rename and a quarantined source are left out.

**Demux.** A lane is named by the generation of its registration. The task is
one event and one control message at a time; while it waits for room in a lane
it reads no control. Dropping the `Demux` handle and aborting the task are left
out.

**WatchTree and Monitor** are operators from the monitor's record before a call
to the one after it, as the code is sans-I/O: nothing happens in it except by a
call. A stored half, a held subtree, a deficit or a stamp is in the book the code
keeps it in. Ids, attempts and requests are compared for equality only, so a
fresh one is the least that nothing still holds; the topology clock is only asked
whether a node moved since another was stamped, so that set is kept. Whether a
second half comes within its window is a parameter.

**WatchedTree** puts the monitor where it runs. The world is a directory tree
changed by create, unlink, rename and moves over the watched boundary; the
kernel marks directories and queues a record per watched parent, drops the tail
when its queue is full, and reports the death of a marked directory once its last
reference goes. A rename queues its two records one after the other; records of
directories it does not lock may come between. The reader executes arms and
disarms in order against its descriptor table, with aliases and draining entries,
opening beneath the parent's anchor or by path and refusing an object it did not
expect. Listings are read through the anchor of an arm, once, or by path; they
may fail or be cut short. A consumer adds what is created, drops the subtree of
what is removed, grafts what is moved and lists anew what it is told to rescan;
it starts from the tree it finds when the root is armed. `env` holds the scenario:
what is planted, how many changes, losses, faults and heal signals may come and
when, and whether answers may outrun records (`outrun`).

`WatchedOrOwed` is claimed for scenarios in which an answer waits for the records
queued before it was taken; without that it is `NeverSilent`, which fails.

**FsScopes.** A driver step is one arm of the driver's select together with the
effects the next turn runs before anything else: a scope that leaves the core is
torn down in the same step. An operation handed to the blocking pool is in flight
while the state says it is owed, and its outcome is chosen when it is received,
so results arrive in every order. A path may lead to one directory under two names
(`Lands`); what it is, is read when the root is reserved. Reserving and sending
are one step; a waiter whose caller left is pruned at once; an answer other than
a watch's is taken at once, since taking it touches nothing else.

**FsArm** adds the one owner that uses the source: `arm` with its retry against a
release in flight, `replace` and `grow` (awaited), `disarm` and `set_cover` (not).
A synchronous call sees the room the channel has when it begins. The arm's
future is dropped by a close only. Re-arming a root in place (`RearmRoot`) is
bounded to times a replacement is under way, and the run leaves it out.

**FsStream.** The driver runs the core's effects one at a time until none is
left, then takes one arm of its select, which enters the core once; readers and
probe threads run beside it. Staleness is kept per path: a Rescan speaks for all
at or below its location when it is read, and the death, replacement, overflow or
re-framing of a root makes all of it stale. That the kernel reports what happens
under an armed stream is assumed. A stream that is being widened is tainted only
by a loss.

**FsFences.** The tree is `Top` and directories directly below it, which always
exist; of the monitor, the arm or the listing each node waits for, an undecided
entry and an adopted directory. A turn of the driver (effects, drain, cuts,
answers) is atomic, as it has no await; a cut and its answer by the reader are
one step, and one read takes the whole kernel queue. The epoch of marks is encoded by
forgetting them; tokens and attempts are compared for equality only and take the
smallest number nothing holds. A stat always answers "directory".
`QuietMeansAnswered` is stated of roots whose queue was never folded, and
`CoverIsWatched` exempts a root whose arm fails while nothing has ever been
claimed of it (`bare`).

**FsCookies.** A step is one section under the ledger's lock or one call of the
filesystem (a file and the directory minted for it go together). The driver goes
round: flush (one drain of barrier moves, then effects one by one), sweep, settle,
select. When a fence settles and whether a directory is covered are free. One
burst of coverage is one move, or two directories within one arm. A record's id,
its ticket and its marker's name are one per call. A retry waits (`later`) until
its timer fires (`due`). Reports of removals are a set, as a second one of a
record that is gone does nothing. A caller that asks for the removal of a
marker no longer claims to see it.
`NothingOwedAtRest` says what liveness would as a fact of states at rest; it is
the whole of it because every bounded run comes to rest. `Served` is the temporal
form.

## The runs

| Run | Instance | Distinct states | Shows |
|---|---|---|---|
| `delivery` | one subscription, debounced over a 2-entry buffer or not, one-slot channel, 3 events | 326 543 | no silent loss but of the tail; epochs order Rescans and deltas; the park planes agree |
| `delivery_pair` | two nested subscriptions, one slot, 2 events, fair | 502 903 | each debt of a claimed subscription is paid |
| `coalescer` | one subscription, 2 symmetric paths, all policies, clock to 4, 3 admissions, a consumer that reads late | 978 936 | net effect, hold cap, drain order, exact index |
| `reconcile` | 3-level tree, 3 handles, 2 words, 4 subscriptions, a one-slot control channel | 1 040 455 | coverage is lost only with notice; source and record agree; roots stay disjoint, words honoured; the owner can always go on |
| `sync` | 2 subscriptions (one debounced), 2 symmetric calls, one pending slot | about 1 675 000 | what Delivered and Dominated promise; no marker stays |
| `demux` | 2 subscriptions, 2 lanes, 3 events, one-slot lanes, fair | 844 806 | no event shed, lanes keep their claims, stop and stream drain |
| `watched_tree` | 3 directories, 2 names, seven scenarios of changes, losses and faults, fair | 522 718 | the monitor's books agree; every change is told or owed; every directory is watched or owed; the machinery settles |
| `fs_scopes` | 2 symmetric callers, 4 calls, 3 paths (one a second name), one mishap | 727 927 | every stream is owned and released, roots never overlap, replacements are atomic, answers are true |
| `fs_arm` | the source's owner, 3 nested roots, 4 asks, one mishap, one-slot channel, fair | 144 966 | an arm waits for the release it meets; the newest cover wins; every call returns |
| `fs_stream` | one root, two backends, one-slot channel, 2 changes, one swap, tick and mishap, fair | 364 211 | the stream implements `StreamContract`; what is stale is carried; probes are counted |
| `fs_fences` | one root with one directory, 2 covers, 1 change, 1 mishap | 494 128 | an answer is true, a cover is watched, no fence hangs, a degradation is told |
| `fs_cookies` | 2 symmetric calls on one root, 1 mishap, 2 failed removals | 1 378 989 | no marker is forgotten, none speaks for ground that moved, at rest nothing is owed |

*Why the bounds are enough.* The engine's cases are told apart by how a new key
lies to the existing roots: inside, over several, beside. Five keys in three
levels with two siblings give each of them at once, three handles allow a widen
over two roots plus one fresh handle, and four subscriptions let one leave and
one arrive around a widen. Channels of one slot make every emission race the
consumer; a second slot adds only a delay of the same race. Three events
suffice to park, widen the debt and owe again after it was sent. The clock runs past the
longer hold cap (3) by one, so a burst can be renewed up to its cap and beyond; three
admissions make, fold and undo a burst, or fill both paths and meet a cap, and a batch that
waits in the channel is overtaken by all of them. Two calls of `sync`
with one pending slot show rejection as well as overlap.

The tree of `watched_tree` has three directories (a root, a child and a third that
may be beside it, in it, or arrive), which is what a rename into, out of or over
a directory needs. `RearmMaxRetries` 1 (2 in the code), `DeficitCap` 1 (16) and
`PendingMoveCap` 1 (64) let two faults or two moves meet each limit. The
scenarios split what would be one large environment: two changes racing the
bootstrap; a fault, or a loss, at any time; a loss, a fault and a heal together;
two renames of a nested tree with their halves apart; two faults and a heal; a
loss in a nested tree. Every directory is watched alike, so files add only the
slot that holds none.

`fs_scopes`: two callers meet on one root and on two that overlap, and four calls
let a watch, a replacement and two releases cross; a teardown backlog of 2 and a
one-slot command channel fill. `fs_arm`: two of its three roots lie in the third,
so an arm may meet one release or two; four asks are an arm, its release, an arm
over it and a cover; of the code's two releases handed off at a time, one. `fs_stream`: one
probe slot for a root and a mount starves one of them; the second change is the one
behind a parked Rescan. `fs_fences`: a control queue of 2 overflows and folds; two
fences are held at once; the budget of one re-arm runs out. `fs_cookies`: two calls
share every table; a retry budget of one gives up at the second failure; one barrier
move fills its queue, so the second folds into `Top`.

Larger or differently cut instances of the same modules were explored beside the
runs, and none broke a property listed for a run: `Delivery` with 4 events at one
endpoint each (1.4 M states); `FsFences` with two directories, 2 covers,
1 change and 1 mishap (about 1.2 M states), and with one directory and 1 cover,
1 change and 2 mishaps (0.75 M) or 2 covers, no change and 2 mishaps (1.6 M);
`FsCookies` with one call, 3 mishaps, 3 failures and moves of `Top` as well
(0.94 M), and with one call on two scopes, 2 mishaps and 3 failures (0.41 M).
`MCFsCookiesLive.cfg` checks `Served` for one call (27 266 states);
`MCSubsumer.cfg` checks the engine alone, with the theorems' statements as
invariants (151 642).

*Symmetry and views.* Handles, callers and calls are interchangeable where the
configuration says so: no definition orders them. In `MCFsCookies` this needs that
only one directory moves: the Rescans one move owes to several barriers are then
equal, in whatever order they stand. `MCDelivery` hides the contents of the
channel, which no action and no property of the viewed runs reads (only its
length). `MCFsCookies` hides, once the driver ends, what only its turns read.
`MCSyncBarrier` hides the absolute value of the clocks: every guard and
property compares them with what a call read, and the view keeps that comparison.
Runs with liveness use neither symmetry nor view.

*Deadlock* is checked in `watched_tree`, where only a system with nothing
outstanding may rest. Elsewhere it is not, since every instance stops at its bounds (events,
ids, time) and the system itself stops at close. `NeverStuck` states what
matters instead: an owner that is not at rest has a step; `NoFenceHangs` and
`NothingOwedAtRest` say the same of fences and markers.

*Fairness.* `delivery_pair`: the owner task is polled (it never waits for the
channel it fills, and its mailbox and timers wake it), and the consumer keeps
reading; with a consumer that stops, nothing is owed to anybody. `demux`: the
task is polled, and every lane that is held is read. `watched_tree`: while anything is outstanding, some step follows (the reader thread,
the listing pool and the driver's timers run on their own). `fs_arm`: the driver takes what is sent to it,
what is in flight lands, and the owner's call is polled when it can go on.
`fs_stream`: the driver runs its effects and its retry timer, a mount batch ends,
and the reader reads; a reader that stops is only told that it lagged. No fairness
is asked of callers, of the source or of the world.

*Refinement.* `StreamContract` has three facts: what the reader is owed, the
highest epoch it was told, and whether the stream is over. `FsStream` maps
`owed` to the paths whose last change is in no event read so far, and
`Implements` says that each of its steps is a step of the contract or none, and
that under its fairness what is owed is told (`Kept`).

### Disagreements with the repository's own statements

Five places where the code does not do what a comment or a document says. Each has a
configuration that makes TLC print the steps (`tlc -config X.cfg Module`); they
are no part of the runs, whose properties are stated so that each is true.

* `MCDeliveryTail.cfg`, `MCDelivery`: `WithheldIsCovered`. `drain_owed_once`
  (`tributaries/src/driver/mod.rs:7857`) drops the buffered tail of a subscription
  with standing debt without widening the debt, and a parked Rescan of one subtree
  does not cover a delta of another. `:7830` says of the tail "its owed dominating
  `Rescan` re-enumerates and dominates them", and `:6301` that the Rescan must
  spatially cover what it stands for. `NoSilentLoss` therefore grants a debounced
  subscription the tail its drain drops (`Drops`), and nothing else.
* `MCCoalescerOrder.cfg`, `MCCoalescer`: `EpochsMonotone`. Across drains a
  subscription's epochs can go backwards when the hold cap releases a path before a
  sibling last touched earlier (`coalesce/mod.rs:471`; `:79` says they never do).
  `DrainInOrder` is stated within one drain.
* `MCWatchedTreeOutrun.cfg`, `MCWatchedTree`: `NeverSilent`. Listings and arm
  results are polled ahead of records (`tributary-fs/src/driver/mod.rs:12866`). A
  listing that already shows a rename is applied, and then the rename's own records
  are applied to its result (`tributary-proto/src/monitor/mod.rs:6632`): they carry
  a watch to a name another object has, drop that object's watch, and no Rescan
  tells of it. `tributary-fs/README.md:101` says every gap does.
* `MCFsFencesReissue.cfg`, `MCFsFences`: `AppliedIsWatched`. An arm of `a` fails
  after a replacement, on a root that was never narrowed; a Rescan drops no claim of
  such a root (`tributary-fs/src/core/mod.rs:8166`), all settles, and a later
  `set_cover` of `a` finds an empty difference (`:8441`) and answers Applied while
  `a` is dark. `watcher/mod.rs:439` and `:456` promise a watched cover.
* `MCFsFencesFold.cfg`, `MCFsFences`: `ArmingIsCarried`. At its ceiling the control
  queue is folded (`tributary-fs/src/driver/mod.rs:17687`, `:17327`) and a queued
  arm goes with it; the overflow that follows finds its node Arming already and
  coalesces (`tributary-proto/src/monitor/mod.rs:5606`), and nobody asks for the arm
  again. The comments at `driver/mod.rs:17255` and `:17272` say the overflow does.

Two further observations. The second half of `EpochsOrdered` (no delta is older than the
last Rescan its subscription was sent) is claimed of undebounced subscriptions only:
a debounced delta keeps the stamp of its admission, and the Rescan shed for another event
meanwhile (`tributaries/src/driver/mod.rs:6521`) may leave ahead of it; four events show it. And
`NetEffect` lets a consumer believe in an object that is gone where its slot is in `seen`,
because of the annihilation at `coalesce/mod.rs:618`: a consumer that lists the tree for a
Rescan while a Created is still held sees the object, and a Removed then annihilates the held
entry; and an object put over a known one and removed within the window is annihilated, so the
consumer is not told that what it knew is gone. These two causes are the whole exemption:
wherever else, however late the consumer reads, its picture becomes true, and no object that
is there is ever unknown or known with old content.

## The proofs

Eight components are proved about for every value of their constants: whatever
subscriptions, keys, calls and changes there are, and whatever the capacities and
bounds. The bounds of the runs (`MaxEvents` and the like) are constants too, and no
proof uses more of them than their type.

| Module | Theorem | States |
|---|---|---|
| `ReconcileProofs` | `SubsumerRootsDisjoint`, `SubsumerServesSubscriptions` | `RootsDisjoint`, `WordsHonoured` |
| | `SubsumerLockstep`, `SubsumerViewExact`, `SubsumerKeysForLife` | the tables agree; readers see what is committed; a subscription keeps its key |
| | `ReconcileDrivesEngine` | the owner's steps are steps of the engine or leave it alone |
| | `ReconcileRecordsAgree` | `RecordsAgree` |
| | `ReconcileTells`, `ReconcileServes` | `CutOffIsTold`, `ServedOrTold` |
| `DeliveryProofs` | `SilentLossTheorem` | `NoSilentLoss` |
| | `PlanesTheorem` | `PlanesSound` |
| | `EpochsTheorem` | `EpochsOrdered` (of steps) |
| `SyncBarrierProofs` | `DeliveredTheorem`, `DominatedTheorem` | `DeliveredIsEmitted`, `DominatedIsOwed` |
| | `MarkersTheorem` | `MarkersAccounted` |
| `CoalescerProofs` | `BufferTheorem`, `DrainOrderTheorem` | `BufferSound`, `DrainInOrder` |
| | `NetEffectTheorem` | `NetEffect` |
| `DemuxProofs` | `ClaimTheorem`, `LossTheorem` | `LaneKeepsItsClaim`, `NothingLost` |
| `FsStreamProofs` | `CarriedTheorem`, `ProbesTheorem` | `StaleIsCarried`, `ProbesSound` |
| | `KeepsItsContract` | the safety half of `Implements` |
| `FsScopesProofs` | `ScopesRootsSound`, `ScopesStreamsSound`, `ScopesAnswersHonest` | `RootsSound`, `StreamsSound`, `AnswersHonest` |
| | `ScopesReplaceAtomic` | `ReplaceAtomic` (of steps) |

Each follows from an invariant of its module that is inductive (`IInv`, `RIInv` of
`Reconcile`, `Inductive` of `FsScopes`, at the end of the module it is about). TLC checked
each invariant on the run's instance before it was proved. In every proof module an action has a lemma or a step of its own, with one
step per conjunct it can disturb, and the last lemma collects them over `Next`.

*Assumptions on the constants* are the named `ASSUME`s of the modules, which TLC
evaluates in the runs: keys are sequences of components, ids are numbers, capacities
and bounds are natural numbers (positive where the code asserts it), a change has one
or two endpoints. `Subsumer` assumes that the unpruned cover is no set of keys and
that the absent handle is none; `SyncBarrier`, that there are finitely many
subscriptions, as the loss clock is raised by their number; `FsScopes`, that a reply
half nobody waits for (`Gone`) is told from a caller. Of the roots a path may name
nothing is assumed. Elsewhere finiteness is not assumed.

*Subsumption engine.* None of the properties is inductive alone:

* `RootsDisjoint` after a widen needs that the roots the plan disarmed are exactly
  those the armed key swallows (the test at commit compares the two, as the code does
  with a drifted key), and, through `Lockstep`, that each is known to every table:
  `PlanSound`.
* `Lockstep` needs that the id being committed is nobody else's: `IdsFresh` and
  `ReservationsMatchPlan`.
* `WordsHonoured` of a re-pointed cohort needs that the planned root's words are among
  those the planner compared: `PlanSound` again.
* `ViewExact` compares readers with the tables; that a snapshot is published only by a
  commit is `PublishedIsCommitted`.

The prefix order's laws (reflexive, transitive, antisymmetric, and linear below a key)
are lemmas.

*Reconcile.* The invariant stands on the engine's: that each step of the owner is a
step of the engine, or none, needs the owner's place (`StepSound`) to say which plan
is outstanding there, and with it every theorem of the engine holds of the composed
system. Of the source's side:

* A prune is asked for when it takes nothing a subscription needs, and made after any
  number of later steps. `PrunesSafe` says that what is still on its way (deferred or
  queued) takes nothing its record claims by now. A join that needs a pruned part
  goes through a grow, and a replace puts a new queue behind it
  (`superseded_by_replace`); these are the two steps that could break it.
* The record tests what is outside a cover key by key, so what it says of a root is
  only as good as the cover is a proper part of it (`RecordsProper`): a cover that held
  the root's own key would say nothing is outside and claim everything.
* `SourceSound` relates what the source keeps to what the record claims, until a close;
  while a root is grown or rolled back (`Underway`), to what was asked for.
* Between the loss of a root and the Rescan for it the owner has the root in hand:
  `InHand` says at which awaits, and `GapsNoted` that nobody untold is anywhere else.
  It is why a close that wins any await still tells, or ends, everybody.

The attempt gave a stronger `RecordHonest` than was checked before: what a record
claims the source keeps, whether or not a subscription of the root was sent a Rescan.

*Delivery.* A Rescan covers what is withheld when its subtree contains it and its
epoch exceeds it. That a later shed keeps this needs that every entry in hand lies
below its subscription's key and was stamped no later than its high-water
(`EntriesMinted`); that the Rescan will still be accepted when it leaves needs that it
exceeds what was sent and what goes out ahead of it, and that nothing goes out behind
it (`RescansDominate`). Where the owner stands in a pass (`ControlSound`) says which
of these hold in the middle of it. Whose Rescan may be offered follows from whose
message is on the cleanup channel (`ClaimsSound`). `OwedIsCovered` is `NoSilentLoss`
with what holds after the drain. The proof gave a stronger `EpochsOrdered` than was
checked before: an undebounced delta never has an epoch below the last Rescan sent,
whichever subtree it is in.

*Sync barrier.* The argument follows a change and a call.

* `Accounted`: a change is told, stood for by a Rescan, held by the coalescer, on the
  source's stream, or its subscription is owed a Rescan.
* `Ahead`: on the source's stream, a change made before a call is ahead of the call's
  marker. Dropping a part of the stream keeps this (`LostLemma` in
  `SyncBarrierProofs`).
* `WindowSound`: while a call waits, what was before it is still carried towards the
  consumer, or the loss is noted (`Noted`): in the Rescan being fanned out, in a
  Rescan ahead of the marker, or in one of the two clocks the call read. So an answer
  that finds neither clock moved may say Delivered.
* `FannedOut` and `AnswerStands` do the same for Dominated while a Rescan reaches one
  subscription after another, when part of the debts are already paid.
* `CallsKept`, `InHand` and `BegunIsAwaited` say which calls may have a marker where.

*Coalescer.* `BufferSound` needs only that what is held settles, and that no deadline
was set past the cap of its burst. `DrainInOrder` needs that slots are numbered by
their last admission and that the numbers and the stamps of a subscription agree
(`SeqOrdersEpochs`), and that what is ready leaves before what is held
(`ReadyOrdered`). `NetEffect` has an invariant of its own, `NetIInv`, about one path at a
time and what is on its way to the consumer, the channel and behind it what is ready: a held
slot is in the state the world has, and a held Created is news, so that by the end of what is
on its way the consumer will not believe in the object, unless the slot is in `seen`
(`HeldIsNews`); what is not held the consumer will know by then (`RestIsKnown`). Reading takes
the first word from what is on its way and draining adds to the end, so the last word on a path
decides: `JoinedSays` and `KeptSays` say what joining and dropping do to it. No hypothesis on
the constants is needed beyond their types.
The attempt showed two cases of `collapse` in the model that overlapped; they are now
disjoint, in the order of the code's arms.

*Demultiplexer.* `LaneKeepsItsClaim` needs that a release on its way names a lane that
was dropped (`MessagesKnown`); `NothingLost`, that the table does not change under the
event in hand (`HeldIsRouted`), that the stream holds the last events made
(`StreamInOrder`) and that a stop counts what came before it (`StopCounts`).

*Stream of a root.* A stale path waits in the core's queue, in what the lag protocol
parked, in the last words of a dead root or in the channel (`Carried`); which of these
there are is the lag machine's own invariant (`Lagging`), and a Rescan that is read
speaks for what it says because all of them are in the order of the epochs (`Ordered`,
`EpochsInOrder`). With it each step of `FsStream` is a step of `StreamContract` or
leaves its three facts alone.

*Watched roots.* `FsScopesProofs` has two layers. What a step does to the state is said
once for a kind of step (a replacement ends, a scope is torn down, a birth ends, reapers
settle streams, a command is answered), and each kind keeps the invariant; then every
action, with its branches, is one of these kinds.

* `EveryStreamHeld` is a count, so it needs that a stream is counted once: a scope is at
  one stage of its life (`StagesSound`), and a lane is of one scope (`LanesSound`).
* `NoOrphan` needs to know where a handle is: in the reply, with its owner, dropped
  unseen, or given back, and in one of these only (`OwnersSound`). A grant that waits for
  the root's watch is owned by that watch, which is why an arm must be of the lane the
  grant waits on (`GatesSound`).
* `TornMeansGone` of an answer already given holds on because nothing can start for the
  scope any more: who asked gave the scope back (`AskersSound`), and the answer was given
  with nothing in flight (`VerdictsSound`).
* That an answer goes to the call it is for, and once, needs that the reply half of a
  call is in one place (`PlacesSound`): in the channel, with a birth, a deferred grant, a
  replacement, or the waiters of a scope.
* `BacklogBounded` sums over the scopes. `Total` is a fold; that it is the sum, one scope
  at a time, is a lemma by least counterexample (`TotalIs`), as are the bounds on it
  (`TotalGrows`, `TotalAbove`). A step that starts work adds one to one scope, and is
  admitted below the limit; every other step moves a scope's due from work in flight to
  the reaper, or settles it.
* `ReplaceAtomic` follows from two kinds of step: those that leave every root where it was
  (`Calm`), among them every refusal, and those that refuse no replacement (`Spares`).

The attempt showed that the reply half kept with a birth or a deferred grant had to be
known a caller's: without it a grant could be sent to nobody and its scope kept.

*Lists.* `ListProofs` has what these proofs need of a retain: the kept places in their
order, their number, and what a part of a sequence keeps (`KeptPlaces`,
`KeptElements`, `KeptPart`).

*Only model-checked.* Liveness, as fairness and ENABLED are out of the prover's reach:
`OwedIsPaid`, the `Kept` half of `Implements`, and the temporal properties of the
demultiplexer, the watched tree and the filesystem's source. `NeverStuck` of
`Reconcile`, as it is about ENABLED. The invariants of
`WatchedTree` (`BooksAgree`, `ToldOrCovered`, `WatchedOrOwed`), `FsFences`
(`AppliedIsTrue`, `CoverIsWatched`, `NoFenceHangs`) and `FsCookies` (`NothingForgotten`,
`MarkersSpeakTruly`, `NothingOwedAtRest`).
`WatchTree` and `Monitor` walk the tree by folds and a recursive function; what those
compute for every tree would need induction over it, which the installed provers
cannot do. The other two are within reach and next (see the plan). The two safety properties
of `FsArm` are about the owner on top of `FsScopes`, whose queue of releases has no
invariant yet.

## Not modelled

* Of the monitor: several scopes, widening and adoption of an existing tree,
  re-binding and re-profiling, dropping or re-arming part of a tree, `report_loss`
  and `cover_domination`, epochs, stats of entries whose kind is unknown, filters
  and interests, records of several segments. The watched root stays where it is.
* Of the driver and core: the closing pass over held fences, the limit on parked
  settlements of cover commands, the size and order of the reaper pool, the include
  filter, barrier moves of a widened root, the pins on directories and the checks
  of the directory a marker is asked for.
* Of the watcher: the samples of directories `sync_root` takes before it asks.
* Backends other than inotify: fanotify's map, the journal cursor and rename pairing
  on Windows, FSEvents. They share the driver and core modelled here; their own state
  is not.
* Record compilation: one kernel record in, the monitor's words out.
* Routing of a move over a subscription's boundary, and the masked endpoints; globs;
  key canonicalisation.
* Value types, builders, options, formatting, errors' wording, logging and metrics.
* Where destructors of caller values run, and the thread that disposes of them.
* System calls and foreign-function layers: their effect is an input.
* The saturation of the coalescer's clock at the far future.

## Plan

1. **Proofs**, each from an inductive invariant checked first by TLC:
   `NothingForgotten` (`FsCookies`); `NoFenceHangs` (`FsFences`).
2. **Transports**: the fanotify map, and the journal cursor with its gap and rename
   pairing.
3. **Routing and record compilation** as pure operators against a reference
   definition over sets of paths.
4. **The rest of the monitor**: adoption with the staged seal, the epochs of Rescans,
   stats of unknown entries; then `WatchedTree` against a contract of its own.

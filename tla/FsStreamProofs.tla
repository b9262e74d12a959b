--------------------------- MODULE FsStreamProofs ---------------------------
(***************************************************************************)
(* Proofs about the stream of a watched root (FsStream): what its reader   *)
(* has not been told of is always on its way, the probes that watch its    *)
(* liveness are sound, and every step is one the contract of a stream      *)
(* allows (StreamContract).                                                *)
(***************************************************************************)
EXTENDS FsStream, ListProofs

-----------------------------------------------------------------------------
(* Paths.                                                                  *)

\* A root is a prefix of itself and the top is one of it.
LEMMA OwnPrefix ==
    ASSUME NEW S, NEW p \in Seq(S)
    PROVE  StartsWith(p, p) /\ \A q : Len(q) = 0 => StartsWith(p, q)
<1>1. DOMAIN p = 1 .. Len(p) /\ Len(p) \in Nat
  OBVIOUS
<1> QED BY <1>1 DEF StartsWith

\* Prefixes compose.
LEMMA PrefixTrans ==
    ASSUME NEW S, NEW p \in Seq(S), NEW q \in Seq(S), NEW r \in Seq(S),
           StartsWith(p, q), StartsWith(q, r)
    PROVE  StartsWith(p, r)
<1>1. Len(p) \in Nat /\ Len(q) \in Nat /\ Len(r) \in Nat
  OBVIOUS
<1>2. Len(r) <= Len(q) /\ Len(q) <= Len(p)
  BY DEF StartsWith
<1>3. \A i \in 1 .. Len(r) : r[i] = q[i] /\ q[i] = p[i]
  BY <1>1, <1>2 DEF StartsWith
<1>4. \A i \in 1 .. Len(r) : r[i] = p[i]
  BY <1>3
<1>5. Len(r) <= Len(p)
  BY <1>1, <1>2
<1> QED BY <1>4, <1>5 DEF StartsWith

\* `\o` and `SubSeq` take a path apart at a prefix and put it together again.
LEMMA Rejoined ==
    ASSUME NEW S, NEW p \in Seq(S), NEW r \in Seq(S), StartsWith(p, r)
    PROVE  /\ SubSeq(p, Len(r) + 1, Len(p)) \in Seq(S)
           /\ r \o SubSeq(p, Len(r) + 1, Len(p)) = p
           /\ r \o <<>> = r
<1> DEFINE b == SubSeq(p, Len(r) + 1, Len(p))
<1>1. Len(p) \in Nat /\ Len(r) \in Nat /\ Len(r) <= Len(p) /\ \A i \in 1 .. Len(r) : r[i] = p[i]
  BY DEF StartsWith
<1>2. b \in Seq(S) /\ Len(b) = Len(p) - Len(r) /\ \A i \in 1 .. Len(b) : b[i] = p[Len(r) + i]
  BY <1>1
<1> HIDE DEF b
<1>3. r \o b \in Seq(S) /\ Len(r \o b) = Len(p)
  BY <1>1, <1>2
<1>4. \A i \in 1 .. Len(p) : (r \o b)[i] = p[i]
  BY <1>1, <1>2
<1>5. r \o b = p
  <2>1. r \o b = [i \in 1 .. Len(p) |-> (r \o b)[i]]
    <3>1. \A s \in Seq(S) : s = [i \in 1 .. Len(s) |-> s[i]]
      OBVIOUS
    <3> QED BY <1>3, <3>1
  <2>2. p = [i \in 1 .. Len(p) |-> p[i]]
    OBVIOUS
  <2>3. [i \in 1 .. Len(p) |-> (r \o b)[i]] = [i \in 1 .. Len(p) |-> p[i]]
    BY <1>4
  <2> QED BY <2>1, <2>2, <2>3
<1>6. r \o <<>> = r
  OBVIOUS
<1> QED BY <1>2, <1>5, <1>6 DEF b

\* Nothing lies above the whole root.
LEMMA TopIsPrefix ==
    ASSUME NEW b, Len(b) \in Nat
    PROVE  CommonPrefix(<<>>, b) = <<>>
<1> DEFINE F(i) == /\ i <= Len(b)
                   /\ \A j \in 1..i : (<<>>)[j] = b[j]
                   /\ i < Len(<<>>) /\ i < Len(b) => (<<>>)[i + 1] # b[i + 1]
           n == CHOOSE i \in 0 .. Len(<<>>) : F(i)
<1>1. Len(<<>>) = 0
  OBVIOUS
<1>2. F(0)
  BY <1>1
<1>3. n = 0
  <2>1. \E i \in 0 .. Len(<<>>) : F(i)
    BY <1>1, <1>2
  <2>2. n \in 0 .. Len(<<>>)
    <3> HIDE DEF F
    <3> QED BY <2>1
  <2> QED BY <1>1, <2>2
<1>4. SubSeq(<<>>, 1, 0) = <<>>
  OBVIOUS
<1>5. CommonPrefix(<<>>, b) = SubSeq(<<>>, 1, n)
  BY DEF CommonPrefix
<1> HIDE DEF n
<1> QED BY <1>3, <1>4, <1>5

-----------------------------------------------------------------------------
(* The queue of effects.                                                   *)

\* The emissions of a queue are in the order of their epochs, none later than n.
InOrder(q, n) ==
    /\ \A i, j \in Emits(q) : i < j => q[i].change.epoch <= q[j].change.epoch
    /\ \A i \in Emits(q) : q[i].change.epoch <= n

\* The last Rescan of a queue, if there is one, is of epoch n.
LastIs(q, n) ==
    \A i \in Rescans(q) : (\A j \in Rescans(q) : j <= i) => q[i].change.epoch = n

\* What an element of the queue is.
LEMMA Effects1 ==
    ASSUME NEW e \in Effect
    PROVE  /\ IsEmit(e) => e \in Emission /\ e.root \in {Root, Wide} /\ e.change \in Change
           /\ IsEmit(e) => e.change.epoch \in Nat /\ e = Emit(e.root, e.change)
           /\ IsRescanEmit(e) => IsEmit(e)
           /\ e.k = "refresh" => e.inc \in Nat
           /\ e.k \in {"emit", "refresh", "teardown"}
BY DEF Effect, Emission, Emit, IsEmit, IsRescanEmit, Change

\* Every emission is an effect.
LEMMA Emitted ==
    ASSUME NEW r \in {Root, Wide}, NEW ch \in Change
    PROVE  /\ Emit(r, ch) \in Effect /\ Emit(r, ch) \in Emission /\ IsEmit(Emit(r, ch))
           /\ Emit(r, ch).root = r /\ Emit(r, ch).change = ch
           /\ IsRescanEmit(Emit(r, ch)) <=> ch.rescan
BY DEF Effect, Emission, Emit, IsEmit, IsRescanEmit

\* An effect put at the end of the queue.
LEMMA Pushed ==
    ASSUME NEW q \in Seq(Effect), NEW e \in Effect
    PROVE  /\ Append(q, e) \in Seq(Effect)
           /\ DOMAIN Append(q, e) = DOMAIN q \cup {Len(q) + 1}
           /\ DOMAIN q = 1 .. Len(q) /\ Len(q) \in Nat /\ Len(q) + 1 \notin DOMAIN q
           /\ \A i \in DOMAIN q : Append(q, e)[i] = q[i] /\ i < Len(q) + 1
           /\ Append(q, e)[Len(q) + 1] = e
           /\ Emits(Append(q, e)) = Emits(q) \cup (IF IsEmit(e) THEN {Len(q) + 1} ELSE {})
           /\ Rescans(Append(q, e)) = Rescans(q) \cup (IF IsRescanEmit(e) THEN {Len(q) + 1} ELSE {})
<1>1. /\ Append(q, e) \in Seq(Effect)
      /\ DOMAIN q = 1 .. Len(q) /\ Len(q) \in Nat /\ Len(q) + 1 \notin DOMAIN q
      /\ DOMAIN Append(q, e) = DOMAIN q \cup {Len(q) + 1}
      /\ \A i \in DOMAIN q : Append(q, e)[i] = q[i] /\ i < Len(q) + 1
      /\ Append(q, e)[Len(q) + 1] = e
  OBVIOUS
<1>2. Emits(Append(q, e)) = Emits(q) \cup (IF IsEmit(e) THEN {Len(q) + 1} ELSE {})
  BY <1>1 DEF Emits
<1>3. Rescans(Append(q, e)) = Rescans(q) \cup (IF IsRescanEmit(e) THEN {Len(q) + 1} ELSE {})
  BY <1>1 DEF Rescans
<1> QED BY <1>1, <1>2, <1>3

\* An emission at the end of a queue in order.
LEMMA PushedInOrder ==
    ASSUME NEW q \in Seq(Effect), NEW n \in Nat, InOrder(q, n),
           NEW e \in Emission, e \in Effect, IsEmit(e), n <= e.change.epoch
    PROVE  /\ InOrder(Append(q, e), e.change.epoch)
           /\ IsRescanEmit(e) => LastIs(Append(q, e), e.change.epoch)
           /\ ~IsRescanEmit(e) /\ LastIs(q, n) => LastIs(Append(q, e), n)
<1>1. /\ Emits(Append(q, e)) = Emits(q) \cup {Len(q) + 1}
      /\ Rescans(Append(q, e)) = Rescans(q) \cup (IF IsRescanEmit(e) THEN {Len(q) + 1} ELSE {})
      /\ \A i \in DOMAIN q : Append(q, e)[i] = q[i] /\ i < Len(q) + 1 /\ i \in Nat
      /\ Append(q, e)[Len(q) + 1] = e /\ Len(q) \in Nat
  BY Pushed
<1>2. Emits(q) \subseteq DOMAIN q /\ Rescans(q) \subseteq DOMAIN q
  BY DEF Emits, Rescans
<1>3. \A i \in Emits(q) : q[i].change.epoch \in Nat
  <2> SUFFICES ASSUME NEW i \in Emits(q) PROVE q[i].change.epoch \in Nat
    OBVIOUS
  <2>1. q[i] \in Effect /\ IsEmit(q[i])
    BY DEF Emits
  <2> QED BY <2>1, Effects1
<1>4. e.change.epoch \in Nat
  BY Effects1
<1>5. \A i \in Emits(q) : q[i].change.epoch <= e.change.epoch
  BY <1>3, <1>4 DEF InOrder
<1>6. InOrder(Append(q, e), e.change.epoch)
  BY <1>1, <1>2, <1>3, <1>4, <1>5 DEF InOrder
<1>7. IsRescanEmit(e) => LastIs(Append(q, e), e.change.epoch)
  BY <1>1, <1>2 DEF LastIs
<1>8. ~IsRescanEmit(e) /\ LastIs(q, n) => LastIs(Append(q, e), n)
  BY <1>1, <1>2 DEF LastIs
<1> QED BY <1>6, <1>7, <1>8

\* An effect at the end that is no emission.
LEMMA PushedOther ==
    ASSUME NEW q \in Seq(Effect), NEW n \in Nat, NEW e \in Effect, ~IsEmit(e)
    PROVE  /\ Emits(Append(q, e)) = Emits(q)
           /\ \A i \in Emits(q) : Append(q, e)[i] = q[i]
           /\ InOrder(q, n) => InOrder(Append(q, e), n)
           /\ LastIs(q, n) => LastIs(Append(q, e), n)
<1>1. /\ Emits(Append(q, e)) = Emits(q) /\ Rescans(Append(q, e)) = Rescans(q)
      /\ \A i \in DOMAIN q : Append(q, e)[i] = q[i]
  <2>1. ~IsRescanEmit(e)
    BY DEF IsEmit, IsRescanEmit
  <2>2. /\ Emits(Append(q, e)) = Emits(q) \cup (IF IsEmit(e) THEN {Len(q) + 1} ELSE {})
        /\ Rescans(Append(q, e)) = Rescans(q) \cup (IF IsRescanEmit(e) THEN {Len(q) + 1} ELSE {})
        /\ \A i \in DOMAIN q : Append(q, e)[i] = q[i]
    BY Pushed
  <2> QED BY <2>1, <2>2
<1>2. Emits(q) \subseteq DOMAIN q /\ Rescans(q) \subseteq DOMAIN q
  BY DEF Emits, Rescans
<1>3. InOrder(q, n) => InOrder(Append(q, e), n)
  BY <1>1, <1>2 DEF InOrder
<1>4. LastIs(q, n) => LastIs(Append(q, e), n)
  BY <1>1, <1>2 DEF LastIs
<1> QED BY <1>1, <1>2, <1>3, <1>4

\* A queue of which some elements are left, in their order: by f, the places
\* they had.
LEMMA Thinned ==
    ASSUME NEW q \in Seq(Effect), NEW r \in Seq(Effect), NEW n \in Nat,
           NEW f \in [DOMAIN r -> DOMAIN q],
           \A i \in DOMAIN r : r[i] = q[f[i]],
           \A i, j \in DOMAIN r : i < j => f[i] < f[j]
    PROVE  /\ \A i \in Emits(r) : f[i] \in Emits(q)
           /\ InOrder(q, n) => InOrder(r, n)
           /\ /\ LastIs(q, n)
              /\ \A i \in DOMAIN r, j \in Rescans(q) : f[i] < j => \E m \in DOMAIN r : f[m] = j
              => LastIs(r, n)
<1>1. \A i \in Emits(r) : i \in DOMAIN r /\ f[i] \in Emits(q)
  BY DEF Emits
<1>2. \A i \in Rescans(r) : i \in DOMAIN r /\ f[i] \in Rescans(q)
  BY DEF Rescans
<1>3. InOrder(q, n) => InOrder(r, n)
  BY <1>1 DEF InOrder
<1>4. ASSUME LastIs(q, n),
             \A i \in DOMAIN r, j \in Rescans(q) : f[i] < j => \E m \in DOMAIN r : f[m] = j
      PROVE  LastIs(r, n)
  <2> SUFFICES ASSUME NEW i \in Rescans(r), \A j \in Rescans(r) : j <= i
               PROVE  r[i].change.epoch = n
    BY DEF LastIs
  <2>1. f[i] \in Rescans(q) /\ r[i] = q[f[i]]
    BY <1>2
  <2>2. \A x \in DOMAIN q : x \in Nat
    OBVIOUS
  <2>3. \A x \in DOMAIN r : x \in Nat
    OBVIOUS
  <2>4. ASSUME NEW j \in Rescans(q) PROVE j <= f[i]
    <3>1. CASE f[i] < j
      <4>1. PICK m \in DOMAIN r : f[m] = j
        BY <1>2, <1>4, <3>1
      <4>2. m \in Rescans(r)
        BY <4>1 DEF Rescans
      <4>3. m <= i
        BY <4>2
      <4>4. m = i \/ m < i
        BY <1>2, <2>3, <4>1, <4>3
      <4>5. f[m] = f[i] \/ f[m] < f[i]
        BY <1>2, <4>1, <4>4
      <4> QED BY <1>2, <2>1, <2>2, <3>1, <4>1, <4>5 DEF Rescans
    <3>2. CASE ~(f[i] < j)
      BY <2>1, <2>2, <3>2 DEF Rescans
    <3> QED BY <3>1, <3>2
  <2> QED BY <1>4, <2>1, <2>4 DEF LastIs
<1> QED BY <1>1, <1>3, <1>4

-----------------------------------------------------------------------------
(* The core's operations, one by one.                                      *)

\* The fields of the core outside F are left alone.
Keeps(c, d, F) == \A x \in CoreFields \ F : d[x] = c[x]

\* What the core does while a scope lives: nothing that waits is lost, what is
\* emitted is of an epoch no earlier, the root only grows.
Follows(c, d) ==
    /\ Sound(d) /\ c.epoch <= d.epoch /\ StartsWith(c.root, d.root)
    /\ d.alive => c.alive
    /\ d.alive /\ ~d.live => ~c.live
    /\ \A j \in Emits(d.effects) :
          \/ c.epoch <= d.effects[j].change.epoch
          \/ \E i \in Emits(c.effects) : d.effects[j] = c.effects[i]
    /\ \A p \in Known : StartsWith(p, c.root) /\ Waits(c, p) => Waits(d, p)

\* The same but for what waits.
Moves(c, d) ==
    /\ Sound(d) /\ c.epoch <= d.epoch
    /\ \A j \in Emits(d.effects) :
          \/ c.epoch <= d.effects[j].change.epoch
          \/ \E i \in Emits(c.effects) : d.effects[j] = c.effects[i]

\* ProbesSound of any core and any probes.
Watch(c, pr) ==
    /\ c.alive /\ c.spawned =>
          IF c.pending
          THEN \/ \E i \in DOMAIN c.effects : c.effects[i].k = "refresh" /\ c.effects[i].inc = c.inc
               \/ \E f \in pr.flight : f.tag = pr.tag
          ELSE Ticked(c) => c.deadline
    /\ c.alive => \A f \in pr.flight : f.tag = pr.tag => f.inc = c.inc

\* What a sound core says of its parts.
LEMMA SoundParts ==
    ASSUME NEW c, Sound(c)
    PROVE  /\ CoreTyped(c) /\ Lagging(c) /\ Ordered(c) /\ Armed(c)
           /\ c.effects \in Seq(Effect) /\ c.epoch \in Nat /\ c.root \in {Root, Wide}
           /\ c.root \in Seq(Names) /\ c.inc \in Nat
           /\ InOrder(c.effects, c.epoch)
           /\ c.alive => LastIs(c.effects, c.epoch)
<1>1. /\ CoreTyped(c) /\ Lagging(c) /\ Ordered(c) /\ Armed(c)
      /\ c.effects \in Seq(Effect) /\ c.epoch \in Nat /\ c.root \in {Root, Wide} /\ c.inc \in Nat
  BY DEF Sound, CoreTyped
<1>2. c.root \in Seq(Names)
  BY <1>1, PathsAssumption
<1>3. InOrder(c.effects, c.epoch)
  BY <1>1 DEF Ordered, InOrder
<1>4. c.alive => LastIs(c.effects, c.epoch)
  BY <1>1 DEF Ordered, LastIs
<1> QED BY <1>1, <1>2, <1>3, <1>4

\* Ordered, from its parts.
LEMMA OrderedParts ==
    ASSUME NEW c, InOrder(c.effects, c.epoch), c.alive => LastIs(c.effects, c.epoch),
           c.parked # None => c.parked.epoch = c.epoch,
           c.dying # None => c.dying.change.epoch = c.epoch
    PROVE  Ordered(c)
BY DEF Ordered, InOrder, LastIs

\* A root is below itself.
LEMMA RootBelow ==
    ASSUME NEW r \in {Root, Wide}
    PROVE  r \in Seq(Names) /\ StartsWith(r, r) /\ StartsWith(r, Wide) /\ r \in Known
<1>1. r \in Seq(Names) /\ Wide \in Seq(Names)
  BY PathsAssumption
<1>2. StartsWith(r, r) /\ StartsWith(Wide, Wide)
  BY <1>1, OwnPrefix
<1> QED BY <1>1, <1>2, FsStreamAssumption DEF Known

\* The paths that change are paths.
LEMMA KnownPaths ==
    ASSUME NEW p \in Known
    PROVE  p \in Seq(Names) /\ StartsWith(p, Wide)
<1>1. p \in Seq(Names)
  BY PathsAssumption DEF Known
<1>2. CASE p \in Paths
  BY <1>1, <1>2, FsStreamAssumption
<1>3. CASE p \in {Root, Wide}
  BY <1>1, <1>3, RootBelow
<1> QED BY <1>1, <1>2, <1>3 DEF Known

\* A core follows itself.
LEMMA FollowsSelf ==
    ASSUME NEW c, Sound(c) PROVE Follows(c, c)
<1>1. c.epoch <= c.epoch /\ StartsWith(c.root, c.root)
  BY SoundParts, RootBelow
<1> QED BY <1>1 DEF Follows

\* What follows on what follows, follows.
LEMMA FollowsTrans ==
    ASSUME NEW b, NEW c, NEW d, Sound(b), Follows(b, c), Follows(c, d)
    PROVE  Follows(b, d)
<1>1. /\ Sound(c) /\ Sound(d) /\ b.epoch <= c.epoch /\ c.epoch <= d.epoch
      /\ StartsWith(b.root, c.root) /\ StartsWith(c.root, d.root)
  BY DEF Follows
<1>2. /\ b.epoch \in Nat /\ c.epoch \in Nat /\ d.epoch \in Nat
      /\ b.root \in Seq(Names) /\ c.root \in Seq(Names) /\ d.root \in Seq(Names)
  BY <1>1, SoundParts
<1>3. b.epoch <= d.epoch
  BY <1>1, <1>2
<1>4. StartsWith(b.root, d.root)
  BY <1>1, <1>2, PrefixTrans
<1>5. (d.alive => b.alive) /\ (d.alive /\ ~d.live => ~b.live)
  BY DEF Follows
<1>6. ASSUME NEW j \in Emits(d.effects)
      PROVE  \/ b.epoch <= d.effects[j].change.epoch
             \/ \E i \in Emits(b.effects) : d.effects[j] = b.effects[i]
  <2>1. CASE c.epoch <= d.effects[j].change.epoch
    <3>1. d.effects \in Seq(Effect)
      BY <1>1, SoundParts
    <3>2. d.effects[j] \in Effect /\ IsEmit(d.effects[j])
      BY <1>6, <3>1 DEF Emits
    <3>3. d.effects[j].change.epoch \in Nat
      BY <3>2, Effects1
    <3> QED BY <1>1, <1>2, <2>1, <3>3
  <2>2. CASE \E i \in Emits(c.effects) : d.effects[j] = c.effects[i]
    <3>1. PICK i \in Emits(c.effects) : d.effects[j] = c.effects[i]
      BY <2>2
    <3> QED BY <3>1 DEF Follows
  <2> QED BY <1>6, <2>1, <2>2 DEF Follows
<1>7. ASSUME NEW p \in Known, StartsWith(p, b.root), Waits(b, p)
      PROVE  Waits(d, p)
  <2>1. p \in Seq(Names)
    BY KnownPaths
  <2>2. StartsWith(p, c.root)
    BY <1>1, <1>2, <1>7, <2>1, PrefixTrans
  <2>3. Waits(c, p)
    BY <1>7 DEF Follows
  <2> QED BY <2>2, <2>3 DEF Follows
<1> QED BY <1>1, <1>3, <1>4, <1>5, <1>6, <1>7 DEF Follows

\* What the lag protocol looks at.
LagFields == {"effects", "epoch", "alive", "live", "root", "lag", "parked", "dying"}

\* A change of what the lag protocol does not look at.
LEMMA Aside ==
    ASSUME NEW c, Sound(c), NEW d, CoreTyped(d), Keeps(c, d, CoreFields \ LagFields),
           Lagging(d), Armed(d)
    PROVE  Follows(c, d)
<1>0. /\ d.effects = c.effects /\ d.epoch = c.epoch /\ d.alive = c.alive /\ d.live = c.live
      /\ d.root = c.root /\ d.lag = c.lag /\ d.parked = c.parked /\ d.dying = c.dying
  BY DEF Keeps, CoreFields, LagFields
<1>2. Ordered(d)
  BY <1>0 DEF Sound, Ordered
<1>4. Sound(d)
  BY <1>2 DEF Sound
<1>5. \A p : Waits(c, p) => Waits(d, p)
  BY <1>0 DEF Waits
<1>6. c.epoch <= d.epoch /\ StartsWith(c.root, d.root)
  BY <1>0, FollowsSelf DEF Follows
<1> QED BY <1>0, <1>4, <1>5, <1>6 DEF Follows

\* A refresh that is queued stays queued and waited for.
LEMMA WatchKept ==
    ASSUME NEW c, NEW d,
           Keeps(c, d, CoreFields \ {"alive", "spawned", "pending", "inc", "backend", "deadline"}),
           \A i \in DOMAIN c.effects : c.effects[i].k = "refresh" =>
               \E j \in DOMAIN d.effects : d.effects[j] = c.effects[i]
    PROVE  \A pr : Watch(c, pr) => Watch(d, pr)
<1> SUFFICES ASSUME NEW pr, Watch(c, pr) PROVE Watch(d, pr)
  OBVIOUS
<1>1. /\ d.alive = c.alive /\ d.spawned = c.spawned /\ d.pending = c.pending
      /\ d.inc = c.inc /\ d.backend = c.backend /\ d.deadline = c.deadline
  BY DEF Keeps, CoreFields
<1>2. Ticked(d) <=> Ticked(c)
  BY <1>1 DEF Ticked
<1>3. (\E i \in DOMAIN c.effects : c.effects[i].k = "refresh" /\ c.effects[i].inc = c.inc) =>
      (\E j \in DOMAIN d.effects : d.effects[j].k = "refresh" /\ d.effects[j].inc = d.inc)
  <2> SUFFICES ASSUME NEW i \in DOMAIN c.effects, c.effects[i].k = "refresh", c.effects[i].inc = c.inc
               PROVE  \E j \in DOMAIN d.effects : d.effects[j].k = "refresh" /\ d.effects[j].inc = d.inc
    OBVIOUS
  <2>1. PICK j \in DOMAIN d.effects : d.effects[j] = c.effects[i]
    OBVIOUS
  <2> QED BY <1>1, <2>1
<1> QED BY <1>1, <1>2, <1>3 DEF Watch

\* An effect pushed by a core that is sound otherwise.
LEMMA PushFrame ==
    ASSUME NEW c, CoreTyped(c), NEW e \in Effect
    PROVE  /\ CoreTyped(Push(c, e)) /\ Push(c, e).effects = Append(c.effects, e)
           /\ Keeps(c, Push(c, e), {"effects"})
<1>1. Append(c.effects, e) \in Seq(Effect)
  BY DEF CoreTyped
<1> QED BY <1>1 DEF CoreTyped, CoreFields, Push, Keeps

\* A change emitted: it waits, where the reader finds it.
LEMMA EmitFollows ==
    ASSUME NEW c, Sound(c), c.alive, NEW loc \in Seq(Names)
    PROVE  /\ Follows(c, emit(c, loc))
           /\ Keeps(c, emit(c, loc), {"effects"})
           /\ \A pr : Watch(c, pr) => Watch(emit(c, loc), pr)
           /\ c.live => Waits(emit(c, loc), c.root \o loc)
<1> DEFINE ch == [loc |-> loc, rescan |-> FALSE, epoch |-> c.epoch]
           e == Emit(c.root, ch)
           d == emit(c, loc)
<1>1. /\ CoreTyped(c) /\ Lagging(c) /\ Ordered(c) /\ Armed(c) /\ c.effects \in Seq(Effect)
      /\ c.epoch \in Nat /\ c.root \in {Root, Wide}
      /\ InOrder(c.effects, c.epoch) /\ LastIs(c.effects, c.epoch)
  BY SoundParts
<1>2. ch \in Change
  BY <1>1 DEF Change
<1>3. ch # None /\ ch.epoch = c.epoch /\ ~ch.rescan /\ ch.loc = loc
  BY DEF None
<1>4. /\ e \in Effect /\ e \in Emission /\ IsEmit(e) /\ ~IsRescanEmit(e)
      /\ e.root = c.root /\ e.change = ch
  BY <1>1, <1>2, <1>3, Emitted
<1>5. d = IF ~c.live THEN c
          ELSE IF c.lag = "normal" THEN Push(c, e) ELSE c
  BY <1>3 DEF emit, route_event
<1> HIDE DEF ch, e, d
<1>6. CASE c.live /\ c.lag = "normal"
  <2>1. d = Push(c, e)
    BY <1>5, <1>6
  <2>2. CoreTyped(d) /\ d.effects = Append(c.effects, e) /\ Keeps(c, d, {"effects"})
    BY <1>1, <1>4, <2>1, PushFrame
  <2>3. /\ d.epoch = c.epoch /\ d.alive = c.alive /\ d.live = c.live /\ d.root = c.root
        /\ d.lag = c.lag /\ d.parked = c.parked /\ d.dying = c.dying /\ d.spawned = c.spawned
        /\ d.arming = c.arming /\ d.widen = c.widen /\ d.pending = c.pending
        /\ d.deadline = c.deadline /\ d.inc = c.inc /\ d.backend = c.backend
    BY <2>2 DEF Keeps, CoreFields
  <2>4. /\ DOMAIN d.effects = DOMAIN c.effects \cup {Len(c.effects) + 1}
        /\ Len(c.effects) + 1 \notin DOMAIN c.effects
        /\ \A i \in DOMAIN c.effects : d.effects[i] = c.effects[i]
        /\ d.effects[Len(c.effects) + 1] = e
        /\ Emits(d.effects) = Emits(c.effects) \cup {Len(c.effects) + 1}
    BY <1>1, <1>4, <2>2, Pushed
  <2>5. InOrder(d.effects, d.epoch) /\ LastIs(d.effects, d.epoch)
    <3>1. e.change.epoch = c.epoch /\ c.epoch <= e.change.epoch
      BY <1>1, <1>3, <1>4
    <3>2. InOrder(Append(c.effects, e), c.epoch) /\ LastIs(Append(c.effects, e), c.epoch)
      BY <1>1, <1>4, <3>1, PushedInOrder
    <3> QED BY <2>2, <2>3, <3>2
  <2>6. Ordered(d)
    <3>1. (d.parked # None => d.parked.epoch = d.epoch) /\ (d.dying # None => d.dying.change.epoch = d.epoch)
      BY <1>1, <2>3 DEF Ordered
    <3> QED BY <2>5, <3>1, OrderedParts
  <2>7. Lagging(d)
    BY <1>1, <1>6, <2>3 DEF Lagging
  <2>8. e.k # "teardown"
    BY <1>4 DEF IsEmit
  <2>9. Armed(d)
    BY <1>1, <2>3, <2>4, <2>8 DEF Armed
  <2>10. Emits(c.effects) \subseteq DOMAIN c.effects
    BY DEF Emits
  <2>11. \A p : Waits(c, p) => Waits(d, p)
    BY <2>3, <2>4, <2>10 DEF Waits
  <2>12. Follows(c, d)
    <3>1. Sound(d)
      BY <2>2, <2>6, <2>7, <2>9 DEF Sound
    <3>2. \A j \in Emits(d.effects) :
             \/ c.epoch <= d.effects[j].change.epoch
             \/ \E i \in Emits(c.effects) : d.effects[j] = c.effects[i]
      BY <1>1, <1>3, <1>4, <2>4, <2>10
    <3>3. c.epoch <= d.epoch /\ StartsWith(c.root, d.root)
      BY <1>1, <2>3, RootBelow
    <3> QED BY <2>3, <2>11, <3>1, <3>2, <3>3 DEF Follows
  <2>13. \A pr : Watch(c, pr) => Watch(d, pr)
    <3>1. \A i \in DOMAIN c.effects : c.effects[i].k = "refresh" =>
             \E j \in DOMAIN d.effects : d.effects[j] = c.effects[i]
      BY <2>4
    <3>2. Keeps(c, d, CoreFields \ {"alive", "spawned", "pending", "inc", "backend", "deadline"})
      BY <2>3 DEF Keeps, CoreFields
    <3> QED BY <3>1, <3>2, WatchKept
  <2>14. Speaks(e, c.root \o loc)
    BY <1>3, <1>4 DEF Speaks
  <2>15. Waits(d, c.root \o loc)
    BY <1>6, <2>3, <2>4, <2>14 DEF Waits
  <2> QED BY <2>2, <2>12, <2>13, <2>15 DEF d
<1>7. CASE ~(c.live /\ c.lag = "normal")
  <2>1. d = c
    BY <1>5, <1>7
  <2>2. Follows(c, d) /\ Keeps(c, d, {"effects"})
    BY <2>1, FollowsSelf DEF Keeps
  <2>3. c.live => c.lag = "lagged"
    BY <1>1, <1>7 DEF Lagging
  <2>4. c.live => Waits(d, c.root \o loc)
    BY <2>1, <2>3 DEF Waits
  <2> QED BY <2>1, <2>2, <2>4 DEF d
<1> QED BY <1>6, <1>7

\* A Rescan emitted: all below where it looks waits for the reader.
LEMMA RescanFollows ==
    ASSUME NEW c, Sound(c), c.alive, NEW loc \in Seq(Names)
    PROVE  /\ Follows(c, emit_rescan(c, loc))
           /\ Keeps(c, emit_rescan(c, loc), {"effects", "epoch", "parked"})
           /\ \A pr : Watch(c, pr) => Watch(emit_rescan(c, loc), pr)
           /\ c.live => \A p : StartsWith(p, c.root \o loc) => Waits(emit_rescan(c, loc), p)
           /\ emit_rescan(c, loc).epoch = c.epoch + 1
           /\ c.live /\ c.lag = "normal" =>
                 emit_rescan(c, loc).effects =
                     Append(c.effects, Emit(c.root, [loc |-> loc, rescan |-> TRUE, epoch |-> c.epoch + 1]))
<1> DEFINE ch == [loc |-> loc, rescan |-> TRUE, epoch |-> c.epoch + 1]
           e == Emit(c.root, ch)
           b == [c EXCEPT !.epoch = @ + 1]
           d == emit_rescan(c, loc)
<1>1. /\ CoreTyped(c) /\ Lagging(c) /\ Ordered(c) /\ Armed(c) /\ c.effects \in Seq(Effect)
      /\ c.epoch \in Nat /\ c.root \in {Root, Wide}
      /\ InOrder(c.effects, c.epoch) /\ LastIs(c.effects, c.epoch)
  BY SoundParts
<1>2. ch \in Change
  BY <1>1 DEF Change
<1>3. ch # None /\ ch.epoch = c.epoch + 1 /\ ch.rescan /\ ch.loc = loc
  BY DEF None
<1>4. /\ e \in Effect /\ e \in Emission /\ IsEmit(e) /\ IsRescanEmit(e)
      /\ e.root = c.root /\ e.change = ch
  BY <1>1, <1>2, <1>3, Emitted
<1>5. CoreTyped(b) /\ Keeps(c, b, {"epoch"}) /\ b.epoch = c.epoch + 1
  <2>1. c = [x \in CoreFields |-> c[x]] /\ c.epoch + 1 \in Nat
    BY <1>1 DEF CoreTyped
  <2>2. /\ b = [x \in CoreFields |-> b[x]] /\ b.epoch = c.epoch + 1
        /\ \A x \in CoreFields \ {"epoch"} : b[x] = c[x]
    BY <2>1 DEF CoreFields
  <2>3. CoreTyped(b)
    BY <1>1, <2>1, <2>2 DEF CoreTyped, CoreFields
  <2> QED BY <2>2, <2>3 DEF Keeps
<1>6. /\ b.alive = c.alive /\ b.live = c.live /\ b.lag = c.lag /\ b.parked = c.parked
      /\ b.root = c.root /\ b.effects = c.effects
  BY <1>5 DEF Keeps, CoreFields
<1>7. d = route_event(b, ch)
  BY DEF emit_rescan
<1> HIDE DEF ch, e, b, d
<1>8. d = IF ~c.live THEN b
          ELSE IF c.lag = "normal" THEN Push(b, e)
          ELSE [b EXCEPT !.parked = IF @ = None THEN ch ELSE covering_merge(@, ch)]
  BY <1>3, <1>6, <1>7 DEF route_event, e
<1>9. CASE c.live /\ c.lag = "normal"
  <2>1. d = Push(b, e)
    BY <1>8, <1>9
  <2>2. CoreTyped(d) /\ d.effects = Append(c.effects, e) /\ Keeps(b, d, {"effects"})
    BY <1>4, <1>5, <1>6, <2>1, PushFrame
  <2>3. Keeps(c, d, {"effects", "epoch"}) /\ d.epoch = c.epoch + 1
    BY <1>5, <2>2 DEF Keeps, CoreFields
  <2>4. /\ d.alive = c.alive /\ d.live = c.live /\ d.root = c.root
        /\ d.lag = c.lag /\ d.parked = c.parked /\ d.dying = c.dying /\ d.spawned = c.spawned
        /\ d.arming = c.arming /\ d.widen = c.widen /\ d.pending = c.pending
        /\ d.deadline = c.deadline
    BY <2>3 DEF Keeps, CoreFields
  <2>5. /\ DOMAIN d.effects = DOMAIN c.effects \cup {Len(c.effects) + 1}
        /\ Len(c.effects) + 1 \notin DOMAIN c.effects
        /\ \A i \in DOMAIN c.effects : d.effects[i] = c.effects[i]
        /\ d.effects[Len(c.effects) + 1] = e
        /\ Emits(d.effects) = Emits(c.effects) \cup {Len(c.effects) + 1}
    BY <1>1, <1>4, <2>2, Pushed
  <2>6. InOrder(d.effects, d.epoch) /\ LastIs(d.effects, d.epoch)
    <3>1. e.change.epoch = c.epoch + 1 /\ c.epoch <= e.change.epoch
      BY <1>1, <1>3, <1>4
    <3>2. InOrder(Append(c.effects, e), e.change.epoch) /\ LastIs(Append(c.effects, e), e.change.epoch)
      BY <1>1, <1>4, <3>1, PushedInOrder
    <3> QED BY <2>2, <2>3, <3>1, <3>2
  <2>7. c.parked = None /\ c.dying = None
    BY <1>1, <1>9 DEF Lagging
  <2>8. Ordered(d)
    <3>1. (d.parked # None => d.parked.epoch = d.epoch) /\ (d.dying # None => d.dying.change.epoch = d.epoch)
      BY <2>4, <2>7
    <3> QED BY <2>6, <3>1, OrderedParts
  <2>9. Lagging(d)
    BY <1>1, <1>9, <2>4 DEF Lagging
  <2>10. e.k # "teardown"
    BY <1>4 DEF IsEmit
  <2>11. Armed(d)
    BY <1>1, <2>4, <2>5, <2>10 DEF Armed
  <2>12. Emits(c.effects) \subseteq DOMAIN c.effects
    BY DEF Emits
  <2>13. \A p : Waits(c, p) => Waits(d, p)
    BY <2>4, <2>5, <2>12 DEF Waits
  <2>14. Follows(c, d)
    <3>1. Sound(d)
      BY <2>2, <2>8, <2>9, <2>11 DEF Sound
    <3>2. \A j \in Emits(d.effects) :
             \/ c.epoch <= d.effects[j].change.epoch
             \/ \E i \in Emits(c.effects) : d.effects[j] = c.effects[i]
      BY <1>1, <1>3, <1>4, <2>5, <2>12
    <3>3. c.epoch <= d.epoch /\ StartsWith(c.root, d.root)
      BY <1>1, <2>3, <2>4, RootBelow
    <3> QED BY <2>4, <2>13, <3>1, <3>2, <3>3 DEF Follows
  <2>15. \A pr : Watch(c, pr) => Watch(d, pr)
    <3>1. \A i \in DOMAIN c.effects : c.effects[i].k = "refresh" =>
             \E j \in DOMAIN d.effects : d.effects[j] = c.effects[i]
      BY <2>5
    <3>2. Keeps(c, d, CoreFields \ {"alive", "spawned", "pending", "inc", "backend", "deadline"})
      BY <2>3 DEF Keeps, CoreFields
    <3> QED BY <3>1, <3>2, WatchKept
  <2>16. \A p : StartsWith(p, c.root \o loc) => Speaks(e, p)
    BY <1>3, <1>4 DEF Speaks
  <2>17. \A p : StartsWith(p, c.root \o loc) => Waits(d, p)
    BY <1>1, <1>9, <2>4, <2>5, <2>16 DEF Waits
  <2>18. Keeps(c, d, {"effects", "epoch", "parked"})
    BY <2>3 DEF Keeps
  <2> QED BY <2>2, <2>3, <2>14, <2>15, <2>17, <2>18 DEF d, e, ch
<1>10. CASE ~(c.live /\ c.lag = "normal")
  <2>1. d = b \/ (c.live /\ d = [b EXCEPT !.parked = IF @ = None THEN ch ELSE covering_merge(@, ch)])
    BY <1>8, <1>10
  <2>2. c.live => c.lag = "lagged" /\ c.parked # None /\ c.parked.loc = <<>> /\ Emits(c.effects) = {}
    BY <1>1, <1>10 DEF Lagging
  <2>3. Emits(c.effects) = {}
    BY <1>1, <2>2 DEF Lagging
  <2>4. c.dying = None /\ (~c.live => c.parked = None)
    BY <1>1 DEF Lagging
  <2>5. /\ CoreTyped(d) /\ Keeps(c, d, {"epoch", "parked"}) /\ d.epoch = c.epoch + 1
        /\ ~c.live => d.parked = None
        /\ c.live => d.parked.loc = <<>> /\ d.parked.rescan /\ d.parked.epoch = d.epoch /\ d.parked # None
    <3>1. CASE c.live
      <4>1. CommonPrefix(c.parked.loc, ch.loc) = <<>>
        <5>1. Len(loc) \in Nat
          OBVIOUS
        <5> QED BY <1>3, <2>2, <3>1, <5>1, TopIsPrefix
      <4>2. covering_merge(c.parked, ch) = [ch EXCEPT !.loc = <<>>]
        BY <4>1 DEF covering_merge
      <4>3. /\ [ch EXCEPT !.loc = <<>>] \in Change /\ [ch EXCEPT !.loc = <<>>].rescan
            /\ [ch EXCEPT !.loc = <<>>].epoch = c.epoch + 1 /\ [ch EXCEPT !.loc = <<>>].loc = <<>>
            /\ [ch EXCEPT !.loc = <<>>] # None
        <5>1. <<>> \in Seq(Names)
          BY <1>1
        <5>2. [ch EXCEPT !.loc = <<>>] \in Change
          BY <1>2, <5>1 DEF Change
        <5>3. /\ [ch EXCEPT !.loc = <<>>].rescan /\ [ch EXCEPT !.loc = <<>>].loc = <<>>
              /\ [ch EXCEPT !.loc = <<>>].epoch = c.epoch + 1
          BY <1>2, <1>3 DEF Change
        <5>4. \A w \in Change : w # None
          BY DEF Change, None
        <5> QED BY <5>2, <5>3, <5>4
      <4>4. d = [b EXCEPT !.parked = [ch EXCEPT !.loc = <<>>]]
        <5>1. b.parked = c.parked /\ c.parked # None
          BY <1>6, <2>2, <3>1
        <5> QED BY <1>8, <1>10, <3>1, <4>2, <5>1
      <4>5. CoreTyped(d) /\ Keeps(b, d, {"parked"}) /\ d.parked = [ch EXCEPT !.loc = <<>>]
        BY <1>5, <4>3, <4>4 DEF CoreTyped, CoreFields, Keeps
      <4>6. Keeps(c, d, {"epoch", "parked"}) /\ d.epoch = c.epoch + 1
        BY <1>5, <4>5 DEF Keeps, CoreFields
      <4> QED BY <3>1, <4>3, <4>5, <4>6
    <3>2. CASE ~c.live
      BY <1>5, <1>6, <1>8, <2>4, <3>2 DEF Keeps
    <3> QED BY <3>1, <3>2
  <2>6. /\ d.alive = c.alive /\ d.live = c.live /\ d.root = c.root /\ d.effects = c.effects
        /\ d.lag = c.lag /\ d.dying = c.dying /\ d.spawned = c.spawned
        /\ d.arming = c.arming /\ d.widen = c.widen /\ d.pending = c.pending
        /\ d.deadline = c.deadline
    BY <2>5 DEF Keeps, CoreFields
  <2>7. InOrder(d.effects, d.epoch) /\ LastIs(d.effects, d.epoch)
    <3>1. Rescans(c.effects) \subseteq Emits(c.effects)
      BY DEF Emits, Rescans, IsEmit, IsRescanEmit
    <3> QED BY <2>3, <2>6, <3>1 DEF InOrder, LastIs
  <2>8. Ordered(d)
    <3>1. (d.parked # None => d.parked.epoch = d.epoch) /\ (d.dying # None => d.dying.change.epoch = d.epoch)
      BY <2>4, <2>5, <2>6
    <3> QED BY <2>7, <3>1, OrderedParts
  <2>9. Lagging(d)
    <3>1. CASE c.live
      BY <1>1, <2>2, <2>5, <2>6, <3>1 DEF Lagging
    <3>2. CASE ~c.live
      BY <1>1, <2>5, <2>6, <3>2 DEF Lagging
    <3> QED BY <3>1, <3>2
  <2>10. Armed(d)
    BY <1>1, <2>6 DEF Armed
  <2>11. \A p : Waits(c, p) => Waits(d, p)
    BY <2>6 DEF Waits
  <2>12. Follows(c, d)
    <3>1. Sound(d)
      BY <2>5, <2>8, <2>9, <2>10 DEF Sound
    <3>2. c.epoch <= d.epoch /\ StartsWith(c.root, d.root)
      BY <1>1, <2>5, <2>6, RootBelow
    <3> QED BY <2>3, <2>6, <2>11, <3>1, <3>2 DEF Follows
  <2>13. \A pr : Watch(c, pr) => Watch(d, pr)
    <3>1. \A i \in DOMAIN c.effects : c.effects[i].k = "refresh" =>
             \E j \in DOMAIN d.effects : d.effects[j] = c.effects[i]
      BY <2>6
    <3>2. Keeps(c, d, CoreFields \ {"alive", "spawned", "pending", "inc", "backend", "deadline"})
      BY <2>5 DEF Keeps, CoreFields
    <3> QED BY <3>1, <3>2, WatchKept
  <2>14. c.live => \A p : Waits(d, p)
    BY <1>1, <2>2, <2>6 DEF Waits
  <2>15. Keeps(c, d, {"effects", "epoch", "parked"})
    BY <2>5 DEF Keeps
  <2> QED BY <1>10, <2>5, <2>12, <2>13, <2>14, <2>15 DEF d
<1> QED BY <1>9, <1>10

\* A probe that would be believed was sent for the stream there is.
Current(c, pr) == c.alive => \A f \in pr.flight : f.tag = pr.tag => f.inc = c.inc

\* A sound core pushes an effect that is no emission.
LEMMA PushAside ==
    ASSUME NEW c, Sound(c), NEW e \in Effect, ~IsEmit(e), c.alive => e.k # "teardown"
    PROVE  Follows(c, Push(c, e))
<1> DEFINE d == Push(c, e)
<1>1. /\ CoreTyped(c) /\ Lagging(c) /\ Ordered(c) /\ Armed(c) /\ c.effects \in Seq(Effect)
      /\ c.epoch \in Nat /\ c.root \in {Root, Wide}
      /\ InOrder(c.effects, c.epoch) /\ (c.alive => LastIs(c.effects, c.epoch))
  BY SoundParts
<1>2. CoreTyped(d) /\ d.effects = Append(c.effects, e) /\ Keeps(c, d, {"effects"})
  BY <1>1, PushFrame
<1> HIDE DEF d
<1>3. /\ d.epoch = c.epoch /\ d.alive = c.alive /\ d.live = c.live /\ d.root = c.root
      /\ d.lag = c.lag /\ d.parked = c.parked /\ d.dying = c.dying /\ d.spawned = c.spawned
      /\ d.arming = c.arming /\ d.widen = c.widen /\ d.pending = c.pending
      /\ d.deadline = c.deadline
  BY <1>2 DEF Keeps, CoreFields
<1>4. /\ Emits(d.effects) = Emits(c.effects)
      /\ \A i \in Emits(c.effects) : d.effects[i] = c.effects[i]
      /\ InOrder(d.effects, c.epoch) /\ (c.alive => LastIs(d.effects, c.epoch))
  <2>1. /\ Emits(Append(c.effects, e)) = Emits(c.effects)
        /\ \A i \in Emits(c.effects) : Append(c.effects, e)[i] = c.effects[i]
        /\ InOrder(c.effects, c.epoch) => InOrder(Append(c.effects, e), c.epoch)
        /\ LastIs(c.effects, c.epoch) => LastIs(Append(c.effects, e), c.epoch)
    BY <1>1, PushedOther
  <2> QED BY <1>1, <1>2, <2>1
<1>5. Ordered(d)
  <2>1. (d.parked # None => d.parked.epoch = d.epoch) /\ (d.dying # None => d.dying.change.epoch = d.epoch)
    BY <1>1, <1>3 DEF Ordered
  <2>2. InOrder(d.effects, d.epoch) /\ (d.alive => LastIs(d.effects, d.epoch))
    BY <1>3, <1>4
  <2> QED BY <2>1, <2>2, OrderedParts
<1>6. Lagging(d)
  BY <1>1, <1>3, <1>4 DEF Lagging
<1>7. Armed(d)
  <2>1. /\ DOMAIN d.effects = DOMAIN c.effects \cup {Len(c.effects) + 1}
        /\ \A i \in DOMAIN c.effects : d.effects[i] = c.effects[i]
        /\ d.effects[Len(c.effects) + 1] = e
    BY <1>1, <1>2, Pushed
  <2> QED BY <1>1, <1>3, <2>1 DEF Armed
<1>8. \A p : Waits(c, p) => Waits(d, p)
  BY <1>3, <1>4 DEF Waits
<1>9. Sound(d) /\ c.epoch <= d.epoch /\ StartsWith(c.root, d.root)
  BY <1>1, <1>2, <1>3, <1>5, <1>6, <1>7, RootBelow DEF Sound
<1>10. Follows(c, d)
  BY <1>3, <1>4, <1>8, <1>9 DEF Follows
<1> QED BY <1>10 DEF d

\* A refresh asked for.
LEMMA ArmFollows ==
    ASSUME NEW c, Sound(c)
    PROVE  /\ Follows(c, arm_refresh(c))
           /\ Keeps(c, arm_refresh(c), {"refresh_stale", "pending", "effects"})
           /\ \A pr : Watch(c, pr) => Watch(arm_refresh(c), pr)
           /\ c.spawned /\ ~c.pending => \A pr : Current(c, pr) => Watch(arm_refresh(c), pr)
<1> DEFINE d == arm_refresh(c)
<1>1. CoreTyped(c) /\ Lagging(c) /\ Armed(c) /\ c.inc \in Nat
  BY SoundParts
<1>2. CASE c.pending
  <2>1. d = [c EXCEPT !.refresh_stale = TRUE]
    BY <1>2 DEF arm_refresh
  <2> HIDE DEF d
  <2>2. CoreTyped(d) /\ Keeps(c, d, {"refresh_stale"})
    BY <1>1, <2>1 DEF CoreTyped, CoreFields, Keeps
  <2>3. Keeps(c, d, CoreFields \ LagFields)
    BY <2>2 DEF Keeps, CoreFields, LagFields
  <2>4. /\ d.spawned = c.spawned /\ d.arming = c.arming /\ d.widen = c.widen
        /\ d.pending = c.pending /\ d.deadline = c.deadline /\ d.effects = c.effects
    BY <2>2 DEF Keeps, CoreFields
  <2>5. Lagging(d) /\ Armed(d)
    <3>1. /\ d.alive = c.alive /\ d.live = c.live /\ d.lag = c.lag /\ d.parked = c.parked
          /\ d.dying = c.dying
      BY <2>2 DEF Keeps, CoreFields
    <3> QED BY <1>1, <2>4, <3>1 DEF Lagging, Armed
  <2>6. Follows(c, d)
    BY <2>2, <2>3, <2>5, Aside
  <2>7. Keeps(c, d, CoreFields \ {"alive", "spawned", "pending", "inc", "backend", "deadline"})
    BY <2>2 DEF Keeps, CoreFields
  <2>8. \A pr : Watch(c, pr) => Watch(d, pr)
    BY <2>4, <2>7, WatchKept
  <2>9. Keeps(c, d, {"refresh_stale", "pending", "effects"})
    BY <2>2 DEF Keeps
  <2> QED BY <1>2, <2>6, <2>8, <2>9 DEF d
<1>3. CASE ~c.pending /\ ~c.spawned
  <2>1. d = c
    BY <1>3 DEF arm_refresh
  <2> QED BY <1>3, <2>1, FollowsSelf DEF Keeps
<1>4. CASE ~c.pending /\ c.spawned
  <2> DEFINE b == [c EXCEPT !.pending = TRUE]
             e == [k |-> "refresh", inc |-> c.inc]
  <2>1. d = Push(b, e)
    BY <1>4 DEF arm_refresh
  <2>2. CoreTyped(b) /\ Keeps(c, b, {"pending"}) /\ b.pending
    BY <1>1 DEF CoreTyped, CoreFields, Keeps
  <2>3. e \in Effect /\ ~IsEmit(e) /\ e.k = "refresh" /\ e.inc = c.inc
    BY <1>1 DEF Effect, IsEmit
  <2> HIDE DEF b, d, e
  <2>4. Keeps(c, b, CoreFields \ LagFields)
    BY <2>2 DEF Keeps, CoreFields, LagFields
  <2>5. /\ b.spawned = c.spawned /\ b.arming = c.arming /\ b.widen = c.widen
        /\ b.deadline = c.deadline /\ b.effects = c.effects /\ b.alive = c.alive
        /\ b.inc = c.inc
    BY <2>2 DEF Keeps, CoreFields
  <2>6. Lagging(b) /\ Armed(b)
    <3>1. b.live = c.live /\ b.lag = c.lag /\ b.parked = c.parked /\ b.dying = c.dying
      BY <2>2 DEF Keeps, CoreFields
    <3> QED BY <1>1, <1>4, <2>5, <3>1 DEF Lagging, Armed
  <2>7. Follows(c, b)
    BY <2>2, <2>4, <2>6, Aside
  <2>8. Sound(b)
    BY <2>7 DEF Follows
  <2>9. Follows(b, d)
    <3>1. e.k # "teardown"
      BY <2>3
    <3> QED BY <2>1, <2>3, <2>8, <3>1, PushAside
  <2>10. Follows(c, d)
    BY <2>7, <2>9, FollowsTrans
  <2>11. d.effects = Append(b.effects, e) /\ Keeps(b, d, {"effects"})
    BY <2>1, <2>2, <2>3, PushFrame
  <2>12. Keeps(c, d, {"refresh_stale", "pending", "effects"})
    BY <2>2, <2>11 DEF Keeps, CoreFields
  <2>13. d.pending /\ d.inc = c.inc /\ d.alive = c.alive /\ d.spawned = c.spawned
    BY <2>2, <2>5, <2>11 DEF Keeps, CoreFields
  <2>14. \E i \in DOMAIN d.effects : d.effects[i].k = "refresh" /\ d.effects[i].inc = d.inc
    <3>1. b.effects \in Seq(Effect)
      BY <2>8, SoundParts
    <3>2. Len(b.effects) + 1 \in DOMAIN d.effects /\ d.effects[Len(b.effects) + 1] = e
      BY <2>3, <2>11, <3>1, Pushed
    <3> QED BY <2>3, <2>13, <3>2
  <2>15. \A pr : Current(c, pr) => Watch(d, pr)
    BY <2>13, <2>14 DEF Current, Watch
  <2>16. \A pr : Watch(c, pr) => Current(c, pr)
    BY DEF Watch, Current
  <2> QED BY <2>10, <2>12, <2>15, <2>16 DEF d
<1> QED BY <1>2, <1>3, <1>4

\* A change of what neither the lag protocol nor the probes look at.
LEMMA Idle ==
    ASSUME NEW c, Sound(c), NEW d, CoreTyped(d),
           Keeps(c, d, {"attempt", "refresh_stale", "authoritative", "recovered", "report_owed", "widen"}),
           d.widen # "none" => c.live
    PROVE  /\ Follows(c, d)
           /\ \A pr : Watch(c, pr) => Watch(d, pr)
           /\ \A pr : Current(c, pr) => Current(d, pr)
<1>1. CoreTyped(c) /\ Lagging(c) /\ Armed(c)
  BY SoundParts
<1>2. Keeps(c, d, CoreFields \ LagFields)
  BY DEF Keeps, CoreFields, LagFields
<1>3. /\ d.alive = c.alive /\ d.live = c.live /\ d.lag = c.lag /\ d.parked = c.parked
      /\ d.dying = c.dying /\ d.spawned = c.spawned /\ d.arming = c.arming /\ d.effects = c.effects
      /\ d.pending = c.pending /\ d.deadline = c.deadline /\ d.inc = c.inc
  BY DEF Keeps, CoreFields
<1>4. Lagging(d) /\ Armed(d)
  BY <1>1, <1>3 DEF Lagging, Armed
<1>5. Follows(c, d)
  BY <1>2, <1>4, Aside
<1>6. Keeps(c, d, CoreFields \ {"alive", "spawned", "pending", "inc", "backend", "deadline"})
  BY DEF Keeps, CoreFields
<1>7. \A pr : Watch(c, pr) => Watch(d, pr)
  BY <1>3, <1>6, WatchKept
<1>8. \A pr : Current(c, pr) => Current(d, pr)
  BY <1>3 DEF Current
<1> QED BY <1>5, <1>7, <1>8

\* Trust in the mounts lost.
LEMMA TrustFollows ==
    ASSUME NEW c, Sound(c)
    PROVE  /\ Follows(c, trust_lost(c))
           /\ Keeps(c, trust_lost(c), {"authoritative", "refresh_stale", "pending", "effects"})
           /\ \A pr : Watch(c, pr) => Watch(trust_lost(c), pr)
           /\ c.spawned /\ ~c.pending => \A pr : Current(c, pr) => Watch(trust_lost(c), pr)
<1> DEFINE b == [c EXCEPT !.authoritative = FALSE]
           d == arm_refresh(b)
<1>1. CoreTyped(c) /\ Lagging(c)
  BY SoundParts
<1>2. CoreTyped(b) /\ Keeps(c, b, {"authoritative"})
  BY <1>1 DEF CoreTyped, CoreFields, Keeps
<1>3. trust_lost(c) = d
  BY DEF trust_lost
<1> HIDE DEF b, d
<1>4. b.widen = c.widen /\ b.spawned = c.spawned /\ b.pending = c.pending
  BY <1>2 DEF Keeps, CoreFields
<1>5. b.widen # "none" => c.live
  BY <1>1, <1>4 DEF Lagging
<1>6. Keeps(c, b, {"attempt", "refresh_stale", "authoritative", "recovered", "report_owed", "widen"})
  BY <1>2 DEF Keeps
<1>7. /\ Follows(c, b)
      /\ \A pr : Watch(c, pr) => Watch(b, pr)
      /\ \A pr : Current(c, pr) => Current(b, pr)
  BY <1>2, <1>5, <1>6, Idle
<1>8. Sound(b)
  BY <1>7 DEF Follows
<1>9. /\ Follows(b, d) /\ Keeps(b, d, {"refresh_stale", "pending", "effects"})
      /\ \A pr : Watch(b, pr) => Watch(d, pr)
      /\ b.spawned /\ ~b.pending => \A pr : Current(b, pr) => Watch(d, pr)
  BY <1>8, ArmFollows DEF d
<1>10. Follows(c, d)
  BY <1>7, <1>9, FollowsTrans
<1>11. Keeps(c, d, {"authoritative", "refresh_stale", "pending", "effects"})
  BY <1>2, <1>9 DEF Keeps
<1> QED BY <1>3, <1>4, <1>7, <1>9, <1>10, <1>11

\* The deadline set again.
LEMMA TimedFollows ==
    ASSUME NEW c, Sound(c), c.alive
    PROVE  /\ Follows(c, arm_liveness(c))
           /\ Keeps(c, arm_liveness(c), {"deadline"})
           /\ \A pr : Watch(c, pr) => Watch(arm_liveness(c), pr)
           /\ ~c.pending => \A pr : Current(c, pr) => Watch(arm_liveness(c), pr)
<1> DEFINE d == arm_liveness(c)
<1>1. CoreTyped(c) /\ Lagging(c) /\ Armed(c)
  BY SoundParts
<1>2. CoreTyped(d) /\ Keeps(c, d, {"deadline"}) /\ d.deadline = (Ticked(c) /\ c.spawned)
  BY <1>1 DEF arm_liveness, CoreTyped, CoreFields, Keeps
<1> HIDE DEF d
<1>3. /\ d.alive = c.alive /\ d.live = c.live /\ d.lag = c.lag /\ d.parked = c.parked
      /\ d.dying = c.dying /\ d.spawned = c.spawned /\ d.arming = c.arming /\ d.effects = c.effects
      /\ d.pending = c.pending /\ d.widen = c.widen /\ d.inc = c.inc /\ d.backend = c.backend
  BY <1>2 DEF Keeps, CoreFields
<1>4. Keeps(c, d, CoreFields \ LagFields)
  BY <1>2 DEF Keeps, CoreFields, LagFields
<1>5. Lagging(d) /\ Armed(d)
  BY <1>1, <1>3 DEF Lagging, Armed
<1>6. Follows(c, d)
  BY <1>2, <1>4, <1>5, Aside
<1>7. Ticked(d) <=> Ticked(c)
  BY <1>3 DEF Ticked
<1>8. ASSUME NEW pr, Watch(c, pr) PROVE Watch(d, pr)
  BY <1>2, <1>3, <1>7, <1>8 DEF Watch
<1>9. ASSUME ~c.pending, NEW pr, Current(c, pr) PROVE Watch(d, pr)
  BY <1>2, <1>3, <1>7, <1>9 DEF Watch, Current
<1> QED BY <1>2, <1>6, <1>8, <1>9 DEF d

\* A Rescan of the whole root.
LEMMA WholeRescan ==
    ASSUME NEW c, Sound(c), c.alive
    PROVE  /\ Follows(c, on_overflow(c)) /\ report_loss(c) = on_overflow(c)
           /\ Keeps(c, on_overflow(c), {"effects", "epoch", "parked"})
           /\ \A pr : Watch(c, pr) => Watch(on_overflow(c), pr)
           /\ c.live => \A p : StartsWith(p, c.root) => Waits(on_overflow(c), p)
<1>1. <<>> \in Seq(Names) /\ c.root \in Seq(Names)
  BY SoundParts
<1>2. c.root \o <<>> = c.root
  BY <1>1
<1>3. /\ Follows(c, emit_rescan(c, <<>>))
      /\ Keeps(c, emit_rescan(c, <<>>), {"effects", "epoch", "parked"})
      /\ \A pr : Watch(c, pr) => Watch(emit_rescan(c, <<>>), pr)
      /\ c.live => \A p : StartsWith(p, c.root \o <<>>) => Waits(emit_rescan(c, <<>>), p)
  BY <1>1, RescanFollows
<1> QED BY <1>2, <1>3 DEF on_overflow, report_loss

\* `on_root_overflow`: whatever was lost, the reader will look at the whole root.
LEMMA OverflowFollows ==
    ASSUME NEW c, Sound(c)
    PROVE  /\ Follows(c, on_root_overflow(c))
           /\ Keeps(c, on_root_overflow(c),
                    {"widen", "authoritative", "refresh_stale", "pending", "effects", "epoch", "parked"})
           /\ \A pr : Watch(c, pr) => Watch(on_root_overflow(c), pr)
           /\ c.alive /\ c.live => \A p : StartsWith(p, c.root) => Waits(on_root_overflow(c), p)
<1> DEFINE a == [c EXCEPT !.widen = Tainted(@)]
           b == trust_lost(a)
           d == on_overflow(b)
<1>1. CASE ~c.alive
  <2>1. on_root_overflow(c) = c
    BY <1>1 DEF on_root_overflow
  <2> QED BY <1>1, <2>1, FollowsSelf DEF Keeps
<1>2. CASE c.alive
  <2>1. CoreTyped(c) /\ Lagging(c)
    BY SoundParts
  <2>2. CoreTyped(a) /\ Keeps(c, a, {"widen"}) /\ (a.widen # "none" => c.widen # "none")
    BY <2>1 DEF CoreTyped, CoreFields, Keeps, Tainted
  <2>3. on_root_overflow(c) = d
    BY <1>2 DEF on_root_overflow
  <2> HIDE DEF a, b, d
  <2>4. a.widen # "none" => c.live
    BY <2>1, <2>2 DEF Lagging
  <2>5. Keeps(c, a, {"attempt", "refresh_stale", "authoritative", "recovered", "report_owed", "widen"})
    BY <2>2 DEF Keeps
  <2>6. Follows(c, a) /\ \A pr : Watch(c, pr) => Watch(a, pr)
    BY <2>2, <2>4, <2>5, Idle
  <2>7. Sound(a)
    BY <2>6 DEF Follows
  <2>8. /\ Follows(a, b) /\ Keeps(a, b, {"authoritative", "refresh_stale", "pending", "effects"})
        /\ \A pr : Watch(a, pr) => Watch(b, pr)
    BY <2>7, TrustFollows DEF b
  <2>9. Sound(b)
    BY <2>8 DEF Follows
  <2>10. b.alive = c.alive /\ b.live = c.live /\ b.root = c.root
    BY <2>2, <2>8 DEF Keeps, CoreFields
  <2>11. b.alive
    BY <1>2, <2>10
  <2>12. /\ Follows(b, d) /\ Keeps(b, d, {"effects", "epoch", "parked"})
         /\ \A pr : Watch(b, pr) => Watch(d, pr)
         /\ b.live => \A p : StartsWith(p, b.root) => Waits(d, p)
    BY <2>9, <2>11, WholeRescan DEF d
  <2>13. Follows(c, b)
    BY <2>6, <2>8, FollowsTrans
  <2>14. Follows(c, d)
    BY <2>12, <2>13, FollowsTrans
  <2>15. Keeps(c, d, {"widen", "authoritative", "refresh_stale", "pending", "effects", "epoch", "parked"})
    BY <2>2, <2>8, <2>12 DEF Keeps
  <2> QED BY <2>3, <2>6, <2>8, <2>10, <2>12, <2>14, <2>15
<1> QED BY <1>1, <1>2

\* What is left of a queue, by the places it had.
LEMMA Left ==
    ASSUME NEW q \in Seq(Effect), NEW I \in SUBSET DOMAIN q
    PROVE  /\ Kept(q, I) \in Seq(Effect)
           /\ \E f \in [DOMAIN Kept(q, I) -> I] :
                 /\ \A n \in DOMAIN Kept(q, I) : Kept(q, I)[n] = q[f[n]]
                 /\ \A m, n \in DOMAIN Kept(q, I) : m < n => f[m] < f[n]
                 /\ \A i \in I : \E n \in DOMAIN Kept(q, I) : f[n] = i
BY KeptPlaces

\* The effects of one kind withdrawn: the others stay, in their order.
LEMMA Purged ==
    ASSUME NEW c, CoreTyped(c), NEW kind
    PROVE  /\ CoreTyped(Purge(c, kind)) /\ Keeps(c, Purge(c, kind), {"effects"})
           /\ \E f \in [DOMAIN Purge(c, kind).effects -> DOMAIN c.effects] :
                 /\ \A n \in DOMAIN Purge(c, kind).effects :
                       Purge(c, kind).effects[n] = c.effects[f[n]] /\ c.effects[f[n]].k # kind
                 /\ \A m, n \in DOMAIN Purge(c, kind).effects : m < n => f[m] < f[n]
                 /\ \A i \in DOMAIN c.effects :
                       c.effects[i].k # kind => \E n \in DOMAIN Purge(c, kind).effects : f[n] = i
<1> DEFINE I == {i \in DOMAIN c.effects : c.effects[i].k # kind}
           r == Kept(c.effects, I)
           d == Purge(c, kind)
<1>1. c.effects \in Seq(Effect) /\ I \in SUBSET DOMAIN c.effects
  BY DEF CoreTyped
<1>2. d = [c EXCEPT !.effects = r]
  <2>1. c = [x \in CoreFields |-> c[x]]
    BY DEF CoreTyped
  <2> QED BY <2>1 DEF Purge, CoreFields
<1> HIDE DEF I, r, d
<1>3. /\ r \in Seq(Effect)
      /\ \E f \in [DOMAIN r -> I] :
            /\ \A n \in DOMAIN r : r[n] = c.effects[f[n]]
            /\ \A m, n \in DOMAIN r : m < n => f[m] < f[n]
            /\ \A i \in I : \E n \in DOMAIN r : f[n] = i
  <2>1. /\ Kept(c.effects, I) \in Seq(Effect)
        /\ \E f \in [DOMAIN Kept(c.effects, I) -> I] :
              /\ \A n \in DOMAIN Kept(c.effects, I) : Kept(c.effects, I)[n] = c.effects[f[n]]
              /\ \A m, n \in DOMAIN Kept(c.effects, I) : m < n => f[m] < f[n]
              /\ \A i \in I : \E n \in DOMAIN Kept(c.effects, I) : f[n] = i
    BY <1>1, Left
  <2> QED BY <2>1 DEF r
<1>4. CoreTyped(d) /\ Keeps(c, d, {"effects"}) /\ d.effects = r
  BY <1>2, <1>3 DEF CoreTyped, CoreFields, Keeps
<1>5. PICK f \in [DOMAIN r -> I] :
            /\ \A n \in DOMAIN r : r[n] = c.effects[f[n]]
            /\ \A m, n \in DOMAIN r : m < n => f[m] < f[n]
            /\ \A i \in I : \E n \in DOMAIN r : f[n] = i
  BY <1>3
<1>6. f \in [DOMAIN r -> DOMAIN c.effects]
  BY <1>1, <1>5
<1>7. \A n \in DOMAIN r : c.effects[f[n]].k # kind
  BY <1>5 DEF I
<1>8. \A i \in DOMAIN c.effects : c.effects[i].k # kind => \E n \in DOMAIN r : f[n] = i
  BY <1>5 DEF I
<1> QED BY <1>4, <1>5, <1>6, <1>7, <1>8 DEF d

\* The refreshes withdrawn.
LEMMA PurgeRefresh ==
    ASSUME NEW c, Sound(c)
    PROVE  Follows(c, Purge(c, "refresh")) /\ Keeps(c, Purge(c, "refresh"), {"effects"})
<1> DEFINE d == Purge(c, "refresh")
<1>1. /\ CoreTyped(c) /\ Lagging(c) /\ Ordered(c) /\ Armed(c) /\ c.effects \in Seq(Effect)
      /\ c.epoch \in Nat /\ c.root \in {Root, Wide}
      /\ InOrder(c.effects, c.epoch) /\ (c.alive => LastIs(c.effects, c.epoch))
  BY SoundParts
<1>2. /\ CoreTyped(d) /\ Keeps(c, d, {"effects"})
      /\ \E f \in [DOMAIN d.effects -> DOMAIN c.effects] :
            /\ \A n \in DOMAIN d.effects : d.effects[n] = c.effects[f[n]] /\ c.effects[f[n]].k # "refresh"
            /\ \A m, n \in DOMAIN d.effects : m < n => f[m] < f[n]
            /\ \A i \in DOMAIN c.effects :
                  c.effects[i].k # "refresh" => \E n \in DOMAIN d.effects : f[n] = i
  BY <1>1, Purged
<1> HIDE DEF d
<1>3. PICK f \in [DOMAIN d.effects -> DOMAIN c.effects] :
            /\ \A n \in DOMAIN d.effects : d.effects[n] = c.effects[f[n]] /\ c.effects[f[n]].k # "refresh"
            /\ \A m, n \in DOMAIN d.effects : m < n => f[m] < f[n]
            /\ \A i \in DOMAIN c.effects :
                  c.effects[i].k # "refresh" => \E n \in DOMAIN d.effects : f[n] = i
  BY <1>2
<1>4. /\ d.epoch = c.epoch /\ d.alive = c.alive /\ d.live = c.live /\ d.root = c.root
      /\ d.lag = c.lag /\ d.parked = c.parked /\ d.dying = c.dying /\ d.spawned = c.spawned
      /\ d.arming = c.arming /\ d.widen = c.widen /\ d.pending = c.pending
      /\ d.deadline = c.deadline
  BY <1>2 DEF Keeps, CoreFields
<1>5. d.effects \in Seq(Effect)
  BY <1>2 DEF CoreTyped
<1>6. \A i \in Emits(c.effects) : i \in DOMAIN c.effects /\ \E n \in DOMAIN d.effects : f[n] = i
  BY <1>3 DEF Emits, IsEmit
<1>7. Rescans(c.effects) \subseteq Emits(c.effects)
  BY DEF Emits, Rescans, IsEmit, IsRescanEmit
<1>8. /\ \A n \in Emits(d.effects) : f[n] \in Emits(c.effects) /\ d.effects[n] = c.effects[f[n]]
      /\ InOrder(d.effects, c.epoch)
      /\ LastIs(c.effects, c.epoch) => LastIs(d.effects, c.epoch)
  <2>1. \A i \in DOMAIN d.effects, j \in Rescans(c.effects) :
           f[i] < j => \E m \in DOMAIN d.effects : f[m] = j
    BY <1>6, <1>7
  <2>2. \A i \in DOMAIN d.effects : d.effects[i] = c.effects[f[i]]
    BY <1>3
  <2>3. \A i, j \in DOMAIN d.effects : i < j => f[i] < f[j]
    BY <1>3
  <2>4. /\ \A i \in Emits(d.effects) : f[i] \in Emits(c.effects)
        /\ InOrder(c.effects, c.epoch) => InOrder(d.effects, c.epoch)
        /\ /\ LastIs(c.effects, c.epoch)
           /\ \A i \in DOMAIN d.effects, j \in Rescans(c.effects) :
                 f[i] < j => \E m \in DOMAIN d.effects : f[m] = j
           => LastIs(d.effects, c.epoch)
    <3>1. f \in [DOMAIN d.effects -> DOMAIN c.effects]
      BY <1>3
    <3> DEFINE q == c.effects
               r == d.effects
               n == c.epoch
    <3>2. /\ q \in Seq(Effect) /\ r \in Seq(Effect) /\ n \in Nat /\ f \in [DOMAIN r -> DOMAIN q]
          /\ \A i \in DOMAIN r : r[i] = q[f[i]]
          /\ \A i, j \in DOMAIN r : i < j => f[i] < f[j]
      BY <1>1, <1>5, <2>2, <2>3, <3>1
    <3> HIDE DEF q, r, n
    <3>3. /\ \A i \in Emits(r) : f[i] \in Emits(q)
          /\ InOrder(q, n) => InOrder(r, n)
          /\ /\ LastIs(q, n)
             /\ \A i \in DOMAIN r, j \in Rescans(q) : f[i] < j => \E m \in DOMAIN r : f[m] = j
             => LastIs(r, n)
      BY <3>2, Thinned
    <3> QED BY <3>3 DEF q, r, n
  <2>5. Emits(d.effects) \subseteq DOMAIN d.effects
    BY DEF Emits
  <2> QED BY <1>1, <2>1, <2>2, <2>4, <2>5
<1>9. Ordered(d)
  <2>1. (d.parked # None => d.parked.epoch = d.epoch) /\ (d.dying # None => d.dying.change.epoch = d.epoch)
    BY <1>1, <1>4 DEF Ordered
  <2>2. InOrder(d.effects, d.epoch) /\ (d.alive => LastIs(d.effects, d.epoch))
    BY <1>1, <1>4, <1>8
  <2> QED BY <2>1, <2>2, OrderedParts
<1>10. Emits(c.effects) = {} => Emits(d.effects) = {}
  BY <1>8
<1>11. Lagging(d)
  BY <1>1, <1>4, <1>10 DEF Lagging
<1>12. Armed(d)
  <2>1. \A n \in DOMAIN d.effects : d.effects[n] = c.effects[f[n]] /\ f[n] \in DOMAIN c.effects
    BY <1>3
  <2> QED BY <1>1, <1>4, <2>1 DEF Armed
<1>13. ASSUME NEW p, Waits(c, p) PROVE Waits(d, p)
  <2>1. ASSUME NEW i \in Emits(c.effects) PROVE \E n \in Emits(d.effects) : d.effects[n] = c.effects[i]
    <3>1. PICK n \in DOMAIN d.effects : f[n] = i
      BY <1>6
    <3>2. d.effects[n] = c.effects[i]
      BY <1>3, <3>1
    <3>3. n \in Emits(d.effects)
      BY <3>2 DEF Emits
    <3> QED BY <3>2, <3>3
  <2>2. (\E i \in Emits(c.effects) : Speaks(c.effects[i], p)) => \E i \in Emits(d.effects) : Speaks(d.effects[i], p)
    <3> SUFFICES ASSUME NEW i \in Emits(c.effects), Speaks(c.effects[i], p)
                 PROVE  \E n \in Emits(d.effects) : Speaks(d.effects[n], p)
      OBVIOUS
    <3>1. PICK n \in Emits(d.effects) : d.effects[n] = c.effects[i]
      BY <2>1
    <3> QED BY <3>1
  <2> QED BY <1>4, <1>13, <2>2 DEF Waits
<1>14. Sound(d) /\ c.epoch <= d.epoch /\ StartsWith(c.root, d.root)
  BY <1>1, <1>2, <1>4, <1>9, <1>11, <1>12, RootBelow DEF Sound
<1>15. Follows(c, d)
  BY <1>4, <1>8, <1>13, <1>14 DEF Follows
<1> QED BY <1>2, <1>15 DEF d

\* The emissions withdrawn and a Rescan of the whole root in their place.
LEMMA FreshRescan ==
    ASSUME NEW c, Sound(c), c.alive
    PROVE  /\ Follows(c, on_overflow(purge_scope_emits(c)))
           /\ Keeps(c, on_overflow(purge_scope_emits(c)), {"effects", "epoch", "parked"})
           /\ \A pr : Watch(c, pr) => Watch(on_overflow(purge_scope_emits(c)), pr)
<1> DEFINE b == purge_scope_emits(c)
           d == on_overflow(b)
<1>1. /\ CoreTyped(c) /\ Lagging(c) /\ Ordered(c) /\ Armed(c) /\ c.effects \in Seq(Effect)
      /\ c.epoch \in Nat /\ c.root \in {Root, Wide}
  BY SoundParts
<1>2. /\ CoreTyped(b) /\ Keeps(c, b, {"effects"})
      /\ \E f \in [DOMAIN b.effects -> DOMAIN c.effects] :
            /\ \A n \in DOMAIN b.effects : b.effects[n] = c.effects[f[n]] /\ c.effects[f[n]].k # "emit"
            /\ \A m, n \in DOMAIN b.effects : m < n => f[m] < f[n]
            /\ \A i \in DOMAIN c.effects :
                  c.effects[i].k # "emit" => \E n \in DOMAIN b.effects : f[n] = i
  BY <1>1, Purged DEF purge_scope_emits
<1> HIDE DEF b, d
<1>3. PICK f \in [DOMAIN b.effects -> DOMAIN c.effects] :
            /\ \A n \in DOMAIN b.effects : b.effects[n] = c.effects[f[n]] /\ c.effects[f[n]].k # "emit"
            /\ \A m, n \in DOMAIN b.effects : m < n => f[m] < f[n]
            /\ \A i \in DOMAIN c.effects :
                  c.effects[i].k # "emit" => \E n \in DOMAIN b.effects : f[n] = i
  BY <1>2
<1>4. /\ b.epoch = c.epoch /\ b.alive = c.alive /\ b.live = c.live /\ b.root = c.root
      /\ b.lag = c.lag /\ b.parked = c.parked /\ b.dying = c.dying /\ b.spawned = c.spawned
      /\ b.arming = c.arming /\ b.widen = c.widen /\ b.pending = c.pending
      /\ b.deadline = c.deadline
  BY <1>2 DEF Keeps, CoreFields
<1>5. Emits(b.effects) = {} /\ Rescans(b.effects) = {}
  BY <1>3 DEF Emits, Rescans, IsEmit, IsRescanEmit
<1>6. Ordered(b)
  BY <1>1, <1>4, <1>5 DEF Ordered
<1>7. Lagging(b)
  BY <1>1, <1>4, <1>5 DEF Lagging
<1>8. Armed(b)
  <2>1. \A n \in DOMAIN b.effects : b.effects[n] = c.effects[f[n]] /\ f[n] \in DOMAIN c.effects
    BY <1>3
  <2> QED BY <1>1, <1>4, <2>1 DEF Armed
<1>9. Sound(b)
  BY <1>2, <1>6, <1>7, <1>8 DEF Sound
<1>10. b.alive
  BY <1>4
<1>11. /\ Follows(b, d) /\ Keeps(b, d, {"effects", "epoch", "parked"})
       /\ \A pr : Watch(b, pr) => Watch(d, pr)
       /\ b.live => \A p : StartsWith(p, b.root) => Waits(d, p)
  BY <1>9, <1>10, WholeRescan DEF d
<1>12. \A pr : Watch(c, pr) => Watch(b, pr)
  <2>1. \A i \in DOMAIN c.effects : c.effects[i].k = "refresh" =>
             \E j \in DOMAIN b.effects : b.effects[j] = c.effects[i]
    <3> SUFFICES ASSUME NEW i \in DOMAIN c.effects, c.effects[i].k = "refresh"
                 PROVE  \E j \in DOMAIN b.effects : b.effects[j] = c.effects[i]
      OBVIOUS
    <3>1. PICK n \in DOMAIN b.effects : f[n] = i
      BY <1>3
    <3> QED BY <1>3, <3>1
  <2>2. Keeps(c, b, CoreFields \ {"alive", "spawned", "pending", "inc", "backend", "deadline"})
    BY <1>2 DEF Keeps, CoreFields
  <2> QED BY <2>1, <2>2, WatchKept
<1>13. Keeps(c, d, {"effects", "epoch", "parked"})
  BY <1>2, <1>11 DEF Keeps
<1>14. Follows(c, d)
  <2>1. \A j \in Emits(d.effects) : c.epoch <= d.effects[j].change.epoch
    BY <1>4, <1>5, <1>11 DEF Follows
  <2>2. ASSUME NEW p \in Known, StartsWith(p, c.root), Waits(c, p) PROVE Waits(d, p)
    <3>1. CASE c.live
      BY <1>4, <1>11, <2>2, <3>1
    <3>2. CASE ~c.live
      BY <1>1, <2>2, <3>2 DEF Lagging, Waits
    <3> QED BY <3>1, <3>2
  <2>3. /\ Sound(d) /\ c.epoch <= d.epoch /\ StartsWith(c.root, d.root)
        /\ (d.alive => c.alive) /\ (d.alive /\ ~d.live => ~c.live)
    BY <1>4, <1>11 DEF Follows
  <2> QED BY <2>1, <2>2, <2>3 DEF Follows
<1> QED BY <1>11, <1>12, <1>13, <1>14 DEF b, d

\* The refresh that was waited for is over.
LEMMA Answered ==
    ASSUME NEW c, Sound(c), NEW d, CoreTyped(d), d.pending = FALSE,
           Keeps(c, d, {"pending", "recovered", "refresh_stale", "authoritative"})
    PROVE  Follows(c, d) /\ \A pr : Current(c, pr) => Current(d, pr)
<1>1. CoreTyped(c) /\ Lagging(c) /\ Armed(c)
  BY SoundParts
<1>2. Keeps(c, d, CoreFields \ LagFields)
  BY DEF Keeps, CoreFields, LagFields
<1>3. /\ d.alive = c.alive /\ d.live = c.live /\ d.lag = c.lag /\ d.parked = c.parked
      /\ d.dying = c.dying /\ d.spawned = c.spawned /\ d.arming = c.arming /\ d.effects = c.effects
      /\ d.deadline = c.deadline /\ d.inc = c.inc /\ d.widen = c.widen
  BY DEF Keeps, CoreFields
<1>4. Lagging(d) /\ Armed(d)
  BY <1>1, <1>3 DEF Lagging, Armed
<1>5. Follows(c, d)
  BY <1>2, <1>4, Aside
<1>6. \A pr : Current(c, pr) => Current(d, pr)
  BY <1>3 DEF Current
<1> QED BY <1>5, <1>6

\* `on_refresh_declined`: the deadline watches the root from now on.
LEMMA DeclinedFollows ==
    ASSUME NEW c, Sound(c), NEW reason
    PROVE  /\ Follows(c, on_refresh_declined(c, reason))
           /\ Keeps(c, on_refresh_declined(c, reason),
                    {"pending", "deadline", "recovered", "report_owed", "effects", "epoch", "parked"})
           /\ \A pr : Current(c, pr) => Watch(on_refresh_declined(c, reason), pr)
<1> DEFINE a == [c EXCEPT !.pending = FALSE]
           timed == arm_liveness(a)
           recover == ~c.recovered
           report == ~recover /\ c.live /\ ~c.report_owed
           noted == [timed EXCEPT !.recovered = TRUE,
                                  !.report_owed = @ \/ (c.live /\ (recover \/ report))]
           loud == on_overflow(purge_scope_emits(noted))
           d == on_refresh_declined(c, reason)
<1>1. CoreTyped(c) /\ Lagging(c)
  BY SoundParts
<1>2. CASE ~c.alive
  <2>1. d = c
    BY <1>2 DEF on_refresh_declined
  <2>2. \A pr : Watch(c, pr)
    BY <1>2 DEF Watch
  <2> QED BY <2>1, <2>2, FollowsSelf DEF Keeps
<1>3. CASE c.alive
  <2>1. d \in {timed, noted, loud}
    BY <1>3 DEF on_refresh_declined, report_loss, on_overflow
  <2>2. CoreTyped(a) /\ Keeps(c, a, {"pending"}) /\ a.pending = FALSE
    BY <1>1 DEF CoreTyped, CoreFields, Keeps
  <2> HIDE DEF a, d
  <2>3. Keeps(c, a, {"pending", "recovered", "refresh_stale", "authoritative"})
    BY <2>2 DEF Keeps
  <2>4. Follows(c, a) /\ \A pr : Current(c, pr) => Current(a, pr)
    BY <2>2, <2>3, Answered
  <2>5. Sound(a) /\ a.alive
    BY <1>3, <2>2, <2>4 DEF Follows, Keeps, CoreFields
  <2>6. /\ Follows(a, timed) /\ Keeps(a, timed, {"deadline"})
        /\ \A pr : Current(a, pr) => Watch(timed, pr)
    BY <2>2, <2>5, TimedFollows
  <2> HIDE DEF timed
  <2>7. Sound(timed) /\ CoreTyped(timed) /\ Lagging(timed) /\ timed.alive
    BY <2>5, <2>6, SoundParts DEF Follows, Keeps, CoreFields
  <2>8. CoreTyped(noted) /\ Keeps(timed, noted, {"recovered", "report_owed"})
    BY <2>7 DEF CoreTyped, CoreFields, Keeps
  <2> HIDE DEF noted
  <2>9. noted.widen # "none" => timed.live
    BY <2>7, <2>8 DEF Keeps, CoreFields, Lagging
  <2>10. Keeps(timed, noted, {"attempt", "refresh_stale", "authoritative", "recovered", "report_owed", "widen"})
    BY <2>8 DEF Keeps
  <2>11. Follows(timed, noted) /\ \A pr : Watch(timed, pr) => Watch(noted, pr)
    BY <2>7, <2>8, <2>9, <2>10, Idle
  <2>12. Sound(noted) /\ noted.alive
    BY <2>7, <2>8, <2>11 DEF Follows, Keeps, CoreFields
  <2>13. /\ Follows(noted, loud) /\ Keeps(noted, loud, {"effects", "epoch", "parked"})
         /\ \A pr : Watch(noted, pr) => Watch(loud, pr)
    BY <2>12, FreshRescan
  <2> HIDE DEF loud
  <2>14. Follows(c, timed)
    BY <2>4, <2>6, FollowsTrans
  <2>15. Follows(c, noted)
    BY <2>11, <2>14, FollowsTrans
  <2>16. Follows(c, loud)
    BY <2>13, <2>15, FollowsTrans
  <2>17. /\ Keeps(c, timed, {"pending", "deadline"})
         /\ Keeps(c, noted, {"pending", "deadline", "recovered", "report_owed"})
         /\ Keeps(c, loud, {"pending", "deadline", "recovered", "report_owed", "effects", "epoch", "parked"})
    BY <2>2, <2>6, <2>8, <2>13 DEF Keeps
  <2>18. Follows(c, d)
    BY <2>1, <2>14, <2>15, <2>16
  <2>19. Keeps(c, d, {"pending", "deadline", "recovered", "report_owed", "effects", "epoch", "parked"})
    BY <2>1, <2>17 DEF Keeps
  <2>20. \A pr : Current(c, pr) => Watch(d, pr)
    BY <2>1, <2>4, <2>6, <2>11, <2>13
  <2> QED BY <2>18, <2>19, <2>20 DEF d
<1> QED BY <1>2, <1>3

\* A scope goes live.
LEMMA GoesLive ==
    ASSUME NEW c, Sound(c), c.alive, c.spawned, NEW d, CoreTyped(d), d.live,
           Keeps(c, d, {"live", "arming", "report_owed"})
    PROVE  Follows(c, d) /\ \A pr : Watch(c, pr) => Watch(d, pr)
<1>1. CoreTyped(c) /\ Lagging(c) /\ Ordered(c) /\ Armed(c)
  BY SoundParts
<1>2. /\ d.alive = c.alive /\ d.lag = c.lag /\ d.parked = c.parked /\ d.root = c.root
      /\ d.dying = c.dying /\ d.spawned = c.spawned /\ d.effects = c.effects /\ d.epoch = c.epoch
      /\ d.deadline = c.deadline /\ d.inc = c.inc /\ d.widen = c.widen /\ d.pending = c.pending
  BY DEF Keeps, CoreFields
<1>3. Lagging(d)
  BY <1>1, <1>2 DEF Lagging
<1>4. Armed(d) /\ Ordered(d)
  BY <1>1, <1>2 DEF Armed, Ordered
<1>5. Sound(d)
  BY <1>3, <1>4 DEF Sound
<1>6. \A p : Waits(c, p) => Waits(d, p)
  BY <1>2 DEF Waits
<1>7. c.epoch <= d.epoch /\ StartsWith(c.root, d.root)
  BY <1>2, FollowsSelf DEF Follows
<1>8. Follows(c, d)
  BY <1>2, <1>5, <1>6, <1>7 DEF Follows
<1>9. \A pr : Watch(c, pr) => Watch(d, pr)
  <2>1. Keeps(c, d, CoreFields \ {"alive", "spawned", "pending", "inc", "backend", "deadline"})
    BY DEF Keeps, CoreFields
  <2> QED BY <1>2, <2>1, WatchKept
<1> QED BY <1>8, <1>9

\* `on_stream_spawned`: the first refresh is asked for.
LEMMA SpawnedFollows ==
    ASSUME NEW c, Sound(c), c.alive, ~c.spawned, NEW b \in Backends
    PROVE  /\ Follows(c, on_stream_spawned(c, b))
           /\ Keeps(c, on_stream_spawned(c, b),
                    {"spawned", "backend", "refresh_stale", "pending", "effects", "arming", "live"})
           /\ \A pr : Current(c, pr) => Watch(on_stream_spawned(c, b), pr)
<1> DEFINE a == [c EXCEPT !.spawned = TRUE, !.backend = b]
           known == arm_refresh(a)
           d == on_stream_spawned(c, b)
<1>1. CoreTyped(c) /\ Lagging(c) /\ Armed(c)
  BY SoundParts
<1>2. CoreTyped(a) /\ Keeps(c, a, {"spawned", "backend"}) /\ a.spawned
  BY <1>1 DEF CoreTyped, CoreFields, Keeps
<1> HIDE DEF a
<1>3. /\ a.alive = c.alive /\ a.live = c.live /\ a.lag = c.lag /\ a.parked = c.parked
      /\ a.dying = c.dying /\ a.arming = c.arming /\ a.effects = c.effects
      /\ a.deadline = c.deadline /\ a.inc = c.inc /\ a.widen = c.widen /\ a.pending = c.pending
  BY <1>2 DEF Keeps, CoreFields
<1>4. Keeps(c, a, CoreFields \ LagFields)
  BY <1>2 DEF Keeps, CoreFields, LagFields
<1>5. Lagging(a) /\ Armed(a) /\ ~a.pending
  BY <1>1, <1>2, <1>3 DEF Lagging, Armed
<1>6. Follows(c, a)
  BY <1>2, <1>4, <1>5, Aside
<1>7. Sound(a)
  BY <1>6 DEF Follows
<1>8. /\ Follows(a, known) /\ Keeps(a, known, {"refresh_stale", "pending", "effects"})
      /\ \A pr : Current(a, pr) => Watch(known, pr)
  BY <1>2, <1>5, <1>7, ArmFollows
<1>9. d = IF Descends(known) THEN [known EXCEPT !.arming = TRUE] ELSE [known EXCEPT !.live = TRUE]
  BY DEF on_stream_spawned, a
<1> HIDE DEF known, d
<1>10. Sound(known) /\ CoreTyped(known) /\ Lagging(known) /\ Armed(known)
  BY <1>8, SoundParts DEF Follows
<1>11. known.alive /\ known.spawned
  BY <1>2, <1>3, <1>8 DEF Keeps, CoreFields
<1>12. Follows(known, d) /\ Keeps(known, d, {"arming", "live"}) /\ \A pr : Watch(known, pr) => Watch(d, pr)
  <2>1. CASE Descends(known)
    <3>1. d = [known EXCEPT !.arming = TRUE]
      BY <1>9, <2>1
    <3>2. CoreTyped(d) /\ Keeps(known, d, {"arming"})
      BY <1>10, <3>1 DEF CoreTyped, CoreFields, Keeps
    <3>3. Keeps(known, d, CoreFields \ LagFields)
      BY <3>2 DEF Keeps, CoreFields, LagFields
    <3>4. /\ d.alive = known.alive /\ d.live = known.live /\ d.lag = known.lag /\ d.parked = known.parked
          /\ d.dying = known.dying /\ d.spawned = known.spawned /\ d.effects = known.effects
          /\ d.deadline = known.deadline /\ d.widen = known.widen /\ d.pending = known.pending
      BY <3>2 DEF Keeps, CoreFields
    <3>5. Lagging(d) /\ Armed(d)
      BY <1>10, <1>11, <3>4 DEF Lagging, Armed
    <3>6. Follows(known, d)
      BY <1>10, <3>2, <3>3, <3>5, Aside
    <3>7. Keeps(known, d, CoreFields \ {"alive", "spawned", "pending", "inc", "backend", "deadline"})
      BY <3>2 DEF Keeps, CoreFields
    <3>8. \A pr : Watch(known, pr) => Watch(d, pr)
      BY <3>4, <3>7, WatchKept
    <3>9. Keeps(known, d, {"arming", "live"})
      BY <3>2 DEF Keeps
    <3> QED BY <3>6, <3>8, <3>9
  <2>2. CASE ~Descends(known)
    <3>1. d = [known EXCEPT !.live = TRUE]
      BY <1>9, <2>2
    <3>2. CoreTyped(d) /\ Keeps(known, d, {"live"}) /\ d.live
      BY <1>10, <3>1 DEF CoreTyped, CoreFields, Keeps
    <3>3. Keeps(known, d, {"live", "arming", "report_owed"}) /\ Keeps(known, d, {"arming", "live"})
      BY <3>2 DEF Keeps
    <3> QED BY <1>10, <1>11, <3>2, <3>3, GoesLive
  <2> QED BY <2>1, <2>2
<1>13. Follows(c, known)
  BY <1>6, <1>8, FollowsTrans
<1>14. Follows(c, d)
  BY <1>12, <1>13, FollowsTrans
<1>15. Keeps(c, d, {"spawned", "backend", "refresh_stale", "pending", "effects", "arming", "live"})
  BY <1>2, <1>8, <1>12 DEF Keeps
<1>16. \A pr : Current(c, pr) => Current(a, pr)
  BY <1>3 DEF Current
<1> QED BY <1>8, <1>12, <1>14, <1>15, <1>16 DEF d

\* `on_watch_installed`
LEMMA InstalledFollows ==
    ASSUME NEW c, Sound(c), c.arming
    PROVE  /\ Follows(c, on_watch_installed(c))
           /\ Keeps(c, on_watch_installed(c), {"live", "arming", "report_owed"})
           /\ \A pr : Watch(c, pr) => Watch(on_watch_installed(c), pr)
<1> DEFINE d == on_watch_installed(c)
<1>1. CoreTyped(c) /\ c.alive /\ c.spawned
  BY SoundParts DEF Lagging
<1>2. CoreTyped(d) /\ Keeps(c, d, {"live", "arming", "report_owed"}) /\ d.live
  BY <1>1 DEF CoreTyped, CoreFields, Keeps, on_watch_installed
<1> HIDE DEF d
<1>3. Follows(c, d) /\ \A pr : Watch(c, pr) => Watch(d, pr)
  BY <1>1, <1>2, GoesLive
<1> QED BY <1>2, <1>3 DEF d

\* The root replaced by one at or above it; what was parked looks at all of it.
LEMMA Regrown ==
    ASSUME NEW c, Sound(c), c.alive, NEW root \in {Root, Wide}, StartsWith(c.root, root),
           NEW d, CoreTyped(d), d.root = root, d.widen = "none", d.pending = FALSE,
           Keeps(c, d, {"inc", "root", "pending", "refresh_stale", "widen", "authoritative", "parked"}),
           c.parked = None => d.parked = None,
           c.parked # None => d.parked # None,
           c.parked # None => d.parked = [c.parked EXCEPT !.loc = <<>>]
    PROVE  Follows(c, d)
<1>1. CoreTyped(c) /\ Lagging(c) /\ Ordered(c) /\ Armed(c) /\ c.epoch \in Nat
  BY SoundParts
<1>2. /\ d.alive = c.alive /\ d.live = c.live /\ d.lag = c.lag /\ d.arming = c.arming
      /\ d.dying = c.dying /\ d.spawned = c.spawned /\ d.effects = c.effects /\ d.epoch = c.epoch
      /\ d.deadline = c.deadline
  BY DEF Keeps, CoreFields
<1>3. c.parked # None => /\ d.parked.loc = <<>> /\ d.parked.rescan = c.parked.rescan
                         /\ d.parked.epoch = c.parked.epoch
  BY <1>1 DEF CoreTyped, Change
<1>4. Lagging(d)
  BY <1>1, <1>2, <1>3 DEF Lagging
<1>5. Armed(d) /\ Ordered(d)
  BY <1>1, <1>2, <1>3 DEF Armed, Ordered
<1>6. Sound(d)
  BY <1>4, <1>5 DEF Sound
<1>7. \A p : Waits(c, p) => Waits(d, p)
  BY <1>2 DEF Waits
<1>8. c.epoch <= d.epoch
  BY <1>1, <1>2
<1> QED BY <1>2, <1>6, <1>7, <1>8 DEF Follows

\* `on_root_replaced`
LEMMA ReplacedFollows ==
    ASSUME NEW c, Sound(c), c.live, NEW root \in {Root, Wide}, StartsWith(c.root, root)
    PROVE  /\ Follows(c, on_root_replaced(c, root))
           /\ Keeps(c, on_root_replaced(c, root),
                    {"inc", "root", "pending", "refresh_stale", "widen", "authoritative",
                     "effects", "epoch", "parked"})
           /\ on_root_replaced(c, root).root = root
           /\ \A p : StartsWith(p, root) => Waits(on_root_replaced(c, root), p)
           /\ \A pr : (\A f \in pr.flight : f.tag # pr.tag) => Watch(on_root_replaced(c, root), pr)
<1> DEFINE fresh == [c EXCEPT !.inc = @ + 1, !.root = root, !.pending = FALSE,
                              !.refresh_stale = FALSE, !.widen = "none", !.authoritative = FALSE]
           purged == Purge(fresh, "refresh")
           known == trust_lost(purged)
           d == on_root_replaced(c, root)
<1>1. CoreTyped(c) /\ Lagging(c) /\ Armed(c) /\ c.inc \in Nat /\ c.alive /\ c.spawned
  BY SoundParts DEF Lagging
<1>2. /\ CoreTyped(fresh) /\ fresh.root = root /\ fresh.widen = "none" /\ fresh.pending = FALSE
      /\ Keeps(c, fresh, {"inc", "root", "pending", "refresh_stale", "widen", "authoritative"})
  <2>1. c = [x \in CoreFields |-> c[x]] /\ c.inc + 1 \in Nat
    BY <1>1 DEF CoreTyped
  <2>2. /\ fresh = [x \in CoreFields |-> fresh[x]] /\ fresh.root = root /\ fresh.inc = c.inc + 1
        /\ fresh.widen = "none" /\ fresh.pending = FALSE
        /\ \A x \in CoreFields \ {"inc", "root", "pending", "refresh_stale", "widen", "authoritative"} :
              fresh[x] = c[x]
    BY <2>1 DEF CoreFields
  <2> HIDE DEF fresh
  <2>3. CoreTyped(fresh)
    BY <1>1, <2>1, <2>2 DEF CoreTyped, CoreFields
  <2> QED BY <2>2, <2>3 DEF Keeps
<1>3. d = on_overflow(known)
  BY DEF on_root_replaced
<1> HIDE DEF fresh, d
<1>4. Keeps(c, fresh, {"inc", "root", "pending", "refresh_stale", "widen", "authoritative", "parked"})
  BY <1>2 DEF Keeps
<1>5. fresh.parked = c.parked /\ fresh.spawned = c.spawned /\ fresh.alive = c.alive /\ fresh.live = c.live
  BY <1>2 DEF Keeps, CoreFields
<1>6. Follows(c, fresh)
  <2>1. c.parked # None => fresh.parked = [c.parked EXCEPT !.loc = <<>>]
    <3> SUFFICES ASSUME c.parked # None PROVE fresh.parked = [c.parked EXCEPT !.loc = <<>>]
      OBVIOUS
    <3>1. c.parked \in Change /\ c.parked.loc = <<>>
      BY <1>1 DEF CoreTyped, Lagging
    <3>2. [c.parked EXCEPT !.loc = <<>>] = c.parked
      BY <3>1 DEF Change
    <3> QED BY <1>5, <3>2
  <2> QED BY <1>1, <1>2, <1>4, <1>5, <2>1, Regrown
<1>7. Sound(fresh)
  BY <1>6 DEF Follows
<1>8. Follows(fresh, purged) /\ Keeps(fresh, purged, {"effects"})
  BY <1>7, PurgeRefresh
<1> HIDE DEF purged
<1>9. Sound(purged) /\ purged.spawned /\ ~purged.pending
  BY <1>1, <1>2, <1>5, <1>8 DEF Follows, Keeps, CoreFields
<1>10. /\ Follows(purged, known)
       /\ Keeps(purged, known, {"authoritative", "refresh_stale", "pending", "effects"})
       /\ \A pr : Current(purged, pr) => Watch(known, pr)
  BY <1>9, TrustFollows
<1> HIDE DEF known
<1>11. Sound(known) /\ known.alive /\ known.live /\ known.root = root
  BY <1>1, <1>2, <1>5, <1>8, <1>10 DEF Follows, Keeps, CoreFields
<1>12. /\ Follows(known, d) /\ Keeps(known, d, {"effects", "epoch", "parked"})
       /\ \A pr : Watch(known, pr) => Watch(d, pr)
       /\ \A p : StartsWith(p, root) => Waits(d, p)
  BY <1>3, <1>11, WholeRescan
<1>13. Follows(c, purged)
  BY <1>6, <1>8, FollowsTrans
<1>14. Follows(c, known)
  BY <1>10, <1>13, FollowsTrans
<1>15. Follows(c, d)
  BY <1>12, <1>14, FollowsTrans
<1>16. Keeps(c, d, {"inc", "root", "pending", "refresh_stale", "widen", "authoritative",
                    "effects", "epoch", "parked"})
  BY <1>2, <1>8, <1>10, <1>12 DEF Keeps
<1>17. d.root = root
  BY <1>11, <1>12 DEF Keeps, CoreFields
<1>18. \A pr : (\A f \in pr.flight : f.tag # pr.tag) => Watch(d, pr)
  BY <1>10, <1>12 DEF Current
<1> QED BY <1>12, <1>15, <1>16, <1>17, <1>18 DEF d

\* `on_root_widened`
LEMMA WidenedFollows ==
    ASSUME NEW c, Sound(c), c.live
    PROVE  /\ Follows(c, on_root_widened(c))
           /\ Keeps(c, on_root_widened(c),
                    {"inc", "root", "pending", "refresh_stale", "widen", "authoritative",
                     "parked", "effects", "deadline"})
           /\ on_root_widened(c).root = Wide
           /\ \A pr : (\A f \in pr.flight : f.tag # pr.tag) => Watch(on_root_widened(c), pr)
<1> DEFINE grown == [c EXCEPT !.inc = @ + 1, !.root = Wide, !.pending = FALSE,
                              !.refresh_stale = FALSE, !.widen = "none",
                              !.parked = IF @ = None THEN None ELSE [@ EXCEPT !.loc = <<>>]]
           purged == Purge(grown, "refresh")
           known == trust_lost(purged)
           d == on_root_widened(c)
<1>1. CoreTyped(c) /\ Lagging(c) /\ Armed(c) /\ c.inc \in Nat /\ c.alive /\ c.spawned
  BY SoundParts DEF Lagging
<1>2. /\ CoreTyped(grown) /\ grown.root = Wide /\ grown.widen = "none" /\ grown.pending = FALSE
      /\ Keeps(c, grown, {"inc", "root", "pending", "refresh_stale", "widen", "parked"})
      /\ c.parked = None => grown.parked = None
      /\ c.parked # None => grown.parked = [c.parked EXCEPT !.loc = <<>>]
      /\ c.parked # None => grown.parked # None
  <2>1. c = [x \in CoreFields |-> c[x]] /\ c.inc + 1 \in Nat
    BY <1>1 DEF CoreTyped
  <2>2. /\ grown = [x \in CoreFields |-> grown[x]] /\ grown.root = Wide /\ grown.inc = c.inc + 1
        /\ grown.widen = "none" /\ grown.pending = FALSE
        /\ grown.parked = IF c.parked = None THEN None ELSE [c.parked EXCEPT !.loc = <<>>]
        /\ \A x \in CoreFields \ {"inc", "root", "pending", "refresh_stale", "widen", "parked"} :
              grown[x] = c[x]
    BY <2>1 DEF CoreFields
  <2> HIDE DEF grown
  <2>3. c.parked # None => [c.parked EXCEPT !.loc = <<>>] \in Change
    <3>1. <<>> \in Seq(Names)
      OBVIOUS
    <3>2. c.parked # None => c.parked \in Change
      BY <1>1 DEF CoreTyped
    <3> QED BY <3>1, <3>2 DEF Change
  <2>4. \A w \in Change : w # None
    BY DEF Change, None
  <2>5. CoreTyped(grown)
    BY ZenonT(30), <1>1, <2>1, <2>2, <2>3 DEF CoreTyped, CoreFields
  <2> QED BY <2>2, <2>3, <2>4, <2>5 DEF Keeps
<1>3. d = arm_liveness(known)
  BY DEF on_root_widened
<1> HIDE DEF grown, d
<1>4. Keeps(c, grown, {"inc", "root", "pending", "refresh_stale", "widen", "authoritative", "parked"})
  BY <1>2 DEF Keeps
<1>5. grown.spawned = c.spawned /\ grown.alive = c.alive /\ grown.live = c.live
  BY <1>2 DEF Keeps, CoreFields
<1>6. Follows(c, grown)
  <2>1. StartsWith(c.root, Wide) /\ Wide \in {Root, Wide}
    BY <1>1, RootBelow DEF CoreTyped
  <2> QED BY <1>1, <1>2, <1>4, <2>1, Regrown
<1>7. Sound(grown)
  BY <1>6 DEF Follows
<1>8. Follows(grown, purged) /\ Keeps(grown, purged, {"effects"})
  BY <1>7, PurgeRefresh
<1> HIDE DEF purged
<1>9. Sound(purged) /\ purged.spawned /\ ~purged.pending
  BY <1>1, <1>2, <1>5, <1>8 DEF Follows, Keeps, CoreFields
<1>10. /\ Follows(purged, known)
       /\ Keeps(purged, known, {"authoritative", "refresh_stale", "pending", "effects"})
       /\ \A pr : Current(purged, pr) => Watch(known, pr)
  BY <1>9, TrustFollows
<1> HIDE DEF known
<1>11. Sound(known) /\ known.alive /\ known.live /\ known.root = Wide
  BY <1>1, <1>2, <1>5, <1>8, <1>10 DEF Follows, Keeps, CoreFields
<1>12. /\ Follows(known, d) /\ Keeps(known, d, {"deadline"})
       /\ \A pr : Watch(known, pr) => Watch(d, pr)
  BY <1>3, <1>11, TimedFollows
<1>13. Follows(c, purged)
  BY <1>6, <1>8, FollowsTrans
<1>14. Follows(c, known)
  BY <1>10, <1>13, FollowsTrans
<1>15. Follows(c, d)
  BY <1>12, <1>14, FollowsTrans
<1>16. Keeps(c, d, {"inc", "root", "pending", "refresh_stale", "widen", "authoritative",
                     "parked", "effects", "deadline"})
  BY <1>2, <1>8, <1>10, <1>12 DEF Keeps
<1>17. d.root = Wide
  BY <1>11, <1>12 DEF Keeps, CoreFields
<1>18. \A pr : (\A f \in pr.flight : f.tag # pr.tag) => Watch(d, pr)
  BY <1>10, <1>12 DEF Current
<1> QED BY <1>15, <1>16, <1>17, <1>18 DEF d

-----------------------------------------------------------------------------
(* The end of a scope.                                                     *)

\* `LastRescan` finds the last Rescan of the queue, if there is one.
LEMMA LastRescanFound ==
    ASSUME NEW c, c.effects \in Seq(Effect)
    PROVE  /\ LastRescan(c) = 0 => Rescans(c.effects) = {}
           /\ LastRescan(c) # 0 => /\ LastRescan(c) \in Rescans(c.effects)
                                   /\ \A j \in Rescans(c.effects) : j <= LastRescan(c)
<1> DEFINE at == Rescans(c.effects)
           m == CHOOSE i \in at : \A j \in at : j <= i
<1>1. DOMAIN c.effects = 1 .. Len(c.effects) /\ Len(c.effects) \in Nat
  OBVIOUS
<1>2. at \in SUBSET Nat /\ 0 \notin at
  BY <1>1 DEF Rescans
<1>3. IsFiniteSet(at)
  <2>1. IsFiniteSet(1 .. Len(c.effects)) /\ at \subseteq 1 .. Len(c.effects)
    BY <1>1, FS_Interval DEF Rescans
  <2> QED BY <2>1, FS_Subset
<1>4. LastRescan(c) = IF at = {} THEN 0 ELSE m
  BY DEF LastRescan, Rescans
<1> HIDE DEF at
<1>5. at # {} => m \in at /\ \A j \in at : j <= m
  <2> SUFFICES ASSUME at # {} PROVE m \in at /\ \A j \in at : j <= m
    OBVIOUS
  <2>1. \E i \in at : \A j \in at : j <= i
    BY <1>2, <1>3, Greatest
  <2> QED BY <2>1
<1> HIDE DEF m
<1> QED BY <1>2, <1>4, <1>5 DEF at

\* What a dead scope still owes: its last Rescan, wherever it was.
LEMMA TerminalOf ==
    ASSUME NEW c, Sound(c), c.alive, c.live
    PROVE  /\ terminal(c) # None =>
                 /\ terminal(c) = [x \in {"k", "root", "change", "attempt"} |-> terminal(c)[x]]
                 /\ terminal(c).root \in {Root, Wide} /\ terminal(c).change \in Change
                 /\ terminal(c).change.epoch = c.epoch /\ terminal(c).attempt = IdleAttempt
           /\ c.lag = "lagged" =>
                 terminal(c) # None /\ \A p : StartsWith(p, c.root \o <<>>) => Speaks(Emit(terminal(c).root, terminal(c).change), p)
           /\ c.lag = "normal" /\ LastRescan(c) # 0 =>
                 /\ terminal(c) # None
                 /\ Emit(terminal(c).root, terminal(c).change) = c.effects[LastRescan(c)]
<1> DEFINE i == LastRescan(c)
           queued == c.effects[i]
           t == terminal(c)
<1>1. /\ CoreTyped(c) /\ Lagging(c) /\ Ordered(c) /\ c.effects \in Seq(Effect)
      /\ c.epoch \in Nat /\ c.root \in {Root, Wide} /\ LastIs(c.effects, c.epoch)
  BY SoundParts
<1>2. /\ i = 0 => Rescans(c.effects) = {}
      /\ i # 0 => i \in Rescans(c.effects) /\ \A j \in Rescans(c.effects) : j <= i
  BY <1>1, LastRescanFound
<1>3. \A r, ch : Dying(r, ch) # None /\ Dying(r, ch).root = r /\ Dying(r, ch).change = ch
                 /\ Dying(r, ch).attempt = IdleAttempt
                 /\ Dying(r, ch) = [x \in {"k", "root", "change", "attempt"} |-> Dying(r, ch)[x]]
  BY DEF Dying, None
<1>4. Rescans(c.effects) \subseteq Emits(c.effects)
  BY DEF Emits, Rescans, IsEmit, IsRescanEmit
<1>5. CASE c.lag = "lagged"
  <2>1. i = 0 /\ c.parked # None /\ c.parked \in Change /\ c.parked.loc = <<>> /\ c.parked.rescan
    BY <1>1, <1>2, <1>4, <1>5 DEF Lagging, CoreTyped
  <2>2. t = Dying(c.root, c.parked)
    BY <2>1 DEF terminal
  <2>3. c.parked.epoch = c.epoch
    BY <1>1, <2>1 DEF Ordered
  <2>4. \A p : StartsWith(p, c.root \o <<>>) => Speaks(Emit(c.root, c.parked), p)
    BY <2>1 DEF Speaks, Emit
  <2> HIDE DEF t, i
  <2> QED BY <1>1, <1>3, <1>5, <2>1, <2>2, <2>3, <2>4 DEF t
<1>6. CASE c.lag = "normal" /\ i # 0
  <2>1. c.parked = None
    BY <1>1, <1>6 DEF Lagging
  <2>2. t = Dying(queued.root, queued.change)
    BY <1>6, <2>1 DEF terminal
  <2>3. i \in Rescans(c.effects) /\ i \in DOMAIN c.effects /\ IsRescanEmit(queued)
    BY <1>2, <1>6 DEF Rescans
  <2>4. queued \in Effect
    BY <1>1, <2>3
  <2>5. /\ queued.root \in {Root, Wide} /\ queued.change \in Change
        /\ queued = Emit(queued.root, queued.change)
    <3> HIDE DEF queued
    <3> QED BY <2>3, <2>4, Effects1
  <2>6. queued.change.epoch = c.epoch
    BY <1>1, <1>2, <1>6 DEF LastIs
  <2> HIDE DEF t, i, queued
  <2>7. t # None /\ t.root = queued.root /\ t.change = queued.change /\ t.attempt = IdleAttempt
        /\ t = [x \in {"k", "root", "change", "attempt"} |-> t[x]]
    BY <1>3, <2>2
  <2> QED BY <1>6, <2>5, <2>6, <2>7 DEF t, i, queued
<1>7. CASE c.lag = "normal" /\ i = 0
  <2>1. c.parked = None
    BY <1>1, <1>7 DEF Lagging
  <2>2. t = None
    BY <1>7, <2>1 DEF terminal
  <2> QED BY <1>7, <2>2
<1>8. c.lag \in {"normal", "lagged"}
  BY <1>1 DEF Lagging
<1> QED BY <1>5, <1>6, <1>7, <1>8

\* The end of a scope keeps what it owes and emits nothing else.
LEMMA ScopeEnds ==
    ASSUME NEW c, Sound(c), c.alive
    PROVE  /\ Sound(end_scope(c)) /\ ~end_scope(c).alive /\ ~end_scope(c).live
           /\ end_scope(c).epoch = c.epoch /\ end_scope(c).root = c.root
           /\ end_scope(c).dying # None => end_scope(c).dying.attempt = IdleAttempt
           /\ end_scope(c).dying = IF c.live THEN terminal(c) ELSE None
           /\ \A j \in Emits(end_scope(c).effects) :
                 \E i \in Emits(c.effects) : end_scope(c).effects[j] = c.effects[i]
<1> DEFINE q == c.effects
           I == DOMAIN q \ {LastRescan(c)}
           r == Kept(q, I)
           e == [k |-> "teardown"]
           d == end_scope(c)
           t == IF c.live THEN terminal(c) ELSE None
<1>1. /\ CoreTyped(c) /\ Lagging(c) /\ Ordered(c) /\ Armed(c) /\ c.effects \in Seq(Effect)
      /\ c.epoch \in Nat /\ c.root \in {Root, Wide}
      /\ InOrder(c.effects, c.epoch)
  BY SoundParts
<1>2. I \in SUBSET DOMAIN q /\ q \in Seq(Effect)
  BY <1>1
<1>3. /\ r \in Seq(Effect)
      /\ \E f \in [DOMAIN r -> I] :
            /\ \A n \in DOMAIN r : r[n] = q[f[n]]
            /\ \A m, n \in DOMAIN r : m < n => f[m] < f[n]
            /\ \A i \in I : \E n \in DOMAIN r : f[n] = i
  <2> HIDE DEF q, I
  <2> QED BY <1>2, Left
<1>4. e \in Effect /\ ~IsEmit(e)
  BY DEF Effect, IsEmit
<1>5. /\ t # None => /\ t = [x \in {"k", "root", "change", "attempt"} |-> t[x]]
                     /\ t.root \in {Root, Wide} /\ t.change \in Change
                     /\ t.change.epoch = c.epoch /\ t.attempt = IdleAttempt
  BY TerminalOf
<1> HIDE DEF I, r, e, t
<1>6. Append(r, e) \in Seq(Effect)
  BY <1>3, <1>4
<1>7. /\ CoreTyped(d) /\ d.effects = Append(r, e) /\ d.alive = FALSE /\ d.live = FALSE
      /\ d.lag = "normal" /\ d.parked = None /\ d.pending = FALSE /\ d.deadline = FALSE
      /\ d.widen = "none" /\ d.arming = FALSE /\ d.dying = t
      /\ d.epoch = c.epoch /\ d.root = c.root
  <2>1. c = [x \in CoreFields |-> c[x]]
    BY <1>1 DEF CoreTyped
  <2>2. d = [c EXCEPT !.alive = FALSE, !.live = FALSE, !.spawned = FALSE, !.lag = "normal",
              !.parked = None, !.attempt = IdleAttempt, !.pending = FALSE,
              !.refresh_stale = FALSE, !.authoritative = FALSE, !.recovered = FALSE,
              !.report_owed = FALSE, !.deadline = FALSE, !.widen = "none", !.arming = FALSE,
              !.backend = "none", !.dying = t, !.effects = Append(r, e)]
    BY <2>1 DEF end_scope, CoreFields, t, r, e, I
  <2> HIDE DEF d
  <2>3. /\ d = [x \in CoreFields |-> d[x]] /\ d.effects = Append(r, e) /\ d.alive = FALSE
        /\ d.live = FALSE
        /\ d.lag = "normal" /\ d.parked = None /\ d.pending = FALSE /\ d.deadline = FALSE
        /\ d.widen = "none" /\ d.arming = FALSE /\ d.dying = t
        /\ d.epoch = c.epoch /\ d.root = c.root /\ d.inc = c.inc
    <3>1. /\ d = [x \in CoreFields |-> d[x]]
          /\ \A x \in CoreFields \ {"alive", "live", "spawned", "lag", "parked", "attempt", "pending",
                                    "refresh_stale", "authoritative", "recovered", "report_owed",
                                    "deadline", "widen", "arming", "backend", "dying", "effects"} :
                d[x] = c[x]
      BY <2>1, <2>2
    <3>2. /\ d.effects = Append(r, e) /\ d.alive = FALSE /\ d.live = FALSE
          /\ d.lag = "normal" /\ d.parked = None /\ d.pending = FALSE /\ d.deadline = FALSE
          /\ d.widen = "none" /\ d.arming = FALSE /\ d.dying = t
      BY <2>1, <2>2 DEF CoreFields
    <3> QED BY <3>1, <3>2 DEF CoreFields
  <2>4. CoreTyped(d)
    BY <1>1, <1>5, <1>6, <2>3 DEF CoreTyped
  <2> QED BY <2>3, <2>4
<1> HIDE DEF d
<1>8. PICK f \in [DOMAIN r -> I] :
            /\ \A n \in DOMAIN r : r[n] = q[f[n]]
            /\ \A m, n \in DOMAIN r : m < n => f[m] < f[n]
            /\ \A i \in I : \E n \in DOMAIN r : f[n] = i
  BY <1>3
<1>9. InOrder(r, c.epoch) /\ \A n \in Emits(r) : f[n] \in Emits(q) /\ r[n] = q[f[n]]
  <2> DEFINE n == c.epoch
  <2>1. f \in [DOMAIN r -> DOMAIN q] /\ n \in Nat /\ InOrder(q, n)
    BY <1>1, <1>2, <1>8
  <2> HIDE DEF n, q
  <2>2. /\ \A i \in Emits(r) : f[i] \in Emits(q)
        /\ InOrder(q, n) => InOrder(r, n)
    <3>1. /\ \A i \in DOMAIN r : r[i] = q[f[i]]
          /\ \A i, j \in DOMAIN r : i < j => f[i] < f[j]
      BY <1>8
    <3> QED BY <1>2, <1>3, <2>1, <3>1, Thinned
  <2>3. Emits(r) \subseteq DOMAIN r
    BY DEF Emits
  <2> QED BY <1>8, <2>1, <2>2, <2>3 DEF n
<1>10. /\ Emits(d.effects) = Emits(r) /\ \A n \in Emits(r) : d.effects[n] = r[n]
       /\ InOrder(d.effects, c.epoch)
  <2>1. /\ Emits(Append(r, e)) = Emits(r)
        /\ \A i \in Emits(r) : Append(r, e)[i] = r[i]
        /\ InOrder(r, c.epoch) => InOrder(Append(r, e), c.epoch)
    <3> DEFINE n == c.epoch
    <3>1. r \in Seq(Effect) /\ n \in Nat /\ e \in Effect /\ ~IsEmit(e)
      BY <1>1, <1>3, <1>4
    <3> HIDE DEF n
    <3>2. /\ Emits(Append(r, e)) = Emits(r)
          /\ \A i \in Emits(r) : Append(r, e)[i] = r[i]
          /\ InOrder(r, n) => InOrder(Append(r, e), n)
      BY <3>1, PushedOther
    <3> QED BY <3>2 DEF n
  <2> QED BY <1>7, <1>9, <2>1
<1>11. Ordered(d)
  <2>1. (d.parked # None => d.parked.epoch = d.epoch) /\ (d.dying # None => d.dying.change.epoch = d.epoch)
    BY <1>5, <1>7
  <2>2. InOrder(d.effects, d.epoch) /\ (d.alive => LastIs(d.effects, d.epoch))
    BY <1>7, <1>10
  <2> QED BY <2>1, <2>2, OrderedParts
<1>12. Lagging(d) /\ Armed(d)
  BY <1>7 DEF Lagging, Armed
<1>13. Sound(d)
  BY <1>7, <1>11, <1>12 DEF Sound
<1>14. \A j \in Emits(d.effects) : \E i \in Emits(q) : d.effects[j] = q[i]
  BY <1>9, <1>10
<1>15. d.dying # None => d.dying.attempt = IdleAttempt
  BY <1>5, <1>7
<1> QED BY <1>7, <1>13, <1>14, <1>15 DEF d, t

\* The root is gone: whatever the reader has not been told lies below the last
\* Rescan, which waits for the reader.
LEMMA DiesFollows ==
    ASSUME NEW c, Sound(c), c.alive, NEW removed
    PROVE  /\ Follows(c, root_dies(c, removed)) /\ ~root_dies(c, removed).alive
           /\ root_dies(c, removed).dying # None => root_dies(c, removed).dying.attempt = IdleAttempt
           /\ c.live => \A p : StartsWith(p, c.root) => Waits(root_dies(c, removed), p)
           /\ \A pr : Watch(root_dies(c, removed), pr)
<1> DEFINE a == IF removed THEN emit(c, <<>>) ELSE c
           b == emit_rescan(a, <<>>)
           d == end_scope(b)
           ch == [loc |-> <<>>, rescan |-> TRUE, epoch |-> a.epoch + 1]
           e == Emit(a.root, ch)
<1>1. root_dies(c, removed) = d
  BY DEF root_dies
<1>2. c.root \in Seq(Names) /\ <<>> \in Seq(Names)
  BY SoundParts
<1>3. Follows(c, a) /\ Keeps(c, a, {"effects"})
  BY <1>2, EmitFollows, FollowsSelf DEF Keeps
<1>4. Sound(a) /\ a.alive /\ a.live = c.live /\ a.root = c.root
  BY <1>3 DEF Follows, Keeps, CoreFields
<1> HIDE DEF a
<1>5. /\ Follows(a, b) /\ Keeps(a, b, {"effects", "epoch", "parked"})
      /\ a.live /\ a.lag = "normal" => b.effects = Append(a.effects, e)
  BY <1>2, <1>4, RescanFollows
<1> HIDE DEF b
<1>6. /\ Sound(b) /\ b.alive /\ b.live = c.live /\ b.root = c.root /\ b.lag = a.lag
  BY <1>4, <1>5 DEF Follows, Keeps, CoreFields
<1>7. /\ Sound(d) /\ ~d.alive /\ ~d.live
      /\ d.epoch = b.epoch /\ d.root = b.root
      /\ d.dying # None => d.dying.attempt = IdleAttempt
      /\ d.dying = IF b.live THEN terminal(b) ELSE None
      /\ \A j \in Emits(d.effects) : \E i \in Emits(b.effects) : d.effects[j] = b.effects[i]
  BY <1>6, ScopeEnds
<1> HIDE DEF d
<1>8. c.root \o <<>> = c.root
  BY <1>2
<1>9. ASSUME c.live, NEW p, StartsWith(p, c.root)
      PROVE  Waits(d, p)
  <2>1. terminal(b) # None /\ Speaks(Emit(terminal(b).root, terminal(b).change), p)
    <3>1. CASE b.lag = "lagged"
      <4>1. StartsWith(p, b.root \o <<>>)
        BY <1>6, <1>8, <1>9
      <4> QED BY <1>6, <1>9, <3>1, <4>1, TerminalOf
    <3>2. CASE b.lag = "normal"
      <4>1. b.effects = Append(a.effects, e)
        BY <1>4, <1>5, <1>6, <1>9, <3>2
      <4>2. a.effects \in Seq(Effect) /\ a.epoch \in Nat /\ a.root \in {Root, Wide}
        BY <1>4, SoundParts
      <4>3. ch \in Change
        BY <4>2 DEF Change
      <4>4. e \in Effect /\ IsRescanEmit(e) /\ e.root = c.root /\ e.change = ch
        BY <1>4, <4>2, <4>3, Emitted
      <4>5. Speaks(e, p)
        <5>1. ch.rescan /\ ch.loc = <<>>
          OBVIOUS
        <5> HIDE DEF ch, e
        <5>2. e.root \o e.change.loc = c.root /\ e.change.rescan
          BY <1>8, <4>4, <5>1
        <5> QED BY <1>9, <5>2 DEF Speaks
      <4> HIDE DEF ch, e
      <4>6. /\ Rescans(b.effects) = Rescans(a.effects) \cup {Len(a.effects) + 1}
            /\ \A i \in DOMAIN a.effects : i < Len(a.effects) + 1
            /\ b.effects[Len(a.effects) + 1] = e /\ Len(a.effects) \in Nat
        BY <4>1, <4>2, <4>4, Pushed
      <4>7. \A i \in Rescans(a.effects) : i < Len(a.effects) + 1
        BY <4>6 DEF Rescans
      <4>8. b.effects \in Seq(Effect)
        BY <1>6, SoundParts
      <4>9. /\ LastRescan(b) # 0 /\ LastRescan(b) \in Rescans(b.effects)
            /\ \A j \in Rescans(b.effects) : j <= LastRescan(b)
        BY <4>6, <4>8, LastRescanFound
      <4>10. \A j \in Rescans(b.effects) : j \in Nat
        BY <4>8 DEF Rescans
      <4>11. LastRescan(b) = Len(a.effects) + 1
        <5> DEFINE n == LastRescan(b)
                   m == Len(a.effects) + 1
        <5>1. m \in Rescans(b.effects) /\ n \in Rescans(b.effects) /\ m <= n /\ m \in Nat /\ n \in Nat
          BY <4>6, <4>9, <4>10
        <5>2. n \in Rescans(a.effects) \/ n = m
          BY <4>6, <5>1
        <5>3. n \in Rescans(a.effects) => n < m
          BY <4>7
        <5> HIDE DEF n, m
        <5>4. n = m
          BY <5>1, <5>2, <5>3
        <5> QED BY <5>4 DEF n, m
      <4>12. /\ terminal(b) # None
             /\ Emit(terminal(b).root, terminal(b).change) = b.effects[LastRescan(b)]
        BY <1>6, <1>9, <3>2, <4>9, TerminalOf
      <4> QED BY <4>5, <4>6, <4>11, <4>12
    <3>3. b.lag \in {"normal", "lagged"}
      BY <1>6, SoundParts DEF Lagging
    <3> QED BY <3>1, <3>2, <3>3
  <2> QED BY <1>6, <1>7, <1>9, <2>1 DEF Waits
<1>10. Follows(b, d)
  <2>1. b.epoch \in Nat /\ b.root \in {Root, Wide}
    BY <1>6, SoundParts
  <2>2. b.epoch <= d.epoch /\ StartsWith(b.root, d.root)
    BY <1>7, <2>1, RootBelow
  <2>3. ASSUME NEW p \in Known, StartsWith(p, b.root), Waits(b, p) PROVE Waits(d, p)
    <3>1. CASE c.live
      BY <1>6, <1>9, <2>3, <3>1
    <3>2. CASE ~c.live
      <4>1. Lagging(b)
        BY <1>6, SoundParts
      <4> QED BY <1>6, <2>3, <3>2, <4>1 DEF Lagging, Waits
    <3> QED BY <3>1, <3>2
  <2> QED BY <1>7, <2>2, <2>3 DEF Follows
<1>11. Follows(c, b)
  BY <1>3, <1>5, FollowsTrans
<1>12. Follows(c, d)
  BY <1>10, <1>11, FollowsTrans
<1>13. \A pr : Watch(d, pr)
  BY <1>7 DEF Watch
<1> QED BY <1>1, <1>7, <1>9, <1>12, <1>13

\* `on_mounts_refreshed`
LEMMA RefreshedFollows ==
    ASSUME NEW c, Sound(c), NEW verdict \in Verdicts
    PROVE  /\ Follows(c, on_mounts_refreshed(c, verdict))
           /\ \/ on_mounts_refreshed(c, verdict).dying = c.dying
              \/ on_mounts_refreshed(c, verdict).dying # None =>
                    on_mounts_refreshed(c, verdict).dying.attempt = IdleAttempt
           /\ \A pr : Current(c, pr) => Watch(on_mounts_refreshed(c, verdict), pr)
           /\ c.live /\ (verdict \in Deaths \/ Reframes(c, verdict)) =>
                 \A p : StartsWith(p, c.root) => Waits(on_mounts_refreshed(c, verdict), p)
<1> DEFINE heard == [c EXCEPT !.recovered = FALSE, !.pending = FALSE]
           timed == arm_liveness(heard)
           settled == [timed EXCEPT !.authoritative = verdict # "partial"]
           fresh == [heard EXCEPT !.refresh_stale = FALSE]
           d == on_mounts_refreshed(c, verdict)
<1>1. CoreTyped(c) /\ Lagging(c)
  BY SoundParts
<1>2. CASE ~c.alive
  <2>1. d = c
    BY <1>2 DEF on_mounts_refreshed
  <2>2. \A pr : Watch(c, pr)
    BY <1>2 DEF Watch
  <2>3. ~c.live
    BY <1>1, <1>2 DEF Lagging
  <2> QED BY <2>1, <2>2, <2>3, FollowsSelf
<1>3. CASE c.alive
  <2>1. CoreTyped(heard) /\ Keeps(c, heard, {"recovered", "pending"}) /\ heard.pending = FALSE
    BY <1>1 DEF CoreTyped, CoreFields, Keeps
  <2>2. d = IF verdict \in Deaths THEN root_dies(heard, verdict = "missing")
            ELSE IF c.refresh_stale THEN trust_lost(fresh)
            ELSE IF Reframes(c, verdict) THEN on_overflow(settled)
            ELSE settled
    BY <1>3 DEF on_mounts_refreshed
  <2> HIDE DEF heard, d
  <2>3. Keeps(c, heard, {"pending", "recovered", "refresh_stale", "authoritative"})
    BY <2>1 DEF Keeps
  <2>4. Follows(c, heard) /\ \A pr : Current(c, pr) => Current(heard, pr)
    BY <2>1, <2>3, Answered
  <2>5. /\ Sound(heard) /\ heard.alive /\ heard.live = c.live /\ heard.root = c.root
        /\ heard.dying = c.dying
    BY <1>3, <2>1, <2>4 DEF Follows, Keeps, CoreFields
  <2>6. CASE verdict \in Deaths
    <3>1. d = root_dies(heard, verdict = "missing")
      BY <2>2, <2>6
    <3>2. /\ Follows(heard, d) /\ ~d.alive
          /\ d.dying # None => d.dying.attempt = IdleAttempt
          /\ heard.live => \A p : StartsWith(p, heard.root) => Waits(d, p)
          /\ \A pr : Watch(d, pr)
      BY <2>5, <3>1, DiesFollows
    <3>3. Follows(c, d)
      BY <2>4, <3>2, FollowsTrans
    <3> QED BY <2>5, <3>2, <3>3 DEF d
  <2>7. CASE verdict \notin Deaths /\ c.refresh_stale
    <3>1. d = trust_lost(fresh)
      BY <2>2, <2>7
    <3>2. CoreTyped(fresh) /\ Keeps(heard, fresh, {"refresh_stale"})
      BY <2>1 DEF CoreTyped, CoreFields, Keeps
    <3> HIDE DEF fresh
    <3>3. fresh.pending = FALSE
      BY <2>1, <3>2 DEF Keeps, CoreFields
    <3>4. Keeps(heard, fresh, {"pending", "recovered", "refresh_stale", "authoritative"})
      BY <3>2 DEF Keeps
    <3>5. Follows(heard, fresh) /\ \A pr : Current(heard, pr) => Current(fresh, pr)
      BY <2>5, <3>2, <3>3, <3>4, Answered
    <3>6. Sound(fresh) /\ fresh.alive
      BY <2>5, <3>2, <3>5 DEF Follows, Keeps, CoreFields
    <3>7. /\ Follows(fresh, d)
          /\ Keeps(fresh, d, {"authoritative", "refresh_stale", "pending", "effects"})
          /\ \A pr : Watch(fresh, pr) => Watch(d, pr)
          /\ fresh.spawned => \A pr : Current(fresh, pr) => Watch(d, pr)
      BY <3>1, <3>3, <3>6, TrustFollows
    <3>8. ~fresh.spawned => \A pr : Current(fresh, pr) => Watch(fresh, pr)
      BY DEF Watch, Current
    <3>9. d.dying = c.dying
      BY <2>5, <3>2, <3>7 DEF Keeps, CoreFields
    <3>10. Follows(c, fresh)
      BY <2>4, <3>5, FollowsTrans
    <3>11. Follows(c, d)
      BY <3>7, <3>10, FollowsTrans
    <3>12. ~Reframes(c, verdict)
      BY <2>7 DEF Reframes
    <3> QED BY <2>4, <2>7, <3>5, <3>7, <3>8, <3>9, <3>11, <3>12 DEF d
  <2>8. CASE verdict \notin Deaths /\ ~c.refresh_stale
    <3>1. /\ Follows(heard, timed) /\ Keeps(heard, timed, {"deadline"})
          /\ \A pr : Current(heard, pr) => Watch(timed, pr)
      BY <2>1, <2>5, TimedFollows
    <3>2. d \in {on_overflow(settled), settled} /\ (Reframes(c, verdict) => d = on_overflow(settled))
      BY <2>2, <2>8
    <3> HIDE DEF timed
    <3>3. Sound(timed) /\ CoreTyped(timed) /\ Lagging(timed)
      BY <3>1, SoundParts DEF Follows
    <3>4. CoreTyped(settled) /\ Keeps(timed, settled, {"authoritative"})
      BY <3>3 DEF CoreTyped, CoreFields, Keeps
    <3> HIDE DEF settled
    <3>5. settled.widen # "none" => timed.live
      BY <3>3, <3>4 DEF Keeps, CoreFields, Lagging
    <3>6. Keeps(timed, settled, {"attempt", "refresh_stale", "authoritative", "recovered", "report_owed", "widen"})
      BY <3>4 DEF Keeps
    <3>7. Follows(timed, settled) /\ \A pr : Watch(timed, pr) => Watch(settled, pr)
      BY <3>3, <3>4, <3>5, <3>6, Idle
    <3>8. /\ Sound(settled) /\ settled.alive /\ settled.live = c.live /\ settled.root = c.root
          /\ settled.dying = c.dying
      BY <2>5, <3>1, <3>4, <3>7 DEF Follows, Keeps, CoreFields
    <3>9. /\ Follows(settled, on_overflow(settled))
          /\ Keeps(settled, on_overflow(settled), {"effects", "epoch", "parked"})
          /\ \A pr : Watch(settled, pr) => Watch(on_overflow(settled), pr)
          /\ settled.live => \A p : StartsWith(p, settled.root) => Waits(on_overflow(settled), p)
      BY <3>8, WholeRescan
    <3>10. Follows(c, timed)
      BY <2>4, <3>1, FollowsTrans
    <3>11. Follows(c, settled)
      BY <3>7, <3>10, FollowsTrans
    <3>12. Follows(c, on_overflow(settled))
      BY <3>9, <3>11, FollowsTrans
    <3>13. on_overflow(settled).dying = c.dying
      BY <3>8, <3>9 DEF Keeps, CoreFields
    <3>14. Follows(c, d) /\ d.dying = c.dying
      BY <3>2, <3>8, <3>11, <3>12, <3>13
    <3>15. \A pr : Current(c, pr) => Watch(d, pr)
      BY <2>4, <3>1, <3>2, <3>7, <3>9
    <3>16. c.live /\ (verdict \in Deaths \/ Reframes(c, verdict)) =>
              \A p : StartsWith(p, c.root) => Waits(d, p)
      BY <2>8, <3>2, <3>8, <3>9
    <3> QED BY <3>14, <3>15, <3>16 DEF d
  <2> QED BY <2>6, <2>7, <2>8
<1> QED BY <1>2, <1>3

-----------------------------------------------------------------------------
(* The steps of the driver and of the reader.                              *)

\* ProbesSound is what Watch says of the core and the probes there are.
LEMMA WatchIsSound == ProbesSound <=> Watch(core, probes)
BY DEF ProbesSound, LivenessKept, VerdictIsCurrent, Watch, ToSet, IsRefresh

\* The invariant, said of the core.
LEMMA Invariant ==
    ASSUME IInv
    PROVE  /\ Sound(core) /\ Watch(core, probes) /\ RestTyped /\ OwedBelow /\ Carried
           /\ Settled /\ EpochsInOrder
           /\ CoreTyped(core) /\ Lagging(core) /\ core.effects \in Seq(Effect) /\ core.epoch \in Nat
           /\ core.root \in {Root, Wide}
BY WatchIsSound, SoundParts DEF IInv

\* The probes keep their shape.
ProbesTyped(pr) ==
    /\ pr = [x \in {"tag", "flight"} |-> pr[x]]
    /\ pr.tag \in Nat /\ \A f \in pr.flight : f.tag \in Nat /\ f.tag <= pr.tag

\* A new generation: no probe in flight is of it.
LEMMA Retired ==
    ASSUME NEW pr, ProbesTyped(pr)
    PROVE  /\ ProbesTyped(retire_generation(pr))
           /\ \A f \in retire_generation(pr).flight : f.tag # retire_generation(pr).tag
<1> DEFINE a == [pr EXCEPT !.tag = @ + 1]
           d == forget_settled(a)
<1>1. ProbesTyped(a) /\ a.flight = pr.flight /\ a.tag = pr.tag + 1
  BY DEF ProbesTyped
<1>2. \A f \in a.flight : f.tag # a.tag
  BY <1>1 DEF ProbesTyped
<1>3. retire_generation(pr) = d
  BY DEF retire_generation
<1> HIDE DEF a
<1>4. CASE a.flight # {}
  BY <1>1, <1>2, <1>3, <1>4 DEF forget_settled
<1>5. CASE a.flight = {}
  <2>1. d = [a EXCEPT !.tag = 0]
    BY <1>5 DEF forget_settled
  <2>2. d.flight = {} /\ ProbesTyped(d)
    BY <1>1, <1>5, <2>1 DEF ProbesTyped
  <2> QED BY <1>3, <2>2
<1> QED BY <1>4, <1>5

\* The epochs stay in order when the core moves on.
LEMMA OrderKept ==
    ASSUME IInv, Moves(core, core'), events' = events, told' = told
    PROVE  EpochsInOrder'
<1>1. EpochsInOrder /\ RestTyped /\ core.epoch \in Nat
  BY Invariant
<1>2. /\ Sound(core') /\ core.epoch <= core'.epoch
      /\ \A j \in Emits(core'.effects) :
            \/ core.epoch <= core'.effects[j].change.epoch
            \/ \E i \in Emits(core.effects) : core'.effects[j] = core.effects[i]
  BY DEF Moves
<1>3. core'.effects \in Seq(Effect) /\ core'.epoch \in Nat
  BY <1>2, SoundParts
<1>4. \A i \in DOMAIN events : events[i].change.epoch \in Nat
  <2>1. \A i \in DOMAIN events : events[i] \in Emission
    BY <1>1 DEF RestTyped
  <2> QED BY <2>1 DEF Emission, Change
<1>5. \A j \in Emits(core'.effects) : core'.effects[j].change.epoch \in Nat
  BY <1>3, Effects1 DEF Emits
<1>6. told \in Nat
  BY <1>1 DEF RestTyped
<1>7. \A i \in DOMAIN events : told <= events[i].change.epoch /\ events[i].change.epoch <= core'.epoch
  BY <1>1, <1>2, <1>3, <1>4 DEF EpochsInOrder
<1>8. \A i \in DOMAIN events, j \in Emits(core'.effects) :
         events[i].change.epoch <= core'.effects[j].change.epoch
  BY <1>1, <1>2, <1>4, <1>5 DEF EpochsInOrder
<1>9. \A j \in Emits(core'.effects) : told <= core'.effects[j].change.epoch
  BY <1>1, <1>2, <1>5, <1>6 DEF EpochsInOrder
<1>10. told <= core'.epoch
  BY <1>1, <1>2, <1>3, <1>6 DEF EpochsInOrder
<1> QED BY <1>1, <1>7, <1>8, <1>9, <1>10 DEF EpochsInOrder

\* The core moves on, and what the reader is owed waits there as before.
LEMMA CoreStep ==
    ASSUME IInv, Follows(core, core'), Watch(core', probes'), ProbesTyped(probes'),
           events' = events, wanted' = wanted, open' = open, told' = told,
           Settled',
           \/ stale' = stale
           \/ /\ core.live /\ wanted
              /\ \E q \in Known : /\ stale' = stale \cup {q}
                                  /\ StartsWith(q, core'.root) /\ Waits(core', q)
    PROVE  IInv'
<1>1. /\ Sound(core) /\ RestTyped /\ OwedBelow /\ Carried
      /\ Settled /\ EpochsInOrder
      /\ CoreTyped(core) /\ core.effects \in Seq(Effect) /\ core.epoch \in Nat
  BY Invariant
<1>2. /\ Sound(core') /\ core.epoch <= core'.epoch /\ StartsWith(core.root, core'.root)
      /\ core'.alive => core.alive
      /\ core'.alive /\ ~core'.live => ~core.live
      /\ \A j \in Emits(core'.effects) :
            \/ core.epoch <= core'.effects[j].change.epoch
            \/ \E i \in Emits(core.effects) : core'.effects[j] = core.effects[i]
      /\ \A p \in Known : StartsWith(p, core.root) /\ Waits(core, p) => Waits(core', p)
  BY DEF Follows
<1>3. core'.effects \in Seq(Effect) /\ core'.epoch \in Nat /\ core'.root \in Seq(Names) /\ core.root \in Seq(Names)
  BY <1>1, <1>2, SoundParts
<1>4. stale' \subseteq Known /\ (wanted => stale \subseteq stale') /\ (~wanted => stale' = {})
  BY <1>1 DEF RestTyped, OwedBelow
<1>5. RestTyped'
  BY <1>1, <1>4 DEF RestTyped, ProbesTyped
<1>6. OwedBelow'
  <2>1. ASSUME NEW p \in stale' PROVE StartsWith(p, core'.root)
    <3>1. CASE p \in stale
      <4>1. StartsWith(p, core.root) /\ p \in Seq(Names)
        BY <1>1, <1>2, <2>1, <3>1, KnownPaths DEF OwedBelow, RestTyped
      <4> QED BY <1>2, <1>3, <4>1, PrefixTrans
    <3>2. CASE p \notin stale
      BY <2>1, <3>2
    <3> QED BY <3>1, <3>2
  <2>2. core'.alive /\ ~core'.live => stale' = {}
    <3> SUFFICES ASSUME core'.alive, ~core'.live PROVE stale' = {}
      OBVIOUS
    <3>1. ~core.live /\ core.alive
      BY <1>2
    <3> QED BY <1>1, <3>1 DEF OwedBelow
  <2> QED BY <1>1, <1>4, <2>1, <2>2 DEF OwedBelow
<1>7. Carried'
  <2> SUFFICES ASSUME NEW p \in stale'
               PROVE  Waits(core', p) \/ \E i \in DOMAIN events : Speaks(events[i], p)
    BY DEF Carried
  <2>1. CASE p \in stale
    <3>1. p \in Known /\ StartsWith(p, core.root)
      BY <1>1, <2>1 DEF RestTyped, OwedBelow
    <3>2. Waits(core, p) => Waits(core', p)
      BY <1>2, <3>1
    <3> QED BY <1>1, <2>1, <3>2 DEF Carried
  <2>2. CASE p \notin stale
    BY <2>2
  <2> QED BY <2>1, <2>2
<1>8. Settled'
  OBVIOUS
<1>9. EpochsInOrder'
  BY <1>2, OrderKept DEF Moves
<1>10. ProbesSound'
  BY DEF ProbesSound, LivenessKept, VerdictIsCurrent, Watch, ToSet, IsRefresh
<1> QED BY <1>2, <1>5, <1>6, <1>7, <1>8, <1>9, <1>10 DEF IInv

\* An arm of the select, or an effect that emits nothing.
LEMMA ArmStep ==
    ASSUME IInv, Follows(core, core'), Watch(core', probes'), ProbesTyped(probes'),
           events' = events, wanted' = wanted, open' = open, told' = told,
           \/ core'.dying = core.dying
           \/ core'.dying # None => core'.dying.attempt = IdleAttempt,
           \/ stale' = stale
           \/ /\ core.live /\ wanted
              /\ \E q \in Known : /\ stale' = stale \cup {q}
                                  /\ StartsWith(q, core'.root) /\ Waits(core', q)
    PROVE  IInv'
<1>1. Settled
  BY Invariant
<1>2. Settled'
  BY <1>1 DEF Settled, IdleAttempt
<1> QED BY <1>2, CoreStep

\* An arm after which the reader may be owed one path more.
LEMMA DoubtStep ==
    ASSUME IInv, Follows(core, core'), Watch(core', probes'), ProbesTyped(probes'),
           events' = events, wanted' = wanted, open' = open, told' = told,
           \/ core'.dying = core.dying
           \/ core'.dying # None => core'.dying.attempt = IdleAttempt,
           NEW q \in Known, stale' = Doubted(q),
           core.live => StartsWith(q, core'.root) /\ Waits(core', q)
    PROVE  IInv'
<1>1. CASE wanted /\ core.live
  <2>1. stale' = stale \cup {q}
    BY <1>1 DEF Doubted
  <2> QED BY <1>1, <2>1, ArmStep
<1>2. CASE ~(wanted /\ core.live)
  <2>1. stale' = stale
    BY <1>2 DEF Doubted
  <2> QED BY <2>1, ArmStep
<1> QED BY <1>1, <1>2

\* The probes as the invariant knows them.
LEMMA ProbesKnown ==
    ASSUME IInv
    PROVE  ProbesTyped(probes) /\ Current(core, probes)
BY Invariant DEF RestTyped, ProbesTyped, Watch, Current

\* A path and what is below the root of it.
LEMMA WatchedPath ==
    ASSUME IInv, NEW p \in Paths, Watched(p)
    PROVE  /\ core.live /\ core.alive /\ p \in Known /\ StartsWith(p, core.root)
           /\ Below(p) \in Seq(Names) /\ core.root \o Below(p) = p /\ StartsWith(p, p)
<1>1. Lagging(core) /\ core.root \in {Root, Wide} /\ core.live /\ StartsWith(p, core.root)
  BY Invariant DEF Watched
<1>2. p \in Seq(Names) /\ core.root \in Seq(Names) /\ p \in Known
  BY <1>1, RootBelow, PathsAssumption DEF Known
<1>3. core.alive
  BY <1>1 DEF Lagging
<1> DEFINE r == core.root
           b == SubSeq(p, Len(r) + 1, Len(p))
<1>4. Below(p) \in Seq(Names) /\ core.root \o Below(p) = p
  <2>1. r \in Seq(Names) /\ StartsWith(p, r)
    BY <1>1, <1>2
  <2> HIDE DEF r
  <2>2. b \in Seq(Names) /\ r \o b = p
    BY <2>1, <1>2, Rejoined
  <2> HIDE DEF b
  <2> USE DEF r
  <2>3. Below(p) = b
    BY DEF Below, b
  <2> QED BY <2>2, <2>3
<1> QED BY <1>1, <1>2, <1>3, <1>4, OwnPrefix

\* A change reported.
LEMMA RecordStep ==
    ASSUME IInv, NEW p \in Paths, Record(p) PROVE IInv'
<1>1. /\ Watched(p) /\ core' = emit(core, Below(p)) /\ stale' = Doubted(p) /\ probes' = probes
      /\ events' = events /\ wanted' = wanted /\ open' = open /\ told' = told
  BY DEF Record, Report, NoRead
<1>2. /\ core.live /\ core.alive /\ p \in Known /\ StartsWith(p, core.root)
      /\ Below(p) \in Seq(Names) /\ core.root \o Below(p) = p
  BY <1>1, WatchedPath
<1>3. Sound(core) /\ Watch(core, probes) /\ ProbesTyped(probes)
  BY Invariant, ProbesKnown
<1>4. /\ Follows(core, core') /\ Keeps(core, core', {"effects"})
      /\ Watch(core', probes) /\ Waits(core', p)
  BY <1>1, <1>2, <1>3, EmitFollows
<1>5. core'.dying = core.dying /\ core'.root = core.root
  BY <1>4 DEF Keeps, CoreFields
<1> QED BY <1>1, <1>2, <1>3, <1>4, <1>5, DoubtStep

\* A subtree to look at again.
LEMMA LocatedStep ==
    ASSUME IInv, NEW p \in Paths, Located(p) PROVE IInv'
<1>1. /\ Watched(p) /\ core' = emit_rescan(core, Below(p)) /\ stale' = Doubted(p) /\ probes' = probes
      /\ events' = events /\ wanted' = wanted /\ open' = open /\ told' = told
  BY DEF Located, Report, NoRead
<1>2. /\ core.live /\ core.alive /\ p \in Known /\ StartsWith(p, core.root)
      /\ Below(p) \in Seq(Names) /\ core.root \o Below(p) = p /\ StartsWith(p, p)
  BY <1>1, WatchedPath
<1>3. Sound(core) /\ Watch(core, probes) /\ ProbesTyped(probes)
  BY Invariant, ProbesKnown
<1>4. /\ Follows(core, core') /\ Keeps(core, core', {"effects", "epoch", "parked"})
      /\ Watch(core', probes)
      /\ core.live => \A x : StartsWith(x, core.root \o Below(p)) => Waits(core', x)
  BY <1>1, <1>2, <1>3, RescanFollows
<1>5. Waits(core', p)
  BY <1>2, <1>4
<1>6. core'.dying = core.dying /\ core'.root = core.root
  BY <1>4 DEF Keeps, CoreFields
<1> QED BY <1>1, <1>2, <1>3, <1>4, <1>5, <1>6, DoubtStep

\* Changes lost by the source.
LEMMA OverflowStep ==
    ASSUME IInv, NEW p \in Paths, Overflow(p) PROVE IInv'
<1>1. /\ Watched(p) /\ core' = on_root_overflow(core) /\ stale' = Doubted(p) /\ probes' = probes
      /\ events' = events /\ wanted' = wanted /\ open' = open /\ told' = told
  BY DEF Overflow, Report, NoRead
<1>2. core.live /\ core.alive /\ p \in Known /\ StartsWith(p, core.root)
  BY <1>1, WatchedPath
<1>3. Sound(core) /\ Watch(core, probes) /\ ProbesTyped(probes)
  BY Invariant, ProbesKnown
<1>4. /\ Follows(core, core')
      /\ Keeps(core, core', {"widen", "authoritative", "refresh_stale", "pending", "effects", "epoch", "parked"})
      /\ Watch(core', probes)
      /\ core.alive /\ core.live => \A x : StartsWith(x, core.root) => Waits(core', x)
  BY <1>1, <1>3, OverflowFollows
<1>5. Waits(core', p)
  BY <1>2, <1>4
<1>6. core'.dying = core.dying /\ core'.root = core.root
  BY <1>4 DEF Keeps, CoreFields
<1> QED BY <1>1, <1>2, <1>3, <1>4, <1>5, <1>6, DoubtStep

\* A source that fails, and with it the scope.
LEMMA FatalStep ==
    ASSUME IInv, Fatal PROVE IInv'
<1>1. /\ core.live /\ core' = root_dies(core, FALSE) /\ stale' = Doubted(core.root) /\ probes' = probes
      /\ events' = events /\ wanted' = wanted /\ open' = open /\ told' = told
  BY DEF Fatal, NoRead
<1>2. Sound(core) /\ Lagging(core) /\ ProbesTyped(probes) /\ core.root \in {Root, Wide}
  BY Invariant, ProbesKnown
<1>3. core.alive
  BY <1>1, <1>2 DEF Lagging
<1>4. core.root \in Known /\ StartsWith(core.root, core.root)
  BY <1>2, RootBelow
<1>5. /\ Follows(core, core')
      /\ core'.dying # None => core'.dying.attempt = IdleAttempt
      /\ core.live => \A p : StartsWith(p, core.root) => Waits(core', p)
      /\ Watch(core', probes)
  BY <1>1, <1>2, <1>3, DiesFollows
<1>6. Waits(core', core.root) /\ StartsWith(core.root, core'.root)
  BY <1>1, <1>4, <1>5 DEF Follows
<1> QED BY <1>1, <1>2, <1>4, <1>5, <1>6, DoubtStep

\* A stream that comes up, or fails to.
LEMMA SpawnedStep ==
    ASSUME IInv, Spawned PROVE IInv'
<1>1. /\ core.alive /\ ~core.spawned /\ stale' = stale /\ probes' = probes
      /\ events' = events /\ wanted' = wanted /\ open' = open /\ told' = told
      /\ \/ \E b \in Backends : core' = on_stream_spawned(core, b)
         \/ core' = root_dies(core, FALSE)
  BY DEF Spawned, NoChange, NoRead
<1>2. Sound(core) /\ ProbesTyped(probes) /\ Current(core, probes)
  BY Invariant, ProbesKnown
<1>3. CASE core' = root_dies(core, FALSE)
  <2>1. /\ Follows(core, core') /\ Watch(core', probes)
        /\ core'.dying # None => core'.dying.attempt = IdleAttempt
    BY <1>1, <1>2, <1>3, DiesFollows
  <2> QED BY <1>1, <1>2, <2>1, ArmStep
<1>4. CASE \E b \in Backends : core' = on_stream_spawned(core, b)
  <2>1. PICK b \in Backends : core' = on_stream_spawned(core, b)
    BY <1>4
  <2>2. /\ Follows(core, core') /\ Watch(core', probes)
        /\ Keeps(core, core', {"spawned", "backend", "refresh_stale", "pending", "effects", "arming", "live"})
    BY <1>1, <1>2, <2>1, SpawnedFollows
  <2>3. core'.dying = core.dying
    BY <2>2 DEF Keeps, CoreFields
  <2> QED BY <1>1, <1>2, <2>2, <2>3, ArmStep
<1> QED BY <1>1, <1>3, <1>4

\* The watches of a root that are up, or cannot be put up.
LEMMA InstalledStep ==
    ASSUME IInv, Installed PROVE IInv'
<1>1. /\ core.arming /\ stale' = stale /\ probes' = probes
      /\ events' = events /\ wanted' = wanted /\ open' = open /\ told' = told
      /\ core' = on_watch_installed(core) \/ core' = root_dies(core, FALSE)
  BY DEF Installed, NoChange, NoRead
<1>2. Sound(core) /\ Lagging(core) /\ Watch(core, probes) /\ ProbesTyped(probes)
  BY Invariant, ProbesKnown
<1>3. core.alive
  BY <1>1, <1>2 DEF Lagging
<1>4. CASE core' = root_dies(core, FALSE)
  <2>1. /\ Follows(core, core') /\ Watch(core', probes)
        /\ core'.dying # None => core'.dying.attempt = IdleAttempt
    BY <1>2, <1>3, <1>4, DiesFollows
  <2> QED BY <1>1, <1>2, <2>1, ArmStep
<1>5. CASE core' = on_watch_installed(core)
  <2>1. /\ Follows(core, core') /\ Watch(core', probes)
        /\ Keeps(core, core', {"live", "arming", "report_owed"})
    BY <1>1, <1>2, <1>5, InstalledFollows
  <2>2. core'.dying = core.dying
    BY <2>1 DEF Keeps, CoreFields
  <2> QED BY <1>1, <1>2, <2>1, <2>2, ArmStep
<1> QED BY <1>1, <1>4, <1>5

\* The stream replaced, at the root or above it.
LEMMA ReplaceStep ==
    ASSUME IInv, NEW r \in {Root, Wide}, Replace(r) PROVE IInv'
<1>1. /\ core.live /\ StartsWith(core.root, r) /\ core' = on_root_replaced(core, r)
      /\ probes' = retire_generation(probes) /\ stale' = Doubted(r)
      /\ events' = events /\ wanted' = wanted /\ open' = open /\ told' = told
  BY DEF Replace, NoRead
<1>2. Sound(core) /\ ProbesTyped(probes)
  BY Invariant, ProbesKnown
<1>3. ProbesTyped(probes') /\ \A f \in probes'.flight : f.tag # probes'.tag
  BY <1>1, <1>2, Retired
<1>4. /\ Follows(core, core') /\ core'.root = r
      /\ Keeps(core, core', {"inc", "root", "pending", "refresh_stale", "widen", "authoritative",
                             "effects", "epoch", "parked"})
      /\ \A p : StartsWith(p, r) => Waits(core', p)
      /\ \A pr : (\A f \in pr.flight : f.tag # pr.tag) => Watch(core', pr)
  BY <1>1, <1>2, ReplacedFollows
<1>5. r \in Known /\ StartsWith(r, r)
  BY RootBelow
<1>6. Watch(core', probes') /\ Waits(core', r) /\ StartsWith(r, core'.root)
  BY <1>3, <1>4, <1>5
<1>7. core'.dying = core.dying
  BY <1>4 DEF Keeps, CoreFields
<1> QED BY <1>1, <1>3, <1>4, <1>5, <1>6, <1>7, DoubtStep

\* A window in which the root may grow is opened or closed.
LEMMA WidenStep ==
    ASSUME IInv, BeginWiden \/ CommitWiden \/ AbortWiden PROVE IInv'
<1>1. /\ stale' = stale
      /\ events' = events /\ wanted' = wanted /\ open' = open /\ told' = told
  BY DEF BeginWiden, CommitWiden, AbortWiden, NoChange, NoRead
<1>2. Sound(core) /\ CoreTyped(core) /\ Lagging(core) /\ Watch(core, probes) /\ ProbesTyped(probes)
  BY Invariant, ProbesKnown
<1>3. core.live /\ core.alive
  BY <1>2 DEF BeginWiden, CommitWiden, AbortWiden, Lagging
<1>4. ASSUME NEW w, core' = [core EXCEPT !.widen = w], probes' = probes PROVE IInv'
  <2>1. CoreTyped(core') /\ Keeps(core, core', {"widen"})
    BY <1>2, <1>4 DEF CoreTyped, CoreFields, Keeps
  <2>2. Keeps(core, core', {"attempt", "refresh_stale", "authoritative", "recovered", "report_owed", "widen"})
    BY <2>1 DEF Keeps
  <2>3. Follows(core, core') /\ \A pr : Watch(core, pr) => Watch(core', pr)
    BY <1>2, <1>3, <2>1, <2>2, Idle
  <2>4. core'.dying = core.dying /\ Watch(core', probes') /\ ProbesTyped(probes')
    BY <1>2, <1>4, <2>1, <2>3 DEF Keeps, CoreFields
  <2> QED BY <1>1, <2>3, <2>4, ArmStep
<1>5. CASE core' = on_root_widened(core) /\ probes' = retire_generation(probes)
  <2>1. ProbesTyped(probes') /\ \A f \in probes'.flight : f.tag # probes'.tag
    BY <1>2, <1>5, Retired
  <2>2. /\ Follows(core, core')
        /\ Keeps(core, core', {"inc", "root", "pending", "refresh_stale", "widen", "authoritative",
                               "parked", "effects", "deadline"})
        /\ \A pr : (\A f \in pr.flight : f.tag # pr.tag) => Watch(core', pr)
    BY <1>2, <1>3, <1>5, WidenedFollows
  <2>3. core'.dying = core.dying /\ Watch(core', probes')
    BY <2>1, <2>2 DEF Keeps, CoreFields
  <2> QED BY <1>1, <2>1, <2>2, <2>3, ArmStep
<1>6. CASE BeginWiden
  <2>1. core' = [core EXCEPT !.widen = "clean"] /\ probes' = probes
    BY <1>6 DEF BeginWiden
  <2> QED BY <1>4, <2>1
<1>7. CASE AbortWiden
  <2>1. core' = [core EXCEPT !.widen = "none"] /\ probes' = probes
    BY <1>7 DEF AbortWiden
  <2> QED BY <1>4, <2>1
<1>8. CASE CommitWiden
  <2>1. \/ core' = on_root_widened(core) /\ probes' = retire_generation(probes)
        \/ core' = [core EXCEPT !.widen = "none"] /\ probes' = probes
    BY <1>8 DEF CommitWiden
  <2> QED BY <1>4, <1>5, <2>1
<1> QED BY <1>6, <1>7, <1>8

\* A probe retired: the others stay as current as they were.
LEMMA RetireKeeps ==
    ASSUME NEW pr, ProbesTyped(pr), NEW f \in pr.flight
    PROVE  /\ ProbesTyped(retire(pr, f))
           /\ \A c : Current(c, pr) => Current(c, retire(pr, f))
           /\ f.tag # pr.tag => \A c : Watch(c, pr) => Watch(c, retire(pr, f))
<1> DEFINE a == [pr EXCEPT !.flight = @ \ {f}]
           d == retire(pr, f)
<1>1. ProbesTyped(a) /\ a.tag = pr.tag /\ a.flight = pr.flight \ {f}
  BY DEF ProbesTyped
<1>2. d = IF a.flight = {} THEN [a EXCEPT !.tag = 0] ELSE a
  BY DEF retire, forget_settled
<1> HIDE DEF a, d
<1>3. CASE a.flight = {}
  <2>1. d.flight = {} /\ ProbesTyped(d)
    BY <1>1, <1>2, <1>3 DEF ProbesTyped
  <2>2. \A c : Current(c, d)
    BY <2>1 DEF Current
  <2>3. f.tag # pr.tag => \A c : Watch(c, pr) => Watch(c, d)
    BY <1>1, <1>3, <2>1 DEF Watch
  <2> QED BY <2>1, <2>2, <2>3 DEF d
<1>4. CASE a.flight # {}
  <2>1. d = a
    BY <1>2, <1>4
  <2>2. \A c : Current(c, pr) => Current(c, d)
    BY <1>1, <2>1 DEF Current
  <2>3. f.tag # pr.tag => \A c : Watch(c, pr) => Watch(c, d)
    BY <1>1, <2>1 DEF Watch
  <2> QED BY <1>1, <2>1, <2>2, <2>3 DEF d
<1> QED BY <1>3, <1>4

\* The verdict of a probe, heard if it is of the generation there is.
LEMMA RefreshedStep ==
    ASSUME IInv, NEW f \in probes.flight, NEW v \in Verdicts, Refreshed(f, v) PROVE IInv'
<1>1. /\ probes' = retire(probes, f)
      /\ events' = events /\ wanted' = wanted /\ open' = open /\ told' = told
  BY DEF Refreshed, NoRead
<1>2. /\ Sound(core) /\ Watch(core, probes) /\ ProbesTyped(probes) /\ Current(core, probes)
      /\ core.root \in {Root, Wide}
  BY Invariant, ProbesKnown
<1>3. /\ ProbesTyped(probes') /\ Current(core, probes')
      /\ f.tag # probes.tag => Watch(core, probes')
  BY <1>1, <1>2, RetireKeeps
<1>4. CASE f.tag # probes.tag
  <2>1. core' = core /\ stale' = stale
    BY <1>4 DEF Refreshed
  <2>2. Follows(core, core')
    BY <1>2, <2>1, FollowsSelf
  <2> QED BY <1>1, <1>3, <1>4, <2>1, <2>2, ArmStep
<1>5. CASE f.tag = probes.tag
  <2>1. /\ core' = on_mounts_refreshed(core, v)
        /\ stale' = IF v \in Deaths \/ Reframes(core, v) THEN Doubted(core.root) ELSE stale
    BY <1>5 DEF Refreshed
  <2>2. /\ Follows(core, core')
        /\ \/ core'.dying = core.dying
           \/ core'.dying # None => core'.dying.attempt = IdleAttempt
        /\ Watch(core', probes')
        /\ core.live /\ (v \in Deaths \/ Reframes(core, v)) =>
              \A p : StartsWith(p, core.root) => Waits(core', p)
    BY <1>2, <1>3, <2>1, RefreshedFollows
  <2>3. CASE v \in Deaths \/ Reframes(core, v)
    <3>1. core.root \in Known /\ StartsWith(core.root, core.root)
      BY <1>2, RootBelow
    <3>2. core.live => StartsWith(core.root, core'.root) /\ Waits(core', core.root)
      BY <2>2, <2>3, <3>1 DEF Follows
    <3>3. stale' = Doubted(core.root)
      BY <2>1, <2>3
    <3> QED BY <1>1, <1>3, <2>2, <3>1, <3>2, <3>3, DoubtStep
  <2>4. CASE ~(v \in Deaths \/ Reframes(core, v))
    <3>1. stale' = stale
      BY <2>1, <2>4
    <3> QED BY <1>1, <1>3, <2>2, <3>1, ArmStep
  <2> QED BY <2>3, <2>4
<1> QED BY <1>4, <1>5

\* A liveness deadline that passes.
LEMMA TickStep ==
    ASSUME IInv, Tick PROVE IInv'
<1>1. /\ core.deadline /\ core' = arm_liveness(arm_refresh(core)) /\ probes' = probes /\ stale' = stale
      /\ events' = events /\ wanted' = wanted /\ open' = open /\ told' = told
  BY DEF Tick, poll_timeout, NoChange, NoRead
<1>2. Sound(core) /\ Armed(core) /\ Watch(core, probes) /\ ProbesTyped(probes)
  BY Invariant, ProbesKnown, SoundParts
<1>3. core.alive
  BY <1>1, <1>2 DEF Armed
<1> DEFINE b == arm_refresh(core)
<1>4. /\ Follows(core, b) /\ Keeps(core, b, {"refresh_stale", "pending", "effects"}) /\ Watch(b, probes)
  BY <1>2, ArmFollows
<1> HIDE DEF b
<1>5. Sound(b) /\ b.alive /\ b.dying = core.dying
  BY <1>3, <1>4 DEF Follows, Keeps, CoreFields
<1>6. core' = arm_liveness(b)
  BY <1>1 DEF b
<1>7. Follows(b, core') /\ Keeps(b, core', {"deadline"}) /\ Watch(core', probes)
  BY <1>4, <1>5, <1>6, TimedFollows
<1>8. Follows(core, core')
  BY <1>4, <1>7, <1>2, FollowsTrans
<1>9. core'.dying = core.dying
  BY <1>5, <1>7 DEF Keeps, CoreFields
<1> QED BY <1>1, <1>2, <1>7, <1>8, <1>9, ArmStep

\* The driver's turn when nothing is left to run, and the batch it sheds.
LEMMA EndEffectsStep ==
    ASSUME IInv, EndEffects PROVE IInv'
<1>1. /\ core' = core \/ (core' = on_root_overflow(core) /\ core.alive)
      /\ stale' = IF core' = core THEN stale ELSE Doubted(core.root)
      /\ probes' = probes
      /\ events' = events /\ wanted' = wanted /\ open' = open /\ told' = told
  BY DEF EndEffects
<1>2. /\ Sound(core) /\ Watch(core, probes) /\ ProbesTyped(probes)
      /\ core.root \in {Root, Wide}
  BY Invariant, ProbesKnown
<1>3. CASE core' = core
  <2>1. Follows(core, core') /\ stale' = stale
    BY <1>1, <1>2, <1>3, FollowsSelf
  <2> QED BY <1>1, <1>2, <1>3, <2>1, ArmStep
<1>4. CASE core' # core
  <2>1. core' = on_root_overflow(core) /\ core.alive /\ stale' = Doubted(core.root)
    BY <1>1, <1>4
  <2>2. /\ Follows(core, core')
        /\ Keeps(core, core', {"widen", "authoritative", "refresh_stale", "pending", "effects", "epoch", "parked"})
        /\ Watch(core', probes)
        /\ core.alive /\ core.live => \A p : StartsWith(p, core.root) => Waits(core', p)
    BY <1>2, <2>1, OverflowFollows
  <2>3. core'.dying = core.dying /\ core'.root = core.root
    BY <2>2 DEF Keeps, CoreFields
  <2>4. core.root \in Known /\ StartsWith(core.root, core.root)
    BY <1>2, RootBelow
  <2>5. core.live => StartsWith(core.root, core'.root) /\ Waits(core', core.root)
    BY <2>1, <2>2, <2>3, <2>4
  <2> QED BY <1>1, <1>2, <2>1, <2>2, <2>3, <2>4, <2>5, DoubtStep
<1> QED BY <1>3, <1>4

\* A refused Rescan is tried again.
LEMMA RetryStep ==
    ASSUME IInv, Retry PROVE IInv'
<1>1. /\ core' = Retried(core) /\ probes' = probes /\ stale' = stale
      /\ events' = events /\ wanted' = wanted /\ open' = open /\ told' = told
  BY DEF Retry, NoChange, NoRead
<1>2. /\ Sound(core) /\ CoreTyped(core) /\ Lagging(core) /\ Armed(core) /\ Ordered(core)
      /\ Watch(core, probes) /\ ProbesTyped(probes)
  BY Invariant, ProbesKnown, SoundParts
<1> DEFINE y == IF core.dying # None /\ IsSpent(core.dying.attempt)
                THEN [core.dying EXCEPT !.attempt = IdleAttempt] ELSE core.dying
           x == IF IsSpent(core.attempt) THEN IdleAttempt ELSE core.attempt
<1>3. /\ (core.dying = None <=> y = None)
      /\ y # None => /\ y = [f \in {"k", "root", "change", "attempt"} |-> y[f]]
                     /\ y.root = core.dying.root /\ y.change = core.dying.change
                     /\ y.attempt = core.dying.attempt \/ y.attempt = IdleAttempt
  <2>1. CASE core.dying # None /\ IsSpent(core.dying.attempt)
    <3>1. core.dying = [f \in {"k", "root", "change", "attempt"} |-> core.dying[f]]
      BY <1>2, <2>1 DEF CoreTyped
    <3>2. y = [core.dying EXCEPT !.attempt = IdleAttempt]
      BY <2>1
    <3>3. y = [f \in {"k", "root", "change", "attempt"} |-> y[f]]
      BY <3>1, <3>2
    <3>4. y.root = core.dying.root /\ y.change = core.dying.change /\ y.attempt = IdleAttempt
      BY <3>1, <3>2
    <3>5. y # None
      <4>1. DOMAIN y = {"k", "root", "change", "attempt"} /\ DOMAIN None = {"k"}
        BY <3>3 DEF None
      <4> QED BY <4>1
    <3> QED BY <2>1, <3>3, <3>4, <3>5
  <2>2. CASE ~(core.dying # None /\ IsSpent(core.dying.attempt))
    <3>1. y = core.dying
      BY <2>2
    <3> HIDE DEF y
    <3> QED BY <1>2, <3>1 DEF CoreTyped
  <2> QED BY <2>1, <2>2
<1>4. core' = [core EXCEPT !.attempt = x, !.dying = y]
  BY <1>1, <1>2 DEF Retried, CoreTyped, CoreFields
<1> HIDE DEF x, y
<1>5. Keeps(core, core', {"attempt", "dying"}) /\ core'.dying = y
  BY <1>2, <1>4 DEF Keeps, CoreTyped, CoreFields
<1>6. core' = [f \in CoreFields |-> core'[f]]
  BY <1>2, <1>4 DEF CoreTyped, CoreFields
<1>7. /\ core'.root = core.root /\ core'.inc = core.inc /\ core'.epoch = core.epoch
      /\ core'.effects = core.effects /\ core'.parked = core.parked /\ core'.alive = core.alive
      /\ core'.live = core.live /\ core'.lag = core.lag /\ core'.arming = core.arming
      /\ core'.spawned = core.spawned /\ core'.widen = core.widen
      /\ core'.pending = core.pending /\ core'.deadline = core.deadline
  BY <1>5 DEF Keeps, CoreFields
<1>8. CoreTyped(core')
  BY <1>2, <1>3, <1>5, <1>6, <1>7 DEF CoreTyped
<1>9. Lagging(core')
  BY <1>2, <1>3, <1>5, <1>7 DEF Lagging
<1>10. Armed(core')
  BY <1>2, <1>7 DEF Armed
<1>11. Ordered(core')
  BY <1>2, <1>3, <1>5, <1>7 DEF Ordered
<1>12. \A p : Waits(core, p) => Waits(core', p)
  BY <1>3, <1>5, <1>7 DEF Waits
<1>13. core.epoch <= core'.epoch /\ StartsWith(core.root, core'.root)
  BY <1>2, <1>7, FollowsSelf DEF Follows
<1>14. Follows(core, core')
  BY <1>7, <1>8, <1>9, <1>10, <1>11, <1>12, <1>13 DEF Follows, Sound
<1>15. Watch(core', probes)
  <2>1. Keeps(core, core', CoreFields \ {"alive", "spawned", "pending", "inc", "backend", "deadline"})
    BY <1>5 DEF Keeps
  <2> QED BY <1>2, <1>7, <2>1, WatchKept
<1>16. Settled'
  <2>1. Settled
    BY Invariant
  <2> QED BY <1>1, <1>3, <1>5, <2>1 DEF Settled, IdleAttempt
<1> QED BY <1>1, <1>2, <1>14, <1>15, <1>16, CoreStep

\* A batch that comes back changes nothing here.
LEMMA BatchStep ==
    ASSUME IInv, BatchDone PROVE IInv'
<1>1. /\ core' = core /\ probes' = probes /\ stale' = stale
      /\ events' = events /\ wanted' = wanted /\ open' = open /\ told' = told
  BY DEF BatchDone, NoChange, NoRead
<1>2. Sound(core) /\ Watch(core, probes) /\ ProbesTyped(probes)
  BY Invariant, ProbesKnown
<1>3. Follows(core, core')
  BY <1>1, <1>2, FollowsSelf
<1> QED BY <1>1, <1>2, <1>3, ArmStep

\* The first effect taken from the queue.
Pops(c, d) == d = [c EXCEPT !.effects = Tail(@)]

LEMMA Popped ==
    ASSUME NEW c, Sound(c), c.effects # <<>>, NEW d, Pops(c, d)
    PROVE  /\ Sound(d) /\ Keeps(c, d, {"effects"}) /\ Moves(c, d)
           /\ Head(c.effects) \in Effect /\ Head(c.effects) = c.effects[1] /\ 1 \in DOMAIN c.effects
           /\ \A j \in DOMAIN d.effects : j + 1 \in DOMAIN c.effects /\ d.effects[j] = c.effects[j + 1]
           /\ \A i \in DOMAIN c.effects :
                 i = 1 \/ \E j \in DOMAIN d.effects : i = j + 1 /\ d.effects[j] = c.effects[i]
<1> DEFINE q == c.effects
           r == Tail(q)
           n == c.epoch
           f == [j \in DOMAIN r |-> j + 1]
<1>1. /\ CoreTyped(c) /\ Lagging(c) /\ Ordered(c) /\ Armed(c) /\ c.effects \in Seq(Effect)
      /\ c.epoch \in Nat /\ c.root \in {Root, Wide}
      /\ InOrder(c.effects, c.epoch) /\ (c.alive => LastIs(c.effects, c.epoch))
  BY SoundParts
<1>2. q \in Seq(Effect) /\ q # <<>> /\ n \in Nat
  BY <1>1
<1>3. Keeps(c, d, {"effects"}) /\ d.effects = r /\ d = [x \in CoreFields |-> d[x]]
  BY <1>1 DEF CoreTyped, CoreFields, Keeps, Pops
<1>4. InOrder(q, n) /\ (c.alive => LastIs(q, n))
  BY <1>1
<1> HIDE DEF q, n
<1>5. /\ r \in Seq(Effect) /\ Head(q) \in Effect /\ Head(q) = q[1] /\ 1 \in DOMAIN q
      /\ DOMAIN q = 1 .. Len(q) /\ Len(q) \in Nat /\ DOMAIN r = 1 .. (Len(q) - 1)
      /\ \A j \in DOMAIN r : j + 1 \in DOMAIN q /\ r[j] = q[j + 1]
  BY <1>2
<1> HIDE DEF r
<1>6. \A i \in DOMAIN q : i = 1 \/ \E j \in DOMAIN r : i = j + 1 /\ r[j] = q[i]
  <2> SUFFICES ASSUME NEW i \in DOMAIN q, i # 1 PROVE \E j \in DOMAIN r : i = j + 1 /\ r[j] = q[i]
    OBVIOUS
  <2>1. i - 1 \in DOMAIN r /\ i = (i - 1) + 1
    BY <1>5
  <2> QED BY <1>5, <2>1
<1>7. f \in [DOMAIN r -> DOMAIN q] /\ \A j \in DOMAIN r : f[j] = j + 1
  BY <1>5
<1> HIDE DEF f
<1>8. /\ \A i \in DOMAIN r : r[i] = q[f[i]]
      /\ \A i, j \in DOMAIN r : i < j => f[i] < f[j]
      /\ \A i \in DOMAIN r, j \in Rescans(q) : f[i] < j => \E m \in DOMAIN r : f[m] = j
  <2>1. \A i \in DOMAIN r : r[i] = q[f[i]]
    BY <1>5, <1>7
  <2>2. \A i, j \in DOMAIN r : i < j => f[i] < f[j]
    BY <1>5, <1>7
  <2>3. \A i \in DOMAIN r, j \in Rescans(q) : f[i] < j => \E m \in DOMAIN r : f[m] = j
    <3> SUFFICES ASSUME NEW i \in DOMAIN r, NEW j \in Rescans(q), f[i] < j PROVE \E m \in DOMAIN r : f[m] = j
      OBVIOUS
    <3>1. j \in DOMAIN q /\ j # 1
      BY <1>5, <1>7 DEF Rescans
    <3>2. PICK m \in DOMAIN r : j = m + 1
      BY <1>6, <3>1
    <3> QED BY <1>7, <3>2
  <2> QED BY <2>1, <2>2, <2>3
<1>9. /\ \A i \in Emits(r) : f[i] \in Emits(q)
      /\ InOrder(q, n) => InOrder(r, n)
      /\ LastIs(q, n) => LastIs(r, n)
  BY <1>2, <1>5, <1>7, <1>8, Thinned
<1>10. /\ d.root = c.root /\ d.inc = c.inc /\ d.epoch = n
      /\ d.parked = c.parked /\ d.alive = c.alive /\ d.dying = c.dying
      /\ d.live = c.live /\ d.lag = c.lag /\ d.arming = c.arming
      /\ d.spawned = c.spawned /\ d.widen = c.widen
      /\ d.pending = c.pending /\ d.deadline = c.deadline
  BY <1>3 DEF Keeps, CoreFields, n
<1>11. CoreTyped(d)
  BY <1>1, <1>3, <1>5, <1>10 DEF CoreTyped, n
<1>12. \A i \in Emits(r) : \E j \in Emits(q) : r[i] = q[j]
  BY <1>8, <1>9 DEF Emits
<1>13. Lagging(d)
  <2>1. Emits(q) = {} => Emits(r) = {}
    BY <1>12
  <2> QED BY <1>1, <1>3, <1>10, <2>1 DEF Lagging, q
<1>14. Armed(d)
  <2>1. d.alive => \A i \in DOMAIN d.effects : d.effects[i].k # "teardown"
    BY <1>1, <1>3, <1>5, <1>10 DEF Armed, q
  <2> QED BY <1>1, <1>10, <2>1 DEF Armed
<1>15. Ordered(d)
  <2>1. InOrder(d.effects, d.epoch) /\ (d.alive => LastIs(d.effects, d.epoch))
    BY <1>3, <1>4, <1>9, <1>10
  <2>2. /\ d.parked # None => d.parked.epoch = d.epoch
        /\ d.dying # None => d.dying.change.epoch = d.epoch
    BY <1>1, <1>10 DEF Ordered, n
  <2> QED BY <2>1, <2>2, OrderedParts
<1>16. Sound(d)
  BY <1>11, <1>13, <1>14, <1>15 DEF Sound
<1>17. Moves(c, d)
  BY <1>1, <1>3, <1>10, <1>12, <1>16 DEF Moves, q, n
<1> QED BY <1>3, <1>5, <1>6, <1>16, <1>17 DEF q

\* The queue without an effect that nothing waits in: of a dead scope nothing
\* waits in the queue.
LEMMA PoppedFollows ==
    ASSUME NEW c, Sound(c), c.effects # <<>>, ~IsEmit(Head(c.effects)) \/ ~c.alive,
           NEW d, Pops(c, d)
    PROVE  Follows(c, d)
<1>1. /\ Sound(d) /\ Keeps(c, d, {"effects"}) /\ Moves(c, d)
      /\ Head(c.effects) = c.effects[1]
      /\ \A i \in DOMAIN c.effects :
            i = 1 \/ \E j \in DOMAIN d.effects : i = j + 1 /\ d.effects[j] = c.effects[i]
  BY Popped
<1>2. /\ d.root = c.root /\ d.epoch = c.epoch
      /\ d.alive = c.alive /\ d.dying = c.dying /\ d.live = c.live /\ d.lag = c.lag
  BY <1>1 DEF Keeps, CoreFields
<1>3. c.alive => \A i \in Emits(c.effects) : \E j \in Emits(d.effects) : d.effects[j] = c.effects[i]
  <2> SUFFICES ASSUME c.alive, NEW i \in Emits(c.effects)
               PROVE  \E j \in Emits(d.effects) : d.effects[j] = c.effects[i]
    OBVIOUS
  <2>1. i \in DOMAIN c.effects /\ IsEmit(c.effects[i]) /\ i # 1
    BY <1>1 DEF Emits
  <2>2. PICK j \in DOMAIN d.effects : d.effects[j] = c.effects[i]
    BY <1>1, <2>1
  <2> QED BY <2>1, <2>2 DEF Emits
<1>4. \A p : Waits(c, p) => Waits(d, p)
  <2> SUFFICES ASSUME NEW p, Waits(c, p) PROVE Waits(d, p)
    OBVIOUS
  <2>1. CASE c.alive /\ c.lag = "normal" /\ \E i \in Emits(c.effects) : Speaks(c.effects[i], p)
    <3>1. PICK i \in Emits(c.effects) : Speaks(c.effects[i], p)
      BY <2>1
    <3>2. PICK j \in Emits(d.effects) : d.effects[j] = c.effects[i]
      BY <1>3, <2>1
    <3>3. Speaks(d.effects[j], p)
      BY <3>1, <3>2
    <3> QED BY <1>2, <2>1, <3>3 DEF Waits
  <2>2. CASE ~(c.alive /\ c.lag = "normal" /\ \E i \in Emits(c.effects) : Speaks(c.effects[i], p))
    BY <1>2, <2>2 DEF Waits
  <2> QED BY <2>1, <2>2
<1>5. StartsWith(c.root, d.root)
  BY <1>2, FollowsSelf DEF Follows
<1> QED BY <1>1, <1>2, <1>4, <1>5 DEF Follows, Moves

\* What the driver is handed: the first effect, or what waits outside the queue.
LEMMA PolledOf ==
    ASSUME IInv
    PROVE  /\ core.effects # <<>> =>
                 /\ Pops(core, Polled.core)
                 /\ Polled.effect = Head(core.effects)
           /\ core.effects = <<>> /\ Polled.effect.k # "none" =>
                 /\ Polled.effect.k = "emit"
                 /\ \/ /\ core.alive /\ core.parked # None /\ core.attempt.k = "idle"
                       /\ Polled.core = [core EXCEPT !.attempt = InFlight(core.parked.epoch)]
                       /\ Polled.effect = Emit(core.root, core.parked)
                    \/ /\ core.dying # None /\ core.dying.attempt.k = "idle" /\ ~core.alive
                       /\ Polled.core = [core EXCEPT !.dying.attempt = InFlight(core.dying.change.epoch)]
                       /\ Polled.effect = Emit(core.dying.root, core.dying.change)
<1>1. core.alive => core.dying = None
  BY Invariant DEF Lagging
<1>2. core.effects # <<>> =>
         /\ Pops(core, Polled.core)
         /\ Polled.effect = Head(core.effects)
  BY DEF Polled, poll_effect, Pops
<1>3. ASSUME core.effects = <<>>, Polled.effect.k # "none"
      PROVE  /\ Polled.effect.k = "emit"
             /\ \/ /\ core.alive /\ core.parked # None /\ core.attempt.k = "idle"
                   /\ Polled.core = [core EXCEPT !.attempt = InFlight(core.parked.epoch)]
                   /\ Polled.effect = Emit(core.root, core.parked)
                \/ /\ core.dying # None /\ core.dying.attempt.k = "idle" /\ ~core.alive
                   /\ Polled.core = [core EXCEPT !.dying.attempt = InFlight(core.dying.change.epoch)]
                   /\ Polled.effect = Emit(core.dying.root, core.dying.change)
  <2>1. CASE core.alive /\ core.parked # None /\ core.attempt.k = "idle"
    <3>1. /\ Polled.core = [core EXCEPT !.attempt = InFlight(core.parked.epoch)]
          /\ Polled.effect = Emit(core.root, core.parked)
      BY <1>3, <2>1 DEF Polled, poll_effect
    <3> QED BY <2>1, <3>1 DEF Emit
  <2>2. CASE /\ ~(core.alive /\ core.parked # None /\ core.attempt.k = "idle")
             /\ core.dying # None /\ core.dying.attempt.k = "idle"
    <3>1. /\ Polled.core = [core EXCEPT !.dying.attempt = InFlight(core.dying.change.epoch)]
          /\ Polled.effect = Emit(core.dying.root, core.dying.change)
      BY <1>3, <2>2 DEF Polled, poll_effect
    <3> QED BY <1>1, <2>2, <3>1 DEF Emit
  <2>3. CASE /\ ~(core.alive /\ core.parked # None /\ core.attempt.k = "idle")
             /\ ~(core.dying # None /\ core.dying.attempt.k = "idle")
    <3>1. Polled.effect = None
      BY <1>3, <2>3 DEF Polled, poll_effect
    <3> QED BY <1>3, <3>1 DEF None
  <2> QED BY <2>1, <2>2, <2>3
<1> QED BY <1>2, <1>3

\* A refresh asked for: a probe goes out, is declined, or is for a stream that is
\* no longer there.
LEMMA RefreshMountsStep ==
    ASSUME IInv, RefreshMounts PROVE IInv'
<1> DEFINE c == Polled.core
           e == Polled.effect
           current == c.alive /\ c.inc = e.inc
           verdict == claim(probes)
<1>1. /\ stale' = stale /\ events' = events /\ wanted' = wanted /\ open' = open /\ told' = told
      /\ core' = IF current /\ verdict # "ok" THEN on_refresh_declined(c, verdict) ELSE c
      /\ probes' = IF current /\ verdict = "ok"
                   THEN [probes EXCEPT !.flight = @ \cup {[tag |-> probes.tag, inc |-> c.inc]}]
                   ELSE probes
      /\ e.k = "refresh"
  BY DEF RefreshMounts, EffectTurn
<1>2. /\ Sound(core) /\ Watch(core, probes) /\ ProbesTyped(probes) /\ Current(core, probes)
  BY Invariant, ProbesKnown
<1>3. core.effects # <<>>
  BY <1>1, PolledOf
<1>4. Pops(core, c) /\ e = Head(core.effects)
  BY <1>3, PolledOf
<1> HIDE DEF c, e
<1>5. /\ Sound(c) /\ Keeps(core, c, {"effects"})
      /\ e = core.effects[1]
      /\ \A i \in DOMAIN core.effects :
            i = 1 \/ \E j \in DOMAIN c.effects : i = j + 1 /\ c.effects[j] = core.effects[i]
  BY <1>2, <1>3, <1>4, Popped
<1>6. ~IsEmit(e)
  BY <1>1 DEF IsEmit
<1>7. Follows(core, c)
  BY <1>2, <1>3, <1>4, <1>6, PoppedFollows
<1>8. c.dying = core.dying /\ c.alive = core.alive /\ c.inc = core.inc /\ c.inc \in Nat
  BY <1>2, <1>5, SoundParts DEF Keeps, CoreFields
<1>9. Current(c, probes)
  BY <1>2, <1>8 DEF Current
<1>10. CASE current /\ verdict # "ok"
  <2>1. core' = on_refresh_declined(c, verdict) /\ probes' = probes
    BY <1>1, <1>10
  <2>2. /\ Follows(c, core') /\ Watch(core', probes)
        /\ Keeps(c, core', {"pending", "deadline", "recovered", "report_owed", "effects", "epoch", "parked"})
    BY <1>5, <1>9, <2>1, DeclinedFollows
  <2>3. Follows(core, core')
    BY <1>2, <1>7, <2>2, FollowsTrans
  <2>4. core'.dying = core.dying
    BY <1>8, <2>2 DEF Keeps, CoreFields
  <2> QED BY <1>1, <1>2, <2>1, <2>2, <2>3, <2>4, ArmStep
<1>11. CASE current /\ verdict = "ok"
  <2> DEFINE g == [tag |-> probes.tag, inc |-> c.inc]
  <2>1. core' = c /\ probes' = [probes EXCEPT !.flight = @ \cup {g}]
    BY <1>1, <1>11
  <2>2. g.tag = probes.tag /\ g.inc = c.inc
    OBVIOUS
  <2> HIDE DEF g
  <2>3. /\ ProbesTyped(probes') /\ probes'.tag = probes.tag
        /\ probes'.flight = probes.flight \cup {g}
    <3>1. probes = [x \in {"tag", "flight"} |-> probes[x]]
      BY <1>2 DEF ProbesTyped
    <3>2. probes'.tag = probes.tag /\ probes'.flight = probes.flight \cup {g}
      BY <2>1, <3>1
    <3>3. probes' = [x \in {"tag", "flight"} |-> probes'[x]]
      BY <2>1, <3>1
    <3>4. probes.tag \in Nat /\ \A f \in probes.flight : f.tag \in Nat /\ f.tag <= probes.tag
      BY <1>2 DEF ProbesTyped
    <3>5. \A f \in probes'.flight : f.tag \in Nat /\ f.tag <= probes'.tag
      BY <2>2, <3>2, <3>4
    <3> QED BY <3>2, <3>3, <3>4, <3>5 DEF ProbesTyped
  <2>4. Watch(core', probes')
    <3>1. \E f \in probes'.flight : f.tag = probes'.tag
      BY <2>2, <2>3
    <3>2. c.alive => \A f \in probes'.flight : f.tag = probes'.tag => f.inc = c.inc
      BY <1>9, <2>2, <2>3 DEF Current
    <3>3. c.alive /\ c.spawned /\ ~c.pending => (Ticked(c) => c.deadline)
      <4>1. c.spawned = core.spawned /\ c.pending = core.pending /\ c.backend = core.backend /\ c.deadline = core.deadline
        BY <1>5 DEF Keeps, CoreFields
      <4> QED BY <1>2, <1>8, <4>1 DEF Watch, Ticked
    <3> QED BY <2>1, <3>1, <3>2, <3>3 DEF Watch
  <2> QED BY <1>1, <1>2, <1>7, <1>8, <2>1, <2>3, <2>4, ArmStep
<1>12. CASE ~current
  <2>1. core' = c /\ probes' = probes
    BY <1>1, <1>12
  <2>2. Watch(c, probes)
    <3>1. CASE ~c.alive
      BY <3>1 DEF Watch
    <3>2. CASE c.inc # e.inc
      <4>1. /\ c.spawned = core.spawned /\ c.pending = core.pending /\ c.backend = core.backend
            /\ c.deadline = core.deadline /\ c.alive = core.alive /\ c.inc = core.inc
        BY <1>5 DEF Keeps, CoreFields
      <4>2. (\E i \in DOMAIN core.effects : core.effects[i].k = "refresh" /\ core.effects[i].inc = core.inc) =>
            (\E j \in DOMAIN c.effects : c.effects[j].k = "refresh" /\ c.effects[j].inc = c.inc)
        <5> SUFFICES ASSUME NEW i \in DOMAIN core.effects, core.effects[i].k = "refresh",
                            core.effects[i].inc = core.inc
                     PROVE  \E j \in DOMAIN c.effects : c.effects[j].k = "refresh" /\ c.effects[j].inc = c.inc
          OBVIOUS
        <5>1. i # 1
          BY <1>5, <3>2, <4>1
        <5>2. PICK j \in DOMAIN c.effects : c.effects[j] = core.effects[i]
          BY <1>5, <5>1
        <5> QED BY <4>1, <5>2
      <4> QED BY <1>2, <4>1, <4>2 DEF Watch, Ticked
    <3> QED BY <1>12, <3>1, <3>2
  <2> QED BY <1>1, <1>2, <1>7, <1>8, <2>1, <2>2, ArmStep
<1> QED BY <1>10, <1>11, <1>12

\* The stream of a dead scope is torn down and its probes retired.
LEMMA TeardownStep ==
    ASSUME IInv, TeardownStream PROVE IInv'
<1> DEFINE c == Polled.core
           e == Polled.effect
<1>1. /\ stale' = stale /\ events' = events /\ wanted' = wanted /\ open' = open /\ told' = told
      /\ core' = c /\ probes' = retire_generation(probes)
      /\ e.k = "teardown"
  BY DEF TeardownStream, EffectTurn
<1>2. /\ Sound(core) /\ Armed(core) /\ ProbesTyped(probes)
  BY Invariant, ProbesKnown, SoundParts
<1>3. core.effects # <<>>
  BY <1>1, PolledOf
<1>4. Pops(core, c) /\ e = Head(core.effects)
  BY <1>3, PolledOf
<1> HIDE DEF c, e
<1>5. /\ Keeps(core, c, {"effects"}) /\ e = core.effects[1] /\ 1 \in DOMAIN core.effects
  BY <1>2, <1>3, <1>4, Popped
<1>6. ~IsEmit(e)
  BY <1>1 DEF IsEmit
<1>7. Follows(core, c)
  BY <1>2, <1>3, <1>4, <1>6, PoppedFollows
<1>8. ~core.alive
  BY <1>1, <1>2, <1>5 DEF Armed
<1>9. c.dying = core.dying /\ ~c.alive
  BY <1>5, <1>8 DEF Keeps, CoreFields
<1>10. Watch(core', probes')
  BY <1>1, <1>9 DEF Watch
<1>11. ProbesTyped(probes')
  BY <1>1, <1>2, Retired
<1> QED BY <1>1, <1>7, <1>9, <1>10, <1>11, ArmStep

\* A refused event sends the root into lag: the emissions queued are withdrawn
\* and one Rescan of the whole root waits in their place.
LEMMA FallsBehind ==
    ASSUME NEW c, Sound(c), c.alive, c.live
    PROVE  LET d == on_overflow(purge_scope_emits([c EXCEPT !.lag = "lagged", !.parked = None,
                                                            !.attempt = IdleAttempt]))
           IN  /\ Sound(d) /\ d.alive /\ d.live /\ d.lag = "lagged" /\ d.root = c.root
               /\ Emits(d.effects) = {} /\ d.epoch = c.epoch + 1 /\ d.dying = c.dying
               /\ \A pr : Watch(c, pr) => Watch(d, pr)
<1> DEFINE x == [c EXCEPT !.lag = "lagged", !.parked = None, !.attempt = IdleAttempt]
           y == purge_scope_emits(x)
           z == [y EXCEPT !.epoch = @ + 1]
           ch == [loc |-> <<>>, rescan |-> TRUE, epoch |-> y.epoch + 1]
           d == on_overflow(y)
<1>1. CoreTyped(c) /\ Lagging(c) /\ Ordered(c) /\ Armed(c) /\ c.epoch \in Nat /\ c.root \in {Root, Wide}
  BY SoundParts
<1>2. /\ x = [f \in CoreFields |-> x[f]] /\ Keeps(c, x, {"lag", "parked", "attempt"})
      /\ x.lag = "lagged" /\ x.parked = None
  BY <1>1 DEF CoreTyped, CoreFields, Keeps
<1> HIDE DEF x
<1>3. CoreTyped(x)
  BY <1>1, <1>2 DEF CoreTyped, CoreFields, Keeps
<1>4. /\ CoreTyped(y) /\ Keeps(x, y, {"effects"})
      /\ \E f \in [DOMAIN y.effects -> DOMAIN x.effects] :
            /\ \A n \in DOMAIN y.effects : y.effects[n] = x.effects[f[n]] /\ x.effects[f[n]].k # "emit"
            /\ \A m, n \in DOMAIN y.effects : m < n => f[m] < f[n]
            /\ \A i \in DOMAIN x.effects :
                  x.effects[i].k # "emit" => \E n \in DOMAIN y.effects : f[n] = i
  BY <1>3, Purged DEF purge_scope_emits
<1>5. d = route_event(z, ch)
  BY DEF on_overflow, emit_rescan
<1> HIDE DEF y, d
<1>6. /\ y.alive = c.alive /\ y.live = c.live /\ y.lag = "lagged" /\ y.parked = None
      /\ y.epoch = c.epoch /\ y.root = c.root /\ y.dying = c.dying /\ x.effects = c.effects
      /\ y.spawned = c.spawned /\ y.arming = c.arming /\ y.widen = c.widen
      /\ y.pending = c.pending /\ y.deadline = c.deadline /\ y.inc = c.inc
  BY ZenonT(30), <1>2, <1>4 DEF Keeps, CoreFields
<1>7. z = [f \in CoreFields |-> z[f]] /\ Keeps(y, z, {"epoch"}) /\ z.epoch = c.epoch + 1
  BY <1>4, <1>6 DEF CoreTyped, CoreFields, Keeps
<1> HIDE DEF z
<1>8. z.alive /\ z.live /\ z.lag # "normal" /\ z.parked = None
  BY <1>6, <1>7 DEF Keeps, CoreFields
<1>9. d = [z EXCEPT !.parked = ch]
  <2>1. ch.rescan /\ z = [f \in CoreFields |-> z[f]]
    BY <1>7
  <2> HIDE DEF ch
  <2>2. route_event(z, ch) = [z EXCEPT !.parked = IF @ = None THEN ch ELSE covering_merge(@, ch)]
    BY <1>8, <2>1 DEF route_event
  <2> QED BY <1>5, <1>8, <2>1, <2>2 DEF CoreFields
<1>10. ch \in Change /\ ch.rescan /\ ch.loc = <<>> /\ ch.epoch = c.epoch + 1
  BY <1>1, <1>6 DEF Change
<1>11. ch # None
  <2>1. DOMAIN ch = {"loc", "rescan", "epoch"} /\ DOMAIN None = {"k"}
    BY DEF None
  <2> QED BY <2>1
<1> HIDE DEF ch
<1>12. d = [f \in CoreFields |-> d[f]] /\ Keeps(z, d, {"parked"}) /\ d.parked = ch
  BY <1>7, <1>9 DEF Keeps, CoreFields
<1>13. /\ d.alive /\ d.live /\ d.lag = "lagged" /\ d.root = c.root /\ d.epoch = c.epoch + 1
       /\ d.dying = c.dying /\ d.effects = y.effects /\ d.spawned = c.spawned /\ d.arming = c.arming
       /\ d.widen = c.widen /\ d.pending = c.pending /\ d.deadline = c.deadline /\ d.inc = c.inc
  <2>1. Keeps(y, d, {"epoch", "parked"}) /\ d.epoch = z.epoch
    <3>1. \A f \in CoreFields \ {"epoch", "parked"} : z[f] = y[f] /\ d[f] = z[f]
      BY <1>7, <1>12 DEF Keeps
    <3>2. d.epoch = z.epoch
      BY <1>12 DEF Keeps, CoreFields
    <3> QED BY <3>1, <3>2 DEF Keeps
  <2> QED BY ZenonT(30), <1>6, <1>7, <2>1 DEF Keeps, CoreFields
<1>14. CoreTyped(d)
  BY <1>1, <1>4, <1>10, <1>12, <1>13 DEF CoreTyped
<1>15. Emits(d.effects) = {} /\ \A n \in DOMAIN d.effects : \E i \in DOMAIN c.effects : d.effects[n] = c.effects[i]
  <2>1. \A n \in DOMAIN d.effects : d.effects[n].k # "emit" /\ \E i \in DOMAIN c.effects : d.effects[n] = c.effects[i]
    BY <1>4, <1>6, <1>13
  <2> QED BY <2>1 DEF Emits, IsEmit
<1>16. Lagging(d)
  BY <1>1, <1>10, <1>11, <1>12, <1>13, <1>15 DEF Lagging
<1>17. Armed(d)
  BY <1>1, <1>13, <1>15 DEF Armed
<1>18. Ordered(d)
  <2>1. Rescans(d.effects) = {}
    BY <1>15 DEF Emits, Rescans, IsEmit, IsRescanEmit
  <2>2. d.dying = None
    BY <1>1, <1>13 DEF Lagging
  <2>3. InOrder(d.effects, d.epoch) /\ LastIs(d.effects, d.epoch)
    BY <1>15, <2>1 DEF InOrder, LastIs
  <2> QED BY <1>10, <1>12, <1>13, <2>2, <2>3, OrderedParts
<1>19. Sound(d)
  BY <1>14, <1>16, <1>17, <1>18 DEF Sound
<1>20. \A pr : Watch(c, pr) => Watch(d, pr)
  <2>1. Keeps(c, d, {"lag", "parked", "attempt", "effects", "epoch"})
    BY <1>2, <1>4, <1>7, <1>12 DEF Keeps
  <2>2. Keeps(c, d, CoreFields \ {"alive", "spawned", "pending", "inc", "backend", "deadline"})
    BY <2>1 DEF Keeps
  <2>3. \A i \in DOMAIN c.effects : c.effects[i].k = "refresh" =>
           \E j \in DOMAIN d.effects : d.effects[j] = c.effects[i]
    <3> SUFFICES ASSUME NEW i \in DOMAIN c.effects, c.effects[i].k = "refresh"
                 PROVE  \E j \in DOMAIN d.effects : d.effects[j] = c.effects[i]
      OBVIOUS
    <3>1. i \in DOMAIN x.effects /\ x.effects[i].k # "emit"
      BY <1>6
    <3>2. \E n \in DOMAIN y.effects : y.effects[n] = x.effects[i]
      BY <1>4, <3>1
    <3> QED BY <1>6, <1>13, <3>2
  <2> QED BY <2>2, <2>3, WatchKept
<1>21. /\ Sound(d) /\ d.alive /\ d.live /\ d.lag = "lagged" /\ d.root = c.root
       /\ Emits(d.effects) = {} /\ d.epoch = c.epoch + 1 /\ d.dying = c.dying
       /\ \A pr : Watch(c, pr) => Watch(d, pr)
  BY <1>13, <1>15, <1>19, <1>20
<1> QED BY <1>21 DEF d, y, x

\* The delivery of a dead scope's last Rescan is tried, or has failed.
LEMMA DyingTried ==
    ASSUME NEW c, Sound(c), ~c.alive, c.dying # None, NEW a, NEW d, Keeps(c, d, {"dying"}),
           d = [f \in CoreFields |-> d[f]], d.dying = [c.dying EXCEPT !.attempt = a]
    PROVE  Follows(c, d) /\ d.dying # None /\ d.dying.attempt = a /\ \A pr : Watch(d, pr)
<1>1. CoreTyped(c) /\ Lagging(c) /\ Ordered(c) /\ Armed(c)
  BY SoundParts
<1>2. c.dying = [f \in {"k", "root", "change", "attempt"} |-> c.dying[f]]
  BY <1>1 DEF CoreTyped
<1>3. /\ d.dying = [f \in {"k", "root", "change", "attempt"} |-> d.dying[f]]
      /\ d.dying.root = c.dying.root /\ d.dying.change = c.dying.change /\ d.dying.attempt = a
  BY <1>2
<1>4. d.dying # None
  <2>1. DOMAIN d.dying = {"k", "root", "change", "attempt"} /\ DOMAIN None = {"k"}
    BY <1>3 DEF None
  <2> QED BY <2>1
<1>5. /\ d.root = c.root /\ d.inc = c.inc /\ d.epoch = c.epoch
      /\ d.effects = c.effects /\ d.parked = c.parked /\ d.alive = c.alive
      /\ d.live = c.live /\ d.lag = c.lag /\ d.arming = c.arming
      /\ d.spawned = c.spawned /\ d.widen = c.widen
      /\ d.pending = c.pending /\ d.deadline = c.deadline
  BY DEF Keeps, CoreFields
<1>6. CoreTyped(d)
  BY <1>1, <1>3, <1>5 DEF CoreTyped
<1>7. Lagging(d) /\ Armed(d)
  BY <1>1, <1>5 DEF Lagging, Armed
<1>8. Ordered(d)
  BY <1>1, <1>3, <1>5 DEF Ordered
<1>9. \A p : Waits(c, p) => Waits(d, p)
  BY <1>3, <1>4, <1>5 DEF Waits
<1>10. c.epoch <= d.epoch /\ StartsWith(c.root, d.root)
  BY <1>5, FollowsSelf DEF Follows
<1>11. Follows(c, d)
  BY <1>5, <1>6, <1>7, <1>8, <1>9, <1>10 DEF Follows, Sound
<1>12. \A pr : Watch(d, pr)
  BY <1>5 DEF Watch
<1> QED BY <1>3, <1>4, <1>11, <1>12

\* What of the reader's an accepted event tells, and what still waits.
LEMMA TakenStep ==
    ASSUME IInv, Moves(core, core'), Watch(core', probes'), ProbesTyped(probes'),
           core'.root = core.root, core'.alive = core.alive, core'.live = core.live, Settled',
           NEW e \in Emission, events' = Append(events, e),
           wanted' = wanted, open' = open, told' = told, stale' = stale,
           told <= e.change.epoch, e.change.epoch <= core'.epoch,
           \A i \in DOMAIN events : events[i].change.epoch <= e.change.epoch,
           \A j \in Emits(core'.effects) : e.change.epoch <= core'.effects[j].change.epoch,
           \A p \in Known : StartsWith(p, core.root) /\ Waits(core, p) => Waits(core', p) \/ Speaks(e, p)
    PROVE  IInv'
<1>1. /\ Sound(core) /\ RestTyped /\ OwedBelow /\ Carried /\ EpochsInOrder /\ core.epoch \in Nat
  BY Invariant
<1>2. /\ Sound(core') /\ core.epoch <= core'.epoch
      /\ \A j \in Emits(core'.effects) :
            \/ core.epoch <= core'.effects[j].change.epoch
            \/ \E i \in Emits(core.effects) : core'.effects[j] = core.effects[i]
  BY DEF Moves
<1>3. /\ events \in Seq(Emission) /\ events' \in Seq(Emission)
      /\ DOMAIN events = 1 .. Len(events) /\ Len(events) \in Nat
      /\ DOMAIN events' = DOMAIN events \cup {Len(events) + 1}
      /\ \A i \in DOMAIN events : events'[i] = events[i] /\ i < Len(events) + 1
      /\ events'[Len(events) + 1] = e
  BY <1>1 DEF RestTyped
<1>4. RestTyped'
  BY <1>1, <1>3 DEF RestTyped, ProbesTyped
<1>5. OwedBelow'
  BY <1>1 DEF OwedBelow
<1>6. Carried'
  <2> SUFFICES ASSUME NEW p \in stale
               PROVE  Waits(core', p) \/ \E i \in DOMAIN events' : Speaks(events'[i], p)
    BY DEF Carried
  <2>1. p \in Known /\ StartsWith(p, core.root)
    BY <1>1 DEF RestTyped, OwedBelow
  <2>2. Waits(core, p) \/ \E i \in DOMAIN events : Speaks(events[i], p)
    BY <1>1 DEF Carried
  <2>3. Waits(core, p) => Waits(core', p) \/ Speaks(e, p)
    BY <2>1
  <2>4. ASSUME NEW i \in DOMAIN events, Speaks(events[i], p) PROVE \E j \in DOMAIN events' : Speaks(events'[j], p)
    <3>1. i \in DOMAIN events' /\ events'[i] = events[i]
      BY <1>3
    <3> QED BY <2>4, <3>1
  <2>5. Speaks(e, p) => \E j \in DOMAIN events' : Speaks(events'[j], p)
    BY <1>3
  <2> QED BY <2>2, <2>3, <2>4, <2>5
<1>7. EpochsInOrder'
  <2>1. core'.effects \in Seq(Effect) /\ core'.epoch \in Nat
    BY <1>2, SoundParts
  <2>2. \A i \in DOMAIN events : events[i].change.epoch \in Nat
    <3>1. \A i \in DOMAIN events : events[i] \in Emission
      BY <1>3
    <3> QED BY <3>1 DEF Emission, Change
  <2>3. \A j \in Emits(core'.effects) : core'.effects[j].change.epoch \in Nat
    BY <2>1, Effects1 DEF Emits
  <2>4. told \in Nat /\ e.change.epoch \in Nat
    BY <1>1 DEF RestTyped, Emission, Change
  <2> DEFINE g(i) == events'[i].change.epoch
             n == Len(events) + 1
             h(j) == core'.effects[j].change.epoch
             x == e.change.epoch
  <2>5. \A i \in DOMAIN events : g(i) = events[i].change.epoch /\ g(i) \in Nat /\ g(i) <= x
    BY <1>3, <2>2
  <2>6. g(n) = x /\ x \in Nat
    BY <1>3, <2>4
  <2>7. \A i \in DOMAIN events : told <= g(i) /\ g(i) <= core.epoch
    BY <1>1, <2>5 DEF EpochsInOrder
  <2>8. \A i, j \in DOMAIN events : i < j => g(i) <= g(j)
    BY <1>1, <2>5 DEF EpochsInOrder
  <2>9. \A j \in Emits(core'.effects) : x <= h(j) /\ h(j) \in Nat
    BY <2>3
  <2>10. DOMAIN events' = DOMAIN events \cup {n} /\ n \in Nat /\ \A i \in DOMAIN events : i < n /\ i \in Nat
    BY <1>3
  <2>11. told <= x /\ x <= core'.epoch
    OBVIOUS
  <2> HIDE DEF g, h, n, x
  <2>12. \A i \in DOMAIN events' : told <= g(i) /\ g(i) <= core'.epoch
    BY <1>1, <1>2, <2>1, <2>5, <2>6, <2>7, <2>10, <2>11
  <2>13. \A i, j \in DOMAIN events' : i < j => g(i) <= g(j)
    BY <2>5, <2>6, <2>8, <2>10
  <2>14. \A i \in DOMAIN events', j \in Emits(core'.effects) : g(i) <= h(j)
    BY <2>5, <2>6, <2>9, <2>10
  <2>15. \A j \in Emits(core'.effects) : told <= h(j)
    BY <2>4, <2>6, <2>9, <2>11
  <2>16. told <= core'.epoch
    BY <2>1, <2>4, <2>6, <2>11
  <2>17. told' = told
    OBVIOUS
  <2> QED BY <2>12, <2>13, <2>14, <2>15, <2>16, <2>17 DEF EpochsInOrder, g, h
<1>8. ProbesSound'
  BY DEF ProbesSound, LivenessKept, VerdictIsCurrent, Watch, ToSet, IsRefresh
<1> QED BY <1>2, <1>4, <1>5, <1>6, <1>7, <1>8 DEF IInv

\* What the channel is handed lies between what is in it and what is behind.
LEMMA HandedInOrder ==
    ASSUME IInv, core.effects # <<>>, IsEmit(Head(core.effects)), NEW d, Pops(core, d)
    PROVE  /\ Head(core.effects) \in Emission
           /\ told <= Head(core.effects).change.epoch /\ Head(core.effects).change.epoch <= core.epoch
           /\ \A i \in DOMAIN events : events[i].change.epoch <= Head(core.effects).change.epoch
           /\ \A j \in Emits(d.effects) : Head(core.effects).change.epoch <= d.effects[j].change.epoch
           /\ \A i \in Emits(core.effects) : i = 1 \/ \E j \in Emits(d.effects) : d.effects[j] = core.effects[i]
           /\ 1 \in Emits(core.effects) /\ core.effects[1] = Head(core.effects)
<1>1. /\ Sound(core) /\ EpochsInOrder /\ core.effects \in Seq(Effect) /\ Ordered(core)
  BY Invariant, SoundParts
<1>2. /\ Head(core.effects) \in Effect /\ Head(core.effects) = core.effects[1] /\ 1 \in DOMAIN core.effects
      /\ \A j \in DOMAIN d.effects : j + 1 \in DOMAIN core.effects /\ d.effects[j] = core.effects[j + 1]
      /\ \A i \in DOMAIN core.effects :
            i = 1 \/ \E j \in DOMAIN d.effects : i = j + 1 /\ d.effects[j] = core.effects[i]
  BY <1>1, Popped
<1>3. 1 \in Emits(core.effects)
  BY <1>2 DEF Emits
<1>4. Head(core.effects) \in Emission
  BY <1>2, Effects1
<1>5. told <= Head(core.effects).change.epoch /\ Head(core.effects).change.epoch <= core.epoch
  BY <1>1, <1>2, <1>3 DEF EpochsInOrder, Ordered
<1>6. \A i \in DOMAIN events : events[i].change.epoch <= Head(core.effects).change.epoch
  BY <1>1, <1>2, <1>3 DEF EpochsInOrder
<1>7. ASSUME NEW j \in Emits(d.effects) PROVE Head(core.effects).change.epoch <= d.effects[j].change.epoch
  <2>1. j \in DOMAIN d.effects /\ IsEmit(d.effects[j])
    BY <1>7 DEF Emits
  <2>2. j + 1 \in Emits(core.effects) /\ d.effects[j] = core.effects[j + 1]
    BY <1>2, <2>1 DEF Emits
  <2>3. d.effects \in Seq(Effect)
    BY <1>1, Popped, SoundParts
  <2>4. 1 < j + 1
    BY <2>1, <2>3
  <2> QED BY <1>1, <1>2, <1>3, <2>2, <2>4 DEF Ordered
<1>8. ASSUME NEW i \in Emits(core.effects), i # 1 PROVE \E j \in Emits(d.effects) : d.effects[j] = core.effects[i]
  <2>1. i \in DOMAIN core.effects /\ IsEmit(core.effects[i])
    BY <1>8 DEF Emits
  <2>2. PICK j \in DOMAIN d.effects : d.effects[j] = core.effects[i]
    BY <1>2, <1>8, <2>1
  <2> QED BY <2>1, <2>2 DEF Emits
<1> QED BY <1>2, <1>3, <1>4, <1>5, <1>6, <1>7, <1>8

\* The first effect is an event and the driver hands it on.
LEMMA QueuedStep ==
    ASSUME IInv, Deliver, core.effects # <<>> PROVE IInv'
<1> DEFINE c == Polled.core
           e == Polled.effect
           acc == Len(events) < EVENT_CAPACITY
<1>1. /\ stale' = stale /\ probes' = probes /\ wanted' = wanted /\ open' = open /\ told' = told
      /\ core' = IF open THEN on_delivery(c, acc) ELSE c
      /\ events' = IF open /\ acc THEN Append(events, e) ELSE events
      /\ e.k = "emit"
  BY DEF Deliver, EffectTurn
<1>2. /\ Sound(core) /\ Lagging(core) /\ Watch(core, probes) /\ ProbesTyped(probes) /\ Settled
      /\ RestTyped /\ OwedBelow /\ Carried /\ core.epoch \in Nat
  BY Invariant, ProbesKnown
<1>3. Pops(core, c) /\ e = Head(core.effects)
  BY PolledOf
<1> HIDE DEF c, e, acc
<1>4. IsEmit(e)
  BY <1>1 DEF IsEmit
<1>5. /\ e \in Emission /\ told <= e.change.epoch /\ e.change.epoch <= core.epoch
      /\ \A i \in DOMAIN events : events[i].change.epoch <= e.change.epoch
      /\ \A j \in Emits(c.effects) : e.change.epoch <= c.effects[j].change.epoch
      /\ \A i \in Emits(core.effects) : i = 1 \/ \E j \in Emits(c.effects) : c.effects[j] = core.effects[i]
      /\ 1 \in Emits(core.effects) /\ core.effects[1] = e
  BY <1>3, <1>4, HandedInOrder
<1>6. /\ Sound(c) /\ Keeps(core, c, {"effects"}) /\ Moves(core, c)
      /\ \A i \in DOMAIN core.effects :
            i = 1 \/ \E j \in DOMAIN c.effects : i = j + 1 /\ c.effects[j] = core.effects[i]
  BY <1>2, <1>3, Popped
<1>7. /\ c.root = core.root /\ c.epoch = core.epoch /\ c.dying = core.dying
      /\ c.alive = core.alive /\ c.live = core.live /\ c.lag = core.lag
  BY <1>6 DEF Keeps, CoreFields
<1>8. Watch(c, probes)
  <2>1. Keeps(core, c, CoreFields \ {"alive", "spawned", "pending", "inc", "backend", "deadline"})
    BY <1>6 DEF Keeps
  <2>2. \A i \in DOMAIN core.effects : core.effects[i].k = "refresh" =>
           \E j \in DOMAIN c.effects : c.effects[j] = core.effects[i]
    BY <1>1, <1>5, <1>6
  <2> QED BY <1>2, <2>1, <2>2, WatchKept
<1>9. CASE ~open
  <2>1. core' = c /\ events' = events
    BY <1>1, <1>9
  <2>2. stale = {} /\ ~wanted
    BY <1>2, <1>9 DEF OwedBelow
  <2>3. EpochsInOrder'
    BY <1>1, <1>6, <2>1, OrderKept
  <2>4. RestTyped' /\ OwedBelow' /\ Carried' /\ Settled'
    BY <1>1, <1>2, <1>9, <2>1, <2>2 DEF RestTyped, OwedBelow, Carried, Settled
  <2>5. ProbesSound'
    BY <1>1, <1>8, <2>1 DEF ProbesSound, LivenessKept, VerdictIsCurrent, Watch, ToSet, IsRefresh
  <2> QED BY <1>6, <2>1, <2>3, <2>4, <2>5 DEF IInv
<1>10. CASE open /\ ~core.alive
  <2>1. core' = c
    BY <1>1, <1>2, <1>7, <1>10 DEF on_delivery, Settled
  <2>2. Follows(core, c)
    BY <1>2, <1>3, <1>10, PoppedFollows
  <2>3. Settled'
    BY <1>1, <1>2, <1>7, <2>1 DEF Settled
  <2>4. CASE ~acc
    <3>1. events' = events
      BY <1>1, <2>4
    <3> QED BY <1>1, <1>2, <1>8, <2>1, <2>2, <2>3, <3>1, CoreStep
  <2>5. CASE acc
    <3>1. events' = Append(events, e)
      BY <1>1, <1>10, <2>5
    <3>2. \A p \in Known : StartsWith(p, core.root) /\ Waits(core, p) => Waits(core', p) \/ Speaks(e, p)
      BY <2>1, <2>2 DEF Follows
    <3> QED BY <1>1, <1>2, <1>5, <1>6, <1>7, <1>8, <2>1, <2>3, <3>1, <3>2, TakenStep
  <2> QED BY <2>4, <2>5
<1>11. CASE open /\ core.alive
  <2>1. core.lag = "normal" /\ core.live
    BY <1>2, <1>5, <1>11 DEF Lagging
  <2>2. c.alive /\ c.lag = "normal" /\ c.live /\ c.dying = None
    BY <1>2, <1>7, <1>11, <2>1 DEF Lagging
  <2>3. CASE ~acc
    <3> DEFINE d == on_overflow(purge_scope_emits([c EXCEPT !.lag = "lagged", !.parked = None,
                                                            !.attempt = IdleAttempt]))
    <3>1. core' = d /\ events' = events
      BY <1>1, <1>11, <2>2, <2>3 DEF on_delivery
    <3>2. /\ Sound(d) /\ d.alive /\ d.live /\ d.lag = "lagged" /\ d.root = c.root
          /\ Emits(d.effects) = {} /\ d.epoch = c.epoch + 1 /\ d.dying = c.dying
          /\ \A pr : Watch(c, pr) => Watch(d, pr)
      BY <1>6, <2>2, FallsBehind
    <3> HIDE DEF d
    <3>3. core.epoch <= d.epoch /\ StartsWith(core.root, d.root)
      <4>1. StartsWith(core.root, core.root)
        BY <1>2, FollowsSelf DEF Follows
      <4> QED BY <1>2, <1>7, <3>2, <4>1
    <3>4. \A p : Waits(d, p)
      BY <3>2 DEF Waits
    <3>5. Follows(core, d)
      BY <1>11, <3>2, <3>3, <3>4 DEF Follows
    <3> QED BY <1>1, <1>2, <1>7, <1>8, <3>1, <3>2, <3>5, ArmStep
  <2>4. CASE acc
    <3>1. core' = [c EXCEPT !.report_owed = @ /\ ~acc] /\ events' = Append(events, e)
      BY <1>1, <1>11, <2>2, <2>4 DEF on_delivery
    <3>2. CoreTyped(c) /\ Lagging(c)
      BY <1>6, SoundParts
    <3>3. CoreTyped(core') /\ Keeps(c, core', {"report_owed"})
      BY <3>1, <3>2 DEF CoreTyped, CoreFields, Keeps
    <3>4. Keeps(c, core', {"attempt", "refresh_stale", "authoritative", "recovered", "report_owed", "widen"})
      BY <3>3 DEF Keeps
    <3>5. Follows(c, core') /\ Watch(core', probes)
      BY <1>6, <1>8, <2>2, <3>3, <3>4, Idle
    <3>6. /\ core'.root = core.root /\ core'.alive = core.alive /\ core'.live = core.live
          /\ core'.effects = c.effects /\ core'.lag = "normal" /\ core'.dying = None
          /\ core'.epoch = core.epoch
      BY <1>7, <2>2, <3>3 DEF Keeps, CoreFields
    <3>7. Moves(core, core')
      <4>1. \A j \in Emits(c.effects) :
               \/ core.epoch <= c.effects[j].change.epoch
               \/ \E i \in Emits(core.effects) : c.effects[j] = core.effects[i]
        BY <1>6 DEF Moves
      <4>2. Sound(core') /\ core.epoch <= core'.epoch
        BY <1>2, <3>5, <3>6 DEF Follows
      <4> QED BY <3>6, <4>1, <4>2 DEF Moves
    <3>8. \A p \in Known : StartsWith(p, core.root) /\ Waits(core, p) => Waits(core', p) \/ Speaks(e, p)
      <4> SUFFICES ASSUME NEW p \in Known, Waits(core, p) PROVE Waits(core', p) \/ Speaks(e, p)
        OBVIOUS
      <4>1. core.dying = None
        BY <1>2, <1>11 DEF Lagging
      <4>2. PICK i \in Emits(core.effects) : Speaks(core.effects[i], p)
        BY <2>1, <4>1 DEF Waits
      <4>3. CASE i = 1
        BY <1>5, <4>2, <4>3
      <4>4. CASE i # 1
        <5>1. PICK j \in Emits(core'.effects) : core'.effects[j] = core.effects[i]
          BY <1>5, <3>6, <4>4
        <5>2. Speaks(core'.effects[j], p)
          BY <4>2, <5>1
        <5> QED BY <1>11, <3>6, <5>2 DEF Waits
      <4> QED BY <4>3, <4>4
    <3>9. Settled'
      BY <3>6 DEF Settled
    <3>10. /\ e.change.epoch <= core'.epoch
           /\ \A j \in Emits(core'.effects) : e.change.epoch <= core'.effects[j].change.epoch
      BY <1>5, <3>6
    <3>11. Watch(core', probes') /\ ProbesTyped(probes')
      BY <1>1, <1>2, <3>5
    <3> QED BY <1>1, <1>5, <3>1, <3>6, <3>7, <3>8, <3>9, <3>10, <3>11, TakenStep
  <2> QED BY <2>3, <2>4
<1> QED BY <1>9, <1>10, <1>11

\* The queue is empty and what waits behind the channel is tried.
LEMMA WaitingStep ==
    ASSUME IInv, Deliver, core.effects = <<>> PROVE IInv'
<1> DEFINE c == Polled.core
           e == Polled.effect
           acc == Len(events) < EVENT_CAPACITY
<1>1. /\ stale' = stale /\ probes' = probes /\ wanted' = wanted /\ open' = open /\ told' = told
      /\ core' = IF open THEN on_delivery(c, acc) ELSE c
      /\ events' = IF open /\ acc THEN Append(events, e) ELSE events
      /\ e.k = "emit"
  BY DEF Deliver, EffectTurn
<1>2. /\ Sound(core) /\ CoreTyped(core) /\ Lagging(core) /\ Ordered(core) /\ Armed(core)
      /\ Watch(core, probes) /\ ProbesTyped(probes)
      /\ Settled /\ RestTyped /\ OwedBelow /\ Carried /\ EpochsInOrder
      /\ core.epoch \in Nat /\ core.root \in {Root, Wide}
  BY Invariant, ProbesKnown, SoundParts
<1>3. \/ /\ core.alive /\ core.parked # None /\ core.attempt.k = "idle"
         /\ c = [core EXCEPT !.attempt = InFlight(core.parked.epoch)]
         /\ e = Emit(core.root, core.parked)
      \/ /\ core.dying # None /\ core.dying.attempt.k = "idle" /\ ~core.alive
         /\ c = [core EXCEPT !.dying.attempt = InFlight(core.dying.change.epoch)]
         /\ e = Emit(core.dying.root, core.dying.change)
  BY <1>1, PolledOf DEF None
<1> HIDE DEF c, e, acc
<1>4. Emits(core.effects) = {} /\ DOMAIN core.effects = {} /\ Rescans(core.effects) = {}
  BY DEF Emits, Rescans
<1>5. /\ told <= core.epoch /\ core.epoch \in Nat
      /\ \A i \in DOMAIN events : events[i].change.epoch <= core.epoch
  BY <1>2 DEF EpochsInOrder
<1>6. CASE core.alive
  <2> DEFINE n == InFlight(core.parked.epoch)
  <2>1. c = [core EXCEPT !.attempt = n] /\ e = Emit(core.root, core.parked) /\ core.parked # None
    BY <1>3, <1>6
  <2>2. core.lag = "lagged" /\ core.live /\ core.parked.loc = <<>> /\ core.parked.rescan /\ core.dying = None
    BY <1>2, <1>6, <2>1 DEF Lagging
  <2>3. ASSUME NEW a, core' = [core EXCEPT !.attempt = a], events' = events PROVE IInv'
    <3>1. CoreTyped(core') /\ Keeps(core, core', {"attempt"})
      BY <1>2, <2>3 DEF CoreTyped, CoreFields, Keeps
    <3>2. /\ Keeps(core, core', {"attempt", "refresh_stale", "authoritative", "recovered", "report_owed", "widen"})
          /\ core'.dying = core.dying
      BY <3>1 DEF Keeps, CoreFields
    <3>3. Follows(core, core') /\ Watch(core', probes)
      BY <1>2, <2>2, <3>1, <3>2, Idle
    <3> QED BY <1>1, <1>2, <2>3, <3>2, <3>3, ArmStep
  <2>4. c.alive /\ c.lag = "lagged" /\ c.attempt = n /\ c.parked = core.parked
    BY <1>2, <1>6, <2>1, <2>2 DEF CoreTyped, CoreFields
  <2>5. CASE ~open
    BY <1>1, <2>1, <2>3, <2>5
  <2>6. CASE open /\ ~acc
    <3>1. core' = [c EXCEPT !.attempt = SpentAttempt] /\ events' = events
      BY <1>1, <2>4, <2>6 DEF on_delivery
    <3>2. core' = [core EXCEPT !.attempt = SpentAttempt]
      BY <1>2, <2>1, <3>1 DEF CoreTyped, CoreFields
    <3> QED BY <2>3, <3>1, <3>2
  <2>7. CASE open /\ acc
    <3>1. c.attempt = InFlight(c.parked.epoch)
      BY <2>4
    <3>2. /\ core' = [[c EXCEPT !.report_owed = @ /\ ~acc] EXCEPT !.lag = "normal", !.parked = None,
                                                                  !.attempt = IdleAttempt]
          /\ events' = Append(events, e)
      BY <1>1, <2>4, <2>7, <3>1 DEF on_delivery
    <3>3. /\ core' = [f \in CoreFields |-> core'[f]]
          /\ Keeps(core, core', {"report_owed", "lag", "parked", "attempt"})
          /\ core'.lag = "normal" /\ core'.parked = None
      BY <1>2, <2>1, <3>2 DEF CoreTyped, CoreFields, Keeps
    <3>4. /\ core'.root = core.root /\ core'.inc = core.inc /\ core'.epoch = core.epoch
          /\ core'.effects = core.effects /\ core'.alive = core.alive
          /\ core'.live = core.live /\ core'.arming = core.arming
          /\ core'.spawned = core.spawned /\ core'.widen = core.widen /\ core'.dying = None
          /\ core'.pending = core.pending /\ core'.deadline = core.deadline
      BY <2>2, <3>3 DEF Keeps, CoreFields
    <3>5. CoreTyped(core')
      BY <1>2, <3>3, <3>4 DEF CoreTyped
    <3>6. Lagging(core') /\ Armed(core')
      BY <1>2, <3>3, <3>4 DEF Lagging, Armed
    <3>7. Ordered(core')
      BY <1>4, <3>3, <3>4 DEF Ordered
    <3>8. Sound(core')
      BY <3>5, <3>6, <3>7 DEF Sound
    <3>9. Moves(core, core')
      BY <1>4, <1>5, <3>4, <3>8 DEF Moves
    <3>10. Watch(core', probes')
      <4>1. Keeps(core, core', CoreFields \ {"alive", "spawned", "pending", "inc", "backend", "deadline"})
        BY <3>3 DEF Keeps
      <4> QED BY <1>1, <1>2, <3>4, <4>1, WatchKept
    <3>11. core.parked \in Change /\ core.parked.epoch = core.epoch
      BY <1>2, <2>1 DEF CoreTyped, Ordered
    <3>12. e \in Emission /\ e.change = core.parked /\ e.root = core.root
      BY <1>2, <2>1, <3>11, Emitted
    <3>13. ASSUME NEW p, StartsWith(p, core.root) PROVE Speaks(e, p)
      <4>1. core.root \o <<>> = core.root
        BY <1>2, SoundParts
      <4> QED BY <2>2, <3>12, <3>13, <4>1 DEF Speaks
    <3>14. Settled'
      BY <3>4 DEF Settled
    <3>15. /\ told <= e.change.epoch /\ e.change.epoch <= core'.epoch
           /\ \A i \in DOMAIN events : events[i].change.epoch <= e.change.epoch
           /\ \A j \in Emits(core'.effects) : e.change.epoch <= core'.effects[j].change.epoch
      BY <1>4, <1>5, <3>4, <3>11, <3>12
    <3>16. ProbesTyped(probes')
      BY <1>1, <1>2
    <3>17. core'.root = core.root /\ core'.alive = core.alive /\ core'.live = core.live
      BY <3>4
    <3>18. \A p \in Known : StartsWith(p, core.root) /\ Waits(core, p) => Waits(core', p) \/ Speaks(e, p)
      BY <3>13
    <3> QED BY <1>1, <3>2, <3>9, <3>10, <3>12, <3>14, <3>15, <3>16, <3>17, <3>18, TakenStep
  <2> QED BY <2>5, <2>6, <2>7
<1>7. CASE ~core.alive
  <2> DEFINE n == InFlight(core.dying.change.epoch)
             x == [core.dying EXCEPT !.attempt = n]
             y == [core.dying EXCEPT !.attempt = SpentAttempt]
  <2>1. /\ c = [core EXCEPT !.dying = x] /\ e = Emit(core.dying.root, core.dying.change)
        /\ core.dying # None
    BY <1>2, <1>3, <1>7 DEF CoreTyped, CoreFields
  <2>2. /\ core.dying = [f \in {"k", "root", "change", "attempt"} |-> core.dying[f]]
        /\ core.dying.root \in {Root, Wide} /\ core.dying.change \in Change
        /\ core.dying.change.epoch = core.epoch
    BY <1>2, <2>1 DEF CoreTyped, Ordered
  <2>3. x.attempt = n /\ x # None /\ n.k = "inflight" /\ y.attempt = SpentAttempt /\ [x EXCEPT !.attempt = SpentAttempt] = y
    <3>1. DOMAIN x = {"k", "root", "change", "attempt"} /\ DOMAIN None = {"k"}
      BY <2>2 DEF None
    <3>2. x # None
      BY <3>1
    <3> QED BY <2>2, <3>2 DEF InFlight
  <2> HIDE DEF x, y, n
  <2>4. ASSUME NEW a, core' = [core EXCEPT !.dying = [core.dying EXCEPT !.attempt = a]],
               events' = events, ~open \/ a.k # "inflight"
        PROVE  IInv'
    <3>1. /\ Keeps(core, core', {"dying"}) /\ core' = [f \in CoreFields |-> core'[f]]
          /\ core'.dying = [core.dying EXCEPT !.attempt = a]
      BY <1>2, <2>4 DEF CoreTyped, CoreFields, Keeps
    <3>2. Follows(core, core') /\ core'.dying.attempt = a /\ \A pr : Watch(core', pr)
      BY SMTT(30), <1>2, <1>7, <2>1, <3>1, DyingTried
    <3>3. Settled'
      BY <1>1, <2>4, <3>2 DEF Settled
    <3>4. Watch(core', probes') /\ ProbesTyped(probes')
      BY <1>1, <1>2, <3>2
    <3> QED BY <1>1, <2>4, <3>2, <3>3, <3>4, CoreStep
  <2>5. ~c.alive /\ c.dying = x
    BY <1>2, <1>7, <2>1 DEF CoreTyped, CoreFields
  <2>6. CASE ~open
    <3>1. core' = [core EXCEPT !.dying = [core.dying EXCEPT !.attempt = n]] /\ events' = events
      BY <1>1, <2>1, <2>6 DEF x
    <3> QED BY <2>4, <2>6, <3>1
  <2>7. CASE open /\ ~acc
    <3>1. core' = [c EXCEPT !.dying.attempt = SpentAttempt] /\ events' = events
      BY <1>1, <2>3, <2>5, <2>7 DEF on_delivery
    <3>2. core' = [core EXCEPT !.dying = y]
      BY <1>2, <2>1, <2>3, <2>5, <3>1 DEF CoreTyped, CoreFields
    <3>3. core' = [core EXCEPT !.dying = [core.dying EXCEPT !.attempt = SpentAttempt]]
      BY <3>2 DEF y
    <3>4. SpentAttempt.k # "inflight"
      BY DEF SpentAttempt
    <3> QED BY <2>4, <3>1, <3>3, <3>4
  <2>8. CASE open /\ acc
    <3>1. core' = [c EXCEPT !.dying = None] /\ events' = Append(events, e)
      BY <1>1, <2>3, <2>5, <2>8 DEF on_delivery
    <3>2. /\ core' = [f \in CoreFields |-> core'[f]] /\ Keeps(core, core', {"dying"})
          /\ core'.dying = None
      BY <1>2, <2>1, <3>1 DEF CoreTyped, CoreFields, Keeps
    <3>3. /\ core'.root = core.root /\ core'.inc = core.inc /\ core'.epoch = core.epoch
          /\ core'.effects = core.effects /\ core'.parked = core.parked /\ core'.alive = core.alive
          /\ core'.live = core.live /\ core'.lag = core.lag /\ core'.arming = core.arming
          /\ core'.spawned = core.spawned /\ core'.widen = core.widen
          /\ core'.pending = core.pending /\ core'.deadline = core.deadline
      BY <3>2 DEF Keeps, CoreFields
    <3>4. CoreTyped(core')
      BY <1>2, <3>2, <3>3 DEF CoreTyped
    <3>5. Lagging(core') /\ Armed(core')
      BY <1>2, <3>2, <3>3 DEF Lagging, Armed
    <3>6. Ordered(core')
      BY <1>2, <3>2, <3>3 DEF Ordered
    <3>7. Sound(core')
      BY <3>4, <3>5, <3>6 DEF Sound
    <3>8. Moves(core, core')
      BY <1>4, <1>5, <3>3, <3>7 DEF Moves
    <3>9. Watch(core', probes') /\ ProbesTyped(probes')
      BY <1>1, <1>2, <1>7, <3>3 DEF Watch
    <3>10. e \in Emission /\ e.change.epoch = core.epoch
      BY <2>1, <2>2, Emitted
    <3>11. \A p \in Known : StartsWith(p, core.root) /\ Waits(core, p) => Waits(core', p) \/ Speaks(e, p)
      BY <1>7, <2>1 DEF Waits
    <3>12. Settled'
      BY <3>2 DEF Settled
    <3>13. /\ told <= e.change.epoch /\ e.change.epoch <= core'.epoch
           /\ \A i \in DOMAIN events : events[i].change.epoch <= e.change.epoch
           /\ \A j \in Emits(core'.effects) : e.change.epoch <= core'.effects[j].change.epoch
      BY <1>4, <1>5, <3>3, <3>10
    <3> QED BY <1>1, <3>1, <3>3, <3>8, <3>9, <3>10, <3>11, <3>12, <3>13, TakenStep
  <2> QED BY <2>6, <2>7, <2>8
<1> QED BY <1>6, <1>7

\* The scope given up.
LEMMA UnwatchStep ==
    ASSUME IInv, Unwatch PROVE IInv'
<1>1. /\ core.alive /\ core' = end_scope(core) /\ stale' = {} /\ wanted' = FALSE
      /\ events' = events /\ probes' = probes /\ open' = open /\ told' = told
  BY DEF Unwatch
<1>2. Sound(core) /\ RestTyped /\ core.epoch \in Nat
  BY Invariant
<1>3. /\ Sound(core') /\ ~core'.alive /\ core'.epoch = core.epoch
      /\ core'.dying # None => core'.dying.attempt = IdleAttempt
      /\ \A j \in Emits(core'.effects) : \E i \in Emits(core.effects) : core'.effects[j] = core.effects[i]
  BY <1>1, <1>2, ScopeEnds
<1>4. Moves(core, core')
  BY <1>2, <1>3 DEF Moves
<1>5. EpochsInOrder'
  BY <1>1, <1>4, OrderKept
<1>6. RestTyped' /\ OwedBelow' /\ Carried'
  BY <1>1, <1>2 DEF RestTyped, OwedBelow, Carried
<1>7. Settled'
  BY <1>3 DEF Settled, IdleAttempt
<1>8. ProbesSound'
  BY <1>3 DEF ProbesSound, LivenessKept, VerdictIsCurrent
<1> QED BY <1>3, <1>5, <1>6, <1>7, <1>8 DEF IInv

\* The reader takes an event.
LEMMA ReadStep ==
    ASSUME IInv, Read PROVE IInv'
<1>1. /\ open /\ events # <<>> /\ events' = Tail(events) /\ told' = Head(events).change.epoch
      /\ stale' = {p \in stale : ~Speaks(Head(events), p)}
      /\ core' = core /\ probes' = probes /\ wanted' = wanted /\ open' = open
  BY DEF Read
<1>2. /\ Sound(core) /\ RestTyped /\ OwedBelow /\ Carried /\ Settled /\ EpochsInOrder /\ ProbesSound
  BY Invariant DEF IInv
<1>3. /\ events' \in Seq(Emission) /\ Head(events) = events[1] /\ 1 \in DOMAIN events
      /\ \A i \in DOMAIN events' : i + 1 \in DOMAIN events /\ events'[i] = events[i + 1] /\ 1 < i + 1
      /\ \A i \in DOMAIN events : i = 1 \/ \E j \in DOMAIN events' : i = j + 1
  <2>1. /\ events \in Seq(Emission) /\ events # <<>> /\ DOMAIN events = 1 .. Len(events)
        /\ Len(events) \in Nat
    BY <1>1, <1>2 DEF RestTyped
  <2>2. /\ Tail(events) \in Seq(Emission) /\ Head(events) = events[1] /\ 1 \in DOMAIN events
        /\ DOMAIN Tail(events) = 1 .. (Len(events) - 1)
        /\ \A i \in DOMAIN Tail(events) : i + 1 \in DOMAIN events /\ Tail(events)[i] = events[i + 1] /\ 1 < i + 1
    BY <2>1
  <2>3. \A i \in DOMAIN events : i = 1 \/ (i - 1 \in DOMAIN Tail(events) /\ i = (i - 1) + 1)
    BY <2>1, <2>2
  <2> QED BY <1>1, <2>2, <2>3
<1>4. Head(events).change.epoch \in Nat
  <2>1. Head(events) \in Emission
    BY <1>2, <1>3 DEF RestTyped
  <2> QED BY <2>1 DEF Emission, Change
<1>5. RestTyped'
  BY <1>1, <1>2, <1>3, <1>4 DEF RestTyped
<1>6. OwedBelow'
  BY <1>1, <1>2 DEF OwedBelow
<1>7. Carried'
  <2> SUFFICES ASSUME NEW p \in stale, ~Speaks(Head(events), p)
               PROVE  Waits(core, p) \/ \E i \in DOMAIN events' : Speaks(events'[i], p)
    BY <1>1 DEF Carried
  <2>1. ASSUME NEW i \in DOMAIN events, Speaks(events[i], p)
        PROVE  \E j \in DOMAIN events' : Speaks(events'[j], p)
    <3>1. i # 1
      BY <1>3, <2>1
    <3>2. PICK j \in DOMAIN events' : i = j + 1
      BY <1>3, <3>1
    <3>3. events'[j] = events[i]
      BY <1>3, <3>2
    <3> QED BY <2>1, <3>3
  <2> QED BY <1>2, <2>1 DEF Carried
<1>8. Settled'
  BY <1>1, <1>2 DEF Settled
<1>9. EpochsInOrder'
  <2>1. told' = events[1].change.epoch
    BY <1>1, <1>3
  <2>2. \A i, j \in DOMAIN events : i < j => events[i].change.epoch <= events[j].change.epoch
    BY <1>2 DEF EpochsInOrder
  <2>3. \A i \in DOMAIN events' : told' <= events'[i].change.epoch /\ events'[i].change.epoch <= core.epoch
    BY <1>2, <1>3, <2>1, <2>2 DEF EpochsInOrder
  <2>4. \A i, j \in DOMAIN events' : i < j => events'[i].change.epoch <= events'[j].change.epoch
    <3> SUFFICES ASSUME NEW i \in DOMAIN events', NEW j \in DOMAIN events', i < j
                 PROVE  events'[i].change.epoch <= events'[j].change.epoch
      OBVIOUS
    <3>1. i + 1 < j + 1
      BY <1>3
    <3> QED BY <1>3, <2>2, <3>1
  <2>5. \A i \in DOMAIN events', j \in Emits(core.effects) :
           events'[i].change.epoch <= core.effects[j].change.epoch
    BY <1>2, <1>3 DEF EpochsInOrder
  <2>6. /\ \A i \in Emits(core.effects) : told' <= core.effects[i].change.epoch
        /\ told' <= core.epoch
    BY <1>2, <1>3, <2>1 DEF EpochsInOrder
  <2> QED BY <1>1, <2>3, <2>4, <2>5, <2>6 DEF EpochsInOrder
<1>10. Sound(core') /\ ProbesSound'
  BY <1>1, <1>2 DEF ProbesSound, LivenessKept, VerdictIsCurrent, Ticked
<1> QED BY <1>5, <1>6, <1>7, <1>8, <1>9, <1>10 DEF IInv

\* The reader goes away.
LEMMA LeaveStep ==
    ASSUME IInv, Leave PROVE IInv'
<1>1. /\ open' = FALSE /\ wanted' = FALSE /\ events' = <<>> /\ stale' = {}
      /\ core' = core /\ probes' = probes /\ told' = told
  BY DEF Leave
<1>2. /\ Sound(core) /\ RestTyped /\ EpochsInOrder /\ ProbesSound
  BY Invariant DEF IInv
<1>3. RestTyped' /\ OwedBelow' /\ Carried' /\ Settled'
  <2>1. RestTyped'
    <3>1. events' \in Seq(Emission) /\ stale' \subseteq Known /\ wanted' \in BOOLEAN
      <4>1. <<>> \in Seq(Emission) /\ {} \subseteq Known /\ FALSE \in BOOLEAN
        OBVIOUS
      <4> QED BY <1>1, <4>1, Zenon
    <3> QED BY <1>1, <1>2, <3>1 DEF RestTyped
  <2>2. OwedBelow' /\ Carried' /\ Settled'
    BY <1>1 DEF OwedBelow, Carried, Settled
  <2> QED BY <2>1, <2>2
<1>4. EpochsInOrder'
  BY <1>1, <1>2 DEF EpochsInOrder
<1>5. Sound(core') /\ ProbesSound'
  BY <1>1, <1>2 DEF ProbesSound, LivenessKept, VerdictIsCurrent, Ticked
<1> QED BY <1>3, <1>4, <1>5 DEF IInv

\* `on_watch_with` leaves a scope that is sound and a reader who is owed nothing.
LEMMA InitHolds == Init => IInv
<1> SUFFICES ASSUME Init PROVE IInv
  OBVIOUS
<1>1. /\ core.alive /\ ~core.spawned /\ ~core.live /\ core.backend = "none" /\ core.root = Root
      /\ core.inc = 0 /\ core.lag = "normal" /\ core.parked = None /\ ~core.pending /\ ~core.deadline
      /\ core.widen = "none" /\ ~core.arming /\ core.dying = None /\ core.effects = <<>> /\ core.epoch = 0
      /\ core = [x \in CoreFields |-> core[x]]
  BY DEF Init, CoreFields
<1>2. /\ events = <<>> /\ probes = [tag |-> 0, flight |-> {}] /\ wanted = TRUE /\ open = TRUE
      /\ stale = {} /\ told = 0
  BY DEF Init
<1>3. Emits(<<>>) = {} /\ Rescans(<<>>) = {} /\ <<>> \in Seq(Effect) /\ DOMAIN <<>> = {}
  BY DEF Emits, Rescans
<1>4. CoreTyped(core)
  BY <1>1, <1>3 DEF CoreTyped
<1>5. Lagging(core) /\ Armed(core) /\ Ordered(core)
  BY <1>1, <1>3 DEF Lagging, Armed, Ordered
<1>6. RestTyped
  <2>1. probes = [x \in {"tag", "flight"} |-> probes[x]] /\ probes.tag = 0 /\ probes.flight = {}
    BY <1>2
  <2> QED BY <1>2, <2>1 DEF RestTyped
<1>7. OwedBelow /\ Carried /\ Settled
  BY <1>1, <1>2 DEF OwedBelow, Carried, Settled
<1>8. EpochsInOrder
  BY <1>1, <1>2, <1>3 DEF EpochsInOrder
<1>9. ProbesSound
  BY <1>1, <1>2 DEF ProbesSound, LivenessKept, VerdictIsCurrent
<1> QED BY <1>4, <1>5, <1>6, <1>7, <1>8, <1>9 DEF IInv, Sound

\* One step of the driver, its source or the reader keeps the invariant.
LEMMA StepHolds == IInv /\ [Next]_vars => IInv'
<1> SUFFICES ASSUME IInv, [Next]_vars PROVE IInv'
  OBVIOUS
<1>1. CASE Effects
  <2>1. CASE Deliver
    BY <2>1, QueuedStep, WaitingStep
  <2>2. CASE RefreshMounts
    BY <2>2, RefreshMountsStep
  <2>3. CASE TeardownStream
    BY <2>3, TeardownStep
  <2>4. CASE EndEffects
    BY <2>4, EndEffectsStep
  <2> QED BY <1>1, <2>1, <2>2, <2>3, <2>4 DEF Effects
<1>2. CASE Arms
  <2>1. CASE Spawned \/ Installed
    BY <2>1, SpawnedStep, InstalledStep
  <2>2. CASE \E p \in Paths : Record(p) \/ Located(p) \/ Overflow(p)
    BY <2>2, RecordStep, LocatedStep, OverflowStep
  <2>3. CASE Fatal \/ Unwatch
    BY <2>3, FatalStep, UnwatchStep
  <2>4. CASE BeginWiden \/ CommitWiden \/ AbortWiden
    BY <2>4, WidenStep
  <2>5. CASE \E r \in {Root, Wide} : Replace(r)
    BY <2>5, ReplaceStep
  <2>6. CASE \E f \in probes.flight, v \in Verdicts : Refreshed(f, v)
    BY <2>6, RefreshedStep
  <2>7. CASE Retry \/ Tick \/ BatchDone
    BY <2>7, RetryStep, TickStep, BatchStep
  <2> QED BY <1>2, <2>1, <2>2, <2>3, <2>4, <2>5, <2>6, <2>7 DEF Arms
<1>3. CASE Read
  BY <1>3, ReadStep
<1>4. CASE Leave
  BY <1>4, LeaveStep
<1>5. CASE UNCHANGED vars
  <2>1. Follows(core, core') /\ Watch(core', probes') /\ ProbesTyped(probes')
    <3>1. core' = core /\ probes' = probes
      BY <1>5 DEF vars
    <3> QED BY <3>1, Invariant, ProbesKnown, FollowsSelf
  <2> QED BY <1>5, <2>1, ArmStep DEF vars
<1> QED BY <1>1, <1>2, <1>3, <1>4, <1>5 DEF Next

\* The invariant of the stream: what the core keeps of it, what the reader is
\* owed and where it waits, the order of the epochs and the probes.
THEOREM StreamInvariant == Spec => []IInv
<1> QED BY InitHolds, StepHolds, PTL DEF Spec

\* The lag protocol loses nothing (`on_delivery`, `purge_scope_emits`,
\* `end_scope`): a change the reader has not been told of is in the channel, in
\* the core's queue, parked or held for a dead scope.
THEOREM CarriedTheorem == Spec => []StaleIsCarried
<1>1. IInv => StaleIsCarried
  <2> SUFFICES ASSUME IInv, NEW p \in stale PROVE \E e \in Carriers : Speaks(e, p)
    BY DEF StaleIsCarried
  <2>1. /\ Sound(core) /\ Lagging(core) /\ core.root \in {Root, Wide} /\ RestTyped /\ OwedBelow /\ Carried
    BY Invariant
  <2>2. p \in Known /\ StartsWith(p, core.root) /\ core.root \o <<>> = core.root
    BY <2>1, SoundParts DEF RestTyped, OwedBelow
  <2>3. CASE \E i \in DOMAIN events : Speaks(events[i], p)
    <3>1. PICK i \in DOMAIN events : Speaks(events[i], p)
      BY <2>3
    <3>2. events[i] \in ToSet(events)
      BY DEF ToSet
    <3> QED BY <3>1, <3>2 DEF Carriers
  <2>4. CASE \E i \in Emits(core.effects) : Speaks(core.effects[i], p)
    <3>1. PICK i \in Emits(core.effects) : Speaks(core.effects[i], p)
      BY <2>4
    <3>2. core.effects[i] \in {e \in ToSet(core.effects) : IsEmit(e)}
      BY DEF ToSet, Emits
    <3> QED BY <3>1, <3>2 DEF Carriers
  <2>5. CASE core.alive /\ core.lag = "lagged"
    <3>1. core.parked # None /\ core.parked.loc = <<>> /\ core.parked.rescan
      BY <2>1, <2>5 DEF Lagging
    <3> DEFINE e == Emit(core.root, core.parked)
    <3>2. e.root = core.root /\ e.change = core.parked
      BY DEF Emit
    <3>3. e \in Carriers
      BY <3>1 DEF Carriers
    <3> HIDE DEF e
    <3>4. Speaks(e, p)
      BY <2>2, <3>1, <3>2 DEF Speaks
    <3> QED BY <3>3, <3>4
  <2>6. CASE core.dying # None /\ Speaks(Emit(core.dying.root, core.dying.change), p)
    BY <2>6 DEF Carriers
  <2> QED BY <2>1, <2>3, <2>4, <2>5, <2>6 DEF Carried, Waits
<1> QED BY <1>1, StreamInvariant, PTL

\* The liveness of a root is never left unwatched, and an answer that is heard is
\* about the stream there is (`LivenessProbes`, `arm_liveness`).
THEOREM ProbesTheorem == Spec => []ProbesSound
<1>1. IInv => ProbesSound
  BY DEF IInv
<1> QED BY <1>1, StreamInvariant, PTL

-----------------------------------------------------------------------------
(* The contract of a stream.                                               *)

\* Once the stream is over its reader is owed nothing.
EndsPaid == Over => stale = {}

LEMMA OverOwesNothing == IInv => EndsPaid
<1> SUFFICES ASSUME IInv, Over, NEW p \in stale PROVE FALSE
  BY DEF EndsPaid
<1>1. Carried
  BY Invariant
<1>2. /\ ~core.alive /\ core.dying = None /\ events = <<>>
  BY DEF Over
<1>3. DOMAIN events = {}
  BY <1>2
<1> QED BY <1>1, <1>2, <1>3 DEF Carried, Waits

\* A core whose scope is over stays as it is, but for effects that tell nothing.
LEMMA OverStays ==
    ASSUME IInv, Over, Effects \/ Arms
    PROVE  Over' /\ stale' = stale /\ told' = told /\ wanted' = wanted
<1>1. /\ ~core.alive /\ core.dying = None /\ events = <<>> /\ \A e \in ToSet(core.effects) : ~IsEmit(e)
  BY DEF Over
<1>2. Sound(core) /\ Lagging(core) /\ Armed(core)
  BY Invariant, SoundParts
<1>3. ~core.live /\ ~core.arming /\ core.widen = "none" /\ ~core.deadline
  BY <1>1, <1>2 DEF Lagging, Armed
<1>4. ASSUME core' = core \/ (core.effects # <<>> /\ Pops(core, core')), events' = events,
             stale' = stale, told' = told, wanted' = wanted
      PROVE  Over' /\ stale' = stale /\ told' = told /\ wanted' = wanted
  <2>1. CASE core' = core
    BY <1>1, <1>4, <2>1 DEF Over
  <2>2. CASE core.effects # <<>> /\ Pops(core, core')
    <3>1. /\ Keeps(core, core', {"effects"})
          /\ \A j \in DOMAIN core'.effects : j + 1 \in DOMAIN core.effects /\ core'.effects[j] = core.effects[j + 1]
      BY <1>2, <2>2, Popped
    <3>2. ~core'.alive /\ core'.dying = None
      BY <1>1, <3>1 DEF Keeps, CoreFields
    <3>3. \A e \in ToSet(core'.effects) : ~IsEmit(e)
      BY <1>1, <3>1 DEF ToSet
    <3> QED BY <1>1, <1>4, <3>2, <3>3 DEF Over
  <2> QED BY <1>4, <2>1, <2>2
<1>5. CASE Effects
  <2>1. ~Deliver
    <3> SUFFICES ASSUME Deliver PROVE FALSE
      OBVIOUS
    <3>1. Polled.effect.k = "emit"
      BY DEF Deliver, EffectTurn
    <3>2. core.effects # <<>> /\ Polled.effect = Head(core.effects)
      BY <1>1, <3>1, PolledOf
    <3>3. Head(core.effects) = core.effects[1] /\ 1 \in DOMAIN core.effects
      <4>1. core.effects \in Seq(Effect)
        BY Invariant
      <4> QED BY <3>2, <4>1
    <3>4. Head(core.effects) \in ToSet(core.effects)
      BY <3>3 DEF ToSet
    <3> QED BY <1>1, <3>1, <3>2, <3>4 DEF IsEmit
  <2>2. CASE RefreshMounts \/ TeardownStream
    <3>1. Polled.effect.k # "none" /\ Polled.effect.k # "emit"
      BY <2>2 DEF RefreshMounts, TeardownStream, EffectTurn
    <3>2. core.effects # <<>> /\ Pops(core, Polled.core)
      BY <3>1, PolledOf
    <3>3. ~Polled.core.alive
      <4>1. Keeps(core, Polled.core, {"effects"})
        BY <1>2, <3>2, Popped
      <4> QED BY <1>1, <4>1 DEF Keeps, CoreFields
    <3>4. core' = Polled.core
      BY <2>2, <3>3 DEF RefreshMounts, TeardownStream
    <3>5. events' = events /\ stale' = stale /\ told' = told /\ wanted' = wanted
      BY <2>2 DEF RefreshMounts, TeardownStream
    <3> QED BY <1>4, <3>2, <3>4, <3>5
  <2>3. CASE EndEffects
    <3>1. core' = core
      BY <1>1, <2>3 DEF EndEffects
    <3>2. events' = events /\ stale' = stale /\ told' = told /\ wanted' = wanted
      BY <2>3, <3>1 DEF EndEffects
    <3> QED BY <1>4, <3>1, <3>2
  <2> QED BY <1>5, <2>1, <2>2, <2>3 DEF Effects
<1>6. CASE Arms
  <2>1. ~Spawned /\ ~Installed /\ ~Fatal /\ ~Unwatch /\ ~BeginWiden /\ ~CommitWiden /\ ~AbortWiden /\ ~Tick
    BY <1>1, <1>3 DEF Spawned, Installed, Fatal, Unwatch, BeginWiden, CommitWiden, AbortWiden, Tick, poll_timeout
  <2>2. \A p \in Paths : ~Record(p) /\ ~Located(p) /\ ~Overflow(p)
    BY <1>3 DEF Record, Located, Overflow, Report, Watched
  <2>3. \A r \in {Root, Wide} : ~Replace(r)
    BY <1>3 DEF Replace
  <2>4. ~Retry
    BY <1>1 DEF Retry, poll_timeout, RetryDue
  <2>5. CASE \E f \in probes.flight, v \in Verdicts : Refreshed(f, v)
    <3>1. PICK f \in probes.flight, v \in Verdicts : Refreshed(f, v)
      BY <2>5
    <3>2. core' = core
      BY <1>1, <3>1 DEF Refreshed, on_mounts_refreshed
    <3>3. stale' = stale
      <4>1. Doubted(core.root) = stale
        BY <1>3 DEF Doubted
      <4> QED BY <3>1, <4>1 DEF Refreshed
    <3>4. events' = events /\ told' = told /\ wanted' = wanted
      BY <3>1 DEF Refreshed, NoRead
    <3> QED BY <1>4, <3>2, <3>3, <3>4
  <2>6. CASE BatchDone
    BY <1>4, <2>6 DEF BatchDone, NoChange, NoRead
  <2> QED BY <1>6, <2>1, <2>2, <2>3, <2>4, <2>5, <2>6 DEF Arms
<1> QED BY <1>5, <1>6

\* What a step of the driver or the source does to what the reader is owed.
LEMMA OwedMore ==
    ASSUME IInv, Effects \/ Arms, ~Unwatch
    PROVE  /\ told' = told /\ wanted' = wanted
           /\ \/ stale' = stale
              \/ core.live /\ wanted /\ \E p \in Known : stale' = stale \cup {p}
<1>1. core.root \in Known
  BY Invariant, RootBelow
<1>2. ASSUME NEW p \in Known
      PROVE  Doubted(p) = stale \/ (core.live /\ wanted /\ Doubted(p) = stale \cup {p})
  BY DEF Doubted
<1>3. CASE Effects
  <2>1. CASE Deliver \/ RefreshMounts \/ TeardownStream
    BY <2>1 DEF Deliver, RefreshMounts, TeardownStream
  <2>2. CASE EndEffects
    <3>1. (stale' = stale \/ stale' = Doubted(core.root)) /\ told' = told /\ wanted' = wanted
      BY <2>2 DEF EndEffects
    <3> QED BY <1>1, <1>2, <3>1
  <2> QED BY <1>3, <2>1, <2>2 DEF Effects
<1>4. CASE Arms
  <2>1. CASE Spawned \/ Installed \/ BeginWiden \/ CommitWiden \/ AbortWiden \/ Retry \/ Tick \/ BatchDone
    BY <2>1 DEF Spawned, Installed, BeginWiden, CommitWiden, AbortWiden, Retry, Tick, BatchDone, NoChange, NoRead
  <2>2. CASE \E p \in Paths : Record(p) \/ Located(p) \/ Overflow(p)
    <3>1. PICK p \in Paths : Record(p) \/ Located(p) \/ Overflow(p)
      BY <2>2
    <3>2. stale' = Doubted(p) /\ told' = told /\ wanted' = wanted
      BY <3>1 DEF Record, Located, Overflow, Report, NoRead
    <3>3. p \in Known
      BY DEF Known
    <3> QED BY <1>2, <3>2, <3>3
  <2>3. CASE Fatal
    BY <1>1, <1>2, <2>3 DEF Fatal, NoRead
  <2>4. CASE \E r \in {Root, Wide} : Replace(r)
    <3>1. PICK r \in {Root, Wide} : Replace(r)
      BY <2>4
    <3>2. stale' = Doubted(r) /\ told' = told /\ wanted' = wanted /\ r \in Known
      BY <3>1 DEF Replace, NoRead, Known
    <3> QED BY <1>2, <3>2
  <2>5. CASE \E f \in probes.flight, v \in Verdicts : Refreshed(f, v)
    <3>1. PICK f \in probes.flight, v \in Verdicts : Refreshed(f, v)
      BY <2>5
    <3>2. (stale' = stale \/ stale' = Doubted(core.root)) /\ told' = told /\ wanted' = wanted
      BY <3>1 DEF Refreshed, NoRead
    <3> QED BY <1>1, <1>2, <3>2
  <2> QED BY <1>4, <2>1, <2>2, <2>3, <2>4, <2>5 DEF Arms
<1> QED BY <1>3, <1>4

\* Every step is one the contract allows, or none it sees.
LEMMA StepAllowed ==
    ASSUME IInv, Next, EndsPaid'
    PROVE  Contract!Next \/ UNCHANGED Contract!vars
<1>1. /\ RestTyped /\ OwedBelow /\ EpochsInOrder /\ Lagging(core)
  BY Invariant
<1>2. Over \in BOOLEAN /\ Over' \in BOOLEAN
  BY DEF Over
<1> USE DEF EndsPaid
<1>3. ASSUME stale' = stale, told' = told, wanted' = wanted, Over => Over'
      PROVE  Contract!Next \/ UNCHANGED Contract!vars
  <2>1. CASE Over' = Over
    BY <1>3, <2>1 DEF Contract!vars
  <2>2. CASE Over' # Over
    <3>1. Over' = TRUE /\ stale = {}
      BY <1>2, <1>3, <2>2
    <3>2. Contract!Finish
      BY <1>3, <3>1 DEF Contract!Finish
    <3> QED BY <3>2 DEF Contract!Next
  <2> QED BY <2>1, <2>2
<1>4. CASE (Effects \/ Arms) /\ ~Unwatch
  <2>1. /\ told' = told /\ wanted' = wanted
        /\ \/ stale' = stale
           \/ core.live /\ wanted /\ \E p \in Known : stale' = stale \cup {p}
    BY <1>4, OwedMore
  <2>2. CASE stale' = stale
    <3>1. Over => Over'
      BY <1>4, OverStays
    <3> QED BY <1>3, <2>1, <2>2, <3>1
  <2>3. CASE core.live /\ wanted /\ \E p \in Known : stale' = stale \cup {p}
    <3>1. PICK p \in Known : stale' = stale \cup {p}
      BY <2>3
    <3>2. ~Over
      BY <1>1, <2>3 DEF Lagging, Over
    <3>3. ~Over'
      BY <3>1
    <3>4. Over' = Over
      BY <1>2, <3>2, <3>3
    <3>5. Contract!Happen(p)
      BY <2>1, <2>3, <3>1, <3>2, <3>4 DEF Contract!Happen
    <3>6. p \in Paths \cup {Root, Wide}
      BY DEF Known
    <3> QED BY <3>5, <3>6 DEF Contract!Next
  <2> QED BY <2>1, <2>2, <2>3
<1>5. CASE Unwatch
  <2>1. wanted /\ wanted' = FALSE /\ stale' = {} /\ told' = told /\ core.alive
    BY <1>5 DEF Unwatch
  <2>2. ~Over
    BY <2>1 DEF Over
  <2>3. Over' \in {Over, TRUE}
    BY <1>2, <2>2
  <2>4. Contract!GiveUp
    BY <2>1, <2>3 DEF Contract!GiveUp
  <2> QED BY <2>4 DEF Contract!Next
<1>6. CASE Leave
  <2>1. /\ wanted' = FALSE /\ stale' = {} /\ told' = told /\ events' = <<>> /\ core' = core
    BY <1>6 DEF Leave
  <2>2. Over => Over'
    BY <2>1 DEF Over
  <2>3. CASE wanted
    <3>1. Over' \in {Over, TRUE}
      BY <1>2, <2>2
    <3>2. Contract!GiveUp
      BY <2>1, <2>3, <3>1 DEF Contract!GiveUp
    <3> QED BY <3>2 DEF Contract!Next
  <2>4. CASE ~wanted
    <3>1. wanted' = wanted
      <4>1. wanted \in BOOLEAN
        BY <1>1 DEF RestTyped
      <4> QED BY <2>1, <2>4, <4>1
    <3>2. stale' = stale
      BY <1>1, <2>1, <2>4 DEF OwedBelow
    <3> QED BY <1>3, <2>1, <2>2, <3>1, <3>2
  <2> QED BY <2>3, <2>4
<1>7. CASE Read
  <2> DEFINE S == {p \in Paths \cup {Root, Wide} : Speaks(Head(events), p)}
  <2>1. /\ events # <<>> /\ told' = Head(events).change.epoch /\ wanted' = wanted
        /\ stale' = {p \in stale : ~Speaks(Head(events), p)}
    BY <1>7 DEF Read
  <2>2. stale' = stale \ S
    BY <1>1, <2>1 DEF RestTyped, Known
  <2>3. told' >= told
    <3>1. Head(events) = events[1] /\ 1 \in DOMAIN events
      BY <1>1, <2>1 DEF RestTyped
    <3>2. told <= events[1].change.epoch
      BY <1>1, <3>1 DEF EpochsInOrder
    <3> QED BY <2>1, <3>1, <3>2
  <2>4. ~Over
    BY <2>1 DEF Over
  <2>5. Over' \in {FALSE, stale' = {}}
    BY <1>2
  <2>6. S \in SUBSET (Paths \cup {Root, Wide})
    OBVIOUS
  <2> HIDE DEF S
  <2>7. Contract!Tell(S)
    BY <2>1, <2>2, <2>3, <2>4, <2>5 DEF Contract!Tell
  <2> QED BY <2>6, <2>7 DEF Contract!Next
<1> QED BY <1>4, <1>5, <1>6, <1>7 DEF Next

\* The lag protocol implements what a root promises its reader, but for the
\* promise that a change is told in the end, which TLC checks (`Implements`).
THEOREM KeepsItsContract == Spec => Contract!Init /\ [][Contract!Next]_(Contract!vars)
<1>1. Init => Contract!Init
  BY DEF Init, Contract!Init, Over
<1>2. IInv /\ [Next]_vars /\ EndsPaid' => [Contract!Next]_(Contract!vars)
  <2> SUFFICES ASSUME IInv, [Next]_vars, EndsPaid' PROVE [Contract!Next]_(Contract!vars)
    OBVIOUS
  <2>1. CASE UNCHANGED vars
    <3>1. stale' = stale /\ told' = told /\ wanted' = wanted /\ core' = core /\ events' = events
      BY <2>1 DEF vars
    <3>2. Over' = Over
      BY <3>1 DEF Over
    <3> QED BY <3>1, <3>2 DEF Contract!vars
  <2>2. CASE Next
    BY <2>2, StepAllowed
  <2> QED BY <2>1, <2>2
<1>3. Spec => []IInv
  BY StreamInvariant
<1>4. IInv => EndsPaid
  BY OverOwesNothing
<1> QED BY <1>1, <1>2, <1>3, <1>4, PTL DEF Spec

=============================================================================

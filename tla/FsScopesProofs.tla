--------------------------- MODULE FsScopesProofs ---------------------------
(***************************************************************************)
(* Proofs about the life of a watched root: the inductive invariant of     *)
(* FsScopes, and that with it the registry is sound, no stream is lost or  *)
(* orphaned, the backlog keeps to its limit, answers are honest and a      *)
(* replacement that fails changes nothing.                                 *)
(***************************************************************************)
EXTENDS FsScopes, ListProofs

-----------------------------------------------------------------------------
(* Sums over the scopes.                                                   *)

\* Any scope of T.
Pick(T) == CHOOSE x \in T : TRUE

\* There are MaxScopes scopes.
LEMMA ScopeFinite ==
    IsFiniteSet(Scope) /\ Cardinality(Scope) = MaxScopes /\ MaxScopes \in Nat
<1>1. MaxScopes \in Nat \ {0}
  BY FsScopesAssumption
<1>2. 1 \in Int /\ MaxScopes \in Int /\ ~(1 > MaxScopes) /\ MaxScopes - 1 + 1 = MaxScopes
  BY <1>1
<1> QED BY <1>1, <1>2, FS_Interval DEF Scope

\* A scope set and what is left of it without the one that is picked.
LEMMA Picked ==
    ASSUME NEW T \in SUBSET Scope, T # {}
    PROVE  /\ Pick(T) \in T /\ Pick(T) \in Scope /\ T \ {Pick(T)} \in SUBSET Scope
           /\ Cardinality(T) \in Nat \ {0} /\ Cardinality(T \ {Pick(T)}) = Cardinality(T) - 1
<1>1. Pick(T) \in T
  BY DEF Pick
<1>2. IsFiniteSet(Scope)
  BY ScopeFinite
<1>3. IsFiniteSet(T)
  BY <1>2, FS_Subset
<1>4. Cardinality(T) \in Nat /\ Cardinality(T) # 0
  BY <1>3, FS_CardinalityType, FS_EmptySet
<1>5. Cardinality(T \ {Pick(T)}) = Cardinality(T) - 1
  BY <1>1, <1>3, FS_RemoveElement
<1> QED BY <1>1, <1>4, <1>5

\* A set of scopes is finite, and counts something where it holds something.
LEMMA Counted ==
    ASSUME NEW T \in SUBSET Scope
    PROVE  IsFiniteSet(T) /\ Cardinality(T) \in Nat /\ (T # {} => ~(Cardinality(T) <= 0))
<1>1. IsFiniteSet(T)
  BY ScopeFinite, FS_Subset
<1>2. Cardinality(T) \in Nat /\ (T # {} => Cardinality(T) # 0)
  BY <1>1, FS_CardinalityType, FS_EmptySet
<1> QED BY <1>1, <1>2

\* The sum of f is built up one scope at a time.
SumOf(f, g) ==
    /\ g \in [SUBSET Scope -> Nat] /\ g[{}] = 0
    /\ \A T \in SUBSET Scope : T # {} => g[T] = f[Pick(T)] + g[T \ {Pick(T)}]

\* Total is the sum, one scope at a time.
LEMMA TotalIs ==
    ASSUME NEW f \in [Scope -> Nat]
    PROVE  \E g : SumOf(f, g) /\ Total(f) = g[Scope]
<1> DEFINE Upto(n, g) ==
               /\ g \in [SUBSET Scope -> Nat] /\ g[{}] = 0
               /\ \A T \in SUBSET Scope :
                     T # {} /\ Cardinality(T) <= n => g[T] = f[Pick(T)] + g[T \ {Pick(T)}]
           Missing == {n \in Nat : ~ \E g : Upto(n, g)}
<1>1. Cardinality({}) = 0 /\ {} \in SUBSET Scope
  BY FS_EmptySet
<1>2. 0 \notin Missing
  <2> DEFINE zero == [T \in SUBSET Scope |-> 0]
  <2>1. zero \in [SUBSET Scope -> Nat] /\ zero[{}] = 0
    BY <1>1
  <2>2. \A T \in SUBSET Scope : T # {} => ~(Cardinality(T) <= 0)
    BY Counted
  <2> HIDE DEF zero
  <2>3. Upto(0, zero)
    BY <2>1, <2>2
  <2> QED BY <2>3
<1>3. ASSUME NEW n \in Nat \ {0}, n - 1 \notin Missing PROVE n \notin Missing
  <2>1. n - 1 \in Nat
    OBVIOUS
  <2>2. PICK g : Upto(n - 1, g)
    BY <1>3, <2>1
  <2> DEFINE h == [T \in SUBSET Scope |-> IF Cardinality(T) = n
                                          THEN f[Pick(T)] + g[T \ {Pick(T)}] ELSE g[T]]
  <2>3. h \in [SUBSET Scope -> Nat]
    <3> SUFFICES ASSUME NEW T \in SUBSET Scope, Cardinality(T) = n
                 PROVE  f[Pick(T)] + g[T \ {Pick(T)}] \in Nat
      BY <2>2
    <3>1. T # {}
      BY <1>1
    <3>2. f[Pick(T)] \in Nat /\ g[T \ {Pick(T)}] \in Nat
      BY <2>2, <3>1, Picked
    <3> QED BY <3>2
  <2>4. h[{}] = 0
    BY <1>1, <2>2
  <2>5. ASSUME NEW T \in SUBSET Scope, T # {}, Cardinality(T) <= n
        PROVE  h[T] = f[Pick(T)] + h[T \ {Pick(T)}]
    <3>1. /\ T \ {Pick(T)} \in SUBSET Scope /\ Cardinality(T) \in Nat \ {0}
          /\ Cardinality(T \ {Pick(T)}) = Cardinality(T) - 1
      BY <2>5, Picked
    <3>2. h[T \ {Pick(T)}] = g[T \ {Pick(T)}]
      BY <2>5, <3>1
    <3>3. CASE Cardinality(T) = n
      BY <3>2, <3>3
    <3>4. CASE Cardinality(T) # n
      <4>1. Cardinality(T) <= n - 1
        BY <2>5, <3>1, <3>4
      <4>2. g[T] = f[Pick(T)] + g[T \ {Pick(T)}]
        BY <2>2, <2>5, <4>1
      <4> QED BY <3>2, <3>4, <4>2
    <3> QED BY <3>3, <3>4
  <2> HIDE DEF h
  <2>6. Upto(n, h)
    BY <2>3, <2>4, <2>5
  <2> QED BY <2>6
<1>4. Missing = {}
  <2> SUFFICES ASSUME Missing # {} PROVE FALSE
    OBVIOUS
  <2>1. Missing \in SUBSET Nat
    OBVIOUS
  <2> HIDE DEF Missing
  <2>2. PICK n \in Missing : \A m \in Missing : n <= m
    BY <2>1, Least
  <2>3. n \in Nat \ {0} /\ n - 1 \in Nat /\ ~(n <= n - 1)
    BY <1>2, <2>1, <2>2
  <2> QED BY <1>3, <2>2, <2>3
<1>5. PICK g : Upto(MaxScopes, g)
  <2>1. MaxScopes \in Nat
    BY ScopeFinite
  <2> QED BY <1>4, <2>1
<1>6. SumOf(f, g)
  <2>1. IsFiniteSet(Scope) /\ Cardinality(Scope) = MaxScopes
    BY ScopeFinite
  <2>2. \A T \in SUBSET Scope : Cardinality(T) <= MaxScopes
    BY <2>1, FS_Subset
  <2> QED BY <1>5, <2>2 DEF SumOf
<1> DEFINE step(g_) == [T \in SUBSET Scope |-> IF T = {} THEN 0
                                             ELSE f[Pick(T)] + g_[T \ {Pick(T)}]]
<1>7. g = step(g)
  BY <1>6 DEF SumOf
<1> DEFINE iter == CHOOSE i : i = step(i)
<1>8. iter = step(iter)
  BY <1>7
<1>9. Total(f) = iter[Scope]
  BY DEF Total, MapThenSumSet, MapThenFoldSet, Pick
<1> HIDE DEF iter
<1>10. \A T \in SUBSET Scope : iter[T] = g[T]
  <2> DEFINE Odd == {n \in Nat : \E T \in SUBSET Scope : Cardinality(T) = n /\ iter[T] # g[T]}
  <2>1. \A T \in SUBSET Scope : Cardinality(T) \in Nat
    BY Counted
  <2>2. Odd = {}
    <3> SUFFICES ASSUME Odd # {} PROVE FALSE
      OBVIOUS
    <3>1. Odd \in SUBSET Nat
      OBVIOUS
    <3> HIDE DEF Odd
    <3>2. PICK n \in Odd : \A m \in Odd : n <= m
      BY <3>1, Least
    <3> USE DEF Odd
    <3>3. PICK T \in SUBSET Scope : Cardinality(T) = n /\ iter[T] # g[T]
      BY <3>2
    <3>4. T # {}
      BY <1>1, <1>6, <1>8, <3>3 DEF SumOf
    <3>5. /\ T \ {Pick(T)} \in SUBSET Scope /\ Cardinality(T \ {Pick(T)}) = n - 1 /\ n \in Nat \ {0}
      BY <3>3, <3>4, Picked
    <3>6. iter[T \ {Pick(T)}] = g[T \ {Pick(T)}]
      <4>1. n - 1 \in Nat /\ ~(n <= n - 1)
        BY <3>5
      <4>2. n - 1 \notin Odd
        BY <3>2, <4>1
      <4> QED BY <3>5, <4>1, <4>2
    <3>7. iter[T] = f[Pick(T)] + iter[T \ {Pick(T)}]
      BY <1>8, <3>4
    <3> QED BY <1>6, <3>3, <3>4, <3>6, <3>7 DEF SumOf
  <2> QED BY <2>1, <2>2
<1> QED BY <1>6, <1>9, <1>10

\* What is summed up is at most a bounded more where another sum is so.
LEMMA TotalGrows ==
    ASSUME NEW f \in [Scope -> Nat], NEW g \in [Scope -> Nat], NEW A, IsFiniteSet(A),
           \A s \in Scope : g[s] <= f[s] + One(s \in A)
    PROVE  Total(g) <= Total(f) + Cardinality(A)
<1>1. PICK F : SumOf(f, F) /\ Total(f) = F[Scope]
  BY TotalIs
<1>2. PICK G : SumOf(g, G) /\ Total(g) = G[Scope]
  BY TotalIs
<1> DEFINE Fits(T) == G[T] <= F[T] + Cardinality(A \cap T)
           Odd == {n \in Nat : \E T \in SUBSET Scope : Cardinality(T) = n /\ ~Fits(T)}
<1>3. Cardinality({}) = 0 /\ {} \in SUBSET Scope
  BY FS_EmptySet
<1>4. \A T \in SUBSET Scope : Cardinality(T) \in Nat
  BY Counted
<1>5. ASSUME NEW n \in Odd, \A m \in Odd : n <= m PROVE FALSE
  <2>1. PICK T \in SUBSET Scope : Cardinality(T) = n /\ ~Fits(T)
    BY <1>5
  <2>2. T # {}
    <3>1. F[{}] = 0 /\ G[{}] = 0 /\ A \cap {} = {}
      BY <1>1, <1>2 DEF SumOf
    <3>2. Fits({})
      BY <1>3, <3>1
    <3> QED BY <2>1, <3>2
  <2> DEFINE x == Pick(T)
             U == T \ {x}
  <2>3. /\ x \in T /\ x \in Scope /\ U \in SUBSET Scope
        /\ Cardinality(U) = n - 1 /\ n \in Nat \ {0}
    BY <2>1, <2>2, Picked
  <2> HIDE DEF U, x
  <2>4. Fits(U)
    <3>1. n - 1 \in Nat /\ ~(n <= n - 1)
      BY <2>3
    <3>2. n - 1 \notin Odd
      BY <1>5, <3>1
    <3> QED BY <2>3, <3>1, <3>2
  <2>5. /\ F[T] = f[x] + F[U] /\ G[T] = g[x] + G[U]
        /\ F[U] \in Nat /\ G[U] \in Nat /\ f[x] \in Nat /\ g[x] \in Nat
    BY <1>1, <1>2, <2>2, <2>3 DEF SumOf, U, x
  <2>6. /\ Cardinality(A \cap T) = Cardinality(A \cap U) + One(x \in A)
        /\ Cardinality(A \cap U) \in Nat
    <3> DEFINE B == A \cap T
    <3>1. B \in SUBSET A
      OBVIOUS
    <3>2. (x \in A => x \in B) /\ A \cap U = B \ {x} /\ A \cap T = B
      BY <2>3 DEF U
    <3> HIDE DEF B
    <3>3. Cardinality(B) \in Nat /\ IsFiniteSet(B)
      BY <3>1, FS_Subset, FS_CardinalityType
    <3>4. CASE x \in A
      <4>1. x \in B /\ IsFiniteSet(B \ {x})
        BY <3>1, <3>2, <3>4, FS_Subset
      <4>2. Cardinality(B \ {x}) = Cardinality(B) - 1
        BY <3>3, <4>1, FS_RemoveElement
      <4>3. Cardinality(B \ {x}) \in Nat
        BY <4>1, FS_CardinalityType
      <4>4. One(x \in A) = 1
        BY <3>4 DEF One
      <4>5. Cardinality(B) = Cardinality(B \ {x}) + One(x \in A)
        BY <3>3, <4>2, <4>3, <4>4
      <4> QED BY <3>2, <4>3, <4>5
    <3>5. CASE x \notin A
      <4>1. B \ {x} = B
        BY <3>1, <3>5
      <4>2. One(x \in A) = 0
        BY <3>5 DEF One
      <4> QED BY <3>2, <3>3, <4>1, <4>2
    <3> QED BY <3>4, <3>5
  <2>7. g[x] <= f[x] + One(x \in A) /\ One(x \in A) \in Nat
    BY <2>3 DEF One
  <2> QED BY <2>1, <2>4, <2>5, <2>6, <2>7
<1>6. Odd = {}
  <2> SUFFICES ASSUME Odd # {} PROVE FALSE
    OBVIOUS
  <2>1. Odd \in SUBSET Nat
    OBVIOUS
  <2> HIDE DEF Odd
  <2>2. PICK n \in Odd : \A m \in Odd : n <= m
    BY <2>1, Least
  <2> QED BY <1>5, <2>2
<1>7. Fits(Scope)
  BY <1>4, <1>6
<1>8. IsFiniteSet(A \cap Scope) /\ Cardinality(A \cap Scope) <= Cardinality(A)
  BY FS_Subset
<1>9. /\ Cardinality(A \cap Scope) \in Nat /\ Cardinality(A) \in Nat
      /\ F[Scope] \in Nat /\ G[Scope] \in Nat
  BY <1>1, <1>2, <1>8, FS_CardinalityType DEF SumOf
<1> QED BY <1>1, <1>2, <1>7, <1>8, <1>9

\* Nothing that is summed up exceeds the sum.
LEMMA TotalAbove ==
    ASSUME NEW f \in [Scope -> Nat], NEW s \in Scope PROVE f[s] <= Total(f) /\ Total(f) \in Nat
<1>1. PICK F : SumOf(f, F) /\ Total(f) = F[Scope]
  BY TotalIs
<1> DEFINE Odd == {n \in Nat : \E T \in SUBSET Scope : Cardinality(T) = n /\ s \in T /\ ~(f[s] <= F[T])}
<1>2. ASSUME NEW n \in Odd, \A m \in Odd : n <= m PROVE FALSE
  <2>1. PICK T \in SUBSET Scope : Cardinality(T) = n /\ s \in T /\ ~(f[s] <= F[T])
    BY <1>2
  <2> DEFINE x == Pick(T)
             U == T \ {x}
  <2>2. /\ x \in T /\ x \in Scope /\ U \in SUBSET Scope
        /\ Cardinality(U) = n - 1 /\ n \in Nat \ {0}
    BY <2>1, Picked
  <2>3. F[T] = f[x] + F[U] /\ F[U] \in Nat /\ f[x] \in Nat /\ f[s] \in Nat
    BY <1>1, <2>1, <2>2 DEF SumOf
  <2>4. x # s
    BY <2>1, <2>3
  <2>5. s \in U
    BY <2>1, <2>4
  <2>6. n - 1 \in Nat /\ ~(n <= n - 1)
    BY <2>2
  <2>7. n - 1 \notin Odd
    BY <1>2, <2>6
  <2> HIDE DEF U, x
  <2>8. f[s] <= F[U]
    BY <2>2, <2>5, <2>6, <2>7
  <2> QED BY <2>1, <2>3, <2>8
<1>3. Odd = {}
  <2> SUFFICES ASSUME Odd # {} PROVE FALSE
    OBVIOUS
  <2>1. Odd \in SUBSET Nat
    OBVIOUS
  <2> HIDE DEF Odd
  <2>2. PICK n \in Odd : \A m \in Odd : n <= m
    BY <2>1, Least
  <2> QED BY <1>2, <2>2
<1>4. f[s] <= F[Scope]
  <2>1. Cardinality(Scope) \in Nat
    BY Counted
  <2> QED BY <1>3, <2>1
<1> QED BY <1>1, <1>4 DEF SumOf

\* The larger of a number and nothing.
LEMMA MaxIs ==
    ASSUME NEW n \in Int
    PROVE  Max({0, n}) = IF n > 0 THEN n ELSE 0
<1> DEFINE m == IF n > 0 THEN n ELSE 0
<1>1. m \in {0, n} /\ \A y \in {0, n} : m >= y
  OBVIOUS
<1>2. \A x \in {0, n} : (\A y \in {0, n} : x >= y) => x = m
  OBVIOUS
<1> HIDE DEF m
<1>3. (CHOOSE x \in {0, n} : \A y \in {0, n} : x >= y) = m
  BY <1>1, <1>2
<1> QED BY <1>3 DEF Max, m

\* What the root owes beyond what was given back.
Owed(s) == d.downs[s] + d.unproven[s] - One(s \in ended) + One(s \in InFlight)

\* What a root owes that has dn and up of its streams with the reapers.
Owes(dn, up, E, I, s) == dn[s] + up[s] - One(s \in E) + One(s \in I)

\* What a root owes is a number, and counts where it is positive.
LEMMA OwesIs ==
    ASSUME NEW dn \in [Scope -> Nat], NEW up \in [Scope -> Nat], NEW E, NEW I, NEW s \in Scope
    PROVE  LET n == Owes(dn, up, E, I, s)
           IN  n \in Int /\ Max({0, n}) \in Nat /\ Max({0, n}) = IF n > 0 THEN n ELSE 0
<1> DEFINE n == Owes(dn, up, E, I, s)
<1>1. n \in Int
  BY DEF One, Owes
<1> HIDE DEF n
<1>2. Max({0, n}) = IF n > 0 THEN n ELSE 0
  BY <1>1, MaxIs
<1>3. n \in Int /\ Max({0, n}) \in Nat /\ Max({0, n}) = IF n > 0 THEN n ELSE 0
  BY <1>1, <1>2
<1> QED BY <1>3 DEF n

\* A step that owes no more of any root stays within the limit.
LEMMA BacklogKept ==
    ASSUME DriverTyped, DriverTyped', BacklogBounded, phase = "run",
           \A s \in Scope : Owed(s)' <= Owed(s)
    PROVE  BacklogBounded'
<1>1. /\ Backlog \in [Scope -> Nat]
      /\ \A s \in Scope : Owed(s) \in Int /\ Backlog[s] = IF Owed(s) > 0 THEN Owed(s) ELSE 0
  <2>1. d.downs \in [Scope -> Nat] /\ d.unproven \in [Scope -> Nat]
    BY DEF DriverTyped
  <2>2. \A s \in Scope : Owed(s) = Owes(d.downs, d.unproven, ended, InFlight, s)
    BY DEF Owed, Owes
  <2>3. Backlog = [s \in Scope |-> Max({0, Owed(s)})]
    BY DEF Backlog, Owed
  <2>4. \A s \in Scope : /\ Owed(s) \in Int /\ Max({0, Owed(s)}) \in Nat
                         /\ Max({0, Owed(s)}) = IF Owed(s) > 0 THEN Owed(s) ELSE 0
    BY <2>1, <2>2, OwesIs
  <2> QED BY <2>3, <2>4
<1>2. /\ Backlog' \in [Scope -> Nat]
      /\ \A s \in Scope : Owed(s)' \in Int /\ Backlog'[s] = IF Owed(s)' > 0 THEN Owed(s)' ELSE 0
  <2>1. d'.downs \in [Scope -> Nat] /\ d'.unproven \in [Scope -> Nat]
    BY DEF DriverTyped
  <2>2. \A s \in Scope : Owed(s)' = Owes(d'.downs, d'.unproven, ended', InFlight', s)
    BY DEF Owed, Owes
  <2>3. Backlog' = [s \in Scope |-> Max({0, Owed(s)'})]
    BY DEF Backlog, Owed
  <2>4. \A s \in Scope : /\ Owed(s)' \in Int /\ Max({0, Owed(s)'}) \in Nat
                         /\ Max({0, Owed(s)'}) = IF Owed(s)' > 0 THEN Owed(s)' ELSE 0
    BY <2>1, <2>2, OwesIs
  <2> QED BY <2>3, <2>4
<1>3. Total(Backlog') <= Total(Backlog)
  <2>1. IsFiniteSet({}) /\ Cardinality({}) = 0
    BY FS_EmptySet
  <2>2. \A s \in Scope : Backlog'[s] <= Backlog[s] + One(s \in {})
    BY <1>1, <1>2 DEF One
  <2>3. Total(Backlog') <= Total(Backlog) + 0
    BY <1>1, <1>2, <2>1, <2>2, TotalGrows
  <2> QED BY <1>1, <2>3, TotalIs DEF SumOf
<1>4. 1 \in Scope
  BY FsScopesAssumption DEF Scope
<1>5. Total(Backlog') \in Nat /\ Total(Backlog) \in Nat
  BY <1>1, <1>2, <1>4, TotalAbove
<1>6. Total(Backlog)' = Total(Backlog')
  BY DEF Total, MapThenSumSet, MapThenFoldSet
<1> QED BY <1>3, <1>5, <1>6, FsScopesAssumption DEF BacklogBounded

\* An answer goes to its caller and to nobody else.
LEMMA AnswerIs ==
    ASSUME CallsTyped, NEW who, NEW a, who \in Clients => Open(who)
    PROVE  /\ DOMAIN answer(calls, who, a) = Clients
           /\ \A c \in Clients : c # who => answer(calls, who, a)[c] = calls[c]
           /\ who \in Clients =>
                 LET new == answer(calls, who, a)[who]
                 IN  /\ new # Idle /\ DOMAIN new = {"op", "path", "s", "ans"} /\ new.ans = a
                     /\ new.op = calls[who].op /\ new.path = calls[who].path /\ new.s = calls[who].s
  BY FsScopesAssumption DEF CallsTyped, answer, Open, Idle, Calls

-----------------------------------------------------------------------------
(* The registry: a root that meets no other.                               *)

\* A root that conflicts with none overlaps none of the live ones.
LEMMA NoConflict ==
    ASSUME NEW r, NEW root, NEW p, NEW exempt, final_root_conflict(r, root, p, exempt) = {}
    PROVE  \A t \in DOMAIN r.live \ exempt :
               /\ ~StartsWith(root.path, r.live[t].path) /\ ~StartsWith(r.live[t].path, root.path)
               /\ root.id # r.live[t].id /\ r.live[t].id \notin root.anc /\ root.id \notin r.live[t].anc
<1> DEFINE others == DOMAIN r.live \ exempt
<1>1. \A A, B : FirstOf(A, B) = {} => A = {} /\ B = {}
  BY DEF FirstOf
<1>2. \A S : AnyOf(S) = {} => S = {}
  BY DEF AnyOf
<1>3. \A S : Nearest(S) = {} => S = {}
  BY DEF Nearest
<1>4. \A S : PathsOf(r, S) = {} => S = {}
  BY DEF PathsOf
<1> DEFINE above == {s \in others : r.live[s].id \in root.anc}
           below == {s \in others : root.id \in r.live[s].anc}
           twins == {s \in others : r.live[s].id = root.id}
<1>5. /\ Along(PathsOf(r, others), root.path) = {}
      /\ twins = {} /\ above = {} /\ below = {}
  <2> DEFINE lo == live_overlap(r, root.path, root.id, exempt)
             po == pending_overlap(r, root.path, root.id, {p})
  <2>1. FirstOf(lo, FirstOf(AnyOf(PathsOf(r, above)), FirstOf(AnyOf(PathsOf(r, below)), po))) = {}
    BY DEF final_root_conflict
  <2>2. lo = FirstOf(Along(PathsOf(r, others), root.path), AnyOf(PathsOf(r, twins)))
    BY DEF live_overlap
  <2> HIDE DEF lo, po, above, below, twins, others
  <2>3. lo = {} /\ AnyOf(PathsOf(r, above)) = {} /\ AnyOf(PathsOf(r, below)) = {}
    BY <1>1, <2>1
  <2>4. Along(PathsOf(r, others), root.path) = {} /\ AnyOf(PathsOf(r, twins)) = {}
    BY <1>1, <2>2, <2>3
  <2> QED BY <1>2, <1>4, <2>3, <2>4
<1>6. /\ Ancestors(PathsOf(r, others), root.path) = {}
      /\ Descendants(PathsOf(r, others), root.path) = {}
  BY <1>1, <1>2, <1>3, <1>5 DEF Along
<1> QED BY <1>5, <1>6 DEF Ancestors, Descendants, PathsOf

-----------------------------------------------------------------------------
(* A replacement goes on to its next stage.                                *)

\* The owner of a live stream.
Owner(s) ==
    \/ s \in held \/ Promised(s) \/ Discarded(s)
    \/ s \in DOMAIN d.deferred /\ [s |-> s, lane |-> d.lanes[s]] \in d.arms
    \/ \E i \in DOMAIN commands : commands[i].op = "unwatch" /\ commands[i].s = s

\* A replacement goes on for a scope: nothing of the registry or the callers changes.
MovesOn(s) ==
    /\ DOMAIN d' = Fields
    /\ d'.scope_seq = d.scope_seq /\ d'.handles = d.handles /\ d'.lanes = d.lanes
    /\ d'.lane_of = d.lane_of /\ d'.descending = d.descending /\ d'.downs = d.downs
    /\ d'.unproven = d.unproven /\ d'.watch_replies = d.watch_replies /\ d'.deferred = d.deferred
    /\ d'.arms = d.arms /\ d'.waiters = d.waiters
    /\ DOMAIN d'.replaces = DOMAIN d.replaces
    /\ \A t \in DOMAIN d.replaces :
          /\ DOMAIN d'.replaces[t] = {"who", "path", "mode", "root", "left"}
          /\ d'.replaces[t].who = d.replaces[t].who /\ d'.replaces[t].path = d.replaces[t].path
          /\ d'.replaces[t].mode \in Modes
          /\ t # s => d'.replaces[t] = d.replaces[t]
    /\ d.replaces[s].mode # "arming"
    /\ d'.spawns = IF d'.replaces[s].mode = "spawning" THEN d.spawns \cup {s} ELSE d.spawns \ {s}
    /\ running' = IF d'.replaces[s].mode = "arming" THEN [running EXCEPT ![s] = @ + 1] ELSE running
    /\ UNCHANGED <<reg, calls, outside, dead>> /\ Ungated

\* A replacement that moves on leaves everything else alone.
LEMMA MovesOnSafe ==
    ASSUME ScopesIInv, phase = "run", NEW s \in DOMAIN d.replaces, MovesOn(s)
    PROVE  ScopesIInv'
<1>a. /\ DriverTyped /\ CallsTyped /\ HistoryTyped /\ PhasesSound /\ StagesSound /\ LanesSound
      /\ OwnersSound /\ AskersSound /\ PlacesSound /\ VerdictsSound /\ GrantsKept
      /\ LiveRootsDisjoint /\ RegistryHonest /\ EveryStreamHeld /\ NoOrphan /\ BacklogBounded
      /\ CloseHonest
  BY DEF ScopesIInv, RootsSound, StreamsSound
<1>b. /\ DOMAIN d' = Fields /\ d'.handles = d.handles /\ d'.lanes = d.lanes
      /\ d'.lane_of = d.lane_of
  BY DEF MovesOn
<1>c. /\ d'.scope_seq = d.scope_seq /\ d'.downs = d.downs /\ d'.unproven = d.unproven
      /\ d'.watch_replies = d.watch_replies /\ d'.deferred = d.deferred
      /\ d'.arms = d.arms /\ d'.waiters = d.waiters
      /\ DOMAIN d'.replaces = DOMAIN d.replaces
      /\ \A t \in DOMAIN d.replaces :
            /\ DOMAIN d'.replaces[t] = {"who", "path", "mode", "root", "left"}
            /\ d'.replaces[t].who = d.replaces[t].who /\ d'.replaces[t].path = d.replaces[t].path
            /\ d'.replaces[t].mode \in Modes
            /\ t # s => d'.replaces[t] = d.replaces[t]
      /\ d'.spawns = IF d'.replaces[s].mode = "spawning" THEN d.spawns \cup {s} ELSE d.spawns \ {s}
  BY DEF MovesOn
<1>d. UNCHANGED <<commands, unwinds, held, released, phase, reported, dead>>
  BY DEF MovesOn, outside, front
<1>e. /\ running' = IF d'.replaces[s].mode = "arming" THEN [running EXCEPT ![s] = @ + 1] ELSE running
      /\ reg' = reg
  BY DEF MovesOn
<1>f. ended' = ended \cup {t \in d.handles \ d'.handles : t \notin DOMAIN d.deferred}
  BY DEF MovesOn, Ungated
<1>g. calls' = calls
  BY DEF MovesOn
<1>1. DriverTyped'
  <2>1. d'.spawns \subseteq 1 .. d.scope_seq
    BY <1>a, <1>c DEF DriverTyped, StagesSound
  <2> QED BY <1>a, <1>b, <1>c, <2>1 DEF DriverTyped
<1>2. CallsTyped'
  BY <1>a, <1>g, <1>d DEF CallsTyped
<1>3. HistoryTyped'
  BY <1>a, <1>b, <1>d, <1>e DEF HistoryTyped, DriverTyped
<1>4. PhasesSound'
  BY <1>a, <1>b, <1>c, <1>g, <1>d DEF PhasesSound
<1>5. StagesSound'
  BY <1>a, <1>b, <1>c, <1>d, <1>f DEF StagesSound, DriverTyped
<1>6. LanesSound'
  BY <1>a, <1>b, <1>d DEF LanesSound, DriverTyped, StagesSound
<1>7. OwnersSound'
  BY <1>a, <1>b, <1>c, <1>g, <1>d DEF OwnersSound, Promised, Grantee, Discarded, DriverTyped,
       StagesSound
<1>8. AskersSound'
  BY <1>a, <1>g, <1>d DEF AskersSound
<1>9. PlacesSound'
  BY <1>a, <1>c, <1>g, <1>d DEF PlacesSound, Open, InDriver
<1>10. VerdictsSound'
  BY <1>a, <1>b, <1>c, <1>g DEF VerdictsSound, DriverTyped
<1>11. GrantsKept'
  BY <1>a, <1>b, <1>g, <1>d DEF GrantsKept, Promised, Grantee
<1>12. LiveRootsDisjoint'
  BY <1>a, <1>e DEF LiveRootsDisjoint
<1>13. RegistryHonest'
  BY <1>a, <1>b, <1>c, <1>g, <1>d, <1>e DEF RegistryHonest, Queued
<1>14. EveryStreamHeld'
  <2> SUFFICES ASSUME NEW t \in Scope
               PROVE  running'[t] = One(t \in d'.handles) + One(t \in Arming') + d'.downs[t] + d'.unproven[t]
    BY DEF EveryStreamHeld
  <2>1. running[t] = One(t \in d.handles) + One(t \in Arming) + d.downs[t] + d.unproven[t]
    BY <1>a DEF EveryStreamHeld
  <2>2. running[t] \in Int /\ d.downs[t] \in Nat /\ d.unproven[t] \in Nat
    BY <1>a DEF DriverTyped, HistoryTyped
  <2>3. One(TRUE) = 1 /\ One(FALSE) = 0 /\ One(t \in d.handles) \in Int
    BY DEF One
  <2>4. CASE t # s
    <3>1. (t \in Arming') = (t \in Arming) /\ running'[t] = running[t]
      BY <1>a, <1>c, <1>e, <2>4 DEF Arming, HistoryTyped
    <3> QED BY <1>b, <1>c, <2>1, <3>1
  <2>5. CASE t = s /\ d'.replaces[s].mode = "arming"
    <3>1. One(t \in Arming') = 1 /\ One(t \in Arming) = 0 /\ running'[t] = running[t] + 1
      BY <1>a, <1>c, <1>e, <2>3, <2>5 DEF Arming, HistoryTyped, MovesOn, One
    <3> QED BY <1>b, <1>c, <2>1, <2>2, <2>3, <3>1
  <2>6. CASE t = s /\ d'.replaces[s].mode # "arming"
    <3>1. (t \in Arming') = FALSE /\ (t \in Arming) = FALSE /\ running'[t] = running[t]
      BY <1>a, <1>c, <1>e, <2>3, <2>6 DEF Arming, HistoryTyped, MovesOn
    <3> QED BY <1>b, <1>c, <2>1, <2>2, <2>3, <3>1
  <2> QED BY <2>4, <2>5, <2>6
<1>15. NoOrphan'
  <2> SUFFICES ASSUME NEW t \in d'.handles PROVE Owner(t)'
    BY DEF NoOrphan, Owner
  <2>1. Owner(t)
    BY <1>a, <1>b DEF NoOrphan, Owner
  <2>2. (Promised(t)' <=> Promised(t)) /\ (Discarded(t)' <=> Discarded(t))
    BY <1>d, <1>g DEF Promised, Discarded, Grantee
  <2> QED BY <1>b, <1>c, <1>d, <2>1, <2>2 DEF Owner
<1>16. BacklogBounded'
  <2>1. \A t \in Scope : Owed(t)' <= Owed(t)
    BY <1>a, <1>b, <1>c, <1>d, <1>f DEF Owed, InFlight, One, DriverTyped, StagesSound, PhasesSound
  <2> QED BY <1>a, <1>1, <2>1, BacklogKept
<1>17. CloseHonest'
  BY <1>a, <1>c, <1>d, <1>e DEF CloseHonest, PhasesSound
<1> QED BY <1>1, <1>2, <1>3, <1>4, <1>5, <1>6, <1>7, <1>8, <1>9, <1>10, <1>11, <1>12, <1>13,
         <1>14, <1>15, <1>16, <1>17 DEF ScopesIInv, RootsSound, StreamsSound

-----------------------------------------------------------------------------
(* Answers.                                                                *)

\* The call of c is answered with a.
Replied(c, a) ==
    /\ Open(c) /\ calls'[c] # Idle /\ DOMAIN calls'[c] = {"op", "path", "s", "ans"}
    /\ calls'[c].op = calls[c].op /\ calls'[c].path = calls[c].path /\ calls'[c].s = calls[c].s
    /\ calls'[c].ans = a

\* `who` is told a, and the waiters W of a scope their verdicts when it rests.
Settled(W, done, who, a) ==
    /\ DOMAIN calls' = Clients
    /\ \A c \in Clients :
          \/ calls'[c] = calls[c] /\ c # who /\ (done => \A i \in DOMAIN W : W[i].who # c)
          \/ c = who /\ Replied(c, a)
          \/ done /\ \E i \in DOMAIN W : W[i].who = c /\ Replied(c, Acked(W[i].verdict))

\* One caller is answered, and the waiters of a scope at rest with it.
LEMMA SettledBy ==
    ASSUME CallsTyped, NEW who, NEW a, who \in Clients => Open(who),
           NEW dr, NEW s, NEW done \in BOOLEAN,
           \A i \in DOMAIN dr.waiters[s] : \A c \in Clients :
               dr.waiters[s][i].who = c => Open(c) /\ c # who,
           calls' = resolve_unwatch_waiters(answer(calls, who, a), dr, s, done)
    PROVE  Settled(dr.waiters[s], done, who, a)
<1> DEFINE cs == answer(calls, who, a)
           W == dr.waiters[s]
<1>1. /\ DOMAIN cs = Clients
      /\ \A c \in Clients : c # who => cs[c] = calls[c]
      /\ who \in Clients =>
            /\ cs[who] # Idle /\ DOMAIN cs[who] = {"op", "path", "s", "ans"} /\ cs[who].ans = a
            /\ cs[who].op = calls[who].op /\ cs[who].path = calls[who].path /\ cs[who].s = calls[who].s
  BY AnswerIs
<1> HIDE DEF cs
<1>2. CASE ~done
  <2>1. calls' = cs
    BY <1>2 DEF resolve_unwatch_waiters, cs
  <2> QED BY <1>1, <1>2, <2>1 DEF Settled, Replied
<1>3. CASE done
  <2>1. calls' = [c \in Clients |->
            LET mine == {i \in DOMAIN W : W[i].who = c}
            IN  IF mine = {} THEN cs[c]
                ELSE [cs[c] EXCEPT !.ans = Acked(W[CHOOSE i \in mine : TRUE].verdict)]]
    BY <1>3 DEF resolve_unwatch_waiters, cs
  <2>2. ASSUME NEW c \in Clients
        PROVE  \/ calls'[c] = calls[c] /\ c # who /\ \A i \in DOMAIN W : W[i].who # c
               \/ c = who /\ Replied(c, a)
               \/ \E i \in DOMAIN W : W[i].who = c /\ Replied(c, Acked(W[i].verdict))
    <3> DEFINE mine == {i \in DOMAIN W : W[i].who = c}
               i0 == CHOOSE i \in mine : TRUE
    <3>1. CASE mine = {}
      <4>1. calls'[c] = cs[c] /\ \A i \in DOMAIN W : W[i].who # c
        BY <2>1, <3>1
      <4> QED BY <1>1, <4>1 DEF Replied
    <3>2. CASE mine # {}
      <4>1. i0 \in DOMAIN W /\ W[i0].who = c
        BY <3>2
      <4>2. calls'[c] = [cs[c] EXCEPT !.ans = Acked(W[i0].verdict)]
        BY <2>1, <3>2
      <4> HIDE DEF i0, W
      <4>3. Open(c) /\ c # who /\ cs[c] = calls[c]
        BY <1>1, <4>1 DEF W
      <4>4. calls[c] # Idle /\ DOMAIN calls[c] = {"op", "path", "s", "ans"} /\ calls[c].op \in Calls
        BY <4>3 DEF CallsTyped, Open
      <4>5. Replied(c, Acked(W[i0].verdict))
        BY <4>2, <4>3, <4>4 DEF Replied, Idle, Calls
      <4> QED BY <4>1, <4>5
    <3> QED BY <3>1, <3>2
  <2>3. DOMAIN calls' = Clients
    BY <2>1
  <2> HIDE DEF W
  <2>4. Settled(W, done, who, a)
    BY <1>3, <2>2, <2>3 DEF Settled
  <2> QED BY <2>4 DEF W
<1> QED BY <1>2, <1>3

\* What a waiter may be told.
Verdicts == {"torn", "unknown", "unproven"}

\* The calls that change are answered, with an answer of these kinds.
CallsGo(K) ==
    /\ DOMAIN calls' = Clients
    /\ \A c \in Clients :
          calls'[c] = calls[c] \/ (Replied(c, calls'[c].ans) /\ calls'[c].ans.k \in K)

\* What is settled goes to callers in their places.
LEMMA SettledGo ==
    ASSUME NEW W, NEW done \in BOOLEAN, NEW who, NEW a, Settled(W, done, who, a), NEW K, a.k \in K,
           \A i \in DOMAIN W : W[i].verdict \in K
    PROVE  CallsGo(K)
<1>1. \A i \in DOMAIN W : Acked(W[i].verdict).k \in K
  BY DEF Acked
<1>2. \A c \in Clients : \A b : Replied(c, b) => Replied(c, calls'[c].ans) /\ calls'[c].ans = b
  BY DEF Replied
<1> QED BY <1>1, <1>2 DEF Settled, CallsGo

\* Waiters are callers with a verdict.
LEMMA WaitersAre ==
    ASSUME DriverTyped, NEW s \in Scope
    PROVE  \A i \in DOMAIN d.waiters[s] : d.waiters[s][i] \in Waiter /\ d.waiters[s][i].verdict \in Verdicts
<1>1. d.waiters[s] \in Seq(Waiter)
  BY DEF DriverTyped
<1>2. \A i \in DOMAIN d.waiters[s] : d.waiters[s][i] \in Waiter
  BY <1>1
<1> QED BY <1>2 DEF Waiter, Verdicts

\* What holds a stream of t, in numbers.
LEMMA HeldAt ==
    ASSUME EveryStreamHeld, DriverTyped, HistoryTyped, NEW t \in Scope
    PROVE  /\ running[t] = One(t \in d.handles) + One(t \in Arming) + d.downs[t] + d.unproven[t]
           /\ running[t] \in Int /\ d.downs[t] \in Nat /\ d.unproven[t] \in Nat
           /\ One(t \in d.handles) \in Int /\ One(t \in Arming) \in Int
  BY DEF EveryStreamHeld, DriverTyped, HistoryTyped, One

\* The waiters of s are forgotten when they were told.
Rests(s, done) ==
    /\ d'.waiters = IF done THEN [d.waiters EXCEPT ![s] = <<>>] ELSE d.waiters
    /\ done => /\ s \notin d'.handles \cup d'.spawns \cup DOMAIN d'.replaces
               /\ d'.downs[s] = 0

\* The waiters of a scope at rest are told, and wait no more.
LEMMA WaitersRest ==
    ASSUME DriverTyped, NEW s \in Scope, NEW done \in BOOLEAN, Rests(s, done)
    PROVE  /\ d'.waiters \in [Scope -> Seq(Waiter)]
           /\ \A t \in Scope : d'.waiters[t] = d.waiters[t] \/ d'.waiters[t] = <<>>
           /\ \A t \in Scope : \A i \in DOMAIN d'.waiters[t] :
                 i \in DOMAIN d.waiters[t] /\ d'.waiters[t][i] = d.waiters[t][i]
           /\ done => DOMAIN d'.waiters[s] = {}
<1>1. d.waiters \in [Scope -> Seq(Waiter)] /\ <<>> \in Seq(Waiter) /\ DOMAIN <<>> = {}
  BY DEF DriverTyped
<1>2. CASE done
  <2>1. d'.waiters = [d.waiters EXCEPT ![s] = <<>>]
    BY <1>2 DEF Rests
  <2> QED BY <1>1, <2>1
<1>3. CASE ~done
  BY <1>1, <1>3 DEF Rests
<1> QED BY <1>2, <1>3

\* The reply half of c's call is somewhere.
Placed(c) == (\E i \in DOMAIN commands : commands[i].who = c) \/ InDriver(c)

\* The reply halves stay in one place where some of them go and none comes.
LEMMA PlacesKept ==
    ASSUME PlacesSound, NEW n \in {0, 1},
           \A i \in DOMAIN commands' :
               i \in Nat /\ i + n \in DOMAIN commands /\ commands'[i] = commands[i + n],
           \A t \in DOMAIN d'.watch_replies :
               t \in DOMAIN d.watch_replies /\ d'.watch_replies[t].who = d.watch_replies[t].who,
           \A t \in DOMAIN d'.deferred :
               t \in DOMAIN d.deferred /\ d'.deferred[t].who = d.deferred[t].who,
           \A t \in DOMAIN d'.replaces :
               t \in DOMAIN d.replaces /\ d'.replaces[t].who = d.replaces[t].who,
           \A t \in Scope : \A i \in DOMAIN d'.waiters[t] :
               i \in DOMAIN d.waiters[t] /\ d'.waiters[t][i].who = d.waiters[t][i].who,
           \A c \in Clients : Placed(c)' => calls'[c] = calls[c]
    PROVE  PlacesSound'
<1> SUFFICES ASSUME NEW c \in Clients
             PROVE
        /\ \A i \in DOMAIN commands' : commands'[i].who = c =>
              /\ Open(c)' /\ calls'[c].op = commands'[i].op /\ calls'[c].s = commands'[i].s
              /\ ~InDriver(c)' /\ \A j \in DOMAIN commands' : commands'[j].who = c => j = i
        /\ \A s \in DOMAIN d'.watch_replies : d'.watch_replies[s].who = c =>
              /\ Open(c)' /\ calls'[c].op = "watch"
              /\ \A t \in DOMAIN d'.watch_replies : d'.watch_replies[t].who = c => t = s
              /\ \A t \in DOMAIN d'.deferred : d'.deferred[t].who # c
        /\ \A s \in DOMAIN d'.deferred : d'.deferred[s].who = c =>
              /\ Open(c)' /\ calls'[c].op = "watch"
              /\ \A t \in DOMAIN d'.deferred : d'.deferred[t].who = c => t = s
        /\ \A s \in DOMAIN d'.replaces : d'.replaces[s].who = c =>
              Open(c)' /\ calls'[c].op = "replace" /\ calls'[c].s = s
        /\ \A s \in Scope : \A i \in DOMAIN d'.waiters[s] : d'.waiters[s][i].who = c =>
              Open(c)' /\ calls'[c].op = "unwatch" /\ calls'[c].s = s
  BY DEF PlacesSound
<1>1. InDriver(c)' => InDriver(c)
  BY DEF InDriver
<1>2. CASE ~Placed(c)'
  BY <1>2 DEF Placed, InDriver
<1>3. CASE Placed(c)'
  <2>1. calls'[c] = calls[c] /\ (Open(c)' <=> Open(c))
    BY <1>3 DEF Open
  <2> QED BY <1>1, <2>1 DEF PlacesSound
<1> QED BY <1>2, <1>3

\* Who waits for the end of s waits nowhere else, and a replacement's caller waits
\* for its end alone.
LEMMA AtOnePlace ==
    ASSUME PlacesSound, NEW s \in Scope, NEW c \in Clients
    PROVE  /\ (\E i \in DOMAIN d.waiters[s] : d.waiters[s][i].who = c) =>
                 /\ Open(c) /\ calls[c].op = "unwatch" /\ calls[c].s = s
                 /\ \A i \in DOMAIN commands : commands[i].who # c
                 /\ \A t \in DOMAIN d.watch_replies : d.watch_replies[t].who # c
                 /\ \A t \in DOMAIN d.deferred : d.deferred[t].who # c
                 /\ \A t \in DOMAIN d.replaces : d.replaces[t].who # c
                 /\ \A t \in Scope \ {s} : \A i \in DOMAIN d.waiters[t] : d.waiters[t][i].who # c
           /\ s \in DOMAIN d.replaces /\ d.replaces[s].who = c =>
                 /\ Open(c) /\ calls[c].op = "replace" /\ calls[c].s = s
                 /\ \A i \in DOMAIN commands : commands[i].who # c
                 /\ \A t \in DOMAIN d.watch_replies : d.watch_replies[t].who # c
                 /\ \A t \in DOMAIN d.deferred : d.deferred[t].who # c
                 /\ \A t \in DOMAIN d.replaces \ {s} : d.replaces[t].who # c
                 /\ \A t \in Scope : \A i \in DOMAIN d.waiters[t] : d.waiters[t][i].who # c
<1>1. InDriver(c) => \A i \in DOMAIN commands : commands[i].who # c
  BY DEF PlacesSound
<1>2. CASE \E i \in DOMAIN d.waiters[s] : d.waiters[s][i].who = c
  <2>1. Open(c) /\ calls[c].op = "unwatch" /\ calls[c].s = s
    BY <1>2 DEF PlacesSound
  <2>2. InDriver(c)
    BY <1>2 DEF InDriver
  <2> QED BY <1>1, <2>1, <2>2 DEF PlacesSound
<1>3. CASE s \in DOMAIN d.replaces /\ d.replaces[s].who = c
  <2>1. Open(c) /\ calls[c].op = "replace" /\ calls[c].s = s
    BY <1>3 DEF PlacesSound
  <2>2. InDriver(c)
    BY <1>3 DEF InDriver
  <2> QED BY <1>1, <2>1, <2>2 DEF PlacesSound
<1> QED BY <1>2, <1>3

\* The claim a reservation lives on.
Claimed(p) ==
    \/ \E c \in Clients : calls[c] # Idle /\ calls[c].op = "watch" /\ calls[c].path = p
    \/ \E i \in Queued("replace") : commands[i].path = p
    \/ \E s \in DOMAIN d.replaces : d.replaces[s].path = p

\* A reservation has its claimant as long as the claimant is there.
LEMMA ClaimsStand ==
    ASSUME RegistryHonest, NEW K, CallsGo(K), NEW n \in {0, 1},
           commands \in Seq([op : Calls, who : Whose, path : Where, s : Scope \cup {0}, awaited : BOOLEAN]),
           \A i \in DOMAIN commands : i > n /\ commands[i].op = "replace" =>
               i - n \in DOMAIN commands' /\ commands'[i - n] = commands[i],
           \A p \in DOMAIN reg'.pending :
               /\ p \in DOMAIN reg.pending
               /\ n = 1 /\ 1 \in DOMAIN commands /\ commands[1].op = "replace" /\ commands[1].path = p =>
                     Claimed(p)'
               /\ \A s \in DOMAIN d.replaces : d.replaces[s].path = p => Claimed(p)'
    PROVE  \A p \in DOMAIN reg'.pending : Claimed(p)'
<1> SUFFICES ASSUME NEW p \in DOMAIN reg'.pending PROVE Claimed(p)'
  OBVIOUS
<1>1. Claimed(p)
  BY DEF RegistryHonest, Claimed
<1>2. ASSUME NEW c \in Clients, calls[c] # Idle, calls[c].op = "watch", calls[c].path = p PROVE Claimed(p)'
  <2>1. calls'[c] # Idle /\ calls'[c].op = "watch" /\ calls'[c].path = p
    BY <1>2 DEF CallsGo, Replied
  <2> QED BY <2>1 DEF Claimed
<1>3. ASSUME NEW i \in Queued("replace"), commands[i].path = p PROVE Claimed(p)'
  BY <1>3 DEF Claimed, Queued
<1> QED BY <1>1, <1>2, <1>3 DEF Claimed

\* Those who are told that a scope is gone waited for that.
LEMMA ToldOf ==
    ASSUME PlacesSound, NEW s \in Scope, NEW W, NEW done, NEW who, NEW a,
           Settled(W, done, who, a), a.k # "torn",
           \A i \in DOMAIN W : i \in DOMAIN d.waiters[s] /\ W[i].who = d.waiters[s][i].who
    PROVE  \A c \in Clients : calls'[c].ans = Acked("torn") =>
               \/ calls'[c] = calls[c]
               \/ /\ done /\ calls'[c].s = s /\ calls'[c].op = "unwatch"
                  /\ \E i \in DOMAIN W : W[i].verdict = "torn"
<1> SUFFICES ASSUME NEW c \in Clients, calls'[c].ans = Acked("torn")
             PROVE  \/ calls'[c] = calls[c]
                    \/ /\ done /\ calls'[c].s = s /\ calls'[c].op = "unwatch"
                       /\ \E i \in DOMAIN W : W[i].verdict = "torn"
  OBVIOUS
<1>1. CASE c = who /\ Replied(c, a)
  BY <1>1 DEF Replied, Acked
<1>2. ASSUME done, NEW i \in DOMAIN W, W[i].who = c, Replied(c, Acked(W[i].verdict))
      PROVE  /\ calls'[c].s = s /\ calls'[c].op = "unwatch" /\ W[i].verdict = "torn"
  <2>1. calls[c].s = s /\ calls[c].op = "unwatch"
    BY <1>2 DEF PlacesSound
  <2>2. Acked(W[i].verdict) = Acked("torn")
    BY <1>2 DEF Replied
  <2> QED BY <1>2, <2>1, <2>2 DEF Replied, Acked
<1> QED BY <1>1, <1>2 DEF Settled

\* What a scope at rest was told stays true where it stays at rest, and what the
\* waiters of s are told is true where s is.
LEMMA VerdictsKept ==
    ASSUME VerdictsSound, NEW s \in Scope, NEW done,
           \A c \in Clients : calls'[c].ans = Acked("torn") =>
               \/ calls'[c] = calls[c]
               \/ done /\ calls'[c].s = s /\ calls'[c].op = "unwatch" /\ d'.unproven[s] = 0,
           done => s \notin d'.handles \cup d'.spawns \cup DOMAIN d'.replaces /\ d'.downs[s] = 0,
           \A t \in Scope :
               /\ t \notin d.handles \cup d.spawns \cup DOMAIN d.replaces
               /\ d.downs[t] = 0 /\ d.unproven[t] = 0
               => /\ t \notin d'.handles \cup d'.spawns \cup DOMAIN d'.replaces
                  /\ d'.downs[t] = 0 /\ d'.unproven[t] = 0,
           \A t \in Scope : \A i \in DOMAIN d'.waiters[t] :
               d'.waiters[t][i].verdict = "torn" => d'.unproven[t] = 0
    PROVE  VerdictsSound'
<1>1. ASSUME NEW c \in Clients, calls'[c] # Idle, calls'[c].ans = Acked("torn")
      PROVE  /\ calls'[c].s \in Scope /\ calls'[c].op = "unwatch"
             /\ calls'[c].s \notin d'.handles \cup d'.spawns \cup DOMAIN d'.replaces
             /\ d'.downs[calls'[c].s] = 0 /\ d'.unproven[calls'[c].s] = 0
  <2>1. CASE calls'[c] = calls[c]
    <3> DEFINE t == calls[c].s
    <3>1. /\ t \in Scope /\ calls[c].op = "unwatch"
          /\ t \notin d.handles \cup d.spawns \cup DOMAIN d.replaces
          /\ d.downs[t] = 0 /\ d.unproven[t] = 0
      BY <1>1, <2>1 DEF VerdictsSound
    <3> QED BY <2>1, <3>1
  <2>2. CASE done /\ calls'[c].s = s /\ calls'[c].op = "unwatch" /\ d'.unproven[s] = 0
    BY <2>2
  <2> QED BY <1>1, <2>1, <2>2
<1> QED BY <1>1 DEF VerdictsSound

\* Grants are neither made nor taken.
LEMMA GrantsStand ==
    ASSUME NEW K, "grant" \notin K, CallsGo(K), UNCHANGED unwinds
    PROVE  /\ \A c \in Clients, t \in Scope : Grantee(c, t)' <=> Grantee(c, t)
           /\ \A t \in Scope : (Promised(t)' <=> Promised(t)) /\ (Discarded(t)' <=> Discarded(t))
<1>1. \A c \in Clients, t \in Scope : Grantee(c, t)' <=> Grantee(c, t)
  BY DEF Grantee, CallsGo, Replied, Open, Granted, Waiting
<1>2. \A t \in Scope : Promised(t)' <=> Promised(t)
  BY <1>1 DEF Promised
<1> QED BY <1>1, <1>2 DEF Discarded

-----------------------------------------------------------------------------
(* A replacement comes to its end, however: n streams go to the reaper, m  *)
(* streams are new, and the scope may have moved to a new lane.            *)

\* The replacement of s ends with the answer a.
ReplaceEnds(s, n, m, a) ==
    /\ DOMAIN d' = Fields
    /\ d'.scope_seq = d.scope_seq /\ d'.handles = d.handles /\ d'.unproven = d.unproven
    /\ d'.watch_replies = d.watch_replies /\ d'.deferred = d.deferred /\ d'.arms = d.arms
    /\ \/ d'.lanes = d.lanes /\ d'.lane_of = d.lane_of
       \/ /\ s \in d.handles
          /\ d'.lanes = Put(d.lanes, s, Len(d.lane_of) + 1) /\ d'.lane_of = Append(d.lane_of, s)
    /\ d'.spawns = d.spawns \ {s}
    /\ n \in {0, 1} /\ d'.downs = [d.downs EXCEPT ![s] = @ + n]
    /\ d'.replaces = Drop(d.replaces, {s})
    /\ n = m + One(s \in Arming) /\ m \in {0, 1} /\ running' = [running EXCEPT ![s] = @ + m]
    /\ DOMAIN reg' = {"live", "pending"} /\ DOMAIN reg'.live = DOMAIN reg.live
    /\ reg'.pending = Drop(reg.pending, {d.replaces[s].path})
    /\ a.k \in {"err", "ok"} /\ DOMAIN a # {"k", "s"}
    /\ \E done \in BOOLEAN : Rests(s, done) /\ Settled(d.waiters[s], done, d.replaces[s].who, a)
    /\ UNCHANGED <<outside, dead>> /\ Ungated

\* A replacement that ends, well or not, keeps what holds if its root meets no other.
LEMMA ReplaceEndsSafe ==
    ASSUME ScopesIInv, phase = "run", NEW s \in DOMAIN d.replaces, NEW n, NEW m, NEW a,
           ReplaceEnds(s, n, m, a), LiveRootsDisjoint'
    PROVE  ScopesIInv'
<1>a. /\ DriverTyped /\ CallsTyped /\ HistoryTyped /\ PhasesSound /\ StagesSound /\ LanesSound
      /\ OwnersSound /\ AskersSound /\ PlacesSound /\ VerdictsSound /\ GrantsKept
      /\ LiveRootsDisjoint /\ RegistryHonest /\ EveryStreamHeld /\ NoOrphan /\ BacklogBounded
      /\ CloseHonest
  BY DEF ScopesIInv, RootsSound, StreamsSound
<1>i. \/ \/ /\ d'.lanes = d.lanes /\ d'.lane_of = d.lane_of
      \/ /\ s \in d.handles
         /\ d'.lanes = Put(d.lanes, s, Len(d.lane_of) + 1) /\ d'.lane_of = Append(d.lane_of, s)
  BY DEF ReplaceEnds
<1>b. /\ DOMAIN d' = Fields /\ d'.handles = d.handles /\ s \in Scope /\ d'.lane_of \in Seq(Scope)
      /\ DOMAIN d'.lanes = d.handles /\ \A t \in d.handles \ {s} : d'.lanes[t] = d.lanes[t]
      /\ \A l \in DOMAIN d.lane_of : l \in DOMAIN d'.lane_of /\ d'.lane_of[l] = d.lane_of[l]
      /\ s \in d.handles => s \in DOMAIN d'.lanes /\ d'.lanes[s] \in DOMAIN d'.lane_of /\ d'.lane_of[d'.lanes[s]] = s
  <2>1. /\ DOMAIN d' = Fields /\ d'.handles = d.handles /\ s \in Scope /\ d.lane_of \in Seq(Scope)
        /\ DOMAIN d.lanes = d.handles
    BY <1>a DEF ReplaceEnds, DriverTyped, LanesSound
  <2>2. CASE d'.lanes = d.lanes /\ d'.lane_of = d.lane_of
    BY <1>a, <2>1, <2>2 DEF LanesSound
  <2>3. CASE /\ s \in d.handles
             /\ d'.lanes = Put(d.lanes, s, Len(d.lane_of) + 1) /\ d'.lane_of = Append(d.lane_of, s)
    <3>1. /\ d'.lane_of \in Seq(Scope) /\ DOMAIN d'.lane_of = 1 .. Len(d.lane_of) + 1
          /\ \A l \in DOMAIN d.lane_of : l \in DOMAIN d'.lane_of /\ d'.lane_of[l] = d.lane_of[l]
          /\ d'.lane_of[Len(d.lane_of) + 1] = s /\ Len(d.lane_of) + 1 \in DOMAIN d'.lane_of
      BY <2>1, <2>3
    <3>2. /\ DOMAIN d'.lanes = DOMAIN d.lanes \cup {s} /\ d'.lanes[s] = Len(d.lane_of) + 1
          /\ \A t \in DOMAIN d.lanes \ {s} : d'.lanes[t] = d.lanes[t]
      BY <2>3 DEF Put
    <3> QED BY <2>1, <2>3, <3>1, <3>2
  <2> QED BY <1>i, <2>2, <2>3
<1>c. /\ d'.scope_seq = d.scope_seq /\ d'.unproven = d.unproven
      /\ d'.watch_replies = d.watch_replies /\ d'.deferred = d.deferred /\ d'.arms = d.arms
      /\ d'.spawns = d.spawns \ {s} /\ n \in {0, 1} /\ d'.downs \in [Scope -> Nat]
      /\ \A t \in Scope : d'.downs[t] = IF t = s THEN d.downs[t] + n ELSE d.downs[t]
      /\ DOMAIN d'.replaces = DOMAIN d.replaces \ {s}
      /\ \A t \in DOMAIN d'.replaces : d'.replaces[t] = d.replaces[t]
  <2>1. n \in Nat /\ d.downs \in [Scope -> Nat] /\ d'.downs = [d.downs EXCEPT ![s] = @ + n]
    BY <1>a DEF ReplaceEnds, DriverTyped
  <2> QED BY <1>a, <1>b, <2>1 DEF ReplaceEnds, Drop
<1>d. UNCHANGED <<commands, unwinds, held, released, phase, reported, dead>>
  BY DEF ReplaceEnds, outside, front
<1>e. /\ n = m + One(s \in Arming) /\ m \in {0, 1} /\ running' = [running EXCEPT ![s] = @ + m]
      /\ DOMAIN reg' = {"live", "pending"} /\ DOMAIN reg'.live = DOMAIN reg.live
      /\ reg'.pending = Drop(reg.pending, {d.replaces[s].path})
  BY DEF ReplaceEnds
<1>f. ended' = ended /\ phase = "run"
  BY <1>b DEF ReplaceEnds, Ungated
<1>h. PICK done \in BOOLEAN :
         Rests(s, done) /\ Settled(d.waiters[s], done, d.replaces[s].who, a)
  BY DEF ReplaceEnds
<1>w. /\ d'.waiters \in [Scope -> Seq(Waiter)]
      /\ \A t \in Scope : d'.waiters[t] = d.waiters[t] \/ d'.waiters[t] = <<>>
      /\ \A t \in Scope : \A i \in DOMAIN d'.waiters[t] :
            i \in DOMAIN d.waiters[t] /\ d'.waiters[t][i] = d.waiters[t][i]
      /\ done => DOMAIN d'.waiters[s] = {}
  BY <1>a, <1>b, <1>h, WaitersRest
<1>g. CallsGo({"err", "ok"} \cup Verdicts)
  <2>1. \A i \in DOMAIN d.waiters[s] : d.waiters[s][i].verdict \in {"err", "ok"} \cup Verdicts
    BY <1>a, <1>b, WaitersAre
  <2>2. a.k \in {"err", "ok"} \cup Verdicts
    BY DEF ReplaceEnds
  <2> QED BY <1>h, <2>1, <2>2, SettledGo
<1>p. /\ \A c \in Clients, t \in Scope : Grantee(c, t)' <=> Grantee(c, t)
      /\ \A t \in Scope : (Promised(t)' <=> Promised(t)) /\ (Discarded(t)' <=> Discarded(t))
  <2>1. "grant" \notin {"err", "ok"} \cup Verdicts
    BY DEF Verdicts
  <2> QED BY <1>d, <1>g, <2>1, GrantsStand
<1>1. DriverTyped'
  <2>1. \A t \in DOMAIN d'.replaces : t \in DOMAIN d.replaces
    BY <1>c
  <2> QED BY SMTT(30), <1>a, <1>b, <1>c, <1>w, <2>1 DEF DriverTyped
<1>2. CallsTyped'
  BY <1>a, <1>g, <1>d DEF CallsTyped, CallsGo, Replied, Verdicts, Open
<1>3. HistoryTyped'
  BY <1>a, <1>b, <1>d, <1>e DEF HistoryTyped, DriverTyped
<1>4. PhasesSound'
  <2>1. phase' = "run"
    BY <1>d, <1>f
  <2>2. reported' >= 0 => phase' = "closed"
    BY <1>a, <1>d DEF PhasesSound
  <2>3. ASSUME NEW c \in Clients, calls'[c] # Idle, calls'[c].ans = Acked("closed") PROVE FALSE
    <3>1. Acked("closed").k = "closed" /\ "closed" \notin {"err", "ok"} \cup Verdicts
      BY DEF Acked, Verdicts
    <3>2. calls'[c] = calls[c]
      BY <1>g, <2>3, <3>1 DEF CallsGo
    <3> QED BY <1>a, <1>f, <2>3, <3>2 DEF PhasesSound
  <2> QED BY <2>1, <2>2, <2>3 DEF PhasesSound
<1>5. StagesSound'
  <2>1. DOMAIN d'.replaces \cup d'.handles \cup ended' \subseteq 1 .. d'.scope_seq
    BY <1>a, <1>b, <1>c, <1>f DEF StagesSound
  <2>2. DOMAIN d'.watch_replies = d'.spawns \ DOMAIN d'.replaces
    BY <1>a, <1>c, <1>f DEF StagesSound
  <2>3. /\ DOMAIN d'.watch_replies \cap (d'.handles \cup ended') = {}
        /\ ended' \cap d'.handles = {}
    BY <1>a, <1>b, <1>c, <1>f DEF StagesSound
  <2>4. \A t \in d'.spawns \cap DOMAIN d'.replaces : d'.replaces[t].mode = "spawning"
    BY <1>a, <1>c, <1>f DEF StagesSound
  <2>5. \A t \in DOMAIN d'.deferred :
              /\ t \in d'.handles /\ t \notin DOMAIN d'.replaces
              /\ [s |-> t, lane |-> d'.lanes[t]] \in d'.arms
    <3> SUFFICES ASSUME NEW t \in DOMAIN d'.deferred
                 PROVE  /\ t \in d'.handles /\ t \notin DOMAIN d'.replaces
                        /\ [s |-> t, lane |-> d'.lanes[t]] \in d'.arms
      OBVIOUS
    <3>1. /\ t \in d.handles /\ t \notin DOMAIN d.replaces
          /\ [s |-> t, lane |-> d.lanes[t]] \in d.arms
      BY <1>a, <1>c, <1>f DEF StagesSound
    <3>2. t # s /\ d'.lanes[t] = d.lanes[t]
      BY <1>b, <3>1
    <3> QED BY <1>b, <1>c, <3>1, <3>2
  <2> QED BY <2>1, <2>2, <2>3, <2>4, <2>5 DEF StagesSound
<1>6. LanesSound'
  BY <1>a, <1>b, <1>d DEF LanesSound, DriverTyped
<1>7. OwnersSound'
  BY SMTT(30), <1>a, <1>b, <1>c, <1>p, <1>d, <1>w DEF OwnersSound, DriverTyped, StagesSound
<1>8. AskersSound'
  BY <1>a, <1>g, <1>d DEF AskersSound, CallsGo, Replied, Verdicts, Open
<1>9. PlacesSound'
  <2>1. \A t \in Scope : \A i \in DOMAIN d'.waiters[t] :
           i \in DOMAIN d.waiters[t] /\ d'.waiters[t][i].who = d.waiters[t][i].who
    BY <1>w
  <2>2. ASSUME NEW c \in Clients, Placed(c)' PROVE calls'[c] = calls[c]
    <3>1. c # d.replaces[s].who
      <4> SUFFICES ASSUME c = d.replaces[s].who PROVE FALSE
        OBVIOUS
      <4>1. \A t \in Scope : \A j \in DOMAIN d'.waiters[t] : d'.waiters[t][j].who # c
        BY <1>a, <1>b, <1>w, AtOnePlace
      <4>2. \A t \in DOMAIN d'.replaces : d'.replaces[t].who # c
        BY <1>a, <1>b, <1>c, AtOnePlace
      <4> QED BY <1>a, <1>b, <1>c, <1>d, <2>2, <4>1, <4>2, AtOnePlace DEF Placed, InDriver
    <3>2. ASSUME done, NEW i \in DOMAIN d.waiters[s], d.waiters[s][i].who = c PROVE FALSE
      <4>1. \A t \in Scope : \A j \in DOMAIN d'.waiters[t] : d'.waiters[t][j].who # c
        BY <1>a, <1>b, <1>w, <3>2, AtOnePlace
      <4>2. \A t \in DOMAIN d'.replaces : d'.replaces[t].who # c
        BY <1>a, <1>b, <1>c, <3>2, AtOnePlace
      <4> QED BY <1>a, <1>b, <1>c, <1>d, <2>2, <3>2, <4>1, <4>2, AtOnePlace DEF Placed, InDriver
    <3> QED BY <1>h, <3>1, <3>2 DEF Settled
  <2>3. \A i \in DOMAIN commands' :
           i \in Nat /\ i + 0 \in DOMAIN commands /\ commands'[i] = commands[i + 0]
    BY <1>a, <1>d DEF CallsTyped
  <2> QED BY <1>a, <1>c, <2>1, <2>2, <2>3, PlacesKept
<1>10. VerdictsSound'
  <2>1. a.k # "torn"
    BY DEF ReplaceEnds
  <2>2. \A t \in Scope : \A i \in DOMAIN d'.waiters[t] :
           i \in DOMAIN d.waiters[t] /\ d'.waiters[t][i] = d.waiters[t][i]
    BY <1>w
  <2>3. \A t \in Scope : \A i \in DOMAIN d.waiters[t] :
           d.waiters[t][i].verdict = "torn" => d'.unproven[t] = 0
    BY <1>a, <1>c DEF VerdictsSound
  <2>4. \A t \in Scope :
           t \notin d.handles \cup d.spawns \cup DOMAIN d.replaces /\ d.downs[t] = 0 /\ d.unproven[t] = 0
           => /\ t \notin d'.handles \cup d'.spawns \cup DOMAIN d'.replaces
              /\ d'.downs[t] = 0 /\ d'.unproven[t] = 0
    BY <1>a, <1>b, <1>c DEF DriverTyped
  <2>5. done => s \notin d'.handles \cup d'.spawns \cup DOMAIN d'.replaces /\ d'.downs[s] = 0
    BY <1>h DEF Rests
  <2>6. \A t \in Scope : \A i \in DOMAIN d'.waiters[t] :
           d'.waiters[t][i].verdict = "torn" => d'.unproven[t] = 0
    <3> SUFFICES ASSUME NEW t \in Scope, NEW i \in DOMAIN d'.waiters[t]
                 PROVE  d'.waiters[t][i].verdict = "torn" => d'.unproven[t] = 0
      OBVIOUS
    <3>1. i \in DOMAIN d.waiters[t] /\ d'.waiters[t][i] = d.waiters[t][i]
      BY <2>2
    <3> QED BY <2>3, <3>1
  <2>7. \A i \in DOMAIN d.waiters[s] : i \in DOMAIN d.waiters[s] /\ d.waiters[s][i].who = d.waiters[s][i].who
    OBVIOUS
  <2>8. \A c \in Clients : calls'[c].ans = Acked("torn") =>
               \/ calls'[c] = calls[c]
               \/ /\ done /\ calls'[c].s = s /\ calls'[c].op = "unwatch"
                  /\ \E i \in DOMAIN d.waiters[s] : d.waiters[s][i].verdict = "torn"
    BY <1>a, <1>b, <1>h, <2>1, <2>7, ToldOf
  <2>9. \A c \in Clients : calls'[c].ans = Acked("torn") =>
               \/ calls'[c] = calls[c]
               \/ done /\ calls'[c].s = s /\ calls'[c].op = "unwatch" /\ d'.unproven[s] = 0
    BY <1>b, <2>3, <2>8
  <2> QED BY <1>a, <1>b, <2>4, <2>5, <2>6, <2>9, VerdictsKept
<1>11. GrantsKept'
  <2> SUFFICES ASSUME NEW t \in Scope, t \in held \/ Promised(t)
               PROVE  t \in d'.handles \/ \E l \in dead : d'.lane_of[l] = t
    BY <1>d, <1>p DEF GrantsKept
  <2>1. t \in d.handles \/ \E l \in dead : d.lane_of[l] = t
    BY <1>a, <1>f DEF GrantsKept
  <2> QED BY <1>a, <1>b, <2>1 DEF HistoryTyped
<1>12. LiveRootsDisjoint'
  OBVIOUS
<1>13. RegistryHonest'
  <2>1. DOMAIN reg'.live = d'.handles
    BY <1>a, <1>b, <1>e, <1>f DEF RegistryHonest
  <2>2. \A p \in DOMAIN reg'.pending : p \in DOMAIN reg.pending /\ p # d.replaces[s].path
    BY <1>e DEF Drop
  <2>3. \A p \in DOMAIN reg'.pending : \A t \in DOMAIN d.replaces : d.replaces[t].path = p => Claimed(p)'
    BY <1>c, <2>2 DEF Claimed
  <2>4. \A i \in DOMAIN commands : i > 0 /\ commands[i].op = "replace" =>
               i - 0 \in DOMAIN commands' /\ commands'[i - 0] = commands[i]
    BY <1>a, <1>d DEF CallsTyped
  <2>6. \A p \in DOMAIN reg'.pending :
           /\ p \in DOMAIN reg.pending
           /\ 0 = 1 /\ 1 \in DOMAIN commands /\ commands[1].op = "replace" /\ commands[1].path = p => Claimed(p)'
           /\ \A t \in DOMAIN d.replaces : d.replaces[t].path = p => Claimed(p)'
    BY <2>2, <2>3
  <2>7. commands \in Seq([op : Calls, who : Whose, path : Where, s : Scope \cup {0}, awaited : BOOLEAN])
    BY <1>a DEF CallsTyped
  <2>5. \A p \in DOMAIN reg'.pending : Claimed(p)'
    BY <1>a, <1>g, <2>6, <2>7, <2>2, <2>3, <2>4, ClaimsStand
  <2> QED BY <2>1, <2>5 DEF RegistryHonest, Claimed
<1>14. EveryStreamHeld'
  <2> SUFFICES ASSUME NEW t \in Scope
               PROVE  running'[t] = One(t \in d'.handles) + One(t \in Arming') + d'.downs[t] + d'.unproven[t]
    BY DEF EveryStreamHeld
  <2>1. /\ running[t] = One(t \in d.handles) + One(t \in Arming) + d.downs[t] + d.unproven[t]
        /\ running[t] \in Int /\ d.downs[t] \in Nat /\ d.unproven[t] \in Nat
        /\ One(t \in d.handles) \in Int /\ One(t \in Arming) \in Int
    BY <1>a, HeldAt
  <2>2. One(t \in d'.handles) = One(t \in d.handles)
    BY <1>b
  <2>3. CASE t # s
    <3>1. /\ One(t \in Arming') = One(t \in Arming) /\ running'[t] = running[t]
          /\ d'.downs[t] = d.downs[t] /\ d'.unproven[t] = d.unproven[t]
      BY <1>a, <1>c, <1>e, <2>3 DEF Arming, HistoryTyped, One, DriverTyped
    <3> QED BY <2>1, <2>2, <3>1
  <2>4. CASE t = s
    <3>1. /\ One(t \in Arming') = 0 /\ running'[t] = running[t] + m
          /\ d'.downs[t] = d.downs[t] + n /\ d'.unproven[t] = d.unproven[t]
      BY <1>a, <1>c, <1>e, <2>4 DEF Arming, HistoryTyped, One, DriverTyped
    <3>2. n = m + One(t \in Arming) /\ n \in Int /\ m \in Int
      BY <1>c, <1>e, <2>4
    <3> QED BY <2>1, <2>2, <3>1, <3>2
  <2> QED BY <2>3, <2>4
<1>15. NoOrphan'
  <2> SUFFICES ASSUME NEW t \in d'.handles PROVE Owner(t)'
    BY DEF NoOrphan, Owner
  <2>1. t \in Scope /\ Owner(t)
    BY <1>a, <1>b, <1>f DEF NoOrphan, Owner, DriverTyped
  <2>2. CASE t \in DOMAIN d.deferred /\ [s |-> t, lane |-> d.lanes[t]] \in d.arms
    <3>1. t # s /\ d'.lanes[t] = d.lanes[t]
      BY <1>a, <1>b, <1>f, <2>2 DEF StagesSound
    <3> QED BY <1>c, <2>2, <3>1 DEF Owner
  <2> QED BY <1>d, <1>p, <2>1, <2>2 DEF Owner
<1>16. BacklogBounded'
  <2>1. ASSUME NEW t \in Scope PROVE Owed(t)' <= Owed(t)
    <3>1. /\ d.downs[t] \in Nat /\ d.unproven[t] \in Nat /\ n \in {0, 1}
          /\ d'.unproven[t] = d.unproven[t] /\ ended' = ended
      BY <1>a, <1>c, <1>f DEF DriverTyped
    <3>2. CASE t # s
      <4>1. d'.downs[t] = d.downs[t] /\ (t \in InFlight' <=> t \in InFlight)
        BY <1>c, <3>2 DEF InFlight
      <4> QED BY <3>1, <4>1 DEF Owed, One
    <3>3. CASE t = s
      <4>1. d'.downs[t] = d.downs[t] + n /\ t \in InFlight /\ t \notin InFlight'
        BY <1>a, <1>c, <1>f, <3>3 DEF InFlight, StagesSound
      <4> QED BY <3>1, <4>1 DEF Owed, One
    <3> QED BY <3>2, <3>3
  <2> QED BY <1>a, <1>1, <1>f, <2>1, BacklogKept
<1>17. CloseHonest'
  BY <1>a, <1>c, <1>d, <1>e DEF CloseHonest, PhasesSound
<1> QED BY <1>1, <1>2, <1>3, <1>4, <1>5, <1>6, <1>7, <1>8, <1>9, <1>10, <1>11, <1>12, <1>13,
         <1>14, <1>15, <1>16, <1>17 DEF ScopesIInv, RootsSound, StreamsSound

-----------------------------------------------------------------------------
(* A live stream is torn down, and its grant with it if it was still due.  *)

\* What is left of a channel when its first message is taken.
LEMMA TailIs ==
    ASSUME NEW S, NEW q \in Seq(S), q # <<>>
    PROVE  /\ Tail(q) \in Seq(S) /\ 1 \in DOMAIN q /\ q[1] \in S
           /\ \A i \in DOMAIN Tail(q) : i \in Nat /\ i + 1 \in DOMAIN q /\ Tail(q)[i] = q[i + 1]
           /\ \A i \in DOMAIN q : i > 1 => i - 1 \in DOMAIN Tail(q) /\ Tail(q)[i - 1] = q[i]
<1>1. Len(q) \in Nat /\ Len(q) > 0 /\ DOMAIN q = 1 .. Len(q)
  OBVIOUS
<1>2. Tail(q) \in Seq(S) /\ DOMAIN Tail(q) = 1 .. Len(q) - 1
  BY <1>1
<1>3. \A i \in 1 .. Len(q) - 1 : Tail(q)[i] = q[i + 1]
  BY <1>1
<1> QED BY <1>1, <1>2, <1>3

\* What travels in the command channel.
Message == [op : Calls, who : Whose, path : Where, s : Scope \cup {0}, awaited : BOOLEAN]

\* A live scope is torn down, its stream handed to the reaper.
Tears(s) ==
    /\ DOMAIN d' = Fields
    /\ d'.scope_seq = d.scope_seq /\ d'.lane_of = d.lane_of /\ d'.spawns = d.spawns
    /\ d'.unproven = d.unproven /\ d'.watch_replies = d.watch_replies /\ d'.replaces = d.replaces
    /\ d'.handles = d.handles \ {s} /\ d'.lanes = Drop(d.lanes, {s})
    /\ d'.deferred = Drop(d.deferred, {s}) /\ d'.downs = [d.downs EXCEPT ![s] = @ + 1]
    /\ d'.arms \subseteq d.arms /\ \A a \in d.arms : a.s # s => a \in d'.arms
    /\ d'.waiters \in [Scope -> Seq(Waiter)]
    /\ \A t \in Scope : d'.waiters[t] = d.waiters[t] \/ (t = s /\ s \in released)
    /\ reg' = scope_dead(reg, s) /\ CallsGo({"err"})
    /\ commands' = commands \/ (commands # <<>> /\ Cmd.op = "unwatch" /\ Cmd.s = s /\ commands' = Tail(commands))
    /\ unwinds' = unwinds \/ (unwinds # <<>> /\ unwinds[1] = s /\ unwinds' = Tail(unwinds))
    /\ dead \subseteq dead' /\ dead' \subseteq DOMAIN d.lane_of
    /\ s \in held \/ Promised(s) => \E l \in dead' : d.lane_of[l] = s
    /\ UNCHANGED <<running, held, released, phase, reported>> /\ Ungated

\* A live stream that is torn down: nothing else is disturbed.
LEMMA TearsSafe ==
    ASSUME ScopesIInv, phase = "run", NEW s \in d.handles, Tears(s), PlacesSound', VerdictsSound'
    PROVE  ScopesIInv'
<1>a. /\ DriverTyped /\ CallsTyped /\ HistoryTyped /\ PhasesSound /\ StagesSound /\ LanesSound
      /\ OwnersSound /\ AskersSound /\ PlacesSound /\ VerdictsSound /\ GrantsKept
      /\ LiveRootsDisjoint /\ RegistryHonest /\ EveryStreamHeld /\ NoOrphan /\ BacklogBounded
      /\ CloseHonest
  BY DEF ScopesIInv, RootsSound, StreamsSound
<1>b. /\ DOMAIN d' = Fields /\ d'.handles = d.handles \ {s} /\ d'.lane_of = d.lane_of /\ s \in Scope
      /\ DOMAIN d'.lanes = d'.handles /\ \A t \in d'.handles : d'.lanes[t] = d.lanes[t]
  BY SMTT(30), <1>a DEF Tears, Drop, LanesSound, DriverTyped
<1>c. /\ d'.scope_seq = d.scope_seq /\ d'.unproven = d.unproven /\ d'.spawns = d.spawns
      /\ d'.watch_replies = d.watch_replies /\ d'.replaces = d.replaces
      /\ DOMAIN d'.deferred = DOMAIN d.deferred \ {s}
      /\ \A t \in DOMAIN d'.deferred : d'.deferred[t] = d.deferred[t]
      /\ d'.downs \in [Scope -> Nat]
      /\ \A t \in Scope : d'.downs[t] = IF t = s THEN d.downs[t] + 1 ELSE d.downs[t]
      /\ \A a \in d.arms : a.s # s => a \in d'.arms
      /\ d'.waiters \in [Scope -> Seq(Waiter)]
      /\ \A t \in Scope : d'.waiters[t] = d.waiters[t] \/ (t = s /\ s \in released)
  BY <1>a, <1>b DEF Tears, Drop, DriverTyped
<1>d. /\ UNCHANGED <<held, released, phase, reported>> /\ phase = "run"
      /\ dead \subseteq dead' /\ dead' \subseteq DOMAIN d.lane_of
      /\ s \in held \/ Promised(s) => \E l \in dead' : d.lane_of[l] = s
  BY DEF Tears
<1>e. reg' = scope_dead(reg, s) /\ running' = running
  BY DEF Tears
<1>f. ended' = ended \cup (IF s \in DOMAIN d.deferred THEN {} ELSE {s})
  BY <1>b DEF Tears, Ungated
<1>m. /\ commands' \in Seq(Message)
      /\ \A i \in DOMAIN commands' : \E j \in DOMAIN commands : commands'[i] = commands[j]
      /\ \A i \in DOMAIN commands : commands[i].op # "unwatch" \/ commands[i].s # s =>
            \E j \in DOMAIN commands' : commands'[j] = commands[i]
  <2>1. commands \in Seq(Message)
    BY <1>a DEF CallsTyped, Message
  <2>2. CASE commands' = commands
    BY <2>1, <2>2
  <2>3. CASE commands # <<>> /\ Cmd.op = "unwatch" /\ Cmd.s = s /\ commands' = Tail(commands)
    <3>1. /\ Tail(commands) \in Seq(Message) /\ 1 \in DOMAIN commands
          /\ \A i \in DOMAIN Tail(commands) :
                i + 1 \in DOMAIN commands /\ Tail(commands)[i] = commands[i + 1]
          /\ \A i \in DOMAIN commands :
                i > 1 => i - 1 \in DOMAIN Tail(commands) /\ Tail(commands)[i - 1] = commands[i]
      BY <2>1, <2>3, TailIs
    <3>2. \A i \in DOMAIN commands : i # 1 => i > 1
      BY <2>1
    <3> QED BY <2>3, <3>1, <3>2 DEF Cmd
  <2> QED BY <2>2, <2>3 DEF Tears
<1>u. /\ unwinds' \in Seq(Scope)
      /\ \A t \in Scope : Discarded(t)' => Discarded(t)
      /\ \A t \in Scope \ {s} : Discarded(t) => Discarded(t)'
  <2>1. unwinds \in Seq(Scope)
    BY <1>a DEF CallsTyped
  <2>2. CASE unwinds' = unwinds
    BY <2>1, <2>2 DEF Discarded
  <2>3. CASE unwinds # <<>> /\ unwinds[1] = s /\ unwinds' = Tail(unwinds)
    <3>1. /\ Tail(unwinds) \in Seq(Scope) /\ 1 \in DOMAIN unwinds
          /\ \A i \in DOMAIN Tail(unwinds) :
                i + 1 \in DOMAIN unwinds /\ Tail(unwinds)[i] = unwinds[i + 1]
          /\ \A i \in DOMAIN unwinds :
                i > 1 => i - 1 \in DOMAIN Tail(unwinds) /\ Tail(unwinds)[i - 1] = unwinds[i]
      BY <2>1, <2>3, TailIs
    <3>2. \A i \in DOMAIN unwinds : i # 1 => i > 1
      BY <2>1
    <3> QED BY <2>3, <3>1, <3>2 DEF Discarded
  <2> QED BY <2>2, <2>3 DEF Tears
<1>g. CallsGo({"err"})
  BY DEF Tears
<1>p. /\ \A c \in Clients, t \in Scope : Grantee(c, t)' <=> Grantee(c, t)
      /\ \A t \in Scope : Promised(t)' <=> Promised(t)
  <2>1. \A c \in Clients, t \in Scope : Grantee(c, t)' <=> Grantee(c, t)
    BY <1>g DEF Grantee, CallsGo, Replied, Open, Granted, Waiting
  <2> QED BY <2>1 DEF Promised
<1>1. DriverTyped'
  BY <1>a, <1>b, <1>c DEF DriverTyped, StagesSound
<1>2. CallsTyped'
  <2>1. /\ commands' \in Seq([op : Calls, who : Whose, path : Where, s : Scope \cup {0}, awaited : BOOLEAN])
        /\ unwinds' \in Seq(Scope) /\ held' \subseteq Scope /\ released' \subseteq Scope
    BY <1>a, <1>d, <1>m, <1>u DEF CallsTyped, Message
  <2>2. DOMAIN calls' = Clients
    BY <1>g DEF CallsGo
  <2>3. ASSUME NEW c \in Clients, calls'[c] # Idle
        PROVE  /\ DOMAIN calls'[c] = {"op", "path", "s", "ans"} /\ calls'[c].op \in Calls
               /\ calls'[c].ans.k = "grant" =>
                     calls'[c].ans.s \in Scope /\ calls'[c].ans = Granted(calls'[c].ans.s)
    <3>1. CASE calls'[c] = calls[c]
      BY <1>a, <2>3, <3>1 DEF CallsTyped
    <3>2. CASE Replied(c, calls'[c].ans) /\ calls'[c].ans.k \in {"err"}
      BY <1>a, <2>3, <3>2 DEF CallsTyped, Replied, Open
    <3> QED BY <1>g, <3>1, <3>2 DEF CallsGo
  <2> QED BY <2>1, <2>2, <2>3 DEF CallsTyped
<1>3. HistoryTyped'
  BY <1>a, <1>b, <1>d, <1>e DEF HistoryTyped, DriverTyped, scope_dead
<1>4. PhasesSound'
  <2>1. phase' = "run" /\ (reported' >= 0 => phase' = "closed")
    BY <1>a, <1>d DEF PhasesSound
  <2>2. ASSUME NEW c \in Clients, calls'[c] # Idle, calls'[c].ans = Acked("closed") PROVE FALSE
    <3>1. Acked("closed").k = "closed" /\ "closed" \notin {"err"}
      BY DEF Acked
    <3>2. calls'[c] = calls[c]
      BY <1>g, <2>2, <3>1 DEF CallsGo
    <3> QED BY <1>a, <1>d, <2>2, <3>2 DEF PhasesSound
  <2> QED BY <2>1, <2>2 DEF PhasesSound
<1>5. StagesSound'
  <2>1. DOMAIN d'.replaces \cup d'.handles \cup ended' \subseteq 1 .. d'.scope_seq
    BY <1>a, <1>b, <1>c, <1>d, <1>f DEF StagesSound
  <2>2. DOMAIN d'.watch_replies = d'.spawns \ DOMAIN d'.replaces
    BY <1>a, <1>c, <1>d DEF StagesSound
  <2>3. /\ DOMAIN d'.watch_replies \cap (d'.handles \cup ended') = {}
        /\ ended' \cap d'.handles = {}
    BY <1>a, <1>b, <1>c, <1>d, <1>f DEF StagesSound
  <2>4. \A t \in d'.spawns \cap DOMAIN d'.replaces : d'.replaces[t].mode = "spawning"
    BY <1>a, <1>c, <1>d DEF StagesSound
  <2>5. \A t \in DOMAIN d'.deferred :
              /\ t \in d'.handles /\ t \notin DOMAIN d'.replaces
              /\ [s |-> t, lane |-> d'.lanes[t]] \in d'.arms
    <3> SUFFICES ASSUME NEW t \in DOMAIN d'.deferred
                 PROVE  /\ t \in d'.handles /\ t \notin DOMAIN d'.replaces
                        /\ [s |-> t, lane |-> d'.lanes[t]] \in d'.arms
      OBVIOUS
    <3>1. /\ t \in d.handles /\ t \notin DOMAIN d.replaces /\ t # s
          /\ [s |-> t, lane |-> d.lanes[t]] \in d.arms
      BY <1>a, <1>c, <1>d DEF StagesSound
    <3> QED BY <1>b, <1>c, <3>1
  <2> QED BY <2>1, <2>2, <2>3, <2>4, <2>5 DEF StagesSound
<1>6. LanesSound'
  BY <1>a, <1>b, <1>d DEF LanesSound, DriverTyped
<1>7. OwnersSound'
  <2>1. ASSUME NEW t \in Scope
        PROVE  /\ t \in held' \cup released' \cup DOMAIN d'.deferred \/ Promised(t)' \/ Discarded(t)' =>
                    t \in 1 .. d'.scope_seq /\ t \notin DOMAIN d'.watch_replies
               /\ t \in held' => t \notin released'
               /\ t \in DOMAIN d'.deferred => t \notin held' \cup released'
               /\ Promised(t)' => t \notin held' \cup released' \cup DOMAIN d'.deferred
               /\ Discarded(t)' => t \notin held' \cup DOMAIN d'.deferred /\ ~Promised(t)'
               /\ \A c, o \in Clients : Grantee(c, t)' /\ Grantee(o, t)' => c = o
    <3>1. /\ Promised(t)' <=> Promised(t)
          /\ Discarded(t)' => Discarded(t)
          /\ t \in DOMAIN d'.deferred => t \in DOMAIN d.deferred
      BY <1>c, <1>p, <1>u
    <3>2. \A c, o \in Clients : Grantee(c, t)' /\ Grantee(o, t)' => c = o
      BY <1>a, <1>d, <1>p DEF OwnersSound
    <3> QED BY <1>a, <1>c, <1>d, <3>1, <3>2 DEF OwnersSound
  <2>2. \A t \in DOMAIN d'.replaces : t \in held' \cup released'
    BY <1>a, <1>c, <1>d DEF OwnersSound
  <2>3. \A t \in Scope : d'.waiters[t] # <<>> => t \in released' /\ t \notin d'.handles
    BY <1>a, <1>b, <1>c, <1>d DEF OwnersSound
  <2> QED BY <2>1, <2>2, <2>3 DEF OwnersSound
<1>8. AskersSound'
  BY <1>a, <1>g, <1>d, <1>m DEF AskersSound, CallsGo, Replied, Open
<1>9. PlacesSound'
  OBVIOUS
<1>10. VerdictsSound'
  OBVIOUS
<1>11. GrantsKept'
  <2> SUFFICES ASSUME NEW t \in Scope, t \in held \/ Promised(t)
               PROVE  t \in d'.handles \/ \E l \in dead' : d'.lane_of[l] = t
    BY <1>d, <1>p DEF GrantsKept
  <2>1. t \in d.handles \/ \E l \in dead : d.lane_of[l] = t
    BY <1>a, <1>d DEF GrantsKept
  <2> QED BY <1>b, <1>d, <2>1
<1>12. LiveRootsDisjoint'
  BY <1>a, <1>e DEF LiveRootsDisjoint, scope_dead, Drop, HistoryTyped
<1>13. RegistryHonest'
  <2>1. /\ DOMAIN reg'.live = d'.handles /\ reg'.pending = reg.pending
    BY <1>a, <1>b, <1>d, <1>e DEF RegistryHonest, scope_dead, Drop, HistoryTyped
  <2> SUFFICES ASSUME NEW p \in DOMAIN reg.pending PROVE Claimed(p)'
    BY <2>1 DEF RegistryHonest, Claimed
  <2>2. Claimed(p)
    BY <1>a DEF RegistryHonest, Claimed
  <2>3. ASSUME NEW c \in Clients, calls[c] # Idle, calls[c].op = "watch", calls[c].path = p PROVE Claimed(p)'
    <3>1. calls'[c] # Idle /\ calls'[c].op = "watch" /\ calls'[c].path = p
      BY <1>g, <2>3 DEF CallsGo, Replied
    <3> QED BY <3>1 DEF Claimed
  <2>4. ASSUME NEW i \in Queued("replace"), commands[i].path = p PROVE Claimed(p)'
    BY <1>m, <2>4 DEF Claimed, Queued
  <2>5. ASSUME NEW t \in DOMAIN d.replaces, d.replaces[t].path = p PROVE Claimed(p)'
    BY <1>c, <2>5 DEF Claimed
  <2> QED BY <2>2, <2>3, <2>4, <2>5 DEF Claimed
<1>14. EveryStreamHeld'
  <2> SUFFICES ASSUME NEW t \in Scope
               PROVE  running'[t] = One(t \in d'.handles) + One(t \in Arming') + d'.downs[t] + d'.unproven[t]
    BY DEF EveryStreamHeld
  <2>1. /\ running[t] = One(t \in d.handles) + One(t \in Arming) + d.downs[t] + d.unproven[t]
        /\ running[t] \in Int /\ d.downs[t] \in Nat /\ d.unproven[t] \in Nat
        /\ One(t \in d.handles) \in Int /\ One(t \in Arming) \in Int
    BY <1>a, HeldAt
  <2>2. One(t \in Arming') = One(t \in Arming) /\ One(TRUE) = 1 /\ One(FALSE) = 0
    BY <1>c DEF Arming, One
  <2>3. CASE t # s
    BY <1>b, <1>c, <1>e, <2>1, <2>2, <2>3
  <2>4. CASE t = s
    <3>1. One(t \in d.handles) = 1 /\ One(t \in d'.handles) = 0
      BY <1>b, <2>4 DEF One
    <3> QED BY <1>c, <1>e, <2>1, <2>2, <2>4, <3>1
  <2> QED BY <2>3, <2>4
<1>15. NoOrphan'
  <2> SUFFICES ASSUME NEW t \in d'.handles PROVE Owner(t)'
    BY DEF NoOrphan, Owner
  <2>1. t \in Scope /\ Owner(t) /\ t # s /\ d'.lanes[t] = d.lanes[t]
    BY <1>a, <1>b, <1>d DEF NoOrphan, Owner, DriverTyped
  <2> QED BY <1>c, <1>d, <1>m, <1>p, <1>u, <2>1 DEF Owner
<1>16. BacklogBounded'
  <2>1. ASSUME NEW t \in Scope PROVE Owed(t)' <= Owed(t)
    <3>1. /\ d.downs[t] \in Nat /\ d.unproven[t] \in Nat /\ d'.unproven[t] = d.unproven[t]
      BY <1>a, <1>c DEF DriverTyped
    <3>2. CASE t # s
      <4>1. d'.downs[t] = d.downs[t] /\ (t \in InFlight' <=> t \in InFlight) /\ (t \in ended' <=> t \in ended)
        BY <1>c, <1>f, <3>2 DEF InFlight
      <4> QED BY <3>1, <4>1 DEF Owed, One
    <3>3. CASE t = s /\ s \in DOMAIN d.deferred
      <4>1. /\ d'.downs[t] = d.downs[t] + 1 /\ t \in InFlight /\ t \notin InFlight'
            /\ t \notin ended /\ t \notin ended'
        BY <1>a, <1>c, <1>d, <1>f, <3>3 DEF InFlight, StagesSound
      <4> QED BY <3>1, <4>1 DEF Owed, One
    <3>4. CASE t = s /\ s \notin DOMAIN d.deferred
      <4>1. /\ d'.downs[t] = d.downs[t] + 1 /\ (t \in InFlight' <=> t \in InFlight)
            /\ t \notin ended /\ t \in ended'
        BY <1>a, <1>c, <1>d, <1>f, <3>4 DEF InFlight, StagesSound
      <4> QED BY <3>1, <4>1 DEF Owed, One
    <3> QED BY <3>2, <3>3, <3>4
  <2> QED BY <1>a, <1>1, <1>d, <2>1, BacklogKept
<1>17. CloseHonest'
  BY <1>a, <1>c, <1>d, <1>e DEF CloseHonest, PhasesSound
<1> QED BY <1>1, <1>2, <1>3, <1>4, <1>5, <1>6, <1>7, <1>8, <1>9, <1>10, <1>11, <1>12, <1>13,
         <1>14, <1>15, <1>16, <1>17 DEF ScopesIInv, RootsSound, StreamsSound

-----------------------------------------------------------------------------
(* A birth comes to nothing: n streams go to the reaper.                   *)

\* `who` is told a.
Told(who, a) ==
    /\ DOMAIN calls' = Clients
    /\ \A c \in Clients : \/ calls'[c] = calls[c] /\ c # who
                          \/ c = who /\ Replied(c, a)

\* One caller is answered.
LEMMA ToldBy ==
    ASSUME CallsTyped, NEW who, NEW a, who \in Clients => Open(who), calls' = answer(calls, who, a)
    PROVE  Told(who, a)
<1>1. /\ DOMAIN calls' = Clients
      /\ \A c \in Clients : c # who => calls'[c] = calls[c]
      /\ who \in Clients =>
            /\ calls'[who] # Idle /\ DOMAIN calls'[who] = {"op", "path", "s", "ans"} /\ calls'[who].ans = a
            /\ calls'[who].op = calls[who].op /\ calls'[who].path = calls[who].path
            /\ calls'[who].s = calls[who].s
  BY AnswerIs
<1> QED BY <1>1 DEF Told, Replied

\* The caller that is told was in its place.
LEMMA ToldGo ==
    ASSUME NEW who, NEW a, Told(who, a), NEW K, a.k \in K PROVE CallsGo(K)
<1>1. \A c \in Clients : Replied(c, a) => Replied(c, calls'[c].ans) /\ calls'[c].ans = a
  BY DEF Replied
<1> QED BY <1>1 DEF Told, CallsGo

\* A scope that was being born is given up: n streams of it go to the reaper, its caller is told a.
BirthEnds(s, n, a) ==
    /\ DOMAIN d' = Fields
    /\ d'.scope_seq = d.scope_seq /\ d'.handles = d.handles /\ d'.unproven = d.unproven
    /\ d'.arms = d.arms /\ d'.replaces = d.replaces /\ DOMAIN d'.deferred = DOMAIN d.deferred
    /\ \A t \in DOMAIN d.deferred : d'.deferred[t] = d.deferred[t]
    /\ d'.waiters = d.waiters
    /\ DOMAIN d'.lanes = DOMAIN d.lanes /\ \A t \in d.handles : d'.lanes[t] = d.lanes[t]
    /\ d'.lane_of = d.lane_of \/ d'.lane_of = Append(d.lane_of, s)
    /\ d'.spawns = d.spawns \ {s} /\ d'.watch_replies = Drop(d.watch_replies, {s})
    /\ n \in {0, 1} /\ d'.downs = [d.downs EXCEPT ![s] = @ + n]
    /\ running' = [running EXCEPT ![s] = @ + n]
    /\ a.k = "err" /\ Told(d.watch_replies[s].who, a)
    /\ UNCHANGED <<reg, outside, dead>> /\ Ungated

\* A birth that comes to nothing leaves nothing behind but a stream to reap.
LEMMA BirthEndsSafe ==
    ASSUME ScopesIInv, phase = "run", NEW s \in Scope, s \in DOMAIN d.watch_replies, NEW n, NEW a,
           BirthEnds(s, n, a)
    PROVE  ScopesIInv'
<1>a. /\ DriverTyped /\ CallsTyped /\ HistoryTyped /\ PhasesSound /\ StagesSound /\ LanesSound
      /\ OwnersSound /\ AskersSound /\ PlacesSound /\ VerdictsSound /\ GrantsKept
      /\ LiveRootsDisjoint /\ RegistryHonest /\ EveryStreamHeld /\ NoOrphan /\ BacklogBounded
      /\ CloseHonest
  BY DEF ScopesIInv, RootsSound, StreamsSound
<1>b. /\ DOMAIN d' = Fields /\ d'.handles = d.handles /\ s \in d.spawns /\ s \notin d.handles
      /\ DOMAIN d'.lanes = d.handles /\ \A t \in d.handles : d'.lanes[t] = d.lanes[t]
      /\ d'.lane_of \in Seq(Scope)
      /\ \A l \in DOMAIN d.lane_of : l \in DOMAIN d'.lane_of /\ d'.lane_of[l] = d.lane_of[l]
  <2>1. d.lane_of \in Seq(Scope)
    BY <1>a DEF DriverTyped
  <2>2. CASE d'.lane_of = d.lane_of
    BY <1>a, <2>1, <2>2 DEF BirthEnds, LanesSound, StagesSound
  <2>3. CASE d'.lane_of = Append(d.lane_of, s)
    <3>1. /\ d'.lane_of \in Seq(Scope)
          /\ \A l \in DOMAIN d.lane_of : l \in DOMAIN d'.lane_of /\ d'.lane_of[l] = d.lane_of[l]
      BY <2>1, <2>3
    <3> QED BY <1>a, <3>1 DEF BirthEnds, LanesSound, StagesSound
  <2> QED BY <2>2, <2>3 DEF BirthEnds
<1>c. /\ d'.scope_seq = d.scope_seq /\ d'.unproven = d.unproven /\ d'.spawns = d.spawns \ {s}
      /\ d'.arms = d.arms /\ d'.replaces = d.replaces /\ DOMAIN d'.deferred = DOMAIN d.deferred
      /\ \A t \in DOMAIN d.deferred : d'.deferred[t] = d.deferred[t]
      /\ d'.waiters = d.waiters /\ s \notin DOMAIN d.replaces
      /\ DOMAIN d'.watch_replies = DOMAIN d.watch_replies \ {s}
      /\ \A t \in DOMAIN d'.watch_replies : d'.watch_replies[t] = d.watch_replies[t]
      /\ n \in {0, 1} /\ d'.downs \in [Scope -> Nat]
      /\ \A t \in Scope : d'.downs[t] = IF t = s THEN d.downs[t] + n ELSE d.downs[t]
  <2>1. n \in Nat /\ d.downs \in [Scope -> Nat] /\ d'.downs = [d.downs EXCEPT ![s] = @ + n]
    BY <1>a DEF BirthEnds, DriverTyped
  <2> QED BY <1>a, <2>1 DEF BirthEnds, Drop, StagesSound
<1>d. UNCHANGED <<commands, unwinds, held, released, phase, reported, dead>>
  BY DEF BirthEnds, outside, front
<1>e. reg' = reg /\ running' = [running EXCEPT ![s] = @ + n]
  BY DEF BirthEnds
<1>f. ended' = ended
  BY <1>b DEF BirthEnds, Ungated
<1>t. a.k = "err" /\ Told(d.watch_replies[s].who, a)
  BY DEF BirthEnds
<1>g. CallsGo({"err"})
  BY <1>t, ToldGo
<1>p. /\ \A c \in Clients, t \in Scope : Grantee(c, t)' <=> Grantee(c, t)
      /\ \A t \in Scope : (Promised(t)' <=> Promised(t)) /\ (Discarded(t)' <=> Discarded(t))
  BY <1>d, <1>g, GrantsStand
<1>1. DriverTyped'
  BY <1>a, <1>b, <1>c DEF DriverTyped, StagesSound
<1>2. CallsTyped'
  <2>1. /\ commands' \in Seq([op : Calls, who : Whose, path : Where, s : Scope \cup {0}, awaited : BOOLEAN])
        /\ unwinds' \in Seq(Scope) /\ held' \subseteq Scope /\ released' \subseteq Scope
    BY <1>a, <1>d DEF CallsTyped, Message
  <2>2. DOMAIN calls' = Clients
    BY <1>g DEF CallsGo
  <2>3. ASSUME NEW c \in Clients, calls'[c] # Idle
        PROVE  /\ DOMAIN calls'[c] = {"op", "path", "s", "ans"} /\ calls'[c].op \in Calls
               /\ calls'[c].ans.k = "grant" =>
                     calls'[c].ans.s \in Scope /\ calls'[c].ans = Granted(calls'[c].ans.s)
    <3>1. CASE calls'[c] = calls[c]
      BY <1>a, <2>3, <3>1 DEF CallsTyped
    <3>2. CASE Replied(c, calls'[c].ans) /\ calls'[c].ans.k \in {"err"}
      BY <1>a, <2>3, <3>2 DEF CallsTyped, Replied, Open
    <3> QED BY <1>g, <3>1, <3>2 DEF CallsGo
  <2> QED BY <2>1, <2>2, <2>3 DEF CallsTyped
<1>3. HistoryTyped'
  BY <1>a, <1>b, <1>d, <1>e, <1>c DEF HistoryTyped, DriverTyped
<1>4. PhasesSound'
  <2>1. phase' = "run" /\ (reported' >= 0 => phase' = "closed")
    BY <1>a, <1>d DEF PhasesSound
  <2>2. ASSUME NEW c \in Clients, calls'[c] # Idle, calls'[c].ans = Acked("closed") PROVE FALSE
    <3>1. Acked("closed").k = "closed" /\ "closed" \notin {"err"}
      BY DEF Acked
    <3>2. calls'[c] = calls[c]
      BY <1>g, <2>2, <3>1 DEF CallsGo
    <3> QED BY <1>a, <1>d, <2>2, <3>2 DEF PhasesSound
  <2> QED BY <2>1, <2>2 DEF PhasesSound
<1>5. StagesSound'
  <2>1. DOMAIN d'.replaces \cup d'.handles \cup ended' \subseteq 1 .. d'.scope_seq
    BY <1>a, <1>b, <1>c, <1>d, <1>f DEF StagesSound
  <2>2. DOMAIN d'.watch_replies = d'.spawns \ DOMAIN d'.replaces
    BY <1>a, <1>b, <1>c, <1>d, <1>f DEF StagesSound
  <2>3. /\ DOMAIN d'.watch_replies \cap (d'.handles \cup ended') = {}
        /\ ended' \cap d'.handles = {}
    BY <1>a, <1>b, <1>c, <1>d, <1>f DEF StagesSound
  <2>4. \A t \in d'.spawns \cap DOMAIN d'.replaces : d'.replaces[t].mode = "spawning"
    BY <1>a, <1>b, <1>c, <1>d, <1>f DEF StagesSound
  <2>5. \A t \in DOMAIN d'.deferred :
              /\ t \in d'.handles /\ t \notin DOMAIN d'.replaces
              /\ [s |-> t, lane |-> d'.lanes[t]] \in d'.arms
    BY <1>a, <1>b, <1>c, <1>d, <1>f DEF StagesSound
  <2> QED BY <2>1, <2>2, <2>3, <2>4, <2>5 DEF StagesSound
<1>6. LanesSound'
  BY <1>a, <1>b, <1>d DEF LanesSound, DriverTyped
<1>7. OwnersSound'
  <2>1. ASSUME NEW t \in Scope
        PROVE  /\ t \in held' \cup released' \cup DOMAIN d'.deferred \/ Promised(t)' \/ Discarded(t)' =>
                    t \in 1 .. d'.scope_seq /\ t \notin DOMAIN d'.watch_replies
               /\ t \in held' => t \notin released'
               /\ t \in DOMAIN d'.deferred => t \notin held' \cup released'
               /\ Promised(t)' => t \notin held' \cup released' \cup DOMAIN d'.deferred
               /\ Discarded(t)' => t \notin held' \cup DOMAIN d'.deferred /\ ~Promised(t)'
               /\ \A c, o \in Clients : Grantee(c, t)' /\ Grantee(o, t)' => c = o
    BY <1>a, <1>c, <1>d, <1>p DEF OwnersSound
  <2>2. \A t \in DOMAIN d'.replaces : t \in held' \cup released'
    BY <1>a, <1>c, <1>d DEF OwnersSound
  <2>3. \A t \in Scope : d'.waiters[t] # <<>> => t \in released' /\ t \notin d'.handles
    BY <1>a, <1>b, <1>c, <1>d DEF OwnersSound
  <2> QED BY <2>1, <2>2, <2>3 DEF OwnersSound
<1>8. AskersSound'
  BY <1>a, <1>g, <1>d DEF AskersSound, CallsGo, Replied, Open
<1>9. PlacesSound'
  <2>1. ASSUME NEW c \in Clients, Placed(c)' PROVE calls'[c] = calls[c]
    <3> SUFFICES ASSUME c = d.watch_replies[s].who PROVE FALSE
      BY <1>t DEF Told
    <3>1. InDriver(c) /\ \A i \in DOMAIN commands : commands[i].who # c
      BY <1>a DEF InDriver, PlacesSound
    <3>2. Open(c) /\ calls[c].op = "watch" /\ \A t \in DOMAIN d.deferred : d.deferred[t].who # c
      BY <1>a DEF PlacesSound
    <3>3. \A t \in DOMAIN d'.watch_replies : d'.watch_replies[t].who # c
      BY <1>a, <1>c DEF PlacesSound
    <3>4. \A t \in DOMAIN d.replaces : d.replaces[t].who # c
      BY <1>a, <3>2 DEF PlacesSound
    <3>5. \A t \in Scope : \A i \in DOMAIN d.waiters[t] : d.waiters[t][i].who # c
      BY <1>a, <3>2 DEF PlacesSound
    <3> QED BY <1>c, <1>d, <2>1, <3>1, <3>2, <3>3, <3>4, <3>5 DEF Placed, InDriver
  <2>3. \A i \in DOMAIN commands' :
           i \in Nat /\ i + 0 \in DOMAIN commands /\ commands'[i] = commands[i + 0]
    BY <1>a, <1>d DEF CallsTyped
  <2> QED BY <1>a, <1>c, <2>1, <2>3, PlacesKept
<1>10. VerdictsSound'
  <2>1. \A c \in Clients : calls'[c].ans = Acked("torn") => calls'[c] = calls[c]
    BY <1>g DEF CallsGo, Acked
  <2>2. \A t \in Scope :
           t \notin d.handles \cup d.spawns \cup DOMAIN d.replaces /\ d.downs[t] = 0 /\ d.unproven[t] = 0
           => /\ t \notin d'.handles \cup d'.spawns \cup DOMAIN d'.replaces
              /\ d'.downs[t] = 0 /\ d'.unproven[t] = 0
    BY <1>b, <1>c
  <2>3. \A t \in Scope : \A i \in DOMAIN d'.waiters[t] :
           d'.waiters[t][i].verdict = "torn" => d'.unproven[t] = 0
    BY <1>a, <1>c DEF VerdictsSound
  <2> QED BY <1>a, <2>1, <2>2, <2>3, VerdictsKept
<1>11. GrantsKept'
  <2> SUFFICES ASSUME NEW t \in Scope, t \in held' \/ Promised(t)'
               PROVE  t \in d'.handles \/ \E l \in dead' : d'.lane_of[l] = t
    BY DEF GrantsKept
  <2> QED BY <1>a, <1>b, <1>d, <1>p DEF GrantsKept, HistoryTyped
<1>12. LiveRootsDisjoint'
  BY <1>a, <1>e DEF LiveRootsDisjoint
<1>13. RegistryHonest'
  <2>1. DOMAIN reg'.live = d'.handles
    BY <1>a, <1>b, <1>d, <1>e DEF RegistryHonest
  <2> SUFFICES ASSUME NEW p \in DOMAIN reg'.pending PROVE Claimed(p)'
    BY <2>1 DEF RegistryHonest, Claimed
  <2>2. Claimed(p)
    BY <1>a, <1>e DEF RegistryHonest, Claimed
  <2>3. ASSUME NEW c \in Clients, calls[c] # Idle, calls[c].op = "watch", calls[c].path = p PROVE Claimed(p)'
    <3>1. calls'[c] # Idle /\ calls'[c].op = "watch" /\ calls'[c].path = p
      BY <1>g, <2>3 DEF CallsGo, Replied
    <3> QED BY <3>1 DEF Claimed
  <2>4. ASSUME NEW i \in Queued("replace"), commands[i].path = p PROVE Claimed(p)'
    BY <1>a, <1>d, <2>4 DEF Claimed, Queued
  <2>5. ASSUME NEW t \in DOMAIN d.replaces, d.replaces[t].path = p PROVE Claimed(p)'
    BY <1>c, <2>5 DEF Claimed
  <2> QED BY <2>2, <2>3, <2>4, <2>5 DEF Claimed
<1>14. EveryStreamHeld'
  <2> SUFFICES ASSUME NEW t \in Scope
               PROVE  running'[t] = One(t \in d'.handles) + One(t \in Arming') + d'.downs[t] + d'.unproven[t]
    BY DEF EveryStreamHeld
  <2>1. /\ running[t] = One(t \in d.handles) + One(t \in Arming) + d.downs[t] + d.unproven[t]
        /\ running[t] \in Int /\ d.downs[t] \in Nat /\ d.unproven[t] \in Nat
        /\ One(t \in d.handles) \in Int /\ One(t \in Arming) \in Int
    BY <1>a, HeldAt
  <2>2. One(t \in d'.handles) = One(t \in d.handles) /\ One(t \in Arming') = One(t \in Arming) /\ n \in Int
    BY <1>b, <1>c DEF Arming
  <2>3. running'[t] = running[t] + (IF t = s THEN n ELSE 0)
    BY <1>a, <1>e, <2>2 DEF HistoryTyped
  <2> QED BY <1>c, <2>1, <2>2, <2>3
<1>15. NoOrphan'
  <2> SUFFICES ASSUME NEW t \in d'.handles PROVE Owner(t)'
    BY DEF NoOrphan, Owner
  <2>1. t \in Scope /\ Owner(t) /\ d'.lanes[t] = d.lanes[t]
    BY <1>a, <1>b, <1>d DEF NoOrphan, Owner, DriverTyped
  <2> QED BY <1>c, <1>d, <1>p, <2>1 DEF Owner
<1>16. BacklogBounded'
  <2>1. ASSUME NEW t \in Scope PROVE Owed(t)' <= Owed(t)
    <3>1. /\ d.downs[t] \in Nat /\ d.unproven[t] \in Nat
      BY <1>a DEF DriverTyped
    <3>2. CASE t # s
      <4>1. d'.downs[t] = d.downs[t] /\ (t \in InFlight' <=> t \in InFlight)
        BY <1>c, <3>2 DEF InFlight
      <4> QED BY <1>c, <1>f, <3>1, <4>1 DEF Owed, One
    <3>3. CASE t = s
      <4>1. /\ d'.downs[t] = d.downs[t] + n /\ t \in InFlight /\ t \notin InFlight'
        BY <1>a, <1>b, <1>c, <1>d, <3>3 DEF InFlight, StagesSound
      <4> QED BY <1>c, <1>f, <3>1, <4>1 DEF Owed, One
    <3> QED BY <3>2, <3>3
  <2> QED BY <1>a, <1>1, <1>d, <2>1, BacklogKept
<1>17. CloseHonest'
  BY <1>a, <1>c, <1>d, <1>e DEF CloseHonest, PhasesSound
<1> QED BY <1>1, <1>2, <1>3, <1>4, <1>5, <1>6, <1>7, <1>8, <1>9, <1>10, <1>11, <1>12, <1>13,
         <1>14, <1>15, <1>16, <1>17 DEF ScopesIInv, RootsSound, StreamsSound

-----------------------------------------------------------------------------
(* A birth succeeds: the scope is live, and granted now or when its root's *)
(* watch is installed.                                                     *)

\* The scope s goes live, and its grant is deferred or goes to who.
GoesLiveAt(s, gated, who) ==
    /\ DOMAIN d' = Fields
    /\ d'.scope_seq = d.scope_seq /\ d'.unproven = d.unproven /\ d'.downs = d.downs
    /\ d'.replaces = d.replaces /\ d'.waiters = d.waiters
    /\ d'.handles = d.handles \cup {s}
    /\ d'.lanes = Put(d.lanes, s, Len(d.lane_of) + 1) /\ d'.lane_of = Append(d.lane_of, s)
    /\ d'.spawns = d.spawns \ {s} /\ d'.watch_replies = Drop(d.watch_replies, {s})
    /\ who = d.watch_replies[s].who
    /\ \/ /\ gated
          /\ d'.deferred = Put(d.deferred, s, d.watch_replies[s])
          /\ d'.arms = d.arms \cup {[s |-> s, lane |-> d'.lanes[s]]} /\ calls' = calls
       \/ /\ ~gated /\ d'.deferred = d.deferred /\ d'.arms = d.arms
          /\ who \in Clients /\ Told(who, Granted(s))
    /\ running' = [running EXCEPT ![s] = @ + 1]
    /\ DOMAIN reg' = {"live", "pending"} /\ DOMAIN reg'.live = DOMAIN reg.live \cup {s}
    /\ reg'.pending = reg.pending
    /\ UNCHANGED <<outside, dead>> /\ Ungated

\* A scope that goes live is owned by whoever asked for it.
LEMMA GoesLiveSafe ==
    ASSUME ScopesIInv, phase = "run", NEW s \in Scope, s \in DOMAIN d.watch_replies, NEW gated \in BOOLEAN, NEW who,
           GoesLiveAt(s, gated, who), LiveRootsDisjoint'
    PROVE  ScopesIInv'
<1>a. /\ DriverTyped /\ CallsTyped /\ HistoryTyped /\ PhasesSound /\ StagesSound /\ LanesSound
      /\ OwnersSound /\ AskersSound /\ PlacesSound /\ VerdictsSound /\ GrantsKept
      /\ LiveRootsDisjoint /\ RegistryHonest /\ EveryStreamHeld /\ NoOrphan /\ BacklogBounded
      /\ CloseHonest
  BY DEF ScopesIInv, RootsSound, StreamsSound
<1>b. /\ DOMAIN d' = Fields /\ d'.handles = d.handles \cup {s} /\ s \in d.spawns /\ s \notin d.handles
      /\ DOMAIN d'.lanes = d'.handles /\ \A t \in d.handles : d'.lanes[t] = d.lanes[t]
      /\ d'.lane_of \in Seq(Scope) /\ d'.lanes[s] \in DOMAIN d'.lane_of /\ d'.lane_of[d'.lanes[s]] = s
      /\ \A l \in DOMAIN d.lane_of : l \in DOMAIN d'.lane_of /\ d'.lane_of[l] = d.lane_of[l]
  <2>1. /\ d.lane_of \in Seq(Scope) /\ d'.lane_of = Append(d.lane_of, s) /\ DOMAIN d.lanes = d.handles
        /\ s \in d.spawns /\ s \notin d.handles /\ d'.lanes = Put(d.lanes, s, Len(d.lane_of) + 1)
    BY <1>a DEF DriverTyped, GoesLiveAt, LanesSound, StagesSound
  <2>2. /\ d'.lane_of \in Seq(Scope) /\ Len(d.lane_of) + 1 \in DOMAIN d'.lane_of
        /\ d'.lane_of[Len(d.lane_of) + 1] = s
        /\ \A l \in DOMAIN d.lane_of : l \in DOMAIN d'.lane_of /\ d'.lane_of[l] = d.lane_of[l]
    BY <2>1
  <2>3. /\ DOMAIN d'.lanes = d.handles \cup {s} /\ d'.lanes[s] = Len(d.lane_of) + 1
        /\ \A t \in d.handles : d'.lanes[t] = d.lanes[t]
    BY <2>1 DEF Put
  <2> QED BY <2>1, <2>2, <2>3 DEF GoesLiveAt
<1>c. /\ d'.scope_seq = d.scope_seq /\ d'.unproven = d.unproven /\ d'.downs = d.downs
      /\ d'.spawns = d.spawns \ {s} /\ d'.replaces = d.replaces
      /\ d'.waiters = d.waiters /\ s \notin DOMAIN d.replaces /\ who = d.watch_replies[s].who
      /\ DOMAIN d'.watch_replies = DOMAIN d.watch_replies \ {s}
      /\ \A t \in DOMAIN d'.watch_replies : d'.watch_replies[t] = d.watch_replies[t]
  BY <1>a DEF GoesLiveAt, Drop, StagesSound
<1>q. /\ DOMAIN d'.deferred = IF gated THEN DOMAIN d.deferred \cup {s} ELSE DOMAIN d.deferred
      /\ \A t \in DOMAIN d.deferred : t # s /\ d'.deferred[t] = d.deferred[t] /\ t \in DOMAIN d'.deferred
      /\ gated => /\ d'.deferred[s] = d.watch_replies[s] /\ calls' = calls
                  /\ [s |-> s, lane |-> d'.lanes[s]] \in d'.arms
      /\ ~gated => who \in Clients /\ Told(who, Granted(s))
      /\ d.arms \subseteq d'.arms
  <2>1. s \notin DOMAIN d.deferred
    BY <1>a, <1>b DEF StagesSound
  <2>2. CASE gated
    <3>1. /\ d'.deferred = Put(d.deferred, s, d.watch_replies[s]) /\ calls' = calls
          /\ d'.arms = d.arms \cup {[s |-> s, lane |-> d'.lanes[s]]}
      BY <2>2 DEF GoesLiveAt
    <3> QED BY <2>1, <2>2, <3>1 DEF Put
  <2>3. CASE ~gated
    BY <2>1, <2>3 DEF GoesLiveAt
  <2> QED BY <2>2, <2>3
<1>d. UNCHANGED <<commands, unwinds, held, released, phase, reported, dead>> /\ phase = "run"
  BY DEF GoesLiveAt, outside, front
<1>e. /\ running' = [running EXCEPT ![s] = @ + 1]
      /\ DOMAIN reg' = {"live", "pending"} /\ DOMAIN reg'.live = DOMAIN reg.live \cup {s}
      /\ reg'.pending = reg.pending
  BY DEF GoesLiveAt
<1>f. ended' = ended
  BY <1>b DEF GoesLiveAt, Ungated
<1>g. CallsGo({"grant"})
  <2>1. CASE gated
    BY <1>a, <1>q, <2>1 DEF CallsGo, CallsTyped
  <2>2. CASE ~gated
    BY <1>q, <2>2, ToldGo DEF Granted
  <2> QED BY <2>1, <2>2
<1>n. /\ s \notin held \cup released \cup DOMAIN d.deferred
      /\ ~Promised(s) /\ ~Discarded(s) /\ d.waiters[s] = <<>>
  BY <1>a, <1>d DEF OwnersSound
<1>p. /\ \A c \in Clients, t \in Scope : Grantee(c, t)' <=> Grantee(c, t) \/ (~gated /\ t = s /\ c = who)
      /\ \A t \in Scope : (Promised(t)' <=> Promised(t) \/ (~gated /\ t = s)) /\ (Discarded(t)' <=> Discarded(t))
  <2>1. ASSUME NEW c \in Clients, NEW t \in Scope
        PROVE  Grantee(c, t)' <=> Grantee(c, t) \/ (~gated /\ t = s /\ c = who)
    <3>1. CASE gated \/ c # who
      <4>1. calls'[c] = calls[c]
        BY <1>q, <3>1 DEF Told
      <4> QED BY <3>1, <4>1 DEF Grantee
    <3>2. CASE ~gated /\ c = who
      <4>1. Open(c) /\ calls'[c] # Idle /\ calls'[c].ans = Granted(s)
        BY <1>q, <3>2 DEF Told, Replied
      <4>2. Granted(s) = Granted(t) <=> t = s
        BY DEF Granted
      <4>3. ~Grantee(c, t)
        BY <4>1 DEF Grantee, Open, Waiting, Granted
      <4> QED BY <3>2, <4>1, <4>2, <4>3 DEF Grantee
    <3> QED BY <3>1, <3>2
  <2>2. ~gated => who \in Clients
    BY <1>q
  <2>3. ASSUME NEW t \in Scope PROVE Promised(t)' <=> Promised(t) \/ (~gated /\ t = s)
    BY <2>1, <2>2 DEF Promised
  <2> QED BY <1>d, <2>1, <2>3 DEF Discarded
<1>1. DriverTyped'
  <2>1. ASSUME NEW t \in DOMAIN d'.deferred PROVE DOMAIN d'.deferred[t] = {"who", "path"}
    BY <1>a, <1>q DEF DriverTyped
  <2>2. \A t \in DOMAIN d'.watch_replies : DOMAIN d'.watch_replies[t] = {"who", "path"}
    BY <1>a, <1>c DEF DriverTyped
  <2> QED BY <1>a, <1>b, <1>c, <2>1, <2>2 DEF DriverTyped
<1>2. CallsTyped'
  <2>1. /\ commands' \in Seq([op : Calls, who : Whose, path : Where, s : Scope \cup {0}, awaited : BOOLEAN])
        /\ unwinds' \in Seq(Scope) /\ held' \subseteq Scope /\ released' \subseteq Scope
    BY <1>a, <1>d DEF CallsTyped, Message
  <2>2. DOMAIN calls' = Clients
    BY <1>g DEF CallsGo
  <2>3. ASSUME NEW c \in Clients, calls'[c] # Idle
        PROVE  /\ DOMAIN calls'[c] = {"op", "path", "s", "ans"} /\ calls'[c].op \in Calls
               /\ calls'[c].ans.k = "grant" =>
                     calls'[c].ans.s \in Scope /\ calls'[c].ans = Granted(calls'[c].ans.s)
    <3>1. CASE calls'[c] = calls[c]
      BY <1>a, <2>3, <3>1 DEF CallsTyped
    <3>2. CASE calls'[c] # calls[c]
      <4>1. Replied(c, Granted(s))
        BY <1>q, <3>2 DEF Told
      <4>2. Granted(s).s = s
        BY DEF Granted
      <4> QED BY <1>a, <2>3, <4>1, <4>2 DEF CallsTyped, Replied, Open
    <3> QED BY <3>1, <3>2
  <2> QED BY <2>1, <2>2, <2>3 DEF CallsTyped
<1>3. HistoryTyped'
  <2>1. running \in [Scope -> Int] /\ running' = [running EXCEPT ![s] = @ + 1]
    BY <1>a, <1>e DEF HistoryTyped
  <2>2. running' \in [Scope -> Int]
    BY <2>1
  <2> QED BY <1>a, <1>b, <1>d, <1>e, <2>2 DEF HistoryTyped
<1>4. PhasesSound'
  <2>1. phase' = "run" /\ (reported' >= 0 => phase' = "closed")
    BY <1>a, <1>d DEF PhasesSound
  <2>2. ASSUME NEW c \in Clients, calls'[c] # Idle, calls'[c].ans = Acked("closed") PROVE FALSE
    <3>1. Acked("closed").k = "closed" /\ "closed" \notin {"grant"}
      BY DEF Acked
    <3>2. calls'[c] = calls[c]
      BY <1>g, <2>2, <3>1 DEF CallsGo
    <3> QED BY <1>a, <1>d, <2>2, <3>2 DEF PhasesSound
  <2> QED BY <2>1, <2>2 DEF PhasesSound
<1>5. StagesSound'
  <2>1. DOMAIN d'.replaces \cup d'.handles \cup ended' \subseteq 1 .. d'.scope_seq
    <3>1. s \in 1 .. d.scope_seq
      BY <1>a, <1>b DEF DriverTyped
    <3>2. DOMAIN d.replaces \cup d.handles \cup ended \subseteq 1 .. d.scope_seq
      BY <1>a, <1>d DEF StagesSound
    <3> QED BY <1>b, <1>c, <1>f, <3>1, <3>2
  <2>2. DOMAIN d'.watch_replies = d'.spawns \ DOMAIN d'.replaces
    BY <1>a, <1>b, <1>c, <1>d, <1>f, <1>q DEF StagesSound
  <2>3. /\ DOMAIN d'.watch_replies \cap (d'.handles \cup ended') = {}
        /\ ended' \cap d'.handles = {}
    BY <1>a, <1>b, <1>c, <1>d, <1>f, <1>q DEF StagesSound
  <2>4. \A t \in d'.spawns \cap DOMAIN d'.replaces : d'.replaces[t].mode = "spawning"
    BY <1>a, <1>b, <1>c, <1>d, <1>f, <1>q DEF StagesSound
  <2>5. \A t \in DOMAIN d'.deferred :
              /\ t \in d'.handles /\ t \notin DOMAIN d'.replaces
              /\ [s |-> t, lane |-> d'.lanes[t]] \in d'.arms
    <3> SUFFICES ASSUME NEW t \in DOMAIN d'.deferred
                 PROVE  /\ t \in d'.handles /\ t \notin DOMAIN d'.replaces
                        /\ [s |-> t, lane |-> d'.lanes[t]] \in d'.arms
      OBVIOUS
    <3>1. CASE t = s
      BY <1>b, <1>c, <1>q, <3>1
    <3>2. CASE t # s
      <4>1. /\ t \in d.handles /\ t \notin DOMAIN d.replaces
            /\ [s |-> t, lane |-> d.lanes[t]] \in d.arms
        BY <1>a, <1>d, <1>q, <3>2 DEF StagesSound
      <4> QED BY <1>b, <1>c, <1>q, <4>1
    <3> QED BY <3>1, <3>2
  <2> QED BY <2>1, <2>2, <2>3, <2>4, <2>5 DEF StagesSound
<1>6. LanesSound'
  BY <1>a, <1>b, <1>d DEF LanesSound, DriverTyped
<1>7. OwnersSound'
  <2>1. ASSUME NEW t \in Scope
        PROVE  /\ t \in held' \cup released' \cup DOMAIN d'.deferred \/ Promised(t)' \/ Discarded(t)' =>
                    t \in 1 .. d'.scope_seq /\ t \notin DOMAIN d'.watch_replies
               /\ t \in held' => t \notin released'
               /\ t \in DOMAIN d'.deferred => t \notin held' \cup released'
               /\ Promised(t)' => t \notin held' \cup released' \cup DOMAIN d'.deferred
               /\ Discarded(t)' => t \notin held' \cup DOMAIN d'.deferred /\ ~Promised(t)'
               /\ \A c, o \in Clients : Grantee(c, t)' /\ Grantee(o, t)' => c = o
    <3>1. /\ \A c \in Clients : Grantee(c, t)' <=> Grantee(c, t) \/ (~gated /\ t = s /\ c = who)
          /\ Promised(t)' <=> Promised(t) \/ (~gated /\ t = s)
          /\ Discarded(t)' <=> Discarded(t)
      BY <1>p
    <3>2. CASE t # s
      BY <1>a, <1>c, <1>d, <1>q, <3>1, <3>2 DEF OwnersSound
    <3>3. CASE t = s
      <4>1. \A c \in Clients : ~Grantee(c, s)
        BY <1>n DEF Promised
      <4>2. s \in 1 .. d.scope_seq
        BY <1>a, <1>b DEF DriverTyped
      <4> QED BY <1>c, <1>d, <1>n, <1>q, <3>1, <3>3, <4>1, <4>2
    <3> QED BY <3>2, <3>3
  <2>2. \A t \in DOMAIN d'.replaces : t \in held' \cup released'
    BY <1>a, <1>c, <1>d DEF OwnersSound
  <2>3. \A t \in Scope : d'.waiters[t] # <<>> => t \in released' /\ t \notin d'.handles
    BY <1>a, <1>b, <1>c, <1>d, <1>n DEF OwnersSound
  <2> QED BY <2>1, <2>2, <2>3 DEF OwnersSound
<1>8. AskersSound'
  BY <1>a, <1>g, <1>d DEF AskersSound, CallsGo, Replied, Open
<1>9. PlacesSound'
  <2>0. \A c \in Clients : d.watch_replies[s].who = c =>
           /\ Open(c) /\ calls[c].op = "watch" /\ InDriver(c)
           /\ \A i \in DOMAIN commands : commands[i].who # c
           /\ \A t \in DOMAIN d.watch_replies : d.watch_replies[t].who = c => t = s
           /\ \A t \in DOMAIN d.deferred : d.deferred[t].who # c
    BY <1>a DEF PlacesSound, InDriver
  <2>1. CASE gated
    <3>1. ASSUME NEW c \in Clients
          PROVE  /\ InDriver(c)' <=> InDriver(c)
                 /\ Open(c)' <=> Open(c)
      <4>1. Open(c)' <=> Open(c)
        BY <1>q, <2>1 DEF Open
      <4>2. /\ (\E t \in DOMAIN d'.watch_replies : d'.watch_replies[t].who = c)
               \/ (\E t \in DOMAIN d'.deferred : d'.deferred[t].who = c)
            <=> \/ \E t \in DOMAIN d.watch_replies : d.watch_replies[t].who = c
                \/ \E t \in DOMAIN d.deferred : d.deferred[t].who = c
        BY <1>c, <1>q, <2>1
      <4> QED BY <1>c, <4>1, <4>2 DEF InDriver
    <3>2. \A c \in Clients : \A i \in DOMAIN commands' : commands'[i].who = c =>
              /\ Open(c)' /\ calls'[c].op = commands'[i].op /\ calls'[c].s = commands'[i].s
              /\ ~InDriver(c)' /\ \A j \in DOMAIN commands' : commands'[j].who = c => j = i
      BY <1>a, <1>d, <1>q, <2>1, <3>1 DEF PlacesSound
    <3>3. \A c \in Clients : \A t \in DOMAIN d'.watch_replies : d'.watch_replies[t].who = c =>
              /\ Open(c)' /\ calls'[c].op = "watch"
              /\ \A o \in DOMAIN d'.watch_replies : d'.watch_replies[o].who = c => o = t
              /\ \A o \in DOMAIN d'.deferred : d'.deferred[o].who # c
      BY <1>a, <1>c, <1>q, <2>0, <2>1, <3>1 DEF PlacesSound
    <3>4. \A c \in Clients : \A t \in DOMAIN d'.deferred : d'.deferred[t].who = c =>
              /\ Open(c)' /\ calls'[c].op = "watch"
              /\ \A o \in DOMAIN d'.deferred : d'.deferred[o].who = c => o = t
      BY <1>a, <1>c, <1>q, <2>0, <2>1, <3>1 DEF PlacesSound
    <3>5. \A c \in Clients :
              /\ \A t \in DOMAIN d'.replaces : d'.replaces[t].who = c =>
                    Open(c)' /\ calls'[c].op = "replace" /\ calls'[c].s = t
              /\ \A t \in Scope : \A i \in DOMAIN d'.waiters[t] : d'.waiters[t][i].who = c =>
                    Open(c)' /\ calls'[c].op = "unwatch" /\ calls'[c].s = t
      BY <1>a, <1>c, <1>q, <2>1, <3>1 DEF PlacesSound
    <3> QED BY <3>2, <3>3, <3>4, <3>5 DEF PlacesSound
  <2>2. CASE ~gated
    <3>1. ASSUME NEW c \in Clients, Placed(c)' PROVE calls'[c] = calls[c]
      <4> SUFFICES ASSUME c = who PROVE FALSE
        BY <1>q, <2>2 DEF Told
      <4>3. \A t \in DOMAIN d'.watch_replies : d'.watch_replies[t].who # c
        BY <1>a, <1>c, <2>0
      <4>4. \A t \in DOMAIN d.replaces : d.replaces[t].who # c
        BY <1>a, <1>c, <2>0 DEF PlacesSound
      <4>5. \A t \in Scope : \A i \in DOMAIN d.waiters[t] : d.waiters[t][i].who # c
        BY <1>a, <1>c, <2>0 DEF PlacesSound
      <4>6. \A t \in DOMAIN d'.deferred : d'.deferred[t].who # c
        BY <1>c, <1>q, <2>0, <2>2
      <4> QED BY <1>c, <1>d, <2>0, <3>1, <4>3, <4>4, <4>5, <4>6 DEF Placed, InDriver
    <3>2. \A i \in DOMAIN commands' :
             i \in Nat /\ i + 0 \in DOMAIN commands /\ commands'[i] = commands[i + 0]
      BY <1>a, <1>d DEF CallsTyped
    <3>3. \A t \in DOMAIN d'.deferred : t \in DOMAIN d.deferred /\ d'.deferred[t].who = d.deferred[t].who
      BY <1>q, <2>2
    <3> QED BY <1>a, <1>c, <3>1, <3>2, <3>3, PlacesKept
  <2> QED BY <2>1, <2>2
<1>10. VerdictsSound'
  <2>1. \A c \in Clients : calls'[c].ans = Acked("torn") => calls'[c] = calls[c]
    BY <1>g DEF CallsGo, Acked
  <2>2. \A t \in Scope :
           t \notin d.handles \cup d.spawns \cup DOMAIN d.replaces /\ d.downs[t] = 0 /\ d.unproven[t] = 0
           => /\ t \notin d'.handles \cup d'.spawns \cup DOMAIN d'.replaces
              /\ d'.downs[t] = 0 /\ d'.unproven[t] = 0
    BY <1>b, <1>c
  <2>3. \A t \in Scope : \A i \in DOMAIN d'.waiters[t] :
           d'.waiters[t][i].verdict = "torn" => d'.unproven[t] = 0
    BY <1>a, <1>c DEF VerdictsSound
  <2> QED BY <1>a, <2>1, <2>2, <2>3, VerdictsKept
<1>11. GrantsKept'
  <2> SUFFICES ASSUME NEW t \in Scope, t \in held' \/ Promised(t)'
               PROVE  t \in d'.handles \/ \E l \in dead' : d'.lane_of[l] = t
    BY DEF GrantsKept
  <2> QED BY <1>a, <1>b, <1>d, <1>p DEF GrantsKept, HistoryTyped
<1>12. LiveRootsDisjoint'
  OBVIOUS
<1>13. RegistryHonest'
  <2>1. DOMAIN reg'.live = d'.handles
    BY <1>a, <1>b, <1>d, <1>e DEF RegistryHonest
  <2> SUFFICES ASSUME NEW p \in DOMAIN reg'.pending PROVE Claimed(p)'
    BY <2>1 DEF RegistryHonest, Claimed
  <2>2. Claimed(p)
    BY <1>a, <1>e DEF RegistryHonest, Claimed
  <2>3. ASSUME NEW c \in Clients, calls[c] # Idle, calls[c].op = "watch", calls[c].path = p PROVE Claimed(p)'
    <3>1. calls'[c] # Idle /\ calls'[c].op = "watch" /\ calls'[c].path = p
      BY <1>g, <2>3 DEF CallsGo, Replied
    <3> QED BY <3>1 DEF Claimed
  <2>4. ASSUME NEW i \in Queued("replace"), commands[i].path = p PROVE Claimed(p)'
    BY <1>a, <1>d, <2>4 DEF Claimed, Queued
  <2>5. ASSUME NEW t \in DOMAIN d.replaces, d.replaces[t].path = p PROVE Claimed(p)'
    BY <1>c, <2>5 DEF Claimed
  <2> QED BY <2>2, <2>3, <2>4, <2>5 DEF Claimed
<1>14. EveryStreamHeld'
  <2> SUFFICES ASSUME NEW t \in Scope
               PROVE  running'[t] = One(t \in d'.handles) + One(t \in Arming') + d'.downs[t] + d'.unproven[t]
    BY DEF EveryStreamHeld
  <2>1. /\ running[t] = One(t \in d.handles) + One(t \in Arming) + d.downs[t] + d.unproven[t]
        /\ running[t] \in Int /\ d.downs[t] \in Nat /\ d.unproven[t] \in Nat
        /\ One(t \in d.handles) \in Int /\ One(t \in Arming) \in Int
    BY <1>a, HeldAt
  <2>2. One(t \in Arming') = One(t \in Arming) /\ One(TRUE) = 1 /\ One(FALSE) = 0
    BY <1>b, <1>c DEF Arming, One
  <2>3. running'[t] = running[t] + (IF t = s THEN 1 ELSE 0)
    BY <1>a, <1>e, <2>2 DEF HistoryTyped
  <2>4. CASE t # s
    BY <1>b, <1>c, <2>1, <2>2, <2>3, <2>4
  <2>5. CASE t = s
    <3>1. One(t \in d.handles) = 0 /\ One(t \in d'.handles) = 1
      BY <1>b, <2>5 DEF One
    <3> QED BY <1>c, <2>1, <2>2, <2>3, <2>5, <3>1
  <2> QED BY <2>4, <2>5
<1>15. NoOrphan'
  <2> SUFFICES ASSUME NEW t \in d'.handles PROVE Owner(t)'
    BY DEF NoOrphan, Owner
  <2>1. CASE t = s
    <3>1. (s \in DOMAIN d'.deferred /\ [s |-> s, lane |-> d'.lanes[s]] \in d'.arms) \/ Promised(s)'
      BY <1>p, <1>q
    <3> QED BY <2>1, <3>1 DEF Owner
  <2>2. CASE t # s
    <3>1. t \in Scope /\ Owner(t) /\ d'.lanes[t] = d.lanes[t]
      BY <1>a, <1>b, <1>d, <2>2 DEF NoOrphan, Owner, DriverTyped
    <3> QED BY <1>c, <1>d, <1>p, <1>q, <3>1 DEF Owner
  <2> QED BY <2>1, <2>2
<1>16. BacklogBounded'
  <2>1. ASSUME NEW t \in Scope PROVE Owed(t)' <= Owed(t)
    <3>1. /\ d.downs[t] \in Nat /\ d.unproven[t] \in Nat
      BY <1>a DEF DriverTyped
    <3>2. t \in InFlight' => t \in InFlight
      BY <1>b, <1>c, <1>q DEF InFlight
    <3> QED BY <1>c, <1>f, <3>1, <3>2 DEF Owed, One
  <2> QED BY <1>a, <1>1, <1>d, <2>1, BacklogKept
<1>17. CloseHonest'
  BY <1>a, <1>c, <1>d, <1>e DEF CloseHonest, PhasesSound
<1> QED BY <1>1, <1>2, <1>3, <1>4, <1>5, <1>6, <1>7, <1>8, <1>9, <1>10, <1>11, <1>12, <1>13,
         <1>14, <1>15, <1>16, <1>17 DEF ScopesIInv, RootsSound, StreamsSound

-----------------------------------------------------------------------------
(* A command is answered at once, and changes nothing.                     *)

\* The first command is taken off the channel.
LEMMA Popped ==
    ASSUME CallsTyped, commands # <<>>, commands' = Tail(commands)
    PROVE  /\ commands' \in Seq(Message) /\ 1 \in DOMAIN commands /\ Cmd = commands[1] /\ Cmd \in Message
           /\ \A i \in DOMAIN commands' : i \in Nat /\ i + 1 \in DOMAIN commands /\ commands'[i] = commands[i + 1]
           /\ \A i \in DOMAIN commands' : \E j \in DOMAIN commands : j # 1 /\ commands'[i] = commands[j]
           /\ \A i \in DOMAIN commands : i # 1 => i > 1 /\ i - 1 \in DOMAIN commands' /\ commands'[i - 1] = commands[i]
           /\ \A i, j \in DOMAIN commands' : i + 1 = j + 1 => i = j
<1>1. commands \in Seq(Message)
  BY DEF CallsTyped, Message
<1>2. /\ Tail(commands) \in Seq(Message) /\ 1 \in DOMAIN commands /\ commands[1] \in Message
      /\ \A i \in DOMAIN Tail(commands) :
            i \in Nat /\ i + 1 \in DOMAIN commands /\ Tail(commands)[i] = commands[i + 1]
      /\ \A i \in DOMAIN commands :
            i > 1 => i - 1 \in DOMAIN Tail(commands) /\ Tail(commands)[i - 1] = commands[i]
  BY <1>1, TailIs
<1>3. \A i \in DOMAIN commands : i # 1 => i > 1
  BY <1>1
<1>4. \A i \in DOMAIN Tail(commands) : i + 1 # 1
  BY <1>2
<1>5. \A i, j \in DOMAIN Tail(commands) : i + 1 = j + 1 => i = j
  BY <1>2
<1> QED BY <1>2, <1>3, <1>4, <1>5 DEF Cmd

\* Who sent the first command waits for nothing else.
LEMMA Sender ==
    ASSUME PlacesSound, CallsTyped, commands # <<>>, commands' = Tail(commands), NEW c \in Clients, Cmd.who = c
    PROVE  /\ Open(c) /\ calls[c].op = Cmd.op /\ calls[c].s = Cmd.s /\ ~InDriver(c)
           /\ \A i \in DOMAIN commands' : commands'[i].who # c
<1>1. /\ 1 \in DOMAIN commands /\ Cmd = commands[1]
      /\ \A i \in DOMAIN commands' : \E j \in DOMAIN commands : j # 1 /\ commands'[i] = commands[j]
  BY Popped
<1> QED BY <1>1 DEF PlacesSound

\* A command is answered with a at once.
Pops(a) ==
    /\ commands # <<>> /\ commands' = Tail(commands)
    /\ Cmd.op = "unwatch" => Cmd.s \notin d.handles
    /\ a.k \in {"err", "backlogged", "unknown", "unproven"} /\ Told(Cmd.who, a)
    /\ d' = d /\ reg' = IF Cmd.op = "replace" THEN drop_reservation(reg, Cmd.path) ELSE reg
    /\ UNCHANGED <<unwinds, front, running, dead>> /\ Ungated

\* A command that is refused, or has nothing to wait for.
LEMMA PopsSafe ==
    ASSUME ScopesIInv, phase = "run", NEW a, Pops(a)
    PROVE  ScopesIInv'
<1>a. /\ DriverTyped /\ CallsTyped /\ HistoryTyped /\ PhasesSound /\ StagesSound /\ LanesSound
      /\ OwnersSound /\ AskersSound /\ PlacesSound /\ VerdictsSound /\ GrantsKept
      /\ LiveRootsDisjoint /\ RegistryHonest /\ EveryStreamHeld /\ NoOrphan /\ BacklogBounded
      /\ CloseHonest
  BY DEF ScopesIInv, RootsSound, StreamsSound
<1>b. d' = d
  BY DEF Pops
<1>d. UNCHANGED <<unwinds, held, released, phase, reported, dead, running>>
  BY DEF Pops, front
<1>k. Told(Cmd.who, a) /\ a.k \in {"err", "backlogged", "unknown", "unproven"}
  BY DEF Pops
<1>m. /\ commands' \in Seq(Message) /\ 1 \in DOMAIN commands /\ Cmd = commands[1]
      /\ \A i \in DOMAIN commands' : i \in Nat /\ i + 1 \in DOMAIN commands /\ commands'[i] = commands[i + 1]
      /\ \A i \in DOMAIN commands' : \E j \in DOMAIN commands : j # 1 /\ commands'[i] = commands[j]
      /\ \A i \in DOMAIN commands : i # 1 => i - 1 \in DOMAIN commands' /\ commands'[i - 1] = commands[i]
  BY <1>a, Popped DEF Pops
<1>h. Cmd.op = "unwatch" => Cmd.s \notin d.handles
  BY DEF Pops
<1>e. reg' = IF Cmd.op = "replace" THEN drop_reservation(reg, Cmd.path) ELSE reg
  BY DEF Pops
<1>f. ended' = ended
  BY <1>b DEF Pops, Ungated
<1>g. CallsGo({"err", "backlogged", "unknown", "unproven"})
  BY <1>k, ToldGo
<1>p. /\ \A c \in Clients, t \in Scope : Grantee(c, t)' <=> Grantee(c, t)
      /\ \A t \in Scope : (Promised(t)' <=> Promised(t)) /\ (Discarded(t)' <=> Discarded(t))
  BY <1>d, <1>g, GrantsStand
<1>1. DriverTyped'
  BY <1>a, <1>b DEF DriverTyped, StagesSound
<1>2. CallsTyped'
  <2>1. /\ commands' \in Seq([op : Calls, who : Whose, path : Where, s : Scope \cup {0}, awaited : BOOLEAN])
        /\ unwinds' \in Seq(Scope) /\ held' \subseteq Scope /\ released' \subseteq Scope
    BY <1>a, <1>d, <1>m DEF CallsTyped, Message
  <2>2. DOMAIN calls' = Clients
    BY <1>g DEF CallsGo
  <2>3. ASSUME NEW c \in Clients, calls'[c] # Idle
        PROVE  /\ DOMAIN calls'[c] = {"op", "path", "s", "ans"} /\ calls'[c].op \in Calls
               /\ calls'[c].ans.k = "grant" =>
                     calls'[c].ans.s \in Scope /\ calls'[c].ans = Granted(calls'[c].ans.s)
    <3>1. CASE calls'[c] = calls[c]
      BY <1>a, <2>3, <3>1 DEF CallsTyped
    <3>2. CASE Replied(c, calls'[c].ans) /\ calls'[c].ans.k \in {"err", "backlogged", "unknown", "unproven"}
      BY <1>a, <2>3, <3>2 DEF CallsTyped, Replied, Open
    <3> QED BY <1>g, <3>1, <3>2 DEF CallsGo
  <2> QED BY <2>1, <2>2, <2>3 DEF CallsTyped
<1>3. HistoryTyped'
  BY <1>a, <1>b, <1>d, <1>e DEF HistoryTyped, DriverTyped, drop_reservation
<1>4. PhasesSound'
  <2>1. phase' = "run" /\ (reported' >= 0 => phase' = "closed")
    BY <1>a, <1>b, <1>d DEF PhasesSound
  <2>2. ASSUME NEW c \in Clients, calls'[c] # Idle, calls'[c].ans = Acked("closed") PROVE FALSE
    <3>1. Acked("closed").k = "closed" /\ "closed" \notin {"err", "backlogged", "unknown", "unproven"}
      BY DEF Acked
    <3>2. calls'[c] = calls[c]
      BY <1>g, <2>2, <3>1 DEF CallsGo
    <3> QED BY <1>a, <1>b, <1>d, <2>2, <3>2 DEF PhasesSound
  <2> QED BY <2>1, <2>2 DEF PhasesSound
<1>5. StagesSound'
  BY <1>a, <1>b, <1>d, <1>f DEF StagesSound, DriverTyped
<1>6. LanesSound'
  BY <1>a, <1>b, <1>d DEF LanesSound, DriverTyped
<1>7. OwnersSound'
  <2>1. ASSUME NEW t \in Scope
        PROVE  /\ t \in held' \cup released' \cup DOMAIN d'.deferred \/ Promised(t)' \/ Discarded(t)' =>
                    t \in 1 .. d'.scope_seq /\ t \notin DOMAIN d'.watch_replies
               /\ t \in held' => t \notin released'
               /\ t \in DOMAIN d'.deferred => t \notin held' \cup released'
               /\ Promised(t)' => t \notin held' \cup released' \cup DOMAIN d'.deferred
               /\ Discarded(t)' => t \notin held' \cup DOMAIN d'.deferred /\ ~Promised(t)'
               /\ \A c, o \in Clients : Grantee(c, t)' /\ Grantee(o, t)' => c = o
    BY <1>a, <1>b, <1>d, <1>p DEF OwnersSound
  <2>2. \A t \in DOMAIN d'.replaces : t \in held' \cup released'
    BY <1>a, <1>b, <1>d DEF OwnersSound
  <2>3. \A t \in Scope : d'.waiters[t] # <<>> => t \in released' /\ t \notin d'.handles
    BY <1>a, <1>b, <1>d DEF OwnersSound
  <2> QED BY <2>1, <2>2, <2>3 DEF OwnersSound
<1>8. AskersSound'
  BY <1>a, <1>g, <1>d, <1>m DEF AskersSound, CallsGo, Replied, Open
<1>9. PlacesSound'
  <2>1. ASSUME NEW c \in Clients, Placed(c)' PROVE calls'[c] = calls[c]
    <3> SUFFICES ASSUME c = Cmd.who PROVE FALSE
      BY <1>k DEF Told
    <3>1. ~InDriver(c) /\ \A i \in DOMAIN commands' : commands'[i].who # c
      BY <1>a, Sender DEF Pops
    <3> QED BY <1>b, <2>1, <3>1 DEF Placed, InDriver
  <2>2. \A i \in DOMAIN commands' :
           i \in Nat /\ i + 1 \in DOMAIN commands /\ commands'[i] = commands[i + 1]
    BY <1>m
  <2> QED BY <1>a, <1>b, <2>1, <2>2, PlacesKept
<1>10. VerdictsSound'
  <2>1. \A c \in Clients : calls'[c].ans = Acked("torn") => calls'[c] = calls[c]
    BY <1>g DEF CallsGo, Acked
  <2> QED BY <1>a, <1>b, <2>1 DEF VerdictsSound
<1>11. GrantsKept'
  <2> SUFFICES ASSUME NEW t \in Scope, t \in held' \/ Promised(t)'
               PROVE  t \in d'.handles \/ \E l \in dead' : d'.lane_of[l] = t
    BY DEF GrantsKept
  <2> QED BY <1>a, <1>b, <1>d, <1>p DEF GrantsKept
<1>12. LiveRootsDisjoint'
  BY <1>a, <1>e DEF LiveRootsDisjoint, drop_reservation, HistoryTyped
<1>13. RegistryHonest'
  <2>1. DOMAIN reg'.live = d'.handles
    BY <1>a, <1>b, <1>d, <1>e DEF RegistryHonest, drop_reservation, HistoryTyped
  <2> SUFFICES ASSUME NEW p \in DOMAIN reg'.pending PROVE Claimed(p)'
    BY <2>1 DEF RegistryHonest, Claimed
  <2>2. Claimed(p)
    BY <1>a, <1>e DEF RegistryHonest, Claimed, drop_reservation, Drop, HistoryTyped
  <2>3. ASSUME NEW c \in Clients, calls[c] # Idle, calls[c].op = "watch", calls[c].path = p PROVE Claimed(p)'
    <3>1. calls'[c] # Idle /\ calls'[c].op = "watch" /\ calls'[c].path = p
      BY <1>g, <2>3 DEF CallsGo, Replied
    <3> QED BY <3>1 DEF Claimed
  <2>4. ASSUME NEW i \in Queued("replace"), commands[i].path = p PROVE Claimed(p)'
    <3>1. i # 1
      BY <1>a, <1>e, <1>m, <2>4 DEF Queued, drop_reservation, Drop, HistoryTyped
    <3> QED BY <1>m, <2>4, <3>1 DEF Claimed, Queued
  <2>5. ASSUME NEW t \in DOMAIN d.replaces, d.replaces[t].path = p PROVE Claimed(p)'
    BY <1>b, <2>5 DEF Claimed
  <2> QED BY <2>2, <2>3, <2>4, <2>5 DEF Claimed
<1>14. EveryStreamHeld'
  BY <1>a, <1>b, <1>e, <1>d DEF EveryStreamHeld, Arming, One, DriverTyped, HistoryTyped
<1>15. NoOrphan'
  <2> SUFFICES ASSUME NEW t \in d'.handles PROVE Owner(t)'
    BY DEF NoOrphan, Owner
  <2>1. t \in Scope /\ Owner(t)
    BY <1>a, <1>b, <1>d DEF NoOrphan, Owner, DriverTyped, Pops
  <2>2. ASSUME NEW i \in DOMAIN commands, commands[i].op = "unwatch", commands[i].s = t PROVE Owner(t)'
    <3>1. i # 1
      BY <1>b, <1>h, <1>m, <2>2
    <3> QED BY <1>m, <2>2, <3>1 DEF Owner
  <2> QED BY <1>b, <1>d, <1>p, <2>1, <2>2 DEF Owner
<1>16. BacklogBounded'
  <2>1. ASSUME NEW t \in Scope PROVE Owed(t)' <= Owed(t)
    <3>1. /\ d.downs[t] \in Nat /\ d.unproven[t] \in Nat
      BY <1>a DEF DriverTyped
    <3> QED BY <1>b, <1>f, <3>1 DEF Owed, One, InFlight
  <2> QED BY <1>a, <1>1, <1>d, <2>1, BacklogKept
<1>17. CloseHonest'
  BY <1>a, <1>d, <1>e, <1>b DEF CloseHonest, PhasesSound
<1> QED BY <1>1, <1>2, <1>3, <1>4, <1>5, <1>6, <1>7, <1>8, <1>9, <1>10, <1>11, <1>12, <1>13,
         <1>14, <1>15, <1>16, <1>17 DEF ScopesIInv, RootsSound, StreamsSound

-----------------------------------------------------------------------------
(* A command is taken up: a birth starts, a replacement starts, an unwatch *)
(* waits.                                                                  *)

\* The reply half of the first command goes to the place its answer will come from.
LEMMA PlacesTaken ==
    ASSUME PlacesSound, CallsTyped, commands # <<>>, commands' = Tail(commands), calls' = calls, NEW new,
           \A t \in DOMAIN d'.watch_replies :
               \/ t \in DOMAIN d.watch_replies /\ d'.watch_replies[t].who = d.watch_replies[t].who
               \/ t = new /\ Cmd.op = "watch" /\ d'.watch_replies[t].who = Cmd.who,
           \A t \in DOMAIN d'.deferred :
               t \in DOMAIN d.deferred /\ d'.deferred[t].who = d.deferred[t].who,
           \A t \in DOMAIN d'.replaces :
               \/ t \in DOMAIN d.replaces /\ d'.replaces[t].who = d.replaces[t].who
               \/ t = Cmd.s /\ Cmd.op = "replace" /\ d'.replaces[t].who = Cmd.who,
           \A t \in Scope : \A i \in DOMAIN d'.waiters[t] :
               \/ i \in DOMAIN d.waiters[t] /\ d'.waiters[t][i].who = d.waiters[t][i].who
               \/ t = Cmd.s /\ Cmd.op = "unwatch" /\ d'.waiters[t][i].who = Cmd.who
    PROVE  PlacesSound'
<1> SUFFICES ASSUME NEW c \in Clients
             PROVE
        /\ \A i \in DOMAIN commands' : commands'[i].who = c =>
              /\ Open(c)' /\ calls'[c].op = commands'[i].op /\ calls'[c].s = commands'[i].s
              /\ ~InDriver(c)' /\ \A j \in DOMAIN commands' : commands'[j].who = c => j = i
        /\ \A s \in DOMAIN d'.watch_replies : d'.watch_replies[s].who = c =>
              /\ Open(c)' /\ calls'[c].op = "watch"
              /\ \A t \in DOMAIN d'.watch_replies : d'.watch_replies[t].who = c => t = s
              /\ \A t \in DOMAIN d'.deferred : d'.deferred[t].who # c
        /\ \A s \in DOMAIN d'.deferred : d'.deferred[s].who = c =>
              /\ Open(c)' /\ calls'[c].op = "watch"
              /\ \A t \in DOMAIN d'.deferred : d'.deferred[t].who = c => t = s
        /\ \A s \in DOMAIN d'.replaces : d'.replaces[s].who = c =>
              Open(c)' /\ calls'[c].op = "replace" /\ calls'[c].s = s
        /\ \A s \in Scope : \A i \in DOMAIN d'.waiters[s] : d'.waiters[s][i].who = c =>
              Open(c)' /\ calls'[c].op = "unwatch" /\ calls'[c].s = s
  BY DEF PlacesSound
<1>1. Open(c)' <=> Open(c)
  BY DEF Open
<1>2. CASE c # Cmd.who
  <2>1. InDriver(c)' => InDriver(c)
    BY <1>2 DEF InDriver
  <2>2. /\ \A i \in DOMAIN commands' : i + 1 \in DOMAIN commands /\ commands'[i] = commands[i + 1]
        /\ \A i, j \in DOMAIN commands' : i + 1 = j + 1 => i = j
    BY Popped
  <2>3. \A i \in DOMAIN commands' : commands'[i].who = c =>
              /\ Open(c)' /\ calls'[c].op = commands'[i].op /\ calls'[c].s = commands'[i].s
              /\ ~InDriver(c)' /\ \A j \in DOMAIN commands' : commands'[j].who = c => j = i
    BY <1>1, <2>1, <2>2 DEF PlacesSound
  <2>4. /\ \A s \in DOMAIN d'.watch_replies : d'.watch_replies[s].who = c =>
              /\ Open(c)' /\ calls'[c].op = "watch"
              /\ \A t \in DOMAIN d'.watch_replies : d'.watch_replies[t].who = c => t = s
              /\ \A t \in DOMAIN d'.deferred : d'.deferred[t].who # c
        /\ \A s \in DOMAIN d'.deferred : d'.deferred[s].who = c =>
              /\ Open(c)' /\ calls'[c].op = "watch"
              /\ \A t \in DOMAIN d'.deferred : d'.deferred[t].who = c => t = s
    BY <1>1, <1>2 DEF PlacesSound
  <2>5. /\ \A s \in DOMAIN d'.replaces : d'.replaces[s].who = c =>
              Open(c)' /\ calls'[c].op = "replace" /\ calls'[c].s = s
        /\ \A s \in Scope : \A i \in DOMAIN d'.waiters[s] : d'.waiters[s][i].who = c =>
              Open(c)' /\ calls'[c].op = "unwatch" /\ calls'[c].s = s
    BY <1>1, <1>2 DEF PlacesSound
  <2> QED BY <2>3, <2>4, <2>5
<1>3. CASE c = Cmd.who
  <2>1. /\ Open(c) /\ calls[c].op = Cmd.op /\ calls[c].s = Cmd.s /\ ~InDriver(c)
        /\ \A i \in DOMAIN commands' : commands'[i].who # c
    BY <1>3, Sender
  <2>2. /\ \A t \in DOMAIN d.watch_replies : d.watch_replies[t].who # c
        /\ \A t \in DOMAIN d.deferred : d.deferred[t].who # c
        /\ \A t \in DOMAIN d.replaces : d.replaces[t].who # c
        /\ \A t \in Scope : \A i \in DOMAIN d.waiters[t] : d.waiters[t][i].who # c
    BY <2>1 DEF InDriver
  <2> QED BY <1>1, <2>1, <2>2
<1> QED BY <1>2, <1>3

\* What is admitted below the limit stays within it.
LEMMA PressureKept ==
    ASSUME DriverTyped, StagesSound, phase = "run", DriverTyped', NEW s,
           teardown_pressure(d) < MAX_TEARDOWN_BACKLOG,
           d'.downs = d.downs, d'.unproven = d.unproven, InFlight' \subseteq InFlight \cup {s}
    PROVE  BacklogBounded'
<1> DEFINE A == InFlight'
<1>1. /\ Landed(d) \in [Scope -> Nat] /\ \A t \in Scope : Landed(d)[t] = d.downs[t] + d.unproven[t]
      /\ d.downs \in [Scope -> Nat] /\ d.unproven \in [Scope -> Nat]
  BY DEF Landed, DriverTyped
<1>2. /\ Backlog' \in [Scope -> Nat]
      /\ \A t \in Scope : Owed(t)' \in Int /\ Backlog'[t] = IF Owed(t)' > 0 THEN Owed(t)' ELSE 0
  <2>1. d'.downs \in [Scope -> Nat] /\ d'.unproven \in [Scope -> Nat]
    BY DEF DriverTyped
  <2>2. \A t \in Scope : Owed(t)' = Owes(d'.downs, d'.unproven, ended', InFlight', t)
    BY DEF Owed, Owes
  <2>3. Backlog' = [t \in Scope |-> Max({0, Owed(t)'})]
    BY DEF Backlog, Owed
  <2>4. \A t \in Scope : /\ Owed(t)' \in Int /\ Max({0, Owed(t)'}) \in Nat
                         /\ Max({0, Owed(t)'}) = IF Owed(t)' > 0 THEN Owed(t)' ELSE 0
    BY <2>1, <2>2, OwesIs
  <2> QED BY <2>3, <2>4
<1>3. \A t \in Scope : Backlog'[t] <= Landed(d)[t] + One(t \in A)
  <2> SUFFICES ASSUME NEW t \in Scope PROVE Backlog'[t] <= Landed(d)[t] + One(t \in A)
    OBVIOUS
  <2>1. Owed(t)' = d.downs[t] + d.unproven[t] - One(t \in ended') + One(t \in A)
    BY DEF Owed
  <2>2. /\ d.downs[t] \in Nat /\ d.unproven[t] \in Nat
        /\ One(t \in ended') \in {0, 1} /\ One(t \in A) \in {0, 1}
    BY <1>1 DEF One
  <2> HIDE DEF A
  <2> QED BY <1>1, <1>2, <2>1, <2>2
<1>4. IsFiniteSet(InFlight) /\ Cardinality(InFlight) \in Nat
  <2>1. IsFiniteSet(1 .. d.scope_seq)
    <3>1. 1 \in Int /\ d.scope_seq \in Int
      BY DEF DriverTyped
    <3> QED BY <3>1, FS_Interval
  <2>2. InFlight \subseteq (1 .. d.scope_seq) \cup Scope
    BY DEF InFlight, DriverTyped, StagesSound
  <2>3. IsFiniteSet((1 .. d.scope_seq) \cup Scope)
    BY <2>1, ScopeFinite, FS_Union
  <2>4. IsFiniteSet(InFlight)
    BY <2>2, <2>3, FS_Subset
  <2> QED BY <2>4, FS_CardinalityType
<1>5. IsFiniteSet(A) /\ Cardinality(A) \in Nat /\ Cardinality(A) <= Cardinality(InFlight) + 1
  <2>1. /\ IsFiniteSet(InFlight \cup {s}) /\ Cardinality(InFlight \cup {s}) \in Nat
        /\ Cardinality(InFlight \cup {s}) <= Cardinality(InFlight) + 1
    <3>1. IsFiniteSet(InFlight)
      BY <1>4
    <3>2. /\ IsFiniteSet(InFlight \cup {s})
          /\ Cardinality(InFlight \cup {s}) =
                IF s \in InFlight THEN Cardinality(InFlight) ELSE Cardinality(InFlight) + 1
      BY <3>1, FS_AddElement
    <3> HIDE DEF InFlight
    <3> QED BY <1>4, <3>2
  <2>2. IsFiniteSet(A) /\ Cardinality(A) <= Cardinality(InFlight \cup {s})
    BY <2>1, FS_Subset
  <2>3. Cardinality(A) \in Nat
    BY <2>2, FS_CardinalityType
  <2> QED BY <1>4, <2>1, <2>2, <2>3
<1> HIDE DEF A
<1>6. Total(Backlog') <= Total(Landed(d)) + Cardinality(A)
  BY <1>1, <1>2, <1>3, <1>5, TotalGrows
<1>7. 1 \in Scope
  BY FsScopesAssumption DEF Scope
<1>8. Total(Backlog') \in Nat /\ Total(Landed(d)) \in Nat
  BY <1>1, <1>2, <1>7, TotalAbove
<1>9. Total(Landed(d)) + Cardinality(InFlight) < MAX_TEARDOWN_BACKLOG
  BY DEF teardown_pressure, InFlight
<1>10. MAX_TEARDOWN_BACKLOG \in Nat
  BY FsScopesAssumption
<1>11. Total(Backlog') <= MAX_TEARDOWN_BACKLOG
  BY <1>4, <1>5, <1>6, <1>8, <1>9, <1>10
<1>12. Total(Backlog)' = Total(Backlog')
  BY DEF Total, MapThenSumSet, MapThenFoldSet
<1> QED BY <1>11, <1>12 DEF BacklogBounded

\* A command of this kind is taken, and nobody is told.
TakesOne(op) == commands # <<>> /\ commands' = Tail(commands) /\ Cmd.op = op /\ calls' = calls

\* A scope s is registered and spawned for the command at hand.
Starts(s) ==
    /\ TakesOne("watch") /\ s = d.scope_seq + 1 /\ teardown_pressure(d) < MAX_TEARDOWN_BACKLOG
    /\ DOMAIN d' = Fields
    /\ d'.scope_seq = s /\ d'.spawns = d.spawns \cup {s}
    /\ d'.watch_replies = Put(d.watch_replies, s, [who |-> Cmd.who, path |-> Cmd.path])
    /\ d'.handles = d.handles /\ d'.lanes = d.lanes /\ d'.lane_of = d.lane_of /\ d'.downs = d.downs
    /\ d'.unproven = d.unproven /\ d'.deferred = d.deferred /\ d'.arms = d.arms
    /\ d'.replaces = d.replaces /\ d'.waiters = d.waiters
    /\ UNCHANGED <<reg, unwinds, front, running, dead>> /\ Ungated

\* A birth starts: its scope is one nobody knows of.
LEMMA StartsSafe ==
    ASSUME ScopesIInv, phase = "run", NEW s, Starts(s)
    PROVE  ScopesIInv'
<1>a. /\ DriverTyped /\ CallsTyped /\ HistoryTyped /\ PhasesSound /\ StagesSound /\ LanesSound
      /\ OwnersSound /\ AskersSound /\ PlacesSound /\ VerdictsSound /\ GrantsKept
      /\ LiveRootsDisjoint /\ RegistryHonest /\ EveryStreamHeld /\ NoOrphan /\ BacklogBounded
      /\ CloseHonest
  BY DEF ScopesIInv, RootsSound, StreamsSound
<1>b. /\ DOMAIN d' = Fields /\ d'.handles = d.handles /\ d'.lanes = d.lanes /\ d'.lane_of = d.lane_of
      /\ s = d.scope_seq + 1 /\ d.scope_seq \in Nat
  BY <1>a DEF Starts, DriverTyped
<1>c. /\ d'.downs = d.downs /\ d'.unproven = d.unproven /\ d'.deferred = d.deferred /\ d'.arms = d.arms
      /\ d'.replaces = d.replaces /\ d'.waiters = d.waiters
      /\ d'.scope_seq = s /\ d'.spawns = d.spawns \cup {s}
      /\ DOMAIN d'.watch_replies = DOMAIN d.watch_replies \cup {s}
      /\ \A t \in DOMAIN d'.watch_replies \ {s} : d'.watch_replies[t] = d.watch_replies[t]
      /\ d'.watch_replies[s] = [who |-> Cmd.who, path |-> Cmd.path]
  BY DEF Starts, Put
<1>d. UNCHANGED <<unwinds, held, released, phase, reported, dead, running, reg>> /\ phase = "run"
  BY DEF Starts, front
<1>m. /\ commands' \in Seq(Message) /\ 1 \in DOMAIN commands /\ Cmd = commands[1] /\ Cmd \in Message
      /\ \A i \in DOMAIN commands' : i \in Nat /\ i + 1 \in DOMAIN commands /\ commands'[i] = commands[i + 1]
      /\ \A i \in DOMAIN commands' : \E j \in DOMAIN commands : j # 1 /\ commands'[i] = commands[j]
      /\ \A i \in DOMAIN commands : i # 1 => i - 1 \in DOMAIN commands' /\ commands'[i - 1] = commands[i]
  BY <1>a, Popped DEF Starts, TakesOne
<1>h. Cmd.op = "watch"
  BY DEF Starts, TakesOne
<1>f. ended' = ended
  BY <1>b DEF Starts, Ungated
<1>g. calls' = calls
  BY DEF Starts, TakesOne
<1>n. /\ s \notin d.spawns \cup DOMAIN d.replaces \cup d.handles \cup ended
      /\ s \notin DOMAIN d.watch_replies \cup DOMAIN d.deferred /\ s \notin held \cup released
      /\ s \in Scope => ~Promised(s) /\ ~Discarded(s)
  <2>1. s \notin 1 .. d.scope_seq
    BY <1>b
  <2>2. s \notin d.spawns \cup DOMAIN d.replaces \cup d.handles \cup ended
    BY <1>a, <1>d, <2>1 DEF DriverTyped, StagesSound
  <2>3. s \notin DOMAIN d.watch_replies \cup DOMAIN d.deferred
    BY <1>a, <1>d, <2>2 DEF StagesSound
  <2>4. s \notin held \cup released
    BY <1>a, <1>d, <2>1 DEF OwnersSound, CallsTyped
  <2> QED BY <1>a, <1>d, <2>1, <2>2, <2>3, <2>4 DEF OwnersSound
<1>p. /\ \A c \in Clients, t \in Scope : Grantee(c, t)' <=> Grantee(c, t)
      /\ \A t \in Scope : (Promised(t)' <=> Promised(t)) /\ (Discarded(t)' <=> Discarded(t))
  BY <1>d, <1>g DEF Grantee, Promised, Discarded
<1>1. DriverTyped'
  <2>1. d'.spawns \subseteq 1 .. d'.scope_seq
    BY <1>a, <1>b, <1>c DEF DriverTyped
  <2>2. \A t \in DOMAIN d'.watch_replies : DOMAIN d'.watch_replies[t] = {"who", "path"}
    BY <1>a, <1>c DEF DriverTyped
  <2> QED BY <1>a, <1>b, <1>c, <2>1, <2>2 DEF DriverTyped
<1>2. CallsTyped'
  BY <1>a, <1>d, <1>g, <1>m DEF CallsTyped, Message
<1>3. HistoryTyped'
  BY <1>a, <1>b, <1>d DEF HistoryTyped, DriverTyped
<1>4. PhasesSound'
  BY <1>a, <1>b, <1>c, <1>d, <1>g DEF PhasesSound
<1>5. StagesSound'
  <2>1. 1 .. d.scope_seq \subseteq 1 .. d'.scope_seq
    BY <1>b, <1>c
  <2> QED BY <1>a, <1>b, <1>c, <1>d, <1>f, <1>n, <2>1 DEF StagesSound
<1>6. LanesSound'
  BY <1>a, <1>b, <1>d DEF LanesSound, DriverTyped
<1>7. OwnersSound'
  <2>1. ASSUME NEW t \in Scope
        PROVE  /\ t \in held' \cup released' \cup DOMAIN d'.deferred \/ Promised(t)' \/ Discarded(t)' =>
                    t \in 1 .. d'.scope_seq /\ t \notin DOMAIN d'.watch_replies
               /\ t \in held' => t \notin released'
               /\ t \in DOMAIN d'.deferred => t \notin held' \cup released'
               /\ Promised(t)' => t \notin held' \cup released' \cup DOMAIN d'.deferred
               /\ Discarded(t)' => t \notin held' \cup DOMAIN d'.deferred /\ ~Promised(t)'
               /\ \A c, o \in Clients : Grantee(c, t)' /\ Grantee(o, t)' => c = o
    <3>1. 1 .. d.scope_seq \subseteq 1 .. d'.scope_seq
      BY <1>b, <1>c
    <3>2. \A c, o \in Clients : Grantee(c, t)' /\ Grantee(o, t)' => c = o
      BY <1>a, <1>d, <1>p DEF OwnersSound
    <3> QED BY <1>a, <1>c, <1>d, <1>n, <1>p, <3>1, <3>2 DEF OwnersSound
  <2>2. \A t \in DOMAIN d'.replaces : t \in held' \cup released'
    BY <1>a, <1>c, <1>d DEF OwnersSound
  <2>3. \A t \in Scope : d'.waiters[t] # <<>> => t \in released' /\ t \notin d'.handles
    BY <1>a, <1>b, <1>c, <1>d DEF OwnersSound
  <2> QED BY <2>1, <2>2, <2>3 DEF OwnersSound
<1>8. AskersSound'
  BY <1>a, <1>g, <1>d, <1>m DEF AskersSound, CallsGo, Replied, Open
<1>9. PlacesSound'
  <2>1. /\ commands # <<>> /\ commands' = Tail(commands)
    BY DEF Starts, TakesOne
  <2>2. \A t \in DOMAIN d'.watch_replies :
               \/ t \in DOMAIN d.watch_replies /\ d'.watch_replies[t].who = d.watch_replies[t].who
               \/ t = s /\ Cmd.op = "watch" /\ d'.watch_replies[t].who = Cmd.who
    BY <1>c, <1>h
  <2> QED BY <1>a, <1>c, <1>g, <2>1, <2>2, PlacesTaken
<1>10. VerdictsSound'
  <2> SUFFICES ASSUME NEW c \in Clients, calls[c] # Idle, calls[c].ans = Acked("torn") PROVE calls[c].s # s
    BY <1>a, <1>b, <1>c, <1>g DEF VerdictsSound
  <2>1. calls[c].s \in held \cup released
    BY <1>a DEF VerdictsSound, AskersSound
  <2> QED BY <1>n, <2>1
<1>11. GrantsKept'
  <2> SUFFICES ASSUME NEW t \in Scope, t \in held' \/ Promised(t)'
               PROVE  t \in d'.handles \/ \E l \in dead' : d'.lane_of[l] = t
    BY DEF GrantsKept
  <2> QED BY <1>a, <1>b, <1>d, <1>p DEF GrantsKept
<1>12. LiveRootsDisjoint'
  BY <1>a, <1>d DEF LiveRootsDisjoint
<1>13. RegistryHonest'
  <2>1. DOMAIN reg'.live = d'.handles
    BY <1>a, <1>b, <1>d DEF RegistryHonest
  <2> SUFFICES ASSUME NEW p \in DOMAIN reg'.pending PROVE Claimed(p)'
    BY <2>1 DEF RegistryHonest, Claimed
  <2>2. Claimed(p)
    BY <1>a, <1>d DEF RegistryHonest, Claimed
  <2>3. ASSUME NEW c \in Clients, calls[c] # Idle, calls[c].op = "watch", calls[c].path = p PROVE Claimed(p)'
    <3>1. calls'[c] # Idle /\ calls'[c].op = "watch" /\ calls'[c].path = p
      BY <1>g, <2>3
    <3> QED BY <3>1 DEF Claimed
  <2>4. ASSUME NEW i \in Queued("replace"), commands[i].path = p PROVE Claimed(p)'
    BY <1>h, <1>m, <2>4 DEF Claimed, Queued
  <2>5. ASSUME NEW t \in DOMAIN d.replaces, d.replaces[t].path = p PROVE Claimed(p)'
    BY <1>c, <2>5 DEF Claimed
  <2> QED BY <2>2, <2>3, <2>4, <2>5 DEF Claimed
<1>14. EveryStreamHeld'
  BY <1>a, <1>b, <1>c, <1>d DEF EveryStreamHeld, Arming, One, DriverTyped, HistoryTyped
<1>15. NoOrphan'
  <2> SUFFICES ASSUME NEW t \in d'.handles PROVE Owner(t)'
    BY DEF NoOrphan, Owner
  <2>1. t \in Scope /\ Owner(t)
    BY <1>a, <1>b, <1>d DEF NoOrphan, Owner, DriverTyped
  <2>2. ASSUME NEW i \in DOMAIN commands, commands[i].op = "unwatch", commands[i].s = t PROVE Owner(t)'
    <3>1. i # 1
      BY <1>h, <1>m, <2>2
    <3> QED BY <1>m, <2>2, <3>1 DEF Owner
  <2> QED BY <1>b, <1>c, <1>d, <1>p, <2>1, <2>2 DEF Owner
<1>16. BacklogBounded'
  <2>1. InFlight' \subseteq InFlight \cup {s}
    BY <1>c DEF InFlight
  <2> QED BY <1>a, <1>1, <1>c, <1>d, <2>1, PressureKept DEF Starts
<1>17. CloseHonest'
  BY <1>a, <1>c, <1>d DEF CloseHonest, PhasesSound
<1> QED BY <1>1, <1>2, <1>3, <1>4, <1>5, <1>6, <1>7, <1>8, <1>9, <1>10, <1>11, <1>12, <1>13,
         <1>14, <1>15, <1>16, <1>17 DEF ScopesIInv, RootsSound, StreamsSound

\* A replacement of s starts in this mode.
Replaces(s, mode) ==
    /\ TakesOne("replace") /\ s = Cmd.s /\ teardown_pressure(d) < MAX_TEARDOWN_BACKLOG
    /\ s \in d.handles /\ s \notin DOMAIN d.replaces /\ mode \in {"meta", "spawning"}
    /\ DOMAIN d' = Fields
    /\ d'.replaces = Put(d.replaces, s, ReplaceState(Cmd.who, Cmd.path, mode))
    /\ d'.spawns = IF mode = "spawning" THEN d.spawns \cup {s} ELSE d.spawns
    /\ d'.scope_seq = d.scope_seq /\ d'.handles = d.handles /\ d'.lanes = d.lanes
    /\ d'.lane_of = d.lane_of /\ d'.downs = d.downs
    /\ d'.unproven = d.unproven /\ d'.deferred = d.deferred /\ d'.arms = d.arms
    /\ d'.watch_replies = d.watch_replies /\ d'.waiters = d.waiters
    /\ UNCHANGED <<reg, unwinds, front, running, dead>> /\ Ungated

\* A replacement starts, of a live scope that has none.
LEMMA ReplacesSafe ==
    ASSUME ScopesIInv, phase = "run", NEW s, NEW mode, Replaces(s, mode)
    PROVE  ScopesIInv'
<1>a. /\ DriverTyped /\ CallsTyped /\ HistoryTyped /\ PhasesSound /\ StagesSound /\ LanesSound
      /\ OwnersSound /\ AskersSound /\ PlacesSound /\ VerdictsSound /\ GrantsKept
      /\ LiveRootsDisjoint /\ RegistryHonest /\ EveryStreamHeld /\ NoOrphan /\ BacklogBounded
      /\ CloseHonest
  BY DEF ScopesIInv, RootsSound, StreamsSound
<1>b. /\ DOMAIN d' = Fields /\ d'.handles = d.handles /\ d'.lanes = d.lanes /\ d'.lane_of = d.lane_of
      /\ s \in Scope /\ s \in d.handles /\ s = Cmd.s /\ s \notin DOMAIN d.replaces
  BY <1>a DEF Replaces, DriverTyped
<1>c. /\ d'.downs = d.downs /\ d'.unproven = d.unproven /\ d'.deferred = d.deferred /\ d'.arms = d.arms
      /\ d'.watch_replies = d.watch_replies /\ d'.waiters = d.waiters /\ d'.scope_seq = d.scope_seq
      /\ d'.spawns = IF mode = "spawning" THEN d.spawns \cup {s} ELSE d.spawns
      /\ mode \in {"meta", "spawning"} /\ DOMAIN d'.replaces = DOMAIN d.replaces \cup {s}
      /\ \A t \in DOMAIN d'.replaces \ {s} : d'.replaces[t] = d.replaces[t]
      /\ DOMAIN d'.replaces[s] = {"who", "path", "mode", "root", "left"} /\ d'.replaces[s].who = Cmd.who
      /\ d'.replaces[s].path = Cmd.path /\ d'.replaces[s].mode = mode
  BY DEF Replaces, Put, ReplaceState
<1>d. UNCHANGED <<unwinds, held, released, phase, reported, dead, running, reg>> /\ phase = "run"
  BY DEF Replaces, front
<1>m. /\ commands' \in Seq(Message) /\ 1 \in DOMAIN commands /\ Cmd = commands[1] /\ Cmd \in Message
      /\ \A i \in DOMAIN commands' : i \in Nat /\ i + 1 \in DOMAIN commands /\ commands'[i] = commands[i + 1]
      /\ \A i \in DOMAIN commands' : \E j \in DOMAIN commands : j # 1 /\ commands'[i] = commands[j]
      /\ \A i \in DOMAIN commands : i # 1 => i - 1 \in DOMAIN commands' /\ commands'[i - 1] = commands[i]
  BY <1>a, Popped DEF Replaces, TakesOne
<1>h. Cmd.op = "replace"
  BY DEF Replaces, TakesOne
<1>f. ended' = ended
  BY <1>b DEF Replaces, Ungated
<1>g. calls' = calls
  BY DEF Replaces, TakesOne
<1>n. s \in held \cup released /\ s \notin DOMAIN d.deferred /\ s \notin d.spawns /\ s \in 1 .. d.scope_seq
  <2>1. s \in held \cup released
    BY <1>a, <1>b, <1>h, <1>m DEF AskersSound
  <2>2. s \notin DOMAIN d.deferred
    BY <1>a, <1>b, <1>d, <2>1 DEF OwnersSound
  <2> QED BY <1>a, <1>b, <1>d, <2>1, <2>2 DEF StagesSound
<1>p. /\ \A c \in Clients, t \in Scope : Grantee(c, t)' <=> Grantee(c, t)
      /\ \A t \in Scope : (Promised(t)' <=> Promised(t)) /\ (Discarded(t)' <=> Discarded(t))
  BY <1>d, <1>g DEF Grantee, Promised, Discarded
<1>1. DriverTyped'
  <2>1. d'.spawns \subseteq 1 .. d'.scope_seq
    BY <1>a, <1>b, <1>c, <1>n DEF DriverTyped
  <2>2. ASSUME NEW t \in DOMAIN d'.replaces
        PROVE  /\ t \in Scope /\ DOMAIN d'.replaces[t] = {"who", "path", "mode", "root", "left"}
               /\ d'.replaces[t].mode \in Modes
    BY ZenonT(40), <1>a, <1>b, <1>c DEF DriverTyped, Modes
  <2> QED BY <1>a, <1>b, <1>c, <2>1, <2>2 DEF DriverTyped
<1>2. CallsTyped'
  BY <1>a, <1>d, <1>g, <1>m DEF CallsTyped, Message
<1>3. HistoryTyped'
  BY <1>a, <1>b, <1>d DEF HistoryTyped, DriverTyped
<1>4. PhasesSound'
  BY <1>a, <1>b, <1>c, <1>d, <1>g DEF PhasesSound
<1>5. StagesSound'
  <2>1. DOMAIN d'.replaces \cup d'.handles \cup ended' \subseteq 1 .. d'.scope_seq
    BY <1>a, <1>b, <1>c, <1>d, <1>f, <1>n DEF StagesSound
  <2>2. DOMAIN d'.watch_replies = d'.spawns \ DOMAIN d'.replaces
    BY <1>a, <1>b, <1>c, <1>d, <1>f, <1>n DEF StagesSound
  <2>3. /\ DOMAIN d'.watch_replies \cap (d'.handles \cup ended') = {}
        /\ ended' \cap d'.handles = {}
    BY <1>a, <1>b, <1>c, <1>d, <1>f, <1>n DEF StagesSound
  <2>4. \A t \in d'.spawns \cap DOMAIN d'.replaces : d'.replaces[t].mode = "spawning"
    BY <1>a, <1>b, <1>c, <1>d, <1>f, <1>n DEF StagesSound
  <2>5. \A t \in DOMAIN d'.deferred :
              /\ t \in d'.handles /\ t \notin DOMAIN d'.replaces
              /\ [s |-> t, lane |-> d'.lanes[t]] \in d'.arms
    BY <1>a, <1>b, <1>c, <1>d, <1>f, <1>n DEF StagesSound
  <2> QED BY <2>1, <2>2, <2>3, <2>4, <2>5 DEF StagesSound
<1>6. LanesSound'
  BY <1>a, <1>b, <1>d DEF LanesSound, DriverTyped
<1>7. OwnersSound'
  <2>1. ASSUME NEW t \in Scope
        PROVE  /\ t \in held' \cup released' \cup DOMAIN d'.deferred \/ Promised(t)' \/ Discarded(t)' =>
                    t \in 1 .. d'.scope_seq /\ t \notin DOMAIN d'.watch_replies
               /\ t \in held' => t \notin released'
               /\ t \in DOMAIN d'.deferred => t \notin held' \cup released'
               /\ Promised(t)' => t \notin held' \cup released' \cup DOMAIN d'.deferred
               /\ Discarded(t)' => t \notin held' \cup DOMAIN d'.deferred /\ ~Promised(t)'
               /\ \A c, o \in Clients : Grantee(c, t)' /\ Grantee(o, t)' => c = o
    <3>1. \A c, o \in Clients : Grantee(c, t)' /\ Grantee(o, t)' => c = o
      BY <1>a, <1>d, <1>p DEF OwnersSound
    <3> QED BY <1>a, <1>c, <1>d, <1>p, <3>1 DEF OwnersSound
  <2>2. \A t \in DOMAIN d'.replaces : t \in held' \cup released'
    BY <1>a, <1>c, <1>d, <1>n DEF OwnersSound
  <2>3. \A t \in Scope : d'.waiters[t] # <<>> => t \in released' /\ t \notin d'.handles
    BY <1>a, <1>b, <1>c, <1>d DEF OwnersSound
  <2> QED BY <2>1, <2>2, <2>3 DEF OwnersSound
<1>8. AskersSound'
  BY <1>a, <1>g, <1>d, <1>m DEF AskersSound, CallsGo, Replied, Open
<1>9. PlacesSound'
  <2>1. /\ commands # <<>> /\ commands' = Tail(commands)
    BY DEF Replaces, TakesOne
  <2>2. \A t \in DOMAIN d'.replaces :
               \/ t \in DOMAIN d.replaces /\ d'.replaces[t].who = d.replaces[t].who
               \/ t = Cmd.s /\ Cmd.op = "replace" /\ d'.replaces[t].who = Cmd.who
    BY <1>b, <1>c, <1>h
  <2> QED BY <1>a, <1>c, <1>g, <2>1, <2>2, PlacesTaken
<1>10. VerdictsSound'
  <2> SUFFICES ASSUME NEW c \in Clients, calls[c] # Idle, calls[c].ans = Acked("torn") PROVE calls[c].s # s
    BY <1>a, <1>b, <1>c, <1>g DEF VerdictsSound
  <2> QED BY <1>a, <1>b DEF VerdictsSound
<1>11. GrantsKept'
  <2> SUFFICES ASSUME NEW t \in Scope, t \in held' \/ Promised(t)'
               PROVE  t \in d'.handles \/ \E l \in dead' : d'.lane_of[l] = t
    BY DEF GrantsKept
  <2> QED BY <1>a, <1>b, <1>d, <1>p DEF GrantsKept
<1>12. LiveRootsDisjoint'
  BY <1>a, <1>d DEF LiveRootsDisjoint
<1>13. RegistryHonest'
  <2>1. DOMAIN reg'.live = d'.handles
    BY <1>a, <1>b, <1>d DEF RegistryHonest
  <2> SUFFICES ASSUME NEW p \in DOMAIN reg'.pending PROVE Claimed(p)'
    BY <2>1 DEF RegistryHonest, Claimed
  <2>2. Claimed(p)
    BY <1>a, <1>d DEF RegistryHonest, Claimed
  <2>3. ASSUME NEW c \in Clients, calls[c] # Idle, calls[c].op = "watch", calls[c].path = p PROVE Claimed(p)'
    <3>1. calls'[c] # Idle /\ calls'[c].op = "watch" /\ calls'[c].path = p
      BY <1>g, <2>3
    <3> QED BY <3>1 DEF Claimed
  <2>4. ASSUME NEW i \in Queued("replace"), commands[i].path = p PROVE Claimed(p)'
    <3>1. CASE i = 1
      BY <1>b, <1>c, <1>m, <2>4, <3>1 DEF Claimed
    <3>2. CASE i # 1
      BY <1>m, <2>4, <3>2 DEF Claimed, Queued
    <3> QED BY <3>1, <3>2
  <2>5. ASSUME NEW t \in DOMAIN d.replaces, d.replaces[t].path = p PROVE Claimed(p)'
    BY <1>b, <1>c, <2>5 DEF Claimed
  <2> QED BY <2>2, <2>3, <2>4, <2>5 DEF Claimed
<1>14. EveryStreamHeld'
  <2>1. Arming' = Arming
    BY <1>b, <1>c DEF Arming
  <2> QED BY <1>a, <1>b, <1>c, <1>d, <2>1 DEF EveryStreamHeld
<1>15. NoOrphan'
  <2> SUFFICES ASSUME NEW t \in d'.handles PROVE Owner(t)'
    BY DEF NoOrphan, Owner
  <2>1. t \in Scope /\ Owner(t)
    BY <1>a, <1>b, <1>d DEF NoOrphan, Owner, DriverTyped
  <2>2. ASSUME NEW i \in DOMAIN commands, commands[i].op = "unwatch", commands[i].s = t PROVE Owner(t)'
    <3>1. i # 1
      BY <1>h, <1>m, <2>2
    <3> QED BY <1>m, <2>2, <3>1 DEF Owner
  <2> QED BY <1>b, <1>c, <1>d, <1>p, <2>1, <2>2 DEF Owner
<1>16. BacklogBounded'
  <2>1. InFlight' \subseteq InFlight \cup {s}
    BY <1>c DEF InFlight
  <2> QED BY <1>a, <1>1, <1>c, <1>d, <2>1, PressureKept DEF Replaces
<1>17. CloseHonest'
  BY <1>a, <1>c, <1>d DEF CloseHonest, PhasesSound
<1> QED BY <1>1, <1>2, <1>3, <1>4, <1>5, <1>6, <1>7, <1>8, <1>9, <1>10, <1>11, <1>12, <1>13,
         <1>14, <1>15, <1>16, <1>17 DEF ScopesIInv, RootsSound, StreamsSound

\* A waiter may be added for s, with verdict v.
Waits(s, who, v) ==
    /\ d'.waiters \in [Scope -> Seq(Waiter)]
    /\ \A t \in Scope \ {s} : d'.waiters[t] = d.waiters[t]
    /\ \A i \in DOMAIN d'.waiters[s] :
          \/ i \in DOMAIN d.waiters[s] /\ d'.waiters[s][i] = d.waiters[s][i]
          \/ d'.waiters[s][i] = [who |-> who, verdict |-> v]

\* A waiter is parked behind the others, with the verdict it was admitted with.
LEMMA ParkIs ==
    ASSUME DriverTyped, NEW s \in Scope, NEW who \in Whose, NEW verdict \in Verdicts
    PROVE  LET dr == Park(d, s, who, verdict)
           IN  /\ DOMAIN dr = Fields
               /\ \A x \in Fields \ {"waiters"} : dr[x] = d[x]
               /\ dr.waiters \in [Scope -> Seq(Waiter)]
               /\ \A t \in Scope \ {s} : dr.waiters[t] = d.waiters[t]
               /\ \A i \in DOMAIN dr.waiters[s] :
                     \/ i \in DOMAIN d.waiters[s] /\ dr.waiters[s][i] = d.waiters[s][i]
                     \/ dr.waiters[s][i] = [who |-> who, verdict |-> admitted_verdict(d, s, verdict)]
<1> DEFINE new == [who |-> who, verdict |-> admitted_verdict(d, s, verdict)]
<1>1. d.waiters \in [Scope -> Seq(Waiter)] /\ DOMAIN d = Fields /\ "waiters" \in Fields
  BY DEF DriverTyped, Fields
<1>2. CASE who = Gone
  BY <1>1, <1>2 DEF Park
<1>3. CASE who # Gone
  <2> DEFINE dr == [d EXCEPT !.waiters[s] = Append(@, new)]
  <2>1. Park(d, s, who, verdict) = dr
    BY <1>3 DEF Park
  <2>2. new \in Waiter
    BY DEF admitted_verdict, Waiter, Verdicts
  <2> HIDE DEF new
  <2>3. /\ Append(d.waiters[s], new) \in Seq(Waiter)
        /\ \A i \in DOMAIN Append(d.waiters[s], new) :
              \/ i \in DOMAIN d.waiters[s] /\ Append(d.waiters[s], new)[i] = d.waiters[s][i]
              \/ Append(d.waiters[s], new)[i] = new
    BY <1>1, <2>2
  <2>4. /\ DOMAIN dr = Fields /\ \A x \in Fields \ {"waiters"} : dr[x] = d[x]
        /\ dr.waiters = [d.waiters EXCEPT ![s] = Append(@, new)]
    BY <1>1
  <2> HIDE DEF dr
  <2>5. /\ dr.waiters \in [Scope -> Seq(Waiter)]
        /\ \A t \in Scope \ {s} : dr.waiters[t] = d.waiters[t]
        /\ dr.waiters[s] = Append(d.waiters[s], new)
    BY <1>1, <2>3, <2>4
  <2>6. \A i \in DOMAIN dr.waiters[s] :
           (i \in DOMAIN d.waiters[s] /\ dr.waiters[s][i] = d.waiters[s][i]) \/ dr.waiters[s][i] = new
    BY <2>3, <2>5
  <2> QED BY <2>1, <2>4, <2>5, <2>6 DEF new
<1> QED BY <1>2, <1>3

\* The command at hand waits for the scope to rest, with the verdict v.
Parks(s, v) ==
    /\ TakesOne("unwatch") /\ s = Cmd.s /\ s \notin d.handles /\ s \in Scope /\ v \in {"unknown", "unproven"}
    /\ DOMAIN d' = Fields /\ Waits(s, Cmd.who, v)
    /\ d'.scope_seq = d.scope_seq /\ d'.handles = d.handles /\ d'.lanes = d.lanes
    /\ d'.lane_of = d.lane_of /\ d'.downs = d.downs /\ d'.spawns = d.spawns
    /\ d'.unproven = d.unproven /\ d'.deferred = d.deferred /\ d'.arms = d.arms
    /\ d'.watch_replies = d.watch_replies /\ d'.replaces = d.replaces
    /\ UNCHANGED <<reg, unwinds, front, running, dead>> /\ Ungated

\* An unwatch waits for what its scope has in flight.
LEMMA ParksSafe ==
    ASSUME ScopesIInv, phase = "run", NEW s, NEW v, Parks(s, v)
    PROVE  ScopesIInv'
<1>a. /\ DriverTyped /\ CallsTyped /\ HistoryTyped /\ PhasesSound /\ StagesSound /\ LanesSound
      /\ OwnersSound /\ AskersSound /\ PlacesSound /\ VerdictsSound /\ GrantsKept
      /\ LiveRootsDisjoint /\ RegistryHonest /\ EveryStreamHeld /\ NoOrphan /\ BacklogBounded
      /\ CloseHonest
  BY DEF ScopesIInv, RootsSound, StreamsSound
<1>b. /\ DOMAIN d' = Fields /\ d'.handles = d.handles /\ d'.lanes = d.lanes /\ d'.lane_of = d.lane_of
      /\ s \in Scope /\ s \notin d.handles /\ s = Cmd.s
  BY DEF Parks
<1>c. /\ d'.downs = d.downs /\ d'.unproven = d.unproven /\ d'.deferred = d.deferred /\ d'.arms = d.arms
      /\ d'.watch_replies = d.watch_replies /\ d'.scope_seq = d.scope_seq
      /\ d'.spawns = d.spawns /\ d'.replaces = d.replaces
  BY DEF Parks
<1>x. Waits(s, Cmd.who, v) /\ v \in {"unknown", "unproven"}
  BY DEF Parks
<1>d. UNCHANGED <<unwinds, held, released, phase, reported, dead, running, reg>> /\ phase = "run"
  BY DEF Parks, front
<1>m. /\ commands' \in Seq(Message) /\ 1 \in DOMAIN commands /\ Cmd = commands[1] /\ Cmd \in Message
      /\ \A i \in DOMAIN commands' : i \in Nat /\ i + 1 \in DOMAIN commands /\ commands'[i] = commands[i + 1]
      /\ \A i \in DOMAIN commands' : \E j \in DOMAIN commands : j # 1 /\ commands'[i] = commands[j]
      /\ \A i \in DOMAIN commands : i # 1 => i - 1 \in DOMAIN commands' /\ commands'[i - 1] = commands[i]
  BY <1>a, Popped DEF Parks, TakesOne
<1>h. Cmd.op = "unwatch"
  BY DEF Parks, TakesOne
<1>f. ended' = ended
  BY <1>b DEF Parks, Ungated
<1>g. calls' = calls
  BY DEF Parks, TakesOne
<1>n. s \in released
  BY <1>a, <1>b, <1>h, <1>m DEF AskersSound
<1>p. /\ \A c \in Clients, t \in Scope : Grantee(c, t)' <=> Grantee(c, t)
      /\ \A t \in Scope : (Promised(t)' <=> Promised(t)) /\ (Discarded(t)' <=> Discarded(t))
  BY <1>d, <1>g DEF Grantee, Promised, Discarded
<1>1. DriverTyped'
  BY <1>a, <1>b, <1>c, <1>x DEF DriverTyped, StagesSound, Waits
<1>2. CallsTyped'
  BY <1>a, <1>d, <1>g, <1>m DEF CallsTyped, Message
<1>3. HistoryTyped'
  BY <1>a, <1>b, <1>d DEF HistoryTyped, DriverTyped
<1>4. PhasesSound'
  BY <1>a, <1>b, <1>c, <1>d, <1>g DEF PhasesSound
<1>5. StagesSound'
  <2>1. DOMAIN d'.replaces \cup d'.handles \cup ended' \subseteq 1 .. d'.scope_seq
    BY <1>a, <1>b, <1>c, <1>d, <1>f DEF StagesSound
  <2>2. DOMAIN d'.watch_replies = d'.spawns \ DOMAIN d'.replaces
    BY <1>a, <1>b, <1>c, <1>d, <1>f DEF StagesSound
  <2>3. /\ DOMAIN d'.watch_replies \cap (d'.handles \cup ended') = {}
        /\ ended' \cap d'.handles = {}
    BY <1>a, <1>b, <1>c, <1>d, <1>f DEF StagesSound
  <2>4. \A t \in d'.spawns \cap DOMAIN d'.replaces : d'.replaces[t].mode = "spawning"
    BY <1>a, <1>b, <1>c, <1>d, <1>f DEF StagesSound
  <2>5. \A t \in DOMAIN d'.deferred :
              /\ t \in d'.handles /\ t \notin DOMAIN d'.replaces
              /\ [s |-> t, lane |-> d'.lanes[t]] \in d'.arms
    BY <1>a, <1>b, <1>c, <1>d, <1>f DEF StagesSound
  <2> QED BY <2>1, <2>2, <2>3, <2>4, <2>5 DEF StagesSound
<1>6. LanesSound'
  BY <1>a, <1>b, <1>d DEF LanesSound, DriverTyped
<1>7. OwnersSound'
  <2>1. ASSUME NEW t \in Scope
        PROVE  /\ t \in held' \cup released' \cup DOMAIN d'.deferred \/ Promised(t)' \/ Discarded(t)' =>
                    t \in 1 .. d'.scope_seq /\ t \notin DOMAIN d'.watch_replies
               /\ t \in held' => t \notin released'
               /\ t \in DOMAIN d'.deferred => t \notin held' \cup released'
               /\ Promised(t)' => t \notin held' \cup released' \cup DOMAIN d'.deferred
               /\ Discarded(t)' => t \notin held' \cup DOMAIN d'.deferred /\ ~Promised(t)'
               /\ \A c, o \in Clients : Grantee(c, t)' /\ Grantee(o, t)' => c = o
    <3>1. \A c, o \in Clients : Grantee(c, t)' /\ Grantee(o, t)' => c = o
      BY <1>a, <1>d, <1>p DEF OwnersSound
    <3> QED BY <1>a, <1>c, <1>d, <1>p, <3>1 DEF OwnersSound
  <2>2. \A t \in DOMAIN d'.replaces : t \in held' \cup released'
    BY <1>a, <1>c, <1>d, <1>n DEF OwnersSound
  <2>3. \A t \in Scope : d'.waiters[t] # <<>> => t \in released' /\ t \notin d'.handles
    BY <1>a, <1>b, <1>c, <1>d, <1>n, <1>x DEF OwnersSound, Waits
  <2> QED BY <2>1, <2>2, <2>3 DEF OwnersSound
<1>8. AskersSound'
  BY <1>a, <1>g, <1>d, <1>m DEF AskersSound, CallsGo, Replied, Open
<1>9. PlacesSound'
  <2>1. /\ commands # <<>> /\ commands' = Tail(commands)
    BY DEF Parks, TakesOne
  <2>2. \A t \in Scope : \A i \in DOMAIN d'.waiters[t] :
               \/ i \in DOMAIN d.waiters[t] /\ d'.waiters[t][i].who = d.waiters[t][i].who
               \/ t = Cmd.s /\ Cmd.op = "unwatch" /\ d'.waiters[t][i].who = Cmd.who
    <3> SUFFICES ASSUME NEW t \in Scope, NEW i \in DOMAIN d'.waiters[t]
                 PROVE  \/ i \in DOMAIN d.waiters[t] /\ d'.waiters[t][i].who = d.waiters[t][i].who
                        \/ t = Cmd.s /\ Cmd.op = "unwatch" /\ d'.waiters[t][i].who = Cmd.who
      OBVIOUS
    <3>1. CASE t # s
      BY <1>b, <1>x, <3>1 DEF Waits
    <3>2. CASE t = s
      <4>1. \/ i \in DOMAIN d.waiters[s] /\ d'.waiters[s][i] = d.waiters[s][i]
            \/ d'.waiters[s][i] = [who |-> Cmd.who, verdict |-> v]
        BY <1>x, <3>2 DEF Waits
      <4>2. [who |-> Cmd.who, verdict |-> v].who = Cmd.who
        OBVIOUS
      <4> QED BY <1>b, <1>h, <3>2, <4>1, <4>2
    <3> QED BY <3>1, <3>2
  <2> QED BY <1>a, <1>c, <1>g, <2>1, <2>2, PlacesTaken
<1>10. VerdictsSound'
  <2>1. \A t \in Scope : \A i \in DOMAIN d'.waiters[t] :
           d'.waiters[t][i].verdict = "torn" => d'.unproven[t] = 0
    <3> SUFFICES ASSUME NEW t \in Scope, NEW i \in DOMAIN d'.waiters[t],
                        d'.waiters[t][i].verdict = "torn"
                 PROVE  d.unproven[t] = 0
      BY <1>c
    <3>1. i \in DOMAIN d.waiters[t] /\ d'.waiters[t][i] = d.waiters[t][i]
      <4>1. CASE t # s
        BY <1>b, <1>x, <4>1 DEF Waits
      <4>2. CASE t = s
        BY <1>x, <4>2 DEF Waits
      <4> QED BY <4>1, <4>2
    <3> QED BY <1>a, <3>1 DEF VerdictsSound
  <2> QED BY <1>a, <1>b, <1>c, <1>g, <2>1 DEF VerdictsSound
<1>11. GrantsKept'
  <2> SUFFICES ASSUME NEW t \in Scope, t \in held' \/ Promised(t)'
               PROVE  t \in d'.handles \/ \E l \in dead' : d'.lane_of[l] = t
    BY DEF GrantsKept
  <2> QED BY <1>a, <1>b, <1>d, <1>p DEF GrantsKept
<1>12. LiveRootsDisjoint'
  BY <1>a, <1>d DEF LiveRootsDisjoint
<1>13. RegistryHonest'
  <2>1. DOMAIN reg'.live = d'.handles
    BY <1>a, <1>b, <1>d DEF RegistryHonest
  <2> SUFFICES ASSUME NEW p \in DOMAIN reg'.pending PROVE Claimed(p)'
    BY <2>1 DEF RegistryHonest, Claimed
  <2>2. Claimed(p)
    BY <1>a, <1>d DEF RegistryHonest, Claimed
  <2>3. ASSUME NEW c \in Clients, calls[c] # Idle, calls[c].op = "watch", calls[c].path = p PROVE Claimed(p)'
    <3>1. calls'[c] # Idle /\ calls'[c].op = "watch" /\ calls'[c].path = p
      BY <1>g, <2>3
    <3> QED BY <3>1 DEF Claimed
  <2>4. ASSUME NEW i \in Queued("replace"), commands[i].path = p PROVE Claimed(p)'
    BY <1>h, <1>m, <2>4 DEF Claimed, Queued
  <2>5. ASSUME NEW t \in DOMAIN d.replaces, d.replaces[t].path = p PROVE Claimed(p)'
    BY <1>c, <2>5 DEF Claimed
  <2> QED BY <2>2, <2>3, <2>4, <2>5 DEF Claimed
<1>14. EveryStreamHeld'
  BY <1>a, <1>b, <1>c, <1>d DEF EveryStreamHeld, Arming, One, DriverTyped, HistoryTyped
<1>15. NoOrphan'
  <2> SUFFICES ASSUME NEW t \in d'.handles PROVE Owner(t)'
    BY DEF NoOrphan, Owner
  <2>1. t \in Scope /\ Owner(t) /\ t # s
    BY <1>a, <1>b, <1>d DEF NoOrphan, Owner, DriverTyped
  <2>2. ASSUME NEW i \in DOMAIN commands, commands[i].op = "unwatch", commands[i].s = t PROVE Owner(t)'
    <3>1. i # 1
      BY <1>b, <1>m, <2>1, <2>2
    <3> QED BY <1>m, <2>2, <3>1 DEF Owner
  <2> QED BY <1>b, <1>c, <1>d, <1>p, <2>1, <2>2 DEF Owner
<1>16. BacklogBounded'
  <2>1. ASSUME NEW t \in Scope PROVE Owed(t)' <= Owed(t)
    <3>1. /\ d.downs[t] \in Nat /\ d.unproven[t] \in Nat
      BY <1>a DEF DriverTyped
    <3> QED BY <1>c, <1>f, <3>1 DEF Owed, One, InFlight
  <2> QED BY <1>a, <1>1, <1>d, <2>1, BacklogKept
<1>17. CloseHonest'
  BY <1>a, <1>c, <1>d DEF CloseHonest, PhasesSound
<1> QED BY <1>1, <1>2, <1>3, <1>4, <1>5, <1>6, <1>7, <1>8, <1>9, <1>10, <1>11, <1>12, <1>13,
         <1>14, <1>15, <1>16, <1>17 DEF ScopesIInv, RootsSound, StreamsSound

-----------------------------------------------------------------------------
(* A reaper answers, or a spawn lands late: x streams more are with the    *)
(* reapers and y more were given up, and the scope may come to rest.       *)

\* The reapers settle x and y streams of s more, W is answered when done.
Settles(s, x, y, W, done) ==
    /\ DOMAIN d' = Fields
    /\ d'.scope_seq = d.scope_seq /\ d'.handles = d.handles /\ d'.lanes = d.lanes
    /\ d'.lane_of = d.lane_of /\ d'.deferred = d.deferred /\ d'.arms = d.arms
    /\ d'.watch_replies = d.watch_replies /\ d'.replaces = d.replaces
    /\ d'.spawns = d.spawns \/ (phase # "run" /\ d'.spawns = d.spawns \ {s})
    /\ x \in Int /\ y \in {0, 1} /\ d.downs[s] + x >= 0 /\ (phase = "run" => x + y <= 0)
    /\ d.downs[s] > 0 \/ s \in d.spawns
    /\ d'.downs = [d.downs EXCEPT ![s] = @ + x] /\ d'.unproven = [d.unproven EXCEPT ![s] = @ + y]
    /\ running' = [running EXCEPT ![s] = @ + (x + y)]
    /\ W \in Seq(Waiter) /\ DOMAIN W = DOMAIN d.waiters[s]
    /\ \A i \in DOMAIN W : /\ W[i].who = d.waiters[s][i].who
                           /\ W[i].verdict = "torn" => d'.unproven[s] = 0
    /\ d'.waiters = [d.waiters EXCEPT ![s] = IF done THEN <<>> ELSE W]
    /\ done => s \notin d'.handles \cup d'.spawns \cup DOMAIN d'.replaces /\ d'.downs[s] = 0
    /\ Settled(W, done, Gone, Refused("none"))
    /\ reported # 0
    /\ UNCHANGED <<reg, outside, dead>> /\ Ungated

\* A scope whose streams come to their end answers for them.
LEMMA SettlesSafe ==
    ASSUME ScopesIInv, NEW s \in Scope, NEW x, NEW y, NEW W, NEW done \in BOOLEAN,
           Settles(s, x, y, W, done)
    PROVE  ScopesIInv'
<1>a. /\ DriverTyped /\ CallsTyped /\ HistoryTyped /\ PhasesSound /\ StagesSound /\ LanesSound
      /\ OwnersSound /\ AskersSound /\ PlacesSound /\ VerdictsSound /\ GrantsKept
      /\ LiveRootsDisjoint /\ RegistryHonest /\ EveryStreamHeld /\ NoOrphan /\ BacklogBounded
      /\ CloseHonest
  BY DEF ScopesIInv, RootsSound, StreamsSound
<1>b. /\ DOMAIN d' = Fields /\ d'.handles = d.handles /\ d'.lanes = d.lanes /\ d'.lane_of = d.lane_of
  BY DEF Settles
<1>c. /\ d'.scope_seq = d.scope_seq /\ d'.deferred = d.deferred /\ d'.arms = d.arms
      /\ d'.watch_replies = d.watch_replies /\ d'.replaces = d.replaces
      /\ d'.spawns \subseteq d.spawns /\ (phase = "run" => d'.spawns = d.spawns)
      /\ d'.downs \in [Scope -> Nat] /\ d'.unproven \in [Scope -> Nat] /\ x \in Int /\ y \in Int
      /\ \A t \in Scope : d'.downs[t] = IF t = s THEN d.downs[t] + x ELSE d.downs[t]
      /\ \A t \in Scope : d'.unproven[t] = IF t = s THEN d.unproven[t] + y ELSE d.unproven[t]
  <2>1. /\ x \in Int /\ y \in {0, 1} /\ d.downs[s] + x >= 0 /\ d.downs \in [Scope -> Nat]
        /\ d.unproven \in [Scope -> Nat]
        /\ d'.downs = [d.downs EXCEPT ![s] = @ + x] /\ d'.unproven = [d.unproven EXCEPT ![s] = @ + y]
    BY <1>a DEF Settles, DriverTyped
  <2>2. d.downs[s] + x \in Nat /\ d.unproven[s] + y \in Nat
    BY <2>1
  <2>3. d'.downs \in [Scope -> Nat] /\ d'.unproven \in [Scope -> Nat]
    BY <2>1, <2>2
  <2>4. /\ \A t \in Scope : d'.downs[t] = IF t = s THEN d.downs[t] + x ELSE d.downs[t]
        /\ \A t \in Scope : d'.unproven[t] = IF t = s THEN d.unproven[t] + y ELSE d.unproven[t]
    BY <2>1
  <2> QED BY <2>1, <2>3, <2>4 DEF Settles
<1>d. UNCHANGED <<commands, unwinds, held, released, phase, reported, dead>> /\ reported # 0
  BY DEF Settles, outside, front
<1>h. /\ W \in Seq(Waiter) /\ DOMAIN W = DOMAIN d.waiters[s]
      /\ \A i \in DOMAIN W : W[i] \in Waiter /\ W[i].verdict \in Verdicts
      /\ \A i \in DOMAIN W : W[i].who = d.waiters[s][i].who /\ (W[i].verdict = "torn" => d'.unproven[s] = 0)
      /\ d'.waiters = [d.waiters EXCEPT ![s] = IF done THEN <<>> ELSE W]
      /\ Settled(W, done, Gone, Refused("none"))
      /\ done => s \notin d'.handles \cup d'.spawns \cup DOMAIN d'.replaces /\ d'.downs[s] = 0
  <2>1. W \in Seq(Waiter)
    BY DEF Settles
  <2>2. \A i \in DOMAIN W : W[i] \in Waiter
    BY <2>1
  <2>3. \A i \in DOMAIN W : W[i].verdict \in Verdicts
    BY <2>2 DEF Waiter, Verdicts
  <2> QED BY <2>1, <2>2, <2>3 DEF Settles
<1>w. /\ d'.waiters \in [Scope -> Seq(Waiter)]
      /\ \A t \in Scope : d'.waiters[t] = IF t # s THEN d.waiters[t] ELSE IF done THEN <<>> ELSE W
      /\ \A t \in Scope : \A i \in DOMAIN d'.waiters[t] :
            i \in DOMAIN d.waiters[t] /\ d'.waiters[t][i].who = d.waiters[t][i].who
      /\ \A t \in Scope : \A i \in DOMAIN d'.waiters[t] :
            d'.waiters[t][i].verdict = "torn" => d'.unproven[t] = 0
      /\ \A t \in Scope : d.waiters[t] = <<>> => d'.waiters[t] = <<>>
  <2>1. d.waiters \in [Scope -> Seq(Waiter)] /\ <<>> \in Seq(Waiter) /\ DOMAIN <<>> = {}
    BY <1>a DEF DriverTyped
  <2>2. /\ d'.waiters \in [Scope -> Seq(Waiter)]
        /\ \A t \in Scope : d'.waiters[t] = IF t # s THEN d.waiters[t] ELSE IF done THEN <<>> ELSE W
    BY <1>h, <2>1
  <2>3. \A t \in Scope : \A i \in DOMAIN d'.waiters[t] :
           i \in DOMAIN d.waiters[t] /\ d'.waiters[t][i].who = d.waiters[t][i].who
    BY <1>h, <2>1, <2>2
  <2>4. ASSUME NEW t \in Scope, NEW i \in DOMAIN d'.waiters[t], d'.waiters[t][i].verdict = "torn"
        PROVE  d'.unproven[t] = 0
    <3>1. CASE t = s
      BY <1>h, <2>1, <2>2, <2>4, <3>1
    <3>2. CASE t # s
      BY <1>a, <1>c, <2>2, <2>4, <3>2 DEF VerdictsSound
    <3> QED BY <3>1, <3>2
  <2>5. ASSUME NEW t \in Scope, d.waiters[t] = <<>> PROVE d'.waiters[t] = <<>>
    <3>1. d'.waiters[t] \in Seq(Waiter) /\ DOMAIN d'.waiters[t] = {}
      BY <2>1, <2>2, <2>3, <2>5
    <3> QED BY <3>1
  <2> QED BY <2>2, <2>3, <2>4, <2>5
<1>e. reg' = reg /\ running' = [running EXCEPT ![s] = @ + (x + y)]
  BY DEF Settles
<1>f. ended' = ended
  BY <1>b DEF Settles, Ungated
<1>t. /\ d.downs[s] > 0 \/ s \in d.spawns
      /\ phase = "run" => x + y <= 0
  BY DEF Settles
<1>g. CallsGo({"err"} \cup Verdicts)
  <2>1. \A i \in DOMAIN W : W[i].verdict \in {"err"} \cup Verdicts
    BY <1>h
  <2>2. Refused("none").k \in {"err"} \cup Verdicts
    BY DEF Refused
  <2> QED BY <1>h, <2>1, <2>2, SettledGo
<1>p. /\ \A c \in Clients, t \in Scope : Grantee(c, t)' <=> Grantee(c, t)
      /\ \A t \in Scope : (Promised(t)' <=> Promised(t)) /\ (Discarded(t)' <=> Discarded(t))
  <2>1. "grant" \notin {"err"} \cup Verdicts
    BY DEF Verdicts
  <2> QED BY <1>d, <1>g, <2>1, GrantsStand
<1>1. DriverTyped'
  BY <1>a, <1>b, <1>c, <1>w DEF DriverTyped, StagesSound
<1>2. CallsTyped'
  <2>1. /\ commands' \in Seq([op : Calls, who : Whose, path : Where, s : Scope \cup {0}, awaited : BOOLEAN])
        /\ unwinds' \in Seq(Scope) /\ held' \subseteq Scope /\ released' \subseteq Scope
    BY <1>a, <1>d DEF CallsTyped, Message
  <2>2. DOMAIN calls' = Clients
    BY <1>g DEF CallsGo
  <2>3. ASSUME NEW c \in Clients, calls'[c] # Idle
        PROVE  /\ DOMAIN calls'[c] = {"op", "path", "s", "ans"} /\ calls'[c].op \in Calls
               /\ calls'[c].ans.k = "grant" =>
                     calls'[c].ans.s \in Scope /\ calls'[c].ans = Granted(calls'[c].ans.s)
    <3>1. CASE calls'[c] = calls[c]
      BY <1>a, <2>3, <3>1 DEF CallsTyped
    <3>2. CASE Replied(c, calls'[c].ans) /\ calls'[c].ans.k \in {"err"} \cup Verdicts
      BY <1>a, <2>3, <3>2 DEF CallsTyped, Replied, Open, Verdicts
    <3> QED BY <1>g, <3>1, <3>2 DEF CallsGo
  <2> QED BY <2>1, <2>2, <2>3 DEF CallsTyped
<1>3. HistoryTyped'
  <2>1. running \in [Scope -> Int] /\ running' = [running EXCEPT ![s] = @ + (x + y)] /\ x + y \in Int
    BY <1>a, <1>c, <1>e DEF HistoryTyped
  <2>2. running' \in [Scope -> Int]
    BY <2>1
  <2> QED BY <1>a, <1>b, <1>d, <1>e, <2>2 DEF HistoryTyped
<1>4. PhasesSound'
  <2>1. ASSUME NEW c \in Clients, calls'[c] # Idle, calls'[c].ans = Acked("closed") PROVE phase # "run"
    <3>1. Acked("closed").k = "closed" /\ "closed" \notin {"err"} \cup Verdicts
      BY DEF Acked, Verdicts
    <3>2. calls'[c] = calls[c]
      BY <1>g, <2>1, <3>1 DEF CallsGo
    <3> QED BY <1>a, <2>1, <3>2 DEF PhasesSound
  <2> QED BY <1>a, <1>b, <1>c, <1>d, <1>w, <2>1 DEF PhasesSound
<1>5. StagesSound'
  <2> SUFFICES ASSUME phase = "run" PROVE StagesSound'
    BY <1>d DEF StagesSound
  <2>1. DOMAIN d'.replaces \cup d'.handles \cup ended' \subseteq 1 .. d'.scope_seq
    BY <1>a, <1>b, <1>c, <1>d, <1>f DEF StagesSound
  <2>2. DOMAIN d'.watch_replies = d'.spawns \ DOMAIN d'.replaces
    BY <1>a, <1>b, <1>c, <1>d, <1>f DEF StagesSound
  <2>3. /\ DOMAIN d'.watch_replies \cap (d'.handles \cup ended') = {}
        /\ ended' \cap d'.handles = {}
    BY <1>a, <1>b, <1>c, <1>d, <1>f DEF StagesSound
  <2>4. \A t \in d'.spawns \cap DOMAIN d'.replaces : d'.replaces[t].mode = "spawning"
    BY <1>a, <1>b, <1>c, <1>d, <1>f DEF StagesSound
  <2>5. \A t \in DOMAIN d'.deferred :
              /\ t \in d'.handles /\ t \notin DOMAIN d'.replaces
              /\ [s |-> t, lane |-> d'.lanes[t]] \in d'.arms
    BY <1>a, <1>b, <1>c, <1>d, <1>f DEF StagesSound
  <2> QED BY <2>1, <2>2, <2>3, <2>4, <2>5 DEF StagesSound
<1>6. LanesSound'
  BY <1>a, <1>b, <1>d DEF LanesSound, DriverTyped
<1>7. OwnersSound'
  <2> SUFFICES ASSUME phase = "run" PROVE OwnersSound'
    BY <1>d DEF OwnersSound
  <2>1. ASSUME NEW t \in Scope
        PROVE  /\ t \in held' \cup released' \cup DOMAIN d'.deferred \/ Promised(t)' \/ Discarded(t)' =>
                    t \in 1 .. d'.scope_seq /\ t \notin DOMAIN d'.watch_replies
               /\ t \in held' => t \notin released'
               /\ t \in DOMAIN d'.deferred => t \notin held' \cup released'
               /\ Promised(t)' => t \notin held' \cup released' \cup DOMAIN d'.deferred
               /\ Discarded(t)' => t \notin held' \cup DOMAIN d'.deferred /\ ~Promised(t)'
               /\ \A c, o \in Clients : Grantee(c, t)' /\ Grantee(o, t)' => c = o
    BY <1>a, <1>c, <1>d, <1>p DEF OwnersSound
  <2>2. \A t \in DOMAIN d'.replaces : t \in held' \cup released'
    BY <1>a, <1>c, <1>d DEF OwnersSound
  <2>3. \A t \in Scope : d'.waiters[t] # <<>> => t \in released' /\ t \notin d'.handles
    BY <1>a, <1>b, <1>d, <1>w DEF OwnersSound
  <2> QED BY <2>1, <2>2, <2>3 DEF OwnersSound
<1>8. AskersSound'
  BY <1>a, <1>g, <1>d DEF AskersSound, CallsGo, Replied, Verdicts, Open
<1>9. PlacesSound'
  <2>2. ASSUME NEW c \in Clients, Placed(c)' PROVE calls'[c] = calls[c]
    <3>1. c # Gone
      BY FsScopesAssumption
    <3>2. ASSUME done, NEW i \in DOMAIN W, W[i].who = c PROVE FALSE
      <4>0. i \in DOMAIN d.waiters[s] /\ d.waiters[s][i].who = c
        BY <1>h, <3>2
      <4>1. \A t \in Scope : \A j \in DOMAIN d'.waiters[t] : d'.waiters[t][j].who # c
        BY <1>a, <1>w, <3>2, <4>0, AtOnePlace
      <4> QED BY <1>a, <1>b, <1>c, <1>d, <2>2, <4>0, <4>1, AtOnePlace DEF Placed, InDriver
    <3> QED BY <1>h, <3>1, <3>2 DEF Settled
  <2>3. \A i \in DOMAIN commands' :
           i \in Nat /\ i + 0 \in DOMAIN commands /\ commands'[i] = commands[i + 0]
    BY <1>a, <1>d DEF CallsTyped
  <2>4. \A t \in Scope : \A i \in DOMAIN d'.waiters[t] :
           i \in DOMAIN d.waiters[t] /\ d'.waiters[t][i].who = d.waiters[t][i].who
    BY <1>w
  <2> QED BY <1>a, <1>c, <2>2, <2>3, <2>4, PlacesKept
<1>10. VerdictsSound'
  <2>1. Refused("none").k # "torn" /\ Settled(W, done, Gone, Refused("none"))
    BY <1>h DEF Refused
  <2>2. \A t \in Scope : \A i \in DOMAIN d'.waiters[t] :
           d'.waiters[t][i].verdict = "torn" => d'.unproven[t] = 0
    BY <1>w
  <2>4. \A t \in Scope :
           t \notin d.handles \cup d.spawns \cup DOMAIN d.replaces /\ d.downs[t] = 0 /\ d.unproven[t] = 0
           => /\ t \notin d'.handles \cup d'.spawns \cup DOMAIN d'.replaces
              /\ d'.downs[t] = 0 /\ d'.unproven[t] = 0
    <3> SUFFICES ASSUME NEW t \in Scope, t \notin d.handles \cup d.spawns \cup DOMAIN d.replaces,
                        d.downs[t] = 0, d.unproven[t] = 0
                 PROVE  /\ t \notin d'.handles \cup d'.spawns \cup DOMAIN d'.replaces
                        /\ d'.downs[t] = 0 /\ d'.unproven[t] = 0
      OBVIOUS
    <3>1. t # s
      BY <1>t
    <3> QED BY <1>b, <1>c, <3>1
  <2>7. \A i \in DOMAIN W : i \in DOMAIN d.waiters[s] /\ W[i].who = d.waiters[s][i].who
    BY <1>h
  <2>8. \A c \in Clients : calls'[c].ans = Acked("torn") =>
               \/ calls'[c] = calls[c]
               \/ /\ done /\ calls'[c].s = s /\ calls'[c].op = "unwatch"
                  /\ \E i \in DOMAIN W : W[i].verdict = "torn"
    BY <1>a, <2>1, <2>7, ToldOf
  <2>9. \A c \in Clients : calls'[c].ans = Acked("torn") =>
               \/ calls'[c] = calls[c]
               \/ done /\ calls'[c].s = s /\ calls'[c].op = "unwatch" /\ d'.unproven[s] = 0
    BY <1>h, <2>8
  <2>10. done => s \notin d'.handles \cup d'.spawns \cup DOMAIN d'.replaces /\ d'.downs[s] = 0
    BY <1>h
  <2> QED BY <1>a, <2>2, <2>4, <2>9, <2>10, VerdictsKept
<1>11. GrantsKept'
  <2> SUFFICES ASSUME phase' = "run", NEW t \in Scope, t \in held' \/ Promised(t)'
               PROVE  t \in d'.handles \/ \E l \in dead' : d'.lane_of[l] = t
    BY DEF GrantsKept
  <2> QED BY <1>a, <1>b, <1>d, <1>p DEF GrantsKept
<1>12. LiveRootsDisjoint'
  BY <1>a, <1>e DEF LiveRootsDisjoint
<1>13. RegistryHonest'
  <2>1. phase' = "run" => DOMAIN reg'.live = d'.handles
    BY <1>a, <1>b, <1>d, <1>e DEF RegistryHonest
  <2> SUFFICES ASSUME NEW p \in DOMAIN reg'.pending PROVE Claimed(p)'
    BY <2>1 DEF RegistryHonest, Claimed
  <2>2. Claimed(p)
    BY <1>a, <1>e DEF RegistryHonest, Claimed
  <2>3. ASSUME NEW c \in Clients, calls[c] # Idle, calls[c].op = "watch", calls[c].path = p PROVE Claimed(p)'
    <3>1. calls'[c] # Idle /\ calls'[c].op = "watch" /\ calls'[c].path = p
      BY <1>g, <2>3 DEF CallsGo, Replied
    <3> QED BY <3>1 DEF Claimed
  <2>4. ASSUME NEW i \in Queued("replace"), commands[i].path = p PROVE Claimed(p)'
    BY <1>a, <1>d, <2>4 DEF Claimed, Queued
  <2>5. ASSUME NEW t \in DOMAIN d.replaces, d.replaces[t].path = p PROVE Claimed(p)'
    BY <1>c, <2>5 DEF Claimed
  <2> QED BY <2>2, <2>3, <2>4, <2>5 DEF Claimed
<1>14. EveryStreamHeld'
  <2> SUFFICES ASSUME NEW t \in Scope
               PROVE  running'[t] = One(t \in d'.handles) + One(t \in Arming') + d'.downs[t] + d'.unproven[t]
    BY DEF EveryStreamHeld
  <2>1. /\ running[t] = One(t \in d.handles) + One(t \in Arming) + d.downs[t] + d.unproven[t]
        /\ running[t] \in Int /\ d.downs[t] \in Nat /\ d.unproven[t] \in Nat
        /\ One(t \in d.handles) \in Int /\ One(t \in Arming) \in Int
    BY <1>a, HeldAt
  <2>2. One(t \in d'.handles) = One(t \in d.handles) /\ One(t \in Arming') = One(t \in Arming)
    BY <1>b, <1>c DEF Arming
  <2>3. running'[t] = running[t] + (IF t = s THEN x + y ELSE 0)
    BY <1>a, <1>c, <1>e DEF HistoryTyped
  <2> QED BY <1>c, <2>1, <2>2, <2>3
<1>15. NoOrphan'
  <2> SUFFICES ASSUME phase = "run", NEW t \in d'.handles PROVE Owner(t)'
    BY <1>d DEF NoOrphan, Owner
  <2>1. t \in Scope /\ Owner(t) /\ d'.lanes[t] = d.lanes[t]
    BY <1>a, <1>b, <1>d DEF NoOrphan, Owner, DriverTyped
  <2> QED BY <1>c, <1>d, <1>p, <2>1 DEF Owner
<1>16. BacklogBounded'
  <2> SUFFICES ASSUME phase = "run" PROVE BacklogBounded'
    BY <1>d DEF BacklogBounded
  <2>1. ASSUME NEW t \in Scope PROVE Owed(t)' <= Owed(t)
    <3>1. /\ d.downs[t] \in Nat /\ d.unproven[t] \in Nat
      BY <1>a DEF DriverTyped
    <3>2. d'.downs[t] + d'.unproven[t] <= d.downs[t] + d.unproven[t] /\ InFlight' = InFlight
      BY <1>c, <1>t, <3>1 DEF InFlight
    <3>3. d'.downs[t] \in Int /\ d'.unproven[t] \in Int
      BY <1>c
    <3> QED BY <1>f, <3>1, <3>2, <3>3 DEF Owed, One
  <2> QED BY <1>a, <1>1, <1>d, <2>1, BacklogKept
<1>17. CloseHonest'
  BY <1>a, <1>c, <1>d, <1>e DEF CloseHonest, PhasesSound
<1> QED BY <1>1, <1>2, <1>3, <1>4, <1>5, <1>6, <1>7, <1>8, <1>9, <1>10, <1>11, <1>12, <1>13,
         <1>14, <1>15, <1>16, <1>17 DEF ScopesIInv, RootsSound, StreamsSound

-----------------------------------------------------------------------------
(* The driver closes, replies, or is dropped where it stands.              *)

\* Callers that are told of the end were waiting for it.
LEMMA ClosedGo ==
    ASSUME CallsTyped, NEW S, \A c \in Clients : c \in S => Open(c), calls' = ClosedTo(calls, S)
    PROVE  CallsGo({"closed"}) /\ \A c \in Clients : c \notin S => calls'[c] = calls[c]
<1>1. ASSUME NEW c \in Clients, c \in S
      PROVE  Replied(c, calls'[c].ans) /\ calls'[c].ans = Acked("closed")
  <2>1. calls'[c] = [calls[c] EXCEPT !.ans = Acked("closed")]
    BY <1>1 DEF ClosedTo
  <2>2. Open(c) /\ calls[c] # Idle /\ DOMAIN calls[c] = {"op", "path", "s", "ans"} /\ calls[c].op \in Calls
    BY <1>1 DEF CallsTyped, Open
  <2> QED BY <2>1, <2>2 DEF Replied, Idle, Calls
<1>2. Acked("closed").k = "closed"
  BY DEF Acked
<1>3. DOMAIN calls' = Clients /\ \A c \in Clients : c \notin S => calls'[c] = calls[c]
  BY DEF ClosedTo
<1> QED BY <1>1, <1>2, <1>3 DEF CallsGo

\* Every stream the driver holds goes to the reapers, and every replacement ends.
LetsGo(downs) ==
    downs = [s \in Scope |-> d.downs[s] + One(s \in d.handles) + One(s \in Arming)]

\* What a driver lets go of is with the reapers afterwards.
LEMMA LetGo ==
    ASSUME ScopesIInv, NEW downs, LetsGo(downs)
    PROVE  /\ downs \in [Scope -> Nat]
           /\ \A s \in Scope : running[s] = downs[s] + d.unproven[s]
           /\ \A s \in Scope : s \notin d.handles \cup DOMAIN d.replaces => downs[s] = d.downs[s]
<1>1. \A s \in Scope : /\ One(s \in d.handles) \in Nat /\ One(s \in Arming) \in Nat
                       /\ s \notin d.handles => One(s \in d.handles) = 0
                       /\ s \notin Arming => One(s \in Arming) = 0
  BY DEF One
<1>2. d.downs \in [Scope -> Nat] /\ d.unproven \in [Scope -> Nat]
  BY DEF ScopesIInv, DriverTyped
<1>3. Arming \subseteq DOMAIN d.replaces
  BY DEF Arming
<1>4. \A s \in Scope : running[s] = One(s \in d.handles) + One(s \in Arming) + d.downs[s] + d.unproven[s]
  BY DEF ScopesIInv, StreamsSound, EveryStreamHeld
<1> QED BY <1>1, <1>2, <1>3, <1>4 DEF LetsGo

\* The driver leaves its loop.
Closing ==
    /\ commands # <<>> /\ commands' = Tail(commands) /\ Cmd.op = "close" /\ phase' = "closing"
    /\ DOMAIN d' = Fields
    /\ d'.handles = {} /\ DOMAIN d'.replaces = {} /\ LetsGo(d'.downs)
    /\ d'.scope_seq = d.scope_seq /\ d'.lanes = d.lanes /\ d'.lane_of = d.lane_of /\ d'.spawns = d.spawns
    /\ d'.unproven = d.unproven /\ d'.watch_replies = d.watch_replies /\ d'.deferred = d.deferred
    /\ d'.arms = d.arms /\ d'.waiters = d.waiters
    /\ DOMAIN reg' = {"live", "pending"} /\ DOMAIN reg'.live = {}
    /\ reg'.pending = Drop(reg.pending, {d.replaces[s].path : s \in DOMAIN d.replaces})
    /\ calls' = ClosedTo(calls, {d.replaces[s].who : s \in DOMAIN d.replaces} \ {Gone})
    /\ UNCHANGED <<unwinds, held, released, reported, running, dead>>

\* A close retires every stream, and refuses every replacement.
LEMMA ClosingSafe ==
    ASSUME ScopesIInv, phase = "run", Closing
    PROVE  ScopesIInv'
<1>a. /\ DriverTyped /\ CallsTyped /\ HistoryTyped /\ PhasesSound /\ StagesSound /\ LanesSound
      /\ OwnersSound /\ AskersSound /\ PlacesSound /\ VerdictsSound /\ GrantsKept
      /\ LiveRootsDisjoint /\ RegistryHonest /\ EveryStreamHeld /\ NoOrphan /\ BacklogBounded
      /\ CloseHonest
  BY DEF ScopesIInv, RootsSound, StreamsSound
<1>b. /\ DOMAIN d' = Fields /\ d'.handles = {} /\ d'.lane_of = d.lane_of
  BY DEF Closing
<1>c. /\ DOMAIN d'.replaces = {} /\ LetsGo(d'.downs) /\ d'.scope_seq = d.scope_seq /\ d'.spawns = d.spawns
      /\ d'.unproven = d.unproven /\ d'.watch_replies = d.watch_replies /\ d'.deferred = d.deferred
      /\ d'.arms = d.arms /\ d'.waiters = d.waiters
      /\ d'.downs \in [Scope -> Nat]
      /\ \A t \in Scope : t \notin d.handles \cup DOMAIN d.replaces => d'.downs[t] = d.downs[t]
  BY LetGo DEF Closing
<1>d. UNCHANGED <<unwinds, held, released, reported, dead>> /\ phase' = "closing"
  BY DEF Closing
<1>m. /\ commands' \in Seq(Message) /\ 1 \in DOMAIN commands /\ Cmd = commands[1] /\ Cmd \in Message
      /\ \A i \in DOMAIN commands' : i \in Nat /\ i + 1 \in DOMAIN commands /\ commands'[i] = commands[i + 1]
      /\ \A i \in DOMAIN commands' : \E j \in DOMAIN commands : j # 1 /\ commands'[i] = commands[j]
      /\ \A i \in DOMAIN commands : i # 1 => i - 1 \in DOMAIN commands' /\ commands'[i - 1] = commands[i]
      /\ Cmd.op = "close"
  BY <1>a, Popped DEF Closing
<1>e. /\ running' = running
      /\ DOMAIN reg' = {"live", "pending"} /\ DOMAIN reg'.live = {}
      /\ reg'.pending = Drop(reg.pending, {d.replaces[s].path : s \in DOMAIN d.replaces})
  BY DEF Closing
<1>g. /\ CallsGo({"closed"})
      /\ \A c \in Clients : (\A s \in DOMAIN d.replaces : d.replaces[s].who # c) => calls'[c] = calls[c]
  <2> DEFINE S == {d.replaces[s].who : s \in DOMAIN d.replaces} \ {Gone}
  <2>1. \A c \in Clients : c \in S => Open(c)
    BY <1>a DEF PlacesSound
  <2>2. calls' = ClosedTo(calls, S)
    BY DEF Closing
  <2>3. \A c \in Clients : (\A s \in DOMAIN d.replaces : d.replaces[s].who # c) => c \notin S
    OBVIOUS
  <2> HIDE DEF S
  <2> QED BY <1>a, <2>1, <2>2, <2>3, ClosedGo
<1>1. DriverTyped'
  BY <1>a, <1>b, <1>c DEF DriverTyped, StagesSound
<1>2. CallsTyped'
  <2>1. /\ commands' \in Seq([op : Calls, who : Whose, path : Where, s : Scope \cup {0}, awaited : BOOLEAN])
        /\ unwinds' \in Seq(Scope) /\ held' \subseteq Scope /\ released' \subseteq Scope
    BY <1>a, <1>d, <1>m DEF CallsTyped, Message
  <2>2. DOMAIN calls' = Clients
    BY <1>g DEF CallsGo
  <2>3. ASSUME NEW c \in Clients, calls'[c] # Idle
        PROVE  /\ DOMAIN calls'[c] = {"op", "path", "s", "ans"} /\ calls'[c].op \in Calls
               /\ calls'[c].ans.k = "grant" =>
                     calls'[c].ans.s \in Scope /\ calls'[c].ans = Granted(calls'[c].ans.s)
    <3>1. CASE calls'[c] = calls[c]
      BY <1>a, <2>3, <3>1 DEF CallsTyped
    <3>2. CASE Replied(c, calls'[c].ans) /\ calls'[c].ans.k \in {"closed"}
      BY <1>a, <2>3, <3>2 DEF CallsTyped, Replied, Open
    <3> QED BY <1>g, <3>1, <3>2 DEF CallsGo
  <2> QED BY <2>1, <2>2, <2>3 DEF CallsTyped
<1>3. HistoryTyped'
  BY <1>a, <1>b, <1>d, <1>e DEF HistoryTyped
<1>4. PhasesSound'
  BY <1>a, <1>b, <1>c, <1>d DEF PhasesSound
<1>5. StagesSound'
  BY <1>d DEF StagesSound
<1>6. LanesSound'
  BY <1>d DEF LanesSound
<1>7. OwnersSound'
  BY <1>d DEF OwnersSound
<1>8. AskersSound'
  BY <1>a, <1>g, <1>d, <1>m DEF AskersSound, CallsGo, Replied, Open
<1>9. PlacesSound'
  <2>1. ASSUME NEW c \in Clients, Placed(c)' PROVE calls'[c] = calls[c]
    <3> SUFFICES ASSUME NEW s \in DOMAIN d.replaces, d.replaces[s].who = c PROVE FALSE
      BY <1>g
    <3>1. s \in Scope
      BY <1>a DEF DriverTyped
    <3>2. \A i \in DOMAIN commands' : commands'[i].who # c
      BY <1>a, <1>m, <3>1, AtOnePlace
    <3> QED BY <1>a, <1>c, <2>1, <3>1, <3>2, AtOnePlace DEF Placed, InDriver
  <2>2. \A i \in DOMAIN commands' :
           i \in Nat /\ i + 1 \in DOMAIN commands /\ commands'[i] = commands[i + 1]
    BY <1>m
  <2> QED BY <1>a, <1>c, <2>1, <2>2, PlacesKept
<1>10. VerdictsSound'
  <2>1. \A c \in Clients : calls'[c].ans = Acked("torn") => calls'[c] = calls[c]
    BY <1>g DEF CallsGo, Acked
  <2>2. \A t \in Scope :
           t \notin d.handles \cup d.spawns \cup DOMAIN d.replaces /\ d.downs[t] = 0 /\ d.unproven[t] = 0
           => /\ t \notin d'.handles \cup d'.spawns \cup DOMAIN d'.replaces
              /\ d'.downs[t] = 0 /\ d'.unproven[t] = 0
    BY <1>b, <1>c
  <2>3. \A t \in Scope : \A i \in DOMAIN d'.waiters[t] :
           d'.waiters[t][i].verdict = "torn" => d'.unproven[t] = 0
    BY <1>a, <1>c DEF VerdictsSound
  <2>4. 1 \in Scope
    BY FsScopesAssumption DEF Scope
  <2> QED BY <1>a, <2>1, <2>2, <2>3, <2>4, VerdictsKept
<1>11. GrantsKept'
  BY <1>d DEF GrantsKept
<1>12. LiveRootsDisjoint'
  BY <1>e DEF LiveRootsDisjoint
<1>13. RegistryHonest'
  <2> SUFFICES ASSUME NEW p \in DOMAIN reg'.pending PROVE Claimed(p)'
    BY <1>d DEF RegistryHonest, Claimed
  <2>1. p \in DOMAIN reg.pending /\ \A t \in DOMAIN d.replaces : d.replaces[t].path # p
    BY <1>e DEF Drop
  <2>2. Claimed(p)
    BY <1>a, <2>1 DEF RegistryHonest, Claimed
  <2>3. ASSUME NEW c \in Clients, calls[c] # Idle, calls[c].op = "watch", calls[c].path = p PROVE Claimed(p)'
    <3>1. calls'[c] # Idle /\ calls'[c].op = "watch" /\ calls'[c].path = p
      BY <1>g, <2>3 DEF CallsGo, Replied
    <3> QED BY <3>1 DEF Claimed
  <2>4. ASSUME NEW i \in Queued("replace"), commands[i].path = p PROVE Claimed(p)'
    BY <1>m, <2>4 DEF Claimed, Queued
  <2> QED BY <2>1, <2>2, <2>3, <2>4 DEF Claimed
<1>14. EveryStreamHeld'
  <2>1. Arming' = {} /\ d'.handles = {}
    BY <1>b, <1>c DEF Arming
  <2>3. \A t \in Scope : running[t] = d'.downs[t] + d'.unproven[t] /\ d'.downs[t] \in Nat /\ d'.unproven[t] \in Nat
    BY <1>a, <1>c, LetGo DEF DriverTyped
  <2>4. \A t \in Scope : One(t \in d'.handles) = 0 /\ One(t \in Arming') = 0
    BY <2>1 DEF One
  <2> QED BY <1>e, <2>3, <2>4 DEF EveryStreamHeld
<1>15. NoOrphan'
  BY <1>d DEF NoOrphan
<1>16. BacklogBounded'
  BY <1>d DEF BacklogBounded
<1>17. CloseHonest'
  BY <1>a, <1>c, <1>d, <1>e DEF CloseHonest, PhasesSound
<1> QED BY <1>1, <1>2, <1>3, <1>4, <1>5, <1>6, <1>7, <1>8, <1>9, <1>10, <1>11, <1>12, <1>13,
         <1>14, <1>15, <1>16, <1>17 DEF ScopesIInv, RootsSound, StreamsSound

\* The driver is gone, with everything it held.
ShutsDown ==
    /\ phase # "closed" /\ phase' = "closed"
    /\ reported' = reported \/ (phase = "closing" /\ reported' = outstanding(d))
    /\ DOMAIN d' = Fields
    /\ d'.handles = {} /\ DOMAIN d'.replaces = {} /\ LetsGo(d'.downs)
    /\ d'.scope_seq = d.scope_seq /\ d'.lanes = d.lanes /\ d'.lane_of = d.lane_of /\ d'.spawns = d.spawns
    /\ d'.unproven = d.unproven /\ DOMAIN d'.watch_replies = {} /\ DOMAIN d'.deferred = {}
    /\ d'.waiters = [s \in Scope |-> <<>>]
    /\ DOMAIN reg' = {"live", "pending"} /\ reg'.live = reg.live
    /\ \A p \in DOMAIN reg'.pending :
          /\ p \in DOMAIN reg.pending /\ \A s \in DOMAIN d.replaces : d.replaces[s].path # p
          /\ \A i \in Queued("replace") : commands[i].path # p
    /\ calls' = ClosedTo(calls, {c \in Clients : calls[c] # Idle /\ calls[c].ans = Waiting})
    /\ commands' = <<>> /\ unwinds' = <<>>
    /\ UNCHANGED <<held, released, running, dead>>

\* A driver that returns, or is dropped, leaves every stream to the reapers.
LEMMA ShutsDownSafe ==
    ASSUME ScopesIInv, ShutsDown
    PROVE  ScopesIInv'
<1>a. /\ DriverTyped /\ CallsTyped /\ HistoryTyped /\ PhasesSound /\ StagesSound /\ LanesSound
      /\ OwnersSound /\ AskersSound /\ PlacesSound /\ VerdictsSound /\ GrantsKept
      /\ LiveRootsDisjoint /\ RegistryHonest /\ EveryStreamHeld /\ NoOrphan /\ BacklogBounded
      /\ CloseHonest
  BY DEF ScopesIInv, RootsSound, StreamsSound
<1>b. /\ DOMAIN d' = Fields /\ d'.handles = {} /\ d'.lane_of = d.lane_of
  BY DEF ShutsDown
<1>c. /\ DOMAIN d'.replaces = {} /\ LetsGo(d'.downs) /\ d'.scope_seq = d.scope_seq /\ d'.spawns = d.spawns
      /\ d'.unproven = d.unproven /\ DOMAIN d'.watch_replies = {} /\ DOMAIN d'.deferred = {}
      /\ d'.downs \in [Scope -> Nat]
      /\ d'.waiters \in [Scope -> Seq(Waiter)]
      /\ \A t \in Scope : d'.waiters[t] = <<>> /\ DOMAIN d'.waiters[t] = {}
      /\ \A t \in Scope : t \notin d.handles \cup DOMAIN d.replaces => d'.downs[t] = d.downs[t]
  <2>1. d'.waiters = [s \in Scope |-> <<>>] /\ <<>> \in Seq(Waiter) /\ DOMAIN <<>> = {}
    BY DEF ShutsDown
  <2> QED BY <2>1, LetGo DEF ShutsDown
<1>d. /\ UNCHANGED <<held, released, dead>> /\ phase' = "closed" /\ commands' = <<>> /\ unwinds' = <<>>
      /\ reported' = reported \/ (phase = "closing" /\ reported' = outstanding(d))
      /\ phase # "closed"
  BY DEF ShutsDown
<1>m. /\ commands' \in Seq(Message) /\ unwinds' \in Seq(Scope) /\ DOMAIN commands' = {}
  BY <1>d
<1>e. /\ running' = running /\ DOMAIN reg' = {"live", "pending"} /\ reg'.live = reg.live
      /\ \A p \in DOMAIN reg'.pending :
            /\ p \in DOMAIN reg.pending /\ \A s \in DOMAIN d.replaces : d.replaces[s].path # p
            /\ \A i \in Queued("replace") : commands[i].path # p
  BY DEF ShutsDown
<1>g. CallsGo({"closed"})
  <2> DEFINE S == {c \in Clients : calls[c] # Idle /\ calls[c].ans = Waiting}
  <2>1. \A c \in Clients : c \in S => Open(c)
    BY DEF Open
  <2>2. calls' = ClosedTo(calls, S)
    BY DEF ShutsDown
  <2> HIDE DEF S
  <2> QED BY <1>a, <2>1, <2>2, ClosedGo
<1>q. /\ outstanding(d) \in Nat
      /\ outstanding(d) = 0 => d.spawns = {} /\ \A s \in Scope : d.downs[s] = 0 /\ d.unproven[s] = 0
  <2>1. /\ Landed(d) \in [Scope -> Nat] /\ \A t \in Scope : Landed(d)[t] = d.downs[t] + d.unproven[t]
        /\ d.downs \in [Scope -> Nat] /\ d.unproven \in [Scope -> Nat]
    BY <1>a DEF Landed, DriverTyped
  <2>2. \A t \in Scope : Landed(d)[t] <= Total(Landed(d)) /\ Total(Landed(d)) \in Nat
    BY <2>1, TotalAbove
  <2>3. 1 \in Scope
    BY FsScopesAssumption DEF Scope
  <2>4. IsFiniteSet(d.spawns)
    <3>1. 1 \in Int /\ d.scope_seq \in Int /\ d.spawns \subseteq 1 .. d.scope_seq
      BY <1>a DEF DriverTyped
    <3>2. IsFiniteSet(1 .. d.scope_seq)
      BY <3>1, FS_Interval
    <3> QED BY <3>1, <3>2, FS_Subset
  <2>5. Cardinality(d.spawns) \in Nat /\ (Cardinality(d.spawns) = 0 => d.spawns = {})
    BY <2>4, FS_CardinalityType, FS_EmptySet
  <2>6. outstanding(d) = Total(Landed(d)) + Cardinality(d.spawns)
    BY DEF outstanding
  <2>7. Total(Landed(d)) \in Nat
    BY <2>2, <2>3
  <2>8. outstanding(d) \in Nat /\ (outstanding(d) = 0 => Total(Landed(d)) = 0 /\ d.spawns = {})
    BY <2>5, <2>6, <2>7
  <2>9. ASSUME outstanding(d) = 0, NEW s \in Scope PROVE d.downs[s] = 0 /\ d.unproven[s] = 0
    <3>1. Landed(d)[s] <= 0 /\ Landed(d)[s] = d.downs[s] + d.unproven[s]
      BY <2>1, <2>2, <2>8, <2>9
    <3> QED BY <2>1, <3>1
  <2> QED BY <2>8, <2>9
<1>1. DriverTyped'
  BY <1>a, <1>b, <1>c DEF DriverTyped, StagesSound
<1>2. CallsTyped'
  <2>1. /\ commands' \in Seq([op : Calls, who : Whose, path : Where, s : Scope \cup {0}, awaited : BOOLEAN])
        /\ unwinds' \in Seq(Scope) /\ held' \subseteq Scope /\ released' \subseteq Scope
    BY <1>a, <1>d, <1>m DEF CallsTyped, Message
  <2>2. DOMAIN calls' = Clients
    BY <1>g DEF CallsGo
  <2>3. ASSUME NEW c \in Clients, calls'[c] # Idle
        PROVE  /\ DOMAIN calls'[c] = {"op", "path", "s", "ans"} /\ calls'[c].op \in Calls
               /\ calls'[c].ans.k = "grant" =>
                     calls'[c].ans.s \in Scope /\ calls'[c].ans = Granted(calls'[c].ans.s)
    <3>1. CASE calls'[c] = calls[c]
      BY <1>a, <2>3, <3>1 DEF CallsTyped
    <3>2. CASE Replied(c, calls'[c].ans) /\ calls'[c].ans.k \in {"closed"}
      BY <1>a, <2>3, <3>2 DEF CallsTyped, Replied, Open
    <3> QED BY <1>g, <3>1, <3>2 DEF CallsGo
  <2> QED BY <2>1, <2>2, <2>3 DEF CallsTyped
<1>3. HistoryTyped'
  BY <1>a, <1>b, <1>d, <1>e, <1>q DEF HistoryTyped
<1>4. PhasesSound'
  BY <1>a, <1>b, <1>c, <1>d DEF PhasesSound
<1>5. StagesSound'
  BY <1>d DEF StagesSound
<1>6. LanesSound'
  BY <1>d DEF LanesSound
<1>7. OwnersSound'
  BY <1>d DEF OwnersSound
<1>8. AskersSound'
  BY <1>a, <1>g, <1>d, <1>m DEF AskersSound, CallsGo, Replied, Open
<1>9. PlacesSound'
  BY <1>c, <1>m DEF PlacesSound
<1>10. VerdictsSound'
  <2>1. \A c \in Clients : calls'[c].ans = Acked("torn") => calls'[c] = calls[c]
    BY <1>g DEF CallsGo, Acked
  <2>2. \A t \in Scope :
           t \notin d.handles \cup d.spawns \cup DOMAIN d.replaces /\ d.downs[t] = 0 /\ d.unproven[t] = 0
           => /\ t \notin d'.handles \cup d'.spawns \cup DOMAIN d'.replaces
              /\ d'.downs[t] = 0 /\ d'.unproven[t] = 0
    BY <1>b, <1>c
  <2>3. \A t \in Scope : \A i \in DOMAIN d'.waiters[t] :
           d'.waiters[t][i].verdict = "torn" => d'.unproven[t] = 0
    BY <1>a, <1>c DEF VerdictsSound
  <2>4. 1 \in Scope
    BY FsScopesAssumption DEF Scope
  <2> QED BY <1>a, <2>1, <2>2, <2>3, <2>4, VerdictsKept
<1>11. GrantsKept'
  BY <1>d DEF GrantsKept
<1>12. LiveRootsDisjoint'
  BY <1>a, <1>e DEF LiveRootsDisjoint
<1>13. RegistryHonest'
  <2> SUFFICES ASSUME NEW p \in DOMAIN reg'.pending PROVE Claimed(p)'
    BY <1>d DEF RegistryHonest, Claimed
  <2>1. p \in DOMAIN reg.pending /\ \A t \in DOMAIN d.replaces : d.replaces[t].path # p
    BY <1>e
  <2>2. Claimed(p)
    BY <1>a, <2>1 DEF RegistryHonest, Claimed
  <2>3. ASSUME NEW c \in Clients, calls[c] # Idle, calls[c].op = "watch", calls[c].path = p PROVE Claimed(p)'
    <3>1. calls'[c] # Idle /\ calls'[c].op = "watch" /\ calls'[c].path = p
      BY <1>g, <2>3 DEF CallsGo, Replied
    <3> QED BY <3>1 DEF Claimed
  <2>4. ASSUME NEW i \in Queued("replace"), commands[i].path = p PROVE Claimed(p)'
    BY <1>e, <2>4
  <2> QED BY <2>1, <2>2, <2>3, <2>4 DEF Claimed
<1>14. EveryStreamHeld'
  <2>1. Arming' = {} /\ d'.handles = {}
    BY <1>b, <1>c DEF Arming
  <2>3. \A t \in Scope : running[t] = d'.downs[t] + d'.unproven[t] /\ d'.downs[t] \in Nat /\ d'.unproven[t] \in Nat
    BY <1>a, <1>c, LetGo DEF DriverTyped
  <2>4. \A t \in Scope : One(t \in d'.handles) = 0 /\ One(t \in Arming') = 0
    BY <2>1 DEF One
  <2> QED BY <1>e, <2>3, <2>4 DEF EveryStreamHeld
<1>15. NoOrphan'
  BY <1>d DEF NoOrphan
<1>16. BacklogBounded'
  BY <1>d DEF BacklogBounded
<1>17. CloseHonest'
  <2> SUFFICES ASSUME reported' = 0 PROVE d'.spawns = {} /\ \A s \in Scope : running'[s] = 0
    BY DEF CloseHonest
  <2>1. phase = "closing" /\ outstanding(d) = 0
    BY <1>a, <1>d DEF PhasesSound
  <2>2. d.handles = {} /\ DOMAIN d.replaces = {} /\ Arming = {}
    BY <1>a, <2>1 DEF PhasesSound, Arming
  <2>3. d.spawns = {} /\ \A s \in Scope : d.downs[s] = 0 /\ d.unproven[s] = 0
    BY <1>q, <2>1
  <2>4. \A s \in Scope : One(s \in d.handles) = 0 /\ One(s \in Arming) = 0
    BY <2>2 DEF One
  <2>5. \A s \in Scope : running[s] = One(s \in d.handles) + One(s \in Arming) + d.downs[s] + d.unproven[s]
    BY <1>a DEF EveryStreamHeld
  <2>6. ASSUME NEW s \in Scope PROVE running'[s] = 0
    <3>1. One(s \in d.handles) = 0 /\ One(s \in Arming) = 0 /\ d.downs[s] = 0 /\ d.unproven[s] = 0
      BY <2>3, <2>4
    <3>2. running[s] = One(s \in d.handles) + One(s \in Arming) + d.downs[s] + d.unproven[s]
      BY <2>5
    <3> QED BY <1>e, <3>1, <3>2
  <2> QED BY <1>c, <2>3, <2>6
<1> QED BY <1>1, <1>2, <1>3, <1>4, <1>5, <1>6, <1>7, <1>8, <1>9, <1>10, <1>11, <1>12, <1>13,
         <1>14, <1>15, <1>16, <1>17 DEF ScopesIInv, RootsSound, StreamsSound

-----------------------------------------------------------------------------
(* The callers: a call is made.                                            *)

\* A caller sends a command.
Sends(op, c, path, s, awaited) ==
    /\ op \in Calls /\ c \in Whose /\ path \in Where /\ s \in Scope \cup {0} /\ awaited \in BOOLEAN
    /\ commands' = Append(commands, [op |-> op, who |-> c, path |-> path, s |-> s, awaited |-> awaited])
    /\ IF c = Gone THEN calls' = calls
       ELSE calls[c] = Idle /\ calls' = [calls EXCEPT ![c] = Call(op, path, s)]
    /\ op = "replace" => s \in held
    /\ IF op = "unwatch" THEN s \in held \cup released /\ Release(s) ELSE UNCHANGED <<held, released>>
    /\ DOMAIN reg' = {"live", "pending"} /\ reg'.live = reg.live
    /\ DOMAIN reg'.pending \subseteq
           DOMAIN reg.pending \cup (IF op \in {"watch", "replace"} /\ c # Gone THEN {path} ELSE {})
    /\ UNCHANGED <<d, unwinds, phase, reported, running, dead>> /\ Ungated

\* A message is sent after all the others.
LEMMA AppendIs ==
    ASSUME NEW S, NEW q \in Seq(S), NEW e \in S
    PROVE  /\ Append(q, e) \in Seq(S) /\ Len(q) + 1 \in DOMAIN Append(q, e) /\ Append(q, e)[Len(q) + 1] = e
           /\ \A i \in DOMAIN q : i \in DOMAIN Append(q, e) /\ Append(q, e)[i] = q[i] /\ i # Len(q) + 1
           /\ \A i \in DOMAIN Append(q, e) : i # Len(q) + 1 => i \in DOMAIN q
  OBVIOUS

\* A call that is made waits in the channel, and nowhere else.
LEMMA SendsSafe ==
    ASSUME ScopesIInv, NEW op, NEW c, NEW path, NEW s, NEW awaited,
           Sends(op, c, path, s, awaited)
    PROVE  ScopesIInv'
<1>a. /\ DriverTyped /\ CallsTyped /\ HistoryTyped /\ PhasesSound /\ StagesSound /\ LanesSound
      /\ OwnersSound /\ AskersSound /\ PlacesSound /\ VerdictsSound /\ GrantsKept
      /\ LiveRootsDisjoint /\ RegistryHonest /\ EveryStreamHeld /\ NoOrphan /\ BacklogBounded
      /\ CloseHonest
  BY DEF ScopesIInv, RootsSound, StreamsSound
<1>b. d' = d
  BY DEF Sends
<1>q. /\ op \in Calls /\ c \in Whose /\ path \in Where /\ s \in Scope \cup {0}
      /\ c = Gone => calls' = calls
      /\ c # Gone => c \in Clients /\ calls[c] = Idle /\ calls' = [calls EXCEPT ![c] = Call(op, path, s)]
      /\ op = "replace" => s \in held
      /\ op = "unwatch" => s \in held \cup released
  BY DEF Sends, Whose
<1>d. /\ UNCHANGED <<unwinds, phase, reported, running, dead>>
      /\ held' \subseteq held /\ held' \cup released' = held \cup released /\ released \subseteq released'
      /\ \A t \in held' : t \in released' => t \in released
      /\ \A t \in held \ held' : op = "unwatch" /\ t = s
      /\ op = "unwatch" => s \in released'
  BY DEF Sends, Release
<1>m. /\ commands' \in Seq(Message) /\ Len(commands) + 1 \in DOMAIN commands'
      /\ commands'[Len(commands) + 1] = [op |-> op, who |-> c, path |-> path, s |-> s, awaited |-> awaited]
      /\ \A i \in DOMAIN commands : i \in DOMAIN commands' /\ commands'[i] = commands[i] /\ i # Len(commands) + 1
      /\ \A i \in DOMAIN commands' : i # Len(commands) + 1 => i \in DOMAIN commands
  <2> DEFINE e == [op |-> op, who |-> c, path |-> path, s |-> s, awaited |-> awaited]
  <2>1. commands \in Seq(Message) /\ e \in Message /\ commands' = Append(commands, e)
    BY <1>a DEF CallsTyped, Message, Sends
  <2> HIDE DEF e
  <2>2. /\ commands' \in Seq(Message) /\ Len(commands) + 1 \in DOMAIN commands'
        /\ commands'[Len(commands) + 1] = e
        /\ \A i \in DOMAIN commands : i \in DOMAIN commands' /\ commands'[i] = commands[i] /\ i # Len(commands) + 1
        /\ \A i \in DOMAIN commands' : i # Len(commands) + 1 => i \in DOMAIN commands
    BY <2>1, AppendIs
  <2> QED BY <2>2 DEF e
<1>e. /\ DOMAIN reg' = {"live", "pending"} /\ reg'.live = reg.live
      /\ DOMAIN reg'.pending \subseteq
             DOMAIN reg.pending \cup (IF op \in {"watch", "replace"} /\ c # Gone THEN {path} ELSE {})
  BY DEF Sends
<1>f. ended' = ended
  BY <1>b DEF Sends, Ungated
<1>g. /\ DOMAIN calls' = Clients /\ \A o \in Clients : o # c => calls'[o] = calls[o]
      /\ c \in Clients => /\ calls[c] = Idle /\ calls'[c] # Idle /\ calls'[c].ans = Waiting
                          /\ DOMAIN calls'[c] = {"op", "path", "s", "ans"}
                          /\ calls'[c].op = op /\ calls'[c].path = path /\ calls'[c].s = s
  <2>1. DOMAIN calls = Clients /\ Gone \notin Clients
    BY <1>a, FsScopesAssumption DEF CallsTyped
  <2>2. Call(op, path, s) # Idle
    BY <1>q DEF Call, Idle, Calls
  <2> QED BY <1>q, <2>1, <2>2 DEF Call
<1>n. /\ c \in Clients => ~InDriver(c) /\ \A i \in DOMAIN commands : commands[i].who # c
      /\ c \in Clients => \A t \in Scope : ~Grantee(c, t) /\ ~Grantee(c, t)'
  <2>1. c \in Clients => ~Open(c) /\ calls[c] = Idle /\ calls'[c].ans = Waiting
    BY <1>g DEF Open
  <2>2. c \in Clients => ~InDriver(c) /\ \A i \in DOMAIN commands : commands[i].who # c
    BY <1>a, <2>1 DEF PlacesSound, InDriver
  <2> QED BY <2>1, <2>2 DEF Grantee, Waiting, Granted
<1>p. /\ \A o \in Clients, t \in Scope : Grantee(o, t)' <=> Grantee(o, t)
      /\ \A t \in Scope : (Promised(t)' <=> Promised(t)) /\ (Discarded(t)' <=> Discarded(t))
  <2>1. \A o \in Clients, t \in Scope : Grantee(o, t)' <=> Grantee(o, t)
    BY <1>g, <1>n DEF Grantee
  <2> QED BY <1>d, <2>1 DEF Promised, Discarded
<1>1. DriverTyped'
  BY <1>a, <1>b DEF DriverTyped
<1>2. CallsTyped'
  <2>1. /\ commands' \in Seq([op : Calls, who : Whose, path : Where, s : Scope \cup {0}, awaited : BOOLEAN])
        /\ unwinds' \in Seq(Scope) /\ held' \subseteq Scope /\ released' \subseteq Scope
    BY <1>a, <1>d, <1>m DEF CallsTyped, Message
  <2>2. ASSUME NEW o \in Clients, calls'[o] # Idle
        PROVE  /\ DOMAIN calls'[o] = {"op", "path", "s", "ans"} /\ calls'[o].op \in Calls
               /\ calls'[o].ans.k = "grant" =>
                     calls'[o].ans.s \in Scope /\ calls'[o].ans = Granted(calls'[o].ans.s)
    <3>1. CASE o # c
      BY <1>a, <1>g, <2>2, <3>1 DEF CallsTyped
    <3>2. CASE o = c
      BY <1>g, <1>q, <3>2 DEF Waiting
    <3> QED BY <3>1, <3>2
  <2> QED BY <1>g, <2>1, <2>2 DEF CallsTyped
<1>3. HistoryTyped'
  BY <1>a, <1>b, <1>d, <1>e DEF HistoryTyped
<1>4. PhasesSound'
  <2>1. ASSUME NEW o \in Clients, calls'[o] # Idle, calls'[o].ans = Acked("closed") PROVE phase # "run"
    <3>1. o # c
      BY <1>g, <2>1 DEF Waiting, Acked
    <3> QED BY <1>a, <1>g, <2>1, <3>1 DEF PhasesSound
  <2> QED BY <1>a, <1>b, <1>d, <2>1 DEF PhasesSound
<1>5. StagesSound'
  BY <1>a, <1>b, <1>d, <1>f DEF StagesSound
<1>6. LanesSound'
  BY <1>a, <1>b, <1>d DEF LanesSound
<1>7. OwnersSound'
  <2> SUFFICES ASSUME phase = "run" PROVE OwnersSound'
    BY <1>d DEF OwnersSound
  <2>1. ASSUME NEW t \in Scope
        PROVE  /\ t \in held' \cup released' \cup DOMAIN d'.deferred \/ Promised(t)' \/ Discarded(t)' =>
                    t \in 1 .. d'.scope_seq /\ t \notin DOMAIN d'.watch_replies
               /\ t \in held' => t \notin released'
               /\ t \in DOMAIN d'.deferred => t \notin held' \cup released'
               /\ Promised(t)' => t \notin held' \cup released' \cup DOMAIN d'.deferred
               /\ Discarded(t)' => t \notin held' \cup DOMAIN d'.deferred /\ ~Promised(t)'
               /\ \A o, z \in Clients : Grantee(o, t)' /\ Grantee(z, t)' => o = z
    <3>1. \A o, z \in Clients : Grantee(o, t)' /\ Grantee(z, t)' => o = z
      BY <1>a, <1>p DEF OwnersSound
    <3>2. \A z \in held' : z \notin released'
      <4> SUFFICES ASSUME NEW z \in held', z \in released' PROVE FALSE
        OBVIOUS
      <4> QED BY <1>a, <1>d DEF OwnersSound, CallsTyped
    <3>3. /\ t \in held \cup released \cup DOMAIN d.deferred \/ Promised(t) \/ Discarded(t) =>
               t \in 1 .. d.scope_seq /\ t \notin DOMAIN d.watch_replies
          /\ t \in DOMAIN d.deferred => t \notin held \cup released
          /\ Promised(t) => t \notin held \cup released \cup DOMAIN d.deferred
          /\ Discarded(t) => t \notin held \cup DOMAIN d.deferred /\ ~Promised(t)
      BY <1>a DEF OwnersSound
    <3> QED BY <1>b, <1>d, <1>p, <3>1, <3>2, <3>3
  <2>2. \A t \in DOMAIN d'.replaces : t \in held' \cup released'
    BY <1>a, <1>b, <1>d DEF OwnersSound
  <2>3. \A t \in Scope : d'.waiters[t] # <<>> => t \in released' /\ t \notin d'.handles
    BY <1>a, <1>b, <1>d DEF OwnersSound
  <2> QED BY <2>1, <2>2, <2>3 DEF OwnersSound
<1>8. AskersSound'
  <2>1. ASSUME NEW o \in Clients, calls'[o] # Idle, calls'[o].op \in {"replace", "unwatch"}
        PROVE  calls'[o].s \in held' \cup released'
    <3>1. CASE o # c
      BY <1>a, <1>d, <1>g, <2>1, <3>1 DEF AskersSound
    <3>2. CASE o = c
      BY <1>d, <1>g, <1>q, <2>1, <3>2
    <3> QED BY <3>1, <3>2
  <2>2. ASSUME NEW i \in DOMAIN commands'
        PROVE  /\ commands'[i].op = "replace" => commands'[i].s \in held' \cup released'
               /\ commands'[i].op = "unwatch" => commands'[i].s \in released'
    <3>1. CASE i = Len(commands) + 1
      <4>1. commands'[i].op = op /\ commands'[i].s = s
        BY <1>m, <3>1
      <4> QED BY <1>d, <1>q, <4>1
    <3>2. CASE i # Len(commands) + 1
      BY <1>a, <1>d, <1>m, <3>2 DEF AskersSound
    <3> QED BY <3>1, <3>2
  <2> QED BY <2>1, <2>2 DEF AskersSound
<1>9. PlacesSound'
  <2>1. \A o \in Clients : InDriver(o)' <=> InDriver(o)
    BY <1>b DEF InDriver
  <2>2. ASSUME NEW o \in Clients, NEW i \in DOMAIN commands', commands'[i].who = o
        PROVE  /\ Open(o)' /\ calls'[o].op = commands'[i].op /\ calls'[o].s = commands'[i].s
               /\ ~InDriver(o)' /\ \A j \in DOMAIN commands' : commands'[j].who = o => j = i
    <3>1. commands'[Len(commands) + 1].who = c /\ commands'[Len(commands) + 1].op = op
          /\ commands'[Len(commands) + 1].s = s
      BY <1>m
    <3>2. CASE o = c
      <4>1. \A j \in DOMAIN commands' : commands'[j].who = o => j = Len(commands) + 1
        BY <1>m, <1>n, <3>2
      <4>2. Open(o)' /\ ~InDriver(o)'
        BY <1>g, <1>n, <2>1, <3>2 DEF Open
      <4> QED BY <1>g, <2>2, <3>1, <3>2, <4>1, <4>2
    <3>3. CASE o # c
      <4>1. \A j \in DOMAIN commands' : commands'[j].who = o => j \in DOMAIN commands /\ commands'[j] = commands[j]
        BY <1>m, <3>1, <3>3
      <4>2. (Open(o)' <=> Open(o)) /\ calls'[o] = calls[o]
        BY <1>g, <3>3 DEF Open
      <4> QED BY <1>a, <2>1, <2>2, <4>1, <4>2 DEF PlacesSound
    <3> QED BY <3>2, <3>3
  <2>3. \A o \in Clients : InDriver(o) => calls'[o] = calls[o] /\ (Open(o)' <=> Open(o))
    BY <1>g, <1>n DEF Open
  <2>4. \A o \in Clients :
        /\ \A t \in DOMAIN d.watch_replies : d.watch_replies[t].who = o =>
              /\ Open(o)' /\ calls'[o].op = "watch"
              /\ \A z \in DOMAIN d.watch_replies : d.watch_replies[z].who = o => z = t
              /\ \A z \in DOMAIN d.deferred : d.deferred[z].who # o
        /\ \A t \in DOMAIN d.deferred : d.deferred[t].who = o =>
              /\ Open(o)' /\ calls'[o].op = "watch"
              /\ \A z \in DOMAIN d.deferred : d.deferred[z].who = o => z = t
    BY <1>a, <2>3 DEF PlacesSound, InDriver
  <2>5. \A o \in Clients :
        /\ \A t \in DOMAIN d.replaces : d.replaces[t].who = o =>
              Open(o)' /\ calls'[o].op = "replace" /\ calls'[o].s = t
        /\ \A t \in Scope : \A i \in DOMAIN d.waiters[t] : d.waiters[t][i].who = o =>
              Open(o)' /\ calls'[o].op = "unwatch" /\ calls'[o].s = t
    BY <1>a, <2>3 DEF PlacesSound, InDriver
  <2> QED BY <1>b, <2>2, <2>4, <2>5 DEF PlacesSound
<1>10. VerdictsSound'
  <2>1. \A o \in Clients : calls'[o].ans = Acked("torn") => calls'[o] = calls[o]
    BY <1>g DEF Waiting, Acked
  <2> QED BY <1>a, <1>b, <2>1 DEF VerdictsSound
<1>11. GrantsKept'
  <2> SUFFICES ASSUME phase' = "run", NEW t \in Scope, t \in held' \/ Promised(t)'
               PROVE  t \in d'.handles \/ \E l \in dead' : d'.lane_of[l] = t
    BY DEF GrantsKept
  <2> QED BY <1>a, <1>b, <1>d, <1>p DEF GrantsKept
<1>12. LiveRootsDisjoint'
  BY <1>a, <1>e DEF LiveRootsDisjoint
<1>13. RegistryHonest'
  <2>1. phase' = "run" => DOMAIN reg'.live = d'.handles
    BY <1>a, <1>b, <1>d, <1>e DEF RegistryHonest
  <2> SUFFICES ASSUME NEW p \in DOMAIN reg'.pending PROVE Claimed(p)'
    BY <2>1 DEF RegistryHonest, Claimed
  <2>2. CASE p \in DOMAIN reg.pending
    <3>1. Claimed(p)
      BY <1>a, <2>2 DEF RegistryHonest, Claimed
    <3>2. ASSUME NEW o \in Clients, calls[o] # Idle, calls[o].op = "watch", calls[o].path = p PROVE Claimed(p)'
      <4>1. calls'[o] # Idle /\ calls'[o].op = "watch" /\ calls'[o].path = p
        BY <1>g, <3>2
      <4> QED BY <4>1 DEF Claimed
    <3>3. ASSUME NEW i \in Queued("replace"), commands[i].path = p PROVE Claimed(p)'
      BY <1>m, <3>3 DEF Claimed, Queued
    <3> QED BY <1>b, <3>1, <3>2, <3>3 DEF Claimed
  <2>3. CASE p \notin DOMAIN reg.pending
    <3>1. p = path /\ op \in {"watch", "replace"} /\ c \in Clients
      BY <1>e, <1>q, <2>3
    <3>2. CASE op = "watch"
      BY <1>g, <3>1, <3>2 DEF Claimed
    <3>3. CASE op = "replace"
      <4>1. commands'[Len(commands) + 1].op = "replace" /\ commands'[Len(commands) + 1].path = p
        BY <1>m, <3>1, <3>3
      <4> QED BY <1>m, <4>1 DEF Claimed, Queued
    <3> QED BY <3>1, <3>2, <3>3
  <2> QED BY <2>2, <2>3
<1>14. EveryStreamHeld'
  BY <1>a, <1>b, <1>d DEF EveryStreamHeld, Arming
<1>15. NoOrphan'
  <2> SUFFICES ASSUME phase = "run", NEW t \in d'.handles PROVE Owner(t)'
    BY <1>d DEF NoOrphan, Owner
  <2>1. t \in Scope /\ Owner(t)
    BY <1>a, <1>b, <1>d DEF NoOrphan, Owner, DriverTyped
  <2>2. ASSUME NEW i \in DOMAIN commands, commands[i].op = "unwatch", commands[i].s = t PROVE Owner(t)'
    BY <1>m, <2>2 DEF Owner
  <2>3. ASSUME t \in held PROVE Owner(t)'
    <3>1. CASE t \in held'
      BY <3>1 DEF Owner
    <3>2. CASE t \notin held'
      <4>1. commands'[Len(commands) + 1].op = "unwatch" /\ commands'[Len(commands) + 1].s = t
        BY <1>d, <1>m, <2>3, <3>2
      <4> QED BY <1>m, <4>1 DEF Owner
    <3> QED BY <3>1, <3>2
  <2> QED BY <1>b, <1>d, <1>p, <2>1, <2>2, <2>3 DEF Owner
<1>16. BacklogBounded'
  <2> SUFFICES ASSUME phase = "run" PROVE BacklogBounded'
    BY <1>d DEF BacklogBounded
  <2>1. ASSUME NEW t \in Scope PROVE Owed(t)' <= Owed(t)
    <3>1. /\ d.downs[t] \in Nat /\ d.unproven[t] \in Nat
      BY <1>a DEF DriverTyped
    <3> QED BY <1>b, <1>f, <3>1 DEF Owed, InFlight, One
  <2> QED BY <1>a, <1>1, <2>1, BacklogKept
<1>17. CloseHonest'
  BY <1>a, <1>b, <1>d DEF CloseHonest
<1> QED BY <1>1, <1>2, <1>3, <1>4, <1>5, <1>6, <1>7, <1>8, <1>9, <1>10, <1>11, <1>12, <1>13,
         <1>14, <1>15, <1>16, <1>17 DEF ScopesIInv, RootsSound, StreamsSound

-----------------------------------------------------------------------------
(* Root watches are asked for, or answered too late; streams die.          *)

\* Arms are asked for or forgotten, streams may die.
Rearms ==
    /\ DOMAIN d' = Fields
    /\ \A x \in Fields \ {"arms", "deferred"} : d'[x] = d[x]
    /\ DOMAIN d'.deferred = DOMAIN d.deferred
    /\ \A t \in DOMAIN d.deferred : d'.deferred[t] = d.deferred[t]
    /\ \A a \in d.arms : a.s \in DOMAIN d.deferred => a \in d'.arms
    /\ \A a \in d'.arms : a \in d.arms \/ a.s \in DOMAIN d.replaces
    /\ dead \subseteq dead' /\ dead' \subseteq DOMAIN d.lane_of
    /\ UNCHANGED <<reg, calls, outside, running>> /\ Ungated

\* Root watches that nobody waits for, and streams that die, disturb nothing.
LEMMA RearmsSafe ==
    ASSUME ScopesIInv, phase = "run", Rearms
    PROVE  ScopesIInv'
<1>a. /\ DriverTyped /\ CallsTyped /\ HistoryTyped /\ PhasesSound /\ StagesSound /\ LanesSound
      /\ OwnersSound /\ AskersSound /\ PlacesSound /\ VerdictsSound /\ GrantsKept
      /\ LiveRootsDisjoint /\ RegistryHonest /\ EveryStreamHeld /\ NoOrphan /\ BacklogBounded
      /\ CloseHonest
  BY DEF ScopesIInv, RootsSound, StreamsSound
<1>b. /\ DOMAIN d' = Fields /\ d'.handles = d.handles /\ d'.lanes = d.lanes
      /\ d'.lane_of = d.lane_of
  BY DEF Rearms, Fields
<1>c. /\ d'.scope_seq = d.scope_seq /\ d'.downs = d.downs /\ d'.unproven = d.unproven
      /\ d'.watch_replies = d.watch_replies /\ d'.spawns = d.spawns
      /\ d'.replaces = d.replaces /\ d'.waiters = d.waiters
      /\ DOMAIN d'.deferred = DOMAIN d.deferred
      /\ \A t \in DOMAIN d.deferred : d'.deferred[t] = d.deferred[t]
      /\ \A a \in d.arms : a.s \in DOMAIN d.deferred => a \in d'.arms
  BY DEF Rearms, Fields
<1>d. /\ UNCHANGED <<commands, unwinds, held, released, phase, reported>>
      /\ dead \subseteq dead' /\ dead' \subseteq DOMAIN d.lane_of
  BY DEF Rearms, outside, front
<1>e. UNCHANGED <<reg, running>>
  BY DEF Rearms
<1>f. ended' = ended
  BY <1>b DEF Rearms, Ungated
<1>g. calls' = calls
  BY DEF Rearms
<1>p. /\ \A c \in Clients, t \in Scope : Grantee(c, t)' <=> Grantee(c, t)
      /\ \A t \in Scope : (Promised(t)' <=> Promised(t)) /\ (Discarded(t)' <=> Discarded(t))
  BY <1>d, <1>g DEF Grantee, Promised, Discarded
<1>1. DriverTyped'
  BY <1>a, <1>b, <1>c DEF DriverTyped, StagesSound
<1>2. CallsTyped'
  BY <1>a, <1>g, <1>d DEF CallsTyped
<1>3. HistoryTyped'
  BY <1>a, <1>b, <1>d, <1>e DEF HistoryTyped, DriverTyped
<1>4. PhasesSound'
  BY <1>a, <1>b, <1>c, <1>g, <1>d DEF PhasesSound
<1>5. StagesSound'
  <2>1. \A t \in DOMAIN d'.deferred :
              /\ t \in d'.handles /\ t \notin DOMAIN d'.replaces
              /\ [s |-> t, lane |-> d'.lanes[t]] \in d'.arms
    <3> SUFFICES ASSUME NEW t \in DOMAIN d.deferred
                 PROVE  /\ t \in d.handles /\ t \notin DOMAIN d.replaces
                        /\ [s |-> t, lane |-> d.lanes[t]] \in d'.arms
      BY <1>b, <1>c
    <3> QED BY <1>a, <1>c, <1>d DEF StagesSound
  <2> QED BY <1>a, <1>b, <1>c, <1>d, <1>f, <2>1 DEF StagesSound
<1>6. LanesSound'
  BY <1>a, <1>b, <1>d DEF LanesSound, DriverTyped
<1>7. OwnersSound'
  <2>1. \A t \in Scope : (Promised(t)' <=> Promised(t)) /\ (Discarded(t)' <=> Discarded(t))
    BY <1>p
  <2>4. ASSUME NEW t \in Scope
        PROVE  /\ t \in held' \cup released' \cup DOMAIN d'.deferred \/ Promised(t)' \/ Discarded(t)' =>
                    t \in 1 .. d'.scope_seq /\ t \notin DOMAIN d'.watch_replies
               /\ t \in held' => t \notin released'
               /\ t \in DOMAIN d'.deferred => t \notin held' \cup released'
               /\ Promised(t)' => t \notin held' \cup released' \cup DOMAIN d'.deferred
               /\ Discarded(t)' => t \notin held' \cup DOMAIN d'.deferred /\ ~Promised(t)'
               /\ \A c, o \in Clients : Grantee(c, t)' /\ Grantee(o, t)' => c = o
    <3>1. \A o, z \in Clients : Grantee(o, t)' /\ Grantee(z, t)' => o = z
      BY <1>a, <1>d, <1>p DEF OwnersSound
    <3> QED BY <1>a, <1>b, <1>c, <1>d, <1>p, <3>1 DEF OwnersSound
  <2>2. \A t \in DOMAIN d'.replaces : t \in held' \cup released'
    BY <1>a, <1>c, <1>d DEF OwnersSound
  <2>3. \A t \in Scope : d'.waiters[t] # <<>> => t \in released' /\ t \notin d'.handles
    BY <1>a, <1>b, <1>c, <1>d DEF OwnersSound
  <2> QED BY <2>4, <2>2, <2>3 DEF OwnersSound
<1>8. AskersSound'
  BY <1>a, <1>d, <1>g DEF AskersSound
<1>9. PlacesSound'
  <2>1. \A c \in Clients : (Open(c)' <=> Open(c)) /\ (InDriver(c)' <=> InDriver(c))
    BY <1>c, <1>g DEF Open, InDriver
  <2> QED BY <1>a, <1>c, <1>d, <1>g, <2>1 DEF PlacesSound
<1>10. VerdictsSound'
  BY <1>a, <1>b, <1>c, <1>g DEF VerdictsSound, DriverTyped
<1>11. GrantsKept'
  <2> SUFFICES ASSUME NEW t \in Scope, t \in held' \/ Promised(t)'
               PROVE  t \in d'.handles \/ \E l \in dead' : d'.lane_of[l] = t
    BY DEF GrantsKept
  <2> QED BY <1>a, <1>b, <1>d, <1>p DEF GrantsKept
<1>12. LiveRootsDisjoint'
  BY <1>a, <1>e DEF LiveRootsDisjoint
<1>13. RegistryHonest'
  <2>1. Queued("replace")' = Queued("replace")
    BY <1>d DEF Queued
  <2> QED BY <1>a, <1>b, <1>c, <1>d, <1>e, <1>g, <2>1 DEF RegistryHonest
<1>14. EveryStreamHeld'
  BY <1>a, <1>b, <1>c, <1>e DEF EveryStreamHeld, Arming
<1>15. NoOrphan'
  <2> SUFFICES ASSUME NEW t \in d'.handles PROVE Owner(t)'
    BY DEF NoOrphan, Owner
  <2>1. t \in Scope /\ Owner(t)
    BY <1>a, <1>b, <1>d DEF NoOrphan, Owner, DriverTyped
  <2>2. t \in DOMAIN d'.deferred => [s |-> t, lane |-> d'.lanes[t]] \in d'.arms
    BY <1>5, <1>d DEF StagesSound
  <2> QED BY <1>b, <1>c, <1>d, <1>p, <2>1, <2>2 DEF Owner
<1>16. BacklogBounded'
  <2>1. \A t \in Scope : Owed(t)' <= Owed(t)
    BY <1>a, <1>b, <1>c, <1>d, <1>f DEF Owed, InFlight, One, DriverTyped, StagesSound, PhasesSound
  <2> QED BY <1>a, <1>1, <2>1, BacklogKept
<1>17. CloseHonest'
  BY <1>a, <1>c, <1>d, <1>e DEF CloseHonest, PhasesSound
<1> QED BY <1>1, <1>2, <1>3, <1>4, <1>5, <1>6, <1>7, <1>8, <1>9, <1>10, <1>11, <1>12, <1>13,
         <1>14, <1>15, <1>16, <1>17 DEF ScopesIInv, RootsSound, StreamsSound

\* The root's watch of s is installed, and who waited for it is granted the scope.
GrantComes(s, who) ==
    /\ DOMAIN d' = Fields
    /\ \A x \in Fields \ {"arms", "deferred"} : d'[x] = d[x]
    /\ d'.deferred = Drop(d.deferred, {s}) /\ who = d.deferred[s].who
    /\ d'.arms \subseteq d.arms /\ \A a \in d.arms : a.s # s => a \in d'.arms
    /\ who \in Clients /\ Told(who, Granted(s))
    /\ UNCHANGED <<reg, outside, running, dead>> /\ Ungated

\* A grant that comes goes to its caller, who has the scope from then on.
LEMMA GrantComesSafe ==
    ASSUME ScopesIInv, phase = "run", NEW s, s \in DOMAIN d.deferred, NEW who, GrantComes(s, who)
    PROVE  ScopesIInv'
<1>a. /\ DriverTyped /\ CallsTyped /\ HistoryTyped /\ PhasesSound /\ StagesSound /\ LanesSound
      /\ OwnersSound /\ AskersSound /\ PlacesSound /\ VerdictsSound /\ GrantsKept
      /\ LiveRootsDisjoint /\ RegistryHonest /\ EveryStreamHeld /\ NoOrphan /\ BacklogBounded
      /\ CloseHonest
  BY DEF ScopesIInv, RootsSound, StreamsSound
<1>b. /\ DOMAIN d' = Fields /\ d'.handles = d.handles /\ d'.lanes = d.lanes
      /\ d'.lane_of = d.lane_of
  BY DEF GrantComes, Fields
<1>c. /\ d'.scope_seq = d.scope_seq /\ d'.downs = d.downs /\ d'.unproven = d.unproven
      /\ d'.watch_replies = d.watch_replies /\ d'.spawns = d.spawns
      /\ d'.replaces = d.replaces /\ d'.waiters = d.waiters
      /\ DOMAIN d'.deferred = DOMAIN d.deferred \ {s}
      /\ \A t \in DOMAIN d'.deferred : d'.deferred[t] = d.deferred[t]
      /\ \A a \in d.arms : a.s # s => a \in d'.arms
  BY DEF GrantComes, Fields, Drop
<1>q. who \in Clients /\ who = d.deferred[s].who /\ Told(who, Granted(s))
  BY DEF GrantComes
<1>d. UNCHANGED <<commands, unwinds, held, released, phase, reported, dead>>
  BY DEF GrantComes, outside, front
<1>e. UNCHANGED <<reg, running>>
  BY DEF GrantComes
<1>f. ended' = ended
  BY <1>b DEF GrantComes, Ungated
<1>g. CallsGo({"grant"})
  BY <1>q, ToldGo DEF Granted
<1>n. /\ s \notin held \cup released /\ ~Promised(s) /\ ~Discarded(s)
      /\ s \in 1 .. d.scope_seq /\ s \notin DOMAIN d.watch_replies /\ s \in d.handles /\ s \in Scope
  BY <1>a DEF OwnersSound, StagesSound, DriverTyped
<1>p. /\ \A c \in Clients, t \in Scope : Grantee(c, t)' <=> Grantee(c, t) \/ (t = s /\ c = who)
      /\ \A t \in Scope : (Promised(t)' <=> Promised(t) \/ t = s) /\ (Discarded(t)' <=> Discarded(t))
  <2>1. ASSUME NEW c \in Clients, NEW t \in Scope
        PROVE  Grantee(c, t)' <=> Grantee(c, t) \/ (t = s /\ c = who)
    <3>1. CASE c # who
      <4>1. calls'[c] = calls[c]
        BY <1>q, <3>1 DEF Told
      <4> QED BY <3>1, <4>1 DEF Grantee
    <3>2. CASE c = who
      <4>1. Open(c) /\ calls'[c] # Idle /\ calls'[c].ans = Granted(s)
        BY <1>q, <3>2 DEF Told, Replied
      <4>2. Granted(s) = Granted(t) <=> t = s
        BY DEF Granted
      <4>3. ~Grantee(c, t)
        BY <4>1 DEF Grantee, Open, Waiting, Granted
      <4> QED BY <3>2, <4>1, <4>2, <4>3 DEF Grantee
    <3> QED BY <3>1, <3>2
  <2>2. ASSUME NEW t \in Scope PROVE Promised(t)' <=> Promised(t) \/ t = s
    BY <1>q, <2>1 DEF Promised
  <2> QED BY <1>d, <2>1, <2>2 DEF Discarded
<1>1. DriverTyped'
  BY <1>a, <1>b, <1>c DEF DriverTyped
<1>2. CallsTyped'
  <2>1. /\ commands' \in Seq([op : Calls, who : Whose, path : Where, s : Scope \cup {0}, awaited : BOOLEAN])
        /\ unwinds' \in Seq(Scope) /\ held' \subseteq Scope /\ released' \subseteq Scope
    BY <1>a, <1>d DEF CallsTyped, Message
  <2>2. DOMAIN calls' = Clients
    BY <1>g DEF CallsGo
  <2>3. ASSUME NEW c \in Clients, calls'[c] # Idle
        PROVE  /\ DOMAIN calls'[c] = {"op", "path", "s", "ans"} /\ calls'[c].op \in Calls
               /\ calls'[c].ans.k = "grant" =>
                     calls'[c].ans.s \in Scope /\ calls'[c].ans = Granted(calls'[c].ans.s)
    <3>1. CASE calls'[c] = calls[c]
      BY <1>a, <2>3, <3>1 DEF CallsTyped
    <3>2. CASE calls'[c] # calls[c]
      <4>1. Replied(c, Granted(s))
        BY <1>q, <3>2 DEF Told
      <4>2. Granted(s).s = s
        BY DEF Granted
      <4> QED BY <1>a, <1>n, <2>3, <4>1, <4>2 DEF CallsTyped, Replied, Open
    <3> QED BY <3>1, <3>2
  <2> QED BY <2>1, <2>2, <2>3 DEF CallsTyped
<1>3. HistoryTyped'
  BY <1>a, <1>b, <1>d, <1>e DEF HistoryTyped, DriverTyped
<1>4. PhasesSound'
  <2>1. phase' = "run" /\ (reported' >= 0 => phase' = "closed")
    BY <1>a, <1>d DEF PhasesSound
  <2>2. ASSUME NEW c \in Clients, calls'[c] # Idle, calls'[c].ans = Acked("closed") PROVE FALSE
    <3>1. Acked("closed").k = "closed" /\ "closed" \notin {"grant"}
      BY DEF Acked
    <3>2. calls'[c] = calls[c]
      BY <1>g, <2>2, <3>1 DEF CallsGo
    <3> QED BY <1>a, <1>d, <2>2, <3>2 DEF PhasesSound
  <2> QED BY <2>1, <2>2 DEF PhasesSound
<1>5. StagesSound'
  <2>1. \A t \in DOMAIN d'.deferred :
              /\ t \in d'.handles /\ t \notin DOMAIN d'.replaces
              /\ [s |-> t, lane |-> d'.lanes[t]] \in d'.arms
    <3> SUFFICES ASSUME NEW t \in DOMAIN d'.deferred
                 PROVE  /\ t \in d.handles /\ t \notin DOMAIN d.replaces
                        /\ [s |-> t, lane |-> d.lanes[t]] \in d'.arms
      BY <1>b, <1>c
    <3> QED BY <1>a, <1>c, <1>d DEF StagesSound
  <2> QED BY <1>a, <1>b, <1>c, <1>d, <1>f, <2>1 DEF StagesSound
<1>6. LanesSound'
  BY <1>a, <1>b, <1>d DEF LanesSound, DriverTyped
<1>7. OwnersSound'
  <2>1. ASSUME NEW t \in Scope
        PROVE  /\ t \in held' \cup released' \cup DOMAIN d'.deferred \/ Promised(t)' \/ Discarded(t)' =>
                    t \in 1 .. d'.scope_seq /\ t \notin DOMAIN d'.watch_replies
               /\ t \in held' => t \notin released'
               /\ t \in DOMAIN d'.deferred => t \notin held' \cup released'
               /\ Promised(t)' => t \notin held' \cup released' \cup DOMAIN d'.deferred
               /\ Discarded(t)' => t \notin held' \cup DOMAIN d'.deferred /\ ~Promised(t)'
               /\ \A c, o \in Clients : Grantee(c, t)' /\ Grantee(o, t)' => c = o
    <3>1. /\ \A c \in Clients : Grantee(c, t)' <=> Grantee(c, t) \/ (t = s /\ c = who)
          /\ Promised(t)' <=> Promised(t) \/ t = s
          /\ Discarded(t)' <=> Discarded(t)
      BY <1>p
    <3>2. CASE t # s
      BY <1>a, <1>c, <1>d, <3>1, <3>2 DEF OwnersSound
    <3>3. CASE t = s
      <4>1. \A c \in Clients : ~Grantee(c, s)
        BY <1>n DEF Promised
      <4> QED BY <1>c, <1>d, <1>n, <3>1, <3>3, <4>1
    <3> QED BY <3>2, <3>3
  <2>2. \A t \in DOMAIN d'.replaces : t \in held' \cup released'
    BY <1>a, <1>c, <1>d DEF OwnersSound
  <2>3. \A t \in Scope : d'.waiters[t] # <<>> => t \in released' /\ t \notin d'.handles
    BY <1>a, <1>b, <1>c, <1>d DEF OwnersSound
  <2> QED BY <2>1, <2>2, <2>3 DEF OwnersSound
<1>8. AskersSound'
  BY <1>a, <1>g, <1>d DEF AskersSound, CallsGo, Replied, Open
<1>9. PlacesSound'
  <2>0. /\ Open(who) /\ InDriver(who) /\ calls[who].op = "watch"
        /\ \A i \in DOMAIN commands : commands[i].who # who
        /\ \A t \in DOMAIN d.watch_replies : d.watch_replies[t].who # who
        /\ \A t \in DOMAIN d.deferred : d.deferred[t].who = who => t = s
    BY <1>a, <1>q DEF PlacesSound, InDriver
  <2>1. ASSUME NEW c \in Clients, Placed(c)' PROVE calls'[c] = calls[c]
    <3> SUFFICES ASSUME c = who PROVE FALSE
      BY <1>q DEF Told
    <3>1. /\ \A t \in DOMAIN d.replaces : d.replaces[t].who # c
          /\ \A t \in Scope : \A i \in DOMAIN d.waiters[t] : d.waiters[t][i].who # c
      BY <1>a, <2>0 DEF PlacesSound
    <3> QED BY <1>c, <1>d, <2>0, <2>1, <3>1 DEF Placed, InDriver
  <2>2. \A i \in DOMAIN commands' : i \in Nat /\ i + 0 \in DOMAIN commands /\ commands'[i] = commands[i + 0]
    BY <1>a, <1>d DEF CallsTyped
  <2> QED BY <1>a, <1>c, <2>1, <2>2, PlacesKept
<1>10. VerdictsSound'
  <2>1. \A c \in Clients : calls'[c].ans = Acked("torn") => calls'[c] = calls[c]
    BY <1>g DEF CallsGo, Acked
  <2> QED BY <1>a, <1>b, <1>c, <2>1 DEF VerdictsSound
<1>11. GrantsKept'
  <2> SUFFICES ASSUME NEW t \in Scope, t \in held' \/ Promised(t)'
               PROVE  t \in d'.handles \/ \E l \in dead' : d'.lane_of[l] = t
    BY DEF GrantsKept
  <2> QED BY <1>a, <1>b, <1>d, <1>n, <1>p DEF GrantsKept
<1>12. LiveRootsDisjoint'
  BY <1>a, <1>e DEF LiveRootsDisjoint
<1>13. RegistryHonest'
  <2>1. DOMAIN reg'.live = d'.handles
    BY <1>a, <1>b, <1>d, <1>e DEF RegistryHonest
  <2> SUFFICES ASSUME NEW p \in DOMAIN reg'.pending PROVE Claimed(p)'
    BY <2>1 DEF RegistryHonest, Claimed
  <2>2. Claimed(p)
    BY <1>a, <1>e DEF RegistryHonest, Claimed
  <2>3. ASSUME NEW c \in Clients, calls[c] # Idle, calls[c].op = "watch", calls[c].path = p PROVE Claimed(p)'
    <3>1. calls'[c] # Idle /\ calls'[c].op = "watch" /\ calls'[c].path = p
      BY <1>g, <2>3 DEF CallsGo, Replied
    <3> QED BY <3>1 DEF Claimed
  <2>4. ASSUME NEW i \in Queued("replace"), commands[i].path = p PROVE Claimed(p)'
    BY <1>a, <1>d, <2>4 DEF Claimed, Queued
  <2>5. ASSUME NEW t \in DOMAIN d.replaces, d.replaces[t].path = p PROVE Claimed(p)'
    BY <1>c, <2>5 DEF Claimed
  <2> QED BY <2>2, <2>3, <2>4, <2>5 DEF Claimed
<1>14. EveryStreamHeld'
  BY <1>a, <1>b, <1>c, <1>e DEF EveryStreamHeld, Arming
<1>15. NoOrphan'
  <2> SUFFICES ASSUME NEW t \in d'.handles PROVE Owner(t)'
    BY DEF NoOrphan, Owner
  <2>1. t \in Scope /\ Owner(t)
    BY <1>a, <1>b, <1>d DEF NoOrphan, Owner, DriverTyped
  <2>2. t \in DOMAIN d'.deferred => [s |-> t, lane |-> d'.lanes[t]] \in d'.arms
    BY <1>5, <1>d DEF StagesSound
  <2> QED BY <1>b, <1>c, <1>d, <1>p, <2>1, <2>2 DEF Owner
<1>16. BacklogBounded'
  <2>1. \A t \in Scope : Owed(t)' <= Owed(t)
    BY <1>a, <1>b, <1>c, <1>d, <1>f DEF Owed, InFlight, One, DriverTyped, StagesSound, PhasesSound
  <2> QED BY <1>a, <1>1, <2>1, BacklogKept
<1>17. CloseHonest'
  BY <1>a, <1>c, <1>d, <1>e DEF CloseHonest, PhasesSound
<1> QED BY <1>1, <1>2, <1>3, <1>4, <1>5, <1>6, <1>7, <1>8, <1>9, <1>10, <1>11, <1>12, <1>13,
         <1>14, <1>15, <1>16, <1>17 DEF ScopesIInv, RootsSound, StreamsSound

\* A grant that was dropped names a scope that is not live any more.
Unwinds ==
    /\ unwinds # <<>> /\ unwinds' = Tail(unwinds) /\ unwinds[1] \notin d.handles
    /\ UNCHANGED <<d, reg, calls, commands, front, running, dead>> /\ Ungated

\* Such a grant is forgotten.
LEMMA UnwindsSafe ==
    ASSUME ScopesIInv, phase = "run", Unwinds
    PROVE  ScopesIInv'
<1>a. /\ DriverTyped /\ CallsTyped /\ HistoryTyped /\ PhasesSound /\ StagesSound /\ LanesSound
      /\ OwnersSound /\ AskersSound /\ PlacesSound /\ VerdictsSound /\ GrantsKept
      /\ LiveRootsDisjoint /\ RegistryHonest /\ EveryStreamHeld /\ NoOrphan /\ BacklogBounded
      /\ CloseHonest
  BY DEF ScopesIInv, RootsSound, StreamsSound
<1>b. d' = d
  BY DEF Unwinds
<1>d. UNCHANGED <<reg, calls, commands, held, released, phase, reported, running, dead>>
  BY DEF Unwinds, front
<1>m. /\ unwinds' \in Seq(Scope) /\ unwinds[1] \notin d.handles
      /\ \A i \in DOMAIN unwinds' : i \in Nat /\ i + 1 \in DOMAIN unwinds /\ unwinds'[i] = unwinds[i + 1]
      /\ \A i \in DOMAIN unwinds : i > 1 => i - 1 \in DOMAIN unwinds' /\ unwinds'[i - 1] = unwinds[i]
      /\ \A i \in DOMAIN unwinds : i # 1 => i > 1
  <2>1. unwinds \in Seq(Scope)
    BY <1>a DEF CallsTyped
  <2>2. \A i \in DOMAIN unwinds : i # 1 => i > 1
    BY <2>1
  <2> QED BY <2>1, <2>2, TailIs DEF Unwinds
<1>f. ended' = ended
  BY <1>b DEF Unwinds, Ungated
<1>p. /\ \A c \in Clients, t \in Scope : Grantee(c, t)' <=> Grantee(c, t)
      /\ \A t \in Scope : /\ Promised(t)' <=> Promised(t)
                          /\ Discarded(t)' => Discarded(t)
                          /\ t \in d.handles /\ Discarded(t) => Discarded(t)'
  <2>1. \A c \in Clients, t \in Scope : Grantee(c, t)' <=> Grantee(c, t)
    BY <1>d DEF Grantee
  <2>2. \A t \in Scope : /\ Discarded(t)' => Discarded(t)
                         /\ t \in d.handles /\ Discarded(t) => Discarded(t)'
    BY <1>m DEF Discarded
  <2> QED BY <2>1, <2>2 DEF Promised
<1>1. DriverTyped'
  BY <1>a, <1>b DEF DriverTyped
<1>2. CallsTyped'
  BY <1>a, <1>d, <1>m DEF CallsTyped
<1>3. HistoryTyped'
  BY <1>a, <1>b, <1>d DEF HistoryTyped
<1>4. PhasesSound'
  BY <1>a, <1>b, <1>d DEF PhasesSound
<1>5. StagesSound'
  BY <1>a, <1>b, <1>d, <1>f DEF StagesSound
<1>6. LanesSound'
  BY <1>a, <1>b, <1>d DEF LanesSound
<1>7. OwnersSound'
  <2>1. ASSUME NEW t \in Scope
        PROVE  /\ t \in held' \cup released' \cup DOMAIN d'.deferred \/ Promised(t)' \/ Discarded(t)' =>
                    t \in 1 .. d'.scope_seq /\ t \notin DOMAIN d'.watch_replies
               /\ t \in held' => t \notin released'
               /\ t \in DOMAIN d'.deferred => t \notin held' \cup released'
               /\ Promised(t)' => t \notin held' \cup released' \cup DOMAIN d'.deferred
               /\ Discarded(t)' => t \notin held' \cup DOMAIN d'.deferred /\ ~Promised(t)'
               /\ \A c, o \in Clients : Grantee(c, t)' /\ Grantee(o, t)' => c = o
    <3>1. \A o, z \in Clients : Grantee(o, t)' /\ Grantee(z, t)' => o = z
      BY <1>a, <1>p DEF OwnersSound
    <3> QED BY <1>a, <1>b, <1>d, <1>p, <3>1 DEF OwnersSound
  <2>2. \A t \in DOMAIN d'.replaces : t \in held' \cup released'
    BY <1>a, <1>b, <1>d DEF OwnersSound
  <2>3. \A t \in Scope : d'.waiters[t] # <<>> => t \in released' /\ t \notin d'.handles
    BY <1>a, <1>b, <1>d DEF OwnersSound
  <2> QED BY <2>1, <2>2, <2>3 DEF OwnersSound
<1>8. AskersSound'
  BY <1>a, <1>d DEF AskersSound
<1>9. PlacesSound'
  <2>1. \A c \in Clients : (Open(c)' <=> Open(c)) /\ (InDriver(c)' <=> InDriver(c))
    BY <1>b, <1>d DEF Open, InDriver
  <2> QED BY <1>a, <1>b, <1>d, <2>1 DEF PlacesSound
<1>10. VerdictsSound'
  BY <1>a, <1>b, <1>d DEF VerdictsSound
<1>11. GrantsKept'
  <2> SUFFICES ASSUME NEW t \in Scope, t \in held' \/ Promised(t)'
               PROVE  t \in d'.handles \/ \E l \in dead' : d'.lane_of[l] = t
    BY DEF GrantsKept
  <2> QED BY <1>a, <1>b, <1>d, <1>p DEF GrantsKept
<1>12. LiveRootsDisjoint'
  BY <1>a, <1>d DEF LiveRootsDisjoint
<1>13. RegistryHonest'
  <2>1. Queued("replace")' = Queued("replace")
    BY <1>d DEF Queued
  <2> QED BY <1>a, <1>b, <1>d, <2>1 DEF RegistryHonest
<1>14. EveryStreamHeld'
  BY <1>a, <1>b, <1>d DEF EveryStreamHeld, Arming
<1>15. NoOrphan'
  <2> SUFFICES ASSUME NEW t \in d'.handles PROVE Owner(t)'
    BY DEF NoOrphan, Owner
  <2>1. t \in Scope /\ t \in d.handles /\ Owner(t)
    BY <1>a, <1>b, <1>d DEF NoOrphan, Owner, DriverTyped
  <2> QED BY <1>b, <1>d, <1>p, <2>1 DEF Owner
<1>16. BacklogBounded'
  <2>1. ASSUME NEW t \in Scope PROVE Owed(t)' <= Owed(t)
    <3>1. /\ d.downs[t] \in Nat /\ d.unproven[t] \in Nat
      BY <1>a DEF DriverTyped
    <3> QED BY <1>b, <1>f, <3>1 DEF Owed, One, InFlight
  <2> QED BY <1>a, <1>1, <1>d, <2>1, BacklogKept
<1>17. CloseHonest'
  BY <1>a, <1>b, <1>d DEF CloseHonest
<1> QED BY <1>1, <1>2, <1>3, <1>4, <1>5, <1>6, <1>7, <1>8, <1>9, <1>10, <1>11, <1>12, <1>13,
         <1>14, <1>15, <1>16, <1>17 DEF ScopesIInv, RootsSound, StreamsSound

-----------------------------------------------------------------------------
(* The callers: an answer is taken, or a call is dropped.                  *)

\* A call that is over is in no place.
LEMMA OverIs ==
    ASSUME PlacesSound, NEW c \in Clients, ~Open(c)
    PROVE  ~InDriver(c) /\ \A i \in DOMAIN commands : commands[i].who # c
  BY DEF PlacesSound, InDriver

\* An answer that is taken is over, and a grant that is taken is held.
LEMMA TakeAnswerSafe ==
    ASSUME ScopesIInv, NEW c \in Clients, TakeAnswer(c), Ungated
    PROVE  ScopesIInv'
<1>a. /\ DriverTyped /\ CallsTyped /\ HistoryTyped /\ PhasesSound /\ StagesSound /\ LanesSound
      /\ OwnersSound /\ AskersSound /\ PlacesSound /\ VerdictsSound /\ GrantsKept
      /\ LiveRootsDisjoint /\ RegistryHonest /\ EveryStreamHeld /\ NoOrphan /\ BacklogBounded
      /\ CloseHonest
  BY DEF ScopesIInv, RootsSound, StreamsSound
<1>b. d' = d
  BY DEF TakeAnswer
<1>d. UNCHANGED <<commands, unwinds, released, phase, reported, running, dead>>
  BY DEF TakeAnswer
<1>f. ended' = ended
  BY <1>b DEF Ungated
<1>g. /\ DOMAIN calls' = Clients /\ calls'[c] = Idle /\ \A o \in Clients : o # c => calls'[o] = calls[o]
      /\ calls[c] # Idle /\ ~Open(c)
  BY <1>a DEF TakeAnswer, CallsTyped, Open
<1>n. ~InDriver(c) /\ \A i \in DOMAIN commands : commands[i].who # c
  BY <1>a, <1>g, OverIs
<1>q. /\ held' \subseteq Scope /\ \A t \in Scope : t \in held' <=> t \in held \/ Grantee(c, t)
  <2>1. \A t : Granted(t).k = "grant" /\ Granted(t).s = t
    BY DEF Granted
  <2>2. CASE calls[c].ans.k = "grant"
    <3>1. calls[c].ans.s \in Scope /\ calls[c].ans = Granted(calls[c].ans.s) /\ held \subseteq Scope
      BY <1>a, <1>g, <2>2 DEF CallsTyped
    <3>2. held' = held \cup {calls[c].ans.s}
      BY <2>2 DEF TakeAnswer
    <3>3. \A t \in Scope : Grantee(c, t) <=> t = calls[c].ans.s
      BY <1>g, <2>1, <3>1 DEF Grantee
    <3> QED BY <3>1, <3>2, <3>3
  <2>3. CASE calls[c].ans.k # "grant"
    <3>1. held' = held /\ held \subseteq Scope
      BY <1>a, <2>3 DEF TakeAnswer, CallsTyped
    <3>2. \A t \in Scope : ~Grantee(c, t)
      BY <2>1, <2>3 DEF Grantee
    <3> QED BY <3>1, <3>2
  <2> QED BY <2>2, <2>3
<1>e. /\ DOMAIN reg' = {"live", "pending"}
      /\ reg'.live = reg.live \/ (phase # "run" /\ DOMAIN reg'.live = {})
      /\ \A p \in DOMAIN reg'.pending :
            p \in DOMAIN reg.pending /\ ~(calls[c].op = "watch" /\ calls[c].path = p)
  <2> DEFINE r == IF calls[c].op = "watch" THEN drop_reservation(reg, calls[c].path) ELSE reg
  <2>1. /\ DOMAIN r = {"live", "pending"} /\ r.live = reg.live
        /\ \A p \in DOMAIN r.pending :
              p \in DOMAIN reg.pending /\ ~(calls[c].op = "watch" /\ calls[c].path = p)
    BY <1>a DEF HistoryTyped, drop_reservation, Drop
  <2>2. reg' = driver_gone(r, calls[c].ans)
    BY DEF TakeAnswer
  <2> HIDE DEF r
  <2>3. CASE calls[c].ans = Acked("closed")
    <3>1. phase # "run"
      BY <1>a, <1>g, <2>3 DEF PhasesSound
    <3>2. reg' = [r EXCEPT !.live = Empty] /\ DOMAIN Empty = {}
      BY <2>2, <2>3 DEF driver_gone, Empty
    <3> QED BY <2>1, <3>1, <3>2
  <2>4. CASE calls[c].ans # Acked("closed")
    BY <2>1, <2>2, <2>4 DEF driver_gone
  <2> QED BY <2>3, <2>4
<1>p. /\ \A o \in Clients, t \in Scope : Grantee(o, t)' <=> Grantee(o, t) /\ o # c
      /\ \A t \in Scope : /\ Promised(t)' => Promised(t)
                          /\ Promised(t) => Promised(t)' \/ t \in held'
                          /\ Discarded(t)' <=> Discarded(t)
  <2>1. \A o \in Clients, t \in Scope : Grantee(o, t)' <=> Grantee(o, t) /\ o # c
    BY <1>g DEF Grantee
  <2> QED BY <1>d, <1>q, <2>1 DEF Promised, Discarded
<1>1. DriverTyped'
  BY <1>a, <1>b DEF DriverTyped
<1>2. CallsTyped'
  BY <1>a, <1>d, <1>g, <1>q DEF CallsTyped
<1>3. HistoryTyped'
  BY <1>a, <1>b, <1>d, <1>e DEF HistoryTyped
<1>4. PhasesSound'
  BY <1>a, <1>b, <1>d, <1>g DEF PhasesSound
<1>5. StagesSound'
  BY <1>a, <1>b, <1>d, <1>f DEF StagesSound
<1>6. LanesSound'
  BY <1>a, <1>b, <1>d DEF LanesSound
<1>7. OwnersSound'
  <2> SUFFICES ASSUME phase = "run" PROVE OwnersSound'
    BY <1>d DEF OwnersSound
  <2>1. ASSUME NEW t \in Scope
        PROVE  /\ t \in held' \cup released' \cup DOMAIN d'.deferred \/ Promised(t)' \/ Discarded(t)' =>
                    t \in 1 .. d'.scope_seq /\ t \notin DOMAIN d'.watch_replies
               /\ t \in held' => t \notin released'
               /\ t \in DOMAIN d'.deferred => t \notin held' \cup released'
               /\ Promised(t)' => t \notin held' \cup released' \cup DOMAIN d'.deferred
               /\ Discarded(t)' => t \notin held' \cup DOMAIN d'.deferred /\ ~Promised(t)'
               /\ \A o, z \in Clients : Grantee(o, t)' /\ Grantee(z, t)' => o = z
    <3>1. \A o, z \in Clients : Grantee(o, t)' /\ Grantee(z, t)' => o = z
      BY <1>a, <1>p DEF OwnersSound
    <3>2. /\ t \in held \cup released \cup DOMAIN d.deferred \/ Promised(t) \/ Discarded(t) =>
               t \in 1 .. d.scope_seq /\ t \notin DOMAIN d.watch_replies
          /\ t \in held => t \notin released
          /\ t \in DOMAIN d.deferred => t \notin held \cup released
          /\ Promised(t) => t \notin held \cup released \cup DOMAIN d.deferred
          /\ Discarded(t) => t \notin held \cup DOMAIN d.deferred /\ ~Promised(t)
      BY <1>a DEF OwnersSound
    <3>3. Grantee(c, t) => Promised(t)
      BY DEF Promised
    <3>4. Promised(t)' => ~Grantee(c, t)
      BY <1>a, <1>p DEF Promised, OwnersSound
    <3> QED BY <1>b, <1>d, <1>p, <1>q, <3>1, <3>2, <3>3, <3>4
  <2>2. \A t \in DOMAIN d'.replaces : t \in held' \cup released'
    BY <1>a, <1>b, <1>d, <1>q DEF OwnersSound, DriverTyped
  <2>3. \A t \in Scope : d'.waiters[t] # <<>> => t \in released' /\ t \notin d'.handles
    BY <1>a, <1>b, <1>d DEF OwnersSound
  <2> QED BY <2>1, <2>2, <2>3 DEF OwnersSound
<1>8. AskersSound'
  BY <1>a, <1>d, <1>g, <1>q DEF AskersSound, CallsTyped
<1>9. PlacesSound'
  <2>1. ASSUME NEW o \in Clients, Placed(o)' PROVE calls'[o] = calls[o]
    <3>1. Placed(o)
      BY <1>b, <1>d, <2>1 DEF Placed, InDriver
    <3> QED BY <1>g, <1>n, <3>1 DEF Placed
  <2>2. \A i \in DOMAIN commands' : i \in Nat /\ i + 0 \in DOMAIN commands /\ commands'[i] = commands[i + 0]
    BY <1>a, <1>d DEF CallsTyped
  <2> QED BY <1>a, <1>b, <2>1, <2>2, PlacesKept
<1>10. VerdictsSound'
  BY <1>a, <1>b, <1>g DEF VerdictsSound
<1>11. GrantsKept'
  <2> SUFFICES ASSUME phase' = "run", NEW t \in Scope, t \in held' \/ Promised(t)'
               PROVE  t \in d'.handles \/ \E l \in dead' : d'.lane_of[l] = t
    BY DEF GrantsKept
  <2> QED BY <1>a, <1>b, <1>d, <1>p, <1>q DEF GrantsKept, Promised
<1>12. LiveRootsDisjoint'
  BY <1>a, <1>e DEF LiveRootsDisjoint
<1>13. RegistryHonest'
  <2>1. phase' = "run" => DOMAIN reg'.live = d'.handles
    BY <1>a, <1>b, <1>d, <1>e DEF RegistryHonest
  <2> SUFFICES ASSUME NEW p \in DOMAIN reg'.pending PROVE Claimed(p)'
    BY <2>1 DEF RegistryHonest, Claimed
  <2>2. Claimed(p)
    BY <1>a, <1>e DEF RegistryHonest, Claimed
  <2>3. Queued("replace")' = Queued("replace")
    BY <1>d DEF Queued
  <2> QED BY <1>b, <1>d, <1>e, <1>g, <2>2, <2>3 DEF Claimed
<1>14. EveryStreamHeld'
  BY <1>a, <1>b, <1>d DEF EveryStreamHeld, Arming
<1>15. NoOrphan'
  <2> SUFFICES ASSUME phase = "run", NEW t \in d'.handles PROVE Owner(t)'
    BY <1>d DEF NoOrphan, Owner
  <2>1. t \in Scope /\ Owner(t)
    BY <1>a, <1>b, <1>d DEF NoOrphan, Owner, DriverTyped
  <2> QED BY <1>b, <1>d, <1>p, <1>q, <2>1 DEF Owner
<1>16. BacklogBounded'
  <2> SUFFICES ASSUME phase = "run" PROVE BacklogBounded'
    BY <1>d DEF BacklogBounded
  <2>1. ASSUME NEW t \in Scope PROVE Owed(t)' <= Owed(t)
    <3>1. /\ d.downs[t] \in Nat /\ d.unproven[t] \in Nat
      BY <1>a DEF DriverTyped
    <3> QED BY <1>b, <1>f, <3>1 DEF Owed, InFlight, One
  <2> QED BY <1>a, <1>1, <2>1, BacklogKept
<1>17. CloseHonest'
  BY <1>a, <1>b, <1>d DEF CloseHonest
<1> QED BY <1>1, <1>2, <1>3, <1>4, <1>5, <1>6, <1>7, <1>8, <1>9, <1>10, <1>11, <1>12, <1>13,
         <1>14, <1>15, <1>16, <1>17 DEF ScopesIInv, RootsSound, StreamsSound

\* A dropped call leaves its replies where they were, with nobody behind them.
LEMMA OrphanIs ==
    ASSUME NEW f, NEW c
    PROVE  /\ DOMAIN Orphaned(f, c) = DOMAIN f
           /\ \A x \in DOMAIN f : "who" \in DOMAIN f[x] =>
                 /\ DOMAIN Orphaned(f, c)[x] = DOMAIN f[x]
                 /\ Orphaned(f, c)[x].who = IF f[x].who = c THEN Gone ELSE f[x].who
                 /\ \A y \in DOMAIN f[x] \ {"who"} : Orphaned(f, c)[x][y] = f[x][y]
  BY DEF Orphaned

\* The waiters of q without c, who wait as they did.
Left(q, c) == LET o == Orphaned(q, c) IN Kept(o, {i \in DOMAIN o : o[i].who # Gone})

\* The waiters that stay are those that were there, without the one that left.
LEMMA WaitersLeft ==
    ASSUME NEW q \in Seq(Waiter), NEW c \in Clients
    PROVE  /\ Left(q, c) \in Seq(Waiter)
           /\ \A i \in DOMAIN Left(q, c) :
                 \E j \in DOMAIN q : Left(q, c)[i] = q[j] /\ Left(q, c)[i].who # c
           /\ q = <<>> => Left(q, c) = <<>>
<1> DEFINE o == Orphaned(q, c)
           I == {i \in DOMAIN o : o[i].who # Gone}
           k == Kept(o, I)
<1>1. DOMAIN q = 1 .. Len(q) /\ Len(q) \in Nat /\ \A i \in DOMAIN q : q[i] \in Waiter
  OBVIOUS
<1>2. \A i \in DOMAIN q : q[i].who \in Whose /\ DOMAIN q[i] = {"who", "verdict"}
  BY <1>1 DEF Waiter
<1>3. /\ DOMAIN o = DOMAIN q
      /\ \A i \in DOMAIN q : /\ q[i].who # c => o[i] = q[i]
                             /\ q[i].who = c => o[i] = [q[i] EXCEPT !.who = Gone]
  BY DEF Orphaned
<1>4. \A i \in DOMAIN q : o[i] \in Waiter /\ (q[i].who = c => o[i].who = Gone)
  BY <1>1, <1>3 DEF Waiter, Whose
<1>5. o \in Seq(Waiter)
  <2>1. o = [i \in 1 .. Len(q) |-> o[i]]
    BY <1>1, <1>3 DEF Orphaned
  <2> HIDE DEF o
  <2> QED BY <1>1, <1>3, <1>4, <2>1
<1>6. I \in SUBSET DOMAIN o
  OBVIOUS
<1> HIDE DEF o
<1>7. /\ k \in Seq(Waiter) /\ \A n \in DOMAIN k : \E i \in I : k[n] = o[i]
      /\ Len(k) <= Len(o) /\ Len(k) \in Nat
  BY <1>5, <1>6, KeptElements
<1>8. \A i \in I : i \in DOMAIN q /\ q[i].who # c /\ o[i] = q[i]
  BY <1>3, <1>4
<1>9. q = <<>> => k = <<>>
  <2> SUFFICES ASSUME q = <<>> PROVE k = <<>>
    OBVIOUS
  <2> HIDE DEF k, I
  <2>1. Len(q) = 0 /\ Len(o) \in Nat /\ DOMAIN o = 1 .. Len(o) /\ DOMAIN o = {}
    BY <1>1, <1>3, <1>5
  <2> QED BY <1>5, <1>7, <2>1
<1> HIDE DEF k
<1>10. \A i \in DOMAIN k : \E j \in DOMAIN q : k[i] = q[j] /\ k[i].who # c
  BY <1>7, <1>8
<1> QED BY <1>7, <1>9, <1>10 DEF k, o, I, Left

\* A call that is dropped is forgotten wherever it had got to, and a grant it left is unwound.
LEMMA CancelSafe ==
    ASSUME ScopesIInv, NEW c \in Clients, Cancel(c), Ungated
    PROVE  ScopesIInv'
<1>a. /\ DriverTyped /\ CallsTyped /\ HistoryTyped /\ PhasesSound /\ StagesSound /\ LanesSound
      /\ OwnersSound /\ AskersSound /\ PlacesSound /\ VerdictsSound /\ GrantsKept
      /\ LiveRootsDisjoint /\ RegistryHonest /\ EveryStreamHeld /\ NoOrphan /\ BacklogBounded
      /\ CloseHonest
  BY DEF ScopesIInv, RootsSound, StreamsSound
<1>i. /\ DOMAIN d' = Fields
      /\ \A x \in Fields \ {"watch_replies", "deferred", "replaces", "waiters"} : d'[x] = d[x]
      /\ d'.watch_replies = Orphaned(d.watch_replies, c) /\ d'.deferred = Orphaned(d.deferred, c)
      /\ d'.replaces = Orphaned(d.replaces, c)
      /\ \A t \in Scope : d'.waiters[t] = Left(d.waiters[t], c)
      /\ DOMAIN d'.waiters = Scope /\ d'.waiters = [t \in Scope |-> d'.waiters[t]]
  <2> DEFINE dd == [d EXCEPT !.watch_replies = Orphaned(@, c), !.deferred = Orphaned(@, c),
                           !.replaces = Orphaned(@, c), !.waiters = [t \in Scope |-> Orphaned(@[t], c)]]
  <2>1. d' = Pruned(dd)
    BY DEF Cancel
  <2>2. DOMAIN d = Fields
    BY <1>a DEF DriverTyped
  <2>3. /\ DOMAIN dd = Fields
        /\ \A x \in Fields \ {"watch_replies", "deferred", "replaces", "waiters"} : dd[x] = d[x]
        /\ dd.watch_replies = Orphaned(d.watch_replies, c) /\ dd.deferred = Orphaned(d.deferred, c)
        /\ dd.replaces = Orphaned(d.replaces, c)
        /\ dd.waiters = [t \in Scope |-> Orphaned(d.waiters[t], c)]
    BY <2>2 DEF Fields
  <2> HIDE DEF dd
  <2>4. /\ DOMAIN d' = Fields /\ \A x \in Fields \ {"waiters"} : d'[x] = dd[x]
        /\ d'.waiters = [t \in Scope |->
              Kept(dd.waiters[t], {i \in DOMAIN dd.waiters[t] : dd.waiters[t][i].who # Gone})]
    BY <2>1, <2>3 DEF Pruned, Fields
  <2>5. \A t \in Scope : d'.waiters[t] = Left(d.waiters[t], c)
    BY <2>3, <2>4 DEF Left
  <2> QED BY <2>3, <2>4, <2>5 DEF Fields
<1>b. /\ DOMAIN d' = Fields /\ d'.handles = d.handles /\ d'.lanes = d.lanes
      /\ d'.lane_of = d.lane_of
  BY <1>i DEF Fields
<1>j. /\ DOMAIN d'.watch_replies = DOMAIN d.watch_replies /\ DOMAIN d'.deferred = DOMAIN d.deferred
      /\ DOMAIN d'.replaces = DOMAIN d.replaces
      /\ \A t \in DOMAIN d.watch_replies :
            /\ DOMAIN d'.watch_replies[t] = {"who", "path"}
            /\ d'.watch_replies[t].who = IF d.watch_replies[t].who = c THEN Gone ELSE d.watch_replies[t].who
      /\ \A t \in DOMAIN d.deferred :
            /\ DOMAIN d'.deferred[t] = {"who", "path"}
            /\ d'.deferred[t].who = IF d.deferred[t].who = c THEN Gone ELSE d.deferred[t].who
      /\ \A t \in DOMAIN d.replaces :
            /\ DOMAIN d'.replaces[t] = {"who", "path", "mode", "root", "left"}
            /\ d'.replaces[t].mode = d.replaces[t].mode /\ d'.replaces[t].path = d.replaces[t].path
            /\ d'.replaces[t].who = IF d.replaces[t].who = c THEN Gone ELSE d.replaces[t].who
  <2>1. /\ \A t \in DOMAIN d.watch_replies : DOMAIN d.watch_replies[t] = {"who", "path"}
        /\ \A t \in DOMAIN d.deferred : DOMAIN d.deferred[t] = {"who", "path"}
        /\ \A t \in DOMAIN d.replaces : DOMAIN d.replaces[t] = {"who", "path", "mode", "root", "left"}
    BY <1>a DEF DriverTyped
  <2>2. /\ DOMAIN d'.watch_replies = DOMAIN d.watch_replies
        /\ \A t \in DOMAIN d.watch_replies :
              /\ DOMAIN d'.watch_replies[t] = {"who", "path"}
              /\ d'.watch_replies[t].who = IF d.watch_replies[t].who = c THEN Gone ELSE d.watch_replies[t].who
    BY <1>i, <2>1, OrphanIs
  <2>3. /\ DOMAIN d'.deferred = DOMAIN d.deferred
        /\ \A t \in DOMAIN d.deferred :
              /\ DOMAIN d'.deferred[t] = {"who", "path"}
              /\ d'.deferred[t].who = IF d.deferred[t].who = c THEN Gone ELSE d.deferred[t].who
    BY <1>i, <2>1, OrphanIs
  <2>4. /\ DOMAIN d'.replaces = DOMAIN d.replaces
        /\ \A t \in DOMAIN d.replaces :
              /\ DOMAIN d'.replaces[t] = {"who", "path", "mode", "root", "left"}
              /\ d'.replaces[t].mode = d.replaces[t].mode /\ d'.replaces[t].path = d.replaces[t].path
              /\ d'.replaces[t].who = IF d.replaces[t].who = c THEN Gone ELSE d.replaces[t].who
    BY <1>i, <2>1, OrphanIs
  <2> QED BY <2>2, <2>3, <2>4
<1>c. /\ d'.scope_seq = d.scope_seq /\ d'.downs = d.downs /\ d'.unproven = d.unproven
      /\ d'.spawns = d.spawns /\ d'.arms = d.arms
      /\ d'.waiters \in [Scope -> Seq(Waiter)]
      /\ \A t \in Scope : /\ d.waiters[t] = <<>> => d'.waiters[t] = <<>>
                          /\ \A i \in DOMAIN d'.waiters[t] : \E j \in DOMAIN d.waiters[t] :
                                d'.waiters[t][i] = d.waiters[t][j] /\ d'.waiters[t][i].who # c
  <2>1. \A t \in Scope : d.waiters[t] \in Seq(Waiter)
    BY <1>a DEF DriverTyped
  <2>2. ASSUME NEW t \in Scope
        PROVE  /\ d'.waiters[t] \in Seq(Waiter)
               /\ d.waiters[t] = <<>> => d'.waiters[t] = <<>>
               /\ \A i \in DOMAIN d'.waiters[t] : \E j \in DOMAIN d.waiters[t] :
                     d'.waiters[t][i] = d.waiters[t][j] /\ d'.waiters[t][i].who # c
    <3> DEFINE q == d.waiters[t]
    <3>1. q \in Seq(Waiter) /\ d'.waiters[t] = Left(q, c)
      BY <1>i, <2>1
    <3> HIDE DEF q
    <3>2. /\ Left(q, c) \in Seq(Waiter)
          /\ \A i \in DOMAIN Left(q, c) :
                \E j \in DOMAIN q : Left(q, c)[i] = q[j] /\ Left(q, c)[i].who # c
          /\ q = <<>> => Left(q, c) = <<>>
      BY <3>1, WaitersLeft
    <3> DEFINE k == Left(q, c)
    <3> HIDE DEF k
    <3>3. /\ k \in Seq(Waiter)
          /\ q = <<>> => k = <<>>
          /\ \A i \in DOMAIN k : \E j \in DOMAIN q : k[i] = q[j] /\ k[i].who # c
      BY <3>1, <3>2 DEF k
    <3>4. d'.waiters[t] = k
      BY <3>1 DEF k
    <3> QED BY <3>3, <3>4 DEF q
  <2> QED BY <1>i, <2>2 DEF Fields
<1>d. UNCHANGED <<held, released, phase, reported, running, dead>>
  BY DEF Cancel, front
<1>m. /\ commands' \in Seq(Message) /\ DOMAIN commands' = DOMAIN commands
      /\ \A i \in DOMAIN commands : /\ commands'[i].op = commands[i].op /\ commands'[i].s = commands[i].s
                                    /\ commands'[i].path = commands[i].path
                                    /\ commands'[i].who = IF commands[i].who = c THEN Gone ELSE commands[i].who
  <2>1. commands \in Seq(Message) /\ commands' = Orphaned(commands, c)
    BY <1>a DEF CallsTyped, Message, Cancel
  <2>2. DOMAIN commands = 1 .. Len(commands) /\ Len(commands) \in Nat /\ \A i \in DOMAIN commands : commands[i] \in Message
    BY <2>1
  <2>3. /\ DOMAIN commands' = DOMAIN commands
        /\ \A i \in DOMAIN commands :
              commands'[i] = IF commands[i].who = c THEN [commands[i] EXCEPT !.who = Gone] ELSE commands[i]
    BY <2>1 DEF Orphaned
  <2>4. \A i \in DOMAIN commands :
              /\ commands'[i] \in Message
              /\ commands'[i].op = commands[i].op /\ commands'[i].s = commands[i].s
              /\ commands'[i].path = commands[i].path
              /\ commands'[i].who = IF commands[i].who = c THEN Gone ELSE commands[i].who
    BY <2>2, <2>3 DEF Message, Whose
  <2>5. commands' = [i \in 1 .. Len(commands) |-> commands'[i]]
    BY <2>1, <2>2 DEF Orphaned
  <2>6. commands' \in Seq(Message)
    BY <2>2, <2>4, <2>5
  <2> QED BY <2>3, <2>4, <2>6
<1>f. ended' = ended
  BY <1>b DEF Ungated
<1>g. /\ DOMAIN calls' = Clients /\ calls'[c] = Idle /\ \A o \in Clients : o # c => calls'[o] = calls[o]
      /\ calls[c] # Idle /\ Gone \notin Clients
  BY <1>a, FsScopesAssumption DEF Cancel, CallsTyped
<1>e. /\ DOMAIN reg' = {"live", "pending"} /\ reg'.live = reg.live
      /\ \A p \in DOMAIN reg'.pending :
            p \in DOMAIN reg.pending /\ ~(calls[c].op = "watch" /\ calls[c].path = p)
  BY <1>a DEF HistoryTyped, drop_reservation, Drop, Cancel
<1>p. /\ \A o \in Clients, t \in Scope : Grantee(o, t)' <=> Grantee(o, t) /\ o # c
      /\ unwinds' \in Seq(Scope)
      /\ \A t \in Scope : /\ Promised(t)' => Promised(t)
                          /\ Promised(t) => Promised(t)' \/ Grantee(c, t)
                          /\ phase # "closed" => (Discarded(t)' <=> Discarded(t) \/ Grantee(c, t))
  <2>1. \A o \in Clients, t \in Scope : Grantee(o, t)' <=> Grantee(o, t) /\ o # c
    BY <1>g DEF Grantee
  <2>2. \A t : Granted(t).k = "grant" /\ Granted(t).s = t
    BY DEF Granted
  <2>3. unwinds \in Seq(Scope)
    BY <1>a DEF CallsTyped
  <2>4. CASE calls[c].ans.k = "grant" /\ phase # "closed"
    <3> DEFINE s == calls[c].ans.s
    <3>1. s \in Scope /\ calls[c].ans = Granted(s)
      BY <1>a, <1>g, <2>4 DEF CallsTyped
    <3> HIDE DEF s
    <3>2. unwinds' = Append(unwinds, s)
      BY <2>4 DEF Cancel, drop_grant, s
    <3>3. \A t \in Scope : Grantee(c, t) <=> t = s
      BY <1>g, <2>2, <3>1 DEF Grantee
    <3>4. unwinds' \in Seq(Scope) /\ \A t \in Scope : Discarded(t)' <=> Discarded(t) \/ t = s
      BY <2>3, <3>1, <3>2, AppendIs DEF Discarded
    <3> QED BY <2>1, <3>3, <3>4 DEF Promised
  <2>5. CASE ~(calls[c].ans.k = "grant" /\ phase # "closed")
    <3>1. unwinds' = unwinds
      BY <2>5 DEF Cancel, drop_grant
    <3>2. phase # "closed" => \A t \in Scope : ~Grantee(c, t)
      BY <2>2, <2>5 DEF Grantee
    <3> QED BY <2>1, <2>3, <3>1, <3>2 DEF Promised, Discarded
  <2> QED BY <2>4, <2>5
<1>n. \A o \in Clients : o # c =>
            /\ (Open(o)' <=> Open(o)) /\ calls'[o] = calls[o]
            /\ InDriver(o)' => InDriver(o)
  <2>1. ASSUME NEW o \in Clients, o # c, InDriver(o)' PROVE InDriver(o)
    BY <1>c, <1>g, <1>j, <2>1 DEF InDriver
  <2> QED BY <1>g, <2>1 DEF Open
<1>q. ~InDriver(c)' /\ \A i \in DOMAIN commands' : commands'[i].who # c
  <2>1. \A i \in DOMAIN commands' : commands'[i].who # c
    BY <1>g, <1>m
  <2>2. /\ \A t \in DOMAIN d'.watch_replies : d'.watch_replies[t].who # c
        /\ \A t \in DOMAIN d'.deferred : d'.deferred[t].who # c
        /\ \A t \in DOMAIN d'.replaces : d'.replaces[t].who # c
    BY <1>g, <1>j
  <2>3. \A t \in Scope : \A i \in DOMAIN d'.waiters[t] : d'.waiters[t][i].who # c
    BY <1>c
  <2> QED BY <2>1, <2>2, <2>3 DEF InDriver
<1>1. DriverTyped'
  BY <1>a, <1>b, <1>c, <1>j DEF DriverTyped
<1>2. CallsTyped'
  <2>1. commands' \in Seq([op : Calls, who : Whose, path : Where, s : Scope \cup {0}, awaited : BOOLEAN])
    BY <1>m DEF Message
  <2> QED BY <1>a, <1>d, <1>g, <1>p, <2>1 DEF CallsTyped
<1>3. HistoryTyped'
  BY <1>a, <1>b, <1>d, <1>e DEF HistoryTyped
<1>4. PhasesSound'
  <2>1. phase = "closed" => \A t \in Scope : d'.waiters[t] = <<>>
    BY <1>a, <1>c DEF PhasesSound
  <2>2. phase # "run" => d'.handles = {} /\ DOMAIN d'.replaces = {}
    BY <1>a, <1>b, <1>j DEF PhasesSound
  <2> QED BY <1>a, <1>d, <1>g, <2>1, <2>2 DEF PhasesSound
<1>5. StagesSound'
  <2> SUFFICES ASSUME phase = "run" PROVE StagesSound'
    BY <1>d DEF StagesSound
  <2>1. DOMAIN d'.replaces \cup d'.handles \cup ended' \subseteq 1 .. d'.scope_seq
    BY <1>a, <1>b, <1>c, <1>d, <1>f, <1>j DEF StagesSound
  <2>2. DOMAIN d'.watch_replies = d'.spawns \ DOMAIN d'.replaces
    BY <1>a, <1>b, <1>c, <1>d, <1>f, <1>j DEF StagesSound
  <2>3. /\ DOMAIN d'.watch_replies \cap (d'.handles \cup ended') = {}
        /\ ended' \cap d'.handles = {}
    BY <1>a, <1>b, <1>c, <1>d, <1>f, <1>j DEF StagesSound
  <2>4. \A t \in d'.spawns \cap DOMAIN d'.replaces : d'.replaces[t].mode = "spawning"
    BY <1>a, <1>b, <1>c, <1>d, <1>f, <1>j DEF StagesSound
  <2>5. \A t \in DOMAIN d'.deferred :
              /\ t \in d'.handles /\ t \notin DOMAIN d'.replaces
              /\ [s |-> t, lane |-> d'.lanes[t]] \in d'.arms
    BY <1>a, <1>b, <1>c, <1>d, <1>f, <1>j DEF StagesSound
  <2> QED BY <2>1, <2>2, <2>3, <2>4, <2>5 DEF StagesSound
<1>6. LanesSound'
  BY <1>a, <1>b, <1>d DEF LanesSound
<1>7. OwnersSound'
  <2> SUFFICES ASSUME phase = "run" PROVE OwnersSound'
    BY <1>d DEF OwnersSound
  <2>1. ASSUME NEW t \in Scope
        PROVE  /\ t \in held' \cup released' \cup DOMAIN d'.deferred \/ Promised(t)' \/ Discarded(t)' =>
                    t \in 1 .. d'.scope_seq /\ t \notin DOMAIN d'.watch_replies
               /\ t \in held' => t \notin released'
               /\ t \in DOMAIN d'.deferred => t \notin held' \cup released'
               /\ Promised(t)' => t \notin held' \cup released' \cup DOMAIN d'.deferred
               /\ Discarded(t)' => t \notin held' \cup DOMAIN d'.deferred /\ ~Promised(t)'
               /\ \A o, z \in Clients : Grantee(o, t)' /\ Grantee(z, t)' => o = z
    <3>1. \A o, z \in Clients : Grantee(o, t)' /\ Grantee(z, t)' => o = z
      BY <1>a, <1>p DEF OwnersSound
    <3>2. /\ t \in held \cup released \cup DOMAIN d.deferred \/ Promised(t) \/ Discarded(t) =>
               t \in 1 .. d.scope_seq /\ t \notin DOMAIN d.watch_replies
          /\ t \in held => t \notin released
          /\ t \in DOMAIN d.deferred => t \notin held \cup released
          /\ Promised(t) => t \notin held \cup released \cup DOMAIN d.deferred
          /\ Discarded(t) => t \notin held \cup DOMAIN d.deferred /\ ~Promised(t)
      BY <1>a DEF OwnersSound
    <3>3. Grantee(c, t) => Promised(t)
      BY DEF Promised
    <3>4. Promised(t)' => ~Grantee(c, t)
      BY <1>a, <1>p DEF Promised, OwnersSound
    <3> QED BY <1>c, <1>d, <1>j, <1>p, <3>1, <3>2, <3>3, <3>4
  <2>2. \A t \in DOMAIN d'.replaces : t \in held' \cup released'
    BY <1>a, <1>d, <1>j DEF OwnersSound
  <2>3. \A t \in Scope : d'.waiters[t] # <<>> => t \in released' /\ t \notin d'.handles
    BY <1>a, <1>b, <1>c, <1>d DEF OwnersSound
  <2> QED BY <2>1, <2>2, <2>3 DEF OwnersSound
<1>8. AskersSound'
  BY <1>a, <1>d, <1>g, <1>m DEF AskersSound
<1>9. PlacesSound'
  <2>1. ASSUME NEW o \in Clients, NEW i \in DOMAIN commands', commands'[i].who = o
        PROVE  /\ Open(o)' /\ calls'[o].op = commands'[i].op /\ calls'[o].s = commands'[i].s
               /\ ~InDriver(o)' /\ \A j \in DOMAIN commands' : commands'[j].who = o => j = i
    <3>1. o # c /\ i \in DOMAIN commands /\ commands[i].who = o
      BY <1>g, <1>m, <1>q, <2>1
    <3>2. /\ Open(o) /\ calls[o].op = commands[i].op /\ calls[o].s = commands[i].s
          /\ ~InDriver(o) /\ \A j \in DOMAIN commands : commands[j].who = o => j = i
      BY <1>a, <3>1 DEF PlacesSound
    <3>3. \A j \in DOMAIN commands' : commands'[j].who = o => commands[j].who = o
      BY <1>g, <1>m
    <3>4. Open(o)' /\ calls'[o] = calls[o] /\ ~InDriver(o)'
      BY <1>n, <3>1, <3>2
    <3> QED BY <1>m, <3>1, <3>2, <3>3, <3>4
  <2>2. ASSUME NEW o \in Clients
        PROVE  /\ \A t \in DOMAIN d'.watch_replies : d'.watch_replies[t].who = o =>
                     /\ Open(o)' /\ calls'[o].op = "watch"
                     /\ \A z \in DOMAIN d'.watch_replies : d'.watch_replies[z].who = o => z = t
                     /\ \A z \in DOMAIN d'.deferred : d'.deferred[z].who # o
               /\ \A t \in DOMAIN d'.deferred : d'.deferred[t].who = o =>
                     /\ Open(o)' /\ calls'[o].op = "watch"
                     /\ \A z \in DOMAIN d'.deferred : d'.deferred[z].who = o => z = t
               /\ \A t \in DOMAIN d'.replaces : d'.replaces[t].who = o =>
                     Open(o)' /\ calls'[o].op = "replace" /\ calls'[o].s = t
    <3>1. CASE o = c
      BY <1>g, <1>j, <3>1
    <3>2. CASE o # c
      <4>1. /\ \A t \in DOMAIN d'.watch_replies : d'.watch_replies[t].who = o <=> d.watch_replies[t].who = o
            /\ \A t \in DOMAIN d'.deferred : d'.deferred[t].who = o <=> d.deferred[t].who = o
            /\ \A t \in DOMAIN d'.replaces : d'.replaces[t].who = o <=> d.replaces[t].who = o
        BY <1>g, <1>j, <3>2
      <4>2. (Open(o)' <=> Open(o)) /\ calls'[o] = calls[o]
        BY <1>n, <3>2
      <4> QED BY <1>a, <1>j, <4>1, <4>2 DEF PlacesSound
    <3> QED BY <3>1, <3>2
  <2>3. ASSUME NEW o \in Clients, NEW t \in Scope, NEW i \in DOMAIN d'.waiters[t], d'.waiters[t][i].who = o
        PROVE  Open(o)' /\ calls'[o].op = "unwatch" /\ calls'[o].s = t
    <3>1. PICK j \in DOMAIN d.waiters[t] : d.waiters[t][j].who = o /\ o # c
      BY <1>c, <2>3
    <3>2. Open(o) /\ calls[o].op = "unwatch" /\ calls[o].s = t
      BY <1>a, <3>1 DEF PlacesSound
    <3>3. Open(o)' /\ calls'[o] = calls[o]
      BY <1>n, <3>1, <3>2
    <3> QED BY <3>2, <3>3
  <2> QED BY <2>1, <2>2, <2>3 DEF PlacesSound
<1>10. VerdictsSound'
  <2>1. ASSUME NEW t \in Scope, NEW i \in DOMAIN d'.waiters[t], d'.waiters[t][i].verdict = "torn"
        PROVE  d'.unproven[t] = 0
    <3>1. PICK j \in DOMAIN d.waiters[t] : d.waiters[t][j].verdict = "torn"
      BY <1>c, <2>1
    <3> QED BY <1>a, <1>c, <3>1 DEF VerdictsSound
  <2> QED BY <1>a, <1>b, <1>c, <1>g, <1>j, <2>1 DEF VerdictsSound
<1>11. GrantsKept'
  <2> SUFFICES ASSUME phase' = "run", NEW t \in Scope, t \in held' \/ Promised(t)'
               PROVE  t \in d'.handles \/ \E l \in dead' : d'.lane_of[l] = t
    BY DEF GrantsKept
  <2> QED BY <1>a, <1>b, <1>d, <1>p DEF GrantsKept
<1>12. LiveRootsDisjoint'
  BY <1>a, <1>e DEF LiveRootsDisjoint
<1>13. RegistryHonest'
  <2>1. phase' = "run" => DOMAIN reg'.live = d'.handles
    BY <1>a, <1>b, <1>d, <1>e DEF RegistryHonest
  <2> SUFFICES ASSUME NEW p \in DOMAIN reg'.pending PROVE Claimed(p)'
    BY <2>1 DEF RegistryHonest, Claimed
  <2>2. Claimed(p)
    BY <1>a, <1>e DEF RegistryHonest, Claimed
  <2>3. \A i \in Queued("replace") : i \in Queued("replace")' /\ commands'[i].path = commands[i].path
    BY <1>m DEF Queued
  <2> QED BY <1>e, <1>g, <1>j, <2>2, <2>3 DEF Claimed
<1>14. EveryStreamHeld'
  <2>1. Arming' = Arming
    BY <1>j DEF Arming
  <2> QED BY <1>a, <1>b, <1>c, <1>d, <2>1 DEF EveryStreamHeld
<1>15. NoOrphan'
  <2> SUFFICES ASSUME phase = "run", NEW t \in d'.handles PROVE Owner(t)'
    BY <1>d DEF NoOrphan, Owner
  <2>1. t \in Scope /\ Owner(t)
    BY <1>a, <1>b, <1>d DEF NoOrphan, Owner, DriverTyped
  <2>2. ASSUME NEW i \in DOMAIN commands, commands[i].op = "unwatch", commands[i].s = t PROVE Owner(t)'
    BY <1>m, <2>2 DEF Owner
  <2> QED BY <1>b, <1>c, <1>d, <1>j, <1>p, <2>1, <2>2 DEF Owner
<1>16. BacklogBounded'
  <2> SUFFICES ASSUME phase = "run" PROVE BacklogBounded'
    BY <1>d DEF BacklogBounded
  <2>1. ASSUME NEW t \in Scope PROVE Owed(t)' <= Owed(t)
    <3>1. /\ d.downs[t] \in Nat /\ d.unproven[t] \in Nat
      BY <1>a DEF DriverTyped
    <3> QED BY <1>b, <1>c, <1>f, <1>j, <3>1 DEF Owed, InFlight, One
  <2> QED BY <1>a, <1>1, <2>1, BacklogKept
<1>17. CloseHonest'
  BY <1>a, <1>c, <1>d DEF CloseHonest
<1> QED BY <1>1, <1>2, <1>3, <1>4, <1>5, <1>6, <1>7, <1>8, <1>9, <1>10, <1>11, <1>12, <1>13,
         <1>14, <1>15, <1>16, <1>17 DEF ScopesIInv, RootsSound, StreamsSound

-----------------------------------------------------------------------------
(* Every step of the driver is one of these.                               *)

\* The arms in flight stay as they are known where none is added.
LEMMA GatesKept ==
    ASSUME GatesSound,
           phase' = "run" =>
               /\ phase = "run" /\ 1 .. d.scope_seq \subseteq 1 .. d'.scope_seq
               /\ d'.arms \subseteq d.arms
               /\ \A t \in DOMAIN d'.watch_replies :
                     \/ t \in DOMAIN d.watch_replies /\ d'.watch_replies[t] = d.watch_replies[t]
                     \/ t \notin 1 .. d.scope_seq /\ d'.watch_replies[t].who \in Whose
               /\ \A t \in DOMAIN d'.deferred :
                     t \in DOMAIN d.deferred /\ d'.lanes[t] = d.lanes[t] /\ d'.deferred[t] = d.deferred[t]
    PROVE  GatesSound'
  BY DEF GatesSound

\* The parts of the invariant.
LEMMA Known ==
    ASSUME Inductive
    PROVE  /\ ScopesIInv /\ GatesSound
           /\ DriverTyped /\ CallsTyped /\ HistoryTyped /\ PhasesSound /\ StagesSound /\ LanesSound
           /\ OwnersSound /\ AskersSound /\ PlacesSound /\ VerdictsSound /\ GrantsKept
           /\ LiveRootsDisjoint /\ RegistryHonest /\ EveryStreamHeld /\ NoOrphan /\ BacklogBounded
           /\ CloseHonest /\ DOMAIN d = Fields
  BY DEF Inductive, ScopesIInv, RootsSound, StreamsSound, DriverTyped

\* What the driver has in its hands, in numbers.
LEMMA PressureIs ==
    ASSUME DriverTyped, StagesSound, phase = "run" PROVE teardown_pressure(d) \in Nat
<1>1. Landed(d) \in [Scope -> Nat] /\ 1 \in Scope
  <2>1. Landed(d) \in [Scope -> Nat]
    BY DEF Landed, DriverTyped
  <2>2. 1 \in Scope
    BY FsScopesAssumption DEF Scope
  <2> QED BY <2>1, <2>2
<1>2. Total(Landed(d)) \in Nat
  BY <1>1, TotalAbove
<1>3. 1 \in Int /\ d.scope_seq \in Int /\ InFlight \subseteq (1 .. d.scope_seq) \cup Scope
  <2>1. 1 \in Int /\ d.scope_seq \in Int
    BY DEF DriverTyped
  <2>2. InFlight \subseteq (1 .. d.scope_seq) \cup Scope
    BY DEF DriverTyped, InFlight, StagesSound
  <2> QED BY <2>1, <2>2
<1>4. IsFiniteSet((1 .. d.scope_seq) \cup Scope)
  BY <1>3, FS_Interval, ScopeFinite, FS_Union
<1>5. IsFiniteSet(InFlight)
  BY <1>3, <1>4, FS_Subset
<1>6. Cardinality(InFlight) \in Nat
  BY <1>5, FS_CardinalityType
<1>7. teardown_pressure(d) = Total(Landed(d)) + Cardinality(InFlight)
  BY DEF teardown_pressure, InFlight
<1> QED BY <1>2, <1>6, <1>7

\* The sender of a command is answered.
LEMMA SenderTold ==
    ASSUME PlacesSound, CallsTyped, commands # <<>>, commands' = Tail(commands), NEW a,
           calls' = answer(calls, Cmd.who, a)
    PROVE  Told(Cmd.who, a)
<1>1. Cmd.who \in Clients => Open(Cmd.who)
  BY Sender
<1> QED BY <1>1, ToldBy

\* `Command::Watch`: refused for the backlog, or a scope is spawned for it.
LEMMA TakeWatchIs ==
    ASSUME Inductive, TakeWatch, Ungated PROVE Inductive'
<1>a. /\ ScopesIInv /\ GatesSound /\ PlacesSound /\ CallsTyped /\ DriverTyped /\ StagesSound /\ DOMAIN d = Fields
  BY Known
<1>b. /\ phase = "run" /\ commands # <<>> /\ Cmd.op = "watch" /\ commands' = Tail(commands)
      /\ UNCHANGED <<reg, unwinds, front, running, dead>> /\ phase' = phase
  BY DEF TakeWatch, Takes, Ready, front
<1>1. CASE teardown_pressure(d) >= MAX_TEARDOWN_BACKLOG
  <2>1. calls' = answer(calls, Cmd.who, Refused("backlog")) /\ d' = d
    BY <1>1 DEF TakeWatch
  <2>2. Told(Cmd.who, Refused("backlog")) /\ Refused("backlog").k = "err"
    BY <1>a, <1>b, <2>1, SenderTold DEF Refused
  <2>3. Pops(Refused("backlog"))
    BY <1>b, <2>1, <2>2 DEF Pops
  <2>4. ScopesIInv'
    BY <1>a, <1>b, <2>3, PopsSafe
  <2>5. GatesSound'
    BY <1>a, <1>b, <2>1 DEF GatesSound
  <2> QED BY <2>4, <2>5 DEF Inductive
<1>2. CASE ~(teardown_pressure(d) >= MAX_TEARDOWN_BACKLOG)
  <2> DEFINE s == d.scope_seq + 1
  <2>1. /\ d' = [d EXCEPT !.scope_seq = s, !.spawns = @ \cup {s},
                          !.watch_replies = Put(@, s, [who |-> Cmd.who, path |-> Cmd.path])]
        /\ calls' = calls
    BY <1>2 DEF TakeWatch
  <2>2. teardown_pressure(d) < MAX_TEARDOWN_BACKLOG
    BY <1>a, <1>b, <1>2, PressureIs, FsScopesAssumption
  <2>3. /\ DOMAIN d' = Fields /\ d'.scope_seq = s /\ d'.spawns = d.spawns \cup {s}
        /\ d'.watch_replies = Put(d.watch_replies, s, [who |-> Cmd.who, path |-> Cmd.path])
        /\ \A x \in Fields \ {"scope_seq", "spawns", "watch_replies"} : d'[x] = d[x]
    BY <1>a, <2>1 DEF Fields
  <2> HIDE DEF s
  <2>4. Starts(s)
    BY <1>b, <2>1, <2>2, <2>3 DEF Starts, TakesOne, s, Fields
  <2>5. ScopesIInv'
    BY <1>a, <1>b, <2>4, StartsSafe
  <2>6. 1 .. d.scope_seq \subseteq 1 .. s /\ s \notin 1 .. d.scope_seq
    BY <1>a DEF s, DriverTyped
  <2>7. \A t \in DOMAIN d'.watch_replies :
           \/ t \in DOMAIN d.watch_replies /\ d'.watch_replies[t] = d.watch_replies[t]
           \/ t \notin 1 .. d.scope_seq /\ d'.watch_replies[t].who \in Whose
    <3>1. Cmd.who \in Whose
      BY <1>a, <1>b, Popped DEF Message
    <3> QED BY <2>3, <2>6, <3>1 DEF Put
  <2>8. GatesSound'
    BY <1>a, <1>b, <2>3, <2>6, <2>7, GatesKept DEF Fields
  <2> QED BY <2>5, <2>8 DEF Inductive
<1> QED BY <1>1, <1>2

\* `Command::Replace`: refused, answered by a widen, or a stream is spawned.
LEMMA TakeReplaceIs ==
    ASSUME Inductive, TakeReplace, Ungated PROVE Inductive'
<1>a. /\ ScopesIInv /\ GatesSound /\ PlacesSound /\ CallsTyped /\ DriverTyped /\ StagesSound /\ DOMAIN d = Fields
  BY Known
<1>b. /\ phase = "run" /\ commands # <<>> /\ Cmd.op = "replace" /\ commands' = Tail(commands)
      /\ UNCHANGED <<unwinds, front, running, dead>> /\ phase' = phase
  BY DEF TakeReplace, Takes, Ready, front
<1> DEFINE s == Cmd.s
           refusal == IF s \notin d.handles THEN "unknown root"
                      ELSE IF teardown_pressure(d) >= MAX_TEARDOWN_BACKLOG THEN "backlog"
                      ELSE IF s \in DOMAIN d.replaces THEN "in flight" ELSE "none"
           rs(mode) == ReplaceState(Cmd.who, Cmd.path, mode)
<1>c. \/ /\ refusal # "none" /\ calls' = answer(calls, Cmd.who, Refused(refusal))
         /\ reg' = drop_reservation(reg, Cmd.path) /\ d' = d
      \/ /\ refusal = "none" /\ UNCHANGED <<calls, reg>>
         /\ \/ d' = [d EXCEPT !.replaces = Put(@, s, rs("meta"))]
            \/ d' = dispatch_replace_spawn(d, s, rs("spawning"))
  BY DEF TakeReplace
<1>d. refusal = "none" =>
         s \in d.handles /\ s \notin DOMAIN d.replaces /\ ~(teardown_pressure(d) >= MAX_TEARDOWN_BACKLOG)
  OBVIOUS
<1> HIDE DEF refusal
<1>1. CASE /\ calls' = answer(calls, Cmd.who, Refused(refusal))
           /\ reg' = drop_reservation(reg, Cmd.path) /\ d' = d
  <2>2. Told(Cmd.who, Refused(refusal)) /\ Refused(refusal).k = "err"
    BY <1>a, <1>b, <1>1, SenderTold DEF Refused
  <2>3. Pops(Refused(refusal))
    BY <1>b, <1>1, <2>2 DEF Pops
  <2>4. ScopesIInv'
    BY <1>a, <1>b, <2>3, PopsSafe
  <2>5. GatesSound'
    BY <1>a, <1>b, <1>1 DEF GatesSound
  <2> QED BY <2>4, <2>5 DEF Inductive
<1>2. ASSUME NEW mode \in {"meta", "spawning"}, refusal = "none", UNCHANGED <<calls, reg>>,
             DOMAIN d' = Fields, d'.replaces = Put(d.replaces, s, rs(mode)),
             d'.spawns = IF mode = "spawning" THEN d.spawns \cup {s} ELSE d.spawns,
             \A x \in Fields \ {"replaces", "spawns"} : d'[x] = d[x]
      PROVE  Inductive'
  <2>2. teardown_pressure(d) < MAX_TEARDOWN_BACKLOG
    BY <1>a, <1>b, <1>d, <1>2, PressureIs, FsScopesAssumption
  <2>3. Replaces(s, mode)
    BY <1>b, <1>d, <1>2, <2>2 DEF Replaces, TakesOne, Fields
  <2>4. ScopesIInv'
    BY <1>a, <1>b, <2>3, ReplacesSafe
  <2>5. GatesSound'
    BY <1>a, <1>b, <1>2, GatesKept DEF Fields
  <2> QED BY <2>4, <2>5 DEF Inductive
<1>3. ASSUME refusal = "none", UNCHANGED <<calls, reg>>, d' = [d EXCEPT !.replaces = Put(@, s, rs("meta"))]
      PROVE  Inductive'
  <2> HIDE DEF rs, s
  <2>1. /\ DOMAIN d' = Fields /\ d'.replaces = Put(d.replaces, s, rs("meta")) /\ d'.spawns = d.spawns
        /\ \A x \in Fields \ {"replaces", "spawns"} : d'[x] = d[x]
    BY <1>a, <1>3 DEF Fields
  <2> QED BY <1>2, <1>3, <2>1
<1>4. ASSUME refusal = "none", UNCHANGED <<calls, reg>>, d' = dispatch_replace_spawn(d, s, rs("spawning"))
      PROVE  Inductive'
  <2> HIDE DEF rs, s
  <2>1. /\ DOMAIN d' = Fields /\ d'.replaces = Put(d.replaces, s, rs("spawning"))
        /\ d'.spawns = d.spawns \cup {s}
        /\ \A x \in Fields \ {"replaces", "spawns"} : d'[x] = d[x]
    BY <1>a, <1>4 DEF Fields, dispatch_replace_spawn
  <2> QED BY <1>2, <1>4, <2>1
<1> QED BY <1>c, <1>1, <1>3, <1>4

-----------------------------------------------------------------------------

\* What `Effect::TeardownStream` leaves of the driver.
LEMMA TeardownIs ==
    ASSUME NEW dr, NEW s, DOMAIN dr = Fields, TearDown(dr, s)
    PROVE  /\ DOMAIN d' = Fields /\ d'.handles = dr.handles \ {s} /\ d'.lanes = Drop(dr.lanes, {s})
           /\ d'.deferred = Drop(dr.deferred, {s}) /\ d'.downs = [dr.downs EXCEPT ![s] = @ + 1]
           /\ \A x \in Fields \ {"handles", "lanes", "deferred", "downs", "descending"} : d'[x] = dr[x]
           /\ reg' = scope_dead(reg, s)
<1> DEFINE n == [dr EXCEPT !.handles = @ \ {s}, !.lanes = Drop(@, {s}),
                           !.descending = @ \ {s}, !.deferred = Drop(@, {s})]
<1>1. /\ DOMAIN n = Fields /\ n.handles = dr.handles \ {s} /\ n.lanes = Drop(dr.lanes, {s})
      /\ n.deferred = Drop(dr.deferred, {s}) /\ n.downs = dr.downs
      /\ \A x \in Fields \ {"handles", "lanes", "deferred", "downs", "descending"} : n[x] = dr[x]
  BY DEF Fields
<1>2. d' = [n EXCEPT !.downs[s] = @ + 1] /\ reg' = scope_dead(reg, s)
  BY DEF TearDown, TeardownStream, submit_teardown
<1> HIDE DEF n
<1>3. /\ DOMAIN d' = Fields /\ d'.downs = [n.downs EXCEPT ![s] = @ + 1]
      /\ \A x \in Fields \ {"downs"} : d'[x] = n[x]
  BY <1>1, <1>2 DEF Fields
<1> QED BY <1>1, <1>2, <1>3 DEF Fields

\* What a stream's end asks for, wherever it comes from.
LEMMA TearIs ==
    ASSUME Inductive, phase = "run", NEW s \in d.handles, NEW dr, DOMAIN dr = Fields, TearDown(dr, s),
           \A x \in Fields \ {"waiters", "arms", "deferred"} : dr[x] = d[x],
           Drop(dr.deferred, {s}) = Drop(d.deferred, {s}),
           dr.arms \subseteq d.arms, \A a \in d.arms : a.s # s => a \in dr.arms,
           dr.waiters \in [Scope -> Seq(Waiter)],
           \A t \in Scope : dr.waiters[t] = d.waiters[t] \/ (t = s /\ s \in released),
           \A i \in DOMAIN dr.waiters[s] : dr.waiters[s][i].verdict = "torn" => d.unproven[s] = 0,
           CallsGo({"err"}), PlacesSound',
           commands' = commands
              \/ (commands # <<>> /\ Cmd.op = "unwatch" /\ Cmd.s = s /\ commands' = Tail(commands)),
           unwinds' = unwinds \/ (unwinds # <<>> /\ unwinds[1] = s /\ unwinds' = Tail(unwinds)),
           dead \subseteq dead', dead' \subseteq DOMAIN d.lane_of,
           s \in held \/ Promised(s) => \E l \in dead' : d.lane_of[l] = s,
           UNCHANGED <<running, front>>, Ungated
    PROVE  Inductive'
<1>a. /\ ScopesIInv /\ GatesSound /\ VerdictsSound /\ DriverTyped /\ StagesSound /\ s \in Scope
  BY Known DEF DriverTyped
<1>b. /\ DOMAIN d' = Fields /\ d'.handles = d.handles \ {s} /\ d'.lanes = Drop(d.lanes, {s})
      /\ d'.deferred = Drop(d.deferred, {s}) /\ d'.downs = [d.downs EXCEPT ![s] = @ + 1]
      /\ d'.arms = dr.arms /\ d'.waiters = dr.waiters /\ reg' = scope_dead(reg, s)
      /\ \A x \in Fields \ {"handles", "lanes", "deferred", "downs", "descending", "arms", "waiters"} :
            d'[x] = d[x]
  <2>1. /\ DOMAIN d' = Fields /\ d'.handles = dr.handles \ {s} /\ d'.lanes = Drop(dr.lanes, {s})
        /\ d'.deferred = Drop(dr.deferred, {s}) /\ d'.downs = [dr.downs EXCEPT ![s] = @ + 1]
        /\ \A x \in Fields \ {"handles", "lanes", "deferred", "downs", "descending"} : d'[x] = dr[x]
        /\ reg' = scope_dead(reg, s)
    BY TeardownIs
  <2>2. dr.handles = d.handles /\ dr.lanes = d.lanes /\ dr.downs = d.downs
    BY DEF Fields
  <2>3. d'.arms = dr.arms /\ d'.waiters = dr.waiters
    BY <2>1 DEF Fields
  <2> QED BY <2>1, <2>2, <2>3
<1>c. UNCHANGED <<running, held, released, phase, reported>>
  BY DEF front
<1>1. Tears(s)
  BY <1>b, <1>c DEF Tears, Fields
<1>2. VerdictsSound'
  <2>1. \A c \in Clients : calls'[c].ans = Acked("torn") => calls'[c] = calls[c]
    BY DEF CallsGo, Acked
  <2>2. \A t \in Scope :
           t \notin d.handles \cup d.spawns \cup DOMAIN d.replaces /\ d.downs[t] = 0 /\ d.unproven[t] = 0
           => /\ t \notin d'.handles \cup d'.spawns \cup DOMAIN d'.replaces
              /\ d'.downs[t] = 0 /\ d'.unproven[t] = 0
    BY <1>a, <1>b DEF Fields, DriverTyped
  <2>3. \A t \in Scope : \A i \in DOMAIN d'.waiters[t] :
           d'.waiters[t][i].verdict = "torn" => d'.unproven[t] = 0
    <3> SUFFICES ASSUME NEW t \in Scope, NEW i \in DOMAIN d'.waiters[t], d'.waiters[t][i].verdict = "torn"
                 PROVE  d'.unproven[t] = 0
      OBVIOUS
    <3>1. d'.unproven = d.unproven /\ d'.waiters = dr.waiters
      BY <1>b DEF Fields
    <3>2. CASE t = s
      BY <3>1, <3>2
    <3>3. CASE t # s
      <4>1. dr.waiters[t] = d.waiters[t]
        BY <3>3
      <4> QED BY <1>a, <3>1, <4>1 DEF VerdictsSound
    <3> QED BY <3>2, <3>3
  <2> QED BY <1>a, <2>1, <2>2, <2>3, VerdictsKept
<1>3. ScopesIInv'
  BY <1>a, <1>1, <1>2, TearsSafe
<1>4. GatesSound'
  <2>1. d'.scope_seq = d.scope_seq /\ d'.watch_replies = d.watch_replies
    BY <1>b DEF Fields
  <2>2. \A t \in DOMAIN d'.deferred : t \in DOMAIN d.deferred /\ t # s /\ t \in DOMAIN d.lanes
    BY <1>a, <1>b, Known DEF StagesSound, LanesSound, Drop
  <2>3. \A t \in DOMAIN d'.deferred :
           t \in DOMAIN d.deferred /\ d'.lanes[t] = d.lanes[t] /\ d'.deferred[t] = d.deferred[t]
    BY <1>b, <2>2 DEF Drop
  <2> QED BY <1>a, <1>b, <1>c, <2>1, <2>3, GatesKept
<1> QED BY <1>3, <1>4 DEF Inductive

\* `Command::Unwatch`: backlogged, torn down, parked, or answered at once.
LEMMA TakeUnwatchIs ==
    ASSUME Inductive, TakeUnwatch, Ungated PROVE Inductive'
<1>a. /\ ScopesIInv /\ GatesSound /\ PlacesSound /\ CallsTyped /\ DriverTyped /\ StagesSound /\ DOMAIN d = Fields
      /\ OwnersSound /\ AskersSound /\ HistoryTyped /\ VerdictsSound
  BY Known
<1>b. /\ phase = "run" /\ commands # <<>> /\ Cmd.op = "unwatch" /\ commands' = Tail(commands)
      /\ UNCHANGED <<unwinds, front, running, dead>> /\ phase' = phase
  BY DEF TakeUnwatch, Takes, Ready, front
<1> DEFINE s == Cmd.s
<1>c. /\ s \in released /\ s \in Scope /\ s \notin held /\ ~Promised(s) /\ s \notin DOMAIN d.deferred
      /\ Cmd.who \in Whose
  <2>1. 1 \in DOMAIN commands /\ Cmd = commands[1] /\ Cmd \in Message
    BY <1>a, <1>b, Popped
  <2>2. s \in released /\ released \subseteq Scope
    BY <1>a, <1>b, <2>1 DEF AskersSound, CallsTyped
  <2> QED BY <1>a, <1>b, <2>1, <2>2 DEF OwnersSound, Message
<1>d. \/ /\ Len(d.waiters[s]) >= MAX_PARKED_SETTLEMENTS /\ UNCHANGED <<d, reg>>
         /\ calls' = answer(calls, Cmd.who, Acked("backlogged"))
      \/ /\ s \in d.handles /\ TearDown(Park(d, s, Cmd.who, "torn"), s)
         /\ calls' = RefuseDeferred(calls, d, s)
      \/ /\ s \notin d.handles /\ d' = Park(d, s, Cmd.who, "unknown") /\ UNCHANGED <<reg, calls>>
      \/ /\ s \notin d.handles /\ UNCHANGED <<d, reg>>
         /\ calls' = answer(calls, Cmd.who, Acked(admitted_verdict(d, s, "unknown")))
  BY DEF TakeUnwatch
<1>1. ASSUME NEW k \in {"backlogged", "unknown", "unproven"}, UNCHANGED <<d, reg>>,
             calls' = answer(calls, Cmd.who, Acked(k)), s \notin d.handles
      PROVE  Inductive'
  <2>1. Told(Cmd.who, Acked(k)) /\ Acked(k).k = k
    BY <1>a, <1>b, <1>1, SenderTold DEF Acked
  <2>2. Pops(Acked(k))
    BY <1>b, <1>1, <2>1 DEF Pops
  <2>3. ScopesIInv'
    BY <1>a, <1>b, <2>2, PopsSafe
  <2>4. GatesSound'
    BY <1>a, <1>b, <1>1 DEF GatesSound
  <2> QED BY <2>3, <2>4 DEF Inductive
<1>2. CASE /\ Len(d.waiters[s]) >= MAX_PARKED_SETTLEMENTS /\ UNCHANGED <<d, reg>>
           /\ calls' = answer(calls, Cmd.who, Acked("backlogged"))
  <2>1. d.waiters[s] # <<>>
    BY <1>2, FsScopesAssumption
  <2>2. s \notin d.handles
    BY <1>a, <1>b, <1>c, <2>1 DEF OwnersSound
  <2> QED BY <1>1, <1>2, <2>2
<1>3. CASE /\ s \notin d.handles /\ UNCHANGED <<d, reg>>
           /\ calls' = answer(calls, Cmd.who, Acked(admitted_verdict(d, s, "unknown")))
  BY <1>1, <1>3 DEF admitted_verdict
<1>4. CASE s \notin d.handles /\ d' = Park(d, s, Cmd.who, "unknown") /\ UNCHANGED <<reg, calls>>
  <2> DEFINE v == admitted_verdict(d, s, "unknown")
  <2> HIDE DEF s
  <2>1. v \in {"unknown", "unproven"} /\ "unknown" \in Verdicts
    BY DEF admitted_verdict, Verdicts
  <2> HIDE DEF v
  <2>2. /\ DOMAIN d' = Fields /\ \A x \in Fields \ {"waiters"} : d'[x] = d[x]
        /\ Waits(s, Cmd.who, v)
    <3>1. Cmd.who \in Whose /\ s \in Scope /\ DriverTyped
      BY <1>a, <1>c DEF s
    <3>2. "unknown" \in Verdicts
      BY <2>1
    <3>3. d' = Park(d, s, Cmd.who, "unknown")
      BY <1>4
    <3> QED BY <3>1, <3>2, <3>3, ParkIs DEF Waits, v
  <2>3. Parks(s, v)
    BY <1>b, <1>c, <1>4, <2>1, <2>2 DEF Parks, TakesOne, s, Fields
  <2>4. ScopesIInv'
    BY <1>a, <1>b, <2>3, ParksSafe
  <2>5. GatesSound'
    BY <1>a, <1>b, <2>2, GatesKept DEF Fields
  <2> QED BY <2>4, <2>5 DEF Inductive
<1>5. CASE /\ s \in d.handles /\ TearDown(Park(d, s, Cmd.who, "torn"), s)
           /\ calls' = RefuseDeferred(calls, d, s)
  <2> DEFINE dr == Park(d, s, Cmd.who, "torn")
             v == admitted_verdict(d, s, "torn")
  <2> HIDE DEF s
  <2>1. calls' = calls /\ DOMAIN calls = Clients
    BY <1>a, <1>c, <1>5 DEF RefuseDeferred, CallsTyped
  <2>2. /\ DOMAIN dr = Fields /\ \A x \in Fields \ {"waiters"} : dr[x] = d[x]
        /\ dr.waiters \in [Scope -> Seq(Waiter)] /\ \A t \in Scope \ {s} : dr.waiters[t] = d.waiters[t]
        /\ \A i \in DOMAIN dr.waiters[s] :
              \/ i \in DOMAIN d.waiters[s] /\ dr.waiters[s][i] = d.waiters[s][i]
              \/ dr.waiters[s][i] = [who |-> Cmd.who, verdict |-> v]
    BY ZenonT(40), <1>a, <1>c, ParkIs DEF Verdicts
  <2>3. v = "torn" => d.unproven[s] = 0
    BY <1>a, <1>c DEF admitted_verdict, DriverTyped
  <2> HIDE DEF dr, v
  <2>4. /\ DOMAIN d' = Fields /\ d'.deferred = Drop(d.deferred, {s}) /\ d'.waiters = dr.waiters
        /\ d'.watch_replies = d.watch_replies /\ d'.replaces = d.replaces
    <3>1. TearDown(dr, s)
      BY <1>5 DEF dr
    <3>0. DOMAIN dr = Fields
      BY <2>2
    <3>2. /\ DOMAIN d' = Fields /\ d'.handles = dr.handles \ {s} /\ d'.lanes = Drop(dr.lanes, {s})
          /\ d'.deferred = Drop(dr.deferred, {s}) /\ d'.downs = [dr.downs EXCEPT ![s] = @ + 1]
          /\ \A x \in Fields \ {"handles", "lanes", "deferred", "downs", "descending"} : d'[x] = dr[x]
          /\ reg' = scope_dead(reg, s)
      BY <3>0, <3>1, TeardownIs
    <3>3. d'.waiters = dr.waiters /\ d'.watch_replies = dr.watch_replies /\ d'.replaces = dr.replaces
      BY <3>2 DEF Fields
    <3>4. dr.deferred = d.deferred /\ dr.watch_replies = d.watch_replies /\ dr.replaces = d.replaces
      BY <2>2 DEF Fields
    <3> QED BY <3>2, <3>3, <3>4
  <2>5. PlacesSound'
    <3>1. \A t \in DOMAIN d'.deferred :
             t \in DOMAIN d.deferred /\ d'.deferred[t].who = d.deferred[t].who
      BY <2>4 DEF Drop
    <3>2. \A t \in Scope : \A i \in DOMAIN d'.waiters[t] :
             \/ i \in DOMAIN d.waiters[t] /\ d'.waiters[t][i].who = d.waiters[t][i].who
             \/ t = Cmd.s /\ Cmd.op = "unwatch" /\ d'.waiters[t][i].who = Cmd.who
      <4> SUFFICES ASSUME NEW t \in Scope, NEW i \in DOMAIN d'.waiters[t]
                   PROVE  \/ i \in DOMAIN d.waiters[t] /\ d'.waiters[t][i].who = d.waiters[t][i].who
                          \/ t = Cmd.s /\ Cmd.op = "unwatch" /\ d'.waiters[t][i].who = Cmd.who
        OBVIOUS
      <4>1. CASE t = s
        <5>1. \/ i \in DOMAIN d.waiters[s] /\ dr.waiters[s][i] = d.waiters[s][i]
              \/ dr.waiters[s][i] = [who |-> Cmd.who, verdict |-> v]
          BY <2>2, <2>4, <4>1
        <5> QED BY <1>b, <2>4, <4>1, <5>1 DEF s
      <4>2. CASE t # s
        <5>1. dr.waiters[t] = d.waiters[t]
          BY <2>2, <4>2
        <5> QED BY <2>4, <5>1
      <4> QED BY <4>1, <4>2
    <3>3. \A t \in DOMAIN d'.watch_replies :
             \/ t \in DOMAIN d.watch_replies /\ d'.watch_replies[t].who = d.watch_replies[t].who
             \/ t = 0 /\ Cmd.op = "watch" /\ d'.watch_replies[t].who = Cmd.who
      BY <2>4
    <3>4. \A t \in DOMAIN d'.replaces :
             \/ t \in DOMAIN d.replaces /\ d'.replaces[t].who = d.replaces[t].who
             \/ t = Cmd.s /\ Cmd.op = "replace" /\ d'.replaces[t].who = Cmd.who
      BY <2>4
    <3> QED BY <1>a, <1>b, <2>1, <3>1, <3>2, <3>3, <3>4, PlacesTaken
  <2>6. CallsGo({"err"})
    BY <2>1 DEF CallsGo
  <2>7. /\ Drop(dr.deferred, {s}) = Drop(d.deferred, {s}) /\ dr.arms = d.arms
        /\ \A x \in Fields \ {"waiters", "arms", "deferred"} : dr[x] = d[x]
        /\ \A t \in Scope : dr.waiters[t] = d.waiters[t] \/ (t = s /\ s \in released)
    BY <1>c, <2>2 DEF Fields, s
  <2>8. \A i \in DOMAIN dr.waiters[s] : dr.waiters[s][i].verdict = "torn" => d.unproven[s] = 0
    BY <1>a, <1>c, <2>2, <2>3 DEF VerdictsSound, s
  <2>9. /\ commands # <<>> /\ Cmd.op = "unwatch" /\ Cmd.s = s /\ commands' = Tail(commands)
        /\ dead' = dead /\ dead \subseteq DOMAIN d.lane_of /\ ~(s \in held \/ Promised(s))
        /\ UNCHANGED <<running, front>> /\ unwinds' = unwinds /\ s \in d.handles /\ TearDown(dr, s)
    BY <1>a, <1>b, <1>c, <1>5 DEF HistoryTyped, s, dr
  <2> QED BY <1>b, <2>2, <2>5, <2>6, <2>7, <2>8, <2>9, TearIs
<1> QED BY <1>d, <1>2, <1>3, <1>4, <1>5

\* A grant that was dropped is unwatched.
LEMMA TakeUnwindIs ==
    ASSUME Inductive, TakeUnwind, Ungated PROVE Inductive'
<1>a. /\ ScopesIInv /\ GatesSound /\ PlacesSound /\ CallsTyped /\ DriverTyped /\ StagesSound /\ DOMAIN d = Fields
      /\ OwnersSound /\ HistoryTyped /\ VerdictsSound
  BY Known
<1>b. /\ phase = "run" /\ unwinds # <<>> /\ unwinds' = Tail(unwinds)
      /\ UNCHANGED <<calls, commands, front, running, dead>> /\ phase' = phase
  BY DEF TakeUnwind, Ready, front
<1> DEFINE s == unwinds[1]
<1>1. CASE s \notin d.handles
  <2>1. UNCHANGED <<d, reg>>
    BY <1>1 DEF TakeUnwind
  <2>2. Unwinds
    BY <1>b, <1>1, <2>1 DEF Unwinds
  <2>3. ScopesIInv'
    BY <1>a, <1>b, <2>2, UnwindsSafe
  <2>4. GatesSound'
    BY <1>a, <1>b, <2>1 DEF GatesSound
  <2> QED BY <2>3, <2>4 DEF Inductive
<1>2. CASE s \in d.handles
  <2>1. TearDown(d, s)
    BY <1>2 DEF TakeUnwind
  <2>2. s \in Scope /\ Discarded(s)
    <3>1. unwinds \in Seq(Scope)
      BY <1>a DEF CallsTyped
    <3> QED BY <1>b, <3>1 DEF Discarded
  <2>3. s \notin held /\ ~Promised(s)
    BY <1>a, <1>b, <2>2 DEF OwnersSound
  <2>4. /\ DOMAIN d' = Fields /\ d'.deferred = Drop(d.deferred, {s}) /\ d'.waiters = d.waiters
        /\ d'.watch_replies = d.watch_replies /\ d'.replaces = d.replaces
    <3>1. DOMAIN d = Fields
      BY <1>a
    <3> HIDE DEF s
    <3>2. /\ DOMAIN d' = Fields /\ d'.handles = d.handles \ {s} /\ d'.lanes = Drop(d.lanes, {s})
          /\ d'.deferred = Drop(d.deferred, {s}) /\ d'.downs = [d.downs EXCEPT ![s] = @ + 1]
          /\ \A x \in Fields \ {"handles", "lanes", "deferred", "downs", "descending"} : d'[x] = d[x]
          /\ reg' = scope_dead(reg, s)
      BY <2>1, <3>1, TeardownIs
    <3> QED BY <3>2 DEF Fields
  <2>5. PlacesSound'
    <3>1. \A t \in DOMAIN d'.deferred :
             t \in DOMAIN d.deferred /\ d'.deferred[t].who = d.deferred[t].who
      BY <2>4 DEF Drop
    <3>2. \A i \in DOMAIN commands' : i \in Nat /\ i + 0 \in DOMAIN commands /\ commands'[i] = commands[i + 0]
      BY <1>a, <1>b DEF CallsTyped
    <3>3. \A c \in Clients : Placed(c)' => calls'[c] = calls[c]
      BY <1>b
    <3> QED BY <1>a, <2>4, <3>1, <3>2, <3>3, PlacesKept
  <2>6. CallsGo({"err"}) /\ dead \subseteq DOMAIN d.lane_of
    BY <1>a, <1>b DEF CallsGo, CallsTyped, HistoryTyped
  <2>7. d.waiters \in [Scope -> Seq(Waiter)]
    BY <1>a DEF DriverTyped
  <2>8. \A i \in DOMAIN d.waiters[s] : d.waiters[s][i].verdict = "torn" => d.unproven[s] = 0
    BY <1>a, <2>2 DEF VerdictsSound
  <2> HIDE DEF s
  <2>9. unwinds[1] = s
    BY DEF s
  <2> QED BY <1>a, <1>b, <1>2, <2>1, <2>3, <2>5, <2>6, <2>7, <2>8, <2>9, TearIs
<1> QED BY <1>1, <1>2

-----------------------------------------------------------------------------
\* Who waits for the grant of s.
WaitsFor(s) == IF s \in DOMAIN d.deferred THEN d.deferred[s].who ELSE Gone

\* The caller whose grant is deferred is the one that is refused.
LEMMA DeferredTold ==
    ASSUME PlacesSound, CallsTyped, NEW s, NEW a, calls' = answer(calls, WaitsFor(s), a),
           UNCHANGED commands, d'.deferred = Drop(d.deferred, {s}), d'.watch_replies = d.watch_replies,
           d'.replaces = d.replaces, d'.waiters = d.waiters
    PROVE  Told(WaitsFor(s), a) /\ PlacesSound'
<1> DEFINE who == WaitsFor(s)
<1>1. who \in Clients => s \in DOMAIN d.deferred /\ d.deferred[s].who = who
  BY FsScopesAssumption DEF WaitsFor
<1>2. who \in Clients =>
         /\ Open(who) /\ calls[who].op = "watch"
         /\ \A t \in DOMAIN d.deferred : d.deferred[t].who = who => t = s
  BY <1>1 DEF PlacesSound
<1>3. Told(who, a)
  <2>1. who \in Clients => Open(who)
    BY <1>2
  <2> HIDE DEF who
  <2>2. calls' = answer(calls, who, a)
    BY DEF who
  <2> QED BY <2>1, <2>2, ToldBy
<1>4. \A c \in Clients : c # who => calls'[c] = calls[c]
  BY <1>3 DEF Told
<1>5. \A c \in Clients : c = who => ~Placed(c)'
  <2> SUFFICES ASSUME who \in Clients, NEW c \in Clients, c = who PROVE ~Placed(c)'
    OBVIOUS
  <2> HIDE DEF who
  <2>1. \A i \in DOMAIN commands' : commands'[i].who # who
    <3>1. InDriver(who)
      BY <1>1 DEF InDriver
    <3> QED BY <3>1 DEF PlacesSound
  <2>2. \A t \in DOMAIN d'.watch_replies : d'.watch_replies[t].who # who
    BY <1>1 DEF PlacesSound
  <2>3. \A t \in DOMAIN d'.deferred : d'.deferred[t].who # who
    BY <1>2 DEF Drop
  <2>4. \A t \in DOMAIN d'.replaces : d'.replaces[t].who # who
    BY <1>2 DEF PlacesSound
  <2>5. \A t \in Scope : \A i \in DOMAIN d'.waiters[t] : d'.waiters[t][i].who # who
    BY <1>2 DEF PlacesSound
  <2> QED BY <2>1, <2>2, <2>3, <2>4, <2>5 DEF Placed, InDriver
<1>6. \A c \in Clients : Placed(c)' => calls'[c] = calls[c]
  <2> SUFFICES ASSUME NEW c \in Clients, Placed(c)' PROVE calls'[c] = calls[c]
    OBVIOUS
  <2>1. c # who
    BY <1>5
  <2> QED BY <1>4, <2>1
<1>7. PlacesSound'
  <2>1. \A t \in DOMAIN d'.deferred :
           t \in DOMAIN d.deferred /\ d'.deferred[t].who = d.deferred[t].who
    BY DEF Drop
  <2>2. \A i \in DOMAIN commands' : i \in Nat /\ i + 0 \in DOMAIN commands /\ commands'[i] = commands[i + 0]
    BY DEF CallsTyped
  <2> QED BY <1>6, <2>1, <2>2, PlacesKept
<1> QED BY <1>3, <1>7

\* The last item of a lane ends its scope.
LEMMA SourceEndsIs ==
    ASSUME Inductive, NEW l, SourceEnds(l), Ungated PROVE Inductive'
<1>a. /\ PlacesSound /\ CallsTyped /\ DriverTyped /\ HistoryTyped /\ VerdictsSound /\ DOMAIN d = Fields
  BY Known
<1> DEFINE s == d.lane_of[l]
<1>b. /\ phase = "run" /\ s \in d.handles /\ l \in dead /\ TearDown(d, s)
      /\ calls' = RefuseDeferred(calls, d, s) /\ UNCHANGED <<outside, running, dead>>
  BY DEF SourceEnds, Ready, lane_current
<1>c. d.lane_of[l] = s
  OBVIOUS
<1> HIDE DEF s
<1>1. calls' = answer(calls, WaitsFor(s), Refused("unavailable"))
  BY <1>b DEF RefuseDeferred, answer, WaitsFor
<1>2. /\ d'.deferred = Drop(d.deferred, {s}) /\ d'.waiters = d.waiters
      /\ d'.watch_replies = d.watch_replies /\ d'.replaces = d.replaces
  <2>1. /\ DOMAIN d' = Fields /\ d'.handles = d.handles \ {s} /\ d'.lanes = Drop(d.lanes, {s})
        /\ d'.deferred = Drop(d.deferred, {s}) /\ d'.downs = [d.downs EXCEPT ![s] = @ + 1]
        /\ \A x \in Fields \ {"handles", "lanes", "deferred", "downs", "descending"} : d'[x] = d[x]
        /\ reg' = scope_dead(reg, s)
    BY <1>a, <1>b, TeardownIs
  <2> QED BY <2>1 DEF Fields
<1>3. Told(WaitsFor(s), Refused("unavailable")) /\ PlacesSound'
  <2>1. UNCHANGED commands
    BY <1>b DEF outside
  <2> QED BY <1>a, <1>1, <1>2, <2>1, DeferredTold
<1>4. CallsGo({"err"})
  <2>1. Refused("unavailable").k \in {"err"}
    BY DEF Refused
  <2> QED BY <1>3, <2>1, ToldGo
<1>5. /\ d.waiters \in [Scope -> Seq(Waiter)] /\ dead \subseteq DOMAIN d.lane_of /\ s \in Scope
      /\ \A i \in DOMAIN d.waiters[s] : d.waiters[s][i].verdict = "torn" => d.unproven[s] = 0
  BY <1>a, <1>b DEF DriverTyped, HistoryTyped, VerdictsSound
<1>6. UNCHANGED <<commands, unwinds, running, front>> /\ dead' = dead
  BY <1>b DEF outside
<1> QED BY <1>a, <1>b, <1>c, <1>3, <1>4, <1>5, <1>6, TearIs

\* A root's watch that is asked for again changes nothing else.
LEMMA RearmsIs ==
    ASSUME Inductive, phase = "run", Rearms
    PROVE  Inductive'
<1>a. /\ StagesSound /\ GatesSound /\ ScopesIInv
  BY Known
<1>1. ScopesIInv'
  BY <1>a, RearmsSafe
<1>2. /\ d'.watch_replies = d.watch_replies /\ d'.lanes = d.lanes /\ d'.scope_seq = d.scope_seq
      /\ DOMAIN d'.deferred = DOMAIN d.deferred
      /\ \A t \in DOMAIN d.deferred : d'.deferred[t] = d.deferred[t]
      /\ \A a \in d'.arms : a \in d.arms \/ a.s \in DOMAIN d.replaces
  BY DEF Rearms, Fields
<1>3. \A s \in DOMAIN d.replaces :
         s \in 1 .. d.scope_seq /\ s \notin DOMAIN d.watch_replies /\ s \notin DOMAIN d.deferred
  BY <1>a DEF StagesSound
<1>4. GatesSound'
  BY <1>a, <1>2, <1>3 DEF GatesSound
<1> QED BY <1>1, <1>4 DEF Inductive

\* The core asks for the root's watch again.
LEMMA RearmRootIs ==
    ASSUME Inductive, NEW s, RearmRoot(s), Ungated PROVE Inductive'
<1>a. DOMAIN d = Fields /\ HistoryTyped /\ StagesSound
  BY Known
<1> DEFINE a == [s |-> s, lane |-> d.lanes[s]]
<1>b. /\ phase = "run" /\ s \in DOMAIN d.replaces /\ d' = [d EXCEPT !.arms = @ \cup {a}]
      /\ UNCHANGED <<reg, calls, outside, running, dead>>
  BY DEF RearmRoot, Ready
<1>c. a.s = s
  OBVIOUS
<1> HIDE DEF a
<1>1. DOMAIN d' = Fields /\ d'.arms = d.arms \cup {a} /\ \A x \in Fields \ {"arms"} : d'[x] = d[x]
  BY <1>a, <1>b DEF Fields
<1>2. \A b \in d'.arms : b \in d.arms \/ b.s \in DOMAIN d.replaces
  BY <1>b, <1>c, <1>1
<1>3. Rearms
  BY <1>a, <1>b, <1>1, <1>2 DEF Rearms, HistoryTyped
<1> QED BY <1>b, <1>3, RearmsIs

\* A native stream fails.
LEMMA StreamDiesIs ==
    ASSUME Inductive, NEW s, StreamDies(s), Ungated PROVE Inductive'
<1>a. DOMAIN d = Fields /\ HistoryTyped /\ PhasesSound /\ LanesSound
  BY Known
<1>b. /\ s \in d.handles /\ dead' = dead \cup {d.lanes[s]} /\ d' = d
      /\ UNCHANGED <<reg, calls, outside, running>>
  BY DEF StreamDies
<1>1. phase = "run"
  BY <1>a, <1>b DEF PhasesSound
<1>2. d.lanes[s] \in DOMAIN d.lane_of
  BY <1>a, <1>b, <1>1 DEF LanesSound
<1>3. Rearms
  BY <1>a, <1>b, <1>2 DEF Rearms, HistoryTyped
<1> QED BY <1>b, <1>1, <1>3, RearmsIs

\* A root's watch is installed, or fails, or comes too late.
LEMMA WatchInstalledIs ==
    ASSUME Inductive, NEW a, NEW ok \in BOOLEAN, WatchInstalled(a, ok), Ungated PROVE Inductive'
<1>a. /\ ScopesIInv /\ GatesSound /\ PlacesSound /\ CallsTyped /\ DriverTyped /\ HistoryTyped /\ VerdictsSound
      /\ StagesSound /\ LanesSound /\ OwnersSound /\ DOMAIN d = Fields
  BY Known
<1> DEFINE s == a.s
           dr == [d EXCEPT !.arms = @ \ {a}, !.deferred = Drop(@, {s})]
           who == WaitsFor(s)
           unowned == s \in DOMAIN d.deferred /\ ok /\ who = Gone
           fails == ~ok /\ lane_current(d, s, a.lane)
           ans == IF ok THEN Granted(s) ELSE Refused("unavailable")
<1>b. /\ phase = "run" /\ a \in d.arms /\ calls' = answer(calls, who, ans)
      /\ UNCHANGED <<outside, running>>
  BY DEF WatchInstalled, Ready, WaitsFor
<1>c. IF s \in d.handles /\ (unowned \/ fails) THEN TearDown(dr, s) ELSE d' = dr /\ UNCHANGED reg
  BY DEF WatchInstalled, WaitsFor
<1>d. dead' = IF fails /\ d.lanes[s] = a.lane THEN dead \cup {a.lane} ELSE dead
  BY DEF WatchInstalled
<1>e. /\ a.s = s /\ (unowned <=> s \in DOMAIN d.deferred /\ ok /\ who = Gone)
      /\ (fails <=> ~ok /\ lane_current(d, s, a.lane)) /\ who = WaitsFor(s)
      /\ (ok => ans = Granted(s)) /\ (~ok => ans = Refused("unavailable"))
  OBVIOUS
<1>f. /\ DOMAIN dr = Fields /\ dr.arms = d.arms \ {a} /\ dr.deferred = Drop(d.deferred, {s})
      /\ \A x \in Fields \ {"arms", "deferred"} : dr[x] = d[x]
  BY <1>a DEF Fields
<1> HIDE DEF s, dr, who, unowned, fails, ans
<1>g. fails => s \in d.handles /\ d.lanes[s] = a.lane /\ a.lane \in DOMAIN d.lane_of /\ d.lane_of[a.lane] = s
  BY <1>a, <1>b, <1>e DEF lane_current, LanesSound
<1>h. UNCHANGED <<commands, unwinds, running, front, held, released, phase, reported>>
  BY <1>b DEF outside, front
<1>1. CASE s \in d.handles /\ (unowned \/ fails)
  <2>1. TearDown(dr, s)
    BY <1>c, <1>1
  <2>2. /\ DOMAIN d' = Fields /\ d'.handles = dr.handles \ {s} /\ d'.lanes = Drop(dr.lanes, {s})
        /\ d'.deferred = Drop(dr.deferred, {s}) /\ d'.downs = [dr.downs EXCEPT ![s] = @ + 1]
        /\ \A x \in Fields \ {"handles", "lanes", "deferred", "downs", "descending"} : d'[x] = dr[x]
        /\ reg' = scope_dead(reg, s)
    BY <1>f, <2>1, TeardownIs
  <2>3. Drop(dr.deferred, {s}) = Drop(d.deferred, {s})
    BY <1>f DEF Drop
  <2>4. /\ d'.deferred = Drop(d.deferred, {s}) /\ d'.waiters = d.waiters
        /\ d'.watch_replies = d.watch_replies /\ d'.replaces = d.replaces
    BY <1>f, <2>2, <2>3 DEF Fields
  <2>5. Told(who, ans) /\ PlacesSound'
    <3>1. calls' = answer(calls, WaitsFor(s), ans)
      BY <1>b, <1>e
    <3> QED BY <1>a, <1>e, <1>h, <2>4, <3>1, DeferredTold
  <2>6. CallsGo({"err"})
    <3>1. CASE ok
      <4>1. who = Gone
        BY <1>1, <1>e, <3>1
      <4> QED BY <1>a, <1>b, <4>1 DEF answer, CallsGo, CallsTyped
    <3>2. CASE ~ok
      <4>1. ans.k \in {"err"}
        BY <1>e, <3>2 DEF Refused
      <4> QED BY <2>5, <4>1, ToldGo
    <3> QED BY <3>1, <3>2
  <2>7. /\ dr.waiters \in [Scope -> Seq(Waiter)] /\ s \in Scope /\ dr.arms \subseteq d.arms
        /\ \A t \in Scope : dr.waiters[t] = d.waiters[t]
        /\ \A x \in Fields \ {"waiters", "arms", "deferred"} : dr[x] = d[x]
        /\ \A b \in d.arms : b.s # s => b \in dr.arms
    BY <1>a, <1>1, <1>e, <1>f DEF DriverTyped, Fields
  <2>8. \A i \in DOMAIN dr.waiters[s] : dr.waiters[s][i].verdict = "torn" => d.unproven[s] = 0
    BY <1>a, <2>7 DEF VerdictsSound
  <2>9. /\ dead \subseteq dead' /\ dead' \subseteq DOMAIN d.lane_of
        /\ s \in held \/ Promised(s) => \E l \in dead' : d.lane_of[l] = s
    <3>1. CASE fails
      <4>1. dead' = dead \cup {a.lane}
        BY <1>d, <1>g, <3>1
      <4> QED BY <1>a, <1>g, <3>1, <4>1 DEF HistoryTyped
    <3>2. CASE ~fails
      <4>1. s \in DOMAIN d.deferred /\ dead' = dead
        BY <1>1, <1>d, <1>e, <3>2
      <4>2. s \notin held /\ ~Promised(s)
        BY <1>a, <1>h, <1>b, <2>7, <4>1 DEF OwnersSound
      <4> QED BY <1>a, <4>1, <4>2 DEF HistoryTyped
    <3> QED BY <3>1, <3>2
  <2>10. \A t \in Scope : dr.waiters[t] = d.waiters[t] \/ (t = s /\ s \in released)
    BY <2>7
  <2>11. commands' = commands /\ unwinds' = unwinds /\ UNCHANGED <<running, front>>
    BY <1>h
  <2> QED BY <1>b, <1>f, <1>1, <2>1, <2>3, <2>5, <2>6, <2>7, <2>8, <2>9, <2>10, <2>11, TearIs
<1>2. CASE ~(s \in d.handles /\ (unowned \/ fails))
  <2>1. d' = dr /\ reg' = reg /\ dead' = dead
    BY <1>c, <1>d, <1>g, <1>2
  <2>2. /\ DOMAIN d' = Fields /\ d'.arms = d.arms \ {a} /\ d'.deferred = Drop(d.deferred, {s})
        /\ \A x \in Fields \ {"arms", "deferred"} : d'[x] = d[x]
    BY <1>f, <2>1
  <2>3. CASE s \notin DOMAIN d.deferred
    <3>1. DOMAIN d'.deferred = DOMAIN d.deferred /\ \A t \in DOMAIN d.deferred : d'.deferred[t] = d.deferred[t]
      BY <2>2, <2>3 DEF Drop
    <3>2. calls' = calls
      BY <1>b, <1>e, <2>3 DEF WaitsFor, answer
    <3>4. Rearms
      BY <1>a, <1>b, <1>e, <1>h, <2>1, <2>2, <2>3, <3>1, <3>2 DEF Rearms, HistoryTyped
    <3> QED BY <1>b, <3>4, RearmsIs
  <2>4. CASE s \in DOMAIN d.deferred
    <3>1. s \in d.handles /\ a = [s |-> s, lane |-> d.lanes[s]] /\ DOMAIN d.lanes = d.handles
      BY <1>a, <1>b, <1>e, <2>4 DEF StagesSound, GatesSound, LanesSound
    <3>2. ok /\ who # Gone
      BY <1>2, <1>e, <2>4, <3>1 DEF lane_current
    <3>3. who \in Clients /\ who = d.deferred[s].who
      <4>1. who = d.deferred[s].who
        BY <1>e, <2>4 DEF WaitsFor
      <4>2. d.deferred[s].who \in Whose
        BY <1>a, <1>b, <2>4 DEF GatesSound
      <4> QED BY <3>2, <4>1, <4>2 DEF Whose
    <3>4. Told(who, Granted(s))
      <4>1. Open(who)
        BY <1>a, <2>4, <3>3 DEF PlacesSound
      <4>2. calls' = answer(calls, who, Granted(s))
        BY <1>b, <1>e, <3>2
      <4> QED BY <1>a, <4>1, <4>2, ToldBy
    <3>5. GrantComes(s, who)
      BY <1>b, <1>e, <2>1, <2>2, <3>3, <3>4 DEF GrantComes
    <3>6. ScopesIInv'
      BY <1>a, <1>b, <2>4, <3>5, GrantComesSafe
    <3>7. GatesSound'
      <4>1. \A t \in DOMAIN d'.deferred :
               t \in DOMAIN d.deferred /\ d'.lanes[t] = d.lanes[t] /\ d'.deferred[t] = d.deferred[t]
        BY <2>2 DEF Drop, Fields
      <4>2. d'.watch_replies = d.watch_replies /\ d'.scope_seq = d.scope_seq /\ d'.arms \subseteq d.arms
        BY <2>2 DEF Fields
      <4> QED BY <1>a, <1>b, <4>1, <4>2, GatesKept
    <3> QED BY <3>6, <3>7 DEF Inductive
  <2> QED BY <2>3, <2>4
<1> QED BY <1>1, <1>2

-----------------------------------------------------------------------------
\* A root that meets nothing live goes live apart from all that is.
LEMMA GoesApart ==
    ASSUME LiveRootsDisjoint, HistoryTyped, NEW s, NEW root, NEW p, NEW E, E \subseteq {s},
           final_root_conflict(reg, root, p, E) = {}, reg'.live = Put(reg.live, s, root)
    PROVE  LiveRootsDisjoint'
<1>1. \A t \in DOMAIN reg.live \ E :
         /\ ~StartsWith(root.path, reg.live[t].path) /\ ~StartsWith(reg.live[t].path, root.path)
         /\ root.id # reg.live[t].id /\ reg.live[t].id \notin root.anc /\ root.id \notin reg.live[t].anc
  BY NoConflict
<1>2. /\ DOMAIN reg'.live = DOMAIN reg.live \cup {s} /\ reg'.live[s] = root
      /\ \A t \in DOMAIN reg.live : t # s => reg'.live[t] = reg.live[t]
  BY DEF Put
<1> SUFFICES ASSUME NEW t \in DOMAIN reg'.live, NEW u \in DOMAIN reg'.live, t # u
             PROVE  /\ ~StartsWith(reg'.live[t].path, reg'.live[u].path)
                    /\ reg'.live[t].id # reg'.live[u].id /\ reg'.live[t].id \notin reg'.live[u].anc
  BY DEF LiveRootsDisjoint
<1>3. CASE t = s
  <2>1. u \in DOMAIN reg.live \ E /\ reg'.live[u] = reg.live[u] /\ reg'.live[t] = root
    BY <1>2, <1>3
  <2> QED BY <1>1, <2>1
<1>4. CASE u = s
  <2>1. t \in DOMAIN reg.live \ E /\ reg'.live[t] = reg.live[t] /\ reg'.live[u] = root
    BY <1>2, <1>4
  <2> QED BY <1>1, <2>1
<1>5. CASE t # s /\ u # s
  <2>1. /\ t \in DOMAIN reg.live /\ u \in DOMAIN reg.live
        /\ reg'.live[t] = reg.live[t] /\ reg'.live[u] = reg.live[u]
    BY <1>2, <1>5
  <2> QED BY <2>1 DEF LiveRootsDisjoint
<1> QED BY <1>3, <1>4, <1>5

\* A scope about to be born.
LEMMA Unborn ==
    ASSUME Inductive, NEW s, s \in d.spawns, s \notin DOMAIN d.replaces, phase = "run"
    PROVE  /\ s \in DOMAIN d.watch_replies /\ s \notin d.handles \cup DOMAIN d.deferred
           /\ d.watch_replies[s].who \in Whose
           /\ d.watch_replies[s].who \in Clients => Open(d.watch_replies[s].who)
<1>1. StagesSound /\ GatesSound /\ PlacesSound
  BY Known
<1> QED BY <1>1 DEF StagesSound, GatesSound, PlacesSound

\* A birth that ends is told, and settles nothing else.
LEMMA BirthEndsIs ==
    ASSUME Inductive, phase = "run", NEW s \in Scope, s \in DOMAIN d.watch_replies, NEW n, NEW a,
           BirthEnds(s, n, a)
    PROVE  Inductive'
<1>a. /\ ScopesIInv /\ GatesSound /\ LanesSound /\ StagesSound /\ phase' = phase
  BY Known DEF BirthEnds, outside, front
<1>1. ScopesIInv'
  BY <1>a, BirthEndsSafe
<1>2. /\ d'.scope_seq = d.scope_seq /\ d'.arms = d.arms /\ DOMAIN d'.deferred = DOMAIN d.deferred
      /\ \A t \in DOMAIN d.deferred : d'.deferred[t] = d.deferred[t]
      /\ \A t \in d.handles : d'.lanes[t] = d.lanes[t]
      /\ d'.watch_replies = Drop(d.watch_replies, {s})
  BY DEF BirthEnds
<1>3. \A t \in DOMAIN d'.watch_replies : t \in DOMAIN d.watch_replies /\ d'.watch_replies[t] = d.watch_replies[t]
  BY <1>2 DEF Drop
<1>4. \A t \in DOMAIN d'.deferred :
         t \in DOMAIN d.deferred /\ d'.lanes[t] = d.lanes[t] /\ d'.deferred[t] = d.deferred[t]
  BY <1>a, <1>2 DEF StagesSound
<1>5. GatesSound'
  BY <1>a, <1>2, <1>3, <1>4, GatesKept
<1> QED BY <1>1, <1>5 DEF Inductive

\* What is left of a driver when a scope is born.
LEMMA BornIs ==
    ASSUME DOMAIN d = Fields, NEW s
    PROVE  LET b == Born(d, s)
           IN  /\ DOMAIN b = Fields /\ b.spawns = d.spawns \ {s}
               /\ b.watch_replies = Drop(d.watch_replies, {s})
               /\ \A x \in Fields \ {"spawns", "watch_replies"} : b[x] = d[x]
  BY DEF Born, Spawn, Fields

\* What a new stream changes in the driver.
LEMMA GoesLiveIs ==
    ASSUME NEW dr, DOMAIN dr = Fields, NEW s, NEW desc
    PROVE  LET b == GoesLive(dr, s, desc)
           IN  /\ DOMAIN b = Fields /\ b.lane_of = Append(dr.lane_of, s)
               /\ b.lanes = Put(dr.lanes, s, Len(dr.lane_of) + 1) /\ b.handles = dr.handles \cup {s}
               /\ \A x \in Fields \ {"lane_of", "lanes", "handles", "descending"} : b[x] = dr[x]
  BY DEF GoesLive, Fields

\* What handing a stream to the reaper changes.
LEMMA ReapedIs ==
    ASSUME NEW dr, DOMAIN dr = Fields, NEW s, d' = submit_teardown(dr, s)
    PROVE  /\ DOMAIN d' = Fields /\ d'.downs = [dr.downs EXCEPT ![s] = @ + 1]
           /\ \A x \in Fields \ {"downs"} : d'[x] = dr[x]
  BY DEF submit_teardown, Fields

\* The first stream of a scope fails to start.
LEMMA SpawnFailedBirthIs ==
    ASSUME Inductive, NEW s \in Scope, NEW rollback \in BOOLEAN, SpawnFailedBirth(s, rollback), Ungated
    PROVE  Inductive'
<1>a. /\ PlacesSound /\ CallsTyped /\ DriverTyped /\ HistoryTyped /\ LanesSound /\ DOMAIN d = Fields
  BY Known
<1>b. /\ phase = "run" /\ s \in d.spawns /\ s \notin DOMAIN d.replaces
      /\ d' = IF rollback THEN submit_teardown(Born(d, s), s) ELSE Born(d, s)
      /\ calls' = answer(calls, d.watch_replies[s].who, Refused("source"))
      /\ running' = [running EXCEPT ![s] = @ + (IF rollback THEN 1 ELSE 0)]
      /\ UNCHANGED <<reg, outside, dead>>
  BY DEF SpawnFailedBirth, Birth, Ready
<1>c. s \in DOMAIN d.watch_replies /\ (d.watch_replies[s].who \in Clients => Open(d.watch_replies[s].who))
  BY <1>b, Unborn
<1> DEFINE n == IF rollback THEN 1 ELSE 0
           b == Born(d, s)
<1>1. /\ DOMAIN b = Fields /\ b.spawns = d.spawns \ {s} /\ b.watch_replies = Drop(d.watch_replies, {s})
      /\ \A x \in Fields \ {"spawns", "watch_replies"} : b[x] = d[x]
  BY <1>a, BornIs
<1> HIDE DEF b
<1>2. /\ DOMAIN d' = Fields /\ d'.downs = [d.downs EXCEPT ![s] = @ + n]
      /\ \A x \in Fields \ {"downs"} : d'[x] = b[x]
  <2>0. b.downs = d.downs /\ d.downs \in [Scope -> Nat]
    BY <1>a, <1>1 DEF Fields, DriverTyped
  <2>1. CASE rollback
    <3>1. d' = submit_teardown(b, s)
      BY <1>b, <2>1 DEF b
    <3>2. /\ DOMAIN d' = Fields /\ d'.downs = [b.downs EXCEPT ![s] = @ + 1]
          /\ \A x \in Fields \ {"downs"} : d'[x] = b[x]
      <4>1. DOMAIN b = Fields
        BY <1>1
      <4> QED BY <3>1, <4>1, ReapedIs
    <3> QED BY <2>0, <2>1, <3>2
  <2>2. CASE ~rollback
    <3>1. d' = b
      BY <1>b, <2>2 DEF b
    <3>2. d.downs = [d.downs EXCEPT ![s] = @ + n]
      BY <2>0, <2>2
    <3> QED BY <1>1, <2>0, <3>1, <3>2 DEF Fields
  <2> QED BY <2>1, <2>2
<1>3. n \in {0, 1} /\ running' = [running EXCEPT ![s] = @ + n]
  BY <1>b
<1> HIDE DEF n
<1>4. Told(d.watch_replies[s].who, Refused("source")) /\ Refused("source").k = "err"
  BY <1>a, <1>b, <1>c, ToldBy DEF Refused
<1>5. BirthEnds(s, n, Refused("source"))
  BY ZenonT(40), <1>b, <1>1, <1>2, <1>3, <1>4 DEF BirthEnds, Fields
<1> QED BY <1>b, <1>c, <1>5, BirthEndsIs

\* A stream that goes live waits for its root's watch, or is granted.
LEMMA GoesLiveAtIs ==
    ASSUME Inductive, phase = "run", NEW s \in Scope, s \in DOMAIN d.watch_replies, NEW gated \in BOOLEAN,
           NEW who, GoesLiveAt(s, gated, who), LiveRootsDisjoint', d.watch_replies[s].who \in Whose
    PROVE  Inductive'
<1>a. /\ ScopesIInv /\ GatesSound /\ LanesSound /\ StagesSound /\ DriverTyped /\ phase' = phase
  BY Known DEF GoesLiveAt, outside, front
<1>1. ScopesIInv'
  BY <1>a, GoesLiveSafe
<1>2. /\ d'.scope_seq = d.scope_seq /\ d'.lanes = Put(d.lanes, s, Len(d.lane_of) + 1)
      /\ d'.watch_replies = Drop(d.watch_replies, {s})
      /\ \/ /\ d'.deferred = Put(d.deferred, s, d.watch_replies[s])
            /\ d'.arms = d.arms \cup {[s |-> s, lane |-> d'.lanes[s]]}
         \/ d'.deferred = d.deferred /\ d'.arms = d.arms
  BY DEF GoesLiveAt
<1>3. \A t \in DOMAIN d'.watch_replies :
         t \in DOMAIN d.watch_replies /\ t # s /\ d'.watch_replies[t] = d.watch_replies[t]
  BY <1>2 DEF Drop
<1>4. s \in 1 .. d.scope_seq /\ s \notin d.handles
  BY <1>a DEF StagesSound, DriverTyped
<1>5. \A t \in DOMAIN d'.deferred :
         \/ t = s /\ d'.deferred[t] = d.watch_replies[s]
         \/ t # s /\ t \in DOMAIN d.deferred /\ d'.lanes[t] = d.lanes[t] /\ d'.deferred[t] = d.deferred[t]
  <2>1. s \notin DOMAIN d.deferred /\ \A t \in DOMAIN d.deferred : t \in DOMAIN d.lanes
    BY <1>a, <1>4 DEF StagesSound, LanesSound
  <2> QED BY <1>2, <2>1 DEF Put
<1>6. \A a \in d'.arms : a \in d.arms \/ a = [s |-> s, lane |-> d'.lanes[s]]
  BY <1>2
<1>7. \A a \in d.arms : a.s # s
  BY <1>a DEF GatesSound
<1>8. GatesSound'
  <2>1. \A a \in d'.arms : /\ a.s \in 1 .. d'.scope_seq /\ a.s \notin DOMAIN d'.watch_replies
                           /\ a.s \in DOMAIN d'.deferred => a = [s |-> a.s, lane |-> d'.lanes[a.s]]
    <3> SUFFICES ASSUME NEW a \in d'.arms
                 PROVE  /\ a.s \in 1 .. d'.scope_seq /\ a.s \notin DOMAIN d'.watch_replies
                        /\ a.s \in DOMAIN d'.deferred => a = [s |-> a.s, lane |-> d'.lanes[a.s]]
      OBVIOUS
    <3>1. CASE a \in d.arms
      <4>1. /\ a.s \in 1 .. d.scope_seq /\ a.s \notin DOMAIN d.watch_replies
            /\ a.s \in DOMAIN d.deferred => a = [s |-> a.s, lane |-> d.lanes[a.s]]
        BY <1>a, <3>1 DEF GatesSound
      <4> QED BY <1>2, <1>3, <1>5, <1>7, <3>1, <4>1
    <3>2. CASE a = [s |-> s, lane |-> d'.lanes[s]]
      BY <1>2, <1>3, <1>4, <3>2
    <3> QED BY <1>6, <3>1, <3>2
  <2>2. \A t \in DOMAIN d'.watch_replies : d'.watch_replies[t].who \in Whose
    BY <1>a, <1>3 DEF GatesSound
  <2>3. \A t \in DOMAIN d'.deferred : d'.deferred[t].who \in Whose
    BY <1>a, <1>5 DEF GatesSound
  <2> QED BY <2>1, <2>2, <2>3 DEF GatesSound
<1> QED BY <1>1, <1>8 DEF Inductive

\* The first stream of a scope starts: it conflicts, waits for its watch, or is granted.
LEMMA SpawnedBirthIs ==
    ASSUME Inductive, NEW s \in Scope, NEW root, NEW desc \in BOOLEAN, SpawnedBirth(s, root, desc), Ungated
    PROVE  Inductive'
<1>a. /\ PlacesSound /\ CallsTyped /\ DriverTyped /\ HistoryTyped /\ LanesSound /\ DOMAIN d = Fields
      /\ LiveRootsDisjoint
  BY Known
<1> DEFINE pending == d.watch_replies[s]
           conflict == final_root_conflict(reg, root, pending.path, {})
           b == Born(d, s)
           live == GoesLive(Born(d, s), s, desc)
<1>b. /\ phase = "run" /\ s \in d.spawns /\ s \notin DOMAIN d.replaces
      /\ running' = [running EXCEPT ![s] = @ + 1] /\ UNCHANGED <<outside, dead>>
  BY DEF SpawnedBirth, Birth, Ready
<1>c. \/ /\ d' = submit_teardown(b, s) /\ UNCHANGED reg
         /\ calls' = answer(calls, pending.who, Overlaps(conflict))
      \/ /\ conflict = {}
         /\ d' = [live EXCEPT !.deferred = Put(@, s, pending),
                              !.arms = @ \cup {[s |-> s, lane |-> live.lanes[s]]}]
         /\ reg' = scope_live(reg, s, root) /\ UNCHANGED calls
      \/ /\ conflict = {} /\ d' = commit_grant(live, s, pending.who)
         /\ calls' = answer(calls, pending.who, Granted(s))
         /\ reg' = IF s \in d'.handles THEN scope_live(reg, s, root) ELSE reg
  BY DEF SpawnedBirth
<1>d. /\ s \in DOMAIN d.watch_replies /\ s \notin d.handles \cup DOMAIN d.deferred
      /\ pending.who \in Whose /\ (pending.who \in Clients => Open(pending.who))
  BY <1>b, Unborn
<1>e. pending = d.watch_replies[s] /\ (conflict = {} => final_root_conflict(reg, root, pending.path, {}) = {})
  OBVIOUS
<1>1. /\ DOMAIN b = Fields /\ b.spawns = d.spawns \ {s} /\ b.watch_replies = Drop(d.watch_replies, {s})
      /\ \A x \in Fields \ {"spawns", "watch_replies"} : b[x] = d[x]
  BY <1>a, BornIs
<1> HIDE DEF b
<1>2. /\ DOMAIN live = Fields /\ live.lane_of = Append(b.lane_of, s)
      /\ live.lanes = Put(b.lanes, s, Len(b.lane_of) + 1) /\ live.handles = b.handles \cup {s}
      /\ \A x \in Fields \ {"lane_of", "lanes", "handles", "descending"} : live[x] = b[x]
  BY <1>1, GoesLiveIs DEF b
<1> HIDE DEF live, pending, conflict
<1>3. /\ live.lane_of = Append(d.lane_of, s) /\ live.lanes = Put(d.lanes, s, Len(d.lane_of) + 1)
      /\ live.handles = d.handles \cup {s} /\ live.spawns = d.spawns \ {s}
      /\ live.watch_replies = Drop(d.watch_replies, {s})
      /\ \A x \in {"scope_seq", "unproven", "downs", "replaces", "waiters", "deferred", "arms"} : live[x] = d[x]
  BY <1>1, <1>2 DEF Fields
<1>4. Len(d.lane_of) \in Nat /\ DOMAIN d.lanes = d.handles
  BY <1>a, <1>b DEF DriverTyped, LanesSound
<1>5. CASE /\ d' = submit_teardown(b, s) /\ UNCHANGED reg
           /\ calls' = answer(calls, pending.who, Overlaps(conflict))
  <2>1. /\ DOMAIN d' = Fields /\ d'.downs = [b.downs EXCEPT ![s] = @ + 1]
        /\ \A x \in Fields \ {"downs"} : d'[x] = b[x]
    BY <1>1, <1>5, ReapedIs
  <2>2. Told(pending.who, Overlaps(conflict)) /\ Overlaps(conflict).k = "err"
    BY <1>a, <1>d, <1>5, ToldBy DEF Overlaps
  <2>3. BirthEnds(s, 1, Overlaps(conflict))
    BY <1>b, <1>e, <1>1, <1>5, <2>1, <2>2 DEF BirthEnds, Fields
  <2> QED BY <1>b, <1>d, <2>3, BirthEndsIs
<1>6. ASSUME conflict = {}, reg' = scope_live(reg, s, root)
      PROVE  /\ LiveRootsDisjoint' /\ DOMAIN reg' = {"live", "pending"}
             /\ DOMAIN reg'.live = DOMAIN reg.live \cup {s} /\ reg'.pending = reg.pending
  <2>1. DOMAIN reg' = {"live", "pending"} /\ reg'.live = Put(reg.live, s, root) /\ reg'.pending = reg.pending
    BY <1>a, <1>6 DEF scope_live, HistoryTyped
  <2>2. final_root_conflict(reg, root, pending.path, {}) = {} /\ {} \subseteq {s}
    BY <1>e, <1>6
  <2> QED BY <1>a, <2>1, <2>2, GoesApart DEF Put
<1>7. CASE /\ conflict = {}
           /\ d' = [live EXCEPT !.deferred = Put(@, s, pending),
                                !.arms = @ \cup {[s |-> s, lane |-> live.lanes[s]]}]
           /\ reg' = scope_live(reg, s, root) /\ UNCHANGED calls
  <2>1. /\ DOMAIN d' = Fields /\ d'.deferred = Put(live.deferred, s, pending)
        /\ d'.arms = live.arms \cup {[s |-> s, lane |-> live.lanes[s]]}
        /\ \A x \in Fields \ {"deferred", "arms"} : d'[x] = live[x]
    BY <1>2, <1>7 DEF Fields
  <2>2. d'.lanes = live.lanes
    BY <2>1 DEF Fields
  <2>3. GoesLiveAt(s, TRUE, pending.who)
    BY <1>b, <1>e, <1>3, <1>6, <1>7, <2>1, <2>2 DEF GoesLiveAt, Fields
  <2> QED BY <1>b, <1>d, <1>e, <1>6, <1>7, <2>3, GoesLiveAtIs
<1>8. CASE /\ conflict = {} /\ d' = commit_grant(live, s, pending.who)
           /\ calls' = answer(calls, pending.who, Granted(s))
           /\ reg' = IF s \in d'.handles THEN scope_live(reg, s, root) ELSE reg
  <2>1. CASE pending.who = Gone
    <3> DEFINE m == [live EXCEPT !.handles = @ \ {s}, !.lanes = Drop(@, {s}),
                                 !.descending = @ \ {s}, !.deferred = Drop(@, {s})]
    <3>2. /\ DOMAIN m = Fields /\ m.handles = live.handles \ {s} /\ m.lanes = Drop(live.lanes, {s})
          /\ m.deferred = Drop(live.deferred, {s})
          /\ \A x \in Fields \ {"handles", "lanes", "descending", "deferred"} : m[x] = live[x]
      BY <1>2 DEF Fields
    <3>3. d' = submit_teardown(m, s)
      BY <1>8, <2>1 DEF commit_grant, TeardownStream
    <3> HIDE DEF m
    <3>4. /\ DOMAIN d' = Fields /\ d'.downs = [m.downs EXCEPT ![s] = @ + 1]
          /\ \A x \in Fields \ {"downs"} : d'[x] = m[x]
      <4>1. DOMAIN m = Fields
        BY <3>2
      <4> QED BY <3>3, <4>1, ReapedIs
    <3>5. d'.handles = d.handles /\ d'.lanes = Drop(live.lanes, {s}) /\ d'.deferred = Drop(d.deferred, {s})
      BY ZenonT(40), <1>d, <1>3, <3>2, <3>4 DEF Fields
    <3>6. /\ DOMAIN d'.deferred = DOMAIN d.deferred
          /\ \A t \in DOMAIN d.deferred : d'.deferred[t] = d.deferred[t]
      BY <1>d, <3>5 DEF Drop
    <3>7. DOMAIN d'.lanes = DOMAIN d.lanes /\ \A t \in d.handles : d'.lanes[t] = d.lanes[t]
      BY <1>d, <1>3, <1>4, <3>5 DEF Drop, Put
    <3>8. reg' = reg /\ calls' = calls
      BY <1>d, <1>8, <2>1, <3>5 DEF answer
    <3>9. Told(pending.who, Refused("gone")) /\ Refused("gone").k = "err"
      BY <1>a, <2>1, <3>8, FsScopesAssumption DEF Told, Refused, CallsTyped
    <3>10. BirthEnds(s, 1, Refused("gone"))
      BY ZenonT(40), <1>b, <1>e, <1>3, <3>2, <3>4, <3>5, <3>6, <3>7, <3>8, <3>9 DEF BirthEnds, Fields
    <3> QED BY <1>b, <1>d, <3>10, BirthEndsIs
  <2>2. CASE pending.who # Gone
    <3>1. d' = live /\ pending.who \in Clients
      BY <1>d, <1>8, <2>2 DEF commit_grant, Whose
    <3>2. reg' = scope_live(reg, s, root)
      BY <1>3, <1>8, <3>1
    <3>3. Told(pending.who, Granted(s))
      BY <1>a, <1>d, <1>8, ToldBy
    <3>4. GoesLiveAt(s, FALSE, pending.who)
      BY <1>b, <1>e, <1>2, <1>3, <1>6, <1>8, <3>1, <3>2, <3>3 DEF GoesLiveAt
    <3> QED BY <1>b, <1>d, <1>e, <1>6, <1>8, <3>2, <3>4, GoesLiveAtIs
  <2> QED BY <2>1, <2>2
<1> QED BY <1>c, <1>5, <1>7, <1>8

-----------------------------------------------------------------------------
\* However a replacement ends.
LEMMA EndsIs ==
    ASSUME Inductive, phase = "run", NEW s \in DOMAIN d.replaces, NEW n \in {0, 1}, NEW m \in {0, 1}, NEW a,
           NEW dr, NEW r, Ends(dr, r, s, a), DOMAIN dr = Fields,
           \A x \in Fields \ {"lanes", "lane_of", "descending", "spawns", "downs"} : dr[x] = d[x],
           \/ dr.lanes = d.lanes /\ dr.lane_of = d.lane_of
           \/ /\ s \in d.handles
              /\ dr.lanes = Put(d.lanes, s, Len(d.lane_of) + 1) /\ dr.lane_of = Append(d.lane_of, s),
           dr.spawns = d.spawns \ {s}, dr.downs = [d.downs EXCEPT ![s] = @ + n],
           n = m + One(s \in Arming), running' = [running EXCEPT ![s] = @ + m],
           r = reg \/ \E root, p : /\ s \in d.handles /\ final_root_conflict(reg, root, p, {s}) = {}
                                   /\ r = scope_live(reg, s, root),
           a.k \in {"err", "ok"}, DOMAIN a # {"k", "s"}, UNCHANGED <<outside, dead>>, Ungated
    PROVE  Inductive'
<1>a. /\ ScopesIInv /\ GatesSound /\ DriverTyped /\ CallsTyped /\ HistoryTyped /\ PlacesSound /\ StagesSound
      /\ LanesSound /\ LiveRootsDisjoint /\ RegistryHonest /\ s \in Scope
  BY Known DEF DriverTyped
<1> DEFINE left == [dr EXCEPT !.replaces = Drop(@, {s})]
           done == scope_quiesced(left, s)
           who == d.replaces[s].who
<1>b. /\ d' = Rested(left, s, done) /\ reg' = drop_reservation(r, d.replaces[s].path)
      /\ calls' = resolve_unwatch_waiters(answer(calls, who, a), left, s, done)
  BY DEF Ends
<1>c. /\ DOMAIN left = Fields /\ left.replaces = Drop(dr.replaces, {s})
      /\ \A x \in Fields \ {"replaces"} : left[x] = dr[x]
  BY DEF Fields
<1>d. done \in BOOLEAN /\ (done => s \notin left.handles /\ s \notin left.spawns /\ left.downs[s] = 0)
  BY DEF scope_quiesced
<1> HIDE DEF left, done
<1>e. /\ DOMAIN d' = Fields /\ d'.waiters = (IF done THEN [left.waiters EXCEPT ![s] = <<>>] ELSE left.waiters)
      /\ \A x \in Fields \ {"waiters"} : d'[x] = left[x]
  BY <1>b, <1>c DEF Rested, Fields
<1>f. /\ left.waiters = d.waiters /\ dr.replaces = d.replaces
      /\ \A x \in Fields \ {"lanes", "lane_of", "descending", "spawns", "downs", "replaces", "waiters"} :
            d'[x] = d[x]
      /\ d'.lanes = dr.lanes /\ d'.lane_of = dr.lane_of /\ d'.spawns = dr.spawns /\ d'.downs = dr.downs
      /\ d'.replaces = Drop(d.replaces, {s}) /\ left.handles = d'.handles /\ left.spawns = d'.spawns
      /\ left.downs = d'.downs
  BY <1>c, <1>e DEF Fields
<1>1. Rests(s, done)
  <2>1. s \notin DOMAIN d'.replaces
    BY <1>f DEF Drop
  <2> QED BY <1>d, <1>e, <1>f, <2>1 DEF Rests
<1>2. Settled(d.waiters[s], done, who, a)
  <2>1. who \in Clients => Open(who) /\ calls[who].op = "replace"
    BY <1>a DEF PlacesSound
  <2>2. \A i \in DOMAIN left.waiters[s] : \A c \in Clients :
           left.waiters[s][i].who = c => Open(c) /\ c # who
    BY <1>a, <1>f, <2>1 DEF PlacesSound
  <2> HIDE DEF who
  <2>3. Settled(left.waiters[s], done, who, a)
    BY <1>a, <1>b, <1>d, <2>1, <2>2, SettledBy
  <2> QED BY <1>f, <2>3
<1>3. /\ DOMAIN reg' = {"live", "pending"} /\ DOMAIN reg'.live = DOMAIN reg.live
      /\ reg'.pending = Drop(reg.pending, {d.replaces[s].path}) /\ LiveRootsDisjoint'
  <2>1. CASE r = reg
    <3>1. DOMAIN reg' = {"live", "pending"} /\ reg'.live = reg.live
      BY <1>a, <1>b, <2>1 DEF drop_reservation, HistoryTyped
    <3>2. reg'.pending = Drop(reg.pending, {d.replaces[s].path})
      BY <1>a, <1>b, <2>1 DEF drop_reservation, HistoryTyped
    <3> QED BY <1>a, <3>1, <3>2 DEF LiveRootsDisjoint
  <2>2. ASSUME NEW root, NEW p, s \in d.handles, final_root_conflict(reg, root, p, {s}) = {},
               r = scope_live(reg, s, root)
        PROVE  /\ DOMAIN reg' = {"live", "pending"} /\ DOMAIN reg'.live = DOMAIN reg.live
               /\ reg'.pending = Drop(reg.pending, {d.replaces[s].path}) /\ LiveRootsDisjoint'
    <3>1. DOMAIN r = {"live", "pending"} /\ r.live = Put(reg.live, s, root) /\ r.pending = reg.pending
      BY <1>a, <2>2 DEF scope_live, HistoryTyped
    <3>2. /\ DOMAIN reg' = {"live", "pending"} /\ reg'.live = Put(reg.live, s, root)
          /\ reg'.pending = Drop(reg.pending, {d.replaces[s].path})
      BY <1>b, <3>1 DEF drop_reservation
    <3>3. DOMAIN reg'.live = DOMAIN reg.live
      BY <1>a, <2>2, <3>2 DEF Put, RegistryHonest
    <3>4. LiveRootsDisjoint'
      <4>1. {s} \subseteq {s}
        OBVIOUS
      <4> QED BY <1>a, <2>2, <3>2, <4>1, GoesApart
    <3> QED BY <3>2, <3>3, <3>4
  <2> QED BY <2>1, <2>2
<1>4. ReplaceEnds(s, n, m, a)
  <2>1. /\ d'.scope_seq = d.scope_seq /\ d'.handles = d.handles /\ d'.unproven = d.unproven
        /\ d'.watch_replies = d.watch_replies /\ d'.deferred = d.deferred /\ d'.arms = d.arms
    BY <1>f DEF Fields
  <2>2. \E q \in BOOLEAN : Rests(s, q) /\ Settled(d.waiters[s], q, d.replaces[s].who, a)
    BY <1>d, <1>1, <1>2
  <2> QED BY <1>e, <1>f, <1>3, <2>1, <2>2 DEF ReplaceEnds
<1>5. ScopesIInv'
  BY <1>a, <1>3, <1>4, ReplaceEndsSafe
<1>6. GatesSound'
  <2>1. /\ d'.scope_seq = d.scope_seq /\ d'.arms = d.arms /\ d'.watch_replies = d.watch_replies
        /\ d'.deferred = d.deferred /\ phase' = phase
    BY <1>f DEF Fields, outside, front
  <2>2. \A t \in DOMAIN d'.deferred :
           t \in DOMAIN d.deferred /\ d'.lanes[t] = d.lanes[t] /\ d'.deferred[t] = d.deferred[t]
    <3>1. \A t \in DOMAIN d.deferred : t # s /\ t \in DOMAIN d.lanes
      BY <1>a DEF StagesSound, LanesSound
    <3> QED BY <1>f, <2>1, <3>1 DEF Put
  <2> QED BY <1>a, <2>1, <2>2, GatesKept
<1> QED BY <1>5, <1>6 DEF Inductive

\* A replacement that moves on to its next mode.
LEMMA MovesOnIs ==
    ASSUME Inductive, phase = "run", NEW s \in DOMAIN d.replaces, MovesOn(s) PROVE Inductive'
<1>a. ScopesIInv /\ GatesSound /\ phase' = phase
  BY Known DEF MovesOn, outside, front
<1>1. ScopesIInv'
  BY <1>a, MovesOnSafe
<1>2. GatesSound'
  BY <1>a, GatesKept DEF MovesOn
<1> QED BY <1>1, <1>2 DEF Inductive

\* Where a replacement is, and what it has of the blocking pool.
LEMMA Underway ==
    ASSUME Inductive, phase = "run", NEW s \in DOMAIN d.replaces
    PROVE  /\ s \in Scope /\ DOMAIN d.replaces[s] = {"who", "path", "mode", "root", "left"}
           /\ d.replaces[s].mode \in Modes /\ d.downs \in [Scope -> Nat] /\ running \in [Scope -> Int]
           /\ s \in d.spawns => d.replaces[s].mode = "spawning"
           /\ (s \in Arming <=> d.replaces[s].mode = "arming")
           /\ [d.downs EXCEPT ![s] = @ + 0] = d.downs /\ [running EXCEPT ![s] = @ + 0] = running
           /\ One(s \in Arming) = IF d.replaces[s].mode = "arming" THEN 1 ELSE 0
<1>1. DriverTyped /\ HistoryTyped /\ StagesSound
  BY Known
<1>2. /\ s \in Scope /\ DOMAIN d.replaces[s] = {"who", "path", "mode", "root", "left"}
      /\ d.replaces[s].mode \in Modes /\ d.downs \in [Scope -> Nat] /\ running \in [Scope -> Int]
      /\ s \in d.spawns => d.replaces[s].mode = "spawning"
  BY <1>1 DEF DriverTyped, HistoryTyped, StagesSound
<1>3. s \in Arming <=> d.replaces[s].mode = "arming"
  BY DEF Arming
<1>4. [d.downs EXCEPT ![s] = @ + 0] = d.downs /\ [running EXCEPT ![s] = @ + 0] = running
  BY <1>2
<1>5. One(s \in Arming) = IF d.replaces[s].mode = "arming" THEN 1 ELSE 0
  BY <1>3 DEF One
<1> QED BY <1>2, <1>3, <1>4, <1>5

\* The stream that was spawned goes to the reaper, and the caller is refused.
LEMMA SpentIs ==
    ASSUME Inductive, phase = "run", NEW s \in DOMAIN d.replaces, NEW m \in {0, 1}, NEW a, NEW dr,
           Ends(submit_teardown(dr, s), reg, s, a), DOMAIN dr = Fields, dr.spawns = d.spawns \ {s},
           \A x \in Fields \ {"spawns"} : dr[x] = d[x],
           1 = m + One(s \in Arming), running' = [running EXCEPT ![s] = @ + m],
           a.k = "err", DOMAIN a # {"k", "s"}, UNCHANGED <<outside, dead>>, Ungated
    PROVE  Inductive'
<1> DEFINE e == submit_teardown(dr, s)
<1>1. /\ DOMAIN e = Fields /\ e.downs = [dr.downs EXCEPT ![s] = @ + 1]
      /\ \A x \in Fields \ {"downs"} : e[x] = dr[x]
  BY DEF submit_teardown, Fields
<1>2. Ends(e, reg, s, a)
  OBVIOUS
<1> HIDE DEF e
<1>3. /\ e.downs = [d.downs EXCEPT ![s] = @ + 1] /\ e.spawns = d.spawns \ {s}
      /\ e.lanes = d.lanes /\ e.lane_of = d.lane_of
      /\ \A x \in Fields \ {"lanes", "lane_of", "descending", "spawns", "downs"} : e[x] = d[x]
  BY <1>1 DEF Fields
<1>4. 1 \in {0, 1} /\ reg = reg /\ a.k \in {"err", "ok"} /\ DOMAIN e = Fields
  BY <1>1
<1> QED BY <1>2, <1>3, <1>4, EndsIs

\* Nothing had been spawned.
LEMMA GivenUpIs ==
    ASSUME Inductive, phase = "run", NEW s \in DOMAIN d.replaces, NEW a, NEW dr, NEW r,
           Ends(dr, r, s, a), DOMAIN dr = Fields, dr.spawns = d.spawns \ {s},
           \A x \in Fields \ {"spawns"} : dr[x] = d[x],
           r = reg \/ \E root, p : /\ s \in d.handles /\ final_root_conflict(reg, root, p, {s}) = {}
                                   /\ r = scope_live(reg, s, root),
           s \notin Arming, running' = running,
           a.k \in {"err", "ok"}, DOMAIN a # {"k", "s"}, UNCHANGED <<outside, dead>>, Ungated
    PROVE  Inductive'
<1>1. /\ [d.downs EXCEPT ![s] = @ + 0] = d.downs /\ [running EXCEPT ![s] = @ + 0] = running
      /\ One(s \in Arming) = 0
  BY Underway DEF One
<1>2. /\ dr.downs = [d.downs EXCEPT ![s] = @ + 0] /\ dr.lanes = d.lanes /\ dr.lane_of = d.lane_of
      /\ \A x \in Fields \ {"lanes", "lane_of", "descending", "spawns", "downs"} : dr[x] = d[x]
  BY <1>1 DEF Fields
<1>3. 0 \in {0, 1} /\ 0 = 0 + One(s \in Arming) /\ running' = [running EXCEPT ![s] = @ + 0]
  BY <1>1
<1> QED BY <1>2, <1>3, EndsIs

\* The new stream takes the old one's place, or is refused it.
LEMMA CommitIs ==
    ASSUME Inductive, phase = "run", NEW s \in DOMAIN d.replaces, s \in d.handles, NEW root, NEW desc,
           NEW m \in {0, 1}, NEW dr, commit_replace(dr, s, root, desc), DOMAIN dr = Fields,
           dr.spawns = d.spawns \ {s}, \A x \in Fields \ {"spawns"} : dr[x] = d[x],
           1 = m + One(s \in Arming), running' = [running EXCEPT ![s] = @ + m],
           UNCHANGED <<outside, dead>>, Ungated
    PROVE  Inductive'
<1> DEFINE conflict == final_root_conflict(reg, root, d.replaces[s].path, {s})
           old == submit_teardown(dr, s)
           e == GoesLive(old, s, desc)
<1>1. \/ Ends(old, reg, s, Overlaps(conflict))
      \/ conflict = {} /\ Ends(e, scope_live(reg, s, root), s, Acked("ok"))
  BY DEF commit_replace, retire_old
<1>2. /\ DOMAIN old = Fields /\ old.downs = [dr.downs EXCEPT ![s] = @ + 1]
      /\ \A x \in Fields \ {"downs"} : old[x] = dr[x]
  BY DEF submit_teardown, Fields
<1>3. CASE Ends(old, reg, s, Overlaps(conflict))
  <2>1. Overlaps(conflict).k = "err" /\ DOMAIN Overlaps(conflict) # {"k", "s"}
    BY DEF Overlaps
  <2> HIDE DEF conflict
  <2> QED BY <1>3, <2>1, SpentIs
<1>4. CASE conflict = {} /\ Ends(e, scope_live(reg, s, root), s, Acked("ok"))
  <2> HIDE DEF old
  <2>1. /\ DOMAIN e = Fields /\ e.lane_of = Append(old.lane_of, s)
        /\ e.lanes = Put(old.lanes, s, Len(old.lane_of) + 1) /\ e.handles = old.handles \cup {s}
        /\ \A x \in Fields \ {"lane_of", "lanes", "handles", "descending"} : e[x] = old[x]
    BY <1>2, GoesLiveIs
  <2> HIDE DEF e
  <2>2. /\ e.downs = [d.downs EXCEPT ![s] = @ + 1] /\ e.spawns = d.spawns \ {s}
        /\ e.lanes = Put(d.lanes, s, Len(d.lane_of) + 1) /\ e.lane_of = Append(d.lane_of, s)
        /\ e.handles = d.handles /\ old.handles = d.handles
    BY <1>2, <2>1 DEF Fields
  <2>3. \A x \in Fields \ {"lanes", "lane_of", "descending", "spawns", "downs"} : e[x] = d[x]
    BY <1>2, <2>1, <2>2
  <2> DEFINE r == scope_live(reg, s, root)
             a == Acked("ok")
  <2>4. r = reg \/ \E q, p : /\ s \in d.handles /\ final_root_conflict(reg, q, p, {s}) = {}
                            /\ r = scope_live(reg, s, q)
    BY <1>4
  <2>5. a.k \in {"err", "ok"} /\ DOMAIN a # {"k", "s"} /\ 1 \in {0, 1}
    BY DEF Acked
  <2>6. Ends(e, r, s, a)
    BY <1>4
  <2> HIDE DEF r, a, conflict
  <2>7. \/ e.lanes = d.lanes /\ e.lane_of = d.lane_of
        \/ /\ s \in d.handles
           /\ e.lanes = Put(d.lanes, s, Len(d.lane_of) + 1) /\ e.lane_of = Append(d.lane_of, s)
    BY <2>2
  <2>8. DOMAIN e = Fields /\ e.spawns = d.spawns \ {s} /\ e.downs = [d.downs EXCEPT ![s] = @ + 1]
    BY <2>1, <2>2
  <2> QED BY <2>3, <2>4, <2>5, <2>6, <2>7, <2>8, EndsIs
<1> QED BY <1>1, <1>3, <1>4

-----------------------------------------------------------------------------

\* What is left of a driver when a spawn has landed.
LEMMA SpawnIs ==
    ASSUME DOMAIN d = Fields, NEW s
    PROVE  LET b == Spawn(d, s)
           IN  /\ DOMAIN b = Fields /\ b.spawns = d.spawns \ {s}
               /\ \A x \in Fields \ {"spawns"} : b[x] = d[x]
  BY DEF Spawn, Fields

\* A refusal by any name.
LEMMA RefusedIs ==
    ASSUME NEW why PROVE Refused(why).k = "err" /\ DOMAIN Refused(why) # {"k", "s"}
  BY DEF Refused

\* The stream of a replacement starts: it is refused, commits, or waits for its watch.
LEMMA SpawnedReplacementIs ==
    ASSUME Inductive, NEW s, NEW root, NEW desc \in BOOLEAN, SpawnedReplacement(s, root, desc), Ungated
    PROVE  Inductive'
<1>a. DOMAIN d = Fields
  BY Known
<1> DEFINE b == Spawn(d, s)
<1>b. /\ phase = "run" /\ s \in d.spawns /\ s \in DOMAIN d.replaces
      /\ running' = [running EXCEPT ![s] = @ + 1] /\ UNCHANGED <<outside, dead>>
  BY DEF SpawnedReplacement, Ready
<1>c. /\ d.replaces[s].mode = "spawning" /\ One(s \in Arming) = 0 /\ s \notin Arming
      /\ DOMAIN d.replaces[s] = {"who", "path", "mode", "root", "left"}
  BY <1>b, Underway
<1>1. /\ DOMAIN b = Fields /\ b.spawns = d.spawns \ {s} /\ \A x \in Fields \ {"spawns"} : b[x] = d[x]
  BY <1>a, SpawnIs
<1>2. ASSUME NEW why, Ends(submit_teardown(b, s), reg, s, Refused(why)) PROVE Inductive'
  <2> DEFINE a == Refused(why)
  <2>1. a.k = "err" /\ DOMAIN a # {"k", "s"} /\ 1 \in {0, 1} /\ 1 = 1 + One(s \in Arming)
    BY <1>c, RefusedIs
  <2>2. Ends(submit_teardown(b, s), reg, s, a)
    BY <1>2
  <2> HIDE DEF a, b
  <2> QED BY <1>b, <1>1, <2>1, <2>2, SpentIs
<1>3. ASSUME s \in d.handles, commit_replace(b, s, root, desc) PROVE Inductive'
  <2>1. 1 \in {0, 1} /\ 1 = 1 + One(s \in Arming)
    BY <1>c
  <2> HIDE DEF b
  <2> QED BY <1>b, <1>1, <1>3, <2>1, CommitIs
<1>4. ASSUME d' = [b EXCEPT !.replaces[s].mode = "arming", !.replaces[s].root = root],
             UNCHANGED <<reg, calls>>
      PROVE  Inductive'
  <2> HIDE DEF b
  <2>0. b.replaces = d.replaces
    BY <1>1 DEF Fields
  <2>1. /\ DOMAIN d' = Fields
        /\ d'.replaces = [b.replaces EXCEPT ![s] = [@ EXCEPT !.mode = "arming", !.root = root]]
        /\ \A x \in Fields \ {"replaces"} : d'[x] = b[x]
    BY <1>1, <1>4, <1>b, <2>0 DEF Fields
  <2>2. /\ DOMAIN d'.replaces = DOMAIN d.replaces
        /\ \A t \in DOMAIN d.replaces : t # s => d'.replaces[t] = d.replaces[t]
        /\ DOMAIN d'.replaces[s] = {"who", "path", "mode", "root", "left"}
        /\ d'.replaces[s].who = d.replaces[s].who /\ d'.replaces[s].path = d.replaces[s].path
        /\ d'.replaces[s].mode = "arming"
    BY <1>b, <1>c, <2>0, <2>1
  <2>3. \A t \in DOMAIN d.replaces :
           /\ DOMAIN d.replaces[t] = {"who", "path", "mode", "root", "left"} /\ d.replaces[t].mode \in Modes
    BY Known DEF DriverTyped
  <2>4. /\ d'.spawns = d.spawns \ {s} /\ \A x \in Fields \ {"spawns", "replaces"} : d'[x] = d[x]
        /\ "arming" \in Modes /\ "arming" # "spawning"
    BY <1>1, <2>1 DEF Fields, Modes
  <2>5. \A t \in DOMAIN d.replaces :
           /\ DOMAIN d'.replaces[t] = {"who", "path", "mode", "root", "left"}
           /\ d'.replaces[t].who = d.replaces[t].who /\ d'.replaces[t].path = d.replaces[t].path
           /\ d'.replaces[t].mode \in Modes
           /\ t # s => d'.replaces[t] = d.replaces[t]
    BY <2>2, <2>3, <2>4
  <2>6. /\ d'.scope_seq = d.scope_seq /\ d'.handles = d.handles /\ d'.lanes = d.lanes
        /\ d'.lane_of = d.lane_of /\ d'.descending = d.descending /\ d'.downs = d.downs
        /\ d'.unproven = d.unproven /\ d'.watch_replies = d.watch_replies /\ d'.deferred = d.deferred
        /\ d'.arms = d.arms /\ d'.waiters = d.waiters
    BY <2>4 DEF Fields
  <2>7. d.replaces[s].mode # "arming"
    BY <1>c
  <2>8. MovesOn(s)
    BY <1>b, <1>4, <2>1, <2>2, <2>4, <2>5, <2>6, <2>7 DEF MovesOn
  <2> QED BY <1>b, <2>8, MovesOnIs
<1>5. \/ Ends(submit_teardown(b, s), reg, s, Refused("retired"))
      \/ Ends(submit_teardown(b, s), reg, s, Refused("diverged"))
      \/ s \in d.handles /\ commit_replace(b, s, root, desc)
      \/ /\ d' = [b EXCEPT !.replaces[s].mode = "arming", !.replaces[s].root = root]
         /\ UNCHANGED <<reg, calls>>
  BY DEF SpawnedReplacement
<1> HIDE DEF b
<1> QED BY <1>2, <1>3, <1>4, <1>5

\* The stream of a replacement fails to start.
LEMMA SpawnFailedReplacementIs ==
    ASSUME Inductive, NEW s, NEW rollback \in BOOLEAN, SpawnFailedReplacement(s, rollback), Ungated
    PROVE  Inductive'
<1>a. DOMAIN d = Fields
  BY Known
<1> DEFINE b == Spawn(d, s)
           a == Refused("source")
<1>b. /\ phase = "run" /\ s \in d.spawns /\ s \in DOMAIN d.replaces /\ UNCHANGED <<outside, dead>>
  BY DEF SpawnFailedReplacement, Ready
<1>c. /\ One(s \in Arming) = 0 /\ s \notin Arming /\ [running EXCEPT ![s] = @ + 0] = running
  BY <1>b, Underway
<1>1. /\ DOMAIN b = Fields /\ b.spawns = d.spawns \ {s} /\ \A x \in Fields \ {"spawns"} : b[x] = d[x]
  BY <1>a, SpawnIs
<1>2. a.k = "err" /\ DOMAIN a # {"k", "s"} /\ 1 \in {0, 1} /\ 1 = 1 + One(s \in Arming) /\ a.k \in {"err", "ok"}
  BY <1>c, RefusedIs
<1>3. CASE rollback
  <2>1. Ends(submit_teardown(b, s), reg, s, a) /\ running' = [running EXCEPT ![s] = @ + 1]
    BY <1>3 DEF SpawnFailedReplacement
  <2> HIDE DEF a, b
  <2> QED BY <1>b, <1>1, <1>2, <2>1, SpentIs
<1>4. CASE ~rollback
  <2>1. Ends(b, reg, s, a) /\ running' = [running EXCEPT ![s] = @ + 0]
    BY <1>4 DEF SpawnFailedReplacement
  <2> HIDE DEF a, b
  <2>2. running' = running
    BY <1>c, <2>1
  <2> QED BY <1>b, <1>c, <1>1, <1>2, <2>1, <2>2, GivenUpIs
<1> QED BY <1>3, <1>4

\* A replacement of s is under way in this mode.
At(s, mode) == phase = "run" /\ s \in DOMAIN d.replaces /\ d.replaces[s].mode = mode

\* A replacement that was not spawning has nothing with the blocking pool.
LEMMA Unspawned ==
    ASSUME Inductive, NEW s, NEW mode, At(s, mode), mode # "spawning"
    PROVE  /\ phase = "run" /\ s \in DOMAIN d.replaces /\ d.replaces[s].mode = mode
           /\ d.spawns = d.spawns \ {s} /\ s \notin d.spawns /\ DOMAIN d = Fields
           /\ (s \in Arming <=> mode = "arming") /\ One(s \in Arming) = IF mode = "arming" THEN 1 ELSE 0
           /\ [running EXCEPT ![s] = @ + 0] = running
           /\ DOMAIN d.replaces[s] = {"who", "path", "mode", "root", "left"}
<1>1. phase = "run" /\ s \in DOMAIN d.replaces /\ d.replaces[s].mode = mode
  BY DEF At
<1>2. s \notin d.spawns
  BY <1>1, Underway
<1> QED BY <1>1, <1>2, Underway, Known

\* The watch of a replacement is armed, or is not.
LEMMA RebindArmedIs ==
    ASSUME Inductive, NEW s, NEW ok \in BOOLEAN, RebindArmed(s, ok), Ungated PROVE Inductive'
<1>0. At(s, "arming") /\ UNCHANGED <<outside, running, dead>>
  BY DEF RebindArmed, InMode, Ready, At
<1>1. /\ phase = "run" /\ s \in DOMAIN d.replaces /\ d.spawns = d.spawns \ {s} /\ DOMAIN d = Fields
      /\ One(s \in Arming) = 1 /\ [running EXCEPT ![s] = @ + 0] = running
  BY <1>0, Unspawned
<1>2. /\ 0 \in {0, 1} /\ 1 = 0 + One(s \in Arming) /\ running' = [running EXCEPT ![s] = @ + 0]
      /\ \A x \in Fields \ {"spawns"} : d[x] = d[x]
  BY <1>0, <1>1
<1>3. CASE s \in d.handles /\ ok
  <2>1. commit_replace(d, s, d.replaces[s].root, TRUE)
    BY <1>3 DEF RebindArmed
  <2> QED BY <1>0, <1>1, <1>2, <1>3, <2>1, CommitIs
<1>4. CASE ~(s \in d.handles /\ ok)
  <2> DEFINE a == Refused("source")
  <2>1. Ends(submit_teardown(d, s), reg, s, a)
    BY <1>4 DEF RebindArmed
  <2>2. a.k = "err" /\ DOMAIN a # {"k", "s"}
    BY RefusedIs
  <2> HIDE DEF a
  <2> QED BY <1>0, <1>1, <1>2, <2>1, <2>2, SpentIs
<1> QED BY <1>3, <1>4

\* A refusal before anything was spawned, and a step within the same stream.
LEMMA RefusesIs ==
    ASSUME Inductive, NEW s, NEW mode, At(s, mode), mode \notin {"spawning", "arming"}, NEW a,
           Ends(d, reg, s, a), a.k = "err", DOMAIN a # {"k", "s"}, UNCHANGED <<outside, running, dead>>, Ungated
    PROVE  Inductive'
<1>1. /\ phase = "run" /\ s \in DOMAIN d.replaces /\ d.spawns = d.spawns \ {s} /\ DOMAIN d = Fields
      /\ s \notin Arming
  BY Unspawned
<1>2. /\ \A x \in Fields \ {"spawns"} : d[x] = d[x] /\ a.k \in {"err", "ok"} /\ reg = reg
  OBVIOUS
<1>3. running' = running /\ UNCHANGED <<outside, dead>> /\ a.k \in {"err", "ok"}
  OBVIOUS
<1> QED BY <1>1, <1>2, <1>3, GivenUpIs

\* A replacement that shifts keeps its caller, its path and its place.
LEMMA ShiftsIs ==
    ASSUME Inductive, NEW s, NEW mode, At(s, mode), mode \notin {"spawning", "arming"}, NEW rs,
           DOMAIN rs = {"who", "path", "mode", "root", "left"}, rs.mode \in Modes \ {"arming"},
           rs.who = d.replaces[s].who, rs.path = d.replaces[s].path,
           DOMAIN d' = Fields, DOMAIN d'.replaces = DOMAIN d.replaces, d'.replaces[s] = rs,
           \A t \in DOMAIN d.replaces : t # s => d'.replaces[t] = d.replaces[t],
           d'.spawns = IF rs.mode = "spawning" THEN d.spawns \cup {s} ELSE d.spawns,
           \A x \in Fields \ {"replaces", "spawns"} : d'[x] = d[x],
           UNCHANGED <<reg, calls, outside, running, dead>>, Ungated
    PROVE  Inductive'
<1>1. /\ phase = "run" /\ s \in DOMAIN d.replaces /\ d.spawns = d.spawns \ {s} /\ DOMAIN d = Fields
      /\ s \notin Arming /\ d.replaces[s].mode # "arming"
  BY Unspawned
<1>2. \A t \in DOMAIN d.replaces :
         /\ DOMAIN d.replaces[t] = {"who", "path", "mode", "root", "left"} /\ d.replaces[t].mode \in Modes
  BY Known DEF DriverTyped
<1>3. \A t \in DOMAIN d.replaces :
         /\ DOMAIN d'.replaces[t] = {"who", "path", "mode", "root", "left"}
         /\ d'.replaces[t].who = d.replaces[t].who /\ d'.replaces[t].path = d.replaces[t].path
         /\ d'.replaces[t].mode \in Modes
         /\ t # s => d'.replaces[t] = d.replaces[t]
  BY <1>1, <1>2
<1>4. MovesOn(s)
  BY <1>1, <1>3 DEF MovesOn, Fields
<1> QED BY <1>1, <1>4, MovesOnIs

-----------------------------------------------------------------------------

\* What a new state of a replacement changes in the driver.
LEMMA ReplacedWith ==
    ASSUME DOMAIN d = Fields, NEW s \in DOMAIN d.replaces, NEW rs,
           d' = [d EXCEPT !.replaces = [d.replaces EXCEPT ![s] = rs]]
    PROVE  /\ DOMAIN d' = Fields /\ DOMAIN d'.replaces = DOMAIN d.replaces /\ d'.replaces[s] = rs
           /\ \A t \in DOMAIN d.replaces : t # s => d'.replaces[t] = d.replaces[t]
           /\ d'.spawns = d.spawns /\ \A x \in Fields \ {"replaces", "spawns"} : d'[x] = d[x]
  BY DEF Fields

\* What a spawn for a replacement changes in the driver.
LEMMA DispatchedWith ==
    ASSUME DOMAIN d = Fields, NEW s \in DOMAIN d.replaces, NEW rs, d' = dispatch_replace_spawn(d, s, rs)
    PROVE  /\ DOMAIN d' = Fields /\ DOMAIN d'.replaces = DOMAIN d.replaces /\ d'.replaces[s] = rs
           /\ \A t \in DOMAIN d.replaces : t # s => d'.replaces[t] = d.replaces[t]
           /\ d'.spawns = d.spawns \cup {s} /\ \A x \in Fields \ {"replaces", "spawns"} : d'[x] = d[x]
<1>1. DOMAIN d' = Fields /\ d'.replaces = Put(d.replaces, s, rs) /\ d'.spawns = d.spawns \cup {s}
  BY DEF dispatch_replace_spawn, Fields
<1>2. \A x \in Fields \ {"replaces", "spawns"} : d'[x] = d[x]
  BY DEF dispatch_replace_spawn, Fields
<1> QED BY <1>1, <1>2 DEF Put

\* The state a replacement starts with.
LEMMA ReplaceStateIs ==
    ASSUME NEW who, NEW path, NEW mode
    PROVE  LET rs == ReplaceState(who, path, mode)
           IN  /\ DOMAIN rs = {"who", "path", "mode", "root", "left"} /\ rs.mode = mode
               /\ rs.who = who /\ rs.path = path
  BY DEF ReplaceState

\* A widen that cannot be: a stream is spawned instead.
LEMMA FallsBackIs ==
    ASSUME Inductive, NEW s, NEW mode, At(s, mode), mode \notin {"spawning", "arming"},
           d' = dispatch_replace_spawn(d, s, ReplaceState(d.replaces[s].who, d.replaces[s].path, "spawning")),
           UNCHANGED <<reg, calls, outside, running, dead>>, Ungated
    PROVE  Inductive'
<1> DEFINE rs == ReplaceState(d.replaces[s].who, d.replaces[s].path, "spawning")
<1>1. /\ DOMAIN rs = {"who", "path", "mode", "root", "left"} /\ rs.mode = "spawning"
      /\ rs.who = d.replaces[s].who /\ rs.path = d.replaces[s].path /\ d' = dispatch_replace_spawn(d, s, rs)
  BY ReplaceStateIs
<1> HIDE DEF rs
<1>2. s \in DOMAIN d.replaces /\ DOMAIN d = Fields /\ "spawning" \in Modes \ {"arming"}
  BY Known DEF At, Modes
<1>3. /\ DOMAIN d' = Fields /\ DOMAIN d'.replaces = DOMAIN d.replaces /\ d'.replaces[s] = rs
      /\ \A t \in DOMAIN d.replaces : t # s => d'.replaces[t] = d.replaces[t]
      /\ d'.spawns = d.spawns \cup {s} /\ \A x \in Fields \ {"replaces", "spawns"} : d'[x] = d[x]
  BY <1>1, <1>2, DispatchedWith
<1>4. d'.spawns = IF rs.mode = "spawning" THEN d.spawns \cup {s} ELSE d.spawns
  BY <1>1, <1>3
<1> QED BY <1>1, <1>2, <1>3, <1>4, ShiftsIs

\* A widen that goes on keeps the stream of its scope.
LEMMA WidensIs ==
    ASSUME Inductive, NEW s, NEW mode, At(s, mode), mode \notin {"spawning", "arming"}, NEW rs,
           DOMAIN rs = {"who", "path", "mode", "root", "left"}, rs.mode \in {"widening", "catching up"},
           rs.who = d.replaces[s].who, rs.path = d.replaces[s].path,
           d' = [d EXCEPT !.replaces = [d.replaces EXCEPT ![s] = rs]],
           UNCHANGED <<reg, calls, outside, running, dead>>, Ungated
    PROVE  Inductive'
<1>1. s \in DOMAIN d.replaces /\ DOMAIN d = Fields /\ rs.mode \in Modes \ {"arming"} /\ rs.mode # "spawning"
  BY Known DEF At, Modes
<1>2. /\ DOMAIN d' = Fields /\ DOMAIN d'.replaces = DOMAIN d.replaces /\ d'.replaces[s] = rs
      /\ \A t \in DOMAIN d.replaces : t # s => d'.replaces[t] = d.replaces[t]
      /\ d'.spawns = d.spawns /\ \A x \in Fields \ {"replaces", "spawns"} : d'[x] = d[x]
  BY <1>1, ReplacedWith
<1>3. d'.spawns = IF rs.mode = "spawning" THEN d.spawns \cup {s} ELSE d.spawns
  BY <1>1, <1>2
<1> QED BY ZenonT(40), <1>1, <1>2, <1>3, ShiftsIs

\* The record of a replacement.
LEMMA RecordOf ==
    ASSUME Inductive, NEW s, NEW mode, At(s, mode)
    PROVE  /\ s \in DOMAIN d.replaces /\ d.replaces[s].mode = mode
           /\ DOMAIN d.replaces[s] = {"who", "path", "mode", "root", "left"}
  BY Known DEF At, DriverTyped

\* What the wider path names is known: refused, widened, or spawned.
LEMMA ReplaceMetaIs ==
    ASSUME Inductive, NEW s, NEW ok \in BOOLEAN, NEW root, NEW same \in BOOLEAN,
           ReplaceMeta(s, ok, root, same), Ungated
    PROVE  Inductive'
<1>0. At(s, "meta") /\ UNCHANGED <<outside, running, dead>> /\ "meta" \notin {"spawning", "arming"}
  BY DEF ReplaceMeta, InMode, Ready, At
<1>1. ASSUME Ends(d, reg, s, Refused("source")) PROVE Inductive'
  <2> DEFINE a == Refused("source")
  <2>1. Ends(d, reg, s, a) /\ a.k = "err" /\ DOMAIN a # {"k", "s"}
    BY <1>1, RefusedIs
  <2> HIDE DEF a
  <2> QED BY <1>0, <2>1, RefusesIs
<1>2. ASSUME d' = [d EXCEPT !.replaces[s].mode = "widening", !.replaces[s].root = root], UNCHANGED <<reg, calls>>
      PROVE  Inductive'
  <2> DEFINE rs == [d.replaces[s] EXCEPT !.mode = "widening", !.root = root]
  <2>0. DOMAIN d = Fields
    BY Known
  <2>1. d' = [d EXCEPT !.replaces = [d.replaces EXCEPT ![s] = rs]]
    BY <1>0, <1>2, <2>0 DEF At, Fields
  <2>2. /\ DOMAIN rs = {"who", "path", "mode", "root", "left"} /\ rs.mode \in {"widening", "catching up"}
        /\ rs.who = d.replaces[s].who /\ rs.path = d.replaces[s].path
    BY <1>0, RecordOf
  <2> HIDE DEF rs
  <2> QED BY <1>0, <1>2, <2>1, <2>2, WidensIs
<1>3. ASSUME d' = dispatch_replace_spawn(d, s,
                      ReplaceState(d.replaces[s].who, d.replaces[s].path, "spawning")),
             UNCHANGED <<reg, calls>>
      PROVE  Inductive'
  BY <1>0, <1>3, FallsBackIs
<1>4. \/ Ends(d, reg, s, Refused("source"))
      \/ /\ UNCHANGED <<reg, calls>>
         /\ \/ d' = [d EXCEPT !.replaces[s].mode = "widening", !.replaces[s].root = root]
            \/ d' = dispatch_replace_spawn(d, s,
                        ReplaceState(d.replaces[s].who, d.replaces[s].path, "spawning"))
  BY DEF ReplaceMeta
<1> QED BY <1>1, <1>2, <1>3, <1>4

\* The wider watch is armed, or is not.
LEMMA WidenArmedIs ==
    ASSUME Inductive, NEW s, NEW ok \in BOOLEAN, NEW left, WidenArmed(s, ok, left), Ungated PROVE Inductive'
<1>0. At(s, "widening") /\ UNCHANGED <<outside, running, dead>> /\ "widening" \notin {"spawning", "arming"}
  BY DEF WidenArmed, InMode, Ready, At
<1>1. CASE ~(s \in d.handles /\ ok)
  <2> DEFINE a == Refused("source")
  <2>1. Ends(d, reg, s, a) /\ a.k = "err" /\ DOMAIN a # {"k", "s"}
    BY <1>1, RefusedIs DEF WidenArmed
  <2> HIDE DEF a
  <2> QED BY <1>0, <2>1, RefusesIs
<1>2. CASE s \in d.handles /\ ok
  <2> DEFINE rs == [d.replaces[s] EXCEPT !.mode = "catching up", !.left = left]
  <2>0. /\ DOMAIN d = Fields /\ UNCHANGED <<reg, calls>>
        /\ d' = [d EXCEPT !.replaces[s].mode = "catching up", !.replaces[s].left = left]
    BY <1>2, Known DEF WidenArmed
  <2>1. d' = [d EXCEPT !.replaces = [d.replaces EXCEPT ![s] = rs]]
    BY <1>0, <2>0 DEF At, Fields
  <2>2. /\ DOMAIN rs = {"who", "path", "mode", "root", "left"} /\ rs.mode \in {"widening", "catching up"}
        /\ rs.who = d.replaces[s].who /\ rs.path = d.replaces[s].path
    BY <1>0, RecordOf
  <2> HIDE DEF rs
  <2> QED BY <1>0, <2>0, <2>1, <2>2, WidensIs
<1> QED BY <1>1, <1>2

\* A message of the lane that a widen catches up on is read.
LEMMA CatchUpItemIs ==
    ASSUME Inductive, NEW s, CatchUpItem(s), Ungated PROVE Inductive'
<1>0. /\ At(s, "catching up") /\ UNCHANGED <<reg, calls, outside, running, dead>>
      /\ "catching up" \notin {"spawning", "arming"} /\ d' = [d EXCEPT !.replaces[s].left = @ - 1]
  BY DEF CatchUpItem, InMode, Ready, At
<1> DEFINE rs == [d.replaces[s] EXCEPT !.left = @ - 1]
<1>1. d' = [d EXCEPT !.replaces = [d.replaces EXCEPT ![s] = rs]]
  <2>1. DOMAIN d = Fields
    BY Known
  <2> QED BY <1>0, <2>1 DEF At, Fields
<1>2. /\ DOMAIN rs = {"who", "path", "mode", "root", "left"} /\ rs.mode \in {"widening", "catching up"}
      /\ rs.who = d.replaces[s].who /\ rs.path = d.replaces[s].path
  BY <1>0, RecordOf
<1> HIDE DEF rs
<1> QED BY <1>0, <1>1, <1>2, WidensIs

\* A widen that has caught up commits, is refused, or falls back.
LEMMA ResolveCatchUpIs ==
    ASSUME Inductive, NEW s, NEW clean \in BOOLEAN, ResolveCatchUp(s, clean), Ungated PROVE Inductive'
<1>0. At(s, "catching up") /\ UNCHANGED <<outside, running, dead>> /\ "catching up" \notin {"spawning", "arming"}
  BY DEF ResolveCatchUp, Caught, At
<1> DEFINE root == d.replaces[s].root
           path == d.replaces[s].path
           conflict == final_root_conflict(reg, root, path, {s})
<1>1. ASSUME NEW a, Ends(d, reg, s, a), a.k = "err", DOMAIN a # {"k", "s"} PROVE Inductive'
  BY <1>0, <1>1, RefusesIs
<1>2. ASSUME s \in d.handles, conflict = {}, Ends(d, scope_live(reg, s, root), s, Acked("ok")) PROVE Inductive'
  <2> DEFINE r == scope_live(reg, s, root)
             a == Acked("ok")
  <2>1. /\ phase = "run" /\ s \in DOMAIN d.replaces /\ d.spawns = d.spawns \ {s} /\ DOMAIN d = Fields
        /\ s \notin Arming
    BY <1>0, Unspawned
  <2>2. a.k \in {"err", "ok"} /\ DOMAIN a # {"k", "s"}
    BY DEF Acked
  <2>3. r = reg \/ \E q, p : /\ s \in d.handles /\ final_root_conflict(reg, q, p, {s}) = {}
                            /\ r = scope_live(reg, s, q)
    BY <1>2
  <2>4. /\ Ends(d, r, s, a) /\ running' = running /\ UNCHANGED <<outside, dead>>
        /\ \A x \in Fields \ {"spawns"} : d[x] = d[x]
    BY <1>0, <1>2
  <2> HIDE DEF r, a, conflict, root, path
  <2> QED BY <2>1, <2>2, <2>3, <2>4, GivenUpIs
<1>3. ASSUME falls_back(s, d.replaces[s]) PROVE Inductive'
  BY <1>0, <1>3, FallsBackIs DEF falls_back
<1>4. \/ Ends(d, reg, s, Refused("retired"))
      \/ Ends(d, reg, s, Overlaps(conflict))
      \/ s \in d.handles /\ conflict = {} /\ Ends(d, scope_live(reg, s, root), s, Acked("ok"))
      \/ falls_back(s, d.replaces[s])
  BY DEF ResolveCatchUp, commit_widen
<1>5. Overlaps(conflict).k = "err" /\ DOMAIN Overlaps(conflict) # {"k", "s"}
  BY DEF Overlaps
<1> HIDE DEF conflict
<1>6. Refused("retired").k = "err" /\ DOMAIN Refused("retired") # {"k", "s"}
  BY RefusedIs
<1> QED BY <1>1, <1>2, <1>3, <1>4, <1>5, <1>6

-----------------------------------------------------------------------------
\* Only the waiters of a scope that comes to rest are told.
LEMMA RestedTold ==
    ASSUME CallsTyped, PlacesSound, NEW s \in Scope, NEW done \in BOOLEAN, NEW dr,
           \A i \in DOMAIN dr.waiters[s] :
               i \in DOMAIN d.waiters[s] /\ dr.waiters[s][i].who = d.waiters[s][i].who,
           calls' = resolve_unwatch_waiters(calls, dr, s, done)
    PROVE  Settled(dr.waiters[s], done, Gone, Refused("none"))
<1> DEFINE who == Gone
           a == Refused("none")
<1>1. who \in Clients => Open(who)
  BY FsScopesAssumption
<1>2. \A i \in DOMAIN dr.waiters[s] : \A c \in Clients :
         dr.waiters[s][i].who = c => Open(c) /\ c # who
  BY FsScopesAssumption DEF PlacesSound
<1>3. calls' = resolve_unwatch_waiters(answer(calls, who, a), dr, s, done)
  BY DEF answer
<1> HIDE DEF who, a
<1>4. Settled(dr.waiters[s], done, who, a)
  BY <1>1, <1>2, <1>3, SettledBy
<1> QED BY <1>4 DEF who, a

\* A stream lands with a reaper, or leaves it, and the waiters of a scope that
\* comes to rest are told.
LandsAs(s, x, y, W, done, dr) ==
    /\ x \in Int /\ y \in {0, 1} /\ W \in Seq(Waiter) /\ done \in BOOLEAN
    /\ DOMAIN dr = Fields
    /\ \A f \in Fields \ {"spawns", "downs", "unproven", "waiters"} : dr[f] = d[f]
    /\ dr.spawns = d.spawns \/ (phase # "run" /\ dr.spawns = d.spawns \ {s})
    /\ dr.downs = [d.downs EXCEPT ![s] = @ + x] /\ dr.unproven = [d.unproven EXCEPT ![s] = @ + y]
    /\ dr.waiters = [d.waiters EXCEPT ![s] = W]
    /\ d.downs[s] + x >= 0 /\ (phase = "run" => x + y <= 0) /\ (d.downs[s] > 0 \/ s \in d.spawns)
    /\ DOMAIN W = DOMAIN d.waiters[s]
    /\ \A i \in DOMAIN W : /\ W[i].who = d.waiters[s][i].who
                           /\ W[i].verdict = "torn" => dr.unproven[s] = 0
    /\ done => s \notin dr.handles \cup dr.spawns \cup DOMAIN dr.replaces /\ dr.downs[s] = 0
    /\ d' = Rested(dr, s, done) /\ calls' = resolve_unwatch_waiters(calls, dr, s, done)
    /\ running' = [running EXCEPT ![s] = @ + (x + y)] /\ reported # 0
    /\ UNCHANGED <<reg, outside, dead>> /\ Ungated

\* What the reapers land keeps the arms.
LEMMA LandsIs ==
    ASSUME Inductive, NEW s \in Scope, NEW x, NEW y, NEW W, NEW done, NEW dr, LandsAs(s, x, y, W, done, dr)
    PROVE  Inductive'
<1> USE DEF LandsAs
<1>a. /\ ScopesIInv /\ GatesSound /\ DriverTyped /\ CallsTyped /\ PlacesSound
  BY Known
<1>1. /\ DOMAIN d' = Fields /\ d'.waiters = (IF done THEN [dr.waiters EXCEPT ![s] = <<>>] ELSE dr.waiters)
      /\ \A f \in Fields \ {"waiters"} : d'[f] = dr[f]
  BY DEF Rested, Fields
<1>2. d'.waiters = [d.waiters EXCEPT ![s] = IF done THEN <<>> ELSE W]
  <2>1. d.waiters \in [Scope -> Seq(Waiter)]
    BY <1>a DEF DriverTyped
  <2>2. CASE done
    <3>1. [[d.waiters EXCEPT ![s] = W] EXCEPT ![s] = <<>>] = [d.waiters EXCEPT ![s] = <<>>]
      BY <2>1
    <3> QED BY <1>1, <2>2, <3>1
  <2>3. CASE ~done
    BY <1>1, <2>3
  <2> QED BY <2>2, <2>3
<1>3. /\ \A f \in Fields \ {"spawns", "downs", "unproven", "waiters"} : d'[f] = d[f]
      /\ d'.spawns = dr.spawns /\ d'.downs = dr.downs /\ d'.unproven = dr.unproven
      /\ d'.handles = dr.handles /\ d'.replaces = dr.replaces
  BY <1>1 DEF Fields
<1>4. dr.waiters[s] = W
  BY <1>a DEF DriverTyped
<1>5. Settled(W, done, Gone, Refused("none"))
  <2>1. \A i \in DOMAIN dr.waiters[s] :
           i \in DOMAIN d.waiters[s] /\ dr.waiters[s][i].who = d.waiters[s][i].who
    BY <1>4
  <2>2. CallsTyped /\ PlacesSound /\ calls' = resolve_unwatch_waiters(calls, dr, s, done)
    BY <1>a
  <2>3. Settled(dr.waiters[s], done, Gone, Refused("none"))
    BY <2>1, <2>2, RestedTold
  <2> QED BY <1>4, <2>3
<1>6. /\ d'.scope_seq = d.scope_seq /\ d'.handles = d.handles /\ d'.lanes = d.lanes
      /\ d'.lane_of = d.lane_of /\ d'.deferred = d.deferred /\ d'.arms = d.arms
      /\ d'.watch_replies = d.watch_replies /\ d'.replaces = d.replaces
  BY <1>3 DEF Fields
<1>7. Settles(s, x, y, W, done)
  BY <1>1, <1>2, <1>3, <1>5, <1>6 DEF Settles
<1>8. ScopesIInv'
  BY <1>a, <1>7, SettlesSafe
<1>9. GatesSound'
  <2>1. phase' = phase
    BY DEF outside, front
  <2> QED BY <1>a, <1>6, <2>1, GatesKept
<1> QED BY <1>8, <1>9 DEF Inductive

\* A scope's waiters, all told that nothing is proven.
LEMMA TaintedIs ==
    ASSUME DriverTyped, NEW s \in Scope
    PROVE  LET W == [i \in DOMAIN d.waiters[s] |-> [d.waiters[s][i] EXCEPT !.verdict = "unproven"]]
           IN  /\ W \in Seq(Waiter) /\ DOMAIN W = DOMAIN d.waiters[s]
               /\ \A i \in DOMAIN W : W[i].who = d.waiters[s][i].who /\ W[i].verdict # "torn"
<1> DEFINE q == d.waiters[s]
           W == [i \in DOMAIN q |-> [q[i] EXCEPT !.verdict = "unproven"]]
<1>1. q \in Seq(Waiter)
  BY DEF DriverTyped
<1>2. Len(q) \in Nat /\ DOMAIN q = 1 .. Len(q) /\ \A i \in DOMAIN q : q[i] \in Waiter
  BY <1>1
<1> HIDE DEF q
<1>3. \A i \in DOMAIN q : [q[i] EXCEPT !.verdict = "unproven"] \in Waiter
  BY <1>2 DEF Waiter
<1>4. W \in [1 .. Len(q) -> Waiter]
  BY <1>2, <1>3
<1>5. W \in Seq(Waiter)
  BY <1>2, <1>4
<1>6. \A i \in DOMAIN W : W[i].who = q[i].who /\ W[i].verdict # "torn"
  BY <1>2 DEF Waiter
<1> QED BY <1>5, <1>6 DEF q

\* The verdicts of the waiters as they are.
LEMMA WaitersStand ==
    ASSUME Inductive, NEW s \in Scope
    PROVE  /\ d.waiters[s] \in Seq(Waiter) /\ [d.waiters EXCEPT ![s] = d.waiters[s]] = d.waiters
           /\ [d.unproven EXCEPT ![s] = @ + 0] = d.unproven
           /\ \A i \in DOMAIN d.waiters[s] : d.waiters[s][i].verdict = "torn" => d.unproven[s] = 0
           /\ d.downs \in [Scope -> Nat] /\ d.unproven \in [Scope -> Nat] /\ running \in [Scope -> Int]
           /\ d.waiters \in [Scope -> Seq(Waiter)] /\ DOMAIN d = Fields
<1>1. DriverTyped /\ HistoryTyped /\ VerdictsSound
  BY Known
<1>2. d.waiters \in [Scope -> Seq(Waiter)] /\ d.unproven \in [Scope -> Nat] /\ DOMAIN d = Fields
  BY <1>1 DEF DriverTyped
<1>3. [d.waiters EXCEPT ![s] = d.waiters[s]] = d.waiters /\ d.waiters[s] \in Seq(Waiter)
  BY <1>2
<1>4. [d.unproven EXCEPT ![s] = @ + 0] = d.unproven
  <2>1. d.unproven[s] + 0 = d.unproven[s]
    BY <1>2
  <2>2. [d.unproven EXCEPT ![s] = d.unproven[s]] = d.unproven
    BY <1>2
  <2> QED BY <2>1, <2>2
<1>5. \A i \in DOMAIN d.waiters[s] : d.waiters[s][i].verdict = "torn" => d.unproven[s] = 0
  BY <1>1 DEF VerdictsSound
<1>6. d.downs \in [Scope -> Nat] /\ running \in [Scope -> Int]
  BY <1>1 DEF DriverTyped, HistoryTyped
<1> QED BY <1>2, <1>3, <1>4, <1>5, <1>6

\* Nobody was told that nothing is left while something is.
LEMMA NotYetNothing ==
    ASSUME Inductive, NEW s \in Scope, s \in d.spawns \/ d.downs[s] > 0 \/ phase # "closed"
    PROVE  reported # 0
<1>1. CloseHonest /\ EveryStreamHeld /\ DriverTyped /\ HistoryTyped /\ PhasesSound
  BY Known
<1>2. CASE phase # "closed"
  BY <1>1, <1>2 DEF PhasesSound
<1>3. CASE s \in d.spawns
  BY <1>1, <1>3 DEF CloseHonest
<1>4. CASE d.downs[s] > 0
  <2>1. /\ running[s] = One(s \in d.handles) + One(s \in Arming) + d.downs[s] + d.unproven[s]
        /\ d.downs[s] \in Nat /\ d.unproven[s] \in Nat
    BY <1>1, HeldAt
  <2>2. One(s \in d.handles) \in Nat /\ One(s \in Arming) \in Nat
    BY DEF One
  <2>3. running[s] # 0
    BY <1>4, <2>1, <2>2
  <2> QED BY <1>1, <2>3 DEF CloseHonest
<1> QED BY <1>2, <1>3, <1>4

\* `OpResult::TornDown` and `TeardownFailed` while the driver runs.
LEMMA TornDownIs ==
    ASSUME Inductive, NEW s \in Scope, NEW proven \in BOOLEAN, TornDown(s, proven), Ungated PROVE Inductive'
<1>a. PhasesSound /\ DriverTyped
  BY Known
<1>b. /\ phase # "closed" /\ d.downs[s] > 0 /\ UNCHANGED <<reg, outside, dead>>
      /\ running' = [running EXCEPT ![s] = @ - (IF proven THEN 1 ELSE 0)]
  BY DEF TornDown
<1> DEFINE landed == [d EXCEPT !.downs[s] = @ - 1]
           dr == IF proven THEN landed ELSE taint_unproven_scope(landed, s)
           done == IF phase = "run" THEN scope_quiesced(dr, s) ELSE s \notin dr.spawns /\ dr.downs[s] = 0
           W == IF proven THEN d.waiters[s]
                ELSE [i \in DOMAIN d.waiters[s] |-> [d.waiters[s][i] EXCEPT !.verdict = "unproven"]]
           y == IF proven THEN 0 ELSE 1
           x == -1
<1>c. d' = Rested(dr, s, done) /\ calls' = resolve_unwatch_waiters(calls, dr, s, done)
  BY DEF TornDown
<1>d. /\ d.waiters[s] \in Seq(Waiter) /\ [d.waiters EXCEPT ![s] = d.waiters[s]] = d.waiters
      /\ [d.unproven EXCEPT ![s] = @ + 0] = d.unproven
      /\ \A i \in DOMAIN d.waiters[s] : d.waiters[s][i].verdict = "torn" => d.unproven[s] = 0
      /\ d.downs \in [Scope -> Nat] /\ d.unproven \in [Scope -> Nat] /\ running \in [Scope -> Int]
      /\ d.waiters \in [Scope -> Seq(Waiter)] /\ DOMAIN d = Fields
  BY WaitersStand
<1>1. /\ DOMAIN landed = Fields /\ landed.downs = [d.downs EXCEPT ![s] = @ - 1]
      /\ landed.unproven = d.unproven /\ landed.waiters = d.waiters
      /\ \A f \in Fields \ {"downs"} : landed[f] = d[f]
  BY <1>d DEF Fields
<1> HIDE DEF landed
<1>2. [d.downs EXCEPT ![s] = @ + x] = [d.downs EXCEPT ![s] = @ - 1]
  BY <1>d
<1>3. /\ DOMAIN dr = Fields /\ dr.downs = [d.downs EXCEPT ![s] = @ + x]
      /\ dr.unproven = [d.unproven EXCEPT ![s] = @ + y] /\ dr.waiters = [d.waiters EXCEPT ![s] = W]
      /\ \A f \in Fields \ {"spawns", "downs", "unproven", "waiters"} : dr[f] = d[f]
      /\ dr.spawns = d.spawns
  <2>1. CASE proven
    BY <1>1, <1>2, <1>d, <2>1 DEF Fields
  <2>2. CASE ~proven
    <3>1. dr = [landed EXCEPT !.unproven[s] = @ + 1,
                              !.waiters[s] = [i \in DOMAIN @ |-> [@[i] EXCEPT !.verdict = "unproven"]]]
      BY <2>2 DEF taint_unproven_scope
    <3> HIDE DEF dr
    <3>2. /\ DOMAIN dr = Fields /\ dr.unproven = [landed.unproven EXCEPT ![s] = @ + 1]
          /\ dr.waiters = [landed.waiters EXCEPT ![s] =
                              [i \in DOMAIN landed.waiters[s] |-> [landed.waiters[s][i] EXCEPT !.verdict = "unproven"]]]
          /\ \A f \in Fields \ {"unproven", "waiters"} : dr[f] = landed[f]
      BY <1>1, <3>1 DEF Fields
    <3>3. dr.downs = landed.downs /\ dr.spawns = d.spawns
      BY <1>1, <3>2 DEF Fields
    <3>4. \A f \in Fields \ {"spawns", "downs", "unproven", "waiters"} : dr[f] = d[f]
      BY <1>1, <3>2
    <3>5. dr.unproven = [d.unproven EXCEPT ![s] = @ + y] /\ dr.waiters = [d.waiters EXCEPT ![s] = W]
      BY <1>1, <2>2, <3>2
    <3> QED BY <1>1, <1>2, <3>2, <3>3, <3>4, <3>5
  <2> QED BY <2>1, <2>2
<1>4. W \in Seq(Waiter) /\ DOMAIN W = DOMAIN d.waiters[s] /\ y \in {0, 1}
  BY <1>a, <1>d, TaintedIs
<1>5. \A i \in DOMAIN W : /\ W[i].who = d.waiters[s][i].who
                          /\ W[i].verdict = "torn" => dr.unproven[s] = 0
  <2>1. CASE proven
    <3>1. dr.unproven = d.unproven /\ W = d.waiters[s]
      BY <1>3, <1>d, <2>1
    <3> QED BY <1>d, <3>1
  <2>2. CASE ~proven
    BY <1>a, <2>2, TaintedIs
  <2> QED BY <2>1, <2>2
<1> HIDE DEF W, dr
<1>6. done \in BOOLEAN
  BY DEF scope_quiesced
<1>7. done => s \notin dr.handles \cup dr.spawns \cup DOMAIN dr.replaces /\ dr.downs[s] = 0
  <2>1. dr.handles = d.handles /\ dr.replaces = d.replaces
    BY <1>3 DEF Fields
  <2>2. CASE phase = "run"
    BY <2>2 DEF scope_quiesced
  <2>3. CASE phase # "run"
    <3>1. d.handles = {} /\ DOMAIN d.replaces = {}
      BY <1>a, <2>3 DEF PhasesSound
    <3> QED BY <2>1, <2>3, <3>1
  <2> QED BY <2>2, <2>3
<1>8. x \in Int /\ d.downs[s] + x >= 0 /\ x + y <= 0
  <2>1. d.downs[s] \in Nat
    BY <1>d
  <2> QED BY <1>b, <2>1
<1>9. running' = [running EXCEPT ![s] = @ + (x + y)]
  <2>1. running[s] \in Int
    BY <1>d
  <2>2. running[s] - (IF proven THEN 1 ELSE 0) = running[s] + (x + y)
    BY <2>1
  <2> HIDE DEF x, y
  <2>3. running' = [running EXCEPT ![s] = running[s] - (IF proven THEN 1 ELSE 0)]
    BY <1>b
  <2> QED BY <2>2, <2>3
<1>10. reported # 0 /\ dr.downs = [d.downs EXCEPT ![s] = @ + x]
  BY <1>b, <1>3, NotYetNothing
<1> HIDE DEF x, y, done
<1>11. /\ dr.spawns = d.spawns \/ (phase # "run" /\ dr.spawns = d.spawns \ {s})
       /\ phase = "run" => x + y <= 0
       /\ d.downs[s] > 0 \/ s \in d.spawns
  BY <1>b, <1>3, <1>8
<1>12. /\ DOMAIN dr = Fields /\ dr.unproven = [d.unproven EXCEPT ![s] = @ + y]
       /\ dr.waiters = [d.waiters EXCEPT ![s] = W]
       /\ \A f \in Fields \ {"spawns", "downs", "unproven", "waiters"} : dr[f] = d[f]
  BY <1>3
<1>13. UNCHANGED <<reg, outside, dead>> /\ x \in Int /\ d.downs[s] + x >= 0
  BY <1>b, <1>8
<1>14. LandsAs(s, x, y, W, done, dr)
  BY <1>c, <1>4, <1>5, <1>6, <1>7, <1>9, <1>10, <1>11, <1>12, <1>13 DEF LandsAs
<1> QED BY <1>14, LandsIs

\* A spawn that lands during the close or after it.
LEMMA LateSpawnIs ==
    ASSUME Inductive, NEW s \in Scope, NEW made \in BOOLEAN, LateSpawn(s, made), Ungated PROVE Inductive'
<1>a. PhasesSound /\ DriverTyped
  BY Known
<1>b. /\ phase # "run" /\ s \in d.spawns /\ UNCHANGED <<reg, outside, dead>>
      /\ running' = [running EXCEPT ![s] = @ + (IF made THEN 1 ELSE 0)]
  BY DEF LateSpawn
<1> DEFINE b == Spawn(d, s)
           dr == IF made THEN submit_teardown(b, s) ELSE b
           done == phase = "closing" /\ dr.downs[s] = 0
           W == d.waiters[s]
           x == IF made THEN 1 ELSE 0
           y == 0
<1>c. d' = Rested(dr, s, done) /\ calls' = resolve_unwatch_waiters(calls, dr, s, done)
  BY DEF LateSpawn, swept
<1>d. /\ W \in Seq(Waiter) /\ [d.waiters EXCEPT ![s] = W] = d.waiters
      /\ [d.unproven EXCEPT ![s] = @ + y] = d.unproven
      /\ \A i \in DOMAIN W : W[i].verdict = "torn" => d.unproven[s] = 0
      /\ d.downs \in [Scope -> Nat] /\ d.unproven \in [Scope -> Nat] /\ running \in [Scope -> Int]
      /\ d.waiters \in [Scope -> Seq(Waiter)] /\ DOMAIN d = Fields
  BY WaitersStand
<1>1. /\ DOMAIN b = Fields /\ b.spawns = d.spawns \ {s} /\ \A f \in Fields \ {"spawns"} : b[f] = d[f]
  BY <1>d, SpawnIs
<1> HIDE DEF b
<1>2. /\ DOMAIN dr = Fields /\ dr.downs = [d.downs EXCEPT ![s] = @ + x] /\ dr.unproven = d.unproven
      /\ dr.waiters = d.waiters /\ dr.spawns = d.spawns \ {s}
      /\ \A f \in Fields \ {"spawns", "downs", "unproven", "waiters"} : dr[f] = d[f]
  <2>1. CASE made
    <3>1. dr = submit_teardown(b, s)
      BY <2>1
    <3> HIDE DEF dr
    <3>2. /\ DOMAIN dr = Fields /\ dr.downs = [b.downs EXCEPT ![s] = @ + 1]
          /\ \A f \in Fields \ {"downs"} : dr[f] = b[f]
      BY <1>1, <3>1 DEF submit_teardown, Fields
    <3> QED BY <1>1, <2>1, <3>2 DEF Fields
  <2>2. CASE ~made
    <3>1. dr = b
      BY <2>2
    <3> HIDE DEF dr
    <3>2. [d.downs EXCEPT ![s] = @ + x] = d.downs
      <4>1. d.downs[s] + x = d.downs[s]
        BY <1>d, <2>2
      <4>2. [d.downs EXCEPT ![s] = d.downs[s]] = d.downs
        BY <1>d
      <4> QED BY <4>1, <4>2
    <3> QED BY <1>1, <3>1, <3>2 DEF Fields
  <2> QED BY <2>1, <2>2
<1> HIDE DEF dr
<1>3. x \in Int /\ x \in Nat /\ y \in {0, 1} /\ x + y = x
  OBVIOUS
<1>4. running' = [running EXCEPT ![s] = @ + (x + y)]
  BY <1>b, <1>3
<1>5. d.downs[s] + x >= 0 /\ reported # 0
  BY <1>b, <1>d, <1>3, NotYetNothing
<1>6. done => s \notin dr.handles \cup dr.spawns \cup DOMAIN dr.replaces /\ dr.downs[s] = 0
  <2>1. d.handles = {} /\ DOMAIN d.replaces = {}
    BY <1>a, <1>b DEF PhasesSound
  <2>2. dr.handles = d.handles /\ dr.replaces = d.replaces
    BY <1>2 DEF Fields
  <2> QED BY <1>2, <2>1, <2>2
<1>7. done \in BOOLEAN
  OBVIOUS
<1> HIDE DEF done, x, y, W
<1>8. LandsAs(s, x, y, W, done, dr)
  BY <1>b, <1>c, <1>d, <1>2, <1>3, <1>4, <1>5, <1>6, <1>7 DEF LandsAs, W
<1> QED BY <1>8, LandsIs

\* A stream that is reaped after the driver is gone.
LEMMA LateDownIs ==
    ASSUME Inductive, NEW s \in Scope, NEW proven \in BOOLEAN, LateDown(s, proven), Ungated PROVE Inductive'
<1>a. PhasesSound /\ DriverTyped
  BY Known
<1> DEFINE W == d.waiters[s]
           x == -1
           y == IF proven THEN 0 ELSE 1
           dr == [d EXCEPT !.downs[s] = @ - 1, !.unproven[s] = @ + y]
<1>b. /\ phase = "closed" /\ d.downs[s] > 0 /\ UNCHANGED <<reg, calls, outside, dead>> /\ d' = dr
      /\ running' = [running EXCEPT ![s] = @ - (IF proven THEN 1 ELSE 0)]
  BY DEF LateDown
<1>d. /\ W \in Seq(Waiter) /\ [d.waiters EXCEPT ![s] = W] = d.waiters
      /\ d.downs \in [Scope -> Nat] /\ d.unproven \in [Scope -> Nat] /\ running \in [Scope -> Int]
      /\ DOMAIN d = Fields
  BY WaitersStand
<1>e. W = <<>>
  BY <1>a, <1>b DEF PhasesSound
<1>1. x \in Int /\ y \in {0, 1} /\ d.downs[s] + x >= 0 /\ reported # 0 /\ d.downs[s] - 1 = d.downs[s] + x
  <2>1. d.downs[s] \in Nat
    BY <1>d
  <2> QED BY <1>b, <2>1, NotYetNothing
<1>2. running' = [running EXCEPT ![s] = @ + (x + y)]
  <2>1. running[s] \in Int
    BY <1>d
  <2>2. running[s] - (IF proven THEN 1 ELSE 0) = running[s] + (x + y)
    BY <2>1
  <2> HIDE DEF x, y
  <2>3. running' = [running EXCEPT ![s] = running[s] - (IF proven THEN 1 ELSE 0)]
    BY <1>b
  <2> QED BY <2>2, <2>3
<1> HIDE DEF x, y
<1>3. /\ DOMAIN dr = Fields /\ dr.downs = [d.downs EXCEPT ![s] = @ - 1]
      /\ dr.unproven = [d.unproven EXCEPT ![s] = @ + y] /\ dr.waiters = d.waiters /\ dr.spawns = d.spawns
      /\ \A f \in Fields \ {"spawns", "downs", "unproven", "waiters"} : dr[f] = d[f]
  BY <1>d DEF Fields
<1> HIDE DEF dr
<1>4. dr.downs = [d.downs EXCEPT ![s] = @ + x]
  BY <1>1, <1>3
<1>5. d' = Rested(dr, s, FALSE) /\ calls' = resolve_unwatch_waiters(calls, dr, s, FALSE) /\ FALSE \in BOOLEAN
  BY <1>b DEF Rested, resolve_unwatch_waiters
<1>6. DOMAIN W = {}
  BY <1>e
<1> HIDE DEF W
<1>7. dr.waiters = [d.waiters EXCEPT ![s] = W] /\ DOMAIN W = DOMAIN d.waiters[s]
  BY <1>d, <1>3, <1>6 DEF W
<1>8. LandsAs(s, x, y, W, FALSE, dr)
  BY <1>b, <1>d, <1>1, <1>2, <1>3, <1>4, <1>5, <1>6, <1>7 DEF LandsAs
<1> QED BY <1>8, LandsIs

\* Where the driver does not run, no arm is of interest.
LEMMA OverNow ==
    ASSUME ScopesIInv', phase' # "run" PROVE Inductive'
  BY DEF Inductive, GatesSound

\* What a driver that ends owes the reapers.
LEMMA LetsGoIs ==
    ASSUME NEW downs,
           downs = [s \in Scope |-> d.downs[s] + (IF s \in d.handles THEN 1 ELSE 0)
                                              + (IF s \in Arming THEN 1 ELSE 0)]
    PROVE  LetsGo(downs)
  BY DEF LetsGo, One

\* `Command::Close`.
LEMMA TakeCloseIs ==
    ASSUME Inductive, TakeClose, Ungated PROVE Inductive'
<1>a. ScopesIInv /\ HistoryTyped /\ DOMAIN d = Fields
  BY Known
<1>b. /\ phase = "run" /\ commands # <<>> /\ commands' = Tail(commands) /\ Cmd.op = "close"
      /\ phase' = "closing"
      /\ calls' = ClosedTo(calls, {d.replaces[s].who : s \in DOMAIN d.replaces} \ {Gone})
      /\ UNCHANGED <<unwinds, held, released, reported, running, dead>>
      /\ reg' = [live |-> Empty, pending |-> Drop(reg.pending, {d.replaces[s].path : s \in DOMAIN d.replaces})]
  BY DEF TakeClose, Takes, Ready
<1> DEFINE downs == [s \in Scope |-> d.downs[s] + (IF s \in d.handles THEN 1 ELSE 0)
                                                + (IF s \in Arming THEN 1 ELSE 0)]
<1>1. d' = [d EXCEPT !.handles = {}, !.replaces = Empty, !.downs = downs]
  BY DEF TakeClose
<1>2. LetsGo(downs)
  BY LetsGoIs
<1> HIDE DEF downs
<1>3. /\ DOMAIN d' = Fields /\ d'.handles = {} /\ d'.replaces = Empty /\ d'.downs = downs
      /\ \A x \in Fields \ {"handles", "replaces", "downs"} : d'[x] = d[x]
  BY <1>a, <1>1 DEF Fields
<1>4. DOMAIN Empty = {}
  BY DEF Empty
<1>5. /\ DOMAIN reg' = {"live", "pending"} /\ DOMAIN reg'.live = {}
      /\ reg'.pending = Drop(reg.pending, {d.replaces[s].path : s \in DOMAIN d.replaces})
  BY <1>b, <1>4
<1>6. Closing
  BY <1>b, <1>2, <1>3, <1>4, <1>5 DEF Closing, Fields
<1>7. ScopesIInv'
  BY <1>a, <1>b, <1>6, ClosingSafe
<1> QED BY <1>b, <1>7, OverNow

\* The driver reports what is left, and returns.
LEMMA CloseReplyIs ==
    ASSUME Inductive, CloseReply, Ungated PROVE Inductive'
<1>a. ScopesIInv /\ HistoryTyped /\ PhasesSound /\ DriverTyped /\ DOMAIN d = Fields
  BY Known
<1>b. /\ phase = "closing" /\ phase' = "closed" /\ reported' = outstanding(d)
      /\ calls' = ClosedTo(calls, {c \in Clients : calls[c] # Idle /\ calls[c].ans = Waiting})
      /\ commands' = <<>> /\ unwinds' = <<>> /\ UNCHANGED <<held, released, running, dead>>
      /\ d' = [d EXCEPT !.watch_replies = Empty, !.deferred = Empty,
                        !.waiters = [s \in Scope |-> <<>>], !.arms = {}]
      /\ reg' = [reg EXCEPT !.pending =
                    Drop(@, {commands[i].path : i \in {j \in DOMAIN commands : commands[j].op = "replace"}})]
  BY DEF CloseReply
<1>1. /\ DOMAIN d' = Fields /\ d'.watch_replies = Empty /\ d'.deferred = Empty
      /\ d'.waiters = [s \in Scope |-> <<>>]
      /\ \A x \in Fields \ {"watch_replies", "deferred", "waiters", "arms"} : d'[x] = d[x]
  BY <1>a, <1>b DEF Fields
<1>2. DOMAIN Empty = {}
  BY DEF Empty
<1>3. d.handles = {} /\ DOMAIN d.replaces = {} /\ d'.handles = {} /\ d'.replaces = d.replaces /\ d'.downs = d.downs
  BY <1>a, <1>b, <1>1 DEF PhasesSound, Fields
<1>4. LetsGo(d'.downs)
  <2>1. d.downs \in [Scope -> Nat]
    BY <1>a DEF DriverTyped
  <2>2. \A s \in Scope : One(s \in d.handles) = 0 /\ One(s \in Arming) = 0
    BY <1>3 DEF One, Arming
  <2>3. \A s \in Scope : d.downs[s] = d.downs[s] + One(s \in d.handles) + One(s \in Arming)
    BY <2>1, <2>2
  <2> QED BY <1>3, <2>1, <2>3 DEF LetsGo
<1>5. /\ DOMAIN reg' = {"live", "pending"} /\ reg'.live = reg.live
      /\ \A p \in DOMAIN reg'.pending :
            p \in DOMAIN reg.pending /\ \A i \in Queued("replace") : commands[i].path # p
  BY <1>a, <1>b DEF HistoryTyped, Drop, Queued
<1>6. ShutsDown
  <2>1. \A p \in DOMAIN reg'.pending :
           /\ p \in DOMAIN reg.pending /\ \A s \in DOMAIN d.replaces : d.replaces[s].path # p
           /\ \A i \in Queued("replace") : commands[i].path # p
    BY <1>3, <1>5
  <2> QED BY <1>b, <1>1, <1>2, <1>3, <1>4, <1>5, <2>1 DEF ShutsDown, Fields
<1>7. ScopesIInv'
  BY <1>a, <1>6, ShutsDownSafe
<1> QED BY <1>b, <1>7, OverNow

\* The driver's task is dropped.
LEMMA TaskDroppedIs ==
    ASSUME Inductive, TaskDropped, Ungated PROVE Inductive'
<1>a. ScopesIInv /\ HistoryTyped /\ DOMAIN d = Fields
  BY Known
<1> DEFINE downs == [s \in Scope |-> d.downs[s] + (IF s \in d.handles THEN 1 ELSE 0)
                                                + (IF s \in Arming THEN 1 ELSE 0)]
<1>b. /\ phase # "closed" /\ phase' = "closed"
      /\ calls' = ClosedTo(calls, {c \in Clients : calls[c] # Idle /\ calls[c].ans = Waiting})
      /\ commands' = <<>> /\ unwinds' = <<>> /\ UNCHANGED <<held, released, reported, running, dead>>
      /\ d' = [d EXCEPT !.handles = {}, !.replaces = Empty, !.downs = downs,
                        !.watch_replies = Empty, !.deferred = Empty,
                        !.waiters = [s \in Scope |-> <<>>], !.arms = {}]
      /\ reg' = [reg EXCEPT !.pending = Drop(Drop(@, {d.replaces[s].path : s \in DOMAIN d.replaces}),
                    {commands[i].path : i \in {j \in DOMAIN commands : commands[j].op = "replace"}})]
  BY DEF TaskDropped
<1>2. LetsGo(downs) /\ DOMAIN Empty = {}
  BY LetsGoIs DEF Empty
<1> HIDE DEF downs
<1>3. /\ DOMAIN d' = Fields /\ d'.handles = {} /\ d'.replaces = Empty /\ d'.downs = downs
      /\ d'.watch_replies = Empty /\ d'.deferred = Empty /\ d'.waiters = [s \in Scope |-> <<>>]
      /\ \A x \in Fields \ {"handles", "replaces", "downs", "watch_replies", "deferred", "waiters", "arms"} :
            d'[x] = d[x]
  BY <1>a, <1>b DEF Fields
<1>5. /\ DOMAIN reg' = {"live", "pending"} /\ reg'.live = reg.live
      /\ \A p \in DOMAIN reg'.pending :
            /\ p \in DOMAIN reg.pending /\ \A s \in DOMAIN d.replaces : d.replaces[s].path # p
            /\ \A i \in Queued("replace") : commands[i].path # p
  BY <1>a, <1>b DEF HistoryTyped, Drop, Queued
<1>6. ShutsDown
  BY <1>b, <1>2, <1>3, <1>5 DEF ShutsDown, Fields
<1>7. ScopesIInv'
  BY <1>a, <1>6, ShutsDownSafe
<1> QED BY <1>b, <1>7, OverNow

-----------------------------------------------------------------------------
(* The callers.                                                            *)

\* A call that is made leaves the arms as they are.
LEMMA SendsIs ==
    ASSUME Inductive, NEW op, NEW c, NEW path, NEW s, NEW awaited, Sends(op, c, path, s, awaited)
    PROVE  Inductive'
<1>1. ScopesIInv /\ GatesSound
  BY Known
<1>2. ScopesIInv'
  BY <1>1, SendsSafe
<1>3. d' = d /\ phase' = phase
  BY DEF Sends
<1>4. GatesSound'
  BY <1>1, <1>3 DEF GatesSound
<1> QED BY <1>2, <1>4 DEF Inductive

\* Where a root may be.
LEMMA WhereIs ==
    ASSUME NEW p \in Paths, NEW root \in Lands[p] PROVE root.path \in Where
  BY DEF Where

\* A reservation is taken.
LEMMA ReservedIs ==
    ASSUME HistoryTyped, NEW p, NEW id, reg' = take_reservation(reg, p, id)
    PROVE  /\ DOMAIN reg' = {"live", "pending"} /\ reg'.live = reg.live
           /\ DOMAIN reg'.pending \subseteq DOMAIN reg.pending \cup {p}
  BY DEF HistoryTyped, take_reservation, Put

\* `watch_with`.
LEMMA CallWatchIs ==
    ASSUME Inductive, NEW c \in Clients, NEW p \in Paths, NEW root \in Lands[p],
           CallWatch(c, root), Ungated
    PROVE  Inductive'
<1>1. root.path \in Where
  BY WhereIs
<1>2. HistoryTyped
  BY Known
<1>3. c # Gone /\ c \in Whose
  BY FsScopesAssumption DEF Whose
<1>4. /\ DOMAIN reg' = {"live", "pending"} /\ reg'.live = reg.live
      /\ DOMAIN reg'.pending \subseteq DOMAIN reg.pending \cup {root.path}
  <2>1. reg' = take_reservation(reg, root.path, root.id)
    BY DEF CallWatch
  <2> QED BY <1>2, <2>1, ReservedIs
<1>5. Sends("watch", c, root.path, 0, TRUE)
  BY <1>1, <1>3, <1>4 DEF CallWatch, Sends, Send, Command, Calls, front
<1> QED BY <1>5, SendsIs

\* `replace_root`.
LEMMA CallReplaceIs ==
    ASSUME Inductive, NEW c \in Clients, NEW p \in Paths, NEW root \in Lands[p], NEW s,
           CallReplace(c, s, root), Ungated
    PROVE  Inductive'
<1>1. root.path \in Where
  BY WhereIs
<1>2. HistoryTyped /\ CallsTyped
  BY Known
<1>3. c # Gone /\ c \in Whose /\ s \in Scope /\ s \in held
  BY <1>2, FsScopesAssumption DEF Whose, CallReplace, CallsTyped
<1>4. /\ DOMAIN reg' = {"live", "pending"} /\ reg'.live = reg.live
      /\ DOMAIN reg'.pending \subseteq DOMAIN reg.pending \cup {root.path}
  <2>1. reg' = take_reservation(reg, root.path, root.id)
    BY DEF CallReplace
  <2> QED BY <1>2, <2>1, ReservedIs
<1>5. Sends("replace", c, root.path, s, TRUE)
  BY <1>1, <1>3, <1>4 DEF CallReplace, Sends, Send, Command, Calls, front
<1> QED BY <1>5, SendsIs

\* An unwatch that is awaited.
LEMMA CallUnwatchIs ==
    ASSUME Inductive, NEW c \in Clients, NEW s, CallUnwatch(c, s), Ungated
    PROVE  Inductive'
<1>2. HistoryTyped /\ CallsTyped
  BY Known
<1>3. c # Gone /\ c \in Whose /\ s \in Scope /\ s \in held \cup released
  BY <1>2, FsScopesAssumption DEF Whose, CallUnwatch, CallsTyped
<1>4. <<>> \in Where /\ DOMAIN reg = {"live", "pending"}
  BY <1>2 DEF Where, HistoryTyped
<1>5. Sends("unwatch", c, <<>>, s, TRUE)
  BY <1>3, <1>4 DEF CallUnwatch, Sends, Send, Command, Calls
<1> QED BY <1>5, SendsIs

\* `request_unwatch`.
LEMMA RequestUnwatchIs ==
    ASSUME Inductive, NEW s, RequestUnwatch(s), Ungated
    PROVE  Inductive'
<1>2. HistoryTyped /\ CallsTyped
  BY Known
<1>3. Gone \in Whose /\ s \in Scope /\ s \in held
  BY <1>2 DEF Whose, RequestUnwatch, CallsTyped
<1>4. <<>> \in Where /\ DOMAIN reg = {"live", "pending"}
  BY <1>2 DEF Where, HistoryTyped
<1>5. [Command("unwatch", Gone, <<>>, s) EXCEPT !.awaited = FALSE] =
         [op |-> "unwatch", who |-> Gone, path |-> <<>>, s |-> s, awaited |-> FALSE]
  <2> DEFINE r == Command("unwatch", Gone, <<>>, s)
             new == [r EXCEPT !.awaited = FALSE]
  <2>1. r \in [op : {"unwatch"}, who : {Gone}, path : {<<>>}, s : {s}, awaited : BOOLEAN]
    BY DEF Command
  <2>2. /\ r.op = "unwatch" /\ r.who = Gone /\ r.path = <<>> /\ r.s = s
    BY DEF Command
  <2> HIDE DEF r
  <2>3. new \in [op : {"unwatch"}, who : {Gone}, path : {<<>>}, s : {s}, awaited : BOOLEAN]
    BY <2>1
  <2>4. new.op = "unwatch" /\ new.who = Gone /\ new.path = <<>> /\ new.s = s /\ new.awaited = FALSE
    BY <2>1, <2>2
  <2> HIDE DEF new
  <2>5. new = [op |-> "unwatch", who |-> Gone, path |-> <<>>, s |-> s, awaited |-> FALSE]
    BY <2>3, <2>4
  <2> QED BY <2>5 DEF new, r
<1>6. commands' = Append(commands,
         [op |-> "unwatch", who |-> Gone, path |-> <<>>, s |-> s, awaited |-> FALSE])
  BY <1>5 DEF RequestUnwatch, Send
<1>7. Sends("unwatch", Gone, <<>>, s, FALSE)
  BY <1>3, <1>4, <1>6 DEF RequestUnwatch, Sends, Calls
<1> QED BY <1>7, SendsIs

\* `close`.
LEMMA CallCloseIs ==
    ASSUME Inductive, NEW c \in Clients, CallClose(c), Ungated
    PROVE  Inductive'
<1>2. HistoryTyped
  BY Known
<1>3. c # Gone /\ c \in Whose
  BY FsScopesAssumption DEF Whose
<1>4. <<>> \in Where /\ DOMAIN reg = {"live", "pending"}
  BY <1>2 DEF Where, HistoryTyped
<1>5. Sends("close", c, <<>>, 0, TRUE)
  BY <1>3, <1>4 DEF CallClose, Sends, Send, Command, Calls, front
<1> QED BY <1>5, SendsIs

\* A caller takes its answer.
LEMMA TakeAnswerIs ==
    ASSUME Inductive, NEW c \in Clients, TakeAnswer(c), Ungated
    PROVE  Inductive'
<1>1. ScopesIInv /\ GatesSound
  BY Known
<1>2. ScopesIInv'
  BY <1>1, TakeAnswerSafe
<1>3. d' = d /\ phase' = phase
  BY DEF TakeAnswer
<1>4. GatesSound'
  BY <1>1, <1>3 DEF GatesSound
<1> QED BY <1>2, <1>4 DEF Inductive

\* The future of a call is dropped.
LEMMA CancelIs ==
    ASSUME Inductive, NEW c \in Clients, Cancel(c), Ungated
    PROVE  Inductive'
<1>1. ScopesIInv /\ GatesSound /\ DriverTyped /\ DOMAIN d = Fields
  BY Known
<1>2. ScopesIInv'
  BY <1>1, CancelSafe
<1>3. /\ phase' = phase /\ d'.arms = d.arms /\ d'.scope_seq = d.scope_seq /\ d'.lanes = d.lanes
      /\ d'.watch_replies = Orphaned(d.watch_replies, c) /\ d'.deferred = Orphaned(d.deferred, c)
  <2> DEFINE dd == [d EXCEPT !.watch_replies = Orphaned(@, c), !.deferred = Orphaned(@, c),
                           !.replaces = Orphaned(@, c), !.waiters = [t \in Scope |-> Orphaned(@[t], c)]]
  <2>1. d' = Pruned(dd) /\ phase' = phase
    BY DEF Cancel, front
  <2>2. /\ DOMAIN dd = Fields
        /\ \A x \in Fields \ {"watch_replies", "deferred", "replaces", "waiters"} : dd[x] = d[x]
        /\ dd.watch_replies = Orphaned(d.watch_replies, c) /\ dd.deferred = Orphaned(d.deferred, c)
    BY <1>1 DEF Fields
  <2> HIDE DEF dd
  <2>3. \A x \in Fields \ {"waiters"} : d'[x] = dd[x]
    BY <2>1, <2>2 DEF Pruned
  <2> QED BY <2>1, <2>2, <2>3 DEF Fields
<1>4. ASSUME NEW f, \A x \in DOMAIN f : "who" \in DOMAIN f[x], \A x \in DOMAIN f : f[x].who \in Whose
      PROVE  DOMAIN Orphaned(f, c) = DOMAIN f /\ \A x \in DOMAIN f : Orphaned(f, c)[x].who \in Whose
  BY <1>4, OrphanIs DEF Whose
<1>5. /\ \A x \in DOMAIN d.watch_replies : "who" \in DOMAIN d.watch_replies[x]
      /\ \A x \in DOMAIN d.deferred : "who" \in DOMAIN d.deferred[x]
  BY <1>1 DEF DriverTyped
<1>6. ASSUME phase = "run"
      PROVE  /\ DOMAIN d'.watch_replies = DOMAIN d.watch_replies
             /\ \A x \in DOMAIN d.watch_replies : d'.watch_replies[x].who \in Whose
             /\ DOMAIN d'.deferred = DOMAIN d.deferred
             /\ \A x \in DOMAIN d.deferred : d'.deferred[x].who \in Whose
  <2>1. /\ \A x \in DOMAIN d.watch_replies : d.watch_replies[x].who \in Whose
        /\ \A x \in DOMAIN d.deferred : d.deferred[x].who \in Whose
    BY <1>1, <1>6 DEF GatesSound
  <2>2. /\ DOMAIN Orphaned(d.watch_replies, c) = DOMAIN d.watch_replies
        /\ \A x \in DOMAIN d.watch_replies : Orphaned(d.watch_replies, c)[x].who \in Whose
    BY <1>4, <1>5, <2>1
  <2>3. /\ DOMAIN Orphaned(d.deferred, c) = DOMAIN d.deferred
        /\ \A x \in DOMAIN d.deferred : Orphaned(d.deferred, c)[x].who \in Whose
    BY <1>4, <1>5, <2>1
  <2> QED BY <1>3, <2>2, <2>3
<1>7. GatesSound'
  BY <1>1, <1>3, <1>6 DEF GatesSound
<1> QED BY <1>2, <1>7 DEF Inductive

-----------------------------------------------------------------------------
(* At first nothing is watched.                                            *)

\* Nothing sums up to nothing.
LEMMA TotalNothing ==
    ASSUME NEW f \in [Scope -> Nat], \A s \in Scope : f[s] = 0 PROVE Total(f) = 0
<1>1. PICK F : SumOf(f, F) /\ Total(f) = F[Scope]
  BY TotalIs
<1> DEFINE Odd == {n \in Nat : \E T \in SUBSET Scope : Cardinality(T) = n /\ F[T] # 0}
<1>2. ASSUME NEW n \in Odd, \A m \in Odd : n <= m PROVE FALSE
  <2>1. PICK T \in SUBSET Scope : Cardinality(T) = n /\ F[T] # 0
    BY <1>2
  <2> DEFINE x == Pick(T)
             U == T \ {x}
  <2>2. T # {}
    BY <1>1, <2>1 DEF SumOf
  <2>3. /\ x \in Scope /\ U \in SUBSET Scope /\ Cardinality(U) = n - 1 /\ n \in Nat \ {0}
    BY <2>1, <2>2, Picked
  <2>4. F[T] = f[x] + F[U] /\ F[U] \in Nat /\ f[x] = 0
    BY <1>1, <2>1, <2>2, <2>3 DEF SumOf
  <2>5. n - 1 \in Nat /\ ~(n <= n - 1)
    BY <2>3
  <2>6. n - 1 \notin Odd
    BY <1>2, <2>5
  <2> HIDE DEF U, x
  <2>7. F[U] = 0
    BY <2>3, <2>5, <2>6
  <2> QED BY <2>1, <2>4, <2>7
<1>3. Odd = {}
  <2> SUFFICES ASSUME Odd # {} PROVE FALSE
    OBVIOUS
  <2>1. Odd \in SUBSET Nat
    OBVIOUS
  <2> HIDE DEF Odd
  <2>2. PICK n \in Odd : \A m \in Odd : n <= m
    BY <2>1, Least
  <2> QED BY <1>2, <2>2
<1>4. F[Scope] = 0
  <2>1. Cardinality(Scope) \in Nat
    BY Counted
  <2> QED BY <1>3, <2>1
<1> QED BY <1>1, <1>4

\* At first the invariant holds.
LEMMA InitIs ==
    ASSUME Init PROVE Inductive
<1>a. /\ DOMAIN d = Fields /\ d.scope_seq = 0 /\ d.handles = {} /\ d.lanes = Empty /\ d.lane_of = <<>>
      /\ d.spawns = {} /\ d.downs = [s \in Scope |-> 0] /\ d.unproven = [s \in Scope |-> 0]
      /\ d.watch_replies = Empty /\ d.deferred = Empty /\ d.arms = {} /\ d.replaces = Empty
      /\ d.waiters = [s \in Scope |-> <<>>]
  BY DEF Init, Fields
<1>b. /\ DOMAIN reg = {"live", "pending"} /\ reg.live = Empty /\ reg.pending = Empty
      /\ commands = <<>> /\ unwinds = <<>>
      /\ calls = [c \in Clients |-> Idle] /\ held = {} /\ released = {}
      /\ phase = "run" /\ reported = -1
      /\ running = [s \in Scope |-> 0] /\ dead = {} /\ ended = {}
  BY DEF Init
<1>c. DOMAIN Empty = {} /\ DOMAIN commands = {} /\ DOMAIN unwinds = {}
  BY <1>b DEF Empty
<1>d. \A c \in Clients : calls[c] = Idle
  BY <1>b
<1>e. \A s \in Scope : ~Promised(s) /\ ~Discarded(s)
  BY <1>c, <1>d DEF Promised, Discarded, Grantee
<1>f. \A c \in Clients : ~Open(c)
  BY <1>d DEF Open
<1>1. DriverTyped
  <2>1. 0 \in Nat /\ <<>> \in Seq(Scope) /\ <<>> \in Seq(Waiter)
    OBVIOUS
  <2>2. /\ d.downs \in [Scope -> Nat] /\ d.unproven \in [Scope -> Nat]
        /\ d.waiters \in [Scope -> Seq(Waiter)]
    BY <1>a, <2>1
  <2> QED BY <1>a, <1>c, <2>1, <2>2 DEF DriverTyped
<1>2. CallsTyped
  <2>1. DOMAIN calls = Clients
    BY <1>b
  <2>2. commands \in Seq([op : Calls, who : Whose, path : Where, s : Scope \cup {0}, awaited : BOOLEAN])
    BY <1>b
  <2>3. unwinds \in Seq(Scope)
    BY <1>b
  <2> QED BY <1>b, <1>d, <2>1, <2>2, <2>3 DEF CallsTyped
<1>3. HistoryTyped
  <2>1. running \in [Scope -> Int] /\ -1 \in Int
    BY <1>b
  <2> QED BY <1>b, <2>1 DEF HistoryTyped
<1>4. PhasesSound
  BY <1>b, <1>d DEF PhasesSound
<1>5. StagesSound
  BY <1>a, <1>b, <1>c DEF StagesSound
<1>6. LanesSound
  BY <1>a, <1>b, <1>c DEF LanesSound
<1>7. OwnersSound
  BY <1>a, <1>b, <1>c, <1>d, <1>e DEF OwnersSound, Grantee
<1>8. AskersSound
  BY <1>c, <1>d DEF AskersSound
<1>9. PlacesSound
  <2>1. \A s \in Scope : DOMAIN d.waiters[s] = {}
    BY <1>a
  <2> QED BY <1>a, <1>c, <2>1 DEF PlacesSound
<1>10. VerdictsSound
  <2>1. \A s \in Scope : DOMAIN d.waiters[s] = {}
    BY <1>a
  <2> QED BY <1>d, <2>1 DEF VerdictsSound
<1>11. GrantsKept
  BY <1>b, <1>e DEF GrantsKept
<1>12. LiveRootsDisjoint
  BY <1>b, <1>c DEF LiveRootsDisjoint
<1>13. RegistryHonest
  BY <1>a, <1>b, <1>c DEF RegistryHonest
<1>14. EveryStreamHeld
  BY <1>a, <1>b, <1>c DEF EveryStreamHeld, Arming, One
<1>15. NoOrphan
  BY <1>a DEF NoOrphan
<1>16. BacklogBounded
  <2>1. \A s \in Scope : d.downs[s] + d.unproven[s] - One(s \in ended) + One(s \in InFlight) = 0
    <3>1. \A s \in Scope : One(s \in ended) = 0 /\ One(s \in InFlight) = 0
      BY <1>a, <1>b, <1>c DEF One, InFlight
    <3> QED BY <1>a, <3>1
  <2>2. \A s \in Scope : Backlog[s] = 0
    <3>1. Max({0, 0}) = 0
      BY MaxIs
    <3> QED BY <2>1, <3>1 DEF Backlog
  <2>3. Backlog = [s \in Scope |-> Backlog[s]]
    BY DEF Backlog
  <2>4. Backlog \in [Scope -> Nat]
    BY <2>2, <2>3
  <2>5. Total(Backlog) = 0
    BY <2>2, <2>4, TotalNothing
  <2>6. MAX_TEARDOWN_BACKLOG \in Nat
    BY FsScopesAssumption
  <2> QED BY <2>5, <2>6 DEF BacklogBounded
<1>17. CloseHonest
  BY <1>b DEF CloseHonest
<1>18. GatesSound
  BY <1>a, <1>c DEF GatesSound
<1> QED BY <1>1, <1>2, <1>3, <1>4, <1>5, <1>6, <1>7, <1>8, <1>9, <1>10, <1>11, <1>12, <1>13,
         <1>14, <1>15, <1>16, <1>17, <1>18 DEF Inductive, ScopesIInv, RootsSound, StreamsSound

-----------------------------------------------------------------------------
(* Every step.                                                             *)

\* It holds on when nothing happens ...
LEMMA StutterIs ==
    ASSUME Inductive, UNCHANGED vars PROVE Inductive'
<1>1. /\ d' = d /\ reg' = reg /\ commands' = commands /\ unwinds' = unwinds /\ calls' = calls
      /\ held' = held /\ released' = released /\ phase' = phase /\ reported' = reported
      /\ running' = running /\ dead' = dead /\ ended' = ended
  BY DEF vars
<1>2. /\ DriverTyped /\ CallsTyped /\ HistoryTyped /\ PhasesSound /\ StagesSound /\ LanesSound
      /\ OwnersSound /\ AskersSound /\ PlacesSound /\ VerdictsSound /\ GrantsKept
      /\ LiveRootsDisjoint /\ RegistryHonest /\ EveryStreamHeld /\ NoOrphan /\ BacklogBounded
      /\ CloseHonest /\ GatesSound
  BY Known
<1>3. DriverTyped'
  BY <1>1, <1>2 DEF DriverTyped
<1>4. CallsTyped'
  BY <1>1, <1>2 DEF CallsTyped
<1>5. HistoryTyped'
  BY <1>1, <1>2 DEF HistoryTyped
<1>6. PhasesSound'
  BY <1>1, <1>2 DEF PhasesSound
<1>7. StagesSound'
  BY <1>1, <1>2 DEF StagesSound
<1>8. LanesSound'
  BY <1>1, <1>2 DEF LanesSound
<1>9. OwnersSound'
  BY <1>1, <1>2 DEF OwnersSound, Promised, Discarded, Grantee
<1>10. AskersSound'
  BY <1>1, <1>2 DEF AskersSound
<1>11. PlacesSound'
  BY <1>1, <1>2 DEF PlacesSound, Open, InDriver
<1>12. VerdictsSound'
  BY <1>1, <1>2 DEF VerdictsSound
<1>13. GrantsKept'
  BY <1>1, <1>2 DEF GrantsKept, Promised, Grantee
<1>14. LiveRootsDisjoint'
  BY <1>1, <1>2 DEF LiveRootsDisjoint
<1>15. RegistryHonest'
  BY <1>1, <1>2 DEF RegistryHonest, Queued
<1>16. EveryStreamHeld'
  BY <1>1, <1>2 DEF EveryStreamHeld, Arming
<1>17. NoOrphan'
  BY <1>1, <1>2 DEF NoOrphan, Promised, Discarded, Grantee
<1>18. BacklogBounded'
  BY <1>1, <1>2 DEF BacklogBounded, Backlog, InFlight
<1>19. CloseHonest'
  BY <1>1, <1>2 DEF CloseHonest
<1>20. GatesSound'
  BY <1>1, <1>2 DEF GatesSound
<1> QED BY <1>3, <1>4, <1>5, <1>6, <1>7, <1>8, <1>9, <1>10, <1>11, <1>12, <1>13, <1>14,
         <1>15, <1>16, <1>17, <1>18, <1>19, <1>20
         DEF Inductive, ScopesIInv, RootsSound, StreamsSound

\* ... at a command ...
LEMMA CommandIs ==
    ASSUME Inductive, Commands, Ungated PROVE Inductive'
  BY TakeWatchIs, TakeReplaceIs, TakeUnwatchIs, TakeUnwindIs, TakeCloseIs, CloseReplyIs DEF Commands

\* ... when an operation in flight ends ...
LEMMA FinishIs ==
    ASSUME Inductive, NEW s \in Scope, Finishes(s), Ungated PROVE Inductive'
<1>1. TRUE \in BOOLEAN
  OBVIOUS
<1>2. CASE TornDown(s, TRUE)
  BY <1>1, <1>2, TornDownIs
<1>3. CASE RebindArmed(s, TRUE)
  BY <1>1, <1>3, RebindArmedIs
<1>4. CASE ResolveCatchUp(s, TRUE)
  BY <1>1, <1>4, ResolveCatchUpIs
<1>5. CASE LateSpawn(s, TRUE)
  BY <1>5, LateSpawnIs
<1>6. CASE LateDown(s, TRUE)
  BY <1>6, LateDownIs
<1>7. CASE CatchUpItem(s)
  BY <1>7, CatchUpItemIs
<1>8. ASSUME NEW n \in 0 .. MaxTail, WidenArmed(s, TRUE, n) PROVE Inductive'
  BY <1>8, WidenArmedIs
<1>9. ASSUME NEW p \in Paths, NEW root \in Lands[p], NEW desc \in Descends, SpawnedBirth(s, root, desc)
      PROVE  Inductive'
  <2>1. desc \in BOOLEAN
    BY FsScopesAssumption
  <2> QED BY <1>9, <2>1, SpawnedBirthIs
<1>10. ASSUME NEW p \in Paths, NEW root \in Lands[p], NEW desc \in Descends, SpawnedReplacement(s, root, desc)
       PROVE  Inductive'
  <2>1. desc \in BOOLEAN
    BY FsScopesAssumption
  <2> QED BY <1>10, <2>1, SpawnedReplacementIs
<1>11. ASSUME NEW p \in Paths, NEW root \in Lands[p], ReplaceMeta(s, TRUE, root, TRUE) PROVE Inductive'
  BY <1>11, ReplaceMetaIs
<1> QED BY <1>2, <1>3, <1>4, <1>5, <1>6, <1>7, <1>8, <1>9, <1>10, <1>11 DEF Finishes

\* ... in every step in which nothing goes wrong ...
LEMMA QuietIs ==
    ASSUME Inductive, Quiet, Ungated PROVE Inductive'
<1>1. CASE Commands
  BY <1>1, CommandIs
<1>2. ASSUME NEW s \in Scope, Finishes(s) PROVE Inductive'
  BY <1>2, FinishIs
<1>3. ASSUME NEW s \in Scope, Installs(s) PROVE Inductive'
  <2>1. PICK a \in d.arms : WatchInstalled(a, TRUE)
    BY <1>3 DEF Installs
  <2>2. TRUE \in BOOLEAN
    OBVIOUS
  <2> QED BY <2>1, <2>2, WatchInstalledIs
<1>4. ASSUME NEW s \in Scope, Hears(s) PROVE Inductive'
  <2>1. PICK l \in {n \in DOMAIN d.lane_of : d.lane_of[n] = s} : SourceEnds(l)
    BY <1>4 DEF Hears
  <2> QED BY <2>1, SourceEndsIs
<1>5. ASSUME NEW s \in Scope, RearmRoot(s) PROVE Inductive'
  BY <1>5, RearmRootIs
<1> QED BY <1>1, <1>2, <1>3, <1>4, <1>5 DEF Quiet

\* ... in every call ...
LEMMA AskIs ==
    ASSUME Inductive, Asks, Ungated PROVE Inductive'
<1>1. ASSUME NEW c \in Clients, NEW p \in Paths, NEW root \in Lands[p], CallWatch(c, root) PROVE Inductive'
  BY <1>1, CallWatchIs
<1>2. ASSUME NEW c \in Clients, NEW p \in Paths, NEW root \in Lands[p], NEW s \in held, CallReplace(c, s, root)
      PROVE Inductive'
  BY <1>2, CallReplaceIs
<1>3. ASSUME NEW c \in Clients, NEW s \in held \cup released, CallUnwatch(c, s) PROVE Inductive'
  BY <1>3, CallUnwatchIs
<1>4. ASSUME NEW s \in held, RequestUnwatch(s) PROVE Inductive'
  BY <1>4, RequestUnwatchIs
<1>5. ASSUME NEW c \in Clients, CallClose(c) PROVE Inductive'
  BY <1>5, CallCloseIs
<1> QED BY <1>1, <1>2, <1>3, <1>4, <1>5 DEF Asks

\* ... when something fails ...
LEMMA FaultIs ==
    ASSUME Inductive, Faults, Ungated PROVE Inductive'
<1>0. FALSE \in BOOLEAN
  OBVIOUS
<1>1. ASSUME NEW s \in Scope, NEW rollback \in BOOLEAN, SpawnFailedBirth(s, rollback) PROVE Inductive'
  BY <1>1, SpawnFailedBirthIs
<1>2. ASSUME NEW s \in Scope, NEW rollback \in BOOLEAN, SpawnFailedReplacement(s, rollback) PROVE Inductive'
  BY <1>2, SpawnFailedReplacementIs
<1>3. ASSUME NEW s \in Scope, TornDown(s, FALSE) PROVE Inductive'
  BY <1>0, <1>3, TornDownIs
<1>4. ASSUME NEW s \in Scope, RebindArmed(s, FALSE) PROVE Inductive'
  BY <1>0, <1>4, RebindArmedIs
<1>5. ASSUME NEW s \in Scope, ResolveCatchUp(s, FALSE) PROVE Inductive'
  BY <1>0, <1>5, ResolveCatchUpIs
<1>6. ASSUME NEW s \in Scope, LateSpawn(s, FALSE) PROVE Inductive'
  BY <1>6, LateSpawnIs
<1>7. ASSUME NEW s \in Scope, LateDown(s, FALSE) PROVE Inductive'
  BY <1>7, LateDownIs
<1>8. ASSUME NEW s \in Scope, WidenArmed(s, FALSE, 0) PROVE Inductive'
  BY <1>8, WidenArmedIs
<1>9. ASSUME NEW s \in Scope, StreamDies(s) PROVE Inductive'
  BY <1>9, StreamDiesIs
<1>10. ASSUME NEW s \in Scope, NEW p \in Paths, NEW root \in Lands[p], ReplaceMeta(s, FALSE, root, TRUE)
       PROVE Inductive'
  BY <1>10, ReplaceMetaIs
<1>11. ASSUME NEW s \in Scope, NEW p \in Paths, NEW root \in Lands[p], ReplaceMeta(s, TRUE, root, FALSE)
       PROVE Inductive'
  BY <1>11, ReplaceMetaIs
<1>12. ASSUME NEW a \in d.arms, WatchInstalled(a, FALSE) PROVE Inductive'
  BY <1>0, <1>12, WatchInstalledIs
<1> QED BY <1>1, <1>2, <1>3, <1>4, <1>5, <1>6, <1>7, <1>8, <1>9, <1>10, <1>11, <1>12 DEF Faults

\* ... and so at every step.
LEMMA NextIs ==
    ASSUME Inductive, Next PROVE Inductive'
<1>0. Ungated
  BY DEF Next
<1>1. CASE Takeaways
  BY <1>0, <1>1, TakeAnswerIs DEF Takeaways
<1>2. CASE Quiet
  BY <1>0, <1>2, QuietIs
<1>3. CASE Asks
  BY <1>0, <1>3, AskIs
<1>4. CASE Mishaps
  <2>1. CASE Faults
    BY <1>0, <2>1, FaultIs
  <2>2. CASE TaskDropped
    BY <1>0, <2>2, TaskDroppedIs
  <2>3. ASSUME NEW c \in Clients, Cancel(c) PROVE Inductive'
    BY <1>0, <2>3, CancelIs
  <2> QED BY <1>4, <2>1, <2>2, <2>3 DEF Mishaps
<1> QED BY <1>1, <1>2, <1>3, <1>4 DEF Next

\* What holds of the roots at every step, for every number of scopes, calls and mishaps.
THEOREM ScopesInductive == Spec => []Inductive
<1>1. Init => Inductive
  BY InitIs
<1>2. Inductive /\ [Next]_vars => Inductive'
  BY NextIs, StutterIs
<1> QED BY <1>1, <1>2, PTL DEF Spec

\* No two live roots overlap, whatever a stream really lands on, and the registry
\* names the live streams and no reservation that nobody will give back.
THEOREM ScopesRootsSound == Spec => []RootsSound
<1>1. Inductive => RootsSound
  BY DEF Inductive, ScopesIInv
<1> QED BY <1>1, ScopesInductive, PTL

\* Every native stream is held by a scope, a replacement or a reaper, every live one
\* has an owner or its end under way, and the backlog of teardowns keeps its limit.
THEOREM ScopesStreamsSound == Spec => []StreamsSound
<1>1. Inductive => StreamsSound
  BY DEF Inductive, ScopesIInv
<1> QED BY <1>1, ScopesInductive, PTL

\* `Torn` is told only of a root with no stream left, a root that was granted lives
\* until it is released or its stream fails, and a close that reports nothing left
\* left nothing.
THEOREM ScopesAnswersHonest == Spec => []AnswersHonest
<1>1. Inductive => AnswersHonest
  <2> SUFFICES ASSUME Inductive PROVE AnswersHonest
    OBVIOUS
  <2>a. CloseHonest /\ VerdictsSound /\ GrantsKept /\ EveryStreamHeld /\ CallsTyped /\ DriverTyped
    BY Known
  <2>1. TornMeansGone
    <3> SUFFICES ASSUME NEW c \in Clients, calls[c] # Idle, calls[c].ans = Acked("torn")
                 PROVE  running[calls[c].s] = 0 /\ calls[c].s \notin d.spawns
      BY DEF TornMeansGone
    <3> DEFINE s == calls[c].s
    <3>1. /\ s \in Scope /\ s \notin d.handles \cup d.spawns \cup DOMAIN d.replaces
          /\ d.downs[s] = 0 /\ d.unproven[s] = 0
      BY <2>a DEF VerdictsSound
    <3>2. One(s \in d.handles) = 0 /\ One(s \in Arming) = 0
      BY <3>1 DEF One, Arming
    <3>3. running[s] = One(s \in d.handles) + One(s \in Arming) + d.downs[s] + d.unproven[s]
      BY <2>a, <3>1 DEF EveryStreamHeld
    <3> QED BY <3>1, <3>2, <3>3
  <2>2. KeptUntilReleased
    BY <2>a DEF KeptUntilReleased, GrantsKept, CallsTyped
  <2> QED BY <2>a, <2>1, <2>2 DEF AnswersHonest
<1> QED BY <1>1, ScopesInductive, PTL

-----------------------------------------------------------------------------
(* A replacement that fails changes nothing.                               *)

\* The replacement of c is refused in this step.
Fails(c) == calls[c] # Idle /\ calls[c].op = "replace" /\ calls'[c] # Idle /\ calls'[c].ans.k = "err"
\* The root of s is where it was.
Stays(s) == s \in d'.handles /\ d'.lanes[s] = d.lanes[s] /\ reg'.live[s] = reg.live[s]

\* Every replacement refused in this step leaves its root where it was.
Atomic == \A c \in Clients : Fails(c) => LET s == calls[c].s IN s \in d.handles => Stays(s)

\* A step that leaves every root where it was.
Calm == d'.handles = d.handles /\ d'.lanes = d.lanes /\ reg'.live = reg.live

\* A calm step keeps every root.
LEMMA CalmKeeps == Calm => Atomic
  BY DEF Calm, Atomic, Stays

\* A step that refuses no replacement.
Spares ==
    \A c \in Clients : calls[c] # Idle /\ calls[c].op = "replace" =>
        calls'[c] = calls[c] \/ calls'[c].ans.k # "err"

\* Calls that wait have no answer yet, so such a step fails no replacement.
LEMMA SparesKeeps == ASSUME Taken, Spares PROVE Atomic
<1>1. ASSUME NEW c \in Clients, Fails(c) PROVE FALSE
  <2>1. calls[c].ans = Waiting
    BY <1>1 DEF Taken, Fails
  <2>2. calls'[c] = calls[c]
    BY <1>1 DEF Spares, Fails
  <2> QED BY <1>1, <2>1, <2>2 DEF Fails, Waiting
<1> QED BY <1>1 DEF Atomic

\* Nobody whose grant is deferred asked for a replacement.
LEMMA GrantSpares ==
    ASSUME PlacesSound, NEW who, NEW a, calls' = answer(calls, who, a),
           who = Gone \/ \E s \in DOMAIN d.deferred : d.deferred[s].who = who
    PROVE  Spares
<1> SUFFICES ASSUME NEW c \in Clients, calls[c] # Idle, calls[c].op = "replace"
             PROVE  calls'[c] = calls[c]
  BY DEF Spares
<1>1. c # who
  BY FsScopesAssumption DEF PlacesSound
<1> QED BY <1>1 DEF answer

\* The refusal of a deferred grant refuses no replacement.
LEMMA RefuseSpares ==
    ASSUME PlacesSound, NEW s, calls' = RefuseDeferred(calls, d, s) PROVE Spares
<1>1. CASE s \in DOMAIN d.deferred
  BY <1>1, GrantSpares DEF RefuseDeferred
<1>2. CASE s \notin DOMAIN d.deferred
  BY <1>2 DEF RefuseDeferred, Spares
<1> QED BY <1>1, <1>2

\* A replacement that ends well refuses nobody.
LEMMA EndsSpares ==
    ASSUME Inductive, NEW s \in DOMAIN d.replaces, NEW dr, DOMAIN dr = Fields, dr.waiters = d.waiters,
           NEW r, NEW a, a.k # "err", Ends(dr, r, s, a)
    PROVE  Spares
<1>a. PlacesSound /\ CallsTyped /\ DriverTyped
  BY Known
<1> DEFINE left == [dr EXCEPT !.replaces = Drop(@, {s})]
           done == scope_quiesced(left, s)
           cs == answer(calls, d.replaces[s].who, a)
<1>1. calls' = resolve_unwatch_waiters(cs, left, s, done)
  BY DEF Ends
<1>2. left.waiters = d.waiters /\ s \in Scope
  BY <1>a DEF Fields, DriverTyped
<1> HIDE DEF left, done, cs
<1> SUFFICES ASSUME NEW c \in Clients, calls[c] # Idle, calls[c].op = "replace"
             PROVE  calls'[c] = calls[c] \/ calls'[c].ans.k # "err"
  BY DEF Spares
<1>3. \A i \in DOMAIN d.waiters[s] : d.waiters[s][i].who # c
  BY <1>a, <1>2 DEF PlacesSound
<1>4. calls'[c] = cs[c]
  <2>1. {i \in DOMAIN left.waiters[s] : left.waiters[s][i].who = c} = {}
    BY <1>2, <1>3
  <2> QED BY <1>1, <2>1 DEF resolve_unwatch_waiters
<1>5. cs[c] = calls[c] \/ cs[c].ans = a
  BY <1>a DEF cs, answer, CallsTyped
<1> QED BY <1>4, <1>5

\* A replacement that ends on the driver's and the registry's old ground is calm.
LEMMA EndsCalm ==
    ASSUME NEW s, NEW dr, DOMAIN dr = Fields, dr.handles = d.handles, dr.lanes = d.lanes,
           HistoryTyped, NEW a, Ends(dr, reg, s, a)
    PROVE  Calm
<1> DEFINE left == [dr EXCEPT !.replaces = Drop(@, {s})]
           done == scope_quiesced(left, s)
<1>1. d' = Rested(left, s, done) /\ reg' = drop_reservation(reg, d.replaces[s].path)
  BY DEF Ends
<1>2. DOMAIN left = Fields /\ left.handles = d.handles /\ left.lanes = d.lanes
  BY DEF Fields
<1> HIDE DEF left, done
<1>3. d'.handles = d.handles /\ d'.lanes = d.lanes
  BY <1>1, <1>2 DEF Rested, Fields
<1>4. reg'.live = reg.live
  BY <1>1 DEF drop_reservation, HistoryTyped
<1> QED BY <1>3, <1>4 DEF Calm

\* Putting a scope to rest touches no root.
LEMMA RestedCalm ==
    ASSUME NEW s, NEW done, NEW dr, DOMAIN dr = Fields, dr.handles = d.handles, dr.lanes = d.lanes,
           d' = Rested(dr, s, done), reg' = reg
    PROVE  Calm
  BY DEF Rested, Calm, Fields

\* A command: what ends a root refuses a watch at most, and a refusal ends none.
LEMMA CommandAtomic ==
    ASSUME Inductive, Taken, Commands PROVE Atomic
<1>a. PlacesSound /\ HistoryTyped /\ PhasesSound /\ CallsTyped /\ DOMAIN d = Fields
  BY Known
<1>1. CASE TakeWatch
  <2>1. d'.handles = d.handles /\ d'.lanes = d.lanes /\ reg' = reg
    BY <1>a, <1>1 DEF TakeWatch, Fields
  <2> QED BY <2>1, CalmKeeps DEF Calm
<1>2. CASE TakeReplace
  <2>1. d'.handles = d.handles /\ d'.lanes = d.lanes
    BY <1>a, <1>2 DEF TakeReplace, dispatch_replace_spawn, Fields
  <2>2. reg'.live = reg.live
    BY <1>a, <1>2 DEF TakeReplace, drop_reservation, HistoryTyped
  <2> QED BY <2>1, <2>2, CalmKeeps DEF Calm
<1>3. CASE TakeUnwatch
  <2>1. CASE calls' = RefuseDeferred(calls, d, Cmd.s)
    BY <1>a, <2>1, RefuseSpares, SparesKeeps
  <2>2. CASE ~(calls' = RefuseDeferred(calls, d, Cmd.s))
    <3>1. reg' = reg /\ (d' = d \/ d' = Park(d, Cmd.s, Cmd.who, "unknown"))
      BY <1>3, <2>2 DEF TakeUnwatch
    <3>2. d'.handles = d.handles /\ d'.lanes = d.lanes
      BY <1>a, <3>1 DEF Park, Fields
    <3> QED BY <3>1, <3>2, CalmKeeps DEF Calm
  <2> QED BY <2>1, <2>2
<1>4. CASE TakeUnwind
  BY <1>4, SparesKeeps DEF TakeUnwind, Spares
<1>5. CASE TakeClose
  <2>1. calls' = ClosedTo(calls, {d.replaces[s].who : s \in DOMAIN d.replaces} \ {Gone})
    BY <1>5 DEF TakeClose
  <2>2. Spares
    BY <1>a, <2>1 DEF Spares, ClosedTo, Acked, CallsTyped
  <2> QED BY <2>2, SparesKeeps
<1>6. CASE CloseReply
  <2>1. d.handles = {}
    BY <1>a, <1>6 DEF CloseReply, PhasesSound
  <2> QED BY <2>1 DEF Atomic
<1> QED BY <1>1, <1>2, <1>3, <1>4, <1>5, <1>6 DEF Commands

\* A root's watch answers a watch.
LEMMA InstalledAtomic ==
    ASSUME Inductive, Taken, NEW a, NEW ok, WatchInstalled(a, ok) PROVE Atomic
<1>a. PlacesSound
  BY Known
<1> DEFINE who == IF a.s \in DOMAIN d.deferred THEN d.deferred[a.s].who ELSE Gone
           ans == IF ok THEN Granted(a.s) ELSE Refused("unavailable")
<1>1. calls' = answer(calls, who, ans)
  BY DEF WatchInstalled
<1>2. who = Gone \/ \E s \in DOMAIN d.deferred : d.deferred[s].who = who
  OBVIOUS
<1> HIDE DEF who, ans
<1>3. Spares
  BY <1>a, <1>1, <1>2, GrantSpares
<1> QED BY <1>3, SparesKeeps

\* The end of a stream refuses a watch at most.
LEMMA SourceEndsAtomic ==
    ASSUME Inductive, Taken, NEW l, SourceEnds(l) PROVE Atomic
<1>a. PlacesSound
  BY Known
<1>1. calls' = RefuseDeferred(calls, d, d.lane_of[l])
  BY DEF SourceEnds
<1> QED BY <1>a, <1>1, RefuseSpares, SparesKeeps

\* What a reaper has done touches no root.
LEMMA TornDownAtomic ==
    ASSUME Inductive, NEW s, NEW proven, TornDown(s, proven) PROVE Atomic
<1>a. DOMAIN d = Fields
  BY Known
<1> DEFINE landed == [d EXCEPT !.downs[s] = @ - 1]
           dr == IF proven THEN landed ELSE taint_unproven_scope(landed, s)
           done == IF phase = "run" THEN scope_quiesced(dr, s) ELSE s \notin dr.spawns /\ dr.downs[s] = 0
<1>1. d' = Rested(dr, s, done) /\ reg' = reg
  BY DEF TornDown
<1>2. DOMAIN dr = Fields /\ dr.handles = d.handles /\ dr.lanes = d.lanes
  BY <1>a DEF taint_unproven_scope, Fields
<1> HIDE DEF dr, done
<1>3. Calm
  BY <1>1, <1>2, RestedCalm
<1> QED BY <1>3, CalmKeeps

\* A root that is born is none of the live ones.
LEMMA SpawnedBirthAtomic ==
    ASSUME Inductive, NEW s, NEW root, NEW desc, SpawnedBirth(s, root, desc) PROVE Atomic
<1>a. StagesSound /\ HistoryTyped /\ DOMAIN d = Fields
  BY Known
<1>b. phase = "run" /\ s \in d.spawns /\ s \notin DOMAIN d.replaces
  BY DEF SpawnedBirth, Birth, Ready
<1>1. s \notin d.handles
  BY <1>a, <1>b DEF StagesSound
<1> DEFINE live == GoesLive(Born(d, s), s, desc)
<1>2. /\ DOMAIN live = Fields /\ live.handles = d.handles \cup {s} /\ live.lanes = Put(d.lanes, s, Len(d.lane_of) + 1)
      /\ DOMAIN Born(d, s) = Fields /\ Born(d, s).handles = d.handles /\ Born(d, s).lanes = d.lanes
  BY <1>a DEF GoesLive, Born, Spawn, Fields
<1>3. \/ d' = submit_teardown(Born(d, s), s) /\ reg' = reg
      \/ d' = [live EXCEPT !.deferred = Put(@, s, d.watch_replies[s]), !.arms = @ \cup {[s |-> s, lane |-> live.lanes[s]]}]
         /\ reg' = scope_live(reg, s, root)
      \/ (d' = live \/ d' = TeardownStream(live, s)) /\ (reg' = reg \/ reg' = scope_live(reg, s, root))
  BY DEF SpawnedBirth, commit_grant
<1> HIDE DEF live
<1>4. ASSUME NEW t \in d.handles PROVE t \in d'.handles /\ (t \in DOMAIN d.lanes => d'.lanes[t] = d.lanes[t])
  <2>1. t # s
    BY <1>1, <1>4
  <2>2. CASE d' = submit_teardown(Born(d, s), s)
    BY <1>2, <1>4, <2>2 DEF submit_teardown, Fields
  <2>3. t \in live.handles /\ (t \in DOMAIN d.lanes => t \in DOMAIN live.lanes /\ live.lanes[t] = d.lanes[t])
    BY <1>2, <1>4, <2>1 DEF Put
  <2>4. CASE d' = [live EXCEPT !.deferred = Put(@, s, d.watch_replies[s]),
                               !.arms = @ \cup {[s |-> s, lane |-> live.lanes[s]]}]
    <3>1. d'.handles = live.handles /\ d'.lanes = live.lanes
      BY <1>2, <2>4 DEF Fields
    <3> QED BY <2>3, <3>1
  <2>5. CASE d' = live
    BY <2>3, <2>5
  <2>6. CASE d' = TeardownStream(live, s)
    <3>1. d'.handles = live.handles \ {s} /\ d'.lanes = Drop(live.lanes, {s})
      BY <1>2, <2>6 DEF TeardownStream, submit_teardown, Fields
    <3> QED BY <2>1, <2>3, <3>1 DEF Drop
  <2> QED BY <1>3, <2>2, <2>4, <2>5, <2>6
<1>5. ASSUME NEW t \in d.handles, t \in DOMAIN reg.live PROVE reg'.live[t] = reg.live[t]
  BY <1>a, <1>1, <1>3, <1>5 DEF scope_live, Put, HistoryTyped
<1>6. LanesSound /\ RegistryHonest
  BY Known
<1>7. DOMAIN d.lanes = d.handles /\ DOMAIN reg.live = d.handles
  BY <1>b, <1>6 DEF LanesSound, RegistryHonest
<1> QED BY <1>4, <1>5, <1>7 DEF Atomic, Stays

\* A root that fails to be born is none either.
LEMMA SpawnFailedBirthAtomic ==
    ASSUME Inductive, NEW s, NEW rollback, SpawnFailedBirth(s, rollback) PROVE Atomic
<1>a. DOMAIN d = Fields
  BY Known
<1>1. d'.handles = d.handles /\ d'.lanes = d.lanes /\ reg' = reg
  BY <1>a DEF SpawnFailedBirth, submit_teardown, Born, Spawn, Fields
<1> QED BY <1>1, CalmKeeps DEF Calm

\* What a replacement under way finds of the driver.
LEMMA SpawnLeaves ==
    ASSUME DOMAIN d = Fields, NEW s
    PROVE  /\ DOMAIN Spawn(d, s) = Fields /\ Spawn(d, s).handles = d.handles
           /\ Spawn(d, s).lanes = d.lanes /\ Spawn(d, s).waiters = d.waiters
           /\ Spawn(d, s).lane_of = d.lane_of
           /\ DOMAIN submit_teardown(Spawn(d, s), s) = Fields
           /\ submit_teardown(Spawn(d, s), s).handles = d.handles
           /\ submit_teardown(Spawn(d, s), s).lanes = d.lanes
           /\ submit_teardown(Spawn(d, s), s).waiters = d.waiters
           /\ DOMAIN submit_teardown(d, s) = Fields
           /\ submit_teardown(d, s).handles = d.handles
           /\ submit_teardown(d, s).lanes = d.lanes
           /\ submit_teardown(d, s).waiters = d.waiters
  BY DEF Spawn, submit_teardown, Fields

\* A replacement commits or changes nothing.
LEMMA CommitAtomic ==
    ASSUME Inductive, Taken, NEW s \in DOMAIN d.replaces, NEW dr, DOMAIN dr = Fields,
           dr.handles = d.handles, dr.lanes = d.lanes, dr.waiters = d.waiters,
           NEW root, NEW desc, commit_replace(dr, s, root, desc)
    PROVE  Atomic
<1>a. HistoryTyped
  BY Known
<1> DEFINE conflict == final_root_conflict(reg, root, d.replaces[s].path, {s})
           down == submit_teardown(dr, s)
           live == GoesLive(down, s, desc)
<1>1. /\ DOMAIN down = Fields /\ down.handles = d.handles /\ down.lanes = d.lanes /\ down.waiters = d.waiters
      /\ DOMAIN live = Fields /\ live.waiters = d.waiters
  BY DEF submit_teardown, GoesLive, Fields
<1>2. \/ Ends(down, reg, s, Overlaps(conflict))
      \/ Ends(live, scope_live(reg, s, root), s, Acked("ok"))
  BY DEF commit_replace, retire_old
<1>3. Acked("ok").k # "err"
  BY DEF Acked
<1> DEFINE refusal == Overlaps(conflict)
           ok == Acked("ok")
           nreg == scope_live(reg, s, root)
<1> HIDE DEF down, live, refusal, ok, nreg
<1>4. CASE Ends(down, reg, s, refusal)
  <2>1. Calm
    BY <1>a, <1>1, <1>4, EndsCalm
  <2> QED BY <2>1, CalmKeeps
<1>5. CASE Ends(live, nreg, s, ok)
  <2>1. ok.k # "err"
    BY <1>3 DEF ok
  <2>2. Spares
    BY <1>1, <1>5, <2>1, EndsSpares
  <2> QED BY <2>2, SparesKeeps
<1> QED BY <1>2, <1>4, <1>5 DEF refusal, ok, nreg

\* The new stream is there.
LEMMA SpawnedReplacementAtomic ==
    ASSUME Inductive, Taken, NEW s, NEW root, NEW desc, SpawnedReplacement(s, root, desc) PROVE Atomic
<1>a. HistoryTyped /\ DOMAIN d = Fields
  BY Known
<1>b. s \in DOMAIN d.replaces
  BY DEF SpawnedReplacement
<1> DEFINE sp == Spawn(d, s)
           down == submit_teardown(sp, s)
<1>1. /\ DOMAIN sp = Fields /\ sp.handles = d.handles /\ sp.lanes = d.lanes /\ sp.waiters = d.waiters
      /\ DOMAIN down = Fields /\ down.handles = d.handles /\ down.lanes = d.lanes
  BY <1>a, SpawnLeaves
<1> DEFINE retired == Refused("retired")
           diverged == Refused("diverged")
<1>2. \/ Ends(down, reg, s, retired) \/ Ends(down, reg, s, diverged)
      \/ commit_replace(sp, s, root, desc)
      \/ d' = [sp EXCEPT !.replaces[s].mode = "arming", !.replaces[s].root = root] /\ reg' = reg
  BY DEF SpawnedReplacement
<1> HIDE DEF sp, down, retired, diverged
<1>3. CASE Ends(down, reg, s, retired)
  <2>1. Calm
    BY <1>a, <1>1, <1>3, EndsCalm
  <2> QED BY <2>1, CalmKeeps
<1>4. CASE Ends(down, reg, s, diverged)
  <2>1. Calm
    BY <1>a, <1>1, <1>4, EndsCalm
  <2> QED BY <2>1, CalmKeeps
<1>5. CASE commit_replace(sp, s, root, desc)
  BY <1>b, <1>1, <1>5, CommitAtomic
<1>6. CASE d' = [sp EXCEPT !.replaces[s].mode = "arming", !.replaces[s].root = root] /\ reg' = reg
  <2>1. d'.handles = d.handles /\ d'.lanes = d.lanes
    BY <1>1, <1>6 DEF Fields
  <2> QED BY <1>6, <2>1, CalmKeeps DEF Calm
<1> QED BY <1>2, <1>3, <1>4, <1>5, <1>6

\* The new stream did not start.
LEMMA SpawnFailedReplacementAtomic ==
    ASSUME Inductive, NEW s, NEW rollback, SpawnFailedReplacement(s, rollback) PROVE Atomic
<1>a. HistoryTyped /\ DOMAIN d = Fields
  BY Known
<1> DEFINE dr == IF rollback THEN submit_teardown(Spawn(d, s), s) ELSE Spawn(d, s)
           a == Refused("source")
<1>1. DOMAIN dr = Fields /\ dr.handles = d.handles /\ dr.lanes = d.lanes
  BY <1>a, SpawnLeaves
<1>2. Ends(dr, reg, s, a)
  BY DEF SpawnFailedReplacement
<1> HIDE DEF dr, a
<1>3. Calm
  BY <1>a, <1>1, <1>2, EndsCalm
<1> QED BY <1>3, CalmKeeps

\* The new stream's watch is armed, or is not.
LEMMA RebindArmedAtomic ==
    ASSUME Inductive, Taken, NEW s, NEW ok, RebindArmed(s, ok) PROVE Atomic
<1>a. HistoryTyped /\ DOMAIN d = Fields
  BY Known
<1>b. s \in DOMAIN d.replaces
  BY DEF RebindArmed, InMode
<1> DEFINE down == submit_teardown(d, s)
           a == Refused("source")
           root == d.replaces[s].root
<1>1. DOMAIN down = Fields /\ down.handles = d.handles /\ down.lanes = d.lanes
  BY <1>a, SpawnLeaves
<1>2. commit_replace(d, s, root, TRUE) \/ Ends(down, reg, s, a)
  BY DEF RebindArmed
<1> HIDE DEF down, a, root
<1>3. CASE Ends(down, reg, s, a)
  <2>1. Calm
    BY <1>a, <1>1, <1>3, EndsCalm
  <2> QED BY <2>1, CalmKeeps
<1>4. CASE commit_replace(d, s, root, TRUE)
  BY <1>a, <1>b, <1>4, CommitAtomic
<1> QED BY <1>2, <1>3, <1>4

\* What the path names is resolved.
LEMMA ReplaceMetaAtomic ==
    ASSUME Inductive, NEW s, NEW ok, NEW root, NEW same, ReplaceMeta(s, ok, root, same) PROVE Atomic
<1>a. HistoryTyped /\ DOMAIN d = Fields
  BY Known
<1> DEFINE a == Refused("source")
           rs == ReplaceState(d.replaces[s].who, d.replaces[s].path, "spawning")
<1>1. \/ Ends(d, reg, s, a)
      \/ /\ \/ d' = [d EXCEPT !.replaces[s].mode = "widening", !.replaces[s].root = root]
            \/ d' = dispatch_replace_spawn(d, s, rs)
         /\ reg' = reg
  BY DEF ReplaceMeta
<1> HIDE DEF a, rs
<1>2. CASE Ends(d, reg, s, a)
  <2>1. Calm
    BY <1>a, <1>2, EndsCalm
  <2> QED BY <2>1, CalmKeeps
<1>3. CASE ~Ends(d, reg, s, a)
  <2>1. d'.handles = d.handles /\ d'.lanes = d.lanes /\ reg' = reg
    BY <1>a, <1>1, <1>3 DEF dispatch_replace_spawn, Fields
  <2> QED BY <2>1, CalmKeeps DEF Calm
<1> QED BY <1>2, <1>3

\* The wider watch is armed, or is not.
LEMMA WidenArmedAtomic ==
    ASSUME Inductive, NEW s, NEW ok, NEW left, WidenArmed(s, ok, left) PROVE Atomic
<1>a. HistoryTyped /\ DOMAIN d = Fields
  BY Known
<1> DEFINE a == Refused("source")
<1>1. \/ Ends(d, reg, s, a)
      \/ d' = [d EXCEPT !.replaces[s].mode = "catching up", !.replaces[s].left = left] /\ reg' = reg
  BY DEF WidenArmed
<1> HIDE DEF a
<1>2. CASE Ends(d, reg, s, a)
  <2>1. Calm
    BY <1>a, <1>2, EndsCalm
  <2> QED BY <2>1, CalmKeeps
<1>3. CASE ~Ends(d, reg, s, a)
  <2>1. d'.handles = d.handles /\ d'.lanes = d.lanes /\ reg' = reg
    BY <1>a, <1>1, <1>3 DEF Fields
  <2> QED BY <2>1, CalmKeeps DEF Calm
<1> QED BY <1>2, <1>3

\* The lane is read up to the mark.
LEMMA CatchUpItemAtomic ==
    ASSUME Inductive, NEW s, CatchUpItem(s) PROVE Atomic
<1>a. DOMAIN d = Fields
  BY Known
<1>1. d'.handles = d.handles /\ d'.lanes = d.lanes /\ reg' = reg
  BY <1>a DEF CatchUpItem, Fields
<1> QED BY <1>1, CalmKeeps DEF Calm

\* The widen is resolved.
LEMMA ResolveCatchUpAtomic ==
    ASSUME Inductive, Taken, NEW s, NEW clean, ResolveCatchUp(s, clean) PROVE Atomic
<1>a. HistoryTyped /\ DOMAIN d = Fields
  BY Known
<1>b. s \in DOMAIN d.replaces
  BY DEF ResolveCatchUp, Caught
<1> DEFINE retired == Refused("retired")
           conflict == final_root_conflict(reg, d.replaces[s].root, d.replaces[s].path, {s})
           overlaps == Overlaps(conflict)
           ok == Acked("ok")
           r == scope_live(reg, s, d.replaces[s].root)
           rs == ReplaceState(d.replaces[s].who, d.replaces[s].path, "spawning")
<1>1. \/ Ends(d, reg, s, retired) \/ Ends(d, reg, s, overlaps) \/ Ends(d, r, s, ok)
      \/ d' = dispatch_replace_spawn(d, s, rs) /\ reg' = reg
  BY DEF ResolveCatchUp, commit_widen, falls_back
<1>2. ok.k # "err"
  BY DEF Acked
<1> HIDE DEF retired, overlaps, ok, r, rs
<1>3. CASE Ends(d, reg, s, retired)
  <2>1. Calm
    BY <1>a, <1>3, EndsCalm
  <2> QED BY <2>1, CalmKeeps
<1>4. CASE Ends(d, reg, s, overlaps)
  <2>1. Calm
    BY <1>a, <1>4, EndsCalm
  <2> QED BY <2>1, CalmKeeps
<1>5. CASE Ends(d, r, s, ok)
  <2>1. Spares
    BY <1>a, <1>b, <1>2, <1>5, EndsSpares
  <2> QED BY <2>1, SparesKeeps
<1>6. CASE d' = dispatch_replace_spawn(d, s, rs) /\ reg' = reg
  <2>1. d'.handles = d.handles /\ d'.lanes = d.lanes
    BY <1>a, <1>6 DEF dispatch_replace_spawn, Fields
  <2> QED BY <1>6, <2>1, CalmKeeps DEF Calm
<1> QED BY <1>1, <1>3, <1>4, <1>5, <1>6

\* After the driver left its loop there is no root to keep.
LEMMA OverAtomic ==
    ASSUME Inductive, phase # "run" PROVE Atomic
<1>1. d.handles = {}
  BY Known DEF PhasesSound
<1> QED BY <1>1 DEF Atomic

\* So it is for every operation in flight ...
LEMMA FinishAtomic ==
    ASSUME Inductive, Taken, NEW s \in Scope, Finishes(s) PROVE Atomic
<1>1. CASE LateSpawn(s, TRUE) \/ LateDown(s, TRUE)
  BY <1>1, OverAtomic DEF LateSpawn, LateDown
<1> QED BY <1>1, TornDownAtomic, RebindArmedAtomic, ResolveCatchUpAtomic, CatchUpItemAtomic, WidenArmedAtomic,
           SpawnedBirthAtomic, SpawnedReplacementAtomic, ReplaceMetaAtomic DEF Finishes

\* ... for a watch asked for again and a stream that fails ...
LEMMA RearmAtomic ==
    ASSUME Inductive, NEW s, RearmRoot(s) \/ StreamDies(s) PROVE Atomic
<1>a. DOMAIN d = Fields
  BY Known
<1>1. d'.handles = d.handles /\ d'.lanes = d.lanes /\ reg' = reg
  BY <1>a DEF RearmRoot, StreamDies, Fields
<1> QED BY <1>1, CalmKeeps DEF Calm

\* ... for every step in which nothing goes wrong ...
LEMMA QuietAtomic ==
    ASSUME Inductive, Taken, Quiet PROVE Atomic
  BY CommandAtomic, FinishAtomic, InstalledAtomic, SourceEndsAtomic, RearmAtomic
  DEF Quiet, Installs, Hears

\* ... for every call ...
LEMMA AskAtomic ==
    ASSUME Inductive, Asks PROVE Atomic
<1>a. HistoryTyped
  BY Known
<1>1. d' = d /\ (reg' = reg \/ \E p, id : reg' = take_reservation(reg, p, id))
  BY DEF Asks, CallWatch, CallReplace, CallUnwatch, RequestUnwatch, CallClose
<1>2. reg'.live = reg.live
  BY <1>a, <1>1, ReservedIs
<1> QED BY <1>1, <1>2, CalmKeeps DEF Calm

\* ... for every fault ...
LEMMA FaultAtomic ==
    ASSUME Inductive, Taken, Faults PROVE Atomic
<1>1. ASSUME NEW s, LateSpawn(s, FALSE) \/ LateDown(s, FALSE) PROVE Atomic
  BY <1>1, OverAtomic DEF LateSpawn, LateDown
<1> QED BY <1>1, TornDownAtomic, RebindArmedAtomic, ResolveCatchUpAtomic, WidenArmedAtomic, InstalledAtomic,
           SpawnFailedBirthAtomic, SpawnFailedReplacementAtomic, ReplaceMetaAtomic, RearmAtomic DEF Faults

\* A caller that takes its answer of a running driver touches no root.
LEMMA TakeAnswerAtomic ==
    ASSUME Inductive, NEW c \in Clients, TakeAnswer(c) PROVE Atomic
<1>a. HistoryTyped /\ PhasesSound
  BY Known
<1>1. CASE phase = "run"
  <2>1. calls[c].ans # Acked("closed")
    BY <1>a, <1>1 DEF TakeAnswer, PhasesSound
  <2>2. d' = d /\ (reg' = reg \/ reg' = drop_reservation(reg, calls[c].path))
    BY <2>1 DEF TakeAnswer, driver_gone
  <2>3. reg'.live = reg.live
    BY <1>a, <2>2 DEF drop_reservation, HistoryTyped
  <2> QED BY <2>2, <2>3, CalmKeeps DEF Calm
<1>2. CASE phase # "run"
  BY <1>2, OverAtomic
<1> QED BY <1>1, <1>2

\* ... for a task that is dropped ...
LEMMA DroppedAtomic ==
    ASSUME Inductive, Taken, TaskDropped PROVE Atomic
<1>a. CallsTyped
  BY Known
<1>1. calls' = ClosedTo(calls, {c \in Clients : calls[c] # Idle /\ calls[c].ans = Waiting})
  BY DEF TaskDropped
<1>2. Spares
  BY <1>a, <1>1 DEF Spares, ClosedTo, Acked, CallsTyped
<1> QED BY <1>2, SparesKeeps

\* ... for a call that is dropped ...
LEMMA CancelAtomic ==
    ASSUME Inductive, NEW c \in Clients, Cancel(c) PROVE Atomic
<1>a. HistoryTyped /\ DOMAIN d = Fields
  BY Known
<1>1. d'.handles = d.handles /\ d'.lanes = d.lanes
  BY <1>a DEF Cancel, Pruned, Fields
<1>2. reg' = reg \/ reg' = drop_reservation(reg, calls[c].path)
  BY DEF Cancel
<1>3. reg'.live = reg.live
  BY <1>a, <1>2 DEF drop_reservation, HistoryTyped
<1> QED BY <1>1, <1>3, CalmKeeps DEF Calm

\* ... and so for every step.
LEMMA NextAtomic ==
    ASSUME Inductive, Next PROVE Atomic
<1>1. CASE Takeaways
  BY <1>1, TakeAnswerAtomic DEF Takeaways
<1>2. CASE Taken /\ Quiet
  BY <1>2, QuietAtomic
<1>3. CASE Asks
  BY <1>3, AskAtomic
<1>4. CASE Taken /\ Mishaps
  BY <1>4, FaultAtomic, DroppedAtomic, CancelAtomic DEF Mishaps
<1> QED BY <1>1, <1>2, <1>3, <1>4 DEF Next

\* A replacement that fails, wherever it fails, leaves the root it was to replace on its
\* stream, its lane and its ground.
THEOREM ScopesReplaceAtomic == Spec => ReplaceAtomic
<1>1. Inductive /\ [Next]_vars =>
        [\A c \in Clients :
           calls[c] # Idle /\ calls[c].op = "replace" /\ calls'[c] # Idle /\ calls'[c].ans.k = "err" =>
               LET s == calls[c].s
               IN  s \in d.handles =>
                       /\ s \in d'.handles /\ d'.lanes[s] = d.lanes[s]
                       /\ reg'.live[s] = reg.live[s]]_vars
  BY NextAtomic DEF Atomic, Fails, Stays
<1> QED BY <1>1, ScopesInductive, PTL DEF Spec, ReplaceAtomic

=============================================================================

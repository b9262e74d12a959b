-------------------------- MODULE ReconcileProofs --------------------------
(***************************************************************************)
(* Machine-checked proofs about the subsumption engine, for every set of   *)
(* keys, handles and words and every number of subscriptions, and about    *)
(* the owner's reconcile that drives it: whatever the source refuses,      *)
(* loses or answers astray, and wherever a close meets it, the records say *)
(* what the source covers, and no subscription loses coverage without      *)
(* notice.                                                                 *)
(***************************************************************************)
EXTENDS Reconcile, ListProofs

-----------------------------------------------------------------------------
(* The prefix order.                                                       *)

\* A key starts with itself.
LEMMA PrefixRefl == \A a \in Key : StartsWith(a, a)
BY KeyAssumption DEF StartsWith

\* A subtree of a subtree is a subtree.
LEMMA PrefixTrans ==
    \A a, b, c \in Key : StartsWith(a, b) /\ StartsWith(b, c) => StartsWith(a, c)
BY KeyAssumption DEF StartsWith

\* Two keys that contain one another are the same key.
LEMMA PrefixAntisym ==
    \A a, b \in Key : StartsWith(a, b) /\ StartsWith(b, a) => a = b
BY KeyAssumption DEF StartsWith

\* A prefix of the full length is the key itself.
LEMMA PrefixSameLen ==
    \A a, b \in Key : StartsWith(a, b) /\ Len(a) = Len(b) => a = b
BY KeyAssumption DEF StartsWith

\* The ancestors of one key are comparable with one another.
LEMMA PrefixLinear ==
    \A k, a, b \in Key :
        StartsWith(k, a) /\ StartsWith(k, b) => StartsWith(a, b) \/ StartsWith(b, a)
BY KeyAssumption DEF StartsWith

-----------------------------------------------------------------------------
(* The inductive invariant.                                                *)

\* At most one root lies at or above a key, so get_ancestor finds it.
LEMMA AncestorRootSound ==
    ASSUME TypeOK, RootsDisjoint, NEW key \in Key, Ancestors(DOMAIN index, key) # {}
    PROVE  AncestorRoot(key) \in DOMAIN index /\ StartsWith(key, AncestorRoot(key))
<1>1. PICK r \in Ancestors(DOMAIN index, key) : TRUE
  OBVIOUS
<1>2. \A o \in Ancestors(DOMAIN index, key) : o = r
  BY <1>1, PrefixLinear DEF Ancestors, TypeOK, RootsDisjoint
<1>3. Len(r) \in Nat
  BY <1>1, KeyAssumption DEF Ancestors, TypeOK
<1> QED
  BY <1>1, <1>2, <1>3 DEF AncestorRoot, Ancestors

\* cover_add keeps the cover map exact when the newcomer is the only change.
LEMMA CoverAddExact ==
    ASSUME CoversExact, NEW key, NEW sub, sub \notin DOMAIN subs,
           covers' = cover_add(key, sub),
           DOMAIN subs' = DOMAIN subs \cup {sub}, subs'[sub].key = key,
           \A s \in DOMAIN subs : subs'[s].key = subs[s].key
    PROVE  CoversExact'
<1>1. /\ DOMAIN covers' = DOMAIN covers \cup {key}
      /\ covers'[key] = {sub} \cup IF key \in DOMAIN covers THEN covers[key] ELSE {}
      /\ \A k \in DOMAIN covers : k # key => covers'[k] = covers[k]
  BY DEF cover_add, Put
<1>2. \A k \in DOMAIN covers' : covers'[k] = {s \in DOMAIN subs' : subs'[s].key = k}
  <2> SUFFICES ASSUME NEW k \in DOMAIN covers', NEW s
               PROVE  s \in covers'[k] <=> s \in DOMAIN subs' /\ subs'[s].key = k
    OBVIOUS
  <2>1. CASE k # key
    BY <1>1, <2>1 DEF CoversExact
  <2>2. CASE k = key
    BY <1>1, <2>2 DEF CoversExact
  <2> QED BY <2>1, <2>2
<1>3. \A k \in DOMAIN covers' : covers'[k] # {}
  BY <1>1 DEF CoversExact
<1>4. \A s \in DOMAIN subs' : subs'[s].key \in DOMAIN covers'
  BY <1>1 DEF CoversExact
<1> QED BY <1>2, <1>3, <1>4 DEF CoversExact

LEMMA InitIInv == Init => IInv
BY MaxSubAssumption, WordsAssumption, HandleAssumption
   DEF Init, IInv, TypeOK, RootsDisjoint, Lockstep, SubsInsideRoot, CoversExact,
       WordsHonoured, PublishedIsCommitted, ReservationsMatchPlan, IdsFresh,
       PlanSound, Empty, NoPlan, Plans, Sub

LEMMA PlanCoveredIInv ==
    ASSUME IInv, NEW key \in Key, NEW globs \in Words, PlanCovered(key, globs)
    PROVE  IInv'
<1> DEFINE r == AncestorRoot(key)
<1>1. r \in DOMAIN index /\ StartsWith(key, r) /\ r \in Key
  BY AncestorRootSound DEF IInv, PlanCovered, TypeOK
<1>2. index[r].globs = globs /\ (globs \in Pruning => r = key)
  BY <1>1, PrefixSameLen DEF PlanCovered, Conflicts
<1>3. /\ index[r].handle \in DOMAIN by_handle
      /\ by_handle[index[r].handle] = r
  BY <1>1 DEF IInv, Lockstep
<1>4. next_sub \in Sub /\ DOMAIN pending = {}
  BY DEF PlanCovered, IInv, reserve, idle, ReservationsMatchPlan, Sub, TypeOK
<1>5. plan' = [phase |-> "planned", kind |-> "covered", sub |-> next_sub,
               root |-> index[r].handle, globs |-> globs, unwatch |-> {},
               repointed |-> {}, outside |-> covered_outside(index[r], key)]
  BY DEF PlanCovered, Planned
<1>6. TypeOK'
  BY <1>1, <1>4, <1>5, MaxSubAssumption
  DEF IInv, PlanCovered, maps, TypeOK, Plans, reserve, Put, RootRecord, covered_outside
<1>7. (RootsDisjoint /\ Lockstep /\ SubsInsideRoot /\ CoversExact /\ WordsHonoured)'
  BY DEF IInv, PlanCovered, maps, RootsDisjoint, Lockstep, SubsInsideRoot,
         CoversExact, WordsHonoured
<1>8. (PublishedIsCommitted /\ ReservationsMatchPlan /\ IdsFresh)'
  BY <1>4, <1>5 DEF IInv, PlanCovered, maps, PublishedIsCommitted, idle, TypeOK,
         ReservationsMatchPlan, IdsFresh, reserve, Put, Sub
<1>9. PlanSound'
  BY <1>1, <1>2, <1>3, <1>4, <1>5
  DEF IInv, PlanCovered, maps, PlanSound, IdsFresh, reserve, Put, Sub
<1> QED
  BY <1>6, <1>7, <1>8, <1>9 DEF IInv

LEMMA PlanWidenIInv ==
    ASSUME IInv, NEW key \in Key, NEW globs \in Words, PlanWiden(key, globs)
    PROVE  IInv'
<1> DEFINE below == Descendants(DOMAIN index, key)
           inside == {index[d].handle : d \in below}
<1>1. /\ inside \subseteq DOMAIN by_handle
      /\ \A h \in inside : by_handle[h] \in below /\ index[by_handle[h]].handle = h
  BY DEF IInv, Lockstep, Descendants
<1>2. globs \notin Pruning /\ \A d \in below : index[d].globs = globs
  BY DEF PlanWiden, Conflicts
<1>3. next_sub \in Sub /\ DOMAIN pending = {}
  BY DEF PlanWiden, IInv, reserve, idle, ReservationsMatchPlan, Sub, TypeOK
<1>4. plan' = [phase |-> "planned", kind |-> "widen", sub |-> next_sub,
               root |-> NoHandle, globs |-> globs, unwatch |-> inside,
               repointed |-> UNION {root_subs[h] : h \in inside}, outside |-> FALSE]
  BY DEF PlanWiden, Planned
<1>5. UNION {root_subs[h] : h \in inside} \in SUBSET Sub
  BY <1>1 DEF IInv, TypeOK, Lockstep
<1>6. TypeOK'
  BY <1>1, <1>3, <1>4, <1>5, MaxSubAssumption
  DEF IInv, PlanWiden, maps, TypeOK, Plans, reserve, Put
<1>7. (RootsDisjoint /\ Lockstep /\ SubsInsideRoot /\ CoversExact /\ WordsHonoured)'
  BY DEF IInv, PlanWiden, maps, RootsDisjoint, Lockstep, SubsInsideRoot,
         CoversExact, WordsHonoured
<1>8. (PublishedIsCommitted /\ ReservationsMatchPlan /\ IdsFresh)'
  BY <1>3, <1>4 DEF IInv, PlanWiden, maps, PublishedIsCommitted, idle, TypeOK,
         ReservationsMatchPlan, IdsFresh, reserve, Put, Sub
<1>9. PlanSound'
  BY <1>1, <1>2, <1>3, <1>4
  DEF IInv, PlanWiden, maps, PlanSound, IdsFresh, Sub
<1> QED
  BY <1>6, <1>7, <1>8, <1>9 DEF IInv

LEMMA PlanDisjointIInv ==
    ASSUME IInv, NEW key \in Key, NEW globs \in Words, PlanDisjoint(key, globs)
    PROVE  IInv'
<1>1. next_sub \in Sub /\ DOMAIN pending = {}
  BY DEF PlanDisjoint, IInv, reserve, idle, ReservationsMatchPlan, Sub, TypeOK
<1>2. plan' = [phase |-> "planned", kind |-> "disjoint", sub |-> next_sub,
               root |-> NoHandle, globs |-> globs, unwatch |-> {},
               repointed |-> {}, outside |-> FALSE]
  BY DEF PlanDisjoint, Planned
<1>3. TypeOK'
  BY <1>1, <1>2, MaxSubAssumption
  DEF IInv, PlanDisjoint, maps, TypeOK, Plans, reserve, Put
<1>4. (RootsDisjoint /\ Lockstep /\ SubsInsideRoot /\ CoversExact /\ WordsHonoured)'
  BY DEF IInv, PlanDisjoint, maps, RootsDisjoint, Lockstep, SubsInsideRoot,
         CoversExact, WordsHonoured
<1>5. (PublishedIsCommitted /\ ReservationsMatchPlan /\ IdsFresh)'
  BY <1>1, <1>2 DEF IInv, PlanDisjoint, maps, PublishedIsCommitted, idle, TypeOK,
         ReservationsMatchPlan, IdsFresh, reserve, Put, Sub
<1>6. PlanSound'
  BY <1>1, <1>2 DEF IInv, PlanDisjoint, maps, PlanSound, IdsFresh, Sub
<1> QED
  BY <1>3, <1>4, <1>5, <1>6 DEF IInv

LEMMA CommitCoveredIInv == ASSUME IInv, CommitCovered PROVE IInv'
<1> DEFINE sub == plan.sub
           h == plan.root
           key == pending[sub]
<1>1. /\ sub \in Sub /\ sub \in DOMAIN pending /\ key \in Key
      /\ sub \notin DOMAIN subs /\ sub \notin DOMAIN asked
      /\ h \in DOMAIN by_handle /\ h \in Handle /\ h \in DOMAIN root_subs
      /\ plan.globs \in Words
  BY DEF CommitCovered, IInv, ReservationsMatchPlan, TypeOK, PlanSound, Lockstep, Plans
<1>2. /\ StartsWith(key, by_handle[h])
      /\ index[by_handle[h]].globs = plan.globs
      /\ plan.globs \in Pruning => by_handle[h] = key
  BY DEF CommitCovered, IInv, PlanSound
<1>3. /\ plan' = NoPlan /\ pending' = Drop(pending, {sub}) /\ next_sub' = next_sub
      /\ asked' = Put(asked, sub, plan.globs)
      /\ subs' = Put(subs, sub, [root |-> h, key |-> key])
      /\ root_subs' = [root_subs EXCEPT ![h] = @ \cup {sub}]
      /\ covers' = cover_add(key, sub)
      /\ index' = index /\ by_handle' = by_handle
      /\ shared' = [roots |-> index', covers |-> covers']
  BY DEF CommitCovered, Settle, publish
<1>4. TypeOK'
  BY <1>1, <1>3, WordsAssumption, HandleAssumption
  DEF IInv, TypeOK, Plans, NoPlan, Put, Drop, cover_add
<1>5. RootsDisjoint' /\ SubsInsideRoot'
  BY <1>1, <1>2, <1>3 DEF IInv, RootsDisjoint, SubsInsideRoot, Put
<1>6. Lockstep'
  BY <1>1, <1>3 DEF IInv, Lockstep, Put
<1>7. CoversExact'
  <2>1. /\ DOMAIN subs' = DOMAIN subs \cup {sub} /\ subs'[sub].key = key
        /\ \A s \in DOMAIN subs : subs'[s].key = subs[s].key
    BY <1>1, <1>3 DEF Put
  <2> HIDE DEF sub, key
  <2> QED BY <1>1, <1>3, <2>1, CoverAddExact DEF IInv
<1>8. WordsHonoured'
  BY <1>1, <1>2, <1>3 DEF IInv, WordsHonoured, Put
<1>9. (PublishedIsCommitted /\ ReservationsMatchPlan /\ IdsFresh /\ PlanSound)'
  BY <1>1, <1>3 DEF CommitCovered, IInv, PublishedIsCommitted,
     ReservationsMatchPlan, IdsFresh, PlanSound, NoPlan, Put, Drop
<1> QED
  BY <1>4, <1>5, <1>6, <1>7, <1>8, <1>9 DEF IInv

LEMMA CommitDisjointIInv ==
    ASSUME IInv, NEW h \in Handle, NEW key \in Key, CommitDisjoint(h, key)
    PROVE  IInv'
<1> DEFINE sub == plan.sub
           rec == [handle |-> h, globs |-> plan.globs, cover |-> Full]
<1>1. /\ sub \in Sub /\ sub \in DOMAIN pending
      /\ sub \notin DOMAIN subs /\ sub \notin DOMAIN asked
      /\ plan.globs \in Words /\ rec \in RootRecord
  BY DEF CommitDisjoint, IInv, ReservationsMatchPlan, TypeOK, PlanSound, Plans,
         RootRecord, Cover
<1>2. \A r \in DOMAIN index : ~StartsWith(key, r) /\ ~StartsWith(r, key)
  BY DEF CommitDisjoint, fs_path_preserves_plan, Ancestors, Descendants, IInv, PlanSound
<1>3. key \notin DOMAIN index /\ h \notin DOMAIN by_handle /\ h \notin DOMAIN root_subs
  BY <1>2, PrefixRefl DEF CommitDisjoint, IInv, Lockstep
<1>4. /\ plan' = NoPlan /\ pending' = Drop(pending, {sub}) /\ next_sub' = next_sub
      /\ asked' = Put(asked, sub, plan.globs)
      /\ subs' = Put(subs, sub, [root |-> h, key |-> key])
      /\ root_subs' = Put(root_subs, h, {sub})
      /\ covers' = cover_add(key, sub)
      /\ index' = Put(index, key, rec) /\ by_handle' = Put(by_handle, h, key)
      /\ shared' = [roots |-> index', covers |-> covers']
  BY DEF CommitDisjoint, Settle, publish
<1>5. TypeOK'
  BY <1>1, <1>4, WordsAssumption, HandleAssumption
  DEF IInv, TypeOK, Plans, NoPlan, Put, Drop, cover_add
<1>6. RootsDisjoint'
  BY <1>2, <1>4 DEF IInv, RootsDisjoint, Put
<1>7. SubsInsideRoot'
  BY <1>1, <1>3, <1>4, PrefixRefl DEF IInv, SubsInsideRoot, Lockstep, Put
<1>8. Lockstep'
  <2>1. /\ \A k \in DOMAIN index' : index'[k].handle \in DOMAIN by_handle'
                                   /\ by_handle'[index'[k].handle] = k
        /\ \A g \in DOMAIN by_handle' : by_handle'[g] \in DOMAIN index'
                                       /\ index'[by_handle'[g]].handle = g
    BY <1>3, <1>4 DEF IInv, Lockstep, Put
  <2>2. \A s \in DOMAIN subs' : subs'[s].root \in DOMAIN root_subs'
                                /\ s \in root_subs'[subs'[s].root]
    BY <1>1, <1>3, <1>4 DEF IInv, Lockstep, Put
  <2>3. \A g \in DOMAIN root_subs' :
          /\ root_subs'[g] # {}
          /\ \A s \in root_subs'[g] : s \in DOMAIN subs' /\ subs'[s].root = g
    <3>1. \A g \in DOMAIN root_subs : root_subs'[g] = root_subs[g]
      BY <1>3, <1>4 DEF Put
    <3>2. DOMAIN root_subs' = DOMAIN root_subs \cup {h} /\ root_subs'[h] = {sub}
      BY <1>4 DEF Put
    <3>3. /\ \A s \in DOMAIN subs : subs'[s] = subs[s] /\ s \in DOMAIN subs'
          /\ sub \in DOMAIN subs' /\ subs'[sub].root = h
      BY <1>1, <1>4 DEF Put
    <3>4. \A g \in DOMAIN root_subs :
            root_subs[g] # {} /\ \A s \in root_subs[g] : s \in DOMAIN subs /\ subs[s].root = g
      BY DEF IInv, Lockstep
    <3> HIDE DEF sub
    <3> QED BY <3>1, <3>2, <3>3, <3>4
  <2> QED BY <1>4, <2>1, <2>2, <2>3 DEF IInv, Lockstep, Put
<1>9. CoversExact'
  <2>1. /\ DOMAIN subs' = DOMAIN subs \cup {sub} /\ subs'[sub].key = key
        /\ \A s \in DOMAIN subs : subs'[s].key = subs[s].key
    BY <1>1, <1>4 DEF Put
  <2> HIDE DEF sub
  <2> QED BY <1>1, <1>4, <2>1, CoverAddExact DEF IInv
<1>10. WordsHonoured'
  <2> SUFFICES ASSUME NEW s \in DOMAIN subs'
               PROVE  /\ s \in DOMAIN asked'
                      /\ index'[by_handle'[subs'[s].root]].globs = asked'[s]
                      /\ asked'[s] \in Pruning =>
                            by_handle'[subs'[s].root] = subs'[s].key
    BY DEF WordsHonoured
  <2>1. CASE s = sub
    BY <1>1, <1>4, <2>1 DEF Put
  <2>2. CASE s # sub
    <3>1. /\ s \in DOMAIN subs /\ subs'[s] = subs[s] /\ s \in DOMAIN asked
          /\ asked'[s] = asked[s] /\ s \in DOMAIN asked'
      BY <1>4, <2>2 DEF IInv, WordsHonoured, Put
    <3>2. /\ by_handle'[subs[s].root] = by_handle[subs[s].root]
          /\ by_handle[subs[s].root] \in DOMAIN index
          /\ by_handle[subs[s].root] # key
      BY <1>3, <1>4, <3>1 DEF IInv, Lockstep, Put
    <3> QED BY <1>4, <3>1, <3>2 DEF IInv, WordsHonoured, Put
  <2> QED BY <2>1, <2>2
<1>11. (PublishedIsCommitted /\ ReservationsMatchPlan /\ IdsFresh /\ PlanSound)'
  BY <1>1, <1>4 DEF CommitDisjoint, IInv, PublishedIsCommitted,
     ReservationsMatchPlan, IdsFresh, PlanSound, NoPlan, Put, Drop
<1> QED
  BY <1>5, <1>6, <1>7, <1>8, <1>9, <1>10, <1>11 DEF IInv

LEMMA CommitWidenIInv ==
    ASSUME IInv, NEW h \in Handle, NEW key \in Key, CommitWiden(h, key)
    PROVE  IInv'
<1> DEFINE sub == plan.sub
           W == plan.unwatch
           R == plan.repointed
           gone == Descendants(DOMAIN index, key)
           rec == [handle |-> h, globs |-> plan.globs, cover |-> Full]
<1>1. /\ sub \in Sub /\ sub \in DOMAIN pending
      /\ sub \notin DOMAIN subs /\ sub \notin DOMAIN asked
      /\ plan.globs \in Words /\ plan.globs \notin Pruning /\ rec \in RootRecord
  BY DEF CommitWiden, IInv, ReservationsMatchPlan, TypeOK, PlanSound, Plans,
         RootRecord, Cover
<1>2. \A r \in DOMAIN index : ~StartsWith(key, r)
  BY DEF CommitWiden, fs_path_preserves_plan, Ancestors
<1>3. /\ W \subseteq DOMAIN by_handle
      /\ \A g \in DOMAIN by_handle : g \in W <=> by_handle[g] \in gone
      /\ \A k \in DOMAIN index : k \in gone <=> index[k].handle \in W
      /\ \A g \in W : StartsWith(by_handle[g], key)
  BY DEF CommitWiden, fs_path_preserves_plan, IInv, PlanSound, Lockstep, Descendants
<1>4. \A s \in DOMAIN subs : s \in R <=> subs[s].root \in W
  BY <1>3 DEF CommitWiden, IInv, PlanSound, Lockstep
<1>5. R \subseteq DOMAIN subs
  BY <1>3 DEF CommitWiden, IInv, PlanSound, Lockstep
<1>6. h \in DOMAIN by_handle => h \in W
  BY DEF CommitWiden
<1>7. key \notin DOMAIN index
  BY <1>2, PrefixRefl DEF IInv
<1>8. /\ plan' = NoPlan /\ pending' = Drop(pending, {sub}) /\ next_sub' = next_sub
      /\ asked' = Put(asked, sub, plan.globs)
      /\ covers' = cover_add(key, sub)
      /\ shared' = [roots |-> index', covers |-> covers']
  BY DEF CommitWiden, Settle, publish
<1>9. /\ DOMAIN index' = (DOMAIN index \ gone) \cup {key}
      /\ index'[key] = rec
      /\ \A k \in DOMAIN index \ gone : index'[k] = index[k]
  BY <1>7 DEF CommitWiden, Put, Drop
<1>10. /\ DOMAIN by_handle' = (DOMAIN by_handle \ W) \cup {h}
       /\ by_handle'[h] = key
       /\ \A g \in DOMAIN by_handle \ W : by_handle'[g] = by_handle[g]
  BY <1>6 DEF CommitWiden, Put, Drop
<1>11. /\ DOMAIN root_subs' = (DOMAIN by_handle \ W) \cup {h}
       /\ root_subs'[h] = R \cup {sub}
       /\ \A g \in DOMAIN by_handle \ W : root_subs'[g] = root_subs[g]
  BY <1>6 DEF CommitWiden, Put, Drop, IInv, Lockstep
<1>12. /\ DOMAIN subs' = DOMAIN subs \cup {sub}
       /\ subs'[sub] = [root |-> h, key |-> key]
       /\ \A s \in DOMAIN subs : subs'[s] = IF s \in R THEN [root |-> h, key |-> subs[s].key]
                                             ELSE subs[s]
  BY <1>1 DEF CommitWiden, Put, repoint
<1>13. /\ DOMAIN asked' = DOMAIN asked \cup {sub}
       /\ asked'[sub] = plan.globs
       /\ \A s \in DOMAIN asked : asked'[s] = asked[s]
  BY <1>1, <1>8 DEF Put
<1> HIDE DEF sub, W, R, gone, rec
<1>14. TypeOK'
  <2>1. /\ DOMAIN index' \subseteq Key /\ \A k \in DOMAIN index' : index'[k] \in RootRecord
        /\ DOMAIN by_handle' \subseteq Handle
        /\ \A g \in DOMAIN by_handle' : by_handle'[g] \in Key
    BY <1>1, <1>9, <1>10 DEF IInv, TypeOK
  <2>2. /\ DOMAIN root_subs' \subseteq Handle
        /\ \A g \in DOMAIN root_subs' : root_subs'[g] \in SUBSET Sub
    BY <1>1, <1>5, <1>11 DEF IInv, TypeOK, Lockstep
  <2>3. /\ DOMAIN subs' \subseteq Sub
        /\ \A s \in DOMAIN subs' : subs'[s] \in [root : Handle, key : Key]
    BY <1>1, <1>12 DEF IInv, TypeOK
  <2>4. /\ DOMAIN covers' \subseteq Key /\ \A k \in DOMAIN covers' : covers'[k] \in SUBSET Sub
        /\ DOMAIN pending' \subseteq Sub /\ \A s \in DOMAIN pending' : pending'[s] \in Key
        /\ next_sub' \in 1..(MaxSub + 1)
        /\ DOMAIN asked' \subseteq Sub /\ \A s \in DOMAIN asked' : asked'[s] \in Words
    BY <1>1, <1>8, <1>13 DEF IInv, TypeOK, cover_add, Put, Drop
  <2>5. plan' \in Plans
    BY <1>8, WordsAssumption DEF NoPlan, Plans
  <2> QED BY <2>1, <2>2, <2>3, <2>4, <2>5 DEF TypeOK
<1>15. RootsDisjoint'
  BY <1>2, <1>9 DEF IInv, RootsDisjoint, TypeOK, gone, Descendants
<1>16. Lockstep'
  <2>1. \A k \in DOMAIN index' : index'[k].handle \in DOMAIN by_handle'
                                /\ by_handle'[index'[k].handle] = k
    BY <1>3, <1>9, <1>10 DEF IInv, Lockstep, rec
  <2>2. \A g \in DOMAIN by_handle' : by_handle'[g] \in DOMAIN index'
                                    /\ index'[by_handle'[g]].handle = g
    BY <1>3, <1>9, <1>10 DEF IInv, Lockstep, rec
  <2>3. \A s \in DOMAIN subs' : subs'[s].root \in DOMAIN root_subs'
                                /\ s \in root_subs'[subs'[s].root]
    BY <1>4, <1>11, <1>12 DEF IInv, Lockstep
  <2>4. \A g \in DOMAIN root_subs' :
          /\ root_subs'[g] # {}
          /\ \A s \in root_subs'[g] : s \in DOMAIN subs' /\ subs'[s].root = g
    BY <1>1, <1>4, <1>5, <1>11, <1>12 DEF IInv, Lockstep
  <2> QED BY <1>10, <1>11, <2>1, <2>2, <2>3, <2>4 DEF Lockstep
<1>17. SubsInsideRoot'
  <2> SUFFICES ASSUME NEW s \in DOMAIN subs'
               PROVE  StartsWith(subs'[s].key, by_handle'[subs'[s].root])
    BY DEF SubsInsideRoot
  <2>1. CASE s = sub
    BY <1>10, <1>12, <2>1, PrefixRefl
  <2>2. CASE s # sub /\ s \in R
    <3>1. /\ s \in DOMAIN subs /\ subs[s].root \in W
          /\ StartsWith(subs[s].key, by_handle[subs[s].root])
          /\ StartsWith(by_handle[subs[s].root], key)
          /\ subs[s].key \in Key /\ by_handle[subs[s].root] \in Key
      BY <1>3, <1>4, <1>5, <2>2 DEF IInv, SubsInsideRoot, TypeOK
    <3> QED BY <1>10, <1>12, <2>2, <3>1, PrefixTrans
  <2>3. CASE s # sub /\ s \notin R
    BY <1>4, <1>10, <1>12, <2>3 DEF IInv, SubsInsideRoot, Lockstep
  <2> QED BY <2>1, <2>2, <2>3
<1>18. CoversExact'
  <2>1. subs'[sub].key = key /\ \A s \in DOMAIN subs : subs'[s].key = subs[s].key
    BY <1>12
  <2> QED BY <1>1, <1>8, <1>12, <2>1, CoverAddExact DEF IInv
<1>19. WordsHonoured'
  <2> SUFFICES ASSUME NEW s \in DOMAIN subs'
               PROVE  /\ s \in DOMAIN asked'
                      /\ index'[by_handle'[subs'[s].root]].globs = asked'[s]
                      /\ asked'[s] \in Pruning =>
                            by_handle'[subs'[s].root] = subs'[s].key
    BY DEF WordsHonoured
  <2>1. CASE s = sub
    BY <1>1, <1>9, <1>10, <1>12, <1>13, <2>1 DEF rec
  <2>2. CASE s # sub /\ s \in R
    <3>1. /\ s \in DOMAIN subs /\ subs[s].root \in W
          /\ s \in DOMAIN asked /\ asked[s] = plan.globs
      BY <1>4, <1>5, <2>2 DEF CommitWiden, IInv, WordsHonoured, PlanSound, W
    <3> QED BY <1>1, <1>9, <1>10, <1>12, <1>13, <2>2, <3>1 DEF rec
  <2>3. CASE s # sub /\ s \notin R
    <3>1. /\ s \in DOMAIN subs /\ subs[s].root \in DOMAIN by_handle \ W
          /\ by_handle[subs[s].root] \in DOMAIN index \ gone
      BY <1>3, <1>4, <1>12, <2>3 DEF IInv, Lockstep
    <3> QED BY <1>9, <1>10, <1>12, <1>13, <2>3, <3>1 DEF IInv, WordsHonoured
  <2> QED BY <1>12, <2>1, <2>2, <2>3
<1>20. (PublishedIsCommitted /\ ReservationsMatchPlan /\ IdsFresh /\ PlanSound)'
  BY <1>1, <1>8, <1>12, <1>13 DEF CommitWiden, IInv, PublishedIsCommitted,
     ReservationsMatchPlan, IdsFresh, PlanSound, NoPlan, Drop, sub
<1> QED
  BY <1>14, <1>15, <1>16, <1>17, <1>18, <1>19, <1>20 DEF IInv

LEMMA PlanOnlyIInv == ASSUME IInv, Unwind \/ AbortWatch \/ SwapInEmpty PROVE IInv'
<1>1. CASE Unwind
  <2>1. /\ plan' \in Plans /\ plan'.phase = "unwinding" /\ plan'.sub = plan.sub
        /\ plan.phase = "planned"
    BY <1>1 DEF Unwind, IInv, TypeOK, Plans
  <2>2. UNCHANGED <<maps, pending, next_sub, shared, asked>>
    BY <1>1 DEF Unwind
  <2> QED BY <2>1, <2>2 DEF maps, IInv, TypeOK, RootsDisjoint, Lockstep,
     SubsInsideRoot, CoversExact, WordsHonoured, PublishedIsCommitted,
     ReservationsMatchPlan, IdsFresh, PlanSound
<1>2. CASE AbortWatch
  BY <1>2, WordsAssumption DEF AbortWatch, maps, IInv, TypeOK, Plans, NoPlan, Drop,
     RootsDisjoint, Lockstep, SubsInsideRoot, CoversExact, WordsHonoured,
     PublishedIsCommitted, ReservationsMatchPlan, IdsFresh, PlanSound
<1>3. CASE SwapInEmpty
  <2>1. plan' \in Plans /\ plan'.phase = "closed" /\ plan.phase = "idle"
    BY <1>3, WordsAssumption DEF SwapInEmpty, idle, Plans, NoPlan
  <2>2. UNCHANGED <<maps, pending, next_sub, asked>>
    BY <1>3 DEF SwapInEmpty
  <2> QED BY <2>1, <2>2 DEF maps, IInv, TypeOK, RootsDisjoint, Lockstep, SubsInsideRoot, CoversExact, WordsHonoured,
     PublishedIsCommitted, ReservationsMatchPlan, IdsFresh, PlanSound
<1> QED BY <1>1, <1>2, <1>3

\* cover_remove keeps the cover map exact when exactly the departing leave.
LEMMA CoverRemoveExact ==
    ASSUME CoversExact, NEW departing,
           covers' = cover_remove(departing), subs' = Drop(subs, departing)
    PROVE  CoversExact'
<1>1. /\ DOMAIN covers' = {c \in DOMAIN covers : covers[c] \ departing # {}}
      /\ \A k \in DOMAIN covers' : covers'[k] = covers[k] \ departing
  BY DEF cover_remove
<1>2. /\ DOMAIN subs' = DOMAIN subs \ departing
      /\ \A s \in DOMAIN subs' : subs'[s] = subs[s]
  BY DEF Drop
<1>3. \A k \in DOMAIN covers' : covers'[k] = {s \in DOMAIN subs' : subs'[s].key = k}
  <2> SUFFICES ASSUME NEW k \in DOMAIN covers', NEW s
               PROVE  s \in covers'[k] <=> s \in DOMAIN subs' /\ subs'[s].key = k
    OBVIOUS
  <2> QED BY <1>1, <1>2 DEF CoversExact
<1>4. \A s \in DOMAIN subs' : subs'[s].key \in DOMAIN covers'
  BY <1>1, <1>2 DEF CoversExact
<1> QED BY <1>1, <1>3, <1>4 DEF CoversExact

\* A root leaves together with its whole cohort.
RootLeaves(h) ==
    /\ h \in DOMAIN by_handle
    /\ idle \/ (plan.phase = "unwinding" /\ h \in plan.unwatch)
    /\ index' = Drop(index, {by_handle[h]})
    /\ by_handle' = Drop(by_handle, {h})
    /\ root_subs' = Drop(root_subs, {h})
    /\ subs' = Drop(subs, root_subs[h])
    /\ covers' = cover_remove(root_subs[h])
    /\ publish
    /\ UNCHANGED <<pending, next_sub, plan, asked>>

LEMMA RootLeavesIInv == ASSUME IInv, NEW h, RootLeaves(h) PROVE IInv'
<1>1. /\ DOMAIN index' = DOMAIN index \ {by_handle[h]}
      /\ \A k \in DOMAIN index' : index'[k] = index[k]
      /\ DOMAIN by_handle' = DOMAIN by_handle \ {h}
      /\ \A g \in DOMAIN by_handle' : by_handle'[g] = by_handle[g]
      /\ DOMAIN root_subs' = DOMAIN root_subs \ {h}
      /\ \A g \in DOMAIN root_subs' : root_subs'[g] = root_subs[g]
      /\ DOMAIN subs' = DOMAIN subs \ root_subs[h]
      /\ \A s \in DOMAIN subs' : subs'[s] = subs[s]
      /\ UNCHANGED <<pending, next_sub, plan, asked>>
  BY DEF RootLeaves, Drop
<1>2. /\ h \in DOMAIN by_handle
      /\ \A s \in DOMAIN subs : s \in root_subs[h] <=> subs[s].root = h
  BY DEF RootLeaves, IInv, Lockstep
<1>3. TypeOK'
  <2>1. DOMAIN covers' \subseteq Key /\ \A k \in DOMAIN covers' : covers'[k] \in SUBSET Sub
    BY DEF RootLeaves, cover_remove, IInv, TypeOK
  <2> QED BY <1>1, <2>1 DEF IInv, TypeOK
<1>4. RootsDisjoint'
  BY <1>1 DEF IInv, RootsDisjoint
<1>5. Lockstep'
  <2>1. \A k \in DOMAIN index' : index'[k].handle \in DOMAIN by_handle'
                                /\ by_handle'[index'[k].handle] = k
    BY <1>1, <1>2 DEF IInv, Lockstep
  <2>2. \A g \in DOMAIN by_handle' : by_handle'[g] \in DOMAIN index'
                                    /\ index'[by_handle'[g]].handle = g
    BY <1>1, <1>2 DEF IInv, Lockstep
  <2>3. \A s \in DOMAIN subs' : subs'[s].root \in DOMAIN root_subs'
                                /\ s \in root_subs'[subs'[s].root]
    BY <1>1, <1>2 DEF IInv, Lockstep
  <2>4. \A g \in DOMAIN root_subs' :
          /\ root_subs'[g] # {}
          /\ \A s \in root_subs'[g] : s \in DOMAIN subs' /\ subs'[s].root = g
    <3>1. \A g \in DOMAIN root_subs :
            root_subs[g] # {} /\ \A s \in root_subs[g] : s \in DOMAIN subs /\ subs[s].root = g
      BY DEF IInv, Lockstep
    <3> QED BY <1>1, <1>2, <3>1
  <2>5. DOMAIN root_subs' = DOMAIN by_handle'
    BY <1>1 DEF IInv, Lockstep
  <2> QED BY <2>1, <2>2, <2>3, <2>4, <2>5 DEF Lockstep
<1>6. SubsInsideRoot'
  <2>1. \A s \in DOMAIN subs' : /\ s \in DOMAIN subs /\ subs'[s] = subs[s]
                                /\ by_handle'[subs[s].root] = by_handle[subs[s].root]
    BY <1>1, <1>2 DEF IInv, Lockstep
  <2> QED BY <2>1 DEF IInv, SubsInsideRoot
<1>7. CoversExact'
  BY CoverRemoveExact DEF RootLeaves, IInv
<1>8. WordsHonoured'
  <2>1. \A s \in DOMAIN subs' :
          /\ s \in DOMAIN subs /\ subs'[s] = subs[s]
          /\ by_handle'[subs[s].root] = by_handle[subs[s].root]
          /\ index'[by_handle[subs[s].root]] = index[by_handle[subs[s].root]]
    BY <1>1, <1>2 DEF IInv, Lockstep
  <2>2. asked' = asked
    BY <1>1
  <2> QED BY <2>1, <2>2 DEF IInv, WordsHonoured
<1>9. (PublishedIsCommitted /\ ReservationsMatchPlan /\ IdsFresh /\ PlanSound)'
  BY <1>1 DEF RootLeaves, publish, idle, IInv, PublishedIsCommitted, ReservationsMatchPlan,
     IdsFresh, PlanSound
<1> QED BY <1>3, <1>4, <1>5, <1>6, <1>7, <1>8, <1>9 DEF IInv

LEMMA ForceRemoveRootIInv ==
    ASSUME IInv, NEW h \in Handle, ForceRemoveRoot(h) PROVE IInv'
BY RootLeavesIInv DEF RootLeaves, ForceRemoveRoot, Removable

LEMMA PlanUnwatchIInv ==
    ASSUME IInv, NEW sub \in Sub, PlanUnwatch(sub) PROVE IInv'
<1> DEFINE h == subs[sub].root
<1>1. sub \in DOMAIN subs /\ h \in DOMAIN by_handle /\ sub \in root_subs[h] /\ idle
  BY DEF PlanUnwatch, IInv, Lockstep
<1>2. CASE root_subs[h] = {sub}
  BY <1>1, <1>2, RootLeavesIInv DEF RootLeaves, PlanUnwatch
<1>3. CASE root_subs[h] # {sub}
  <2>1. /\ index' = index /\ by_handle' = by_handle
        /\ subs' = Drop(subs, {sub}) /\ covers' = cover_remove({sub})
        /\ root_subs' = [root_subs EXCEPT ![h] = @ \ {sub}]
        /\ publish /\ UNCHANGED <<pending, next_sub, plan, asked>>
    BY <1>3 DEF PlanUnwatch
  <2>2. /\ DOMAIN subs' = DOMAIN subs \ {sub}
        /\ \A s \in DOMAIN subs' : subs'[s] = subs[s]
    BY <2>1 DEF Drop
  <2>3. /\ DOMAIN root_subs' = DOMAIN root_subs
        /\ \A g \in DOMAIN root_subs : root_subs'[g] = root_subs[g] \ {sub}
    <3>1. \A g \in DOMAIN root_subs : g # h => sub \notin root_subs[g]
      BY DEF IInv, Lockstep
    <3> QED BY <2>1, <3>1
  <2>4. TypeOK'
    <3>1. DOMAIN covers' \subseteq Key /\ \A k \in DOMAIN covers' : covers'[k] \in SUBSET Sub
      BY <2>1 DEF cover_remove, IInv, TypeOK
    <3> QED BY <2>1, <2>2, <2>3, <3>1 DEF IInv, TypeOK
  <2>5. Lockstep'
    <3>1. \A g \in DOMAIN root_subs' : root_subs'[g] # {}
      BY <1>1, <1>3, <2>1, <2>3 DEF IInv, Lockstep
    <3>2. \A s \in DOMAIN subs' : subs'[s].root \in DOMAIN root_subs'
                                  /\ s \in root_subs'[subs'[s].root]
      BY <2>2, <2>3 DEF IInv, Lockstep
    <3>3. \A g \in DOMAIN root_subs' :
            \A s \in root_subs'[g] : s \in DOMAIN subs' /\ subs'[s].root = g
      BY <2>2, <2>3 DEF IInv, Lockstep
    <3> QED BY <2>1, <2>3, <3>1, <3>2, <3>3 DEF IInv, Lockstep
  <2>6. RootsDisjoint' /\ SubsInsideRoot' /\ WordsHonoured'
    <3>1. UNCHANGED <<index, by_handle, asked>>
      BY <2>1
    <3> QED BY <2>2, <3>1 DEF IInv, RootsDisjoint, SubsInsideRoot, WordsHonoured
  <2>7. CoversExact'
    BY <2>1, CoverRemoveExact DEF IInv
  <2>8. (PublishedIsCommitted /\ ReservationsMatchPlan /\ IdsFresh /\ PlanSound)'
    BY <1>1, <2>1, <2>2 DEF publish, idle, IInv, PublishedIsCommitted,
       ReservationsMatchPlan, IdsFresh, PlanSound
  <2> QED BY <2>4, <2>5, <2>6, <2>7, <2>8 DEF IInv
<1> QED BY <1>2, <1>3

LEMMA RebindRootIInv ==
    ASSUME IInv, NEW old \in Handle, NEW new \in Handle, RebindRoot(old, new)
    PROVE  IInv'
<1> DEFINE key == by_handle[old]
           R == root_subs[old]
<1>1. /\ old \in DOMAIN by_handle /\ new \notin DOMAIN by_handle
      /\ plan.phase = "unwinding" /\ key \in DOMAIN index
      /\ UNCHANGED <<covers, pending, next_sub, plan, asked>>
      /\ shared' = [roots |-> index', covers |-> covers']
  BY DEF RebindRoot, publish, IInv, Lockstep
<1>2. /\ DOMAIN index' = DOMAIN index
      /\ \A k \in DOMAIN index : k # key => index'[k] = index[k]
      /\ index'[key] = [handle |-> new, globs |-> index[key].globs, cover |-> index[key].cover]
  BY <1>1 DEF RebindRoot, IInv, TypeOK, RootRecord
<1>3. /\ DOMAIN by_handle' = (DOMAIN by_handle \ {old}) \cup {new}
      /\ by_handle'[new] = key
      /\ \A g \in DOMAIN by_handle : g # old => by_handle'[g] = by_handle[g]
      /\ DOMAIN root_subs' = (DOMAIN by_handle \ {old}) \cup {new}
      /\ root_subs'[new] = R
      /\ \A g \in DOMAIN by_handle : g # old => root_subs'[g] = root_subs[g]
  BY <1>1 DEF RebindRoot, Put, Drop, IInv, Lockstep
<1>4. /\ DOMAIN subs' = DOMAIN subs
      /\ \A s \in DOMAIN subs : subs'[s] = IF s \in R THEN [root |-> new, key |-> subs[s].key]
                                            ELSE subs[s]
  BY DEF RebindRoot, repoint
<1>5. /\ \A s \in DOMAIN subs : s \in R <=> subs[s].root = old
      /\ R \subseteq DOMAIN subs /\ R # {}
  BY <1>1 DEF IInv, Lockstep
<1>6. \A g \in DOMAIN by_handle : by_handle[g] = key <=> g = old
  BY <1>1 DEF IInv, Lockstep
<1> HIDE DEF key, R
<1>7. TypeOK'
  <2>1. \A k \in DOMAIN index' : index'[k] \in RootRecord
    BY <1>1, <1>2 DEF IInv, TypeOK, RootRecord
  <2>2. /\ \A g \in DOMAIN by_handle' : by_handle'[g] \in Key
        /\ \A g \in DOMAIN root_subs' : root_subs'[g] \in SUBSET Sub
    BY <1>1, <1>2, <1>3, <1>5 DEF IInv, TypeOK, Lockstep
  <2>3. \A s \in DOMAIN subs' : subs'[s] \in [root : Handle, key : Key]
    BY <1>4 DEF IInv, TypeOK
  <2> QED BY <1>1, <1>2, <1>3, <1>4, <2>1, <2>2, <2>3 DEF IInv, TypeOK
<1>8. RootsDisjoint'
  BY <1>2 DEF IInv, RootsDisjoint
<1>9. Lockstep'
  <2>1. \A k \in DOMAIN index' : index'[k].handle \in DOMAIN by_handle'
                                /\ by_handle'[index'[k].handle] = k
    BY <1>1, <1>2, <1>3, <1>6 DEF IInv, Lockstep
  <2>2. \A g \in DOMAIN by_handle' : by_handle'[g] \in DOMAIN index'
                                    /\ index'[by_handle'[g]].handle = g
    BY <1>1, <1>2, <1>3, <1>6 DEF IInv, Lockstep
  <2>3. \A s \in DOMAIN subs' : subs'[s].root \in DOMAIN root_subs'
                                /\ s \in root_subs'[subs'[s].root]
    BY <1>1, <1>3, <1>4, <1>5 DEF IInv, Lockstep
  <2>4. \A g \in DOMAIN root_subs' :
          /\ root_subs'[g] # {}
          /\ \A s \in root_subs'[g] : s \in DOMAIN subs' /\ subs'[s].root = g
    <3>1. \A g \in DOMAIN by_handle :
            root_subs[g] # {} /\ \A s \in root_subs[g] : s \in DOMAIN subs /\ subs[s].root = g
      BY DEF IInv, Lockstep
    <3>2. \A g \in DOMAIN by_handle : g # old => \A s \in root_subs[g] : s \notin R
      BY <1>5, <3>1
    <3> QED BY <1>3, <1>4, <1>5, <3>1, <3>2
  <2> QED BY <1>3, <2>1, <2>2, <2>3, <2>4 DEF Lockstep
<1>10. SubsInsideRoot'
  BY <1>1, <1>3, <1>4, <1>5 DEF IInv, SubsInsideRoot, Lockstep, key
<1>11. CoversExact'
  <2>1. \A s \in DOMAIN subs : subs'[s].key = subs[s].key
    BY <1>4
  <2> QED BY <1>1, <1>4, <2>1 DEF IInv, CoversExact
<1>12. WordsHonoured'
  <2> SUFFICES ASSUME NEW s \in DOMAIN subs'
               PROVE  /\ s \in DOMAIN asked'
                      /\ index'[by_handle'[subs'[s].root]].globs = asked'[s]
                      /\ asked'[s] \in Pruning =>
                            by_handle'[subs'[s].root] = subs'[s].key
    BY DEF WordsHonoured
  <2>1. CASE s \in R
    BY <1>1, <1>2, <1>3, <1>4, <1>5, <2>1 DEF IInv, WordsHonoured, key
  <2>2. CASE s \notin R
    <3>1. /\ s \in DOMAIN subs /\ subs[s].root \in DOMAIN by_handle
          /\ subs[s].root # old /\ by_handle[subs[s].root] # key
          /\ by_handle[subs[s].root] \in DOMAIN index
      BY <1>4, <1>5, <1>6, <2>2 DEF IInv, Lockstep
    <3> QED BY <1>1, <1>2, <1>3, <1>4, <2>2, <3>1 DEF IInv, WordsHonoured
  <2> QED BY <2>1, <2>2
<1>13. (PublishedIsCommitted /\ ReservationsMatchPlan /\ IdsFresh /\ PlanSound)'
  BY <1>1, <1>4 DEF IInv, PublishedIsCommitted, ReservationsMatchPlan, IdsFresh, PlanSound
<1> QED
  BY <1>7, <1>8, <1>9, <1>10, <1>11, <1>12, <1>13 DEF IInv

LEMMA SetCoverIInv ==
    ASSUME IInv, NEW h \in DOMAIN by_handle, NEW cover \in Cover, idle,
           SetCover(h, cover)
    PROVE  IInv'
<1> DEFINE key == by_handle[h]
<1>1. /\ key \in DOMAIN index
      /\ UNCHANGED <<covers, by_handle, root_subs, subs, pending, next_sub, plan, asked>>
      /\ shared' = [roots |-> index', covers |-> covers']
  BY DEF SetCover, publish, IInv, Lockstep
<1>2. /\ DOMAIN index' = DOMAIN index
      /\ \A k \in DOMAIN index : /\ index'[k] \in RootRecord
                                  /\ index'[k].handle = index[k].handle
                                  /\ index'[k].globs = index[k].globs
  BY <1>1 DEF SetCover, IInv, TypeOK, RootRecord
<1>3. TypeOK' /\ RootsDisjoint' /\ SubsInsideRoot' /\ CoversExact'
  BY <1>1, <1>2 DEF IInv, TypeOK, RootsDisjoint, SubsInsideRoot, CoversExact
<1>4. Lockstep' /\ WordsHonoured'
  <2>1. Lockstep'
    BY <1>1, <1>2 DEF IInv, Lockstep
  <2>2. WordsHonoured'
    BY <1>1, <1>2 DEF IInv, Lockstep, WordsHonoured
  <2> QED BY <2>1, <2>2
<1>5. (PublishedIsCommitted /\ ReservationsMatchPlan /\ IdsFresh /\ PlanSound)'
  BY <1>1 DEF idle, IInv, PublishedIsCommitted, ReservationsMatchPlan, IdsFresh, PlanSound
<1> QED BY <1>3, <1>4, <1>5 DEF IInv

\* What the owner records for a root is a cover.
LEMMA RetainedCoverType ==
    ASSUME IInv, NEW h \in DOMAIN by_handle PROVE retained_cover_for(h, {}) \in Cover
BY DEF IInv, TypeOK, Lockstep, retained_cover_for, KeysOf, Antichain, Cover

LEMMA NextIInv == ASSUME IInv, [Next]_vars PROVE IInv'
<1>1. CASE UNCHANGED vars
  BY SMTT(30), <1>1 DEF vars, IInv, TypeOK, RootsDisjoint, Lockstep, SubsInsideRoot, CoversExact,
     WordsHonoured, PublishedIsCommitted, ReservationsMatchPlan, IdsFresh, PlanSound
<1>2. ASSUME NEW key \in Key, NEW globs \in Words,
             PlanCovered(key, globs) \/ PlanWiden(key, globs) \/ PlanDisjoint(key, globs)
      PROVE  IInv'
  BY <1>2, PlanCoveredIInv, PlanWidenIInv, PlanDisjointIInv
<1>3. CASE CommitCovered
  BY <1>3, CommitCoveredIInv
<1>4. ASSUME NEW h \in Handle, NEW key \in Key,
             CommitDisjoint(h, key) \/ CommitWiden(h, key)
      PROVE  IInv'
  BY <1>4, CommitDisjointIInv, CommitWidenIInv
<1>5. CASE Unwind \/ AbortWatch \/ SwapInEmpty
  BY <1>5, PlanOnlyIInv
<1>6. ASSUME NEW sub \in Sub, PlanUnwatch(sub) PROVE IInv'
  BY <1>6, PlanUnwatchIInv
<1>7. ASSUME NEW h \in Handle, ForceRemoveRoot(h) PROVE IInv'
  BY <1>7, ForceRemoveRootIInv
<1>8. ASSUME NEW h \in Handle, DegradeRetainedCover(h) PROVE IInv'
  <2>1. {} \in Cover
    BY DEF Cover
  <2> QED BY <1>8, <2>1, SetCoverIInv DEF DegradeRetainedCover
<1>9. ASSUME NEW h \in DOMAIN by_handle, NEW cover \in {{}, retained_cover_for(h, {})},
             SetRetainedCover(h, cover)
      PROVE  IInv'
  <2>1. cover \in Cover
    BY RetainedCoverType DEF Cover
  <2> QED BY <1>9, <2>1, SetCoverIInv DEF SetRetainedCover
<1>10. ASSUME NEW old \in Handle, NEW new \in Handle, RebindRoot(old, new) PROVE IInv'
  BY <1>10, RebindRootIInv
<1> QED
  BY <1>1, <1>2, <1>3, <1>4, <1>5, <1>6, <1>7, <1>8, <1>9, <1>10 DEF Next

-----------------------------------------------------------------------------
(* The theorems.                                                           *)

\* The inductive invariant holds of every behaviour of the engine.
THEOREM SubsumerInvariant == Spec => []IInv
<1>1. Init => IInv
  BY InitIInv
<1>2. IInv /\ [Next]_vars => IInv'
  BY NextIInv
<1> QED BY <1>1, <1>2, PTL DEF Spec

\* plan_watch .. rebind_root keep every table well typed.
THEOREM SubsumerTypeOK == Spec => []TypeOK
<1>1. IInv => TypeOK
  BY DEF IInv
<1> QED BY <1>1, SubsumerInvariant, PTL

\* However requests, failures, restores and departures follow one another, no
\* watch root ever lies inside another one.
THEOREM SubsumerRootsDisjoint == Spec => []RootsDisjoint
<1>1. IInv => RootsDisjoint
  BY DEF IInv
<1> QED BY <1>1, SubsumerInvariant, PTL

\* The four tables never disagree, so none of the engine's `expect`s fires.
THEOREM SubsumerLockstep == Spec => []Lockstep
<1>1. IInv => Lockstep
  BY DEF IInv
<1> QED BY <1>1, SubsumerInvariant, PTL

\* Every subscription is served from a root that contains its key and was armed
\* under the words the subscription asked for.
THEOREM SubsumerServesSubscriptions == Spec => [](SubsInsideRoot /\ WordsHonoured)
<1>1. IInv => SubsInsideRoot /\ WordsHonoured
  BY DEF IInv
<1> QED BY <1>1, SubsumerInvariant, PTL

\* Readers of the published view are told exactly what live subscriptions cover.
THEOREM SubsumerViewExact == Spec => []ViewExact
<1>1. IInv => ViewExact
  <2> SUFFICES ASSUME IInv, plan.phase # "closed", NEW k \in Key
               PROVE  is_watched(shared, k) <=>
                        \E s \in DOMAIN subs : StartsWith(k, subs[s].key)
    BY DEF ViewExact
  <2>1. shared.covers = covers
    BY DEF IInv, PublishedIsCommitted
  <2> QED BY <2>1 DEF IInv, CoversExact, is_watched, Ancestors
<1> QED BY <1>1, SubsumerInvariant, PTL

\* A subscription never changes its key and an id is never admitted twice.
THEOREM SubsumerKeysForLife == Spec => SubscriptionsKeepTheirKey
<1> DEFINE Keep == \A s \in DOMAIN subs' :
                      \/ s \in DOMAIN subs /\ subs'[s].key = subs[s].key
                      \/ s \notin DOMAIN subs /\ s \notin DOMAIN asked
<1>1. ASSUME IInv, [Next]_vars PROVE [Keep]_vars
  <2>1. CASE UNCHANGED vars
    BY <2>1
  <2>2. ASSUME UNCHANGED subs PROVE Keep
    BY <2>2
  <2>3. ASSUME NEW S, subs' = Drop(subs, S) PROVE Keep
    BY <2>3 DEF Drop
  <2>4. ASSUME NEW S, NEW h, subs' = repoint(S, h) PROVE Keep
    BY <2>4 DEF repoint
  <2>5. ASSUME plan.phase = "planned", NEW f, NEW v, subs' = Put(f, plan.sub, v),
               DOMAIN f = DOMAIN subs, \A s \in DOMAIN subs : f[s].key = subs[s].key
        PROVE  Keep
    <3>1. plan.sub \notin DOMAIN subs \cup DOMAIN asked
      BY <1>1, <2>5 DEF IInv, PlanSound
    <3> QED BY <2>5, <3>1 DEF Put
  <2>6. CASE CommitCovered
    BY <2>5, <2>6 DEF CommitCovered
  <2>7. ASSUME NEW h \in Handle, NEW key \in Key, CommitDisjoint(h, key) PROVE Keep
    BY <2>5, <2>7 DEF CommitDisjoint
  <2>8. ASSUME NEW h \in Handle, NEW key \in Key, CommitWiden(h, key) PROVE Keep
    <3> DEFINE f == repoint(plan.repointed, h)
    <3>1. DOMAIN f = DOMAIN subs /\ \A s \in DOMAIN subs : f[s].key = subs[s].key
      BY DEF repoint
    <3>2. subs' = Put(f, plan.sub, [root |-> h, key |-> key]) /\ plan.phase = "planned"
      BY <2>8 DEF CommitWiden
    <3> HIDE DEF f
    <3> QED BY <2>5, <3>1, <3>2
  <2>9. ASSUME NEW sub \in Sub, PlanUnwatch(sub) PROVE Keep
    BY <2>3, <2>9 DEF PlanUnwatch
  <2>10. ASSUME NEW h \in Handle, ForceRemoveRoot(h) PROVE Keep
    BY <2>3, <2>10 DEF ForceRemoveRoot
  <2>11. ASSUME NEW old \in Handle, NEW new \in Handle, RebindRoot(old, new) PROVE Keep
    BY <2>4, <2>11 DEF RebindRoot
  <2> HIDE DEF Keep
  <2> QED
    BY <1>1, <2>1, <2>2, <2>6, <2>7, <2>8, <2>9, <2>10, <2>11
    DEF Next, PlanCovered, PlanWiden, PlanDisjoint, maps, Unwind, AbortWatch,
        SetRetainedCover, DegradeRetainedCover, SetCover, SwapInEmpty
<1> QED BY <1>1, SubsumerInvariant, PTL DEF Spec, SubscriptionsKeepTheirKey


-----------------------------------------------------------------------------
(* Covers.                                                                 *)

\* Every key of a set lies below a shortest one (`antichain`).
LEMMA AntichainCovers ==
    ASSUME NEW S \in SUBSET Key, NEW k \in S PROVE CoveredBy(k, Antichain(S))
<1> DEFINE N == {n \in Nat : \E o \in S : StartsWith(k, o) /\ Len(o) = n}
<1>1. Len(k) \in N
  BY PrefixRefl, KeyAssumption
<1>2. PICK n \in N : \A i \in N : n <= i
  <2> HIDE DEF N
  <2>1. N \in SUBSET Nat
    BY DEF N
  <2> QED BY <1>1, <2>1, Least
<1>3. PICK o \in S : StartsWith(k, o) /\ Len(o) = n
  BY <1>2
<1>4. ASSUME NEW p \in S, StartsWith(o, p) PROVE Len(p) = Len(o)
  <2>1. StartsWith(k, p) /\ Len(p) \in Nat /\ Len(o) \in Nat
    BY <1>3, <1>4, PrefixTrans, KeyAssumption
  <2>2. n <= Len(p)
    BY <1>2, <2>1
  <2> QED BY <1>3, <1>4, <2>1, <2>2 DEF StartsWith
<1> QED BY <1>3, <1>4 DEF Antichain, CoveredBy

\* What lies below a covered key is covered.
LEMMA CoveredBelow ==
    ASSUME NEW C \in SUBSET Key, NEW j \in Key, NEW k \in Key, StartsWith(k, j), CoveredBy(j, C)
    PROVE  CoveredBy(k, C)
BY PrefixTrans DEF CoveredBy

\* The members of a cohort, by the engine's invariant.
LEMMA Cohort ==
    ASSUME IInv, NEW h \in DOMAIN by_handle
    PROVE  /\ by_handle[h] \in Key /\ h \in Handle /\ by_handle[h] \in DOMAIN index
           /\ index[by_handle[h]].handle = h /\ h \in DOMAIN root_subs
           /\ index[by_handle[h]].cover \in Cover
           /\ \A s \in root_subs[h] : /\ s \in DOMAIN subs /\ subs[s].root = h
                                      /\ subs[s].key \in Key
                                      /\ StartsWith(subs[s].key, by_handle[h])
           /\ KeysOf(root_subs[h]) \subseteq Key
<1>1. TypeOK /\ Lockstep /\ SubsInsideRoot
  BY DEF IInv
<1>2. /\ by_handle[h] \in Key /\ h \in Handle /\ by_handle[h] \in DOMAIN index
      /\ index[by_handle[h]].handle = h /\ h \in DOMAIN root_subs
  BY <1>1 DEF TypeOK, Lockstep
<1>3. index[by_handle[h]].cover \in Cover
  BY <1>1, <1>2 DEF TypeOK, RootRecord
<1>4. \A s \in root_subs[h] : s \in DOMAIN subs /\ subs[s].root = h /\ subs[s].key \in Key
  BY <1>1, <1>2 DEF TypeOK, Lockstep
<1>5. \A s \in root_subs[h] : StartsWith(subs[s].key, by_handle[h])
  BY <1>1, <1>4 DEF SubsInsideRoot
<1> QED BY <1>2, <1>3, <1>4, <1>5 DEF KeysOf

\* Every subscription is of the cohort of its root.
LEMMA Member ==
    ASSUME IInv, NEW s \in DOMAIN subs
    PROVE  /\ subs[s].root \in DOMAIN by_handle /\ s \in root_subs[subs[s].root] /\ s \in Sub
           /\ subs[s].key \in Key /\ StartsWith(subs[s].key, by_handle[subs[s].root])
BY DEF IInv, TypeOK, Lockstep, SubsInsideRoot

\* `retained_cover_for`: the whole root if somebody needs it, or else strictly
\* smaller subtrees that hold what everybody needs.
LEMMA RetainedSound ==
    ASSUME IInv, NEW h \in DOMAIN by_handle, NEW N \in SUBSET Key,
           \A n \in N : StartsWith(n, by_handle[h])
    PROVE  LET C == retained_cover_for(h, N) IN
           /\ C \in Cover
           /\ C = Full <=> by_handle[h] \in KeysOf(root_subs[h]) \cup N
           /\ C # Full => /\ C \in SUBSET Key /\ ~CoveredBy(by_handle[h], C)
                          /\ \A k \in KeysOf(root_subs[h]) \cup N : CoveredBy(k, C)
<1> DEFINE needed == KeysOf(root_subs[h]) \cup N
           C == retained_cover_for(h, N)
<1>1. needed \in SUBSET Key /\ by_handle[h] \in Key /\ \A k \in needed : StartsWith(k, by_handle[h])
  BY Cohort DEF KeysOf
<1>2. C = IF by_handle[h] \in needed THEN Full ELSE Antichain(needed)
  BY DEF retained_cover_for
<1>3. Antichain(needed) \in SUBSET Key /\ Antichain(needed) \subseteq needed
  BY <1>1 DEF Antichain
<1>4. Full # Antichain(needed)
  BY <1>3, FullAssumption
<1>5. \A k \in needed : CoveredBy(k, Antichain(needed))
  BY <1>1, AntichainCovers
<1>6. by_handle[h] \notin needed => ~CoveredBy(by_handle[h], Antichain(needed))
  BY <1>1, <1>3, PrefixAntisym DEF CoveredBy
<1> HIDE DEF needed, C
<1> QED BY <1>2, <1>3, <1>4, <1>5, <1>6 DEF needed, C, Cover

\* A cover that is no record of the root is a set of keys of it.
LEMMA CoverForSound ==
    ASSUME IInv, NEW h \in DOMAIN by_handle, NEW N \in SUBSET Key,
           \A n \in N : StartsWith(n, by_handle[h])
    PROVE  LET C == cover_for(h, N) IN
           /\ C \in SUBSET Key
           /\ \A k \in KeysOf(root_subs[h]) \cup N : CoveredBy(k, C)
           /\ retained_cover_for(h, N) = IF C = {by_handle[h]} THEN Full ELSE C
           /\ C # {by_handle[h]} => ~CoveredBy(by_handle[h], C)
<1> DEFINE R == retained_cover_for(h, N)
           C == cover_for(h, N)
<1>1. /\ R = Full <=> by_handle[h] \in KeysOf(root_subs[h]) \cup N
      /\ R # Full => /\ R \in SUBSET Key /\ ~CoveredBy(by_handle[h], R)
                     /\ \A k \in KeysOf(root_subs[h]) \cup N : CoveredBy(k, R)
  BY RetainedSound
<1>2. C = IF R = Full THEN {by_handle[h]} ELSE R
  BY DEF cover_for
<1>3. /\ by_handle[h] \in Key
      /\ \A k \in KeysOf(root_subs[h]) \cup N : StartsWith(k, by_handle[h]) /\ k \in Key
  BY Cohort DEF KeysOf
<1>4. CoveredBy(by_handle[h], {by_handle[h]})
      /\ \A k \in KeysOf(root_subs[h]) \cup N : CoveredBy(k, {by_handle[h]})
  BY <1>3, PrefixRefl DEF CoveredBy
<1> HIDE DEF R, C
<1>5. R # Full => C = R /\ C # {by_handle[h]}
  BY <1>1, <1>2, <1>4
<1> QED BY <1>1, <1>2, <1>3, <1>4, <1>5 DEF R, C

-----------------------------------------------------------------------------
(* Prunes on their way.                                                    *)

\* The channel and what waits for it hold prunes, within the capacity.
Channel ==
    /\ control \in Seq(Handle \X SUBSET Key) /\ Len(control) <= ControlCap
    /\ DOMAIN deferred_prunes \subseteq Handle
    /\ \A h \in DOMAIN deferred_prunes : deferred_prunes[h] \subseteq Key

\* No prune is added to those on their way.
NoMorePrunes == \A h \in Handle : OnTheirWay(h)' \subseteq OnTheirWay(h)

\* Nothing is on its way to a root whose prune was dropped while the channel
\* was empty.
LEMMA NothingOnItsWay ==
    ASSUME NEW h, control = <<>>, h \notin DOMAIN deferred_prunes PROVE OnTheirWay(h) = {}
BY DEF OnTheirWay

\* `flush_deferred_prunes` moves prunes that wait, and adds none.
LEMMA FlushSound ==
    ASSUME Channel, NEW S, flush_deferred_prunes(S)
    PROVE  /\ Channel' /\ NoMorePrunes
           /\ DOMAIN deferred_prunes' \subseteq DOMAIN deferred_prunes \ S
<1> DEFINE rest == Drop(deferred_prunes, S)
<1>1. /\ DOMAIN rest = DOMAIN deferred_prunes \ S
      /\ \A h \in DOMAIN rest : rest[h] = deferred_prunes[h]
  BY DEF Drop
<1>2. CASE control' = control /\ deferred_prunes' = rest
  <2> HIDE DEF rest
  <2> QED BY <1>1, <1>2 DEF Channel, NoMorePrunes, OnTheirWay
<1>3. ASSUME NEW h \in DOMAIN rest, Len(control) < ControlCap,
             control' = Append(control, <<h, rest[h]>>), deferred_prunes' = Drop(rest, {h})
      PROVE  /\ Channel' /\ NoMorePrunes
             /\ DOMAIN deferred_prunes' \subseteq DOMAIN deferred_prunes \ S
  <2> HIDE DEF rest
  <2>1. /\ DOMAIN deferred_prunes' = DOMAIN rest \ {h}
        /\ \A g \in DOMAIN deferred_prunes' : deferred_prunes'[g] = deferred_prunes[g]
    BY <1>1, <1>3 DEF Drop
  <2>2. h \in Handle /\ rest[h] = deferred_prunes[h] /\ rest[h] \in SUBSET Key
    BY <1>1 DEF Channel
  <2>3. /\ control' \in Seq(Handle \X SUBSET Key) /\ Len(control') = Len(control) + 1
        /\ DOMAIN control' = 1 .. Len(control) + 1 /\ DOMAIN control = 1 .. Len(control)
        /\ Len(control) \in Nat
        /\ \A i \in 1 .. Len(control) : control'[i] = control[i]
        /\ control'[Len(control) + 1] = <<h, deferred_prunes[h]>>
    BY <1>3, <2>2 DEF Channel
  <2>4. Channel'
    <3>1. Len(control') <= ControlCap
      BY <1>3, <2>3, ControlAssumption
    <3>2. /\ DOMAIN deferred_prunes' \subseteq Handle
          /\ \A g \in DOMAIN deferred_prunes' : deferred_prunes'[g] \subseteq Key
      BY <1>1, <2>1 DEF Channel
    <3> QED BY <2>3, <3>1, <3>2 DEF Channel
  <2>5. NoMorePrunes
    <3> SUFFICES ASSUME NEW g \in Handle, NEW c \in OnTheirWay(g)' PROVE c \in OnTheirWay(g)
      BY DEF NoMorePrunes
    <3>1. CASE g \in DOMAIN deferred_prunes' /\ c = deferred_prunes'[g]
      BY <1>1, <2>1, <3>1 DEF OnTheirWay
    <3>2. ASSUME NEW i \in DOMAIN control', control'[i][1] = g, c = control'[i][2]
          PROVE  c \in OnTheirWay(g)
      <4>1. CASE i \in 1 .. Len(control)
        BY <2>3, <3>2, <4>1 DEF OnTheirWay
      <4>2. CASE i = Len(control) + 1
        BY <1>1, <2>3, <3>2, <4>2 DEF OnTheirWay
      <4> QED BY <2>3, <4>1, <4>2
    <3> QED BY <3>1, <3>2 DEF OnTheirWay
  <2> QED BY <1>1, <2>1, <2>4, <2>5
<1> QED BY <1>2, <1>3 DEF flush_deferred_prunes

\* `request_set_cover` adds the prune it was asked for, and no other.
LEMMA SetCoverSound ==
    ASSUME Channel, NEW h \in Handle, NEW cover \in SUBSET Key, set_cover(h, cover)
    PROVE  /\ Channel'
           /\ \A g \in Handle : OnTheirWay(g)' \subseteq OnTheirWay(g)
                                   \cup {c \in {cover} : g = h /\ h \in DOMAIN source}
           /\ h \notin DOMAIN source => UNCHANGED <<control, deferred_prunes>>
<1> DEFINE rest == Drop(deferred_prunes, {h})
<1>1. /\ DOMAIN rest = DOMAIN deferred_prunes \ {h}
      /\ \A g \in DOMAIN rest : rest[g] = deferred_prunes[g]
  BY DEF Drop
<1>2. CASE h \notin DOMAIN source
  BY <1>2 DEF set_cover, Channel, OnTheirWay
<1>3. CASE h \in DOMAIN source /\ Len(control) < ControlCap
  <2>1. control' = Append(control, <<h, cover>>) /\ deferred_prunes' = rest
    BY <1>3 DEF set_cover
  <2> HIDE DEF rest
  <2>2. /\ control' \in Seq(Handle \X SUBSET Key) /\ Len(control') = Len(control) + 1
        /\ DOMAIN control' = 1 .. Len(control) + 1 /\ DOMAIN control = 1 .. Len(control)
        /\ Len(control) \in Nat
        /\ \A i \in 1 .. Len(control) : control'[i] = control[i]
        /\ control'[Len(control) + 1] = <<h, cover>>
    BY <1>3, <2>1 DEF Channel
  <2>3. Channel'
    BY <1>1, <1>3, <2>1, <2>2, ControlAssumption DEF Channel
  <2>4. ASSUME NEW g \in Handle, NEW c \in OnTheirWay(g)'
        PROVE  c \in OnTheirWay(g) \/ (c = cover /\ g = h)
    <3>1. CASE g \in DOMAIN deferred_prunes' /\ c = deferred_prunes'[g]
      BY <1>1, <2>1, <3>1 DEF OnTheirWay
    <3>2. ASSUME NEW i \in DOMAIN control', control'[i][1] = g, c = control'[i][2]
          PROVE  c \in OnTheirWay(g) \/ (c = cover /\ g = h)
      <4>1. CASE i \in 1 .. Len(control)
        BY <2>2, <3>2, <4>1 DEF OnTheirWay
      <4>2. CASE i = Len(control) + 1
        BY <2>2, <3>2, <4>2
      <4> QED BY <2>2, <4>1, <4>2
    <3> QED BY <3>1, <3>2 DEF OnTheirWay
  <2> QED BY <1>3, <2>3, <2>4
<1>4. CASE h \in DOMAIN source /\ ~(Len(control) < ControlCap)
  <2>1. control' = control /\ deferred_prunes' = Put(rest, h, cover)
    BY <1>4 DEF set_cover
  <2> HIDE DEF rest
  <2>2. /\ DOMAIN deferred_prunes' = DOMAIN deferred_prunes \cup {h}
        /\ deferred_prunes'[h] = cover
        /\ \A g \in DOMAIN deferred_prunes : g # h => deferred_prunes'[g] = deferred_prunes[g]
    BY <1>1, <2>1 DEF Put
  <2>3. Channel'
    BY <2>1, <2>2 DEF Channel
  <2>4. ASSUME NEW g \in Handle, NEW c \in OnTheirWay(g)'
        PROVE  c \in OnTheirWay(g) \/ (c = cover /\ g = h)
    BY <2>1, <2>2, <2>4 DEF OnTheirWay
  <2> QED BY <1>4, <2>3, <2>4
<1> QED BY <1>2, <1>3, <1>4

\* A prune that reaches the watcher was on its way, and the others stay so.
LEMMA PruneReaches ==
    ASSUME Channel, control # <<>>, control' = Tail(control), deferred_prunes' = deferred_prunes
    PROVE  /\ Channel' /\ NoMorePrunes
           /\ Head(control)[1] \in Handle /\ Head(control)[2] \in SUBSET Key
           /\ Head(control)[2] \in OnTheirWay(Head(control)[1])
<1>1. /\ control \in Seq(Handle \X SUBSET Key) /\ Len(control) \in Nat /\ Len(control) # 0
      /\ DOMAIN control = 1 .. Len(control) /\ Head(control) = control[1]
  BY DEF Channel
<1>2. /\ control' \in Seq(Handle \X SUBSET Key) /\ Len(control') = Len(control) - 1
      /\ DOMAIN control' = 1 .. Len(control')
      /\ \A i \in DOMAIN control' : control'[i] = control[i + 1] /\ i + 1 \in DOMAIN control
  BY <1>1
<1>3. control[1] \in Handle \X SUBSET Key /\ 1 \in DOMAIN control
  BY <1>1
<1>4. NoMorePrunes
  <2> SUFFICES ASSUME NEW g \in Handle, NEW c \in OnTheirWay(g)' PROVE c \in OnTheirWay(g)
    BY DEF NoMorePrunes
  <2>1. ASSUME NEW i \in DOMAIN control', control'[i][1] = g, c = control'[i][2]
        PROVE  c \in OnTheirWay(g)
    BY <1>2, <2>1 DEF OnTheirWay
  <2> QED BY <2>1 DEF OnTheirWay
<1>5. Channel'
  BY <1>1, <1>2, ControlAssumption DEF Channel
<1> QED BY <1>1, <1>3, <1>4, <1>5 DEF OnTheirWay

-----------------------------------------------------------------------------
(* What a step leaves as it was.                                           *)

\* No subscription is cut off unnoticed by a step that tells the ones it cuts
\* off, or leaves the loss noted.
LEMMA GapsKept ==
    ASSUME GapsNoted, AllServed, NEW told,
           untold' \subseteq (untold \cup {s \in DOMAIN subs' :
                                 ~Served(s)' /\ (s \in DOMAIN subs => Served(s))}) \ told,
           rescanned \subseteq rescanned', closing => closing',
           DOMAIN subs \subseteq DOMAIN subs' \cup told,
           \A s \in DOMAIN subs' :
              \/ s \in told /\ (Served(s)' \/ s \in rescanned')
              \/ s \notin DOMAIN subs /\ (Served(s)' \/ Noted(subs[s].root)')
              \/ /\ s \in DOMAIN subs
                 /\ Noted(subs[s].root) => Noted(subs[s].root)'
                 /\ Served(s) /\ ~Noted(subs[s].root) => Served(s)' \/ Noted(subs[s].root)'
    PROVE  GapsNoted' /\ AllServed'
<1>1. untold \subseteq DOMAIN subs /\ \A s \in untold : Noted(subs[s].root)
  BY DEF GapsNoted
<1>2. GapsNoted'
  <2> SUFFICES ASSUME NEW s \in untold' PROVE s \in DOMAIN subs' /\ Noted(subs[s].root)'
    BY DEF GapsNoted
  <2>1. s \notin told /\ s \in DOMAIN subs'
    BY <1>1
  <2>2. CASE s \in untold
    BY <1>1, <2>1, <2>2
  <2>3. CASE s \notin untold
    BY <1>1, <2>1, <2>3
  <2> QED BY <2>2, <2>3
<1>3. AllServed'
  <2> SUFFICES ASSUME ~closing', NEW s \in DOMAIN subs'
               PROVE  Served(s)' \/ s \in rescanned' \/ Noted(subs[s].root)'
    BY DEF AllServed
  <2>1. s \in DOMAIN subs => Served(s) \/ s \in rescanned \/ Noted(subs[s].root)
    BY DEF AllServed
  <2> QED BY <2>1
<1> QED BY <1>2, <1>3

\* Prunes that take nothing a record claims or a subscription needs still do
\* not when no record, and no cohort, of a root they are on their way to grows.
LEMMA PrunesFrame ==
    ASSUME PrunesSafe, DOMAIN by_handle' \subseteq Handle,
           \A h \in DOMAIN by_handle' :
              \/ OnTheirWay(h)' = {}
              \/ /\ h \in DOMAIN by_handle /\ by_handle'[h] = by_handle[h]
                 /\ OnTheirWay(h)' \subseteq OnTheirWay(h)
                 /\ index'[by_handle[h]].cover = index[by_handle[h]].cover
                 /\ \A s \in root_subs'[h] : s \in root_subs[h] /\ subs'[s].key = subs[s].key
    PROVE  PrunesSafe'
<1> SUFFICES ASSUME NEW h \in DOMAIN by_handle', NEW cover \in OnTheirWay(h)'
             PROVE  /\ index'[by_handle'[h]].cover # Full
                    /\ \A k \in Descendants(Key, by_handle'[h]) :
                          ~covered_outside(index'[by_handle'[h]], k) => CoveredBy(k, cover)
                    /\ \A s \in root_subs'[h] : CoveredBy(subs'[s].key, cover)
  BY DEF PrunesSafe
<1>1. /\ h \in DOMAIN by_handle /\ by_handle'[h] = by_handle[h]
      /\ cover \in OnTheirWay(h)
      /\ index'[by_handle[h]].cover = index[by_handle[h]].cover
      /\ \A s \in root_subs'[h] : s \in root_subs[h] /\ subs'[s].key = subs[s].key
  OBVIOUS
<1> QED BY <1>1 DEF PrunesSafe, covered_outside

\* A root that is wholly covered covers every key inside it.
LEMMA WhollyCovered ==
    ASSUME NEW r \in Key, NEW k \in Key, StartsWith(k, r) PROVE CoveredBy(k, {r})
BY DEF CoveredBy

\* What a record claims of a live root that is not raised serves its cohort.
LEMMA ClaimServes ==
    ASSUME SourceSound, ~closing, NEW h \in DOMAIN source, h \in DOMAIN by_handle,
           ~Underway(h), h \notin raised, NEW k \in Key, StartsWith(k, by_handle[h]),
           ~covered_outside(index[by_handle[h]], k)
    PROVE  CoveredBy(k, source[h].kept)
BY DEF SourceSound, Descendants

\* A step of the source, or of the owner alone, leaves the engine's invariant.
LEMMA EngineStays ==
    ASSUME IInv, UNCHANGED vars PROVE IInv'
BY NextIInv

\* The parts about the records stay while the tables and the prunes do.
LEMMA RecordsStay ==
    ASSUME IInv, RecordsProper, PrunesSafe, UNCHANGED maps, NoMorePrunes
    PROVE  RecordsProper' /\ PrunesSafe'
<1>1. UNCHANGED <<index, by_handle, root_subs, subs>>
  BY DEF maps
<1>2. DOMAIN by_handle \subseteq Handle
  BY DEF IInv, TypeOK
<1>3. PrunesSafe'
  BY <1>1, <1>2, PrunesFrame DEF NoMorePrunes
<1> QED BY <1>1, <1>3 DEF RecordsProper

\* The covers are on their way to handles that were used.
LEMMA UsedStays ==
    ASSUME HandlesUsed, NoMorePrunes, DOMAIN by_handle' \subseteq used', used \subseteq used'
    PROVE  HandlesUsed'
BY DEF HandlesUsed, NoMorePrunes

\* Nothing on its way changes when neither the channel nor what waits does.
LEMMA SamePrunes ==
    ASSUME UNCHANGED <<control, deferred_prunes>>
    PROVE  NoMorePrunes /\ \A h : OnTheirWay(h)' = OnTheirWay(h)
BY DEF NoMorePrunes, OnTheirWay

-----------------------------------------------------------------------------
(* The steps of the source.                                                *)

\* Typing comes apart into the channel and the rest.
LEMMA Typed ==
    RTypeOK /\ RTyped <=>
        /\ Channel
        /\ DOMAIN source \subseteq used /\ used \subseteq Handle
        /\ \A h \in DOMAIN source : source[h] \in [key : Key, kept : SUBSET Key]
        /\ raised \subseteq Handle /\ todo \subseteq Handle
        /\ asked_cover \subseteq Key /\ root \in Handle \cup {NoHandle}
        /\ untold \subseteq Sub /\ rescanned \subseteq Sub
        /\ closing \in BOOLEAN /\ quarantined \in BOOLEAN
BY DEF RTypeOK, RTyped, Channel

\* And comes together again after a step.
LEMMA TypedAgain ==
    ASSUME Channel', DOMAIN source' \subseteq used', used' \subseteq Handle,
           \A h \in DOMAIN source' : source'[h] \in [key : Key, kept : SUBSET Key],
           raised' \subseteq Handle, todo' \subseteq Handle,
           asked_cover' \subseteq Key, root' \in Handle \cup {NoHandle},
           TypeOK', GapsNoted', rescanned' \subseteq Sub,
           closing' \in BOOLEAN, quarantined' \in BOOLEAN
    PROVE  RTypeOK' /\ RTyped'
BY DEF RTypeOK, RTyped, Channel, GapsNoted, TypeOK

LEMMA SourcePrunesRIInv == ASSUME RIInv, SourcePrunes PROVE RIInv'
<1> DEFINE h == Head(control)[1]
           cover == Head(control)[2]
<1>1. /\ UNCHANGED <<index, covers, by_handle, root_subs, subs, pending, next_sub, shared, plan, asked>>
      /\ UNCHANGED <<used, deferred_prunes, raised, rescanned>>
      /\ UNCHANGED <<step, asked_cover, root, todo, closing, quarantined>>
      /\ control # <<>> /\ control' = Tail(control)
      /\ Tells({})
  BY DEF SourcePrunes, vars, maps, ovars
<1>2. IInv' /\ TypeOK
  BY <1>1, EngineStays DEF RIInv, vars, maps, IInv
<1>3. /\ Channel' /\ NoMorePrunes
      /\ h \in Handle /\ cover \in SUBSET Key /\ cover \in OnTheirWay(h)
  BY <1>1, PruneReaches, Typed DEF RIInv
<1> HIDE DEF h, cover
<1>4. /\ DOMAIN source' = DOMAIN source
      /\ \A g \in DOMAIN source : /\ source[g] \in [key : Key, kept : SUBSET Key]
                                  /\ source'[g] \in [key : Key, kept : SUBSET Key]
                                  /\ source'[g].key = source[g].key
                                  /\ g # h => source'[g] = source[g]
                                  /\ g = h => source'[g].kept = cover
  BY <1>3 DEF SourcePrunes, RIInv, RTypeOK, h, cover
<1>5. h \in DOMAIN by_handle =>
          /\ index[by_handle[h]].cover # Full
          /\ \A k \in Descendants(Key, by_handle[h]) :
                ~covered_outside(index[by_handle[h]], k) => CoveredBy(k, cover)
          /\ \A s \in root_subs[h] : CoveredBy(subs[s].key, cover)
  BY <1>3 DEF RIInv, PrunesSafe
<1>6. GapsNoted' /\ AllServed'
  <2>1. ASSUME NEW s \in DOMAIN subs', Served(s) PROVE Served(s)'
    <3>1. s \in root_subs[subs[s].root] /\ subs[s].root \in DOMAIN by_handle
      BY <1>1, Member DEF RIInv
    <3> QED BY <1>1, <1>4, <1>5, <2>1, <3>1 DEF Served
  <2>2. \A s \in DOMAIN subs' : Noted(subs[s].root) => Noted(subs[s].root)'
    BY <1>1, <1>4 DEF Noted, InHand
  <2> QED BY <1>1, <2>1, <2>2, GapsKept DEF Tells, RIInv
<1>7. RTypeOK' /\ RTyped'
  BY <1>1, <1>2, <1>3, <1>4, <1>6, Typed, TypedAgain DEF RIInv, IInv
<1>8. HandlesUsed'
  BY <1>1, <1>3, UsedStays DEF RIInv, HandlesUsed
<1>9. StepSound'
  BY <1>1 DEF RIInv, StepSound
<1>10. step # "record"
  BY <1>1 DEF RIInv, AskedSound
<1>11. AskedSound'
  BY <1>1, <1>4, <1>10 DEF RIInv, AskedSound, cover_for, retained_cover_for, KeysOf, grown_cover
<1>12. RecordsProper' /\ PrunesSafe'
  BY <1>1, <1>3, RecordsStay DEF RIInv, maps
<1>13. SourceSound'
  BY ZenonT(40), <1>1, <1>4, <1>5, <1>10 DEF RIInv, SourceSound, Underway
<1> QED BY <1>2, <1>6, <1>7, <1>8, <1>9, <1>11, <1>12, <1>13 DEF RIInv

LEMMA SourceLosesRootRIInv ==
    ASSUME RIInv, NEW h \in Handle, SourceLosesRoot(h) PROVE RIInv'
<1>1. /\ UNCHANGED <<index, covers, by_handle, root_subs, subs, pending, next_sub, shared, plan, asked>>
      /\ UNCHANGED <<used, control, deferred_prunes, rescanned>>
      /\ UNCHANGED <<step, asked_cover, root, todo, closing, quarantined>>
      /\ raised' = raised \cup {h} /\ Tells({})
  BY DEF SourceLosesRoot, vars, maps, ovars
<1>2. IInv' /\ TypeOK
  BY <1>1, EngineStays DEF RIInv, vars, maps, IInv
<1>3. /\ Channel /\ Channel' /\ NoMorePrunes
  BY <1>1, SamePrunes, Typed DEF RIInv, Channel
<1>4. /\ DOMAIN source' = DOMAIN source \ {h}
      /\ \A g \in DOMAIN source' : source'[g] = source[g]
  BY DEF SourceLosesRoot, Drop
<1>5. GapsNoted' /\ AllServed'
  <2>1. ASSUME NEW s \in DOMAIN subs', Served(s) PROVE Served(s)' \/ Noted(subs[s].root)'
    BY <1>1, <1>4, <2>1 DEF Served, Noted
  <2>2. \A s \in DOMAIN subs' : Noted(subs[s].root) => Noted(subs[s].root)'
    BY <1>1, <1>4 DEF Noted, InHand
  <2> QED BY <1>1, <2>1, <2>2, GapsKept DEF Tells, RIInv
<1>6. RTypeOK' /\ RTyped'
  BY <1>1, <1>2, <1>3, <1>4, <1>5, Typed, TypedAgain DEF RIInv, IInv
<1>7. HandlesUsed' /\ RecordsProper' /\ PrunesSafe'
  BY <1>1, <1>3, UsedStays, RecordsStay DEF RIInv, HandlesUsed, maps
<1>8. StepSound'
  BY <1>1 DEF RIInv, StepSound
<1>9. AskedSound'
  BY <1>1, <1>4 DEF RIInv, AskedSound, cover_for, retained_cover_for, KeysOf, grown_cover
<1>10. SourceSound'
  BY <1>1, <1>4 DEF RIInv, SourceSound, Underway
<1> QED BY <1>2, <1>5, <1>6, <1>7, <1>8, <1>9, <1>10 DEF RIInv

LEMMA SourceDegradesRIInv ==
    ASSUME RIInv, NEW h \in Handle, SourceDegrades(h) PROVE RIInv'
<1>1. /\ UNCHANGED <<index, covers, by_handle, root_subs, subs, pending, next_sub, shared, plan, asked>>
      /\ UNCHANGED <<used, control, deferred_prunes, rescanned>>
      /\ UNCHANGED <<step, asked_cover, root, todo, closing, quarantined>>
      /\ raised' = raised \cup {h} /\ Tells({})
      /\ source[h].kept \notin {{}, {source[h].key}}
  BY DEF SourceDegrades, vars, maps, ovars
<1>2. IInv' /\ TypeOK
  BY <1>1, EngineStays DEF RIInv, vars, maps, IInv
<1>3. Channel /\ Channel' /\ NoMorePrunes
  BY <1>1, SamePrunes, Typed DEF RIInv, Channel
<1>4. /\ DOMAIN source' = DOMAIN source
      /\ \A g \in DOMAIN source : /\ source[g] \in [key : Key, kept : SUBSET Key]
                                  /\ source'[g] \in [key : Key, kept : SUBSET Key]
                                  /\ source'[g].key = source[g].key
                                  /\ g # h => source'[g] = source[g]
  BY DEF SourceDegrades, RIInv, RTypeOK
<1>5. GapsNoted' /\ AllServed'
  <2>1. ASSUME NEW s \in DOMAIN subs', Served(s) PROVE Served(s)' \/ Noted(subs[s].root)'
    BY <1>1, <1>4, <2>1 DEF Served, Noted
  <2>2. \A s \in DOMAIN subs' : Noted(subs[s].root) => Noted(subs[s].root)'
    BY <1>1, <1>4 DEF Noted, InHand
  <2> QED BY <1>1, <2>1, <2>2, GapsKept DEF Tells, RIInv
<1>6. RTypeOK' /\ RTyped'
  BY <1>1, <1>2, <1>3, <1>4, <1>5, Typed, TypedAgain DEF RIInv, IInv
<1>7. HandlesUsed' /\ RecordsProper' /\ PrunesSafe'
  BY <1>1, <1>3, UsedStays, RecordsStay DEF RIInv, HandlesUsed, maps
<1>8. StepSound'
  BY <1>1 DEF RIInv, StepSound
<1>9. AskedSound'
  BY <1>1, <1>4 DEF RIInv, AskedSound, cover_for, retained_cover_for, KeysOf, grown_cover
<1>10. SourceSound'
  <2>1. ~closing /\ h \in DOMAIN by_handle /\ ~Underway(h) =>
           index[by_handle[h]].cover # Full
    BY <1>1 DEF SourceDegrades, RIInv, SourceSound, Underway
  <2> QED BY <1>1, <1>4, <2>1 DEF RIInv, SourceSound, Underway
<1> QED BY <1>2, <1>5, <1>6, <1>7, <1>8, <1>9, <1>10 DEF RIInv

-----------------------------------------------------------------------------
(* The steps of the owner that leave the source and the tables alone.      *)

\* What is left to show of such a step: where the owner stands now, what the
\* cover asked for is worth, and that no root in hand is dropped.
LEMMA CalmRIInv ==
    ASSUME RIInv, IInv', StepSound', AskedSound',
           UNCHANGED maps, UNCHANGED <<source, used, raised>>, UNCHANGED hvars,
           Channel', NoMorePrunes,
           todo' \subseteq Handle, asked_cover' \subseteq Key, root' \in Handle \cup {NoHandle},
           closing' \in BOOLEAN, quarantined' \in BOOLEAN, closing => closing',
           \/ closing'
           \/ /\ {step, step'} \cap {"rollback", "record"} = {}
              /\ quarantined' = quarantined,
           \A h \in DOMAIN by_handle :
              InHand(h) => InHand(h)' \/ (closing' /\ h \in DOMAIN source)
    PROVE  RIInv'
<1>1. /\ UNCHANGED <<index, covers, by_handle, root_subs, subs>>
      /\ UNCHANGED <<source, used, raised, untold, rescanned>>
  BY DEF maps, hvars
<1>2. GapsNoted' /\ AllServed'
  <2>1. \A s \in DOMAIN subs' : Served(s) => Served(s)'
    BY <1>1 DEF Served
  <2>2. ASSUME NEW s \in DOMAIN subs, Noted(subs[s].root) PROVE Noted(subs[s].root)'
    <3>1. subs[s].root \in DOMAIN by_handle
      BY Member DEF RIInv
    <3>2. CASE InHand(subs[s].root)
      BY <1>1, <3>1, <3>2 DEF Noted
    <3>3. CASE subs[s].root \in raised \/ (closing /\ subs[s].root \in DOMAIN source)
      BY <1>1, <3>3 DEF Noted
    <3> QED BY <2>2, <3>2, <3>3 DEF Noted
  <2>3. untold' \subseteq (untold \cup {s \in DOMAIN subs' :
                                 ~Served(s)' /\ (s \in DOMAIN subs => Served(s))}) \ {}
    BY <1>1
  <2> QED BY <1>1, <2>1, <2>2, <2>3, GapsKept DEF RIInv
<1>3. RTypeOK' /\ RTyped'
  BY <1>1, <1>2, Typed, TypedAgain DEF RIInv, IInv
<1>4. HandlesUsed' /\ RecordsProper' /\ PrunesSafe'
  BY <1>1, UsedStays, RecordsStay DEF RIInv, HandlesUsed
<1>5. SourceSound'
  <2>1. CASE closing'
    BY <2>1 DEF SourceSound
  <2>2. CASE ~closing'
    <3>1. /\ ~closing /\ quarantined' = quarantined
          /\ step \notin {"rollback", "record"} /\ step' \notin {"rollback", "record"}
      BY <2>2
    <3> QED BY <1>1, <3>1 DEF RIInv, SourceSound, Underway
  <2> QED BY <2>1, <2>2
<1> QED BY <1>2, <1>3, <1>4, <1>5 DEF RIInv

\* And when nothing moves on its way to the source either.
LEMMA QuietRIInv ==
    ASSUME RIInv, IInv', StepSound', AskedSound',
           UNCHANGED maps, UNCHANGED svars, UNCHANGED hvars,
           todo' \subseteq Handle, asked_cover' \subseteq Key, root' \in Handle \cup {NoHandle},
           closing' \in BOOLEAN, quarantined' \in BOOLEAN, closing => closing',
           \/ closing'
           \/ /\ {step, step'} \cap {"rollback", "record"} = {}
              /\ quarantined' = quarantined,
           \A h \in DOMAIN by_handle :
              InHand(h) => InHand(h)' \/ (closing' /\ h \in DOMAIN source)
    PROVE  RIInv'
<1>1. UNCHANGED <<source, used, control, deferred_prunes, raised>>
  BY DEF svars
<1>2. Channel' /\ NoMorePrunes
  BY <1>1, SamePrunes, Typed DEF RIInv, Channel
<1> QED BY <1>1, <1>2, CalmRIInv

LEMMA RequestRIInv ==
    ASSUME RIInv, NEW key \in Key, NEW globs \in Words, Request(key, globs) PROVE RIInv'
<1>1. /\ step = "idle" /\ ~closing /\ ~quarantined
      /\ step' = "planned" /\ UNCHANGED <<asked_cover, root, todo, closing, quarantined>>
      /\ UNCHANGED svars /\ UNCHANGED hvars
  BY DEF Request, goes, same_question
<1>2. IInv' /\ UNCHANGED maps /\ plan'.phase = "planned"
  BY PlanCoveredIInv, PlanWidenIInv, PlanDisjointIInv
     DEF RIInv, Request, PlanCovered, PlanWiden, PlanDisjoint, Planned
<1>3. StepSound'
  BY <1>1, <1>2 DEF RIInv, StepSound
<1>4. AskedSound'
  <2>1. CASE PlanCovered(key, globs)
    <3> DEFINE r == AncestorRoot(key)
    <3>1. r \in DOMAIN index
      BY <2>1, AncestorRootSound DEF RIInv, IInv, PlanCovered, TypeOK
    <3>2. by_handle[index[r].handle] = r
      BY <3>1 DEF RIInv, IInv, Lockstep
    <3>3. /\ plan'.root = index[r].handle /\ plan'.sub = next_sub
          /\ plan'.outside = covered_outside(index[r], key) /\ pending'[next_sub] = key
      BY <2>1 DEF PlanCovered, Planned, reserve, Put
    <3> HIDE DEF r
    <3>4. plan'.outside = covered_outside(index[by_handle[plan'.root]], pending'[plan'.sub])
      BY <3>2, <3>3
    <3> QED BY <1>1, <1>2, <3>4 DEF AskedSound, maps, covered_outside
  <2>2. CASE PlanWiden(key, globs) \/ PlanDisjoint(key, globs)
    <3>1. plan'.kind # "covered"
      BY <2>2 DEF PlanWiden, PlanDisjoint, Planned
    <3> QED BY <1>1, <3>1 DEF AskedSound
  <2> QED BY <2>1, <2>2 DEF Request
<1>5. \A h : ~InHand(h)
  BY <1>1 DEF InHand
<1> QED BY <1>1, <1>2, <1>3, <1>4, <1>5, QuietRIInv, Typed DEF RIInv

LEMMA AbortKeeps ==
    ASSUME IInv, AbortWatch
    PROVE  IInv' /\ UNCHANGED maps /\ plan'.phase = "idle"
BY PlanOnlyIInv DEF AbortWatch, NoPlan

LEMMA CoveringRootDeadRIInv == ASSUME RIInv, CoveringRootDead PROVE RIInv'
<1>1. /\ step = "planned" /\ plan.kind = "covered" /\ plan.root \notin DOMAIN source
      /\ step' = "retire" /\ UNCHANGED <<todo, closing, quarantined>>
      /\ root' = plan.root /\ asked_cover' = {}
      /\ UNCHANGED svars /\ UNCHANGED hvars
  BY DEF CoveringRootDead, goes, asks, covering_root_dead
<1>2. IInv' /\ UNCHANGED maps /\ plan'.phase = "idle"
  BY AbortKeeps DEF CoveringRootDead, RIInv
<1>3. plan.root \in Handle
  BY <1>1 DEF RIInv, StepSound, IInv, PlanSound, TypeOK
<1>4. StepSound' /\ AskedSound'
  BY <1>1, <1>2 DEF RIInv, StepSound, AskedSound, svars
<1>5. \A h : ~InHand(h)
  BY <1>1 DEF InHand
<1> QED BY <1>1, <1>2, <1>3, <1>4, <1>5, QuietRIInv, Typed DEF RIInv

LEMMA ArmFailsRIInv == ASSUME RIInv, ArmFails PROVE RIInv'
<1>1. /\ step = "arming" /\ step' = "idle"
      /\ UNCHANGED <<asked_cover, root, todo, closing, quarantined>>
      /\ UNCHANGED svars /\ UNCHANGED hvars
  BY DEF ArmFails, goes, same_question
<1>2. IInv' /\ UNCHANGED maps /\ plan'.phase = "idle"
  BY AbortKeeps DEF ArmFails, RIInv
<1>3. StepSound' /\ AskedSound'
  BY <1>1, <1>2 DEF RIInv, StepSound, AskedSound
<1>4. \A h : ~InHand(h)
  BY <1>1 DEF InHand
<1> QED BY <1>1, <1>2, <1>3, <1>4, QuietRIInv, Typed DEF RIInv

LEMMA ReplaceRefusedRIInv == ASSUME RIInv, ReplaceRefused PROVE RIInv'
<1>1. /\ step = "replacing"
      /\ UNCHANGED <<asked_cover, root, todo, closing, quarantined>>
      /\ UNCHANGED svars /\ UNCHANGED hvars
      /\ \/ AbortWatch /\ step' = "idle"
         \/ UNCHANGED vars /\ step' = "release"
  BY DEF ReplaceRefused, goes, same_question
<1>2. IInv' /\ UNCHANGED maps
  <2>1. IInv'
    BY <1>1, AbortKeeps, EngineStays DEF RIInv
  <2>2. UNCHANGED vars => UNCHANGED maps
    BY DEF vars, maps
  <2> QED BY <1>1, <2>1, <2>2, AbortKeeps DEF RIInv
<1>3. StepSound' /\ AskedSound'
  <2>1. CASE AbortWatch /\ step' = "idle"
    BY <1>1, <2>1, AbortKeeps DEF RIInv, StepSound, AskedSound
  <2>2. CASE UNCHANGED vars /\ step' = "release"
    BY <1>1, <2>2 DEF RIInv, StepSound, AskedSound, vars
  <2> QED BY <1>1, <2>1, <2>2
<1>4. \A h : ~InHand(h)
  BY <1>1 DEF InHand
<1> QED BY <1>1, <1>2, <1>3, <1>4, QuietRIInv, Typed DEF RIInv

\* The plan a release or a replace holds names recorded roots.
LEMMA WidenNames ==
    ASSUME IInv, plan.phase = "planned", plan.kind = "widen"
    PROVE  plan.unwatch \subseteq DOMAIN by_handle /\ plan.unwatch \subseteq Handle
BY DEF IInv, PlanSound, TypeOK

LEMMA UnwindKeeps ==
    ASSUME IInv, Unwind
    PROVE  /\ IInv' /\ UNCHANGED maps /\ plan'.phase = "unwinding"
           /\ plan'.unwatch = plan.unwatch
           /\ plan.unwatch \subseteq DOMAIN by_handle /\ plan.unwatch \subseteq Handle
<1>1. plan \in Plans /\ plan.phase = "planned" /\ plan.kind = "widen"
  BY DEF IInv, TypeOK, Unwind
<1> QED BY <1>1, PlanOnlyIInv, WidenNames DEF Unwind, Plans

LEMMA WidenFailsRIInv == ASSUME RIInv, WidenFails PROVE RIInv'
<1>1. /\ step = "widening" /\ step' = "restoring" /\ todo' = plan.unwatch
      /\ UNCHANGED <<asked_cover, root, closing, quarantined>>
      /\ UNCHANGED svars /\ UNCHANGED hvars
  BY DEF WidenFails, same_question
<1>2. /\ IInv' /\ UNCHANGED maps /\ plan'.phase = "unwinding" /\ plan'.unwatch = plan.unwatch
      /\ plan.unwatch \subseteq DOMAIN by_handle /\ plan.unwatch \subseteq Handle
  BY UnwindKeeps DEF WidenFails, RIInv
<1>3. StepSound' /\ AskedSound'
  BY <1>1, <1>2 DEF RIInv, StepSound, AskedSound, svars, maps
<1>4. \A h : InHand(h) => InHand(h)'
  BY <1>1, <1>2 DEF InHand
<1> QED BY <1>1, <1>2, <1>3, <1>4, QuietRIInv, Typed DEF RIInv

LEMMA WidenAbortedRIInv == ASSUME RIInv, WidenAborted PROVE RIInv'
<1>1. /\ step \in {"restoring", "retiring"} /\ todo = {} /\ step' = "idle"
      /\ UNCHANGED <<asked_cover, root, todo, closing, quarantined>>
      /\ UNCHANGED svars /\ UNCHANGED hvars
  BY DEF WidenAborted, goes, same_question
<1>2. IInv' /\ UNCHANGED maps /\ plan'.phase = "idle"
  BY AbortKeeps DEF WidenAborted, RIInv
<1>3. StepSound' /\ AskedSound'
  BY <1>1, <1>2 DEF RIInv, StepSound, AskedSound
<1>4. \A h : ~InHand(h)
  BY <1>1 DEF InHand
<1> QED BY <1>1, <1>2, <1>3, <1>4, QuietRIInv, Typed DEF RIInv

LEMMA CloseWinsRIInv == ASSUME RIInv, CloseWins PROVE RIInv'
<1>1. /\ step \in {"growing", "arming", "replacing", "rollback"} /\ step' = "idle"
      /\ closing' = TRUE
      /\ UNCHANGED <<asked_cover, root, todo, quarantined>>
      /\ UNCHANGED svars /\ UNCHANGED hvars
  BY DEF CloseWins, Awaiting, same_question
<1>2. IInv' /\ UNCHANGED maps /\ plan'.phase = "idle"
  BY AbortKeeps DEF CloseWins, RIInv
<1>3. StepSound' /\ AskedSound'
  BY <1>1, <1>2 DEF RIInv, StepSound, AskedSound
<1>4. \A h : InHand(h) => h \in DOMAIN source
  BY <1>1 DEF InHand
<1> QED BY <1>1, <1>2, <1>3, <1>4, QuietRIInv, Typed DEF RIInv

LEMMA CloseWinsWidenRIInv == ASSUME RIInv, CloseWinsWiden PROVE RIInv'
<1>1. /\ step = "widening" /\ step' = "retiring" /\ todo' = plan.unwatch /\ closing' = TRUE
      /\ UNCHANGED <<asked_cover, root, quarantined>>
      /\ UNCHANGED svars /\ UNCHANGED hvars
  BY DEF CloseWinsWiden, same_question
<1>2. /\ IInv' /\ UNCHANGED maps /\ plan'.phase = "unwinding" /\ plan'.unwatch = plan.unwatch
      /\ plan.unwatch \subseteq DOMAIN by_handle /\ plan.unwatch \subseteq Handle
  BY UnwindKeeps DEF CloseWinsWiden, RIInv
<1>3. StepSound' /\ AskedSound'
  BY <1>1, <1>2 DEF RIInv, StepSound, AskedSound, maps
<1>4. \A h : InHand(h) => InHand(h)'
  BY <1>1, <1>2 DEF InHand
<1> QED BY <1>1, <1>2, <1>3, <1>4, QuietRIInv, Typed DEF RIInv

LEMMA CloseWinsRestoreRIInv == ASSUME RIInv, CloseWinsRestore PROVE RIInv'
<1>1. /\ step = "restoring" /\ step' = "retiring" /\ closing' = TRUE
      /\ todo' = plan.unwatch \cap DOMAIN by_handle
      /\ UNCHANGED <<asked_cover, root, quarantined>>
      /\ UNCHANGED vars /\ UNCHANGED svars /\ UNCHANGED hvars
  BY DEF CloseWinsRestore, same_question
<1>2. /\ IInv' /\ UNCHANGED maps /\ UNCHANGED plan
      /\ DOMAIN by_handle \subseteq Handle
  <2>1. IInv'
    BY <1>1, EngineStays DEF RIInv
  <2>2. UNCHANGED maps /\ UNCHANGED plan
    BY <1>1 DEF vars, maps
  <2> QED BY <2>1, <2>2 DEF RIInv, IInv, TypeOK
<1>3. StepSound' /\ AskedSound'
  BY <1>1, <1>2 DEF RIInv, StepSound, AskedSound, maps
<1>4. todo \subseteq todo'
  BY <1>1 DEF RIInv, StepSound
<1>5. \A h : InHand(h) => InHand(h)'
  BY <1>1, <1>4 DEF InHand
<1> QED BY <1>1, <1>2, <1>3, <1>5, QuietRIInv, Typed DEF RIInv

LEMMA CloseIdleRIInv == ASSUME RIInv, CloseIdle PROVE RIInv'
<1>1. /\ step = "idle" /\ closing' = TRUE
      /\ UNCHANGED <<step, asked_cover, root, todo, quarantined>>
      /\ UNCHANGED vars /\ UNCHANGED svars /\ UNCHANGED hvars
  BY DEF CloseIdle
<1>2. IInv' /\ UNCHANGED maps /\ UNCHANGED plan
  <2>1. IInv'
    BY <1>1, EngineStays DEF RIInv
  <2> QED BY <1>1, <2>1 DEF vars, maps
<1>3. StepSound' /\ AskedSound'
  BY <1>1, <1>2 DEF RIInv, StepSound, AskedSound
<1>4. \A h : ~InHand(h)
  BY <1>1 DEF InHand
<1> QED BY <1>1, <1>2, <1>3, <1>4, QuietRIInv, Typed DEF RIInv

LEMMA TeardownRIInv == ASSUME RIInv, Teardown PROVE RIInv'
<1>1. /\ step = "idle" /\ closing
      /\ UNCHANGED <<step, asked_cover, root, todo, closing, quarantined>>
      /\ UNCHANGED svars /\ UNCHANGED hvars
  BY DEF Teardown, ovars
<1>2. IInv' /\ UNCHANGED maps /\ plan'.phase = "closed"
  BY PlanOnlyIInv DEF Teardown, SwapInEmpty, NoPlan, RIInv
<1>3. StepSound' /\ AskedSound'
  BY <1>1, <1>2 DEF RIInv, StepSound, AskedSound
<1>4. \A h : ~InHand(h)
  BY <1>1 DEF InHand
<1> QED BY <1>1, <1>2, <1>3, <1>4, QuietRIInv, Typed DEF RIInv

-----------------------------------------------------------------------------
(* The steps of the owner at the source, before the tables change.         *)

LEMMA BeginGrowRIInv == ASSUME RIInv, BeginGrow PROVE RIInv'
<1>1. /\ step = "planned" /\ plan.kind = "covered" /\ plan.outside /\ step' = "growing"
      /\ root' = plan.root /\ asked_cover' = cover_for(plan.root, {pending[plan.sub]})
      /\ UNCHANGED <<todo, closing, quarantined>>
      /\ UNCHANGED vars /\ UNCHANGED <<source, used, raised>> /\ UNCHANGED hvars
  BY DEF BeginGrow, goes, asks
<1>2. /\ Channel' /\ NoMorePrunes
      /\ DOMAIN deferred_prunes' \subseteq DOMAIN deferred_prunes \ {plan.root}
  BY FlushSound, Typed DEF BeginGrow, RIInv
<1>3. UNCHANGED maps /\ UNCHANGED <<index, by_handle, root_subs, subs, pending, plan>>
  BY <1>1 DEF vars, maps
<1>4. IInv'
  BY <1>1, EngineStays DEF RIInv
<1>5. /\ plan.root \in DOMAIN by_handle /\ plan.root \in Handle
      /\ pending[plan.sub] \in Key
      /\ StartsWith(pending[plan.sub], by_handle[plan.root])
  BY <1>1 DEF RIInv, StepSound, IInv, PlanSound, TypeOK, ReservationsMatchPlan
<1>6. asked_cover' \in SUBSET Key
  BY <1>1, <1>5, CoverForSound DEF RIInv
<1>7. StepSound'
  BY <1>1, <1>3 DEF RIInv, StepSound
<1>8. AskedSound'
  <2>1. asked_cover' = cover_for(root, {pending[plan.sub]})'
    BY <1>1, <1>3 DEF cover_for, retained_cover_for, KeysOf
  <2>2. plan.outside = covered_outside(index[by_handle[plan.root]], pending[plan.sub])
    BY <1>1 DEF RIInv, AskedSound
  <2>3. root' \notin DOMAIN deferred_prunes'
    BY <1>1, <1>2
  <2> QED BY <1>1, <1>3, <2>1, <2>2, <2>3 DEF AskedSound, covered_outside
<1>9. \A h : ~InHand(h)
  BY <1>1 DEF InHand
<1> QED
  BY <1>1, <1>2, <1>3, <1>4, <1>5, <1>6, <1>7, <1>8, <1>9, CalmRIInv, Typed DEF RIInv

LEMMA BeginArmRIInv == ASSUME RIInv, BeginArm PROVE RIInv'
<1>1. /\ step = "planned" /\ plan.kind = "disjoint" /\ step' = "arming"
      /\ UNCHANGED <<asked_cover, root, todo, closing, quarantined>>
      /\ UNCHANGED vars /\ UNCHANGED <<source, used, raised>> /\ UNCHANGED hvars
  BY DEF BeginArm, goes, same_question
<1>2. Channel' /\ NoMorePrunes
  BY FlushSound, Typed DEF BeginArm, RIInv
<1>3. UNCHANGED maps /\ UNCHANGED plan
  BY <1>1 DEF vars, maps
<1>4. IInv'
  BY <1>1, EngineStays DEF RIInv
<1>5. StepSound' /\ AskedSound'
  BY <1>1, <1>3 DEF RIInv, StepSound, AskedSound
<1>6. \A h : ~InHand(h)
  BY <1>1 DEF InHand
<1> QED BY <1>1, <1>2, <1>3, <1>4, <1>5, <1>6, CalmRIInv, Typed DEF RIInv

LEMMA BeginReplaceRIInv == ASSUME RIInv, NEW h \in Handle, BeginReplace(h) PROVE RIInv'
<1>1. /\ step = "planned" /\ plan.kind = "widen" /\ plan.unwatch = {h} /\ step' = "replacing"
      /\ root' = h /\ asked_cover' = {}
      /\ UNCHANGED <<todo, closing, quarantined>>
      /\ UNCHANGED vars /\ UNCHANGED <<source, used, raised>> /\ UNCHANGED hvars
  BY DEF BeginReplace, InPlace, goes, asks
<1>2. /\ Channel' /\ NoMorePrunes
      /\ DOMAIN deferred_prunes' \subseteq DOMAIN deferred_prunes \ {h}
  BY FlushSound, Typed DEF BeginReplace, superseded_by_replace, RIInv
<1>3. UNCHANGED maps /\ UNCHANGED plan
  BY <1>1 DEF vars, maps
<1>4. IInv'
  BY <1>1, EngineStays DEF RIInv
<1>5. StepSound' /\ AskedSound'
  BY <1>1, <1>2, <1>3 DEF RIInv, StepSound, AskedSound
<1>6. \A g : ~InHand(g)
  BY <1>1 DEF InHand
<1> QED BY <1>1, <1>2, <1>3, <1>4, <1>5, <1>6, CalmRIInv, Typed DEF RIInv

\* A root held anew, and the others as they were.
LEMMA HeldAnew ==
    ASSUME NEW h, NEW key, source' = Held(h, key)
    PROVE  /\ DOMAIN source' = DOMAIN source \cup {h}
           /\ source'[h] = [key |-> key, kept |-> {key}]
           /\ \A g \in DOMAIN source : g # h => source'[g] = source[g]
BY DEF Held, Put

LEMMA ReplacedAstrayRIInv ==
    ASSUME RIInv, NEW key \in Key, ReplacedAstray(key) PROVE RIInv'
<1>1. /\ step = "replacing" /\ step' = "rollback" /\ control = <<>> /\ root \in DOMAIN source
      /\ UNCHANGED <<asked_cover, root, todo, closing, quarantined>>
      /\ UNCHANGED <<used, control, deferred_prunes, raised, rescanned>>
      /\ UNCHANGED <<index, covers, by_handle, root_subs, subs, pending, next_sub, shared, plan, asked>>
      /\ Tells({})
  BY DEF ReplacedAstray, goes, same_question, vars, maps
<1>2. /\ DOMAIN source' = DOMAIN source
      /\ source'[root] = [key |-> key, kept |-> {key}]
      /\ \A g \in DOMAIN source : g # root => source'[g] = source[g]
  BY <1>1, HeldAnew DEF ReplacedAstray
<1>3. IInv' /\ TypeOK
  BY <1>1, EngineStays DEF RIInv, vars, maps, IInv
<1>4. Channel /\ Channel' /\ NoMorePrunes
  BY <1>1, SamePrunes, Typed DEF RIInv, Channel
<1>5. GapsNoted' /\ AllServed'
  <2>1. ASSUME NEW s \in DOMAIN subs', Served(s) PROVE Served(s)' \/ Noted(subs[s].root)'
    BY <1>1, <1>2, <2>1 DEF Served, Noted, InHand
  <2>2. \A s \in DOMAIN subs' : Noted(subs[s].root) => Noted(subs[s].root)'
    BY <1>1, <1>2 DEF Noted, InHand
  <2> QED BY <1>1, <2>1, <2>2, GapsKept DEF Tells, RIInv
<1>6. RTypeOK' /\ RTyped'
  BY <1>1, <1>2, <1>3, <1>4, <1>5, Typed, TypedAgain DEF RIInv, IInv
<1>7. HandlesUsed' /\ RecordsProper' /\ PrunesSafe'
  BY <1>1, <1>4, UsedStays, RecordsStay DEF RIInv, HandlesUsed, maps
<1>8. StepSound' /\ AskedSound'
  BY <1>1 DEF RIInv, StepSound, AskedSound
<1>9. SourceSound'
  BY <1>1, <1>2 DEF RIInv, SourceSound, Underway
<1> QED BY <1>3, <1>5, <1>6, <1>7, <1>8, <1>9 DEF RIInv

LEMMA ReleaseRIInv == ASSUME RIInv, Release PROVE RIInv'
<1>1. /\ step \in {"release", "planned"} /\ plan.kind = "widen" /\ step' = "widening"
      /\ UNCHANGED <<asked_cover, root, todo, closing, quarantined>>
      /\ UNCHANGED <<used, raised, rescanned>>
      /\ UNCHANGED <<index, covers, by_handle, root_subs, subs, pending, next_sub, shared, plan, asked>>
      /\ Tells({})
  BY DEF Release, goes, same_question, vars, maps, RIInv, StepSound
<1>2. /\ DOMAIN source' = DOMAIN source \ plan.unwatch
      /\ \A g \in DOMAIN source' : source'[g] = source[g]
  BY DEF Release, disarm, Drop
<1>3. IInv' /\ TypeOK
  BY <1>1, EngineStays DEF RIInv, vars, maps, IInv
<1>4. Channel' /\ NoMorePrunes
  BY FlushSound, Typed DEF Release, RIInv
<1>5. ~closing
  BY <1>1 DEF RIInv, StepSound
<1>6. GapsNoted' /\ AllServed'
  <2>1. ASSUME NEW s \in DOMAIN subs', Served(s) PROVE Served(s)' \/ Noted(subs[s].root)'
    BY <1>1, <1>2, <2>1 DEF Served, Noted, InHand
  <2>2. \A s \in DOMAIN subs' : Noted(subs[s].root) => Noted(subs[s].root)'
    BY <1>1, <1>5 DEF Noted, InHand
  <2> QED BY <1>1, <2>1, <2>2, GapsKept DEF Tells, RIInv
<1>7. RTypeOK' /\ RTyped'
  BY <1>1, <1>2, <1>3, <1>4, <1>6, Typed, TypedAgain DEF RIInv, IInv
<1>8. HandlesUsed' /\ RecordsProper' /\ PrunesSafe'
  BY <1>1, <1>4, UsedStays, RecordsStay DEF RIInv, HandlesUsed, maps
<1>9. StepSound' /\ AskedSound'
  BY <1>1, <1>2 DEF RIInv, StepSound, AskedSound
<1>10. SourceSound'
  BY <1>1, <1>2 DEF RIInv, SourceSound, Underway
<1> QED BY <1>3, <1>6, <1>7, <1>8, <1>9, <1>10 DEF RIInv

-----------------------------------------------------------------------------
(* Joining a root.                                                         *)

LEMMA CommitCoveredIs ==
    ASSUME IInv, CommitCovered
    PROVE  /\ plan.sub \notin DOMAIN subs /\ pending[plan.sub] \in Key
           /\ plan.root \in DOMAIN by_handle
           /\ StartsWith(pending[plan.sub], by_handle[plan.root])
           /\ index' = index /\ by_handle' = by_handle
           /\ root_subs'[plan.root] = root_subs[plan.root] \cup {plan.sub}
           /\ \A h \in DOMAIN by_handle : h # plan.root => root_subs'[h] = root_subs[h]
           /\ DOMAIN subs' = DOMAIN subs \cup {plan.sub}
           /\ subs'[plan.sub] = [root |-> plan.root, key |-> pending[plan.sub]]
           /\ \A s \in DOMAIN subs : subs'[s] = subs[s]
           /\ plan'.phase = "idle"
<1>1. /\ plan.sub \notin DOMAIN subs /\ pending[plan.sub] \in Key
      /\ plan.root \in DOMAIN by_handle /\ plan.root \in DOMAIN root_subs
      /\ StartsWith(pending[plan.sub], by_handle[plan.root])
  BY DEF CommitCovered, IInv, PlanSound, TypeOK, ReservationsMatchPlan, Lockstep
<1> QED BY <1>1 DEF CommitCovered, Settle, NoPlan, Put, IInv, Lockstep

LEMMA JoinsRIInv == ASSUME RIInv, Joins PROVE RIInv'
<1> DEFINE h == plan.root
           sub == plan.sub
           key == pending[sub]
<1>1. /\ step = "planned" /\ plan.kind = "covered" /\ h \in DOMAIN source /\ ~plan.outside
      /\ step' = "idle" /\ UNCHANGED <<asked_cover, root, todo, closing, quarantined>>
      /\ UNCHANGED <<source, used, control, deferred_prunes, raised, untold, rescanned>>
  BY DEF Joins, covering_root_dead, goes, same_question, svars, hvars
<1>2. /\ sub \notin DOMAIN subs /\ key \in Key /\ h \in DOMAIN by_handle
      /\ StartsWith(key, by_handle[h])
      /\ index' = index /\ by_handle' = by_handle
      /\ root_subs'[h] = root_subs[h] \cup {sub}
      /\ \A g \in DOMAIN by_handle : g # h => root_subs'[g] = root_subs[g]
      /\ DOMAIN subs' = DOMAIN subs \cup {sub}
      /\ subs'[sub] = [root |-> h, key |-> key]
      /\ \A s \in DOMAIN subs : subs'[s] = subs[s]
      /\ plan'.phase = "idle"
  BY CommitCoveredIs DEF Joins, RIInv
<1>3. IInv'
  BY CommitCoveredIInv DEF Joins, RIInv
<1>4. ~closing /\ ~covered_outside(index[by_handle[h]], key)
  BY <1>1 DEF RIInv, StepSound, AskedSound
<1> HIDE DEF h, sub, key
<1>5. Channel /\ Channel' /\ NoMorePrunes /\ \A g : OnTheirWay(g)' = OnTheirWay(g)
  BY <1>1, SamePrunes, Typed DEF RIInv, Channel
<1>6. GapsNoted' /\ AllServed'
  <2>1. ASSUME NEW s \in DOMAIN subs PROVE Served(s) <=> Served(s)'
    BY <1>1, <1>2 DEF Served
  <2>2. ASSUME NEW s \in DOMAIN subs, Noted(subs[s].root) PROVE Noted(subs[s].root)'
    BY <1>1, <1>2, <2>2 DEF Noted, InHand
  <2>3. ASSUME NEW s \in DOMAIN subs', s \notin DOMAIN subs
        PROVE  Served(s)' \/ Noted(subs[s].root)'
    <3>1. h \in raised \/ CoveredBy(key, source[h].kept)
      BY <1>1, <1>2, <1>4, ClaimServes DEF RIInv, Underway
    <3> QED BY <1>1, <1>2, <2>3, <3>1 DEF Served, Noted
  <2>4. untold' \subseteq (untold \cup {s \in DOMAIN subs' :
                                 ~Served(s)' /\ (s \in DOMAIN subs => Served(s))}) \ {}
    BY <1>1
  <2> QED BY <1>1, <1>2, <2>1, <2>2, <2>3, <2>4, GapsKept DEF RIInv
<1>7. RTypeOK' /\ RTyped'
  BY <1>1, <1>3, <1>5, <1>6, Typed, TypedAgain DEF RIInv, IInv
<1>8. HandlesUsed' /\ RecordsProper'
  BY <1>1, <1>2, <1>5, UsedStays DEF RIInv, HandlesUsed, RecordsProper
<1>9. PrunesSafe'
  <2> SUFFICES ASSUME NEW g \in DOMAIN by_handle, NEW cover \in OnTheirWay(g)
               PROVE  /\ index[by_handle[g]].cover # Full
                      /\ \A k \in Descendants(Key, by_handle[g]) :
                            ~covered_outside(index[by_handle[g]], k) => CoveredBy(k, cover)
                      /\ \A s \in root_subs'[g] : CoveredBy(subs'[s].key, cover)
    BY <1>2, <1>5 DEF PrunesSafe
  <2>1. /\ index[by_handle[g]].cover # Full
        /\ \A k \in Descendants(Key, by_handle[g]) :
              ~covered_outside(index[by_handle[g]], k) => CoveredBy(k, cover)
        /\ \A s \in root_subs[g] : CoveredBy(subs[s].key, cover)
    BY DEF RIInv, PrunesSafe
  <2>2. \A s \in root_subs[g] : s \in DOMAIN subs
    BY Cohort DEF RIInv
  <2>3. g = h => CoveredBy(key, cover)
    BY <1>2, <1>4, <2>1 DEF Descendants
  <2> QED BY <1>2, <2>1, <2>2, <2>3
<1>10. StepSound' /\ AskedSound'
  BY <1>1, <1>2 DEF RIInv, StepSound, AskedSound
<1>11. SourceSound'
  BY <1>1, <1>2 DEF RIInv, SourceSound, Underway
<1> QED BY <1>3, <1>6, <1>7, <1>8, <1>9, <1>10, <1>11 DEF RIInv

LEMMA GrowAppliedRIInv == ASSUME RIInv, GrowApplied PROVE RIInv'
<1> DEFINE sub == plan.sub
           key == pending[sub]
<1>1. /\ step = "growing" /\ control = <<>> /\ root \in DOMAIN source
      /\ step' = "record" /\ UNCHANGED <<asked_cover, root, todo, closing, quarantined>>
      /\ UNCHANGED <<used, control, deferred_prunes, raised, rescanned>>
      /\ Tells({})
  BY DEF GrowApplied, goes, same_question
<1>2. /\ root = plan.root /\ plan.kind = "covered" /\ plan.outside
      /\ asked_cover = cover_for(root, {key})
      /\ plan.outside = covered_outside(index[by_handle[root]], key)
      /\ root \notin DOMAIN deferred_prunes
  BY <1>1 DEF RIInv, StepSound, AskedSound
<1>3. /\ sub \notin DOMAIN subs /\ key \in Key /\ root \in DOMAIN by_handle
      /\ StartsWith(key, by_handle[root])
      /\ index' = index /\ by_handle' = by_handle
      /\ root_subs'[root] = root_subs[root] \cup {sub}
      /\ \A g \in DOMAIN by_handle : g # root => root_subs'[g] = root_subs[g]
      /\ DOMAIN subs' = DOMAIN subs \cup {sub}
      /\ subs'[sub] = [root |-> root, key |-> key]
      /\ \A s \in DOMAIN subs : subs'[s] = subs[s]
      /\ plan'.phase = "idle"
  BY <1>2, CommitCoveredIs DEF GrowApplied, RIInv
<1>4. IInv'
  BY CommitCoveredIInv DEF GrowApplied, RIInv
<1>5. /\ asked_cover \in SUBSET Key
      /\ \A k \in KeysOf(root_subs[root]) \cup {key} : CoveredBy(k, asked_cover)
      /\ retained_cover_for(root, {key}) =
            IF asked_cover = {by_handle[root]} THEN Full ELSE asked_cover
  <2>1. {key} \in SUBSET Key /\ \A n \in {key} : StartsWith(n, by_handle[root])
    BY <1>3
  <2> HIDE DEF key
  <2> QED BY ZenonT(40), <1>2, <1>3, <2>1, CoverForSound DEF RIInv
<1>6. /\ DOMAIN source' = DOMAIN source
      /\ \A g \in DOMAIN source : /\ source'[g] \in [key : Key, kept : SUBSET Key]
                                  /\ source'[g].key = source[g].key
                                  /\ g # root => source'[g] = source[g]
      /\ source'[root].kept = asked_cover
  BY <1>1, <1>5 DEF GrowApplied, Covers, RIInv, RTypeOK
<1> HIDE DEF sub, key
<1>7. Channel /\ Channel' /\ NoMorePrunes /\ \A g : OnTheirWay(g)' = OnTheirWay(g)
  BY <1>1, SamePrunes, Typed DEF RIInv, Channel
<1>8. GapsNoted' /\ AllServed'
  <2>1. ASSUME NEW s \in DOMAIN subs, Served(s) PROVE Served(s)'
    <3>1. CASE subs[s].root = root
      <4>1. subs[s].key \in KeysOf(root_subs[root])
        BY <3>1, Member DEF KeysOf, RIInv
      <4> QED BY <1>1, <1>3, <1>5, <1>6, <3>1, <4>1 DEF Served
    <3>2. CASE subs[s].root # root
      BY <1>3, <1>6, <2>1, <3>2 DEF Served
    <3> QED BY <3>1, <3>2
  <2>2. ASSUME NEW s \in DOMAIN subs, Noted(subs[s].root) PROVE Noted(subs[s].root)'
    BY <1>1, <1>3, <1>6, <2>2 DEF Noted, InHand
  <2>3. ASSUME NEW s \in DOMAIN subs', s \notin DOMAIN subs PROVE Served(s)'
    BY <1>1, <1>3, <1>5, <1>6, <2>3 DEF Served
  <2> QED BY <1>1, <1>3, <2>1, <2>2, <2>3, GapsKept DEF RIInv, Tells
<1>9. RTypeOK' /\ RTyped'
  BY <1>1, <1>4, <1>6, <1>7, <1>8, Typed, TypedAgain DEF RIInv, IInv
<1>10. HandlesUsed' /\ RecordsProper'
  BY <1>1, <1>3, <1>7, UsedStays DEF RIInv, HandlesUsed, RecordsProper
<1>11. PrunesSafe'
  <2>1. \A g : g = root => OnTheirWay(g)' = {}
    <3>1. OnTheirWay(root) = {}
      BY <1>1, <1>2, NothingOnItsWay
    <3> QED BY <1>7, <3>1
  <2>2. \A g \in DOMAIN by_handle : \A s \in root_subs[g] : s \in DOMAIN subs
    BY Cohort DEF RIInv
  <2>3. DOMAIN by_handle \subseteq Handle
    BY DEF RIInv, IInv, TypeOK
  <2>4. ASSUME NEW g \in DOMAIN by_handle', g # root
        PROVE  /\ g \in DOMAIN by_handle /\ by_handle'[g] = by_handle[g]
               /\ OnTheirWay(g)' \subseteq OnTheirWay(g)
               /\ index'[by_handle[g]].cover = index[by_handle[g]].cover
               /\ \A s \in root_subs'[g] : s \in root_subs[g] /\ subs'[s].key = subs[s].key
    BY <1>3, <1>7, <2>2, <2>4
  <2> QED BY <1>3, <2>1, <2>3, <2>4, PrunesFrame DEF RIInv
<1>12. StepSound'
  BY <1>1, <1>3 DEF RIInv, StepSound
<1>13. AskedSound'
  <2>1. KeysOf(root_subs[root])' = KeysOf(root_subs[root]) \cup {key}
    <3>1. \A s \in root_subs[root] : s \in DOMAIN subs
      BY <1>3, Cohort DEF RIInv
    <3> QED BY <1>1, <1>3, <3>1 DEF KeysOf
  <2>2. retained_cover_for(root, {})' = retained_cover_for(root, {key})
    BY <1>1, <1>3, <2>1 DEF retained_cover_for
  <2>3. grown_cover' = retained_cover_for(root, {})'
    BY <1>1, <1>3, <1>5, <2>2 DEF grown_cover
  <2>4. index[by_handle[root]].cover # Full
    BY <1>2 DEF covered_outside
  <2> QED BY <1>1, <1>2, <1>3, <2>3, <2>4 DEF AskedSound
<1>14. SourceSound'
  BY <1>1, <1>3, <1>6 DEF RIInv, SourceSound, Underway
<1> QED BY <1>4, <1>8, <1>9, <1>10, <1>11, <1>12, <1>13, <1>14 DEF RIInv

LEMMA GrowFailsRIInv == ASSUME RIInv, GrowFails PROVE RIInv'
<1>1. /\ step = "growing"
      /\ step' = "idle" /\ UNCHANGED <<asked_cover, root, todo, closing, quarantined>>
      /\ UNCHANGED <<used, control, deferred_prunes, rescanned>>
      /\ Tells({})
  BY DEF GrowFails, goes, same_question
<1>2. IInv' /\ UNCHANGED <<index, by_handle, root_subs, subs>> /\ UNCHANGED maps /\ plan'.phase = "idle"
  BY AbortKeeps DEF GrowFails, RIInv, maps
<1>3. /\ DOMAIN source' = DOMAIN source /\ raised' \in {raised, raised \cup {root}}
      /\ \A g \in DOMAIN source : /\ source'[g] \in [key : Key, kept : SUBSET Key]
                                  /\ source'[g].key = source[g].key
                                  /\ g # root \/ g \notin raised' => source'[g] = source[g]
      /\ source' = source \/ root \in raised'
  <2>1. CASE UNCHANGED <<source, raised>>
    BY <2>1 DEF RIInv, RTypeOK
  <2>2. CASE /\ root \in DOMAIN source /\ raised' = raised \cup {root}
             /\ source' = [source EXCEPT ![root].kept = {}]
    BY <2>2 DEF RIInv, RTypeOK
  <2> QED BY <2>1, <2>2 DEF GrowFails
<1>4. /\ root = plan.root /\ root \in DOMAIN by_handle /\ root \in Handle /\ ~closing
      /\ index[by_handle[root]].cover # Full
  BY <1>1 DEF RIInv, StepSound, AskedSound, IInv, PlanSound, TypeOK, covered_outside
<1>5. Channel /\ Channel' /\ NoMorePrunes
  BY <1>1, SamePrunes, Typed DEF RIInv, Channel
<1>6. GapsNoted' /\ AllServed'
  <2>1. ASSUME NEW s \in DOMAIN subs', Served(s) PROVE Served(s)' \/ Noted(subs[s].root)'
    BY <1>2, <1>3, <2>1 DEF Served, Noted
  <2>2. \A s \in DOMAIN subs' : Noted(subs[s].root) => Noted(subs[s].root)'
    BY <1>1, <1>2, <1>3 DEF Noted, InHand
  <2> QED BY <1>1, <1>2, <2>1, <2>2, GapsKept DEF Tells, RIInv
<1>7. RTypeOK' /\ RTyped'
  <2>1. raised' \subseteq Handle
    BY <1>3, <1>4 DEF RIInv, RTypeOK
  <2> QED BY <1>1, <1>2, <1>3, <1>5, <1>6, <2>1, Typed, TypedAgain DEF RIInv, IInv
<1>8. HandlesUsed' /\ RecordsProper' /\ PrunesSafe'
  BY <1>1, <1>2, <1>5, UsedStays, RecordsStay DEF RIInv, HandlesUsed
<1>9. StepSound' /\ AskedSound'
  BY <1>1, <1>2 DEF RIInv, StepSound, AskedSound
<1>10. SourceSound'
  BY <1>1, <1>2, <1>3, <1>4 DEF RIInv, SourceSound, Underway
<1> QED BY <1>2, <1>6, <1>7, <1>8, <1>9, <1>10 DEF RIInv

-----------------------------------------------------------------------------
(* What is recorded of a root.                                             *)

LEMMA SetCoverIs ==
    ASSUME IInv, idle, NEW h \in DOMAIN by_handle, NEW cover \in Cover, SetCover(h, cover)
    PROVE  /\ IInv'
           /\ UNCHANGED <<by_handle, root_subs, subs, plan, pending>>
           /\ DOMAIN index' = DOMAIN index /\ by_handle[h] \in DOMAIN index
           /\ index'[by_handle[h]].cover = cover
           /\ \A k \in DOMAIN index : k # by_handle[h] => index'[k] = index[k]
           /\ \A g \in DOMAIN by_handle : g # h =>
                 by_handle[g] # by_handle[h] /\ index'[by_handle[g]] = index[by_handle[g]]
<1>1. IInv'
  BY SetCoverIInv
<1>2. /\ UNCHANGED <<by_handle, root_subs, subs, plan, pending>>
      /\ index' = [index EXCEPT ![by_handle[h]].cover = cover]
  BY DEF SetCover
<1>3. \A g \in DOMAIN by_handle : by_handle[g] \in DOMAIN index /\ index[by_handle[g]].handle = g
  BY DEF IInv, Lockstep
<1>4. index[by_handle[h]] \in RootRecord
  BY <1>3 DEF IInv, TypeOK
<1> QED BY <1>1, <1>2, <1>3, <1>4 DEF RootRecord

LEMMA RecordGrownRIInv == ASSUME RIInv, RecordGrown PROVE RIInv'
<1>1. /\ step = "record" /\ step' = "idle"
      /\ UNCHANGED <<asked_cover, root, todo, closing, quarantined>>
      /\ UNCHANGED <<source, used, control, deferred_prunes, raised, untold, rescanned>>
      /\ idle /\ root \in DOMAIN by_handle /\ SetCover(root, grown_cover)
  BY DEF RecordGrown, goes, same_question, svars, hvars, SetRetainedCover
<1>2. /\ control = <<>> /\ root \notin DOMAIN deferred_prunes /\ ~closing
      /\ grown_cover = retained_cover_for(root, {})
  BY <1>1 DEF RIInv, AskedSound, StepSound
<1>3. /\ grown_cover \in Cover
      /\ grown_cover # Full => ~CoveredBy(by_handle[root], grown_cover)
      /\ by_handle[root] \in Key
  BY <1>1, <1>2, RetainedSound, Cohort DEF RIInv
<1>4. /\ IInv'
      /\ UNCHANGED <<by_handle, root_subs, subs, plan, pending>>
      /\ DOMAIN index' = DOMAIN index /\ by_handle[root] \in DOMAIN index
      /\ index'[by_handle[root]].cover = grown_cover
      /\ \A k \in DOMAIN index : k # by_handle[root] => index'[k] = index[k]
      /\ \A g \in DOMAIN by_handle : g # root => index'[by_handle[g]] = index[by_handle[g]]
  BY <1>1, <1>3, SetCoverIs DEF RIInv
<1>5. Channel /\ Channel' /\ NoMorePrunes /\ \A g : OnTheirWay(g)' = OnTheirWay(g)
  BY <1>1, SamePrunes, Typed DEF RIInv, Channel
<1>6. GapsNoted' /\ AllServed'
  <2>1. \A s \in DOMAIN subs : Served(s) <=> Served(s)'
    BY <1>1, <1>4 DEF Served
  <2>2. \A s \in DOMAIN subs : Noted(subs[s].root) => Noted(subs[s].root)'
    BY <1>1, <1>4 DEF Noted, InHand
  <2>3. untold' \subseteq (untold \cup {s \in DOMAIN subs' :
                                 ~Served(s)' /\ (s \in DOMAIN subs => Served(s))}) \ {}
    BY <1>1
  <2> QED BY <1>1, <1>4, <2>1, <2>2, <2>3, GapsKept DEF RIInv
<1>7. RTypeOK' /\ RTyped'
  BY <1>1, <1>4, <1>5, <1>6, Typed, TypedAgain DEF RIInv, IInv
<1>8. HandlesUsed'
  BY <1>1, <1>4, <1>5, UsedStays DEF RIInv, HandlesUsed
<1>9. RecordsProper'
  BY <1>3, <1>4 DEF RIInv, RecordsProper
<1>10. PrunesSafe'
  <2>1. \A g : g = root => OnTheirWay(g)' = {}
    <3>1. OnTheirWay(root) = {}
      BY <1>2, NothingOnItsWay
    <3> QED BY <1>5, <3>1
  <2>2. ASSUME NEW g \in DOMAIN by_handle', g # root
        PROVE  /\ g \in DOMAIN by_handle /\ by_handle'[g] = by_handle[g]
               /\ OnTheirWay(g)' \subseteq OnTheirWay(g)
               /\ index'[by_handle[g]].cover = index[by_handle[g]].cover
               /\ \A s \in root_subs'[g] : s \in root_subs[g] /\ subs'[s].key = subs[s].key
    BY <1>4, <1>5, <2>2
  <2>3. DOMAIN by_handle' \subseteq Handle
    BY <1>4 DEF RIInv, IInv, TypeOK
  <2> QED BY <2>1, <2>2, <2>3, PrunesFrame DEF RIInv
<1>11. StepSound' /\ AskedSound'
  BY <1>1, <1>4 DEF RIInv, StepSound, AskedSound
<1>12. SourceSound'
  <2> SUFFICES ASSUME NEW h \in DOMAIN source
               PROVE  /\ h \in DOMAIN by_handle \/ quarantined
                      /\ h \in DOMAIN by_handle =>
                            /\ source[h].key = by_handle[h]
                            /\ index'[by_handle[h]].cover = Full => source[h].kept = {by_handle[h]}
                            /\ h \notin raised =>
                                  \A k \in Descendants(Key, by_handle[h]) :
                                     ~covered_outside(index'[by_handle[h]], k) =>
                                        CoveredBy(k, source[h].kept)
    BY <1>1, <1>4 DEF SourceSound, Underway
  <2>1. /\ h \in DOMAIN by_handle \/ quarantined
        /\ h \in DOMAIN by_handle => source[h].key = by_handle[h]
    BY <1>1, <1>2 DEF RIInv, SourceSound
  <2>2. CASE h # root
    BY <1>1, <1>2, <1>4, <2>1, <2>2 DEF RIInv, SourceSound, Underway, covered_outside
  <2>3. CASE h = root
    <3>1. \/ source[h].kept = asked_cover
          \/ h \in raised /\ asked_cover # {by_handle[h]}
      BY <1>1, <1>2, <2>3 DEF RIInv, SourceSound
    <3>2. asked_cover # Full
      BY FullAssumption DEF RIInv, RTypeOK
    <3>3. index'[by_handle[h]].cover =
             IF asked_cover = {by_handle[h]} THEN Full ELSE asked_cover
      BY <1>4, <2>3 DEF grown_cover
    <3>4. asked_cover = {by_handle[h]} =>
             \A k \in Descendants(Key, by_handle[h]) : CoveredBy(k, asked_cover)
      BY <1>3, <2>3, WhollyCovered DEF Descendants
    <3> QED BY <2>1, <3>1, <3>2, <3>3, <3>4 DEF covered_outside
  <2> QED BY <2>2, <2>3
<1> QED BY <1>4, <1>6, <1>7, <1>8, <1>9, <1>10, <1>11, <1>12 DEF RIInv

LEMMA PruneRIInv == ASSUME RIInv, Prune PROVE RIInv'
<1>1. /\ step = "prune" /\ step' = "idle"
      /\ UNCHANGED <<asked_cover, root, todo, closing>>
      /\ UNCHANGED <<source, used, raised, untold, rescanned>>
      /\ quarantined => quarantined'
      /\ set_cover(root, asked_cover) \/ UNCHANGED <<control, deferred_prunes>>
      /\ quarantined' \in {quarantined, TRUE}
  <2>1. /\ step = "prune" /\ step' = "idle"
        /\ UNCHANGED <<asked_cover, root, todo, closing>>
        /\ UNCHANGED <<source, used, raised, untold, rescanned>>
        /\ set_cover(root, asked_cover) \/ UNCHANGED <<control, deferred_prunes>>
    BY DEF Prune, same_question, hvars
  <2>2. quarantined' = quarantined \/ quarantined' = TRUE
    BY DEF Prune
  <2>3. quarantined => quarantined'
    BY <2>2
  <2>4. quarantined' \in {quarantined, TRUE}
    BY <2>2
  <2> QED BY <2>1, <2>3, <2>4
<1>2. PICK cover \in {asked_cover, {}} : SetRetainedCover(root, cover)
  BY DEF Prune, cover_unless_made
<1>3. /\ root \in DOMAIN by_handle /\ ~closing /\ root \in Handle
      /\ asked_cover = retained_cover_for(root, {})
      /\ \A k \in Key : CoveredBy(k, asked_cover) => ~covered_outside(index[by_handle[root]], k)
      /\ asked_cover \in SUBSET Key /\ asked_cover # Full
  BY <1>1, FullAssumption DEF RIInv, AskedSound, StepSound, RTypeOK, IInv, TypeOK
<1>4. /\ ~CoveredBy(by_handle[root], cover) /\ cover \in Cover /\ cover # Full
      /\ \A k \in Key : CoveredBy(k, cover) => CoveredBy(k, asked_cover)
      /\ \A s \in root_subs[root] : CoveredBy(subs[s].key, asked_cover)
      /\ by_handle[root] \in Key
  <2>1. /\ ~CoveredBy(by_handle[root], asked_cover)
        /\ \A k \in KeysOf(root_subs[root]) : CoveredBy(k, asked_cover)
    BY <1>3, RetainedSound DEF RIInv
  <2>2. \A k : ~CoveredBy(k, {})
    BY DEF CoveredBy
  <2>3. by_handle[root] \in Key
    BY <1>3, Cohort DEF RIInv
  <2>4. {} # Full
    BY FullAssumption
  <2> QED BY <1>2, <1>3, <2>1, <2>2, <2>3, <2>4 DEF KeysOf, Cover
<1>5. /\ IInv'
      /\ UNCHANGED <<by_handle, root_subs, subs, plan, pending>>
      /\ DOMAIN index' = DOMAIN index /\ by_handle[root] \in DOMAIN index
      /\ index'[by_handle[root]].cover = cover
      /\ \A k \in DOMAIN index : k # by_handle[root] => index'[k] = index[k]
      /\ \A g \in DOMAIN by_handle : g # root => index'[by_handle[g]] = index[by_handle[g]]
  BY <1>2, <1>3, <1>4, SetCoverIs DEF RIInv, SetRetainedCover
<1>6. /\ Channel'
      /\ \A g \in Handle : \A c \in OnTheirWay(g)' :
            c \in OnTheirWay(g) \/ (g = root /\ c = asked_cover /\ root \in DOMAIN source)
  <2>1. CASE set_cover(root, asked_cover)
    BY <1>3, <2>1, SetCoverSound, Typed DEF RIInv
  <2>2. CASE UNCHANGED <<control, deferred_prunes>>
    BY <2>2, SamePrunes, Typed DEF RIInv, Channel
  <2> QED BY <1>1, <2>1, <2>2
<1>7. GapsNoted' /\ AllServed'
  <2>1. \A s \in DOMAIN subs : Served(s) <=> Served(s)'
    BY <1>1, <1>5 DEF Served
  <2>2. \A s \in DOMAIN subs : Noted(subs[s].root) => Noted(subs[s].root)'
    BY <1>1, <1>5 DEF Noted, InHand
  <2>3. untold' \subseteq (untold \cup {s \in DOMAIN subs' :
                                 ~Served(s)' /\ (s \in DOMAIN subs => Served(s))}) \ {}
    BY <1>1
  <2> QED BY <1>1, <1>5, <2>1, <2>2, <2>3, GapsKept DEF RIInv
<1>8. RTypeOK' /\ RTyped'
  <2>1. quarantined' \in BOOLEAN
    BY <1>1, Typed DEF RIInv
  <2> QED BY <1>1, <1>5, <1>6, <1>7, <2>1, Typed, TypedAgain DEF RIInv, IInv
<1>9. HandlesUsed'
  BY <1>1, <1>5, <1>6 DEF RIInv, HandlesUsed, RTypeOK
<1>10. RecordsProper'
  BY <1>4, <1>5 DEF RIInv, RecordsProper
<1>11. PrunesSafe'
  <2> SUFFICES ASSUME NEW h \in DOMAIN by_handle, NEW c \in OnTheirWay(h)'
               PROVE  /\ index'[by_handle[h]].cover # Full
                      /\ \A k \in Descendants(Key, by_handle[h]) :
                            ~covered_outside(index'[by_handle[h]], k) => CoveredBy(k, c)
                      /\ \A s \in root_subs[h] : CoveredBy(subs[s].key, c)
    BY <1>5 DEF PrunesSafe
  <2>1. h \in Handle
    BY DEF RIInv, IInv, TypeOK
  <2>2. CASE c \in OnTheirWay(h)
    <3>1. /\ index[by_handle[h]].cover # Full
          /\ \A k \in Descendants(Key, by_handle[h]) :
                ~covered_outside(index[by_handle[h]], k) => CoveredBy(k, c)
          /\ \A s \in root_subs[h] : CoveredBy(subs[s].key, c)
      BY <2>2 DEF RIInv, PrunesSafe
    <3>2. CASE h # root
      BY <1>5, <3>1, <3>2 DEF covered_outside
    <3>3. CASE h = root
      BY <1>3, <1>4, <1>5, <3>1, <3>3 DEF covered_outside, Descendants
    <3> QED BY <3>2, <3>3
  <2>3. CASE h = root /\ c = asked_cover
    BY <1>4, <1>5, <2>3 DEF covered_outside, Descendants
  <2> QED BY <1>6, <2>1, <2>2, <2>3
<1>12. StepSound' /\ AskedSound'
  BY <1>1, <1>5 DEF RIInv, StepSound, AskedSound
<1>13. SourceSound'
  <2> SUFFICES ASSUME NEW h \in DOMAIN source
               PROVE  /\ h \in DOMAIN by_handle \/ quarantined
                      /\ h \in DOMAIN by_handle =>
                            /\ source[h].key = by_handle[h]
                            /\ index'[by_handle[h]].cover = Full => source[h].kept = {by_handle[h]}
                            /\ h \notin raised =>
                                  \A k \in Descendants(Key, by_handle[h]) :
                                     ~covered_outside(index'[by_handle[h]], k) =>
                                        CoveredBy(k, source[h].kept)
    BY <1>1, <1>5 DEF SourceSound, Underway
  <2>1. /\ h \in DOMAIN by_handle \/ quarantined
        /\ h \in DOMAIN by_handle =>
              /\ source[h].key = by_handle[h]
              /\ index[by_handle[h]].cover = Full => source[h].kept = {by_handle[h]}
              /\ h \notin raised =>
                    \A k \in Descendants(Key, by_handle[h]) :
                       ~covered_outside(index[by_handle[h]], k) => CoveredBy(k, source[h].kept)
    BY <1>1, <1>3 DEF RIInv, SourceSound, Underway
  <2>2. CASE h # root
    BY <1>5, <2>1, <2>2 DEF covered_outside
  <2>3. CASE h = root
    BY <1>3, <1>4, <1>5, <2>1, <2>3 DEF covered_outside, Descendants
  <2> QED BY <2>2, <2>3
<1> QED BY <1>5, <1>7, <1>8, <1>9, <1>10, <1>11, <1>12, <1>13 DEF RIInv

LEMMA ConsumeRescanRIInv == ASSUME RIInv, NEW h \in Handle, ConsumeRescan(h) PROVE RIInv'
<1>1. /\ step = "idle" /\ ~closing
      /\ h \in raised /\ h \in DOMAIN source /\ h \in DOMAIN by_handle
      /\ raised' = raised \ {h} /\ untold' = untold \ root_subs[h]
      /\ rescanned' = rescanned \cup root_subs[h]
      /\ UNCHANGED <<source, used, control, deferred_prunes>>
      /\ UNCHANGED <<step, asked_cover, root, todo, closing, quarantined>>
  BY DEF ConsumeRescan, ovars
<1>2. /\ by_handle[h] \in Key /\ by_handle[h] \in DOMAIN index
      /\ \A s \in root_subs[h] : s \in DOMAIN subs /\ subs[s].root = h
      /\ \A s \in DOMAIN subs : subs[s].root = h => s \in root_subs[h]
      /\ root_subs[h] \subseteq Sub
  <2>1. h \in DOMAIN root_subs /\ \A s \in root_subs[h] : s \in DOMAIN subs
    BY <1>1, Cohort DEF RIInv
  <2> QED BY <1>1, <2>1, Cohort, Member DEF RIInv
<1>3. PICK cover \in {index[by_handle[h]].cover, {}} :
        /\ IInv'
        /\ UNCHANGED <<by_handle, root_subs, subs, plan, pending>>
        /\ DOMAIN index' = DOMAIN index
        /\ index'[by_handle[h]].cover = cover
        /\ cover \in {Full, {}}
        /\ index[by_handle[h]].cover = Full => cover = Full
        /\ \A k \in DOMAIN index : k # by_handle[h] => index'[k] = index[k]
        /\ \A g \in DOMAIN by_handle : g # h => index'[by_handle[g]] = index[by_handle[g]]
  <2>1. CASE index[by_handle[h]].cover \in {Full, {}}
    <3>1. UNCHANGED vars
      BY <2>1 DEF ConsumeRescan, DegradeRecord
    <3>2. IInv'
      BY <3>1, EngineStays DEF RIInv
    <3> QED BY <2>1, <3>1, <3>2 DEF vars, maps
  <2>2. CASE index[by_handle[h]].cover \notin {Full, {}}
    <3>1. idle /\ SetCover(h, {})
      BY <2>2 DEF ConsumeRescan, DegradeRecord, DegradeRetainedCover
    <3>2. {} \in Cover
      BY DEF Cover
    <3> QED BY <1>1, <2>2, <3>1, <3>2, SetCoverIs DEF RIInv
  <2> QED BY <2>1, <2>2
<1>4. {} # Full /\ \A k : ~CoveredBy(k, {})
  BY FullAssumption DEF CoveredBy
<1>5. Channel /\ Channel' /\ NoMorePrunes /\ \A g : OnTheirWay(g)' = OnTheirWay(g)
  BY <1>1, SamePrunes, Typed DEF RIInv, Channel
<1>6. GapsNoted' /\ AllServed'
  <2>1. ASSUME NEW s \in DOMAIN subs, s \notin root_subs[h]
        PROVE  /\ Noted(subs[s].root) => Noted(subs[s].root)'
               /\ Served(s) => Served(s)'
    BY <1>1, <1>2, <1>3, <2>1 DEF Noted, InHand, Served
  <2> QED BY <1>1, <1>3, <2>1, GapsKept DEF RIInv
<1>7. RTypeOK' /\ RTyped'
  <2>1. rescanned' \subseteq Sub
    BY <1>1, <1>2 DEF RIInv, RTypeOK
  <2> QED BY <1>1, <1>3, <1>5, <1>6, <2>1, Typed, TypedAgain DEF RIInv, IInv
<1>8. HandlesUsed'
  BY <1>1, <1>3, <1>5, UsedStays DEF RIInv, HandlesUsed
<1>9. RecordsProper'
  BY <1>3, <1>4 DEF RIInv, RecordsProper
<1>10. PrunesSafe'
  <2> SUFFICES ASSUME NEW g \in DOMAIN by_handle, NEW c \in OnTheirWay(g)
               PROVE  /\ index'[by_handle[g]].cover # Full
                      /\ \A k \in Descendants(Key, by_handle[g]) :
                            ~covered_outside(index'[by_handle[g]], k) => CoveredBy(k, c)
                      /\ \A s \in root_subs[g] : CoveredBy(subs[s].key, c)
    BY <1>3, <1>5 DEF PrunesSafe
  <2>1. /\ index[by_handle[g]].cover # Full
        /\ \A k \in Descendants(Key, by_handle[g]) :
              ~covered_outside(index[by_handle[g]], k) => CoveredBy(k, c)
        /\ \A s \in root_subs[g] : CoveredBy(subs[s].key, c)
    BY DEF RIInv, PrunesSafe
  <2> QED BY <1>3, <1>4, <2>1 DEF covered_outside
<1>11. StepSound' /\ AskedSound'
  BY <1>1, <1>3 DEF RIInv, StepSound, AskedSound
<1>12. SourceSound'
  <2> SUFFICES ASSUME NEW g \in DOMAIN source
               PROVE  /\ g \in DOMAIN by_handle \/ quarantined
                      /\ g \in DOMAIN by_handle =>
                            /\ source[g].key = by_handle[g]
                            /\ index'[by_handle[g]].cover = Full => source[g].kept = {by_handle[g]}
                            /\ g \notin raised' =>
                                  \A k \in Descendants(Key, by_handle[g]) :
                                     ~covered_outside(index'[by_handle[g]], k) =>
                                        CoveredBy(k, source[g].kept)
    BY <1>1, <1>3 DEF SourceSound, Underway
  <2>1. /\ g \in DOMAIN by_handle \/ quarantined
        /\ g \in DOMAIN by_handle =>
              /\ source[g].key = by_handle[g]
              /\ index[by_handle[g]].cover = Full => source[g].kept = {by_handle[g]}
              /\ g \notin raised =>
                    \A k \in Descendants(Key, by_handle[g]) :
                       ~covered_outside(index[by_handle[g]], k) => CoveredBy(k, source[g].kept)
    BY <1>1 DEF RIInv, SourceSound, Underway
  <2>2. CASE g # h
    BY <1>1, <1>3, <2>1, <2>2 DEF covered_outside
  <2>3. CASE g = h /\ cover = Full
    <3>1. source[g].kept = {by_handle[g]}
      BY <1>1, <1>3, <1>4, <2>1, <2>3
    <3> QED BY <1>2, <2>1, <2>3, <3>1, WhollyCovered DEF Descendants
  <2>4. CASE g = h /\ cover = {}
    BY <1>3, <1>4, <2>1, <2>4 DEF covered_outside
  <2> QED BY <1>3, <2>2, <2>3, <2>4
<1> QED BY <1>3, <1>6, <1>7, <1>8, <1>9, <1>10, <1>11, <1>12 DEF RIInv

-----------------------------------------------------------------------------
(* The steps by which the source holds a root anew.                        *)

\* A root held anew, in the place of roots that the source holds no more,
\* serves everybody it takes over, and the others keep what they had.
LEMMA HeldRIInv ==
    ASSUME RIInv, IInv', RecordsProper', StepSound', AskedSound',
           NEW h \in Handle, NEW key \in Key, NEW W \in SUBSET DOMAIN by_handle, NEW told,
           source' = Held(h, key), OnTheirWay(h) = {}, used' = used \cup {h},
           UNCHANGED <<control, deferred_prunes, raised, rescanned>>,
           h \in W \/ h \notin DOMAIN by_handle,
           W \cap DOMAIN source \subseteq {h},
           DOMAIN by_handle' = (DOMAIN by_handle \ W) \cup {h}, by_handle'[h] = key,
           \A g \in DOMAIN by_handle \ W :
              /\ by_handle'[g] = by_handle[g] /\ root_subs'[g] = root_subs[g]
              /\ index'[by_handle[g]].cover = index[by_handle[g]].cover,
           DOMAIN subs \subseteq DOMAIN subs',
           \A s \in DOMAIN subs : subs[s].root \notin W => subs'[s] = subs[s],
           \A s \in DOMAIN subs : subs[s].root \in W => s \in told /\ subs'[s].root = h,
           \A s \in DOMAIN subs' : s \notin DOMAIN subs => subs'[s].root = h,
           Tells(told),
           todo' \subseteq Handle, UNCHANGED <<asked_cover, root, quarantined, closing>>, ~closing,
           step # "record", step' \notin {"rollback", "record"},
           step = "rollback" => root \in W,
           \A g \in DOMAIN by_handle \ W : InHand(g) => InHand(g)'
    PROVE  RIInv'
<1>1. /\ DOMAIN source' = DOMAIN source \cup {h}
      /\ source'[h] = [key |-> key, kept |-> {key}]
      /\ \A g \in DOMAIN source : g # h => source'[g] = source[g]
  BY ZenonT(40), HeldAnew
<1>2. Channel /\ Channel' /\ NoMorePrunes /\ \A g : OnTheirWay(g)' = OnTheirWay(g)
  BY SamePrunes, Typed DEF RIInv, Channel
<1>3. \A s \in DOMAIN subs' : subs'[s].key \in Key /\ StartsWith(subs'[s].key, by_handle'[subs'[s].root])
  BY DEF IInv, TypeOK, SubsInsideRoot
<1>4. \A s \in DOMAIN subs' : subs'[s].root = h => Served(s)'
  BY <1>1, <1>3, WhollyCovered DEF Served
<1>5. GapsNoted' /\ AllServed'
  <2>1. ASSUME NEW s \in DOMAIN subs, subs[s].root \notin W
        PROVE  /\ Noted(subs[s].root) => Noted(subs[s].root)'
               /\ Served(s) => Served(s)'
    <3>1. subs[s].root \in DOMAIN by_handle /\ subs'[s] = subs[s] /\ subs[s].root # h
      BY <2>1, Member DEF RIInv
    <3> QED BY <1>1, <2>1, <3>1 DEF Noted, Served
  <2> QED BY <1>4, <2>1, GapsKept DEF RIInv, Tells
<1>6. RTypeOK' /\ RTyped'
  <2>1. /\ DOMAIN source' \subseteq used' /\ used' \subseteq Handle
        /\ \A g \in DOMAIN source' : source'[g] \in [key : Key, kept : SUBSET Key]
    BY <1>1 DEF RIInv, RTypeOK
  <2> QED BY <1>2, <1>5, <2>1, Typed, TypedAgain DEF RIInv, IInv
<1>7. HandlesUsed'
  BY <1>2, UsedStays DEF RIInv, HandlesUsed
<1>8. PrunesSafe'
  <2>1. DOMAIN by_handle' \subseteq Handle
    BY DEF IInv, TypeOK
  <2>2. ASSUME NEW g \in DOMAIN by_handle \ W
        PROVE  \A s \in root_subs'[g] : s \in root_subs[g] /\ subs'[s].key = subs[s].key
    BY Cohort DEF RIInv
  <2> QED BY <1>2, <2>1, <2>2, PrunesFrame DEF RIInv
<1>9. SourceSound'
  <2> SUFFICES ASSUME NEW g \in DOMAIN source'
               PROVE  /\ g \in DOMAIN by_handle' \/ quarantined'
                      /\ g \in DOMAIN by_handle' =>
                            /\ source'[g].key = by_handle'[g]
                            /\ index'[by_handle'[g]].cover = Full =>
                                  source'[g].kept = {by_handle'[g]}
                            /\ g \notin raised' =>
                                  \A k \in Descendants(Key, by_handle'[g]) :
                                     ~covered_outside(index'[by_handle'[g]], k) =>
                                        CoveredBy(k, source'[g].kept)
    BY DEF SourceSound, Underway
  <2>1. CASE g = h
    BY <1>1, <2>1, WhollyCovered DEF Descendants
  <2>2. CASE g # h
    <3>1. g \in DOMAIN source /\ g \notin W /\ source'[g] = source[g]
      BY <1>1, <2>2
    <3>2. /\ g \in DOMAIN by_handle \/ quarantined
          /\ g \in DOMAIN by_handle =>
                /\ source[g].key = by_handle[g]
                /\ index[by_handle[g]].cover = Full => source[g].kept = {by_handle[g]}
                /\ g \notin raised =>
                      \A k \in Descendants(Key, by_handle[g]) :
                         ~covered_outside(index[by_handle[g]], k) => CoveredBy(k, source[g].kept)
      BY <3>1 DEF RIInv, SourceSound, Underway
    <3> QED BY <2>2, <3>1, <3>2 DEF covered_outside
  <2> QED BY <2>1, <2>2
<1> QED BY <1>5, <1>6, <1>7, <1>8, <1>9 DEF RIInv

LEMMA ArmedRIInv ==
    ASSUME RIInv, NEW h \in Handle, NEW key \in Key, Armed(h, key) PROVE RIInv'
<1>1. /\ step = "arming" /\ step' = "idle" /\ h \notin used /\ used' = used \cup {h}
      /\ UNCHANGED <<asked_cover, root, todo, closing, quarantined>>
      /\ UNCHANGED <<control, deferred_prunes, raised, rescanned>>
      /\ source' = Held(h, key) /\ Tells({}) /\ CommitDisjoint(h, key)
  BY DEF Armed, fresh, goes, same_question
<1>2. IInv'
  BY <1>1, CommitDisjointIInv DEF RIInv
<1>3. /\ h \notin DOMAIN by_handle /\ OnTheirWay(h) = {} /\ ~closing
  BY <1>1 DEF RIInv, HandlesUsed, StepSound
<1>4. \A r \in DOMAIN index : r # key
  BY <1>1, PrefixRefl DEF CommitDisjoint, fs_path_preserves_plan, Ancestors
<1>5. \A g \in DOMAIN by_handle : by_handle[g] \in DOMAIN index
  BY DEF RIInv, IInv, Lockstep
<1>6. /\ DOMAIN by_handle' = DOMAIN by_handle \cup {h} /\ by_handle'[h] = key
      /\ \A g \in DOMAIN by_handle : by_handle'[g] = by_handle[g] /\ root_subs'[g] = root_subs[g]
      /\ DOMAIN index' = DOMAIN index \cup {key} /\ index'[key].cover = Full
      /\ \A r \in DOMAIN index : index'[r] = index[r]
      /\ plan'.phase = "idle"
  <2>1. DOMAIN root_subs = DOMAIN by_handle
    BY DEF RIInv, IInv, Lockstep
  <2> QED BY <1>1, <1>3, <1>4, <2>1 DEF CommitDisjoint, Settle, NoPlan, Put
<1>7. /\ DOMAIN subs' = DOMAIN subs \cup {plan.sub} /\ subs'[plan.sub].root = h
      /\ \A s \in DOMAIN subs : subs'[s] = subs[s]
  <2>1. plan.sub \notin DOMAIN subs
    BY <1>1 DEF CommitDisjoint, RIInv, IInv, PlanSound
  <2> QED BY <1>1, <2>1 DEF CommitDisjoint, Put
<1>8. RecordsProper'
  BY <1>6 DEF RIInv, RecordsProper
<1>9. StepSound' /\ AskedSound'
  BY <1>1, <1>6 DEF RIInv, StepSound, AskedSound
<1> DEFINE W == {}
<1>10. todo' \subseteq Handle /\ \A g : ~InHand(g)
  BY <1>1 DEF InHand, RIInv, RTypeOK
<1>11. /\ W \in SUBSET DOMAIN by_handle /\ W \cap DOMAIN source \subseteq {h}
       /\ DOMAIN by_handle' = (DOMAIN by_handle \ W) \cup {h}
       /\ \A g \in DOMAIN by_handle \ W :
             /\ by_handle'[g] = by_handle[g] /\ root_subs'[g] = root_subs[g]
             /\ index'[by_handle[g]].cover = index[by_handle[g]].cover
       /\ \A s \in DOMAIN subs : subs[s].root \notin W
  BY <1>5, <1>6
<1>12. /\ DOMAIN subs \subseteq DOMAIN subs'
       /\ \A s \in DOMAIN subs' : s \notin DOMAIN subs => subs'[s].root = h
  BY <1>7
<1> HIDE DEF W
<1> QED
  BY <1>1, <1>2, <1>3, <1>6, <1>7, <1>8, <1>9, <1>10, <1>11, <1>12, HeldRIInv

\* What a widen leaves: the planned roots are gone into the one at h.
LEMMA CommitWidenIs ==
    ASSUME IInv, NEW h \in Handle, NEW key \in Key, CommitWiden(h, key)
    PROVE  /\ plan.unwatch \in SUBSET DOMAIN by_handle
           /\ h \in plan.unwatch \/ h \notin DOMAIN by_handle
           /\ DOMAIN by_handle' = (DOMAIN by_handle \ plan.unwatch) \cup {h}
           /\ by_handle'[h] = key
           /\ \A g \in DOMAIN by_handle \ plan.unwatch :
                 /\ by_handle'[g] = by_handle[g] /\ root_subs'[g] = root_subs[g]
                 /\ index'[by_handle[g]].cover = index[by_handle[g]].cover
           /\ DOMAIN subs \subseteq DOMAIN subs'
           /\ \A s \in DOMAIN subs : subs[s].root \notin plan.unwatch => subs'[s] = subs[s]
           /\ \A s \in DOMAIN subs : subs[s].root \in plan.unwatch =>
                 s \in plan.repointed /\ subs'[s].root = h
           /\ \A s \in DOMAIN subs' : s \notin DOMAIN subs => subs'[s].root = h
           /\ index'[key].cover = Full
           /\ \A k \in DOMAIN index' : k # key => k \in DOMAIN index /\ index'[k] = index[k]
           /\ plan'.phase = "idle"
<1> DEFINE sub == plan.sub
           W == plan.unwatch
           R == plan.repointed
           gone == Descendants(DOMAIN index, key)
<1>1. sub \notin DOMAIN subs /\ W \subseteq DOMAIN by_handle
  BY DEF CommitWiden, IInv, PlanSound
<1>2. \A g \in DOMAIN by_handle : g \in W <=> by_handle[g] \in gone
  <2>1. W = {index[d].handle : d \in gone} /\ gone \subseteq DOMAIN index
    BY DEF CommitWiden, fs_path_preserves_plan, Descendants
  <2>2. /\ \A d \in DOMAIN index : by_handle[index[d].handle] = d
        /\ \A g \in DOMAIN by_handle : by_handle[g] \in DOMAIN index /\ index[by_handle[g]].handle = g
    BY DEF IInv, Lockstep
  <2> HIDE DEF W, gone
  <2> QED BY <2>1, <2>2
<1>3. \A s \in DOMAIN subs : s \in R <=> subs[s].root \in W
  BY <1>1 DEF CommitWiden, IInv, PlanSound, Lockstep
<1>4. h \in DOMAIN by_handle => h \in W
  BY DEF CommitWiden
<1>5. \A r \in DOMAIN index : r # key
  BY PrefixRefl DEF CommitWiden, fs_path_preserves_plan, Ancestors
<1>6. /\ DOMAIN index' = (DOMAIN index \ gone) \cup {key}
      /\ index'[key].cover = Full
      /\ \A k \in DOMAIN index \ gone : index'[k] = index[k]
  BY <1>5 DEF CommitWiden, Put, Drop
<1>7. /\ DOMAIN by_handle' = (DOMAIN by_handle \ W) \cup {h}
      /\ by_handle'[h] = key
      /\ \A g \in DOMAIN by_handle \ W : by_handle'[g] = by_handle[g]
  BY <1>4 DEF CommitWiden, Put, Drop
<1>8. \A g \in DOMAIN by_handle \ W : root_subs'[g] = root_subs[g]
  BY <1>4 DEF CommitWiden, Put, Drop, IInv, Lockstep
<1>9. /\ DOMAIN subs' = DOMAIN subs \cup {sub}
      /\ subs'[sub].root = h
      /\ \A s \in DOMAIN subs : subs'[s] = IF s \in R THEN [root |-> h, key |-> subs[s].key]
                                            ELSE subs[s]
  BY <1>1 DEF CommitWiden, Put, repoint
<1>10. \A g \in DOMAIN by_handle : by_handle[g] \in DOMAIN index
  BY DEF IInv, Lockstep
<1>11. plan'.phase = "idle"
  BY DEF CommitWiden, Settle, NoPlan
<1> HIDE DEF sub, W, R, gone
<1>12. \A g \in DOMAIN by_handle \ W : index'[by_handle[g]].cover = index[by_handle[g]].cover
  BY <1>2, <1>6, <1>10
<1>13. /\ DOMAIN subs \subseteq DOMAIN subs'
       /\ \A s \in DOMAIN subs : subs[s].root \notin W => subs'[s] = subs[s]
       /\ \A s \in DOMAIN subs : subs[s].root \in W => s \in R /\ subs'[s].root = h
       /\ \A s \in DOMAIN subs' : s \notin DOMAIN subs => subs'[s].root = h
  BY <1>3, <1>9
<1>14. \A k \in DOMAIN index' : k # key => k \in DOMAIN index /\ index'[k] = index[k]
  BY <1>6
<1> QED BY <1>1, <1>4, <1>6, <1>7, <1>8, <1>11, <1>12, <1>13, <1>14 DEF W, R

LEMMA ReplacedRIInv == ASSUME RIInv, NEW key \in Key, Replaced(key) PROVE RIInv'
<1>1. /\ step = "replacing" /\ step' = "idle" /\ control = <<>> /\ root \in DOMAIN source
      /\ UNCHANGED <<asked_cover, root, todo, closing, quarantined>>
      /\ UNCHANGED <<used, control, deferred_prunes, raised, rescanned>>
      /\ source' = Held(root, key) /\ Tells(plan.repointed) /\ CommitWiden(root, key)
  BY DEF Replaced, told_of_widen, goes, same_question
<1>2. /\ root \in Handle /\ root \in used /\ root \notin DOMAIN deferred_prunes /\ ~closing
      /\ plan.unwatch = {root}
  BY <1>1 DEF RIInv, RTypeOK, AskedSound, StepSound
<1>3. IInv'
  BY <1>1, <1>2, CommitWidenIInv DEF RIInv
<1>4. /\ plan.unwatch \in SUBSET DOMAIN by_handle
      /\ DOMAIN by_handle' = (DOMAIN by_handle \ plan.unwatch) \cup {root}
      /\ by_handle'[root] = key
      /\ \A g \in DOMAIN by_handle \ plan.unwatch :
            /\ by_handle'[g] = by_handle[g] /\ root_subs'[g] = root_subs[g]
            /\ index'[by_handle[g]].cover = index[by_handle[g]].cover
      /\ DOMAIN subs \subseteq DOMAIN subs'
      /\ \A s \in DOMAIN subs : subs[s].root \notin plan.unwatch => subs'[s] = subs[s]
      /\ \A s \in DOMAIN subs : subs[s].root \in plan.unwatch =>
            s \in plan.repointed /\ subs'[s].root = root
      /\ \A s \in DOMAIN subs' : s \notin DOMAIN subs => subs'[s].root = root
      /\ index'[key].cover = Full
      /\ \A k \in DOMAIN index' : k # key => k \in DOMAIN index /\ index'[k] = index[k]
      /\ plan'.phase = "idle"
  BY ZenonT(40), <1>1, <1>2, CommitWidenIs DEF RIInv
<1>5. OnTheirWay(root) = {}
  BY <1>1, <1>2, NothingOnItsWay
<1>6. RecordsProper'
  BY <1>4 DEF RIInv, RecordsProper
<1>7. StepSound' /\ AskedSound'
  BY <1>1, <1>4 DEF RIInv, StepSound, AskedSound
<1>8. /\ used' = used \cup {root} /\ todo' \subseteq Handle /\ \A g : ~InHand(g)
  BY <1>1, <1>2 DEF InHand, RIInv, RTypeOK
<1> DEFINE h == root
           W == plan.unwatch
           told == plan.repointed
<1>9. h \in W /\ W \cap DOMAIN source \subseteq {h}
  BY <1>2
<1> QED
  BY <1>1, <1>2, <1>3, <1>4, <1>5, <1>6, <1>7, <1>8, <1>9, HeldRIInv

LEMMA WidenedRIInv ==
    ASSUME RIInv, NEW h \in Handle, NEW key \in Key, Widened(h, key) PROVE RIInv'
<1>1. /\ step = "widening" /\ step' = "idle" /\ h \notin used /\ used' = used \cup {h}
      /\ UNCHANGED <<asked_cover, root, todo, closing, quarantined>>
      /\ UNCHANGED <<control, deferred_prunes, raised, rescanned>>
      /\ source' = Held(h, key) /\ Tells(plan.repointed) /\ CommitWiden(h, key)
  BY DEF Widened, told_of_widen, fresh, goes, same_question
<1>2. h \notin DOMAIN by_handle /\ OnTheirWay(h) = {} /\ ~closing
      /\ plan.unwatch \cap DOMAIN source = {}
  BY <1>1 DEF RIInv, HandlesUsed, StepSound, AskedSound
<1>3. IInv'
  BY <1>1, CommitWidenIInv DEF RIInv
<1>4. /\ plan.unwatch \in SUBSET DOMAIN by_handle
      /\ DOMAIN by_handle' = (DOMAIN by_handle \ plan.unwatch) \cup {h}
      /\ by_handle'[h] = key
      /\ \A g \in DOMAIN by_handle \ plan.unwatch :
            /\ by_handle'[g] = by_handle[g] /\ root_subs'[g] = root_subs[g]
            /\ index'[by_handle[g]].cover = index[by_handle[g]].cover
      /\ DOMAIN subs \subseteq DOMAIN subs'
      /\ \A s \in DOMAIN subs : subs[s].root \notin plan.unwatch => subs'[s] = subs[s]
      /\ \A s \in DOMAIN subs : subs[s].root \in plan.unwatch =>
            s \in plan.repointed /\ subs'[s].root = h
      /\ \A s \in DOMAIN subs' : s \notin DOMAIN subs => subs'[s].root = h
      /\ index'[key].cover = Full
      /\ \A k \in DOMAIN index' : k # key => k \in DOMAIN index /\ index'[k] = index[k]
      /\ plan'.phase = "idle"
  BY <1>1, CommitWidenIs DEF RIInv
<1>5. RecordsProper'
  BY <1>4 DEF RIInv, RecordsProper
<1>6. StepSound' /\ AskedSound'
  BY <1>1, <1>4 DEF RIInv, StepSound, AskedSound
<1>7. todo' \subseteq Handle /\ \A g \in DOMAIN by_handle \ plan.unwatch : ~InHand(g)
  BY <1>1 DEF InHand, RIInv, RTypeOK
<1> QED
  BY <1>1, <1>2, <1>3, <1>4, <1>5, <1>6, <1>7, HeldRIInv

LEMMA RolledBackRIInv == ASSUME RIInv, RolledBack PROVE RIInv'
<1>1. /\ step = "rollback" /\ step' = "idle" /\ control = <<>> /\ root \in DOMAIN source
      /\ UNCHANGED <<asked_cover, root, todo, closing, quarantined>>
      /\ UNCHANGED <<used, control, deferred_prunes, raised, rescanned>>
      /\ source' = Held(root, by_handle[root]) /\ Tells(root_subs[root])
  BY DEF RolledBack, goes, same_question
<1>2. /\ IInv' /\ plan'.phase = "idle" /\ UNCHANGED <<index, by_handle, root_subs, subs>>
  BY AbortKeeps DEF RolledBack, RIInv, maps
<1>3. /\ plan.phase = "planned" /\ plan.kind = "widen" /\ plan.unwatch = {root} /\ ~closing
      /\ root \notin DOMAIN deferred_prunes
  BY <1>1 DEF RIInv, StepSound, AskedSound
<1>4. /\ root \in DOMAIN by_handle /\ root \in Handle /\ root \in used /\ by_handle[root] \in Key
  BY <1>1, <1>3, WidenNames, Cohort DEF RIInv, RTypeOK
<1>5. OnTheirWay(root) = {}
  BY <1>1, <1>3, NothingOnItsWay
<1>6. \A s \in DOMAIN subs : subs[s].root \in {root} => s \in root_subs[root]
  BY Member DEF RIInv
<1>7. RecordsProper' /\ StepSound' /\ AskedSound'
  BY <1>1, <1>2 DEF RIInv, RecordsProper, StepSound, AskedSound
<1>8. /\ used' = used \cup {root} /\ todo' \subseteq Handle
      /\ \A g \in DOMAIN by_handle \ {root} : ~InHand(g)
      /\ {root} \in SUBSET DOMAIN by_handle
      /\ DOMAIN by_handle' = (DOMAIN by_handle \ {root}) \cup {root}
      /\ by_handle'[root] = by_handle[root]
  BY <1>1, <1>2, <1>4 DEF InHand, RIInv, RTypeOK
<1>9. {root} \cap DOMAIN source \subseteq {root} /\ root \in {root}
  OBVIOUS
<1> QED
  BY <1>1, <1>2, <1>3, <1>4, <1>5, <1>6, <1>7, <1>8, <1>9, HeldRIInv

LEMMA RestoredRIInv ==
    ASSUME RIInv, NEW old \in Handle, NEW h \in Handle, Restored(old, h) PROVE RIInv'
<1>1. /\ step = "restoring" /\ step' = "restoring" /\ old \in todo
      /\ h \notin used /\ used' = used \cup {h} /\ todo' = todo \ {old}
      /\ UNCHANGED <<asked_cover, root, closing, quarantined>>
      /\ UNCHANGED <<control, deferred_prunes, raised, rescanned>>
      /\ source' = Held(h, by_handle[old]) /\ Tells(root_subs[old]) /\ RebindRoot(old, h)
  BY DEF Restored, fresh, same_question
<1>2. /\ h \notin DOMAIN by_handle /\ OnTheirWay(h) = {} /\ ~closing
      /\ todo \subseteq plan.unwatch \cap DOMAIN by_handle /\ plan.phase = "unwinding"
      /\ todo \cap DOMAIN source = {}
  BY <1>1 DEF RIInv, HandlesUsed, StepSound, AskedSound
<1>3. IInv'
  BY <1>1, RebindRootIInv DEF RIInv
<1>4. by_handle[old] \in DOMAIN index /\ by_handle[old] \in Key /\ index[by_handle[old]] \in RootRecord
  BY <1>1, <1>2, Cohort DEF RIInv, IInv, TypeOK
<1>5. /\ DOMAIN index' = DOMAIN index /\ UNCHANGED plan
      /\ \A k \in DOMAIN index : index'[k].cover = index[k].cover
  BY <1>1, <1>4 DEF RebindRoot, RootRecord, RIInv, IInv, TypeOK
<1>6. /\ DOMAIN by_handle' = (DOMAIN by_handle \ {old}) \cup {h}
      /\ by_handle'[h] = by_handle[old]
      /\ \A g \in DOMAIN by_handle \ {old} : /\ by_handle'[g] = by_handle[g]
                                            /\ root_subs'[g] = root_subs[g]
  <2>1. DOMAIN root_subs = DOMAIN by_handle
    BY DEF RIInv, IInv, Lockstep
  <2> QED BY <1>1, <1>2, <2>1 DEF RebindRoot, Put, Drop
<1>7. /\ DOMAIN subs' = DOMAIN subs
      /\ \A s \in DOMAIN subs : subs'[s] = IF s \in root_subs[old]
                                            THEN [root |-> h, key |-> subs[s].key] ELSE subs[s]
  BY <1>1 DEF RebindRoot, repoint
<1>8. \A s \in DOMAIN subs : s \in root_subs[old] <=> subs[s].root = old
  BY <1>1, <1>2, Member, Cohort DEF RIInv
<1>9. RecordsProper'
  BY <1>5 DEF RIInv, RecordsProper
<1>10. StepSound'
  BY <1>1, <1>2, <1>5, <1>6 DEF RIInv, StepSound
<1>11. AskedSound'
  <2>1. DOMAIN source' = DOMAIN source \cup {h}
    BY <1>1, HeldAnew
  <2> QED BY <1>1, <1>2, <2>1 DEF AskedSound
<1>12. /\ todo' \subseteq Handle /\ {old} \in SUBSET DOMAIN by_handle
       /\ \A g \in DOMAIN by_handle \ {old} : InHand(g) => InHand(g)'
       /\ {old} \cap DOMAIN source \subseteq {h}
  BY <1>1, <1>2 DEF InHand, RIInv, RTypeOK
<1> DEFINE W == {old}
<1>13. \A g \in DOMAIN by_handle \ W :
          /\ by_handle'[g] = by_handle[g] /\ root_subs'[g] = root_subs[g]
          /\ index'[by_handle[g]].cover = index[by_handle[g]].cover
  BY <1>5, <1>6 DEF RIInv, IInv, Lockstep
<1>14. /\ DOMAIN subs \subseteq DOMAIN subs'
       /\ \A s \in DOMAIN subs : subs[s].root \notin W => subs'[s] = subs[s]
       /\ \A s \in DOMAIN subs : subs[s].root \in W => s \in root_subs[old] /\ subs'[s].root = h
       /\ \A s \in DOMAIN subs' : s \notin DOMAIN subs => subs'[s].root = h
  BY <1>7, <1>8
<1>15. /\ W \in SUBSET DOMAIN by_handle /\ W \cap DOMAIN source \subseteq {h}
       /\ DOMAIN by_handle' = (DOMAIN by_handle \ W) \cup {h}
       /\ \A g \in DOMAIN by_handle \ W : InHand(g) => InHand(g)'
  BY <1>6, <1>12
<1> HIDE DEF W
<1> QED
  BY <1>1, <1>2, <1>3, <1>4, <1>6, <1>9, <1>10, <1>11, <1>12, <1>13, <1>14, <1>15, HeldRIInv

-----------------------------------------------------------------------------
(* The steps by which a root or a subscription goes.                       *)

LEMMA RollbackFailsRIInv == ASSUME RIInv, RollbackFails PROVE RIInv'
<1>1. /\ step = "rollback" /\ step' = "retiring" /\ todo' = {root}
      /\ UNCHANGED <<asked_cover, root, closing, quarantined>>
      /\ UNCHANGED <<used, control, deferred_prunes, raised, rescanned>>
      /\ source' = Drop(source, {root}) /\ Tells({})
  BY DEF RollbackFails, disarm, same_question
<1>2. /\ IInv' /\ UNCHANGED <<index, by_handle, root_subs, subs>> /\ UNCHANGED maps
      /\ plan'.phase = "unwinding" /\ plan'.unwatch = plan.unwatch
      /\ plan.unwatch \subseteq DOMAIN by_handle /\ plan.unwatch \subseteq Handle
  BY UnwindKeeps DEF RollbackFails, RIInv, maps
<1>3. plan.unwatch = {root} /\ ~closing
  BY <1>1 DEF RIInv, StepSound
<1>4. /\ DOMAIN source' = DOMAIN source \ {root}
      /\ \A g \in DOMAIN source' : source'[g] = source[g]
  BY <1>1 DEF Drop
<1>5. Channel /\ Channel' /\ NoMorePrunes
  BY <1>1, SamePrunes, Typed DEF RIInv, Channel
<1>6. GapsNoted' /\ AllServed'
  <2>1. ASSUME NEW s \in DOMAIN subs', Served(s) PROVE Served(s)' \/ Noted(subs[s].root)'
    BY <1>1, <1>2, <1>4, <2>1 DEF Served, Noted, InHand
  <2>2. \A s \in DOMAIN subs' : Noted(subs[s].root) => Noted(subs[s].root)'
    BY <1>1, <1>2, <1>3 DEF Noted, InHand
  <2> QED BY <1>1, <1>2, <2>1, <2>2, GapsKept DEF Tells, RIInv
<1>7. RTypeOK' /\ RTyped'
  BY <1>1, <1>2, <1>3, <1>4, <1>5, <1>6, Typed, TypedAgain DEF RIInv, IInv
<1>8. HandlesUsed' /\ RecordsProper' /\ PrunesSafe'
  BY <1>1, <1>2, <1>5, UsedStays, RecordsStay DEF RIInv, HandlesUsed
<1>9. StepSound' /\ AskedSound'
  BY <1>1, <1>2, <1>3, <1>4 DEF RIInv, StepSound, AskedSound
<1>10. SourceSound'
  BY <1>1, <1>2, <1>3, <1>4 DEF RIInv, SourceSound, Underway
<1> QED BY <1>2, <1>6, <1>7, <1>8, <1>9, <1>10 DEF RIInv

\* A root that leaves takes its cohort with it, which is told, and leaves the
\* others as they were.
LEMMA GoneRIInv ==
    ASSUME RIInv, IInv', StepSound', AskedSound', NEW h \in DOMAIN by_handle,
           DOMAIN by_handle' = DOMAIN by_handle \ {h},
           \A g \in DOMAIN by_handle' :
              /\ by_handle'[g] = by_handle[g] /\ root_subs'[g] = root_subs[g]
              /\ index'[by_handle[g]] = index[by_handle[g]],
           \A k \in DOMAIN index' : k \in DOMAIN index /\ index'[k] = index[k],
           DOMAIN subs' = DOMAIN subs \ root_subs[h],
           \A s \in DOMAIN subs' : subs'[s] = subs[s],
           DOMAIN source \ {h} \subseteq DOMAIN source', DOMAIN source' \subseteq DOMAIN source,
           \A g \in DOMAIN source' : source'[g] = source[g],
           h \in DOMAIN source' => quarantined \/ closing,
           Channel', NoMorePrunes,
           raised' \subseteq raised, raised \ {h} \subseteq raised',
           untold' \subseteq (untold \cup {s \in DOMAIN subs' :
                                 ~Served(s)' /\ (s \in DOMAIN subs => Served(s))}) \ root_subs[h],
           UNCHANGED <<used, rescanned, asked_cover, root, quarantined, closing>>,
           todo' \subseteq Handle,
           {step, step'} \cap {"rollback", "record"} = {},
           \A g \in DOMAIN by_handle \ {h} : InHand(g) => InHand(g)'
    PROVE  RIInv'
<1>1. GapsNoted' /\ AllServed'
  <2>1. ASSUME NEW s \in DOMAIN subs'
        PROVE  /\ Noted(subs[s].root) => Noted(subs[s].root)'
               /\ Served(s) => Served(s)'
    <3>1. s \in DOMAIN subs /\ subs[s].root \in DOMAIN by_handle /\ subs'[s] = subs[s]
          /\ subs[s].root # h
      BY <2>1, Member DEF RIInv
    <3> QED BY <3>1 DEF Noted, Served
  <2> QED BY <2>1, GapsKept DEF RIInv
<1>2. RTypeOK' /\ RTyped'
  <2>1. /\ DOMAIN source' \subseteq used' /\ raised' \subseteq Handle
        /\ \A g \in DOMAIN source' : source'[g] \in [key : Key, kept : SUBSET Key]
    BY DEF RIInv, RTypeOK
  <2> QED BY <1>1, <2>1, Typed, TypedAgain DEF RIInv, IInv
<1>3. HandlesUsed' /\ RecordsProper'
  BY UsedStays DEF RIInv, HandlesUsed, RecordsProper
<1>4. PrunesSafe'
  <2>1. DOMAIN by_handle' \subseteq Handle
    BY DEF IInv, TypeOK
  <2>2. ASSUME NEW g \in DOMAIN by_handle'
        PROVE  \A s \in root_subs'[g] : s \in root_subs[g] /\ subs'[s].key = subs[s].key
    <3>1. \A s \in root_subs[g] : s \in DOMAIN subs /\ subs[s].root = g
      BY Cohort DEF RIInv
    <3>2. \A s \in root_subs[h] : subs[s].root = h
      BY Cohort DEF RIInv
    <3> QED BY <3>1, <3>2
  <2> QED BY <2>1, <2>2, PrunesFrame DEF RIInv, NoMorePrunes
<1>5. SourceSound'
  <2>1. step \notin {"rollback", "record"} /\ step' \notin {"rollback", "record"}
    OBVIOUS
  <2> QED BY <2>1 DEF RIInv, SourceSound, Underway
<1> QED BY <1>1, <1>2, <1>3, <1>4, <1>5 DEF RIInv

\* The tables after a root has left.
LEMMA RootLeavesIs ==
    ASSUME IInv, NEW h, RootLeaves(h)
    PROVE  /\ h \in DOMAIN by_handle
           /\ DOMAIN by_handle' = DOMAIN by_handle \ {h}
           /\ \A g \in DOMAIN by_handle' :
                 /\ by_handle'[g] = by_handle[g] /\ root_subs'[g] = root_subs[g]
                 /\ index'[by_handle[g]] = index[by_handle[g]]
           /\ \A k \in DOMAIN index' : k \in DOMAIN index /\ index'[k] = index[k]
           /\ DOMAIN subs' = DOMAIN subs \ root_subs[h]
           /\ \A s \in DOMAIN subs' : subs'[s] = subs[s]
           /\ UNCHANGED <<plan, pending>>
<1>1. /\ DOMAIN root_subs = DOMAIN by_handle
      /\ \A g \in DOMAIN by_handle : by_handle[g] \in DOMAIN index /\ index[by_handle[g]].handle = g
  BY DEF IInv, Lockstep
<1> QED BY <1>1 DEF RootLeaves, Drop

LEMMA NotRestoredRIInv == ASSUME RIInv, NEW old \in Handle, NotRestored(old) PROVE RIInv'
<1>1. /\ step \in {"restoring", "retiring"} /\ step' = step
      /\ old \in todo /\ todo' = todo \ {old}
      /\ UNCHANGED <<asked_cover, root, closing, quarantined>>
      /\ UNCHANGED <<source, used, control, deferred_prunes, raised, rescanned>>
      /\ ForceRemoveRoot(old) /\ Tells(root_subs[old])
  BY DEF NotRestored, told_of_retirement, same_question, svars
<1>2. IInv'
  BY <1>1, ForceRemoveRootIInv DEF RIInv
<1>3. RootLeaves(old)
  BY <1>1 DEF ForceRemoveRoot, Removable, RootLeaves
<1>4. /\ old \in DOMAIN by_handle
      /\ DOMAIN by_handle' = DOMAIN by_handle \ {old}
      /\ \A g \in DOMAIN by_handle' :
            /\ by_handle'[g] = by_handle[g] /\ root_subs'[g] = root_subs[g]
            /\ index'[by_handle[g]] = index[by_handle[g]]
      /\ \A k \in DOMAIN index' : k \in DOMAIN index /\ index'[k] = index[k]
      /\ DOMAIN subs' = DOMAIN subs \ root_subs[old]
      /\ \A s \in DOMAIN subs' : subs'[s] = subs[s]
      /\ UNCHANGED plan
  BY <1>3, RootLeavesIs DEF RIInv
<1>5. Channel /\ Channel' /\ NoMorePrunes
  BY <1>1, SamePrunes, Typed DEF RIInv, Channel
<1>6. old \in DOMAIN source' => quarantined \/ closing
  BY <1>1 DEF RIInv, AskedSound
<1>7. StepSound' /\ AskedSound'
  BY <1>1, <1>4 DEF RIInv, StepSound, AskedSound
<1>8. /\ todo' \subseteq Handle
      /\ \A g \in DOMAIN by_handle \ {old} : InHand(g) => InHand(g)'
      /\ {step, step'} \cap {"rollback", "record"} = {}
  BY <1>1 DEF InHand, RIInv, RTypeOK
<1> QED
  BY <1>1, <1>2, <1>4, <1>5, <1>6, <1>7, <1>8, GoneRIInv DEF Tells

LEMMA RetireDeadRIInv == ASSUME RIInv, NEW h \in Handle, RetireDead(h) PROVE RIInv'
<1>1. /\ \/ step = "retire" /\ h = root
         \/ step = "idle" /\ ~closing /\ h \notin DOMAIN source
      /\ step' = "idle"
      /\ UNCHANGED <<asked_cover, root, todo, closing, quarantined>>
      /\ UNCHANGED <<source, used, control, deferred_prunes, rescanned>>
      /\ raised' = raised \ {h}
      /\ ForceRemoveRoot(h) /\ Tells(root_subs[h])
  BY DEF RetireDead, told_of_retirement, goes, same_question
<1>2. IInv'
  BY <1>1, ForceRemoveRootIInv DEF RIInv
<1>3. RootLeaves(h)
  BY <1>1 DEF ForceRemoveRoot, Removable, RootLeaves
<1>4. /\ h \in DOMAIN by_handle
      /\ DOMAIN by_handle' = DOMAIN by_handle \ {h}
      /\ \A g \in DOMAIN by_handle' :
            /\ by_handle'[g] = by_handle[g] /\ root_subs'[g] = root_subs[g]
            /\ index'[by_handle[g]] = index[by_handle[g]]
      /\ \A k \in DOMAIN index' : k \in DOMAIN index /\ index'[k] = index[k]
      /\ DOMAIN subs' = DOMAIN subs \ root_subs[h]
      /\ \A s \in DOMAIN subs' : subs'[s] = subs[s]
      /\ UNCHANGED plan
  BY <1>3, RootLeavesIs DEF RIInv
<1>5. Channel /\ Channel' /\ NoMorePrunes
  BY <1>1, SamePrunes, Typed DEF RIInv, Channel
<1>6. h \notin DOMAIN source'
  BY <1>1 DEF RIInv, AskedSound
<1>7. StepSound' /\ AskedSound'
  BY <1>1, <1>4 DEF RIInv, StepSound, AskedSound
<1>8. /\ todo' \subseteq Handle
      /\ \A g : ~InHand(g)
      /\ {step, step'} \cap {"rollback", "record"} = {}
  BY <1>1 DEF InHand, RIInv, RTypeOK
<1> QED
  BY <1>1, <1>2, <1>4, <1>5, <1>6, <1>7, <1>8, GoneRIInv DEF Tells

\* `detect_shrink`: a prune asks for what the survivors need, and no more than
\* the record says the source still covers.
LEMMA ShrinkSound ==
    ASSUME IInv, RecordsProper, NEW h \in DOMAIN by_handle, NEW T \in SUBSET root_subs[h],
           detect_shrink(h, T) # Full
    PROVE  /\ by_handle[h] \notin KeysOf(T)
           /\ detect_shrink(h, T) = Antichain(KeysOf(T))
           /\ detect_shrink(h, T) \in SUBSET Key
           /\ \A k \in Key : CoveredBy(k, detect_shrink(h, T)) =>
                                ~covered_outside(index[by_handle[h]], k)
<1> DEFINE r == by_handle[h]
           recorded == index[r].cover
           K == KeysOf(T)
           needed == Antichain(K)
<1>1. /\ r \in Key /\ r \in DOMAIN index /\ K \in SUBSET Key
      /\ \A k \in K : StartsWith(k, r)
      /\ recorded \in Cover
  <2>1. /\ r \in Key /\ r \in DOMAIN index /\ recorded \in Cover
        /\ \A s \in root_subs[h] : subs[s].key \in Key /\ StartsWith(subs[s].key, r)
    BY Cohort
  <2> QED BY <2>1 DEF KeysOf
<1>2. needed \in SUBSET Key
  BY <1>1 DEF Antichain
<1>3. detect_shrink(h, T) = IF recorded = Full
                             THEN IF r \in K THEN Full ELSE needed
                             ELSE IF (\A k \in needed : CoveredBy(k, recorded)) /\ needed # recorded
                                  THEN needed ELSE Full
  BY DEF detect_shrink
<1> HIDE DEF r, recorded, K, needed
<1>4. detect_shrink(h, T) = needed
  BY <1>3
<1>5. r \in K => r \in needed
  BY <1>1, PrefixAntisym DEF needed, Antichain
<1>6. recorded # Full => ~CoveredBy(r, recorded)
  BY <1>1 DEF RecordsProper, recorded
<1>7. r \notin K
  BY <1>3, <1>5, <1>6
<1>8. ASSUME NEW k \in Key, CoveredBy(k, needed), recorded # Full PROVE CoveredBy(k, recorded)
  <2>1. PICK n \in needed : StartsWith(k, n)
    BY <1>8 DEF CoveredBy
  <2>2. CoveredBy(n, recorded) /\ n \in Key /\ recorded \in SUBSET Key
    BY <1>1, <1>2, <1>3, <1>8, <2>1 DEF Cover
  <2> QED BY <2>1, <2>2, CoveredBelow
<1> QED BY <1>2, <1>4, <1>7, <1>8 DEF r, recorded, K, needed, covered_outside

LEMMA UnwatchRIInv == ASSUME RIInv, NEW s \in DOMAIN subs, Unwatch(s) PROVE RIInv'
<1> DEFINE h == subs[s].root
           T == root_subs[h] \ {s}
<1>1. /\ step = "idle" /\ ~closing /\ PlanUnwatch(s) /\ idle
      /\ UNCHANGED <<todo, closing, quarantined>>
      /\ UNCHANGED <<used, raised, rescanned>> /\ untold' = untold \ {s}
  BY DEF Unwatch, goes, PlanUnwatch
<1>2. h \in DOMAIN by_handle /\ s \in root_subs[h] /\ s \in Sub
  BY Member DEF RIInv
<1>3. IInv'
  BY <1>1, <1>2, PlanUnwatchIInv DEF RIInv
<1>4. CASE T = {}
  <2>1. root_subs[h] = {s}
    BY <1>2, <1>4
  <2>2. RootLeaves(h)
    BY <1>1, <1>2, <2>1 DEF PlanUnwatch, RootLeaves
  <2>3. /\ step' = "idle" /\ UNCHANGED <<asked_cover, root>>
        /\ IF quarantined THEN UNCHANGED <<source, control, deferred_prunes>>
           ELSE source' = Drop(source, {h}) /\ flush_deferred_prunes({h})
    BY <1>4 DEF Unwatch, goes, same_question, disarm
  <2> HIDE DEF h, T
  <2>4. /\ DOMAIN by_handle' = DOMAIN by_handle \ {h}
        /\ \A g \in DOMAIN by_handle' :
              /\ by_handle'[g] = by_handle[g] /\ root_subs'[g] = root_subs[g]
              /\ index'[by_handle[g]] = index[by_handle[g]]
        /\ \A k \in DOMAIN index' : k \in DOMAIN index /\ index'[k] = index[k]
        /\ DOMAIN subs' = DOMAIN subs \ root_subs[h]
        /\ \A o \in DOMAIN subs' : subs'[o] = subs[o]
        /\ UNCHANGED plan
    BY <2>2, RootLeavesIs DEF RIInv
  <2>5. /\ Channel' /\ NoMorePrunes
        /\ DOMAIN source \ {h} \subseteq DOMAIN source' /\ DOMAIN source' \subseteq DOMAIN source
        /\ \A g \in DOMAIN source' : source'[g] = source[g]
        /\ h \in DOMAIN source' => quarantined
    <3>1. CASE quarantined
      BY <2>3, <3>1, SamePrunes, Typed DEF RIInv, Channel
    <3>2. CASE ~quarantined
      <4>1. Channel' /\ NoMorePrunes
        BY <2>3, <3>2, FlushSound, Typed DEF RIInv
      <4> QED BY <2>3, <3>2, <4>1 DEF Drop
    <3> QED BY <3>1, <3>2
  <2>6. StepSound' /\ AskedSound'
    BY <1>1, <2>3, <2>4 DEF RIInv, StepSound, AskedSound
  <2>7. /\ todo' \subseteq Handle /\ \A g : ~InHand(g)
        /\ {step, step'} \cap {"rollback", "record"} = {}
    BY <1>1, <2>3 DEF InHand, RIInv, RTypeOK
  <2>8. untold' \subseteq (untold \cup {o \in DOMAIN subs' :
                                 ~Served(o)' /\ (o \in DOMAIN subs => Served(o))}) \ root_subs[h]
    BY <1>1, <2>1
  <2> QED
    BY <1>1, <1>2, <1>3, <2>3, <2>4, <2>5, <2>6, <2>7, <2>8, GoneRIInv
<1>5. CASE T # {}
  <2>1. /\ UNCHANGED <<source, control, deferred_prunes>>
        /\ \/ step' = "idle" /\ UNCHANGED <<asked_cover, root>>
           \/ /\ step' = "prune" /\ root' = h /\ asked_cover' = detect_shrink(h, T)
              /\ detect_shrink(h, T) # Full
    BY <1>5 DEF Unwatch, goes, asks, same_question
  <2>2. /\ index' = index /\ by_handle' = by_handle /\ UNCHANGED plan
        /\ DOMAIN subs' = DOMAIN subs \ {s}
        /\ \A o \in DOMAIN subs' : subs'[o] = subs[o]
        /\ root_subs'[h] = T
        /\ \A g \in DOMAIN by_handle : g # h => root_subs'[g] = root_subs[g]
    <3>1. root_subs[h] # {s} /\ DOMAIN root_subs = DOMAIN by_handle
      BY <1>5 DEF RIInv, IInv, Lockstep
    <3> QED BY <1>1, <1>2, <3>1 DEF PlanUnwatch, Drop
  <2>3. \A o \in T : o \in DOMAIN subs'
    BY <1>2, <2>2, Cohort DEF RIInv
  <2> HIDE DEF h, T
  <2>4. Channel /\ Channel' /\ NoMorePrunes /\ \A g : OnTheirWay(g)' = OnTheirWay(g)
    BY <2>1, SamePrunes, Typed DEF RIInv, Channel
  <2>5. GapsNoted' /\ AllServed'
    <3>1. \A o \in DOMAIN subs' : Served(o) <=> Served(o)'
      BY <2>1, <2>2 DEF Served
    <3>2. \A o \in DOMAIN subs' : Noted(subs[o].root) => Noted(subs[o].root)'
      BY <1>1, <2>1, <2>2 DEF Noted, InHand
    <3>3. untold' \subseteq (untold \cup {o \in DOMAIN subs' :
                                 ~Served(o)' /\ (o \in DOMAIN subs => Served(o))}) \ {s}
      BY <1>1
    <3> QED BY <1>1, <2>2, <3>1, <3>2, <3>3, GapsKept DEF RIInv
  <2>6. step' = "prune" =>
           /\ asked_cover' \in SUBSET Key /\ root' \in DOMAIN by_handle /\ root' \in Handle
           /\ asked_cover' = retained_cover_for(root, {})'
           /\ \A k \in Key : CoveredBy(k, asked_cover') =>
                                ~covered_outside(index[by_handle[root']], k)
    <3> SUFFICES ASSUME step' = "prune"
                 PROVE  /\ asked_cover' \in SUBSET Key
                        /\ root' \in DOMAIN by_handle /\ root' \in Handle
                        /\ asked_cover' = retained_cover_for(root, {})'
                        /\ \A k \in Key : CoveredBy(k, asked_cover') =>
                                             ~covered_outside(index[by_handle[root']], k)
      OBVIOUS
    <3>1. /\ root' = h /\ asked_cover' = detect_shrink(h, T) /\ detect_shrink(h, T) # Full
      BY <2>1
    <3>2. T \in SUBSET root_subs[h]
      BY DEF T
    <3>3. /\ by_handle[h] \notin KeysOf(T)
          /\ detect_shrink(h, T) = Antichain(KeysOf(T))
          /\ detect_shrink(h, T) \in SUBSET Key
          /\ \A k \in Key : CoveredBy(k, detect_shrink(h, T)) =>
                                ~covered_outside(index[by_handle[h]], k)
      BY <1>2, <3>1, <3>2, ShrinkSound DEF RIInv
    <3>4. KeysOf(root_subs[root])' = KeysOf(T)
      BY <2>2, <2>3, <3>1 DEF KeysOf
    <3>5. retained_cover_for(root, {})' = Antichain(KeysOf(T))
      BY <2>2, <3>1, <3>3, <3>4 DEF retained_cover_for
    <3>6. h \in Handle
      BY <1>2, Cohort DEF RIInv
    <3> QED BY <1>2, <3>1, <3>3, <3>5, <3>6
  <2>7. RTypeOK' /\ RTyped'
    <3>1. asked_cover' \subseteq Key /\ root' \in Handle \cup {NoHandle}
      BY <2>1, <2>6 DEF RIInv, RTypeOK
    <3> QED BY <1>1, <1>3, <2>1, <2>4, <2>5, <3>1, Typed, TypedAgain DEF RIInv, IInv
  <2>8. HandlesUsed' /\ RecordsProper'
    BY <1>1, <2>2, <2>4, UsedStays DEF RIInv, HandlesUsed, RecordsProper
  <2>9. PrunesSafe'
    <3>1. ASSUME NEW g \in DOMAIN by_handle
          PROVE  \A o \in root_subs'[g] : o \in root_subs[g] /\ subs'[o].key = subs[o].key
      <4>1. \A o \in root_subs'[g] : o \in root_subs[g] /\ o # s
        <5>1. CASE g = h
          BY <2>2, <5>1 DEF T
        <5>2. CASE g # h
          <6>1. \A o \in root_subs[g] : subs[o].root = g
            BY Cohort DEF RIInv
          <6> QED BY <2>2, <5>2, <6>1 DEF h
        <5> QED BY <5>1, <5>2
      <4>2. \A o \in root_subs[g] : o \in DOMAIN subs
        BY Cohort DEF RIInv
      <4> QED BY <2>2, <4>1, <4>2
    <3>2. DOMAIN by_handle' \subseteq Handle
      BY <2>2 DEF RIInv, IInv, TypeOK
    <3> QED BY <2>2, <2>4, <3>1, <3>2, PrunesFrame DEF RIInv
  <2>10. StepSound' /\ AskedSound'
    <3>1. StepSound'
      BY <1>1, <2>1, <2>2 DEF RIInv, StepSound, idle
    <3>2. AskedSound'
      BY <1>1, <2>1, <2>2, <2>6 DEF AskedSound, covered_outside
    <3> QED BY <3>1, <3>2
  <2>11. SourceSound'
    BY <1>1, <2>1, <2>2 DEF RIInv, SourceSound, Underway
  <2> QED BY <1>3, <2>5, <2>7, <2>8, <2>9, <2>10, <2>11 DEF RIInv
<1> QED BY <1>4, <1>5

-----------------------------------------------------------------------------
(* The invariant, and what follows from it.                                *)

LEMMA RInitRIInv == RInit => RIInv
<1> SUFFICES ASSUME RInit PROVE RIInv
  OBVIOUS
<1>1. IInv
  BY InitIInv DEF RInit
<1>2. /\ index = Empty /\ by_handle = Empty /\ root_subs = Empty /\ subs = Empty
      /\ plan = NoPlan /\ source = Empty /\ used = {} /\ control = <<>>
      /\ deferred_prunes = Empty /\ raised = {} /\ step = "idle" /\ asked_cover = {}
      /\ root = NoHandle /\ todo = {} /\ closing = FALSE /\ quarantined = FALSE
      /\ untold = {} /\ rescanned = {}
  BY DEF RInit, Init
<1>3. DOMAIN Empty = {}
  BY DEF Empty
<1>4. \A h : OnTheirWay(h) = {}
  BY <1>2, <1>3 DEF OnTheirWay
<1>5. RTypeOK /\ RTyped
  <2>1. control \in Seq(Handle \X SUBSET Key) /\ Len(control) <= ControlCap
    <3>1. Len(<<>>) = 0 /\ <<>> \in Seq(Handle \X SUBSET Key)
      OBVIOUS
    <3> QED BY <1>2, <3>1, ControlAssumption
  <2>2. closing \in BOOLEAN /\ quarantined \in BOOLEAN
    BY <1>2
  <2> QED BY <1>2, <1>3, <2>1, <2>2 DEF RTypeOK, RTyped
<1>6. HandlesUsed /\ RecordsProper /\ PrunesSafe /\ SourceSound /\ GapsNoted /\ AllServed
  BY <1>2, <1>3, <1>4 DEF HandlesUsed, RecordsProper, PrunesSafe, SourceSound, GapsNoted, AllServed
<1>7. StepSound /\ AskedSound
  BY <1>2 DEF StepSound, AskedSound, NoPlan
<1> QED BY <1>1, <1>5, <1>6, <1>7 DEF RIInv

LEMMA RNextRIInv == ASSUME RIInv, [RNext]_rvars PROVE RIInv'
<1>1. CASE UNCHANGED rvars
  <2>1. IInv'
    BY <1>1, EngineStays DEF rvars, RIInv
  <2>2. /\ UNCHANGED <<index, covers, by_handle, root_subs, subs, pending, next_sub, shared, plan, asked>>
        /\ UNCHANGED <<source, used, control, deferred_prunes, raised, untold, rescanned>>
        /\ UNCHANGED <<step, asked_cover, root, todo, closing, quarantined>>
    BY <1>1 DEF rvars, vars, maps, svars, ovars, hvars
  <2>3. NoMorePrunes /\ \A h : OnTheirWay(h)' = OnTheirWay(h)
    BY <2>2, SamePrunes
  <2>4. (RTypeOK /\ RTyped)'
    BY <2>2 DEF RIInv, RTypeOK, RTyped
  <2>5. HandlesUsed'
    BY <2>2, <2>3, UsedStays DEF RIInv, HandlesUsed
  <2>6. StepSound'
    BY <2>2 DEF RIInv, StepSound
  <2>7. AskedSound'
    BY <2>2 DEF RIInv, AskedSound, cover_for, retained_cover_for, KeysOf, grown_cover
  <2>8. RecordsProper' /\ PrunesSafe'
    BY <2>2, <2>3, RecordsStay DEF RIInv, maps
  <2>9. SourceSound'
    BY <2>2 DEF RIInv, SourceSound, Underway
  <2>10. GapsNoted' /\ AllServed'
    BY <2>2 DEF RIInv, GapsNoted, AllServed, Noted, InHand, Served
  <2> QED BY <2>1, <2>4, <2>5, <2>6, <2>7, <2>8, <2>9, <2>10 DEF RIInv
<1>2. CASE Source
  BY <1>2, SourcePrunesRIInv, SourceLosesRootRIInv, SourceDegradesRIInv DEF Source
<1>3. CASE Owner
  <2>1. ASSUME NEW key \in Key, NEW globs \in Words, Request(key, globs) PROVE RIInv'
    BY <2>1, RequestRIInv
  <2>2. CASE CoveringRootDead \/ Joins \/ BeginGrow \/ GrowApplied \/ RecordGrown \/ GrowFails
    BY <2>2, CoveringRootDeadRIInv, JoinsRIInv, BeginGrowRIInv, GrowAppliedRIInv,
       RecordGrownRIInv, GrowFailsRIInv
  <2>3. CASE BeginArm \/ ArmFails
    BY <2>3, BeginArmRIInv, ArmFailsRIInv
  <2>4. ASSUME NEW h \in Handle, NEW key \in Key, Armed(h, key) \/ Widened(h, key) PROVE RIInv'
    BY <2>4, ArmedRIInv, WidenedRIInv
  <2>5. ASSUME NEW h \in Handle, BeginReplace(h) PROVE RIInv'
    BY <2>5, BeginReplaceRIInv
  <2>6. ASSUME NEW key \in Key, Replaced(key) \/ ReplacedAstray(key) PROVE RIInv'
    BY <2>6, ReplacedRIInv, ReplacedAstrayRIInv
  <2>7. CASE ReplaceRefused \/ RolledBack \/ RollbackFails
    BY <2>7, ReplaceRefusedRIInv, RolledBackRIInv, RollbackFailsRIInv
  <2>8. CASE Release \/ WidenFails \/ WidenAborted
    BY <2>8, ReleaseRIInv, WidenFailsRIInv, WidenAbortedRIInv
  <2>9. ASSUME NEW old \in Handle, NEW h \in Handle, Restored(old, h) PROVE RIInv'
    BY <2>9, RestoredRIInv
  <2>10. ASSUME NEW old \in Handle, NotRestored(old) PROVE RIInv'
    BY <2>10, NotRestoredRIInv
  <2>11. ASSUME NEW s \in DOMAIN subs, Unwatch(s) PROVE RIInv'
    BY <2>11, UnwatchRIInv
  <2>12. CASE Prune
    BY <2>12, PruneRIInv
  <2>13. ASSUME NEW h \in Handle, RetireDead(h) \/ ConsumeRescan(h) PROVE RIInv'
    BY <2>13, RetireDeadRIInv, ConsumeRescanRIInv
  <2>14. CASE CloseWins \/ CloseWinsWiden \/ CloseWinsRestore \/ CloseIdle \/ Teardown
    BY <2>14, CloseWinsRIInv, CloseWinsWidenRIInv, CloseWinsRestoreRIInv, CloseIdleRIInv,
       TeardownRIInv
  <2> QED
    BY <1>3, <2>1, <2>2, <2>3, <2>4, <2>5, <2>6, <2>7, <2>8, <2>9, <2>10, <2>11, <2>12,
       <2>13, <2>14 DEF Owner
<1> QED BY <1>1, <1>2, <1>3 DEF RNext

\* Every step of a reconcile is a step of the engine, or leaves it alone.
LEMMA RNextEngine == ASSUME RIInv, [RNext]_rvars PROVE [Next]_vars
<1>1. CASE UNCHANGED rvars
  BY <1>1 DEF rvars
<1>2. CASE Source
  BY <1>2 DEF Source, SourcePrunes, SourceLosesRoot, SourceDegrades
<1>3. CASE Owner
  <2>1. ASSUME NEW key \in Key, NEW globs \in Words, Request(key, globs) PROVE Next
    BY <2>1 DEF Request, Next
  <2>2. CASE CoveringRootDead \/ Joins \/ GrowApplied \/ GrowFails \/ ArmFails
             \/ RolledBack \/ RollbackFails \/ WidenFails \/ WidenAborted
             \/ CloseWins \/ CloseWinsWiden \/ Teardown
    BY <2>2 DEF CoveringRootDead, Joins, GrowApplied, GrowFails, ArmFails, RolledBack,
       RollbackFails, WidenFails, WidenAborted, CloseWins, CloseWinsWiden, Teardown, Next
  <2>3. CASE BeginGrow \/ BeginArm \/ Release \/ CloseWinsRestore \/ CloseIdle
    BY <2>3 DEF BeginGrow, BeginArm, Release, CloseWinsRestore, CloseIdle
  <2>4. ASSUME NEW h \in Handle, BeginReplace(h) PROVE UNCHANGED vars
    BY <2>4 DEF BeginReplace
  <2>5. CASE ReplaceRefused
    BY <2>5 DEF ReplaceRefused, Next
  <2>6. ASSUME NEW h \in Handle, NEW key \in Key, Armed(h, key) \/ Widened(h, key) PROVE Next
    BY <2>6 DEF Armed, Widened, Next
  <2>7. ASSUME NEW key \in Key, Replaced(key) \/ ReplacedAstray(key) PROVE [Next]_vars
    <3>1. CASE Replaced(key)
      <4>1. root \in Handle
        BY <3>1 DEF Replaced, RIInv, RTypeOK
      <4> QED BY <3>1, <4>1 DEF Replaced, Next
    <3>2. CASE ReplacedAstray(key)
      BY <3>2 DEF ReplacedAstray
    <3> QED BY <2>7, <3>1, <3>2
  <2>8. CASE RecordGrown
    <3>1. grown_cover = retained_cover_for(root, {}) /\ root \in DOMAIN by_handle
      BY <2>8 DEF RecordGrown, RIInv, AskedSound
    <3> QED BY <2>8, <3>1 DEF RecordGrown, Next
  <2>9. ASSUME NEW old \in Handle, NEW h \in Handle, Restored(old, h) PROVE Next
    BY <2>9 DEF Restored, Next
  <2>10. ASSUME NEW old \in Handle, NotRestored(old) PROVE Next
    BY <2>10 DEF NotRestored, Next
  <2>11. ASSUME NEW s \in DOMAIN subs, Unwatch(s) PROVE Next
    <3>1. s \in Sub
      BY Member DEF RIInv
    <3> QED BY <2>11, <3>1 DEF Unwatch, Next
  <2>12. CASE Prune
    <3>1. asked_cover = retained_cover_for(root, {}) /\ root \in DOMAIN by_handle
      BY <2>12 DEF Prune, RIInv, AskedSound
    <3>2. PICK cover \in {{}, retained_cover_for(root, {})} : SetRetainedCover(root, cover)
      BY <2>12, <3>1 DEF Prune, cover_unless_made
    <3> QED BY <3>1, <3>2 DEF Next
  <2>13. ASSUME NEW h \in Handle, RetireDead(h) \/ ConsumeRescan(h) PROVE [Next]_vars
    BY <2>13 DEF RetireDead, ConsumeRescan, DegradeRecord, Next
  <2> QED
    BY <1>3, <2>1, <2>2, <2>3, <2>4, <2>5, <2>6, <2>7, <2>8, <2>9, <2>10, <2>11, <2>12,
       <2>13 DEF Owner
<1> QED BY <1>1, <1>2, <1>3 DEF RNext

-----------------------------------------------------------------------------
(* The theorems.                                                           *)

\* The inductive invariant holds of every behaviour of the owner and a source.
THEOREM ReconcileInvariant == RSpec => []RIInv
<1>1. RInit => RIInv
  BY RInitRIInv
<1>2. RIInv /\ [RNext]_rvars => RIInv'
  BY RNextRIInv
<1> QED BY <1>1, <1>2, PTL DEF RSpec

\* The owner drives the engine as the engine expects to be driven: whatever
\* the source answers, and wherever a close wins, what happens to the engine
\* is a behaviour of it, and everything proved of the engine holds.
THEOREM ReconcileDrivesEngine == RSpec => Spec
<1>1. RInit => Init
  BY DEF RInit
<1>2. RIInv /\ [RNext]_rvars => [Next]_vars
  BY RNextEngine
<1> QED BY <1>1, <1>2, ReconcileInvariant, PTL DEF RSpec, Spec

\* What is armed is recorded and what is recorded is covered: at rest the source
\* holds the recorded roots at their keys and no other, and covers all that a
\* record claims, now and when the prunes on their way have been made.
THEOREM ReconcileRecordsAgree == RSpec => []RecordsAgree
<1>1. RIInv => RecordsAgree
  <2> SUFFICES ASSUME RIInv PROVE RecordsAgree
    OBVIOUS
  <2>1. RTypeOK
    BY DEF RIInv
  <2>2. RecordHonest
    <3> SUFFICES ASSUME step = "idle", ~closing,
                        NEW h \in (DOMAIN by_handle \cap DOMAIN source) \ raised,
                        NEW k \in Descendants(Key, by_handle[h]),
                        ~covered_outside(index[by_handle[h]], k)
                 PROVE  /\ CoveredBy(k, source[h].kept)
                        /\ h \in DOMAIN deferred_prunes => CoveredBy(k, deferred_prunes[h])
                        /\ \A i \in DOMAIN control :
                              control[i][1] = h => CoveredBy(k, control[i][2])
      BY DEF RecordHonest, Resting
    <3>1. CoveredBy(k, source[h].kept)
      BY DEF RIInv, SourceSound, Underway
    <3>2. \A cover \in OnTheirWay(h) : CoveredBy(k, cover)
      BY DEF RIInv, PrunesSafe
    <3> QED BY <3>1, <3>2 DEF OnTheirWay
  <2>3. SourceAgrees
    BY DEF RIInv, SourceSound, SourceAgrees, Resting
  <2> QED BY <2>1, <2>2, <2>3 DEF RecordsAgree
<1> QED BY <1>1, ReconcileInvariant, PTL

\* However a release, a replace, a rollback, a restore or a close ends, a
\* subscription that was cut off from the source was told, or is about to be.
THEOREM ReconcileTells == RSpec => []CutOffIsTold
<1>1. RIInv => CutOffIsTold
  BY DEF RIInv, CutOffIsTold, NoSilentGap, RetiredTold, Resting, GapsNoted, Noted, InHand
<1> QED BY <1>1, ReconcileInvariant, PTL

\* At rest every subscription is covered by the source, or a Rescan told it
\* otherwise, or will: no prune, grow, replace or restore starves it silently.
THEOREM ReconcileServes == RSpec => []ServedOrTold
<1>1. RIInv => ServedOrTold
  BY DEF RIInv, ServedOrTold, Resting, AllServed, Noted, InHand
<1> QED BY <1>1, ReconcileInvariant, PTL

=============================================================================

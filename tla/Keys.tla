-------------------------------- MODULE Keys --------------------------------
(***************************************************************************)
(* Keys are component sequences (`Vec<C>`), ordered by prefix: a key names *)
(* a subtree, and `starts_with` is the containment of subtrees.  The radix *)
(* maps of the umbrella crate are functions on keys; their two queries     *)
(* `get_ancestor` and `descendants` are the two directions of this order.  *)
(***************************************************************************)
EXTENDS Integers, Sequences

\* `<[C]>::starts_with`: the subtree at k lies inside the subtree at p.
StartsWith(k, p) ==
    /\ Len(p) <= Len(k)
    /\ \A i \in 1..Len(p) : p[i] = k[i]

\* The entries of a radix map with domain D on the path from the top to k.
Ancestors(D, k) == {d \in D : StartsWith(k, d)}

\* The entries of a radix map with domain D inside the subtree at k.
Descendants(D, k) == {d \in D : StartsWith(d, k)}

\* `antichain`: the keys that no strictly shorter key of the set covers.
Antichain(K) == {k \in K : \A o \in K : StartsWith(k, o) => Len(o) = Len(k)}

\* Some prefix in the cover contains k.
CoveredBy(k, cover) == \E c \in cover : StartsWith(k, c)

\* The longest key at or above both: the smallest subtree that holds both.
CommonPrefix(a, b) ==
    LET n == CHOOSE i \in 0..Len(a) :
                 /\ i <= Len(b)
                 /\ \A j \in 1..i : a[j] = b[j]
                 /\ i < Len(a) /\ i < Len(b) => a[i + 1] # b[i + 1]
    IN  SubSeq(a, 1, n)

\* A map without the entries at D, and a map with v put at x.
Drop(f, D) == [x \in DOMAIN f \ D |-> f[x]]
Put(f, x, v) == [y \in DOMAIN f \cup {x} |-> IF y = x THEN v ELSE f[y]]

=============================================================================

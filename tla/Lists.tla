-------------------------------- MODULE Lists --------------------------------
(***************************************************************************)
(* What `Vec::retain` and a sort do to a sequence, said by the places of   *)
(* the elements and not by recursion, so that it can be reasoned about.    *)
(***************************************************************************)
EXTENDS Integers, Sequences, FiniteSets

\* The elements of q at the places I, in their order.
Kept(q, I) ==
    [n \in 1 .. Cardinality(I) |->
        q[CHOOSE i \in I : Cardinality({j \in I : j < i}) + 1 = n]]

=============================================================================

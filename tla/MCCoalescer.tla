----------------------------- MODULE MCCoalescer -----------------------------
(* The coalescer with the values its configurations give.                   *)
EXTENDS Coalescer, TLC

Windows == [quiet_window |-> 2, max_hold |-> 3, max_buffered |-> 2]
OwnWindows == [quiet_window |-> 1, max_hold |-> 2, max_buffered |-> 1]

\* Nothing tells the paths of a subscription apart.
Paths == Permutations(Path)

=============================================================================

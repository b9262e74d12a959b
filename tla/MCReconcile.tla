----------------------------- MODULE MCReconcile -----------------------------
(* A root over a root over two leaves; every key can drift to every other.  *)
EXTENDS Reconcile, TLC

MCKey == {<<"a">>, <<"a", "a">>, <<"a", "a", "a">>, <<"a", "a", "b">>}
MCComponent == {"a", "b"}
MCSymmetry == Permutations(Handle)

=============================================================================

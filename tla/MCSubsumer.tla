----------------------------- MODULE MCSubsumer -----------------------------
(* A small tree of keys: two top-level subtrees, the first two levels deep. *)
EXTENDS Subsumer, TLC

MCKey == {<<"a">>, <<"a", "a">>, <<"a", "b">>, <<"a", "a", "b">>, <<"b">>}
MCComponent == {"a", "b"}
MCSymmetry == Permutations(Handle)

=============================================================================

------------------------------ MODULE MCFsArm -------------------------------
(***************************************************************************)
(* /a, and /a/b and /a/c below it, on a backend that descends.             *)
(***************************************************************************)
EXTENDS FsArm

A == [path |-> <<"a">>, id |-> 1, anc |-> {}]
AB == [path |-> <<"a", "b">>, id |-> 2, anc |-> {1}]
AC == [path |-> <<"a", "c">>, id |-> 3, anc |-> {1}]

MCPaths == {A.path, AB.path, AC.path}
MCLands == A.path :> {A} @@ AB.path :> {AB} @@ AC.path :> {AC}

=============================================================================

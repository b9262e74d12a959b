----------------------------- MODULE MCFsScopes -----------------------------
(***************************************************************************)
(* Three paths: /a, /a/b below it, and /c, which is a directory of its own *)
(* or a second way to the directory of /a/b (by a mount there, keeping the *)
(* path; or by a link, landing on /a/b itself).                            *)
(***************************************************************************)
EXTENDS FsScopes, TLC

A == [path |-> <<"a">>, id |-> 1, anc |-> {}]
AB == [path |-> <<"a", "b">>, id |-> 2, anc |-> {1}]
C == [path |-> <<"c">>, id |-> 3, anc |-> {}]
Mounted == [path |-> <<"c">>, id |-> 2, anc |-> {}]

MCPaths == {A.path, AB.path, C.path}
MCLands == A.path :> {A} @@ AB.path :> {AB} @@ C.path :> {C, Mounted}

Symm == Permutations(Clients)

=============================================================================

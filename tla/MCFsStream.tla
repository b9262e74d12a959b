----------------------------- MODULE MCFsStream -----------------------------
(***************************************************************************)
(* A root /a that may be moved up to /, with changes at /a/x and, once the *)
(* root is wide, at /b.                                                    *)
(***************************************************************************)
EXTENDS FsStream

MCPaths == {<<"a", "x">>, <<"b">>}
MCRoot == <<"a">>
MCWide == <<>>

=============================================================================

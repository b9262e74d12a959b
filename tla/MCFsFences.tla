----------------------------- MODULE MCFsFences -----------------------------
(***************************************************************************)
(* A root with one directory and one more path a cover may name.           *)
(***************************************************************************)
EXTENDS FsFences
=============================================================================

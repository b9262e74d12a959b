--------------------------- MODULE StreamContract ---------------------------
(***************************************************************************)
(* What a watched root promises the reader of its event stream, whatever   *)
(* the channel, the lag protocol and the life of the root do in between:   *)
(* every change below the root is told, by an event for it or by a Rescan  *)
(* over it, unless the reader gives the root up first; epochs never run    *)
(* backwards; and once the stream is over nothing more is told and nothing *)
(* is left untold.                                                         *)
(***************************************************************************)
EXTENDS Integers

CONSTANTS Paths     \* where changes happen

VARIABLES
    owed,           \* the paths that changed since the reader was last told of them
    told,           \* the epoch of the last event the reader took
    wanted,         \* the reader has not given the root up
    over            \* the stream has ended

vars == <<owed, told, wanted, over>>

Init == owed = {} /\ told = 0 /\ wanted = TRUE /\ over = FALSE

\* Something changes at p.
Happen(p) ==
    /\ wanted /\ ~over
    /\ owed' = owed \cup {p} /\ UNCHANGED <<told, wanted, over>>

\* The reader takes an event that speaks for the paths in S; it may be the
\* last one when nothing is owed after it.
Tell(S) ==
    /\ ~over /\ told' >= told
    /\ owed' = owed \ S /\ over' \in {FALSE, owed' = {}} /\ UNCHANGED wanted

\* The reader gives the root up, or goes away.
GiveUp ==
    /\ wanted /\ wanted' = FALSE
    /\ owed' = {} /\ over' \in {over, TRUE} /\ UNCHANGED told

\* The root is gone and the reader knows all there was to know.
Finish == owed = {} /\ over' = TRUE /\ UNCHANGED <<owed, told, wanted>>

Next ==
    \/ \E p \in Paths : Happen(p)
    \/ \E S \in SUBSET Paths : Tell(S)
    \/ GiveUp
    \/ Finish

\* What changed is told in the end.
Kept == \A p \in Paths : p \in owed ~> p \notin owed

Spec == Init /\ [][Next]_vars /\ Kept

=============================================================================

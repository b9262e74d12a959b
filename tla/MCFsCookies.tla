---- MODULE MCFsCookies ----
EXTENDS FsCookies, TLC

\* Sound while Grounds has one member: the Rescans that one move owes several
\* barriers are then the same, in whatever order they stand.
Symmetric == Permutations(Calls)

\* Once the driver ends, nothing reads the marks of its turn, the generations and
\* the dominations; once it has nothing more to say, nothing reads what was seen.
Ending == d.pc \in {"closing", "ending", "closed"}
Said == Ending /\ Drained
MCView ==
    IF ~Ending THEN <<vars>>
    ELSE <<[d EXCEPT !.markers = {}], op, [id \in Calls |-> jobs[id].st], [id \in Calls |-> jobs[id].end],
           unlinks, detached, disk, lane, left, told.early, told.spoken,
           IF Said THEN [id \in DOMAIN ledger |-> [ledger[id] EXCEPT !.dom = FALSE]] ELSE ledger,
           IF Said THEN [id \in Calls |-> calls[id].st] ELSE <<calls, told.moved>>>>
====

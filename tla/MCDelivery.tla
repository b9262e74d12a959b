----------------------------- MODULE MCDelivery -----------------------------
(* A root with two subtrees; the second subscription lies inside the first. *)
EXTENDS Delivery

MCKey == {<<"a">>, <<"a", "x">>, <<"a", "y">>}
MCComponent == {"a", "x", "y"}
MCChanges == {{<<"a">>}, {<<"a", "x">>}, {<<"a", "y">>}, {<<"a", "x">>, <<"a", "y">>}}
MCSingles == {{<<"a", "x">>}, {<<"a", "y">>}}
MCKeyOf == [s \in Sub |-> IF s = 1 THEN <<"a">> ELSE <<"a", "x">>]

\* What the channel holds is read by nobody in the model: only its fill counts.
MCView == <<live, root, ledger, retired, held, planes, claims, out, Len(chan), peak, last,
            flushing, control, used, settling, events, owed>>

=============================================================================

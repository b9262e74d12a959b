--------------------------- MODULE MCWatchedTree ---------------------------
EXTENDS WatchedTree

Scenario(planted, ops, losses, faults, heals, when, order) ==
    [planted |-> planted, ops |-> ops, losses |-> losses, faults |-> faults,
     heals |-> heals, when |-> when,
     apart |-> order = "apart", outrun |-> order = "outrun"]

Flat == 2 :> <<1, "a">>
Nested == 2 :> <<1, "a">> @@ 3 :> <<2, "a">>

(* Changes that race the bootstrap, and changes to a settled tree. *)
MCScenarios ==
    { Scenario(Flat, 2, 0, 0, 0, "boot", "in"),
      Scenario(Flat, 1, 0, 1, 0, "any", "in"),
      Scenario(Flat, 1, 1, 0, 0, "any", "outrun"),
      Scenario(Flat, 1, 1, 1, 1, "settled", "in"),
      Scenario(Nested, 2, 0, 0, 0, "settled", "apart"),
      Scenario(Nested, 1, 0, 2, 1, "settled", "in"),
      Scenario(Nested, 1, 1, 0, 0, "settled", "in") }

OutrunScenarios == { Scenario(Flat, 2, 0, 0, 0, "boot", "outrun") }
=============================================================================

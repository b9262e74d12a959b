---------------------------- MODULE MCSyncBarrier ----------------------------
EXTENDS SyncBarrier, TLC

MCSymmetry == Permutations(Call)

\* Of the clocks only their agreement with what a call read of them matters,
\* of a change on the stream nothing, of a call what is not on the stream.
MCView ==
    LET open == {i \in Change : i \notin sent}
    IN  <<[i \in Change |-> IF i \in open THEN <<at[i], i \in covered>> ELSE <<>>],
          queue, claims, raises, buffer, room, needs_rescan, suppressed_rescan,
          pending_syncs, status, markers, pc, cur, todo, hit, unclaimed, live,
          [c \in Call |->
              [sub |-> call[c].sub,
               gen |-> status[c] \in Waiting /\ c \notin pending_syncs /\ call[c].gen = loss_gen,
               clean |-> c \in pending_syncs /\ ~call[c].dominated
                         /\ call[c].serial = loss_serial[call[c].sub],
               before |-> IF status[c] \in {"gone", "busy", "unknown", "retired", "failed", "closed"}
                          THEN {} ELSE call[c].before \cap open]]>>

=============================================================================

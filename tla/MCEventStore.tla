---------------------------- MODULE MCEventStore ----------------------------
(* Small instances of EventStore for TLC.                                  *)
EXTENDS EventStore, TLC

\* A workflow with a step forward, a step back and an end.
MCStart == "triage"
MCState == {"triage", "ready", "cancelled"}
MCMove  == {<<"triage", "ready">>, <<"ready", "triage">>, <<"triage", "cancelled">>,
            <<"ready", "cancelled">>}

\* A smaller workflow, where the run is about the entity.
MCFewStates == {"triage", "ready"}
MCFewMoves  == {<<"triage", "ready">>, <<"ready", "triage">>}

Symmetry == Permutations(Client) \cup Permutations(Key)

\* The variables of a process that its next step can still read.
View == <<disk, lease, pc, acked, lapsed,
          [c \in Client |-> IF pc[c] = "idle" THEN <<>> ELSE <<ask[c]>>],
          [c \in Client |-> IF pc[c] \in {"guard", "load", "evaluate", "decided", "append", "check"}
                            THEN expected[c] ELSE 0],
          [p \in Process |-> IF pc[p] \in {"write", "materialize", "index"} \cup Rebuilding
                             THEN <<seen[p], todo[p]>> ELSE <<>>]>>
=============================================================================

---------------------------- MODULE MCWorkUnits -----------------------------
(* Small instances of WorkUnits for TLC.                                   *)
EXTENDS WorkUnits, TLC

Symmetry == Permutations(Unit) \cup Permutations(Run) \cup Permutations(Finisher)

\* A command matters only while it runs.
View == <<entities, pc, fresh, [c \in Finisher |-> IF pc[c] = "idle" THEN <<>> ELSE <<cmd[c]>>]>>

\* Two finishes run together as long as nothing went wrong, one beside an overtaken one,
\* and none after a command was misled.
Bounded ==
    Cardinality({c \in Finisher : pc[c] # "idle"})
        + (IF overtaken THEN 1 ELSE 0) + (IF misled THEN 2 ELSE 0) <= 2
=============================================================================

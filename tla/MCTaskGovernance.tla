-------------------------- MODULE MCTaskGovernance --------------------------
(* Small instances of TaskGovernance for TLC.                              *)
EXTENDS TaskGovernance, TLC

CONSTANTS ann, bob

\* bob is the approver; the paths can be widened.
MCApproversOf == [o \in Owner |-> {bob}]
MCPaths == {"narrow", "wide"}
MCExtension == [p \in MCPaths |-> {"wide"}]
MCRequiredLevel == [p \in MCPaths |-> 1]

\* The second version touches paths outside the narrow contract.
MCVersion == 1..2
MCTouches == [v \in MCVersion |-> IF v = 1 THEN MCPaths ELSE {"wide"}]

\* What is done to a task after its end is not explored; nobody runs `run finish`,
\* so nobody's expected revision matters.
NotEnded == state \notin Terminal

\* Evidence, findings, waivers and amendments multiply the states most.  At most three
\* of them come together, amendments counting double: enough for a waived finding beside
\* its proof; two pieces of evidence come alone.  What is staged is HEAD or the tree.
MCTrouble == Cardinality(acceptance) + 2 * (scope.version - 1)
             + Cardinality({f \in Finding : finding[f].status # "absent"})
Bounded ==
    /\ NotEnded /\ code.index \in {code.head, code.tree}
    /\ MCTrouble <= CASE evidence = {} -> 3
                       [] Cardinality(evidence) = 1 -> 2
                       [] OTHER -> 0

View == IF state \in {"cancelled", "superseded"} THEN <<state>>
        ELSE <<entities, scopeVars, state, code, proof>>
=============================================================================

------------------------------ MODULE Workflow ------------------------------
(***************************************************************************)
(* The task workflow, state_machine.py: the states, the transitions of     *)
(* DEFAULT_TRANSITIONS and their evaluation.  A guard or condition is a    *)
(* name that holds or does not hold in the context of a transition;        *)
(* `requires` and `when` only differ in the error that names them.         *)
(***************************************************************************)

Working  == {"triage", "ready", "executing", "verifying", "reviewing", "repairing"}
Active   == Working \cup {"waiting_input", "waiting_external"}
Closed   == {"completed", "completed_with_risk"}
Terminal == Closed \cup {"failed", "cancelled", "superseded"}
TaskStates == Active \cup Terminal

Move(from, to, needs) == [from |-> from, to |-> to, needs |-> needs]

Delivery == {"result_submitted", "scope_clean", "current_subject_digest"}
Clean    == {"evidence_complete", "scope_clean", "close_findings_clean", "close_actor_authorized"}

Transitions == {
    Move({"triage"}, "ready", {"triage_complete", "scope_approved", "gates_selected"}),
    Move({"ready"}, "executing", {"runtime_satisfied", "controller_lease_valid",
                                  "work_unit_dependencies_complete", "baseline_recorded"}),
    Move({"executing"}, "verifying", Delivery),
    Move({"verifying"}, "reviewing", {"evidence_complete", "review_required"}),
    Move({"verifying"}, "completed", Clean \cup {"no_review_required"}),
    Move({"reviewing"}, "completed", Clean \cup {"review_complete"}),
    Move({"verifying", "reviewing"}, "repairing", {"blocking_findings_exist"}),
    Move({"repairing"}, "verifying", Delivery),
    Move(Working, "waiting_input", {"human_input_required"}),
    Move({"executing", "verifying", "reviewing"}, "waiting_external", {"external_dependency_pending"}),
    Move({"waiting_input"}, "executing", {"input_received", "risk_surface_unchanged"}),
    Move({"waiting_input"}, "triage", {"input_received", "risk_surface_changed"}),
    Move({"waiting_external"}, "verifying", {"external_evidence_received"}),
    Move({"waiting_external"}, "executing", {"controller_lease_valid", "runtime_satisfied",
                                             "external_dependency_recovered"}),
    Move({"verifying", "reviewing"}, "completed_with_risk", Clean \cup {"risk_acceptance_valid"}),
    Move(Active, "failed", {"unrecoverable_failure"}),
    Move(Active, "cancelled", {"authorized_cancellation"}),
    Move(Active, "superseded", {"successor_task_exists"}) }

\* find_transition returns the first row from source to target: there is one.
ASSUME OneRowPerMove ==
    \A t, u \in Transitions : t.to = u.to /\ t.from \cap u.from # {} => t = u

\* Mutant of Permitted: the guards are not evaluated.
PermittedUnguarded(source, target, holds) ==
    source \in Active /\ \E t \in Transitions : source \in t.from /\ target = t.to

\* evaluate_transition: the names in holds are the ones that are true.
Permitted(source, target, holds) ==
    /\ source \in Active
    /\ \E t \in Transitions : source \in t.from /\ target = t.to /\ t.needs \subseteq holds
=============================================================================

---------------------------- MODULE TaskGovernance --------------------------
(***************************************************************************)
(* The life of one task: the workflow, with the guards that the commands   *)
(* `mac task transition`, cancel and supersede compute from the scope      *)
(* contract, the work units, the evidence, the findings and the code.      *)
(*                                                                         *)
(* Every command is told the revision it expects, so it takes effect in    *)
(* one step (EventStore); entity commands do not look at the task's state. *)
(* The developer changes the code at any time.                             *)
(***************************************************************************)
EXTENDS Workflow, WorkUnits, ScopeContract

CONSTANTS Gate,          \* what evidence can claim
          RequiredGate,  \* the task's required gates and acceptance criteria
          Version,       \* the contents the working tree can have
          Touches,       \* Touches[v]: the allowed_paths under which v's diff is clean
          MaxEvidence,   \* a bound on the pieces of evidence
          Finding,
          Effect,        \* the blocking_effect a finding can have
          Review,        \* independent_review is one of the required gates
          Strict         \* the task's mode is high_risk or audit

ASSUME GovernanceParameters ==
    /\ RequiredGate \subseteq Gate /\ MaxEvidence \in Nat
    /\ Touches \in [Version -> SUBSET Paths]
    /\ Effect \subseteq {"advisory", "waiver_allowed", "block_close"} /\ Effect # {}
    /\ Review \in BOOLEAN /\ Strict \in BOOLEAN

VARIABLES
    state,       \* the task's state
    code,        \* the contents of the working tree, of Git's index and of HEAD
    evidence, finding, acceptance

proof == <<evidence, finding, acceptance>>
vars == <<unitVars, scopeVars, state, code, proof>>

Code == [tree : Version, index : Version, head : Version]

\* `ran`: what the working tree held while the gate ran, which nothing records.
Evidence == [gate : Gate, ran : Version, subject : [content : Code, committed : BOOLEAN],
             valid : BOOLEAN]
Acceptance == [finding : Finding, actor : Actor, expired : BOOLEAN]

\* `hard`: a confirmed blocker or major finding on security or data.
Findings == [status : {"absent", "open", "resolved", "waived"}, effect : Effect, hard : BOOLEAN]

Unopened == CHOOSE effect \in Effect : TRUE

GovernanceTypeOK ==
    /\ UnitsTypeOK /\ ScopeTypeOK
    /\ state \in TaskStates
    /\ code \in Code
    /\ evidence \subseteq Evidence
    /\ finding \in [Finding -> Findings] /\ acceptance \subseteq Acceptance

Init ==
    /\ UnitsInit /\ ScopeInit
    /\ state = "triage"
    /\ \E v \in Version : Touches[v] = Paths /\ code = [tree |-> v, index |-> v, head |-> v]
    /\ evidence = {} /\ acceptance = {}
    /\ finding = [f \in Finding |-> [status |-> "absent", effect |-> Unopened, hard |-> FALSE]]

-----------------------------------------------------------------------------
(* Closing: evaluate_close of governance.py, with the inputs of close.py.  *)

\* Mutant of ScopeClean: only the working tree is compared with the base.
ScopeCleanTree == scope.paths \in Touches[code.tree]

\* changes_since: base to HEAD, HEAD to index, index to working tree.
ScopeClean == \A v \in {code.head, code.index, code.tree} : scope.paths \in Touches[v]

\* workspace_changes finds nothing.
Committed == code.tree = code.index /\ code.index = code.head

\* Mutant of Subject: the index is left out.
SubjectNoIndex == [content |-> [tree |-> code.tree, head |-> code.head], committed |-> Committed]

\* current_code_subject of a clean working tree, else workspace_subject.
Subject == [content |-> code, committed |-> Committed]

\* Mutant of Current: the subject is not compared.
CurrentAnyCode(e) == e.valid /\ e.gate \in RequiredGate

\* evaluate_evidence.
Current(e) == e.valid /\ e.gate \in RequiredGate /\ e.subject = Subject

Covered == \A g \in RequiredGate : \E e \in evidence : e.gate = g /\ Current(e)

\* Mutant of EvidenceComplete: only what is needed has to be current.
EvidenceCovers == Covered

\* Every piece of evidence has to be current, not only those that are needed.
EvidenceComplete == Covered /\ \A e \in evidence : Current(e)

\* Who may accept a risk at the close: the closer and those who gave approvals, as
\* far as they are approvers of the owner.
Acceptors(closer) == ({closer} \cup {a.actor : a \in approvals}) \cap Authorized

\* Mutant of Waivable: only the effect counts.
WaivableByEffect(f) == finding[f].effect = "waiver_allowed"

Waivable(f) == finding[f].effect = "waiver_allowed" /\ ~finding[f].hard

\* validate_risk_acceptance.
Accepted(x, actors) == x.actor \in actors /\ ~x.expired /\ Waivable(x.finding)

Blocking(f) == finding[f].status \in {"open", "waived"} /\ finding[f].effect # "advisory"

FindingsClean(closer) ==
    \A f \in Finding : Blocking(f) =>
        finding[f].effect = "waiver_allowed"
          /\ \E x \in acceptance : x.finding = f /\ Accepted(x, Acceptors(closer))

RisksValid(closer) == \A x \in acceptance : Accepted(x, Acceptors(closer))

UnitsComplete ==
    /\ \E u \in Unit : unit[u] # "absent"
    /\ \A u \in Unit : unit[u] \in {"absent", "completed"}

ReviewNeeded == Review \/ Strict

\* No command records evidence of kind "review", which an independent review needs.
CloseAllowed(closer) ==
    /\ ScopeApproved /\ closer \in Authorized /\ UnitsComplete
    /\ EvidenceComplete /\ FindingsClean(closer) /\ RisksValid(closer)
    /\ ~ReviewNeeded /\ ScopeClean

\* validate_task_invariants, for a task closed by closer.  What it compares besides,
\* files with the log and references with files, is for EventStore.
Validated(closer) ==
    /\ \A x \in result : run[x.run] # "absent" /\ unit[work[x.run]] # "absent"
    /\ state \in Closed =>
          /\ \A u \in Unit : unit[u] \in {"absent", "completed"}
          /\ RequiredGate \subseteq {e.gate : e \in {d \in evidence : d.valid}}
          /\ \A f \in Finding : finding[f].status = "open" => finding[f].effect # "block_close"
          /\ CloseAllowed(closer)

-----------------------------------------------------------------------------
(* Transitions.                                                            *)

ActiveRuns == {r \in Run : run[r] \in {"registered", "running"}}

RunsMayWork ==
    /\ ActiveRuns # {}
    /\ \A r \in ActiveRuns :
          /\ unit[work[r]] \in {"ready", "running"}
          /\ \A v \in depends[work[r]] : unit[v] = "completed"

If(holds, names) == IF holds THEN names ELSE {}

\* _transition_context and the lease the repository takes: the names that hold.
\* The others are never set, whatever the target.  Tasks are created with mode,
\* acceptance criteria, owners, gates, a profile that can execute, and a baseline.
Context(target, actor) ==
    {"triage_complete", "gates_selected", "runtime_satisfied", "baseline_recorded",
     "current_subject_digest", "controller_lease_valid", "authorized_cancellation",
     "risk_surface_unchanged"}
    \cup If(ScopeApproved, {"scope_approved"})
    \cup If(result # {} /\ UnitsComplete, {"result_submitted"})
    \cup If(ScopeClean, {"scope_clean"})
    \cup If(RunsMayWork, {"work_unit_dependencies_complete"})
    \cup If(target \notin Closed \/ EvidenceComplete, {"evidence_complete"})
    \cup If(target \notin Closed \/ FindingsClean(actor), {"close_findings_clean"})
    \cup If(target \in Closed /\ ~ReviewNeeded, {"review_complete"})
    \cup If(target # "completed_with_risk" \/ CloseAllowed(actor), {"risk_acceptance_valid"})
    \cup If(actor \in Authorized, {"close_actor_authorized"})
    \cup {IF Review THEN "review_required" ELSE "no_review_required"}

\* Mutant of Gated: the close gates are left to the guards of the workflow.
GatedByWorkflow(target, actor) == TRUE

Gated(target, actor) == target \in Closed => CloseAllowed(actor)

\* `mac task transition`.
Transition(target, actor) ==
    /\ Gated(target, actor)
    /\ Permitted(state, target, Context(target, actor))
    /\ state' = target
    /\ Commit
    /\ UNCHANGED <<entities, scopeVars, code, proof>>

\* `mac task cancel` and `mac task supersede`, with a context of their own.
Stop(target, name) ==
    /\ Permitted(state, target, {name, "risk_surface_unchanged", "no_review_required",
                                 "controller_lease_valid"})
    /\ state' = target
    /\ Commit
    /\ UNCHANGED <<entities, scopeVars, code, proof>>

-----------------------------------------------------------------------------
(* Evidence.                                                               *)

Record(e) ==
    /\ Cardinality(evidence \cup {e}) <= MaxEvidence
    /\ evidence' = evidence \cup {e}
    /\ Commit
    /\ UNCHANGED <<entities, scopeVars, state, code, finding, acceptance>>

\* `mac evidence record`: bound to HEAD, if the working tree is equal to it, or to
\* the working tree.
RecordEvidence(g, passed, commit) ==
    /\ commit => Committed
    /\ Record([gate |-> g, ran |-> code.tree, subject |-> [Subject EXCEPT !.committed = commit],
               valid |-> passed])

\* `mac evidence promote`: a copy bound to HEAD; the original stays.  Of the subject
\* only the index is compared with the commit (edits are of tracked files), not the
\* working tree that the gate ran on.
PromoteEvidence(e) ==
    /\ e \in evidence /\ ~e.subject.committed
    /\ Committed /\ e.subject.content.index = code.head
    /\ Record([e EXCEPT !.subject = Subject])

\* `mac evidence invalidate`.
InvalidateEvidence(e) ==
    /\ e \in evidence
    /\ evidence' = (evidence \ {e}) \cup {[e EXCEPT !.valid = FALSE]}
    /\ Commit
    /\ UNCHANGED <<entities, scopeVars, state, code, finding, acceptance>>

-----------------------------------------------------------------------------
(* Findings.                                                               *)

SetFinding(f, new) ==
    /\ finding' = [finding EXCEPT ![f] = new]
    /\ Commit
    /\ UNCHANGED <<entities, scopeVars, state, code, evidence>>

OpenFinding(f, effect, hard) ==
    /\ finding[f].status = "absent"
    /\ SetFinding(f, [status |-> "open", effect |-> effect, hard |-> hard])
    /\ UNCHANGED acceptance

ResolveFinding(f) ==
    /\ finding[f].status # "absent"
    /\ SetFinding(f, [finding[f] EXCEPT !.status = "resolved"])
    /\ UNCHANGED acceptance

\* `mac finding waive`, by any approver of the owner.
WaiveFinding(f, actor) ==
    LET x == [finding |-> f, actor |-> actor, expired |-> FALSE] IN
    /\ finding[f].status # "absent" /\ Accepted(x, Authorized)
    /\ acceptance' = acceptance \cup {x}
    /\ SetFinding(f, [finding[f] EXCEPT !.status = "waived"])

\* expires_at passes.
Expire(x) ==
    /\ x \in acceptance /\ ~x.expired
    /\ acceptance' = (acceptance \ {x}) \cup {[x EXCEPT !.expired = TRUE]}
    /\ UNCHANGED <<unitVars, scopeVars, state, code, evidence, finding>>

-----------------------------------------------------------------------------
(* The other components and the developer.                                 *)

\* ResultService.submit: the scope is approved and the diff within it.
Submit(r, outcome) ==
    /\ ScopeApproved /\ ScopeClean
    /\ SubmitResult(r, outcome)
    /\ UNCHANGED <<scopeVars, state, code, proof>>

Work ==
    /\ \/ \E u \in Unit : ReadyUnit(u) \/ \E units \in SUBSET Unit : NewUnit(u, units)
       \/ \E r \in Run, u \in Unit : RegisterRun(r, u)
       \/ FinishNext \/ RebuildUnits
    /\ UNCHANGED <<scopeVars, state, code, proof>>

ChangeScope == ScopeNext /\ Commit /\ UNCHANGED <<entities, state, code, proof>>

Edit(v) ==
    /\ v # code.tree
    /\ code' = [code EXCEPT !.tree = v]
    /\ UNCHANGED <<unitVars, scopeVars, state, proof>>

\* `git add`, and `git commit`.
Stage ==
    /\ code.index # code.tree
    /\ code' = [code EXCEPT !.index = code.tree]
    /\ UNCHANGED <<unitVars, scopeVars, state, proof>>

CommitCode ==
    /\ code.head # code.index
    /\ code' = [code EXCEPT !.head = code.index]
    /\ UNCHANGED <<unitVars, scopeVars, state, proof>>

Next ==
    \/ \E target \in TaskStates, actor \in Actor : Transition(target, actor)
    \/ Stop("cancelled", "authorized_cancellation")
    \/ Stop("superseded", "successor_task_exists")
    \/ \E g \in Gate, passed, commit \in BOOLEAN : RecordEvidence(g, passed, commit)
    \/ \E e \in evidence : PromoteEvidence(e) \/ InvalidateEvidence(e)
    \/ \E f \in Finding :
          \/ \E effect \in Effect, hard \in BOOLEAN : OpenFinding(f, effect, hard)
          \/ ResolveFinding(f)
          \/ \E actor \in Actor : WaiveFinding(f, actor)
    \/ \E x \in acceptance : Expire(x)
    \/ \E r \in Run, outcome \in {"succeeded", "failed"} : Submit(r, outcome)
    \/ Work \/ ChangeScope
    \/ Stage \/ CommitCode \/ \E v \in Version : Edit(v)

Spec == Init /\ [][Next]_vars

-----------------------------------------------------------------------------
(* Properties.                                                             *)

Closes == state \notin Closed /\ state' \in Closed

\* A task is closed on delivered work only: a result for every work unit, a diff
\* within a contract that somebody else than its proposer approved, by an approver.
ClosesDelivered ==
    [][Closes =>
        /\ \A u \in Unit : unit[u] # "absent" => Succeeded(u)
        /\ \E u \in Unit : Succeeded(u)
        /\ \A v \in {code.tree, code.head} : scope.paths \in Touches[v]
        /\ \E a \in approvals : a.actor \in Authorized \ {scope.proposer}]_vars

\* A task is closed on proof of the code as it is: every gate has run, and passed, on
\* what the working tree holds.  A promoted copy never carries a close, because the
\* original beside it is out of date.
ClosesProven ==
    [][Closes =>
        \A g \in RequiredGate : \E e \in evidence :
            e.gate = g /\ e.valid /\ e.ran = code.tree]_vars

\* A confirmed security or data finding is never waived away: a task is only
\* closed when it has been resolved, or was advisory from the start.
SeriousFindingsResolved ==
    [][Closes => \A f \in Finding :
        finding[f].hard => finding[f].status \in {"absent", "resolved"} \/ finding[f].effect = "advisory"]_vars

\* The two judges of a closed task agree: what the commands close, `mac validate`
\* accepts, with the actor who closed it, as long as nothing is changed.
ClosesValid == [][Closes => \E closer \in Actor : Validated(closer)']_vars

\* No task leaves triage, except to be stopped, before the log has an approval of
\* its contract; later amendments and crashes included.
NothingStartsUnapproved ==
    state \notin {"triage", "cancelled", "superseded"} => \E a \in signed : a.level > 0

\* Evidence is complete when valid evidence for the present code covers what the
\* task requires: a gate that failed can be repeated.
RerunSuffices ==
    \A actor \in Actor : state = "verifying" /\ Covered => "evidence_complete" \in Context("completed", actor)

\* A blocking finding sends the task to repairing.
BlockingFindingIsRepaired ==
    state \in {"verifying", "reviewing"} /\ (\E f \in Finding : Blocking(f)) =>
        \E actor \in Actor : Permitted(state, "repairing", Context("repairing", actor))
=============================================================================

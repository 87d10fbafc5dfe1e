------------------------ MODULE TaskGovernanceProofs ------------------------
(***************************************************************************)
(* Theorems about ScopeContract and TaskGovernance, for any actors, owners *)
(* and paths, any workflow of amendments, and any number of work units,    *)
(* gates, findings and versions of the code.                               *)
(***************************************************************************)
EXTENDS TaskGovernance, WorkUnitsProofs

-----------------------------------------------------------------------------
(* The scope contract.                                                     *)

\* Every approval that is read is in the log, and an approval of the contract
\* in force is among them.
ApprovalsSigned == approvals \subseteq signed

ScopeSound == ScopeTypeOK /\ ApprovalsSigned /\ ApprovedIndependently /\ HistoryComplete

LEMMA ScopeSoundInit == ASSUME ScopeInit PROVE ScopeSound
  BY DEF ScopeInit, ScopeSound, ScopeTypeOK, Contract, ApprovalsSigned, ApprovedIndependently, HistoryComplete

LEMMA ReachedFiles == ASSUME NEW f \in Nat, NEW n \in Reached(f) PROVE n \in Nat
  BY ScopeParameters DEF Reached

LEMMA ScopeStep == ASSUME ScopeSound, ScopeNext PROVE ScopeSound'
  <1> USE ScopeParameters, ReachedFiles
      DEF ScopeSound, ScopeTypeOK, Contract, Approval, ApprovalsSigned, ApprovedIndependently, HistoryComplete,
          ScopeApproved, Valid, Authorized
  <1>1. ASSUME NEW actor \in Actor, NEW paths \in Paths, Amend(actor, paths) PROVE ScopeSound'
    <2> DEFINE new == [version |-> scope.version + 1, status |-> "proposed", proposer |-> actor,
                       owner |-> scope.owner, paths |-> paths]
    <2>1. PICK n \in Reached(2) : AmendFiles(n, new)
      BY <1>1 DEF Amend
    <2>2. n \in Nat /\ scope.version \in Nat /\ UNCHANGED <<approvals, signed>>
      BY <1>1, <2>1 DEF Amend
    <2>3. new \in Contract /\ new.version = scope.version + 1 /\ new.status = "proposed"
      BY <2>2
    <2> HIDE DEF new, Contract
    <2>4. /\ history' = history \/ history' = history \cup {scope.version}
          /\ scope' = scope \/ (scope' = new /\ history' = history \cup {scope.version})
      BY <2>1, <2>2 DEF AmendFiles
    <2>5. CASE scope' = scope
      BY <2>2, <2>4, <2>5
    <2>6. CASE scope' = new /\ history' = history \cup {scope.version}
      <3>1. ScopeTypeOK' /\ ApprovalsSigned' /\ ApprovedIndependently'
        BY <2>2, <2>3, <2>6
      <3>2. ASSUME NEW v \in 1..(scope'.version - 1) PROVE v \in history'
        BY <2>2, <2>3, <2>6, <3>2
      <3> QED  BY <3>1, <3>2
    <2> QED  BY <2>4, <2>5, <2>6
  <1>2. ASSUME NEW actor \in Actor, NEW owner \in Owner, NEW paths \in Paths, Propose(actor, owner, paths)
        PROVE ScopeSound'
    BY <1>2 DEF Propose
  <1>3. ASSUME NEW a \in Approval, Approve(a) PROVE ScopeSound'
    BY <1>3 DEF Approve, ApproveFiles
  <1>4. ASSUME NEW a \in Approval, RecordApproval(a) PROVE ScopeSound'
    BY <1>4 DEF RecordApproval
  <1>5. CASE RebuildScope
    BY <1>5 DEF RebuildScope
  <1> QED  BY <1>1, <1>2, <1>3, <1>4, <1>5 DEF ScopeNext

-----------------------------------------------------------------------------
(* A step of the task is one of its work units, of its scope contract, or  *)
(* of neither.                                                             *)

LEMMA PartsOfSteps ==
    ASSUME Next
    PROVE  /\ [UnitsNext]_unitVars \/ (Commit /\ UNCHANGED entities)
           /\ ScopeNext \/ UNCHANGED scopeVars
  <1> USE DEF unitVars, entities, logs, calls
  <1>1. ASSUME NEW target \in TaskStates, NEW actor \in Actor, Transition(target, actor)
        PROVE  Commit /\ UNCHANGED <<entities, scopeVars>>
    BY <1>1 DEF Transition
  <1>2. ASSUME NEW target, NEW name, Stop(target, name)
        PROVE  Commit /\ UNCHANGED <<entities, scopeVars>>
    BY <1>2 DEF Stop
  <1>3. ASSUME NEW e, Record(e) \/ InvalidateEvidence(e)
        PROVE  Commit /\ UNCHANGED <<entities, scopeVars>>
    BY <1>3 DEF Record, InvalidateEvidence
  <1>4. ASSUME NEW f, NEW new, SetFinding(f, new)
        PROVE  Commit /\ UNCHANGED <<entities, scopeVars>>
    BY <1>4 DEF SetFinding
  <1>5. CASE \E x \in acceptance : Expire(x)
    BY <1>5 DEF Expire
  <1>6. CASE \E r \in Run, outcome \in {"succeeded", "failed"} : Submit(r, outcome)
    BY <1>6 DEF Submit, UnitsNext
  <1>7. CASE Work
    BY <1>7 DEF Work, UnitsNext
  <1>8. CASE ChangeScope
    BY <1>8 DEF ChangeScope
  <1>9. CASE Stage \/ CommitCode \/ \E v \in Version : Edit(v)
    BY <1>9 DEF Stage, CommitCode, Edit
  <1> QED
    BY <1>1, <1>2, <1>3, <1>4, <1>5, <1>6, <1>7, <1>8, <1>9
    DEF Next, RecordEvidence, PromoteEvidence, OpenFinding, ResolveFinding, WaiveFinding

LEMMA CommitKeepsSound == ASSUME Sound, Commit, UNCHANGED entities PROVE Sound'
  <1>1. UnitsTypeOK' /\ FilesFollow' /\ RunsKnown' /\ CallsKnown' /\ RunsStarted' /\ ResultsOfRuns'
    BY DEF Commit, entities, logs, Sound, RunsSound, UnitsTypeOK, FilesFollow, RunsKnown, CallsKnown,
           RunsStarted, ResultsOfRuns
  <1>2. CompletedIsDelivered' /\ Finished' /\ Delivered'
    BY DEF entities, logs, Sound, CompletedIsDelivered, Finished, Delivered, Succeeded
  <1> QED  BY <1>1, <1>2 DEF Sound, RunsSound

PartsSound == Sound /\ ScopeSound

LEMMA PartsStep == ASSUME PartsSound, [Next]_vars PROVE PartsSound'
  <1>1. Sound'
    BY PartsOfSteps, CommitKeepsSound, SoundStep DEF PartsSound, vars
  <1>2. ScopeSound'
    <2>1. CASE UNCHANGED scopeVars
      BY <2>1 DEF PartsSound, scopeVars, ScopeSound, ScopeTypeOK, ApprovalsSigned, ApprovedIndependently,
                  HistoryComplete, ScopeApproved, Valid, Authorized
    <2> QED  BY <2>1, PartsOfSteps, ScopeStep DEF PartsSound, vars
  <1> QED  BY <1>1, <1>2 DEF PartsSound

LEMMA PartsAlways == Spec => []PartsSound
  <1>1. Init => PartsSound
    BY SoundInit, ScopeSoundInit DEF Init, PartsSound
  <1>2. PartsSound /\ [Next]_vars => PartsSound'
    BY PartsStep
  <1> QED  BY <1>1, <1>2, PTL DEF Spec

\* The contract in force is approved by somebody else than its proposer.
THEOREM ContractsAreApproved == Spec => []ApprovedIndependently
  <1>1. PartsSound => ApprovedIndependently
    BY DEF PartsSound, ScopeSound
  <1> QED  BY PartsAlways, <1>1, PTL

\* Every earlier version of the contract is kept.
THEOREM ContractsAreKept == Spec => []HistoryComplete
  <1>1. PartsSound => HistoryComplete
    BY DEF PartsSound, ScopeSound
  <1> QED  BY PartsAlways, <1>1, PTL

-----------------------------------------------------------------------------
(* Type correctness.                                                       *)

LEMMA ActiveStates == \A t \in Transitions : t.from \subseteq Active /\ t.to \in TaskStates
  BY DEF Transitions, Move, Active, Working, TaskStates, Terminal, Closed

OwnTypeOK ==
    /\ state \in TaskStates
    /\ code \in Code
    /\ evidence \subseteq Evidence
    /\ finding \in [Finding -> Findings] /\ acceptance \subseteq Acceptance

LEMMA OwnTypeStep == ASSUME OwnTypeOK, [Next]_vars PROVE OwnTypeOK'
  <1> USE DEF OwnTypeOK, proof
  <1>1. ASSUME NEW target \in TaskStates, NEW actor \in Actor, Transition(target, actor) PROVE OwnTypeOK'
    BY <1>1 DEF Transition
  <1>2. ASSUME NEW target \in TaskStates, NEW name, Stop(target, name) PROVE OwnTypeOK'
    BY <1>2 DEF Stop
  <1>3. ASSUME NEW e \in Evidence, Record(e) PROVE OwnTypeOK'
    BY <1>3 DEF Record
  <1>4. ASSUME NEW g \in Gate, NEW passed \in BOOLEAN, NEW commit \in BOOLEAN,
               RecordEvidence(g, passed, commit)
        PROVE  OwnTypeOK'
    <2>1. [gate |-> g, ran |-> code.tree, subject |-> [Subject EXCEPT !.committed = commit],
           valid |-> passed] \in Evidence
      BY DEF Evidence, Subject, Code
    <2> QED  BY <1>3, <1>4, <2>1 DEF RecordEvidence
  <1>5. ASSUME NEW e \in evidence, PromoteEvidence(e) PROVE OwnTypeOK'
    <2>1. [e EXCEPT !.subject = Subject] \in Evidence
      BY DEF Evidence, Subject, Code, Committed
    <2> QED  BY <1>3, <1>5, <2>1 DEF PromoteEvidence
  <1>6. ASSUME NEW e \in evidence, InvalidateEvidence(e) PROVE OwnTypeOK'
    BY <1>6 DEF InvalidateEvidence, Evidence
  <1>7. ASSUME NEW f \in Finding, NEW new \in Findings, SetFinding(f, new), acceptance' \subseteq Acceptance
        PROVE  OwnTypeOK'
    BY <1>7 DEF SetFinding
  <1>8. ASSUME NEW f \in Finding, NEW effect \in Effect, NEW hard \in BOOLEAN, OpenFinding(f, effect, hard)
        PROVE  OwnTypeOK'
    BY <1>7, <1>8 DEF OpenFinding, Findings
  <1>9. ASSUME NEW f \in Finding, ResolveFinding(f) PROVE OwnTypeOK'
    BY <1>7, <1>9 DEF ResolveFinding, Findings
  <1>10. ASSUME NEW f \in Finding, NEW actor \in Actor, WaiveFinding(f, actor) PROVE OwnTypeOK'
    <2> DEFINE x == [finding |-> f, actor |-> actor, expired |-> FALSE]
    <2>1. x \in Acceptance /\ [finding[f] EXCEPT !.status = "waived"] \in Findings
      BY DEF Acceptance, Findings
    <2>2. acceptance' = acceptance \cup {x} /\ SetFinding(f, [finding[f] EXCEPT !.status = "waived"])
      BY <1>10 DEF WaiveFinding
    <2> QED  BY <1>7, <2>1, <2>2
  <1>11. ASSUME NEW x \in acceptance, Expire(x) PROVE OwnTypeOK'
    BY <1>11 DEF Expire, Acceptance
  <1>12. CASE \E r \in Run, outcome \in {"succeeded", "failed"} : Submit(r, outcome)
    BY <1>12 DEF Submit
  <1>13. CASE Work \/ ChangeScope
    BY <1>13 DEF Work, ChangeScope
  <1>14. CASE Stage \/ CommitCode \/ \E v \in Version : Edit(v)
    BY <1>14 DEF Stage, CommitCode, Edit, Code
  <1>15. CASE UNCHANGED vars
    BY <1>15 DEF vars
  <1>16. "cancelled" \in TaskStates /\ "superseded" \in TaskStates
    BY DEF TaskStates, Terminal
  <1> QED
    BY <1>1, <1>2, <1>4, <1>5, <1>6, <1>8, <1>9, <1>10, <1>11, <1>12, <1>13, <1>14, <1>15, <1>16 DEF Next

\* Every variable of TaskGovernance stays in its range.
THEOREM GovernanceTypeCorrect == Spec => []GovernanceTypeOK
  <1>1. Init => OwnTypeOK
    BY GovernanceParameters
    DEF Init, OwnTypeOK, TaskStates, Active, Working, Code, Evidence, Acceptance, Findings, Unopened
  <1>2. OwnTypeOK /\ [Next]_vars => OwnTypeOK'
    BY OwnTypeStep
  <1>3. PartsSound /\ OwnTypeOK => GovernanceTypeOK
    BY DEF PartsSound, Sound, RunsSound, ScopeSound, OwnTypeOK, GovernanceTypeOK
  <1> QED  BY <1>1, <1>2, <1>3, PartsAlways, PTL DEF Spec

-----------------------------------------------------------------------------
(* Nothing starts unapproved.                                              *)

\* Out of triage lead an approved contract, or commands that stop the task; the
\* context never has what the other rows need.
LEMMA OutOfTriage ==
    ASSUME NEW target, NEW holds, Permitted("triage", target, holds),
           "human_input_required" \notin holds, "unrecoverable_failure" \notin holds
    PROVE  "scope_approved" \in holds \/ target \in {"cancelled", "superseded"}
  BY DEF Permitted, Transitions, Move, Active, Working

LEMMA ContextHolds ==
    ASSUME NEW target, NEW actor
    PROVE  /\ "human_input_required" \notin Context(target, actor)
           /\ "unrecoverable_failure" \notin Context(target, actor)
           /\ "scope_approved" \in Context(target, actor) => ScopeApproved
  BY DEF Context, If

LEMMA ApprovedIsSigned ==
    ASSUME ScopeSound, ScopeApproved PROVE \E a \in signed : a.level > 0
  <1>1. PICK a \in approvals : Valid(a)
    BY DEF ScopeApproved
  <1>2. scope.paths \in Paths /\ a \in signed /\ a.level \in Nat
    BY ScopeParameters DEF ScopeSound, ScopeTypeOK, ApprovalsSigned, Approval, Contract
  <1>3. RequiredLevel[scope.paths] \in Nat \ {0}
    BY <1>2, ScopeParameters
  <1> QED  BY <1>1, <1>2, <1>3 DEF Valid

LEMMA SignedStays == ASSUME ScopeNext PROVE signed \subseteq signed'
  BY DEF ScopeNext, Amend, Propose, Approve, RecordApproval, RebuildScope

\* The steps that change the state of the task.
LEMMA StateSteps ==
    ASSUME [Next]_vars, state' # state
    PROVE  /\ signed' = signed
           /\ \/ \E target \in TaskStates, actor \in Actor : Transition(target, actor)
              \/ Stop("cancelled", "authorized_cancellation")
              \/ Stop("superseded", "successor_task_exists")
  BY DEF Next, vars, Transition, Stop, RecordEvidence, PromoteEvidence, Record, InvalidateEvidence,
         OpenFinding, ResolveFinding, WaiveFinding, SetFinding, Expire, Submit, Work, ChangeScope,
         Stage, CommitCode, Edit, scopeVars

\* No task is worked on before the log has an approval of its contract.
THEOREM WorkIsApproved == Spec => []NothingStartsUnapproved
  <1>1. Init => NothingStartsUnapproved
    BY DEF Init, NothingStartsUnapproved
  <1>2. ASSUME PartsSound, NothingStartsUnapproved, [Next]_vars PROVE NothingStartsUnapproved'
    <2>1. CASE state' = state
      BY <1>2, <2>1, PartsOfSteps, SignedStays DEF NothingStartsUnapproved, scopeVars, vars
    <2>2. ASSUME state' # state, NEW target \in TaskStates, NEW actor \in Actor, Transition(target, actor)
          PROVE  NothingStartsUnapproved'
      <3>1. state' = target /\ state \in Active /\ Permitted(state, target, Context(target, actor))
        BY <2>2 DEF Transition, Permitted
      <3>2. CASE state = "triage"
        BY <1>2, <2>2, <3>1, <3>2, OutOfTriage, ContextHolds, ApprovedIsSigned, StateSteps
        DEF NothingStartsUnapproved, PartsSound
      <3>3. CASE state # "triage"
        BY <1>2, <2>2, <3>1, <3>3, StateSteps DEF NothingStartsUnapproved, Active, Working
      <3> QED  BY <3>2, <3>3
    <2>3. CASE Stop("cancelled", "authorized_cancellation") \/ Stop("superseded", "successor_task_exists")
      BY <2>3 DEF Stop, NothingStartsUnapproved
    <2> QED  BY <1>2, <2>1, <2>2, <2>3, StateSteps
  <1> QED  BY <1>1, <1>2, PartsAlways, PTL DEF Spec

-----------------------------------------------------------------------------
(* Closing.                                                                *)

\* A task is closed by `mac task transition` only, when all gates are open.
LEMMA ClosingSteps ==
    ASSUME [Next]_vars, Closes
    PROVE  \E actor \in Actor : CloseAllowed(actor)
  <1>1. state' # state /\ state' \in Closed
    BY DEF Closes
  <1>2. PICK target \in TaskStates, actor \in Actor : Transition(target, actor)
    BY <1>1, StateSteps DEF Closed, Stop
  <1> QED  BY <1>1, <1>2 DEF Transition, Gated

\* A task is closed on delivered work within an approved contract only.
THEOREM ClosedWorkIsDelivered == Spec => ClosesDelivered
  <1>1. ASSUME PartsSound, [Next]_vars, Closes
        PROVE  /\ \A u \in Unit : unit[u] # "absent" => Succeeded(u)
               /\ \E u \in Unit : Succeeded(u)
               /\ \A v \in {code.tree, code.head} : scope.paths \in Touches[v]
               /\ \E a \in approvals : a.actor \in Authorized \ {scope.proposer}
    <2>1. PICK actor \in Actor : CloseAllowed(actor)
      BY <1>1, ClosingSteps
    <2>2. \A u \in Unit : unit[u] # "absent" => Succeeded(u)
      BY <1>1, <2>1 DEF CloseAllowed, UnitsComplete, PartsSound, Sound, CompletedIsDelivered
    <2>3. \E u \in Unit : Succeeded(u)
      BY <2>1, <2>2 DEF CloseAllowed, UnitsComplete
    <2>4. \E a \in approvals : a.actor \in Authorized \ {scope.proposer}
      BY <2>1 DEF CloseAllowed, ScopeApproved, Valid
    <2> QED  BY <2>1, <2>2, <2>3, <2>4 DEF CloseAllowed, ScopeClean
  <1> QED  BY <1>1, PartsAlways, PTL DEF Spec, ClosesDelivered

\* Evidence is bound to what its gate ran on, or it was promoted and the original,
\* which is bound to the working tree of that time, is still there.
OriginalsKept ==
    \A e \in evidence :
        \/ e.ran = e.subject.content.tree
        \/ e.subject.committed /\ \E d \in evidence : d.gate = e.gate /\ ~d.subject.committed

LEMMA OriginalsStay == ASSUME GovernanceTypeOK, OriginalsKept, [Next]_vars PROVE OriginalsKept'
  <1> USE DEF GovernanceTypeOK, OriginalsKept
  <1>1. CASE evidence' = evidence
    BY <1>1
  <1>2. ASSUME NEW g \in Gate, NEW passed \in BOOLEAN, NEW commit \in BOOLEAN,
               RecordEvidence(g, passed, commit)
        PROVE  OriginalsKept'
    BY <1>2 DEF RecordEvidence, Record, Subject
  <1>3. ASSUME NEW e \in evidence, PromoteEvidence(e) PROVE OriginalsKept'
    <2> DEFINE new == [e EXCEPT !.subject = Subject]
    <2>1. new.gate = e.gate /\ new.subject.committed /\ ~e.subject.committed
      BY <1>3 DEF PromoteEvidence, Evidence, Subject
    <2>2. evidence' = evidence \cup {new}
      BY <1>3 DEF PromoteEvidence, Record
    <2> HIDE DEF new
    <2> QED  BY <2>1, <2>2
  <1>4. ASSUME NEW e \in evidence, InvalidateEvidence(e) PROVE OriginalsKept'
    <2> DEFINE new == [e EXCEPT !.valid = FALSE]
    <2>1. new.gate = e.gate /\ new.subject = e.subject /\ new.ran = e.ran
      BY DEF Evidence
    <2>2. evidence' = (evidence \ {e}) \cup {new}
      BY <1>4 DEF InvalidateEvidence
    <2> HIDE DEF new
    <2> QED  BY <2>1, <2>2
  <1> QED
    BY <1>1, <1>2, <1>3, <1>4
    DEF Next, vars, proof, Transition, Stop, OpenFinding, ResolveFinding, WaiveFinding, SetFinding,
        Expire, Submit, Work, ChangeScope, Stage, CommitCode, Edit

\* A task is closed on gates that ran and passed on what the working tree holds.  It
\* is the originals, which have to be current as well, that keep promoted evidence
\* from carrying a close.
THEOREM ClosedWorkIsProven == Spec => ClosesProven
  <1>1. Init => OriginalsKept
    BY DEF Init, OriginalsKept
  <1>2. ASSUME OriginalsKept, [Next]_vars, Closes
        PROVE  \A g \in RequiredGate : \E e \in evidence : e.gate = g /\ e.valid /\ e.ran = code.tree
    <2> SUFFICES ASSUME NEW g \in RequiredGate
                 PROVE  \E e \in evidence : e.gate = g /\ e.valid /\ e.ran = code.tree
      OBVIOUS
    <2>1. EvidenceComplete
      BY <1>2, ClosingSteps DEF CloseAllowed
    <2>2. PICK e \in evidence : e.gate = g /\ Current(e)
      BY <2>1 DEF EvidenceComplete, Covered
    <2>3. \A d \in evidence : d.subject.committed = e.subject.committed
      BY <2>1, <2>2 DEF EvidenceComplete, Current
    <2>4. e.ran = e.subject.content.tree
      BY <1>2, <2>2, <2>3 DEF OriginalsKept
    <2> QED  BY <2>2, <2>4 DEF Current, Subject
  <1> QED  BY <1>1, <1>2, OriginalsStay, GovernanceTypeCorrect, PTL DEF Spec, ClosesProven

\* No confirmed security or data finding is waived away.
THEOREM SeriousFindingsAreResolved == Spec => SeriousFindingsResolved
  <1>1. ASSUME GovernanceTypeOK, [Next]_vars, Closes
        PROVE  \A f \in Finding :
                  finding[f].hard =>
                      finding[f].status \in {"absent", "resolved"} \/ finding[f].effect = "advisory"
    <2> SUFFICES ASSUME NEW f \in Finding, finding[f].hard
                 PROVE  finding[f].status \in {"absent", "resolved"} \/ finding[f].effect = "advisory"
      OBVIOUS
    <2>1. PICK actor \in Actor : FindingsClean(actor)
      BY <1>1, ClosingSteps DEF CloseAllowed
    <2>2. ~Blocking(f)
      BY <1>1, <2>1 DEF FindingsClean, Accepted, Waivable
    <2> QED  BY <1>1, <2>2 DEF Blocking, GovernanceTypeOK, Findings
  <1> QED  BY <1>1, GovernanceTypeCorrect, PTL DEF Spec, SeriousFindingsResolved

\* What decides a close stays as it is while the state of the task changes.
LEMMA JudgementStays ==
    ASSUME NEW closer, CloseAllowed(closer), UNCHANGED <<entities, scopeVars, code, proof>>
    PROVE  CloseAllowed(closer)'
  <1> USE DEF entities, logs, scopeVars, proof, Authorized
  <1>1. ScopeApproved' /\ (closer \in Authorized)' /\ UnitsComplete'
    BY DEF CloseAllowed, ScopeApproved, Valid, UnitsComplete
  <1>2. EvidenceComplete'
    BY DEF CloseAllowed, EvidenceComplete, Covered, Current, Subject, Committed
  <1>3. FindingsClean(closer)' /\ RisksValid(closer)'
    BY DEF CloseAllowed, FindingsClean, RisksValid, Blocking, Accepted, Waivable, Acceptors
  <1> QED  BY <1>1, <1>2, <1>3 DEF CloseAllowed, ReviewNeeded, ScopeClean

\* What the commands close, the validator accepts.
THEOREM ClosedTasksValidate == Spec => ClosesValid
  <1>1. ASSUME PartsSound, GovernanceTypeOK, [Next]_vars, Closes
        PROVE  \E closer \in Actor : Validated(closer)'
    <2>1. state' # state /\ state' \in Closed
      BY <1>1 DEF Closes
    <2>2. PICK target \in TaskStates, actor \in Actor : Transition(target, actor)
      BY <1>1, <2>1, StateSteps DEF Closed, Stop
    <2>3. CloseAllowed(actor) /\ UNCHANGED <<entities, scopeVars, code, proof>>
      BY <2>1, <2>2 DEF Transition, Gated
    <2>4. CloseAllowed(actor)'
      BY <2>3, JudgementStays
    <2>5. \A x \in result' : run'[x.run] # "absent" /\ unit'[work'[x.run]] # "absent"
      BY <1>1, <2>3
      DEF entities, PartsSound, Sound, RunsSound, UnitsTypeOK, Result, ResultsOfRuns, RunsStarted, Open
    <2>6. \A u \in Unit : unit'[u] \in {"absent", "completed"}
      BY <2>4 DEF CloseAllowed, UnitsComplete
    <2>7. RequiredGate \subseteq {e.gate : e \in {d \in evidence' : d.valid}}
      BY <2>4 DEF CloseAllowed, EvidenceComplete, Covered, Current
    <2>8. \A f \in Finding : finding'[f].status = "open" => finding'[f].effect # "block_close"
      BY <2>4 DEF CloseAllowed, FindingsClean, Blocking
    <2> QED  BY <2>4, <2>5, <2>6, <2>7, <2>8 DEF Validated
  <1> QED  BY <1>1, PartsAlways, GovernanceTypeCorrect, PTL DEF Spec, ClosesValid

=============================================================================

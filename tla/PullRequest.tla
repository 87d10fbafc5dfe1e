----------------------------- MODULE PullRequest -----------------------------
(***************************************************************************)
(* The commits of one task's branch, and the two programs that judge       *)
(* whether its evidence is for its code: `mac` while the developer works   *)
(* (git.py, evidence.py, close.py), and governance_pr.py in CI, which only *)
(* sees what has been committed.  Commits that only touch the task's own   *)
(* metadata do not count as code, so that evidence can be committed.  Each *)
(* program has a list of the metadata and a loop over the history.         *)
(*                                                                         *)
(* A gate takes its time, and the developer edits and commits meanwhile;   *)
(* so he does between the decision to close and its event.                 *)
(***************************************************************************)
EXTENDS Integers, Sequences, FiniteSets

CONSTANTS Content,             \* what the code can be
          Claim,               \* the task's required gates and acceptance criteria
          Level,               \* governance_level
          MaxCommits, MaxProof \* bounds on the commits and the pieces of evidence

ASSUME PullRequestParameters ==
    /\ Content # {} /\ Level \in {"observe", "advisory", "enforced", "regulated"}
    /\ MaxCommits \in Nat \ {0} /\ MaxProof \in Nat

VARIABLES
    history,     \* the commits, from the base of the pull request to HEAD
    index, tree, \* the code in Git's index and in the working tree
    proofs,      \* the task's evidence
    published,   \* the evidence that HEAD contains
    running,     \* the `mac evidence record` whose gate is running
    decided,     \* the `mac task transition completed` that has not written its event
    closed       \* ... and the one that has

prVars == <<history, index, tree, proofs, published, running, decided, closed>>

HEAD == history[Len(history)]

PRInit ==
    /\ \E c \in Content : history = <<[code |-> c, kind |-> "code"]>> /\ index = c /\ tree = c
    /\ proofs = {} /\ published = {} /\ running = {} /\ decided = {} /\ closed = {}

-----------------------------------------------------------------------------
(* Subjects.                                                               *)

\* A commit changes code; code below the task's directory; moves a file of the code
\* into the metadata; or changes nothing but metadata.
Kinds == {"code", "below", "moved", "metadata"}

\* The last commit of some kinds, or the first of all: where a loop over first parents ends.
IsLast(i, kinds) ==
    /\ i = 1 \/ history[i].kind \in kinds
    /\ \A j \in DOMAIN history : j > i => history[j].kind \notin kinds
LastOf(kinds) == CHOOSE i \in DOMAIN history : IsLast(i, kinds)

\* Mutant of CodeKinds: of a rename only the new name counts.
CodeKindsByNewName == {"code", "below"}

\* Not is_task_governance_metadata, at one end of a rename at least.
CodeKinds == {"code", "below", "moved"}

\* workspace_changes finds nothing.
Clean == tree = index /\ index = HEAD.code

\* current_code_subject, and workspace_subject.
CommitSubject    == [type |-> "commit", commit |-> LastOf(CodeKinds)]
WorkspaceSubject == [type |-> "workspace", head |-> Len(history), index |-> index, tree |-> tree]

-----------------------------------------------------------------------------
(* Evidence.  `began` and `ended` are what the working tree held when the  *)
(* gate was started and when it ended, `staged` what the index held then,  *)
(* and `from` was the code's commit at the start; none of it is recorded.  *)

\* An event is appended: the expected revision of commands under way is out of date.
Stale(commands) == {[c EXCEPT !.fresh = FALSE] : c \in commands}

Record(p) ==
    /\ Cardinality(proofs \cup {p}) <= MaxProof
    /\ proofs' = proofs \cup {p}
    /\ decided' = Stale(decided)

\* Mutant of StartGate: the working tree is only looked at afterwards.
StartGateDirty(claim, commit) ==
    /\ running = {}
    /\ running' = {[claim |-> claim, commit |-> commit, began |-> tree, from |-> LastOf(CodeKinds),
                    fresh |-> TRUE]}
    /\ UNCHANGED <<history, index, tree, proofs, published, decided, closed>>

\* `mac evidence record`, as far as the gate's command.
StartGate(claim, commit) ==
    /\ running = {}
    /\ commit => Clean
    /\ running' = {[claim |-> claim, commit |-> commit, began |-> tree, from |-> LastOf(CodeKinds),
                    fresh |-> TRUE]}
    /\ UNCHANGED <<history, index, tree, proofs, published, decided, closed>>

\* The command has ended: the evidence, unless EVIDENCE_COMMAND_CHANGED_WORKSPACE or
\* REVISION_CONFLICT.
EndGate(passed) ==
    /\ \E r \in running :
          \/ /\ r.commit => Clean
             /\ r.fresh
             /\ Record([claim |-> r.claim, valid |-> passed, promoted |-> FALSE,
                        subject |-> IF r.commit THEN CommitSubject ELSE WorkspaceSubject,
                        began |-> r.began, ended |-> tree, staged |-> index, from |-> r.from])
          \/ /\ (r.commit /\ ~Clean) \/ ~r.fresh
             /\ UNCHANGED <<proofs, decided>>
    /\ running' = {}
    /\ UNCHANGED <<history, index, tree, published, closed>>

\* `mac evidence promote`: the working tree is HEAD, and so was the index when the gate
\* ended; the working tree of that time is not compared.
Promote(p) ==
    /\ p \in proofs /\ p.subject.type = "workspace"
    /\ Clean /\ p.subject.index = HEAD.code
    /\ Record([p EXCEPT !.subject = CommitSubject, !.promoted = TRUE])
    /\ running' = Stale(running)
    /\ UNCHANGED <<history, index, tree, published, closed>>

\* `mac evidence invalidate`.
Invalidate(p) ==
    /\ p \in proofs
    /\ proofs' = (proofs \ {p}) \cup {[p EXCEPT !.valid = FALSE]}
    /\ decided' = Stale(decided) /\ running' = Stale(running)
    /\ UNCHANGED <<history, index, tree, published, closed>>

-----------------------------------------------------------------------------
(* Closing.                                                                *)

\* evaluate_repository_close, its evidence: valid for the present code, all of it.
CloseSubject == IF Clean THEN CommitSubject ELSE WorkspaceSubject
Complete ==
    /\ \A p \in proofs : p.valid /\ p.subject = CloseSubject
    /\ \A c \in Claim : \E p \in proofs : p.claim = c

\* `mac task transition completed`, as far as the decision.
Decide ==
    /\ decided = {} /\ closed = {} /\ Complete
    /\ decided' = {[commit |-> Clean, head |-> Len(history), tree |-> tree, proofs |-> proofs,
                    fresh |-> TRUE]}
    /\ UNCHANGED <<history, index, tree, proofs, published, running, closed>>

\* Mutant of Close: the expected revision is not compared.
CloseUnchecked ==
    /\ decided # {}
    /\ closed' = decided /\ decided' = {} /\ running' = Stale(running)
    /\ UNCHANGED <<history, index, tree, proofs, published>>

\* ... and its event, or REVISION_CONFLICT.
Close ==
    /\ decided # {}
    /\ decided' = {}
    /\ \/ /\ \A d \in decided : d.fresh
          /\ closed' = decided /\ running' = Stale(running)
       \/ /\ \E d \in decided : ~d.fresh
          /\ UNCHANGED <<running, closed>>
    /\ UNCHANGED <<history, index, tree, proofs, published>>

-----------------------------------------------------------------------------
(* The developer.                                                          *)

Edit(c) ==
    /\ tree # c /\ tree' = c
    /\ UNCHANGED <<history, index, proofs, published, running, decided, closed>>

GitAdd ==
    /\ index # tree /\ index' = tree
    /\ UNCHANGED <<history, tree, proofs, published, running, decided, closed>>

\* A commit of what is staged, or of metadata only; with the evidence or without.
Commit(kind, with) ==
    /\ Len(history) < MaxCommits
    /\ kind # "metadata" => index # HEAD.code
    /\ history' = Append(history, [code |-> IF kind = "metadata" THEN HEAD.code ELSE index,
                                   kind |-> kind])
    /\ published' = IF with THEN proofs ELSE published
    /\ UNCHANGED <<index, tree, proofs, running, decided, closed>>

-----------------------------------------------------------------------------
(* governance_pr.py, on HEAD.                                              *)

\* Mutants of CIKinds: whatever is below the task's directory is metadata; the list of
\* metadata directories lacks one.
CIKindsByPrefix == {"code"}
CIKindsOfShortList == {"code", "below", "metadata"}

\* _is_task_metadata, of names without the old ones of renames.
CIKinds == {"code", "below"}

\* check_current_evidence.
CISubject == [type |-> "commit", commit |-> LastOf(CIKinds)]
Accepts ==
    \A c \in Claim : \E p \in published : p.claim = c /\ p.valid /\ p.subject = CISubject

\* discover_task_ids: a changed file is below the task's directory.
TaskFound == published # {} \/ \E i \in DOMAIN history : history[i].kind # "code"

\* evaluate: what CI lets through, if its other checks pass.
Passes == Level \in {"observe", "advisory"} \/ (TaskFound /\ Accepts)

-----------------------------------------------------------------------------
PRNext ==
    \/ \E claim \in Claim, commit \in BOOLEAN : StartGate(claim, commit)
    \/ \E passed \in BOOLEAN : EndGate(passed)
    \/ \E p \in proofs : Promote(p) \/ Invalidate(p)
    \/ Decide \/ Close
    \/ GitAdd \/ \E c \in Content : Edit(c)
    \/ \E kind \in Kinds, with \in BOOLEAN : Commit(kind, with)

PRSpec == PRInit /\ [][PRNext]_prVars

-----------------------------------------------------------------------------
(* Properties.                                                             *)

Code(p) == history[p.subject.commit].code

\* Evidence is bound to the commit whose code its gate ended on, and, unless code was
\* committed meanwhile, started on; a promoted copy to the commit of what was staged.
EvidenceBindsItsCode ==
    \A p \in proofs : p.subject.type = "commit" =>
        /\ p.staged = Code(p)
        /\ ~p.promoted => /\ p.ended = Code(p)
                          /\ p.from = p.subject.commit => p.began = Code(p)

NothingMoved == \A i \in DOMAIN history : history[i].kind # "moved"

\* What CI lets through at the levels that block is tested: every required gate has
\* passed on what HEAD contains, or had it staged and was promoted.
PassedIsTested ==
    Passes /\ Level \in {"enforced", "regulated"} /\ NothingMoved =>
        \A c \in Claim : \E p \in published :
            p.claim = c /\ p.valid /\ p.staged = HEAD.code /\ (p.promoted \/ p.ended = HEAD.code)

\* The two judges agree: evidence on which a task was closed for a commit is accepted
\* by CI once it is committed, whatever else of the metadata is committed with it.
ClosesSurviveCommit ==
    \A d \in closed :
        /\ d.commit /\ published = d.proofs /\ NothingMoved
        /\ \A i \in (d.head + 1)..Len(history) : history[i].kind = "metadata"
        => Accepts

\* When the event of a close is written, the evidence of the decision still stands, and
\* its gates ended on what the working tree held at the decision.
ClosesOnStandingEvidence ==
    [][\A d \in closed' \ closed : \A c \in Claim : \E p \in proofs :
          p.claim = c /\ p.valid /\ p.ended = d.tree]_prVars
=============================================================================

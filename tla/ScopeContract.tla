---------------------------- MODULE ScopeContract ---------------------------
(***************************************************************************)
(* The scope contract of one task and its approvals: the commands scope    *)
(* propose, approve and amend and approval record of cli.py, amend_scope   *)
(* of scope.py and valid_scope_approvals of authority.py.                  *)
(*                                                                         *)
(* A command takes effect in one step of append_event: the event, then the *)
(* files it materializes, in order.  A crash leaves the event with the     *)
(* first few of the files.                                                 *)
(***************************************************************************)
EXTENDS Naturals

CONSTANTS Actor, Owner,
          ApproversOf,    \* ownership.yaml: the approvers of each owner
          Paths,          \* what allowed_paths can be
          Extension,      \* Extension[p]: what p can be amended to
          Levels,         \* independence levels
          RequiredLevel,  \* the level the approval of p takes
          MaxAmendments,  \* amendment_policy
          ScopeCrashes    \* commands may die before the last file

ASSUME ScopeParameters ==
    /\ ApproversOf \in [Owner -> SUBSET Actor]
    /\ Extension \in [Paths -> SUBSET Paths]
    /\ Levels \subseteq Nat /\ RequiredLevel \in [Paths -> Nat \ {0}]
    /\ MaxAmendments \in Nat /\ ScopeCrashes \in BOOLEAN

VARIABLES
    scope,      \* scope-contract.yaml
    history,    \* the versions in scope-history/
    approvals,  \* the approvals; level 0 stands for those of another kind or decision
    signed      \* the approvals in the log

scopeVars == <<scope, history, approvals, signed>>

Contract == [version : Nat, status : {"proposed", "approved"}, proposer : Actor,
             owner : Owner, paths : Paths]
Approval == [actor : Actor, level : Levels]

ScopeTypeOK ==
    /\ scope \in Contract /\ history \subseteq Nat
    /\ approvals \subseteq Approval /\ signed \subseteq Approval

ScopeInit ==
    /\ scope \in [version : {1}, status : {"proposed"}, proposer : Actor,
                  owner : Owner, paths : Paths]
    /\ history = {} /\ approvals = {} /\ signed = {}

\* owner_approvers and actor_authorized_for_scope.
Authorized == ApproversOf[scope.owner]

\* Mutant of Valid: the proposer may approve.
ValidAnyone(a) == a.actor \in Authorized /\ a.level >= RequiredLevel[scope.paths]

\* valid_scope_approvals.
Valid(a) ==
    /\ a.actor \in Authorized /\ a.actor # scope.proposer
    /\ a.level >= RequiredLevel[scope.paths]

ScopeApproved == scope.status = "approved" /\ \E a \in approvals : Valid(a)

\* The files of a command that are written before it ends or dies.
Reached(files) == IF ScopeCrashes THEN 0..files ELSE {files}

\* `mac scope propose`: rewrites the contract, whatever its version.
Propose(actor, owner, paths) ==
    /\ scope.status # "approved"
    /\ \E n \in Reached(1) :
          scope' = IF n < 1 THEN scope
                   ELSE [scope EXCEPT !.proposer = actor, !.owner = owner, !.paths = paths]
    /\ UNCHANGED <<history, approvals, signed>>

\* Mutant of ApproveFiles: the contract is written before the approval.
ApproveFilesSwapped(n, a) ==
    /\ scope' = IF n < 1 THEN scope ELSE [scope EXCEPT !.status = "approved"]
    /\ approvals' = IF n < 2 THEN approvals ELSE approvals \cup {a}

ApproveFiles(n, a) ==
    /\ approvals' = IF n < 1 THEN approvals ELSE approvals \cup {a}
    /\ scope' = IF n < 2 THEN scope ELSE [scope EXCEPT !.status = "approved"]

\* `mac scope approve`.
Approve(a) ==
    /\ scope.status = "proposed" /\ Valid(a)
    /\ \E n \in Reached(2) : ApproveFiles(n, a)
    /\ signed' = signed \cup {a}
    /\ UNCHANGED history

\* Mutant of AmendFiles: the contract is written before its history.
AmendFilesSwapped(n, new) ==
    /\ scope' = IF n < 1 THEN scope ELSE new
    /\ history' = IF n < 2 THEN history ELSE history \cup {scope.version}

AmendFiles(n, new) ==
    /\ history' = IF n < 1 THEN history ELSE history \cup {scope.version}
    /\ scope' = IF n < 2 THEN scope ELSE new

\* `mac scope amend`: a history file that exists already is ENTITY_ID_CONFLICT.
Amend(actor, paths) ==
    /\ scope.version <= MaxAmendments /\ paths \in Extension[scope.paths]
    /\ scope.version \notin history
    /\ \E n \in Reached(2) :
          AmendFiles(n, [version |-> scope.version + 1, status |-> "proposed", proposer |-> actor,
                         owner |-> scope.owner, paths |-> paths])
    /\ UNCHANGED <<approvals, signed>>

\* `mac approval record`, of any kind and with any decision.
RecordApproval(a) ==
    /\ a.actor \in Authorized
    /\ \E n \in Reached(1) : approvals' = IF n < 1 THEN approvals ELSE approvals \cup {a}
    /\ signed' = signed \cup {a}
    /\ UNCHANGED <<scope, history>>

\* A rebuild restores the approvals; the contract is none of the entities of
\* replay_entity_snapshots.
RebuildScope == approvals' = approvals \cup signed /\ UNCHANGED <<scope, history, signed>>

ScopeNext ==
    \/ \E actor \in Actor, paths \in Paths :
          Amend(actor, paths) \/ \E owner \in Owner : Propose(actor, owner, paths)
    \/ \E a \in Approval : Approve(a) \/ RecordApproval(a)
    \/ RebuildScope

-----------------------------------------------------------------------------
(* Properties.                                                             *)

\* An approved contract has an approval by someone else than its proposer, who
\* may approve for its owner, at the level its paths take: no crash, amendment or
\* new proposal leaves the approval of another contract standing for this one.
ApprovedIndependently == scope.status = "approved" => ScopeApproved

\* No amendment destroys the contract it replaces: every earlier version is kept.
HistoryComplete == \A v \in 1..(scope.version - 1) : v \in history
=============================================================================

-------------------------- MODULE PullRequestProofs --------------------------
(***************************************************************************)
(* What a change must bring to pass: the properties of PullRequest and of  *)
(* ChangeScope, for any content, claims, level, paths, patterns, owners    *)
(* and bounds.                                                             *)
(*                                                                         *)
(* PullRequest: the invariant follows a piece of evidence from the start   *)
(* of its gate to HEAD: the commit that counts as the code's always has    *)
(* the code of HEAD, commits are only appended, and what a decision to     *)
(* close rests on is remembered with it.                                   *)
(*                                                                         *)
(* ChangeScope: the invariant says that after any number of changes the    *)
(* tables hold a name under each key seen, and that no issue was found     *)
(* exactly if what was seen is in scope.  That the ranking of resolve is a *)
(* total order with ties, and that a finite set of patterns has a best     *)
(* one, make its only winner the owner of the path.                        *)
(***************************************************************************)
EXTENDS PullRequest, ChangeScope, FiniteSetTheorems, TLAPS

CommitRec   == [code : Content, kind : Kinds]
CommitSubjects    == [type : {"commit"}, commit : Nat]
WorkspaceSubjects == [type : {"workspace"}, head : Nat, index : Content, tree : Content]
EvidenceRec == [claim : Claim, valid : BOOLEAN, promoted : BOOLEAN,
                subject : CommitSubjects \cup WorkspaceSubjects,
                began : Content, ended : Content, staged : Content, from : Nat]
GateRec     == [claim : Claim, commit : BOOLEAN, began : Content, from : Nat, fresh : BOOLEAN]
DecisionRec == [commit : BOOLEAN, head : Nat, tree : Content, proofs : SUBSET EvidenceRec,
                fresh : BOOLEAN]

\* The commit that counts as the code's exists and has HEAD's code.
HistoryOK ==
    /\ history \in Seq(CommitRec) /\ Len(history) >= 1
    /\ index \in Content /\ tree \in Content
    /\ \E i \in DOMAIN history : IsLast(i, CodeKinds)
    /\ \A i \in DOMAIN history : IsLast(i, CodeKinds) => history[i].code = HEAD.code

\* A subject is what the index and, unless the evidence was promoted, the tree held.
Bound(p) ==
    /\ p.subject.type = "commit" =>
          /\ p.subject.commit \in DOMAIN history /\ p.staged = Code(p)
          /\ ~p.promoted => /\ p.ended = Code(p)
                            /\ p.from = p.subject.commit => p.began = Code(p)
    /\ p.subject.type = "workspace" => p.staged = p.subject.index /\ p.ended = p.subject.tree

EvidenceOK ==
    /\ proofs \subseteq EvidenceRec /\ published \subseteq EvidenceRec
    /\ \A p \in proofs \cup published : Bound(p)

\* What was promoted stays.
OriginalsOK == \A p \in proofs : p.promoted => \E q \in proofs : q.subject.type = "workspace"

GatesOK ==
    /\ running \subseteq GateRec
    /\ \A r \in running : /\ r.from \in DOMAIN history
                          /\ r.commit => r.began = history[r.from].code

\* Commit k counts as the code's at commit h.
Settled(k, h) ==
    /\ k \in DOMAIN history /\ (k = 1 \/ history[k].kind \in CodeKinds)
    /\ \A j \in DOMAIN history : k < j /\ j <= h => history[j].kind \notin CodeKinds

\* The decision to close, as it was when it was taken.
Grounded(d) ==
    /\ d.head \in DOMAIN history
    /\ \A c \in Claim : \E p \in d.proofs : p.claim = c
    /\ \A p \in d.proofs :
          /\ p.valid /\ p.ended = d.tree
          /\ d.commit => p.subject.type = "commit" /\ Settled(p.subject.commit, d.head)

DecisionsOK ==
    /\ decided \subseteq DecisionRec /\ closed \subseteq DecisionRec
    /\ \A d \in decided \cup closed : Grounded(d)
    /\ \A d \in decided : d.fresh => d.proofs = proofs

PRInv == HistoryOK /\ EvidenceOK /\ OriginalsOK /\ GatesOK /\ DecisionsOK

-----------------------------------------------------------------------------
(* The last commit.                                                        *)

\* There is no second last commit of some kinds.
LEMMA LastIsOne ==
    ASSUME Len(history) \in Nat, DOMAIN history = 1..Len(history), NEW kinds,
           NEW i \in DOMAIN history, NEW j \in DOMAIN history, IsLast(i, kinds), IsLast(j, kinds)
    PROVE  i = j
BY DEF IsLast

\* The loop ends at a commit whose code is HEAD's.
LEMMA LastHasTheCode ==
    ASSUME HistoryOK
    PROVE  /\ LastOf(CodeKinds) \in DOMAIN history /\ IsLast(LastOf(CodeKinds), CodeKinds)
           /\ history[LastOf(CodeKinds)].code = HEAD.code
           /\ LastOf(CodeKinds) \in Nat
BY DEF HistoryOK, LastOf

\* HEAD is a commit.
LEMMA HeadIsCommit ==
    ASSUME HistoryOK
    PROVE  /\ HEAD \in CommitRec /\ Len(history) \in DOMAIN history
           /\ Len(history) \in Nat /\ DOMAIN history = 1..Len(history)
BY DEF HistoryOK, HEAD

-----------------------------------------------------------------------------
(* Commits.                                                                *)

\* A commit is added, and nothing before it changes.
LEMMA Committing ==
    ASSUME HistoryOK, NEW kind \in Kinds, NEW with \in BOOLEAN, Commit(kind, with)
    PROVE  /\ history' \in Seq(CommitRec) /\ Len(history') = Len(history) + 1
           /\ DOMAIN history' = 1..(Len(history) + 1)
           /\ \A i \in DOMAIN history : i \in DOMAIN history' /\ history'[i] = history[i]
           /\ HEAD' = history'[Len(history) + 1] /\ HEAD'.kind = kind
           /\ kind = "metadata" => HEAD'.code = HEAD.code
  <1>1. [code |-> IF kind = "metadata" THEN HEAD.code ELSE index, kind |-> kind] \in CommitRec
    BY HeadIsCommit DEF HistoryOK, CommitRec
  <1> QED
    BY <1>1, HeadIsCommit DEF Commit, HistoryOK, HEAD

\* Whatever is not a commit leaves the history, and keeps code in index and tree.
LEMMA HistoryStep == ASSUME HistoryOK, [PRNext]_prVars PROVE HistoryOK'
  <1>1. ASSUME NEW kind \in Kinds, NEW with \in BOOLEAN, Commit(kind, with) PROVE HistoryOK'
    <2>0. PICK n : n = Len(history) + 1
      OBVIOUS
    <2>1. n \in Nat \ {0, 1} /\ n \in DOMAIN history'
      BY <1>1, <2>0, Committing, HeadIsCommit DEF HistoryOK
    <2>2. index' \in Content /\ tree' \in Content
      BY <1>1 DEF Commit, HistoryOK
    <2>3. kind = "metadata" \/ kind \in CodeKinds
      BY DEF Kinds, CodeKinds
    <2>4. CASE kind \in CodeKinds
      <3>1. history'[n].kind \in CodeKinds
        BY <1>1, <2>0, <2>4, Committing
      <3>2. IsLast(n, CodeKinds)'
        BY <1>1, <2>0, <2>1, <3>1, Committing DEF IsLast
      <3>3. \A i \in DOMAIN history' : IsLast(i, CodeKinds)' => i = n
        BY <1>1, <2>0, <2>1, <3>1, Committing, HeadIsCommit DEF IsLast
      <3> QED
        BY <1>1, <2>0, <2>1, <2>2, <3>2, <3>3, Committing, HeadIsCommit DEF HistoryOK
    <2>5. CASE kind = "metadata"
      <3>1. history'[n].kind \notin CodeKinds
        BY <1>1, <2>0, <2>5, Committing DEF CodeKinds
      <3>2. \A i \in DOMAIN history : IsLast(i, CodeKinds)' <=> IsLast(i, CodeKinds)
        BY <1>1, <2>0, <2>1, <3>1, Committing, HeadIsCommit DEF IsLast
      <3>3. ~IsLast(n, CodeKinds)'
        BY <2>1, <3>1 DEF IsLast
      <3>4. \A i \in DOMAIN history' : i = n \/ i \in DOMAIN history
        BY <1>1, <2>0, Committing, HeadIsCommit
      <3> QED
        BY <1>1, <2>1, <2>2, <2>5, <3>2, <3>3, <3>4, Committing, HeadIsCommit DEF HistoryOK
    <2> QED  BY <2>3, <2>4, <2>5
  <1>2. ASSUME UNCHANGED history, index' \in Content, tree' \in Content PROVE HistoryOK'
    BY <1>2 DEF HistoryOK, HEAD, IsLast
  <1>3. CASE UNCHANGED <<history, index, tree>>
    BY <1>2, <1>3 DEF HistoryOK
  <1>4. ASSUME NEW c \in Content, Edit(c) PROVE HistoryOK'
    BY <1>2, <1>4 DEF Edit, HistoryOK
  <1>5. CASE GitAdd
    BY <1>2, <1>5 DEF GitAdd, HistoryOK
  <1> QED
    BY <1>1, <1>3, <1>4, <1>5
       DEF PRNext, prVars, StartGate, EndGate, Promote, Invalidate, Decide, Close

-----------------------------------------------------------------------------
(* Evidence.                                                               *)

\* Commits that follow change nothing of what evidence is bound to.
LEMMA BoundStays ==
    ASSUME HistoryOK, [PRNext]_prVars, NEW p, Bound(p)
    PROVE  Bound(p)'
  <1>1. ASSUME NEW kind \in Kinds, NEW with \in BOOLEAN, Commit(kind, with) PROVE Bound(p)'
    BY <1>1, Committing DEF Bound, Code
  <1>2. CASE UNCHANGED history
    BY <1>2 DEF Bound, Code
  <1> QED
    BY <1>1, <1>2
       DEF PRNext, prVars, StartGate, EndGate, Promote, Invalidate, Decide, Close, Edit, GitAdd

LEMMA SubjectsTyped ==
    ASSUME HistoryOK
    PROVE  CommitSubject \in CommitSubjects /\ WorkspaceSubject \in WorkspaceSubjects
BY LastHasTheCode, HeadIsCommit
   DEF HistoryOK, CommitSubject, WorkspaceSubject, CommitSubjects, WorkspaceSubjects

\* What a gate records is bound to what the gate ended on.
LEMMA GateIsBound ==
    ASSUME HistoryOK, GatesOK, NEW r \in running, NEW passed \in BOOLEAN, NEW p, r.commit => Clean,
           p = [claim |-> r.claim, valid |-> passed, promoted |-> FALSE,
                subject |-> IF r.commit THEN CommitSubject ELSE WorkspaceSubject,
                began |-> r.began, ended |-> tree, staged |-> index, from |-> r.from]
    PROVE  p \in EvidenceRec /\ Bound(p) /\ ~p.promoted
  <1>1. p \in EvidenceRec
    BY SubjectsTyped DEF EvidenceRec, GatesOK, GateRec, HistoryOK
  <1>2. /\ p.staged = index /\ p.ended = tree /\ p.began = r.began /\ p.from = r.from
        /\ p.promoted = FALSE
        /\ p.subject = IF r.commit THEN CommitSubject ELSE WorkspaceSubject
    OBVIOUS
  <1>3. CASE r.commit
    <2>1. p.subject.type = "commit" /\ p.subject.commit = LastOf(CodeKinds)
      BY <1>2, <1>3 DEF CommitSubject
    <2> QED
      BY <1>1, <1>2, <1>3, <2>1, LastHasTheCode DEF Bound, Clean, Code, GatesOK
  <1>4. CASE ~r.commit
    <2>1. p.subject.type = "workspace" /\ p.subject.index = index /\ p.subject.tree = tree
      BY <1>2, <1>4 DEF WorkspaceSubject
    <2> QED  BY <1>1, <1>2, <2>1 DEF Bound
  <1> QED  BY <1>3, <1>4

\* A promoted copy is bound to the commit of what was staged.
LEMMA CopyIsBound ==
    ASSUME HistoryOK, EvidenceOK, NEW p \in proofs, Promote(p), NEW q,
           q = [p EXCEPT !.subject = CommitSubject, !.promoted = TRUE]
    PROVE  q \in EvidenceRec /\ Bound(q)
BY SubjectsTyped, LastHasTheCode DEF EvidenceOK, EvidenceRec, Promote, Bound, CommitSubject, Code

\* Evidence that is declared invalid is still bound to what it was.
LEMMA InvalidIsBound ==
    ASSUME EvidenceOK, NEW p \in proofs, NEW q, q = [p EXCEPT !.valid = FALSE]
    PROVE  q \in EvidenceRec /\ Bound(q) /\ q.subject = p.subject /\ q.promoted = p.promoted
BY DEF EvidenceOK, EvidenceRec, Bound, Code

\* New evidence is one of these, and what was invalidated keeps its place.
LEMMA EvidenceStep ==
    ASSUME HistoryOK, GatesOK, EvidenceOK, OriginalsOK, [PRNext]_prVars
    PROVE  EvidenceOK' /\ OriginalsOK'
  <1>1. \A p \in proofs \cup published : Bound(p)'
    BY BoundStays DEF EvidenceOK
  <1>2. ASSUME NEW passed \in BOOLEAN, EndGate(passed) PROVE EvidenceOK' /\ OriginalsOK'
    <2>1. PICK r \in running :
             \/ /\ r.commit => Clean
                /\ r.fresh
                /\ Record([claim |-> r.claim, valid |-> passed, promoted |-> FALSE,
                           subject |-> IF r.commit THEN CommitSubject ELSE WorkspaceSubject,
                           began |-> r.began, ended |-> tree, staged |-> index, from |-> r.from])
             \/ UNCHANGED proofs
      BY <1>2 DEF EndGate
    <2>4. PICK p : p = [claim |-> r.claim, valid |-> passed, promoted |-> FALSE,
                        subject |-> IF r.commit THEN CommitSubject ELSE WorkspaceSubject,
                        began |-> r.began, ended |-> tree, staged |-> index, from |-> r.from]
      OBVIOUS
    <2>2. CASE UNCHANGED proofs
      BY <1>1, <1>2, <2>2 DEF EndGate, EvidenceOK, OriginalsOK
    <2>3. CASE (r.commit => Clean) /\ Record(p)
      <3>1. p \in EvidenceRec /\ Bound(p) /\ ~p.promoted
        BY <2>3, <2>4, GateIsBound
      <3>2. Bound(p)'
        BY <3>1, BoundStays
      <3> QED  BY <1>1, <1>2, <2>3, <3>1, <3>2 DEF EndGate, Record, EvidenceOK, OriginalsOK
    <2> QED  BY <2>1, <2>2, <2>3, <2>4
  <1>3. ASSUME NEW p \in proofs, Promote(p) PROVE EvidenceOK' /\ OriginalsOK'
    <2>0. PICK q : q = [p EXCEPT !.subject = CommitSubject, !.promoted = TRUE]
      OBVIOUS
    <2>1. q \in EvidenceRec /\ Bound(q)
      BY <1>3, <2>0, CopyIsBound
    <2>2. Bound(q)'
      BY <2>1, BoundStays
    <2>3. proofs' = proofs \cup {q} /\ UNCHANGED published /\ p.subject.type = "workspace"
      BY <1>3, <2>0 DEF Promote, Record
    <2> QED  BY <1>1, <2>1, <2>2, <2>3 DEF EvidenceOK, OriginalsOK
  <1>4. ASSUME NEW p \in proofs, Invalidate(p) PROVE EvidenceOK' /\ OriginalsOK'
    <2>0. PICK q : q = [p EXCEPT !.valid = FALSE]
      OBVIOUS
    <2>1. q \in EvidenceRec /\ Bound(q) /\ q.subject = p.subject /\ q.promoted = p.promoted
      BY <2>0, InvalidIsBound
    <2>2. Bound(q)'
      BY <2>1, BoundStays
    <2>3. proofs' = (proofs \ {p}) \cup {q} /\ UNCHANGED published
      BY <1>4, <2>0 DEF Invalidate
    <2> QED  BY <1>1, <2>1, <2>2, <2>3 DEF EvidenceOK, OriginalsOK
  <1>5. ASSUME NEW kind \in Kinds, NEW with \in BOOLEAN, Commit(kind, with)
        PROVE  EvidenceOK' /\ OriginalsOK'
    BY <1>1, <1>5 DEF Commit, EvidenceOK, OriginalsOK
  <1>6. CASE UNCHANGED <<proofs, published>>
    BY <1>1, <1>6 DEF EvidenceOK, OriginalsOK
  <1> QED
    BY <1>2, <1>3, <1>4, <1>5, <1>6
       DEF PRNext, prVars, StartGate, Decide, Close, Edit, GitAdd

-----------------------------------------------------------------------------
(* Gates and decisions.                                                    *)

LEMMA GatesStep == ASSUME HistoryOK, GatesOK, [PRNext]_prVars PROVE GatesOK'
  <1>1. ASSUME NEW r \in running, NEW kind \in Kinds, NEW with \in BOOLEAN, Commit(kind, with)
        PROVE  r.from \in DOMAIN history' /\ history'[r.from] = history[r.from]
    BY <1>1, Committing DEF GatesOK
  <1>2. ASSUME NEW kind \in Kinds, NEW with \in BOOLEAN, Commit(kind, with) PROVE GatesOK'
    BY <1>1, <1>2 DEF Commit, GatesOK
  <1>3. ASSUME NEW claim \in Claim, NEW commit \in BOOLEAN, StartGate(claim, commit)
        PROVE  GatesOK'
    BY <1>3, LastHasTheCode DEF StartGate, GatesOK, GateRec, Clean, HistoryOK
  <1>4. ASSUME UNCHANGED history, running' \in {{}, running, Stale(running)} PROVE GatesOK'
    <2>1. ASSUME NEW r \in running', r \notin running
          PROVE  \E q \in running : r = [q EXCEPT !.fresh = FALSE]
      BY <1>4, <2>1 DEF Stale
    <2>2. ASSUME NEW q \in running, NEW r, r = [q EXCEPT !.fresh = FALSE]
          PROVE  r \in GateRec /\ r.from = q.from /\ r.commit = q.commit /\ r.began = q.began
      BY <2>2 DEF GatesOK, GateRec
    <2> QED  BY <1>4, <2>1, <2>2 DEF GatesOK
  <1> QED
    BY <1>2, <1>3, <1>4
       DEF PRNext, prVars, EndGate, Promote, Invalidate, Decide, Close, Edit, GitAdd

\* What a decision was taken on stays as it was.
LEMMA GroundsStay ==
    ASSUME HistoryOK, [PRNext]_prVars, NEW d, Grounded(d)
    PROVE  Grounded(d)'
  <1>1. ASSUME NEW kind \in Kinds, NEW with \in BOOLEAN, Commit(kind, with) PROVE Grounded(d)'
    <2>1. d.head \in DOMAIN history /\ d.head <= Len(history)
      BY HeadIsCommit DEF Grounded
    <2>2. ASSUME NEW k, Settled(k, d.head) PROVE Settled(k, d.head)'
      BY <1>1, <2>1, <2>2, Committing, HeadIsCommit DEF Settled
    <2> QED  BY <1>1, <2>1, <2>2, Committing DEF Grounded
  <1>2. CASE UNCHANGED history
    BY <1>2 DEF Grounded, Settled
  <1> QED
    BY <1>1, <1>2
       DEF PRNext, prVars, StartGate, EndGate, Promote, Invalidate, Decide, Close, Edit, GitAdd

\* A decision is taken on gates that ended on what the tree holds: no evidence was
\* promoted, or its original would be for another subject.
LEMMA DecisionIsGrounded ==
    ASSUME HistoryOK, EvidenceOK, OriginalsOK, Complete, NEW d,
           d = [commit |-> Clean, head |-> Len(history), tree |-> tree, proofs |-> proofs,
                fresh |-> TRUE]
    PROVE  d \in DecisionRec /\ Grounded(d)
  <1>1. d \in DecisionRec
    BY HeadIsCommit DEF DecisionRec, EvidenceOK, HistoryOK, Clean
  <1>2. d.commit = Clean /\ d.head = Len(history) /\ d.tree = tree /\ d.proofs = proofs
    OBVIOUS
  <1>3. ASSUME NEW p \in proofs
        PROVE  /\ p.valid /\ p.ended = tree
               /\ Clean => p.subject.type = "commit" /\ Settled(p.subject.commit, Len(history))
    <2>1. p.valid /\ p.subject = CloseSubject /\ Bound(p)
      BY DEF Complete, EvidenceOK
    <2>2. CASE Clean
      <3>1. \A q \in proofs : q.subject.type = "commit" /\ q.subject.commit = LastOf(CodeKinds)
        BY <2>2 DEF Complete, CloseSubject, CommitSubject
      <3>2. ~p.promoted
        BY <3>1 DEF OriginalsOK
      <3>3. p.ended = tree
        BY <2>1, <2>2, <3>1, <3>2, LastHasTheCode DEF Bound, Code, Clean
      <3> QED
        BY <2>1, <3>1, <3>3, LastHasTheCode, HeadIsCommit DEF Settled, IsLast
    <2>3. CASE ~Clean
      BY <2>1, <2>3 DEF CloseSubject, WorkspaceSubject, Bound
    <2> QED  BY <2>2, <2>3
  <1> QED  BY <1>1, <1>2, <1>3, HeadIsCommit DEF Grounded, Complete

LEMMA DecisionsStep ==
    ASSUME HistoryOK, EvidenceOK, OriginalsOK, DecisionsOK, [PRNext]_prVars
    PROVE  DecisionsOK'
  <1>1. \A d \in decided \cup closed : Grounded(d)'
    BY GroundsStay DEF DecisionsOK
  <1>2. ASSUME NEW q \in decided, NEW d, d = [q EXCEPT !.fresh = FALSE]
        PROVE  d \in DecisionRec /\ ~d.fresh /\ Grounded(d)'
    <2>1. d \in DecisionRec /\ d.head = q.head /\ d.tree = q.tree /\ d.proofs = q.proofs
          /\ d.commit = q.commit /\ d.fresh = FALSE
      BY <1>2 DEF DecisionsOK, DecisionRec
    <2> QED  BY <1>1, <2>1 DEF Grounded
  <1>3. CASE decided' = Stale(decided) /\ UNCHANGED closed
    BY <1>1, <1>2, <1>3 DEF DecisionsOK, Stale
  <1>4. CASE UNCHANGED <<decided, closed, proofs>>
    BY <1>1, <1>4 DEF DecisionsOK
  <1>5. CASE Decide
    <2>1. PICK d : d = [commit |-> Clean, head |-> Len(history), tree |-> tree,
                        proofs |-> proofs, fresh |-> TRUE]
      OBVIOUS
    <2>2. d \in DecisionRec /\ Grounded(d) /\ d.proofs = proofs
      BY <1>5, <2>1, DecisionIsGrounded DEF Decide
    <2>3. Grounded(d)'
      BY <2>2, GroundsStay
    <2> QED  BY <1>1, <1>5, <2>1, <2>2, <2>3 DEF Decide, DecisionsOK
  <1>6. CASE Close
    BY <1>1, <1>6 DEF Close, DecisionsOK
  <1> QED
    BY <1>3, <1>4, <1>5, <1>6
       DEF PRNext, prVars, StartGate, EndGate, Record, Promote, Invalidate, Edit, GitAdd, Commit

-----------------------------------------------------------------------------
(* The theorems.                                                           *)

LEMMA PRInvInit == ASSUME PRInit PROVE PRInv
  <1>1. PICK c \in Content : history = <<[code |-> c, kind |-> "code"]>> /\ index = c /\ tree = c
    BY DEF PRInit
  <1>2. history \in Seq(CommitRec) /\ Len(history) = 1 /\ DOMAIN history = {1}
    BY <1>1 DEF CommitRec, Kinds
  <1>3. HistoryOK
    BY <1>1, <1>2 DEF HistoryOK, IsLast, HEAD
  <1> QED
    BY <1>3 DEF PRInit, PRInv, EvidenceOK, OriginalsOK, GatesOK, DecisionsOK

LEMMA PRInvStep == ASSUME PRInv, [PRNext]_prVars PROVE PRInv'
BY HistoryStep, EvidenceStep, GatesStep, DecisionsStep DEF PRInv

LEMMA PRInvariant == PRSpec => []PRInv
BY PRInvInit, PRInvStep, PTL DEF PRSpec

\* Evidence is for the commit whose code its gate ended on, whatever was edited, staged
\* or committed while `mac evidence record` ran or since (git.py, cli.py).
THEOREM EvidenceIsForItsCode == PRSpec => []EvidenceBindsItsCode
  <1>1. PRInv => EvidenceBindsItsCode
    BY DEF PRInv, EvidenceOK, Bound, EvidenceBindsItsCode
  <1> QED  BY <1>1, PRInvariant, PTL

\* On a history without moves into the metadata both loops end at the same commit.
LEMMA LoopsAgree ==
    ASSUME HistoryOK, NothingMoved, NEW k \in DOMAIN history, IsLast(k, CodeKinds)
    PROVE  LastOf(CIKinds) = k
  <1>1. \A i \in DOMAIN history : IsLast(i, CIKinds) <=> IsLast(i, CodeKinds)
    BY DEF NothingMoved, IsLast, CIKinds, CodeKinds
  <1>2. LastOf(CIKinds) \in DOMAIN history /\ IsLast(LastOf(CIKinds), CodeKinds)
    BY <1>1 DEF LastOf
  <1> QED  BY <1>2, LastIsOne, HeadIsCommit

\* What governance_pr.py lets through has passed its gates, as far as it can know: on the
\* code of HEAD, or, if it was promoted, with the code of HEAD staged.
THEOREM WhatPassesIsTested == PRSpec => []PassedIsTested
  <1>1. ASSUME PRInv, Passes, Level \in {"enforced", "regulated"}, NothingMoved, NEW c \in Claim
        PROVE  \E p \in published :
                  p.claim = c /\ p.valid /\ p.staged = HEAD.code /\ (p.promoted \/ p.ended = HEAD.code)
    <2>1. PICK p \in published : p.claim = c /\ p.valid /\ p.subject = CISubject
      BY <1>1 DEF Passes, Accepts
    <2>2. LastOf(CIKinds) = LastOf(CodeKinds)
      BY <1>1, LastHasTheCode, LoopsAgree DEF PRInv
    <2>3. p.subject.type = "commit" /\ p.subject.commit = LastOf(CodeKinds)
      BY <2>1, <2>2 DEF CISubject
    <2>4. Bound(p)
      BY <1>1 DEF PRInv, EvidenceOK
    <2> QED  BY <1>1, <2>1, <2>3, <2>4, LastHasTheCode DEF PRInv, Bound, Code
  <1>2. PRInv => PassedIsTested
    BY <1>1 DEF PassedIsTested
  <1> QED  BY <1>2, PRInvariant, PTL

\* What was good enough for `mac task transition completed` on a commit is good enough for
\* governance_pr.py once it is committed itself.
THEOREM ClosedTasksPass == PRSpec => []ClosesSurviveCommit
  <1>1. ASSUME PRInv, NEW d \in closed, d.commit, published = d.proofs, NothingMoved,
               \A i \in (d.head + 1)..Len(history) : history[i].kind = "metadata"
        PROVE  Accepts
    <2>1. Grounded(d)
      BY <1>1 DEF PRInv, DecisionsOK
    <2>2. ASSUME NEW c \in Claim PROVE \E p \in published : p.claim = c /\ p.valid /\ p.subject = CISubject
      <3>1. PICK p \in published : p.claim = c
        BY <1>1, <2>1 DEF Grounded
      <3>2. p.valid /\ p.subject.type = "commit" /\ Settled(p.subject.commit, d.head)
        BY <1>1, <2>1 DEF Grounded
      <3>3. IsLast(p.subject.commit, CodeKinds) /\ p.subject.commit \in DOMAIN history
        BY <1>1, <2>1, <3>2, HeadIsCommit DEF PRInv, Settled, IsLast, Grounded, CodeKinds
      <3>4. p.subject.commit = LastOf(CIKinds)
        BY <1>1, <3>3, LoopsAgree DEF PRInv
      <3>5. p.subject \in CommitSubjects
        BY <1>1, <3>2 DEF PRInv, EvidenceOK, EvidenceRec, CommitSubjects, WorkspaceSubjects
      <3> QED  BY <3>1, <3>2, <3>4, <3>5 DEF CISubject, CommitSubjects
    <2> QED  BY <2>2 DEF Accepts
  <1>2. PRInv => ClosesSurviveCommit
    BY <1>1 DEF ClosesSurviveCommit
  <1> QED  BY <1>2, PRInvariant, PTL

\* A close whose evidence was touched after the decision is a REVISION_CONFLICT.
THEOREM ClosesStandOnEvidence == PRSpec => ClosesOnStandingEvidence
  <1>1. ASSUME PRInv, [PRNext]_prVars, NEW d \in closed' \ closed, NEW c \in Claim
        PROVE  \E p \in proofs : p.claim = c /\ p.valid /\ p.ended = d.tree
    <2>1. d \in decided /\ d.fresh
      BY <1>1
         DEF PRNext, prVars, StartGate, EndGate, Promote, Invalidate, Decide, Close, Edit, GitAdd, Commit
    <2> QED  BY <1>1, <2>1 DEF PRInv, DecisionsOK, Grounded
  <1>2. PRInv /\ [PRNext]_prVars =>
           [\A d \in closed' \ closed : \A c \in Claim : \E p \in proofs :
               p.claim = c /\ p.valid /\ p.ended = d.tree]_prVars
    BY <1>1
  <1> QED  BY <1>2, PRInvariant, PTL DEF PRSpec, ClosesOnStandingEvidence

-----------------------------------------------------------------------------
(* Ownership: the only winner is who owns the path.                        *)

\* A finite set has an element that no other is before: of the sets of elements
\* that come before one of them, a smallest is empty.
LEMMA FiniteHasFirst ==
    ASSUME NEW S, IsFiniteSet(S), S # {}, NEW R,
           \A x \in S : <<x, x>> \notin R,
           \A x, y, z \in S : <<x, y>> \in R /\ <<y, z>> \in R => <<x, z>> \in R
    PROVE  \E x \in S : \A y \in S : <<y, x>> \notin R
<1> DEFINE before(x) == {y \in S : <<y, x>> \in R}
           all == {before(x) : x \in S}
<1>1. all \subseteq FiniteSubsetsOf(S) /\ all # {}
  <2>1. \A x \in S : before(x) \in SUBSET S /\ IsFiniteSet(before(x))
    BY FS_Subset
  <2>2. \A x \in S : before(x) \in FiniteSubsetsOf(S)
    BY <2>1 DEF FiniteSubsetsOf
  <2> HIDE DEF before
  <2> QED
    BY <2>2
<1>2. \E A \in all : \A B \in all : ~(<<B, A>> \in StrictSubsetOrdering(S))
  <2> HIDE DEF all
  <2> QED
    BY <1>1, FS_StrictSubsetOrderingWellFounded, WFMin
<1>3. PICK x \in S : \A B \in all : ~(<<B, before(x)>> \in StrictSubsetOrdering(S))
  BY <1>2
<1>4. ASSUME NEW y \in S, <<y, x>> \in R PROVE FALSE
  <2>1. before(y) \subseteq before(x) /\ y \in before(x) /\ y \notin before(y)
    BY <1>4
  <2>2. <<before(y), before(x)>> \in StrictSubsetOrdering(S)
    BY <2>1 DEF StrictSubsetOrdering
  <2> QED
    BY <1>3, <2>2
<1> QED
  BY <1>4

\* Specificity orders the patterns, with ties.
LEMMA SpecificityOrders ==
    /\ \A p, q \in Pattern : AsSpecific(p, q) \/ AsSpecific(q, p)
    /\ \A p, q, r \in Pattern : AsSpecific(p, q) /\ AsSpecific(q, r) => AsSpecific(p, r)
<1>1. \A p \in Pattern : Segments[p] \in Nat /\ Literals[p] \in Nat
  BY ChangeScopeParameters
<1> QED
  BY <1>1 DEF AsSpecific

LEMMA RequestFields ==
    ASSUME request \in Requests
    PROVE  /\ request.changes \in Seq(Change)
           /\ \A o \in CodeOwner : /\ request.document[o].include \subseteq Pattern
                                   /\ request.document[o].priority \in Int
                                   /\ IsFiniteSet(request.document[o].include)
BY ChangeScopeParameters DEF Ownership

\* An owner who includes a path has a best pattern for it.
LEMMA BestExists ==
    ASSUME request \in Requests, NEW path, NEW o \in CodeOwner, Including(o, path) # {}
    PROVE  /\ Best(o, path) \in Including(o, path) /\ Best(o, path) \in Pattern
           /\ \A p \in Including(o, path) : AsSpecific(Best(o, path), p)
<1> DEFINE S == Including(o, path)
           R == {e \in S \X S : ~AsSpecific(e[2], e[1])}
<1>1. S \subseteq Pattern /\ IsFiniteSet(S) /\ S # {}
  <2>1. S \subseteq request.document[o].include
    BY DEF Including
  <2> QED
    BY <2>1, RequestFields, FS_Subset
<1>2. /\ \A x \in S : <<x, x>> \notin R
      /\ \A x, y, z \in S : <<x, y>> \in R /\ <<y, z>> \in R => <<x, z>> \in R
      /\ \A x, y \in S : <<x, y>> \notin R => AsSpecific(y, x)
  <2> HIDE DEF S
  <2>1. \A x, y \in S : <<x, y>> \in R <=> ~AsSpecific(y, x)
    OBVIOUS
  <2> HIDE DEF R
  <2> QED
    BY <1>1, <2>1, SpecificityOrders
<1>3. \E x \in S : \A y \in S : <<y, x>> \notin R
  <2> HIDE DEF S, R
  <2> QED
    BY <1>1, <1>2, FiniteHasFirst
<1>4. \E x \in S : \A y \in S : AsSpecific(x, y)
  <2> HIDE DEF S, R
  <2> QED
    BY <1>2, <1>3
<1>5. Best(o, path) \in S /\ \A p \in S : AsSpecific(Best(o, path), p)
  BY <1>4 DEF Best
<1> QED
  BY <1>1, <1>5

\* An owner beats another by its best pattern, or by its priority if those tie.
Beats(o, q, path) ==
    \/ ~AsSpecific(Best(q, path), Best(o, path))
    \/ /\ AsSpecific(Best(o, path), Best(q, path))
       /\ request.document[o].priority > request.document[q].priority

LEMMA CandidatesClaim ==
    ASSUME request \in Requests, NEW path
    PROVE  /\ \A o \in CodeOwner : \A p : <<o, p>> \in Claims(path) <=> o \in Candidates(path) /\ p \in Including(o, path)
           /\ \A c \in Claims(path) : c = <<c[1], c[2]>> /\ c[1] \in CodeOwner
           /\ \A o \in Candidates(path) : /\ o \in CodeOwner
                                          /\ Best(o, path) \in Including(o, path) /\ Best(o, path) \in Pattern
                                          /\ \A p \in Including(o, path) : p \in Pattern /\ AsSpecific(Best(o, path), p)
<1>1. \A o \in CodeOwner : \A p : <<o, p>> \in Claims(path) <=> o \in Candidates(path) /\ p \in Including(o, path)
  BY RequestFields DEF Claims, Candidates, Including, MatchesAny
<1>2. \A c \in Claims(path) : c = <<c[1], c[2]>> /\ c[1] \in CodeOwner
  BY DEF Claims
<1>3. \A o \in Candidates(path) : o \in CodeOwner /\ Including(o, path) # {}
  BY DEF Candidates
<1>4. \A o \in CodeOwner : \A p \in Including(o, path) : p \in Pattern
  BY RequestFields DEF Including
<1> QED
  BY <1>1, <1>2, <1>3, <1>4, BestExists

LEMMA OwnerBeatsOthers ==
    ASSUME request \in Requests, NEW path, NEW o \in CodeOwner
    PROVE  Owns(o, path) <=> /\ o \in Candidates(path)
                             /\ \A q \in Candidates(path) : q # o => Beats(o, q, path)
<1>1. ASSUME Owns(o, path)
      PROVE  o \in Candidates(path) /\ \A q \in Candidates(path) : q # o => Beats(o, q, path)
  <2>1. PICK mine \in Claims(path) : mine[1] = o /\ \A other \in Claims(path) : other[1] # o =>
          \/ ~AsSpecific(other[2], mine[2])
          \/ /\ AsSpecific(mine[2], other[2])
             /\ request.document[o].priority > request.document[other[1]].priority
    BY <1>1 DEF Owns
  <2>2. o \in Candidates(path) /\ mine[2] \in Including(o, path)
    BY <2>1, CandidatesClaim
  <2>3. ASSUME NEW q \in Candidates(path), q # o PROVE Beats(o, q, path)
    <3> DEFINE other == <<q, Best(q, path)>>
    <3>1. other \in Claims(path) /\ other[1] # o
      BY <2>3, CandidatesClaim
    <3>2. \/ ~AsSpecific(Best(q, path), mine[2])
          \/ /\ AsSpecific(mine[2], Best(q, path))
             /\ request.document[o].priority > request.document[q].priority
      BY <2>1, <3>1
    <3>3. mine[2] \in Pattern /\ AsSpecific(Best(o, path), mine[2]) /\ Best(o, path) \in Pattern
          /\ Best(q, path) \in Pattern
      BY <2>2, <2>3, CandidatesClaim
    <3> QED
      BY <3>2, <3>3, SpecificityOrders DEF Beats
  <2> QED
    BY <2>2, <2>3
<1>2. ASSUME o \in Candidates(path), \A q \in Candidates(path) : q # o => Beats(o, q, path)
      PROVE  Owns(o, path)
  <2> DEFINE mine == <<o, Best(o, path)>>
  <2>1. mine \in Claims(path) /\ mine[1] = o
    BY <1>2, CandidatesClaim
  <2>2. ASSUME NEW other \in Claims(path), other[1] # o
        PROVE  \/ ~AsSpecific(other[2], mine[2])
               \/ /\ AsSpecific(mine[2], other[2])
                  /\ request.document[o].priority > request.document[other[1]].priority
    <3>1. PICK q, p : other = <<q, p>> /\ q \in CodeOwner
      BY <2>2, CandidatesClaim
    <3>2. q \in Candidates(path) /\ p \in Including(q, path) /\ q # o
      BY <2>2, <3>1, CandidatesClaim
    <3>3. Beats(o, q, path)
      BY <1>2, <3>2
    <3>4. /\ p \in Pattern /\ AsSpecific(Best(q, path), p)
          /\ Best(o, path) \in Pattern /\ Best(q, path) \in Pattern
      BY <1>2, <3>2, CandidatesClaim
    <3>5. \/ ~AsSpecific(p, Best(o, path))
          \/ /\ AsSpecific(Best(o, path), p)
             /\ request.document[o].priority > request.document[q].priority
      BY <3>3, <3>4, SpecificityOrders DEF Beats
    <3> QED
      BY <3>1, <3>5
  <2> QED
    BY <2>1, <2>2 DEF Owns
<1> QED
  BY <1>1, <1>2

LEMMA OwnerIsOnlyWinner ==
    ASSUME request \in Requests, NEW path, NEW o \in CodeOwner
    PROVE  Owns(o, path) <=> Winners(path) = {o}
<1>1. /\ \A q \in Candidates(path) : Best(q, path) \in Pattern /\ request.document[q].priority \in Int
      /\ Winners(path) \subseteq Candidates(path)
  BY CandidatesClaim, RequestFields DEF Winners
<1>2. \A q, r \in Candidates(path) : Outranks(q, r, path) <=> ~Beats(r, q, path)
  BY <1>1, SpecificityOrders DEF Outranks, Beats
<1>3. ASSUME o \in Candidates(path), \A q \in Candidates(path) : q # o => Beats(o, q, path)
      PROVE  Winners(path) = {o}
  <2>1. \A q \in Candidates(path) : Outranks(o, q, path)
    <3>1. SUFFICES ASSUME NEW q \in Candidates(path), Beats(q, o, path) PROVE FALSE
      BY <1>2, <1>3
    <3>2. CASE q = o
      BY <1>1, <1>3, <3>1, <3>2, SpecificityOrders DEF Beats
    <3>3. CASE q # o
      <4>1. Beats(o, q, path)
        BY <1>3, <3>3
      <4> QED
        BY <1>1, <1>3, <3>1, <4>1, SpecificityOrders DEF Beats
    <3> QED
      BY <3>2, <3>3
  <2>2. \A q \in Winners(path) : q = o
    BY <1>2, <1>3 DEF Winners
  <2> QED
    BY <1>3, <2>1, <2>2 DEF Winners
<1>4. ASSUME Winners(path) = {o}
      PROVE  o \in Candidates(path) /\ \A q \in Candidates(path) : q # o => Beats(o, q, path)
  <2>1. o \in Candidates(path) /\ \A q \in Candidates(path) : ~Beats(q, o, path)
    BY <1>1, <1>2, <1>4 DEF Winners
  <2>2. ASSUME NEW q \in Candidates(path), q # o, ~Beats(o, q, path) PROVE FALSE
    <3>1. q \notin Winners(path)
      BY <1>4, <2>2
    <3>2. PICK r \in Candidates(path) : Beats(r, q, path)
      BY <1>2, <2>2, <3>1 DEF Winners
    <3>3. ~Beats(r, o, path)
      BY <2>1
    <3> QED
      BY <1>1, <2>1, <2>2, <3>2, <3>3, SpecificityOrders DEF Beats
  <2> QED
    BY <2>1, <2>2
<1> QED
  BY <1>3, <1>4, OwnerBeatsOthers

\* A path is resolved if somebody owns it, and then by that owner.
LEMMA ResolvedToOwner ==
    ASSUME request \in Requests, NEW path
    PROVE  /\ Resolved(path) <=> \E o \in CodeOwner : Owns(o, path)
           /\ \A o \in CodeOwner : Owns(o, path) <=> Winners(path) = {o}
<1>1. Winners(path) \subseteq CodeOwner
  BY DEF Winners, Candidates
<1>2. IsFiniteSet(Winners(path))
  BY <1>1, FS_Subset, ChangeScopeParameters
<1>3. Resolved(path) <=> \E o : Winners(path) = {o}
  BY <1>2, FS_Singleton DEF Resolved
<1> QED
  BY <1>1, <1>3, OwnerIsOnlyWinner

-----------------------------------------------------------------------------
(* The two tables.                                                         *)

\* No two names of a set are one name to some file system.
Distinct(E) == \A m, n \in E : FoldCase[m.path] = FoldCase[n.path] => m = n

\* A table has a name of the set under each key that one of them has.
CasesOf(T, E) ==
    /\ DOMAIN T = {FoldCase[n.path] : n \in E}
    /\ \A k \in DOMAIN T : T[k] \in E /\ FoldCase[T[k].path] = k

FormsOf(T, E) ==
    /\ DOMAIN T = {n.path : n \in E}
    /\ \A k \in DOMAIN T : T[k] \in E /\ T[k].path = k

LEMMA EnterKeepsFirst ==
    ASSUME NEW T, NEW k, NEW n
    PROVE  /\ DOMAIN Enter(T, k, n) = DOMAIN T \cup {k}
           /\ \A j \in DOMAIN T : Enter(T, k, n)[j] = T[j]
           /\ k \notin DOMAIN T => Enter(T, k, n)[k] = n
BY DEF Enter

\* One more name: the tables together find whether it clashes.
LEMMA TablesFindClashes ==
    ASSUME NEW E, NEW C, NEW F, NEW n, CasesOf(C, E), FormsOf(F, E)
    PROVE  /\ CasesOf(Enter(C, FoldCase[n.path], n), E \cup {n})
           /\ FormsOf(Enter(F, n.path, n), E \cup {n})
           /\ Distinct(E \cup {n}) <=> Distinct(E) /\ ~CaseCollision(C, n) /\ ~FormCollision(F, n)
<1> DEFINE k == FoldCase[n.path]
<1>1. CasesOf(Enter(C, k, n), E \cup {n})
  <2> DEFINE D == Enter(C, k, n)
  <2>1. /\ DOMAIN D = DOMAIN C \cup {k}
        /\ \A j \in DOMAIN C : D[j] = C[j]
        /\ k \notin DOMAIN C => D[k] = n
    BY EnterKeepsFirst
  <2> HIDE DEF D
  <2>2. DOMAIN D = {FoldCase[m.path] : m \in E \cup {n}}
    BY <2>1 DEF CasesOf
  <2>3. \A j \in DOMAIN D : D[j] \in E \cup {n} /\ FoldCase[D[j].path] = j
    BY <2>1 DEF CasesOf
  <2> QED
    BY <2>2, <2>3 DEF CasesOf, D
<1>2. FormsOf(Enter(F, n.path, n), E \cup {n})
  <2> DEFINE D == Enter(F, n.path, n)
  <2>1. /\ DOMAIN D = DOMAIN F \cup {n.path}
        /\ \A j \in DOMAIN F : D[j] = F[j]
        /\ n.path \notin DOMAIN F => D[n.path] = n
    BY EnterKeepsFirst
  <2> HIDE DEF D
  <2>2. DOMAIN D = {m.path : m \in E \cup {n}}
    BY <2>1 DEF FormsOf
  <2>3. \A j \in DOMAIN D : D[j] \in E \cup {n} /\ D[j].path = j
    BY <2>1 DEF FormsOf
  <2> QED
    BY <2>2, <2>3 DEF FormsOf, D
<1>3. ASSUME Distinct(E \cup {n}) PROVE Distinct(E) /\ ~CaseCollision(C, n) /\ ~FormCollision(F, n)
  <2>1. Distinct(E)
    BY <1>3 DEF Distinct
  <2>2. ~CaseCollision(C, n)
    BY <1>3 DEF Distinct, CaseCollision, CasesOf
  <2>3. ~FormCollision(F, n)
    BY <1>3 DEF Distinct, FormCollision, FormsOf
  <2> QED
    BY <2>1, <2>2, <2>3
<1>4. ASSUME Distinct(E), ~CaseCollision(C, n), ~FormCollision(F, n),
             NEW m \in E, FoldCase[m.path] = k
      PROVE  m = n
  <2>1. k \in DOMAIN C /\ C[k] = m
    BY <1>4 DEF Distinct, CasesOf
  <2>2. m.path = n.path
    BY <1>4, <2>1 DEF CaseCollision
  <2>3. n.path \in DOMAIN F /\ F[n.path] = m
    BY <1>4, <2>2 DEF Distinct, FormsOf
  <2> QED
    BY <1>4, <2>3 DEF FormCollision
<1> QED
  BY <1>1, <1>2, <1>3, <1>4 DEF Distinct

\* A change has at most two ends, so its table is filled in at most two steps.
LEMMA FilledInTwo ==
    ASSUME NEW T, NEW keys, NEW names, Len(names) \in 0..2
    PROVE  /\ Filled(T, keys, names)[0] = T
           /\ \A i \in 1..Len(names) :
                Filled(T, keys, names)[i] = Enter(Filled(T, keys, names)[i-1], keys[i], names[i])
<1> DEFINE N == Len(names)
           Table(f) == f = [i \in 0..N |-> IF i = 0 THEN T ELSE Enter(f[i-1], keys[i], names[i])]
           one == Enter(T, keys[1], names[1])
           g == [i \in 0..N |-> IF i = 0 THEN T ELSE IF i = 1 THEN one ELSE Enter(one, keys[2], names[2])]
<1>0. N \in 0..2
  OBVIOUS
<1>2. Filled(T, keys, names) = CHOOSE f : Table(f)
  BY DEF Filled
<1> HIDE DEF N
<1>1. Table(g)
  <2>1. \A i \in 0..N : i \in {0, 1, 2} /\ (i # 0 => i - 1 \in 0..N)
    BY <1>0
  <2>2. \A i \in 0..N : g[i] = IF i = 0 THEN T ELSE Enter(g[i-1], keys[i], names[i])
    <3>1. SUFFICES ASSUME NEW i \in 0..N
                   PROVE  g[i] = IF i = 0 THEN T ELSE Enter(g[i-1], keys[i], names[i])
      OBVIOUS
    <3>2. CASE i = 0
      BY <3>2
    <3>3. CASE i = 1
      BY <2>1, <3>3
    <3>4. CASE i = 2
      BY <2>1, <3>4
    <3> QED
      BY <2>1, <3>2, <3>3, <3>4
  <2> QED
    BY <2>2
<1>3. Table(Filled(T, keys, names))
  <2> HIDE DEF Table, g
  <2> QED
    BY <1>1, <1>2
<1>4. \A f : Table(f) => /\ f[0] = T
                         /\ \A i \in 1..N : f[i] = Enter(f[i-1], keys[i], names[i])
  BY <1>0
<1> HIDE DEF Table
<1> QED
  BY <1>3, <1>4 DEF N

\* What is looked at of a change.
EndSet(c) == {n \in {c.old, c.new} : n.path \notin Metadata}

LEMMA EndsOfChange ==
    ASSUME NEW c \in Change
    PROVE  /\ Len(Ends(c)) \in 0..2 /\ DOMAIN Ends(c) = 1..Len(Ends(c))
           /\ EndSet(c) = {Ends(c)[i] : i \in 1..Len(Ends(c))}
           /\ c.operation = "rename" => (Len(Ends(c)) = 2 <=> EndSet(c) = {c.old, c.new})
<1>1. /\ c.operation \in {"rename", "copy"} \/ c.old = c.new
      /\ c.old \in Name /\ c.new \in Name
  BY DEF Change
<1>2. CASE c.operation \in {"rename", "copy"}
  <2>1. Ends(c) = Looked(c.old) \o Looked(c.new)
    BY <1>2 DEF Ends
  <2>2. CASE c.old.path \in Metadata /\ c.new.path \in Metadata
    BY <2>1, <2>2 DEF Looked, EndSet
  <2>3. CASE c.old.path \in Metadata /\ c.new.path \notin Metadata
    <3>1. Ends(c) = <<c.new>> /\ EndSet(c) = {c.new}
      BY <2>1, <2>3 DEF Looked, EndSet
    <3> QED
      BY <2>3, <3>1
  <2>4. CASE c.old.path \notin Metadata /\ c.new.path \in Metadata
    <3>1. Ends(c) = <<c.old>> /\ EndSet(c) = {c.old}
      BY <2>1, <2>4 DEF Looked, EndSet
    <3> QED
      BY <2>4, <3>1
  <2>5. CASE c.old.path \notin Metadata /\ c.new.path \notin Metadata
    <3>1. Ends(c) = <<c.old>> \o <<c.new>>
      BY <2>1, <2>5 DEF Looked
    <3>2. EndSet(c) = {c.old, c.new}
      BY <2>5 DEF EndSet
    <3>3. /\ Len(Ends(c)) = 2 /\ DOMAIN Ends(c) = 1..2
          /\ Ends(c)[1] = c.old /\ Ends(c)[2] = c.new
      BY <3>1
    <3>4. {Ends(c)[i] : i \in 1..2} = {c.old, c.new}
      BY <3>3
    <3> QED
      BY <3>2, <3>3, <3>4
  <2> QED
    BY <2>2, <2>3, <2>4, <2>5
<1>3. CASE c.operation \notin {"rename", "copy"}
  <2>1. Ends(c) = Looked(c.new) /\ EndSet(c) = IF c.new.path \in Metadata THEN {} ELSE {c.new}
    <3>1. Ends(c) = <<>> \o Looked(c.new) /\ c.old = c.new
      BY <1>1, <1>3 DEF Ends
    <3> QED
      BY <3>1 DEF Looked, EndSet
  <2>2. CASE c.new.path \in Metadata
    <3>1. Ends(c) = <<>> /\ EndSet(c) = {}
      BY <2>1, <2>2 DEF Looked
    <3> QED
      BY <1>3, <3>1
  <2>3. CASE c.new.path \notin Metadata
    <3>1. Ends(c) = <<c.new>> /\ EndSet(c) = {c.new}
      BY <2>1, <2>3 DEF Looked
    <3> QED
      BY <1>3, <3>1
  <2> QED
    BY <2>2, <2>3
<1> QED
  BY <1>2, <1>3

LEMMA ChangeFillsTables ==
    ASSUME NEW c \in Change, NEW E, NEW C, NEW F, CasesOf(C, E), FormsOf(F, E),
           NEW ends, ends = Ends(c), NEW C1, NEW F1, NEW keys, NEW paths,
           keys = [i \in DOMAIN ends |-> FoldCase[ends[i].path]], C1 = Filled(C, keys, ends),
           paths = [i \in DOMAIN ends |-> ends[i].path], F1 = Filled(F, paths, ends)
    PROVE  /\ CasesOf(C1[Len(ends)], E \cup EndSet(c)) /\ FormsOf(F1[Len(ends)], E \cup EndSet(c))
           /\ Distinct(E \cup EndSet(c)) <=>
                /\ Distinct(E)
                /\ \A i \in DOMAIN ends : ~CaseCollision(C1[i-1], ends[i]) /\ ~FormCollision(F1[i-1], ends[i])
<1>1. Len(ends) \in 0..2 /\ DOMAIN ends = 1..Len(ends) /\ EndSet(c) = {ends[i] : i \in 1..Len(ends)}
  BY EndsOfChange
<1>2. C1[0] = C /\ F1[0] = F
  BY <1>1, FilledInTwo
<1>3. \A i \in 1..Len(ends) : /\ C1[i] = Enter(C1[i-1], FoldCase[ends[i].path], ends[i])
                              /\ F1[i] = Enter(F1[i-1], ends[i].path, ends[i])
  <2>1. \A i \in 1..Len(ends) : keys[i] = FoldCase[ends[i].path] /\ paths[i] = ends[i].path
    BY <1>1
  <2>2. /\ \A i \in 1..Len(ends) : C1[i] = Enter(C1[i-1], keys[i], ends[i])
        /\ \A i \in 1..Len(ends) : F1[i] = Enter(F1[i-1], paths[i], ends[i])
    <3>1. /\ \A i \in 1..Len(ends) :
                Filled(C, keys, ends)[i] = Enter(Filled(C, keys, ends)[i-1], keys[i], ends[i])
          /\ \A i \in 1..Len(ends) :
                Filled(F, paths, ends)[i] = Enter(Filled(F, paths, ends)[i-1], paths[i], ends[i])
      <4>1. Len(ends) \in 0..2
        BY <1>1
      <4>2. \A i \in 1..Len(ends) :
               Filled(C, keys, ends)[i] = Enter(Filled(C, keys, ends)[i-1], keys[i], ends[i])
        BY ONLY <4>1, FilledInTwo
      <4>3. \A i \in 1..Len(ends) :
               Filled(F, paths, ends)[i] = Enter(Filled(F, paths, ends)[i-1], paths[i], ends[i])
        BY ONLY <4>1, FilledInTwo
      <4> QED
        BY <4>2, <4>3
    <3>2. SUFFICES ASSUME NEW i \in 1..Len(ends)
                   PROVE  C1[i] = Enter(C1[i-1], keys[i], ends[i]) /\ F1[i] = Enter(F1[i-1], paths[i], ends[i])
      OBVIOUS
    <3>3. /\ Filled(C, keys, ends)[i] = Enter(Filled(C, keys, ends)[i-1], keys[i], ends[i])
          /\ Filled(F, paths, ends)[i] = Enter(Filled(F, paths, ends)[i-1], paths[i], ends[i])
      BY <3>1, Zenon
    <3>4. C1 = Filled(C, keys, ends) /\ F1 = Filled(F, paths, ends)
      OBVIOUS
    <3> QED
      BY ONLY <3>3, <3>4
  <2> QED
    BY <2>1, <2>2
<1> DEFINE L == Len(ends)
           NoClash == \A i \in DOMAIN ends : ~CaseCollision(C1[i-1], ends[i]) /\ ~FormCollision(F1[i-1], ends[i])
           First == ~CaseCollision(C1[0], ends[1]) /\ ~FormCollision(F1[0], ends[1])
           Second == ~CaseCollision(C1[1], ends[2]) /\ ~FormCollision(F1[1], ends[2])
<1>4. ASSUME L >= 1
      PROVE  /\ CasesOf(C1[1], E \cup {ends[1]}) /\ FormsOf(F1[1], E \cup {ends[1]})
             /\ Distinct(E \cup {ends[1]}) <=> Distinct(E) /\ First
  <2>1. C1[1] = Enter(C, FoldCase[ends[1].path], ends[1]) /\ F1[1] = Enter(F, ends[1].path, ends[1])
    <3>1. 1 \in 1..L /\ 1 - 1 = 0
      BY <1>1, <1>4
    <3>2. /\ C1[1] = Enter(C1[1-1], FoldCase[ends[1].path], ends[1])
          /\ F1[1] = Enter(F1[1-1], ends[1].path, ends[1])
      BY <1>3, <3>1, Zenon
    <3> QED
      BY <1>2, <3>1, <3>2, Zenon
  <2>2. /\ CasesOf(Enter(C, FoldCase[ends[1].path], ends[1]), E \cup {ends[1]})
        /\ FormsOf(Enter(F, ends[1].path, ends[1]), E \cup {ends[1]})
        /\ Distinct(E \cup {ends[1]}) <=>
              Distinct(E) /\ ~CaseCollision(C, ends[1]) /\ ~FormCollision(F, ends[1])
    BY TablesFindClashes
  <2> QED
    BY <1>2, <2>1, <2>2
<1>5. CASE L = 0
  <2>1. EndSet(c) = {} /\ E \cup EndSet(c) = E /\ DOMAIN ends = {}
    BY <1>1, <1>5
  <2>2. C1[L] = C /\ F1[L] = F
    BY <1>2, <1>5
  <2>3. CasesOf(C1[L], E \cup EndSet(c)) /\ FormsOf(F1[L], E \cup EndSet(c))
    BY <2>1, <2>2
  <2> QED
    BY <2>1, <2>3
<1>6. CASE L = 1
  <2>1. EndSet(c) = {ends[1]} /\ DOMAIN ends = {1} /\ 1 - 1 = 0
    BY <1>1, <1>6
  <2>2. NoClash <=> First
    BY <2>1
  <2>3. CasesOf(C1[L], E \cup EndSet(c)) /\ FormsOf(F1[L], E \cup EndSet(c))
    BY <1>4, <1>6, <2>1
  <2> HIDE DEF NoClash, First
  <2>4. Distinct(E \cup EndSet(c)) <=> Distinct(E) /\ NoClash
    BY <1>4, <1>6, <2>1, <2>2
  <2> QED
    BY <2>3, <2>4 DEF NoClash
<1>7. CASE L = 2
  <2>1. C1[2] = Enter(C1[1], FoldCase[ends[2].path], ends[2]) /\ F1[2] = Enter(F1[1], ends[2].path, ends[2])
    <3>1. 2 \in 1..L /\ 2 - 1 = 1
      BY <1>7
    <3>2. /\ C1[2] = Enter(C1[2-1], FoldCase[ends[2].path], ends[2])
          /\ F1[2] = Enter(F1[2-1], ends[2].path, ends[2])
      BY <1>3, <3>1, Zenon
    <3> QED
      BY <3>1, <3>2, Zenon
  <2> DEFINE E1 == E \cup {ends[1]}
  <2>2. /\ CasesOf(C1[2], E1 \cup {ends[2]}) /\ FormsOf(F1[2], E1 \cup {ends[2]})
        /\ Distinct(E1 \cup {ends[2]}) <=> Distinct(E1) /\ Second
    <3>1. CasesOf(C1[1], E1) /\ FormsOf(F1[1], E1)
      BY <1>4, <1>7
    <3> HIDE DEF E1
    <3>2. /\ CasesOf(Enter(C1[1], FoldCase[ends[2].path], ends[2]), E1 \cup {ends[2]})
          /\ FormsOf(Enter(F1[1], ends[2].path, ends[2]), E1 \cup {ends[2]})
          /\ Distinct(E1 \cup {ends[2]}) <=> Distinct(E1) /\ Second
      BY <3>1, TablesFindClashes
    <3> QED
      BY <2>1, <3>2
  <2>3. E \cup EndSet(c) = E1 \cup {ends[2]}
    BY <1>1, <1>7
  <2>4. NoClash <=> First /\ Second
    <3>1. DOMAIN ends = {1, 2} /\ 1 - 1 = 0 /\ 2 - 1 = 1
      BY <1>1, <1>7
    <3> QED
      BY <3>1
  <2>5. Distinct(E1) <=> Distinct(E) /\ First
    BY <1>4, <1>7
  <2>6. CasesOf(C1[L], E \cup EndSet(c)) /\ FormsOf(F1[L], E \cup EndSet(c))
    BY <1>7, <2>2, <2>3
  <2> HIDE DEF NoClash, First, Second, E1
  <2>7. Distinct(E \cup EndSet(c)) <=> Distinct(E) /\ NoClash
    BY <2>2, <2>3, <2>4, <2>5
  <2> QED
    BY <2>6, <2>7 DEF NoClash
<1>8. L \in {0, 1, 2}
  BY <1>1
<1> QED
  BY <1>5, <1>6, <1>7, <1>8

-----------------------------------------------------------------------------
(* The loop over the changes.                                              *)

Safe == (request.allowed \cup request.denied) \cap UnsafePatterns = {}

InScope(c) == ~CrossesOwners(c) /\ \A n \in EndSet(c) : InContract(c, n.path)

Seen == UNION {EndSet(request.changes[i]) : i \in 1..position - 1}

SeenInScope == Distinct(Seen) /\ \A i \in 1..position - 1 : InScope(request.changes[i])

ScopeInv ==
    /\ request \in Requests
    /\ position \in 0..Len(request.changes) + 1
    /\ CasesOf(cases, Seen) /\ FormsOf(forms, Seen)
    /\ clean <=> SeenInScope
    /\ position > 0 => Safe
    /\ judged \in {"checking", "clean", "refused"}
    /\ judged = "clean" => position = Len(request.changes) + 1 /\ clean
    /\ judged = "refused" => \/ position = 0 /\ ~Safe
                             \/ position = Len(request.changes) + 1 /\ ~clean

\* Whether a change is in scope depends on the request alone.
LEMMA RequestDecides ==
    ASSUME UNCHANGED request
    PROVE  \A x : InScope(x)' <=> InScope(x)
<1>1. \A o, path : Including(o, path)' = Including(o, path)
  BY DEF Including
<1>2. \A o, path : Best(o, path)' = Best(o, path)
  BY <1>1 DEF Best
<1>3. \A o, q, path : Outranks(o, q, path)' <=> Outranks(o, q, path)
  BY <1>2 DEF Outranks
<1>4. \A path : Candidates(path)' = Candidates(path)
  BY <1>1 DEF Candidates
<1>5. \A path : Winners(path)' = Winners(path)
  BY <1>3, <1>4 DEF Winners
<1>6. \A path : Resolved(path)' <=> Resolved(path)
  BY <1>5 DEF Resolved
<1>7. \A x, path : InContract(x, path)' <=> InContract(x, path)
  BY <1>5, <1>6 DEF InContract, MatchesAny
<1>8. \A x : CrossesOwners(x)' <=> CrossesOwners(x)
  BY <1>5, <1>6 DEF CrossesOwners
<1> QED
  BY <1>7, <1>8 DEF InScope

LEMMA CheckStarts == ASSUME ScopeCheckInit PROVE ScopeInv
<1>1. Seen = {} /\ 1..position - 1 = {}
  BY DEF ScopeCheckInit, Seen
<1>2. Len(request.changes) \in Nat
  BY RequestFields DEF ScopeCheckInit
<1>3. CasesOf(cases, Seen) /\ FormsOf(forms, Seen)
  BY <1>1 DEF ScopeCheckInit, CasesOf, FormsOf
<1>4. SeenInScope
  BY <1>1 DEF SeenInScope, Distinct
<1> QED
  BY <1>2, <1>3, <1>4 DEF ScopeCheckInit, ScopeInv

LEMMA ChangeKeepsScope == ASSUME ScopeInv, CheckChange PROVE ScopeInv'
<1> DEFINE c == request.changes[position]
           ends == Ends(c)
           keys == [i \in DOMAIN ends |-> FoldCase[ends[i].path]]
           paths == [i \in DOMAIN ends |-> ends[i].path]
           C1 == Filled(cases, keys, ends)
           F1 == Filled(forms, paths, ends)
           NoClash == \A i \in DOMAIN ends : ~CaseCollision(C1[i-1], ends[i]) /\ ~FormCollision(F1[i-1], ends[i])
<1>1. /\ judged = "checking" /\ position \in DOMAIN request.changes
      /\ cases' = C1[Len(ends)] /\ forms' = F1[Len(ends)]
      /\ clean' = /\ clean /\ ~CrossesOwners(c)
                  /\ \A i \in DOMAIN ends : /\ InContract(c, ends[i].path)
                                            /\ ~CaseCollision(C1[i-1], ends[i])
                                            /\ ~FormCollision(F1[i-1], ends[i])
      /\ position' = position + 1
      /\ request' = request /\ judged' = judged
  BY DEF CheckChange
<1>2. /\ Len(request.changes) \in Nat /\ position \in 1..Len(request.changes)
      /\ c \in Change /\ request \in Requests
  <2>1. request \in Requests /\ request.changes \in Seq(Change)
    BY RequestFields DEF ScopeInv
  <2> QED
    BY <1>1, <2>1
<1>3. DOMAIN ends = 1..Len(ends) /\ EndSet(c) = {ends[i] : i \in 1..Len(ends)}
  BY <1>2, EndsOfChange
<1>4. /\ CasesOf(C1[Len(ends)], Seen \cup EndSet(c)) /\ FormsOf(F1[Len(ends)], Seen \cup EndSet(c))
      /\ Distinct(Seen \cup EndSet(c)) <=>
            Distinct(Seen) /\ NoClash
  <2>1. CasesOf(cases, Seen) /\ FormsOf(forms, Seen)
    BY DEF ScopeInv
  <2> HIDE DEF c
  <2> QED
    BY <1>2, <2>1, ChangeFillsTables
<1>4a. clean' <=> /\ clean /\ ~CrossesOwners(c)
                  /\ \A i \in DOMAIN ends : InContract(c, ends[i].path)
                  /\ NoClash
  BY <1>1, Zenon
<1> HIDE DEF ends, C1, F1, NoClash
<1>5. 1..position' - 1 = (1..position - 1) \cup {position}
  BY <1>1, <1>2
<1>6. Seen' = Seen \cup EndSet(c)
  <2>1. Seen' = UNION {EndSet(request.changes[i]) : i \in (1..position - 1) \cup {position}}
    BY <1>1, <1>5 DEF Seen
  <2> QED
    BY <2>1 DEF Seen
<1>7. SeenInScope' <=> SeenInScope /\ InScope(c) /\ NoClash
  <2>1. \A x : InScope(x)' <=> InScope(x)
    BY <1>1, RequestDecides
  <2>2. SeenInScope' <=> Distinct(Seen)' /\ \A i \in (1..position - 1) \cup {position} : InScope(request.changes[i])'
    BY <1>1, <1>5 DEF SeenInScope
  <2>3. Distinct(Seen)' <=> Distinct(Seen \cup EndSet(c))
    BY <1>6 DEF Distinct
  <2> QED
    BY <1>1, <1>4, <2>1, <2>2, <2>3 DEF SeenInScope
<1>8. clean' <=> SeenInScope'
  <2>1. (\A i \in DOMAIN ends : InContract(c, ends[i].path)) <=> \A n \in EndSet(c) : InContract(c, n.path)
    BY <1>3
  <2>2. InScope(c) <=> ~CrossesOwners(c) /\ \A i \in DOMAIN ends : InContract(c, ends[i].path)
    BY <2>1 DEF InScope
  <2>3. clean <=> SeenInScope
    BY DEF ScopeInv
  <2> HIDE DEF c
  <2> QED
    BY <1>7, <1>4a, <2>2, <2>3
<1>9. CasesOf(cases, Seen)' /\ FormsOf(forms, Seen)'
  BY <1>1, <1>4, <1>6 DEF CasesOf, FormsOf
<1>10. position' \in 0..Len(request'.changes) + 1 /\ position > 0 /\ position # Len(request.changes) + 1
  BY <1>1, <1>2
<1>11. Safe'
  BY <1>1, <1>10 DEF ScopeInv, Safe
<1> QED
  BY <1>1, <1>2, <1>8, <1>9, <1>10, <1>11 DEF ScopeInv

\* The other steps touch neither the request nor what has been seen, as far as a
\* first position does not show anything.
LEMMA SeenStays ==
    ASSUME UNCHANGED request, 1..position' - 1 = 1..position - 1
    PROVE  Seen' = Seen /\ (SeenInScope' <=> SeenInScope) /\ (Safe' <=> Safe)
<1>1. Seen' = Seen
  BY DEF Seen
<1>2. \A x : InScope(x)' <=> InScope(x)
  BY RequestDecides
<1>3. Distinct(Seen)' <=> Distinct(Seen)
  BY <1>1 DEF Distinct
<1>4. SeenInScope' <=> Distinct(Seen)' /\ \A i \in 1..position - 1 : InScope(request.changes[i])'
  BY DEF SeenInScope
<1>5. SeenInScope' <=> SeenInScope
  BY <1>2, <1>3, <1>4 DEF SeenInScope
<1> QED
  BY <1>1, <1>5 DEF Safe

LEMMA OtherStepsKeepScope ==
    ASSUME ScopeInv, CheckPatterns \/ Judge \/ UNCHANGED scopeCheckVars
    PROVE  ScopeInv'
<1>1. /\ request' = request /\ cases' = cases /\ forms' = forms /\ clean' = clean
      /\ \/ judged = "checking" /\ position = 0 /\ Safe /\ position' = 1 /\ judged' = judged
         \/ judged = "checking" /\ position = 0 /\ ~Safe /\ position' = position /\ judged' = "refused"
         \/ /\ judged = "checking" /\ position = Len(request.changes) + 1 /\ position' = position
            /\ judged' = IF clean THEN "clean" ELSE "refused"
         \/ judged' = judged /\ position' = position
  BY DEF CheckPatterns, Judge, scopeCheckVars, Safe
<1>2. Len(request.changes) \in Nat
  <2>1. request.changes \in Seq(Change)
    BY RequestFields DEF ScopeInv
  <2> QED
    BY <2>1
<1>3. 1..position' - 1 = 1..position - 1
  BY <1>1
<1>4. Seen' = Seen /\ (SeenInScope' <=> SeenInScope) /\ (Safe' <=> Safe)
  BY <1>1, <1>3, SeenStays
<1>5. CasesOf(cases, Seen)' /\ FormsOf(forms, Seen)'
  BY <1>1, <1>4 DEF ScopeInv, CasesOf, FormsOf
<1>6. clean' <=> SeenInScope'
  BY <1>1, <1>4 DEF ScopeInv
<1>7. position' \in 0..Len(request'.changes) + 1 /\ (position' > 0 => Safe')
  BY <1>1, <1>2, <1>4 DEF ScopeInv
<1>8. /\ judged' \in {"checking", "clean", "refused"}
      /\ judged' = "clean" => position' = Len(request'.changes) + 1 /\ clean'
      /\ judged' = "refused" => \/ position' = 0 /\ ~Safe'
                                \/ position' = Len(request'.changes) + 1 /\ ~clean'
  <2>1. CASE judged' = judged /\ position' = position
    BY <1>1, <1>4, <2>1 DEF ScopeInv
  <2>2. CASE judged = "checking" /\ position' = 1 /\ judged' = judged
    BY <2>2
  <2>3. CASE position = 0 /\ ~Safe /\ position' = position /\ judged' = "refused"
    BY <1>4, <2>3
  <2>4. CASE /\ position = Len(request.changes) + 1 /\ position' = position
             /\ judged' = IF clean THEN "clean" ELSE "refused"
    BY <1>1, <2>4
  <2> QED
    BY <1>1, <2>1, <2>2, <2>3, <2>4
<1> QED
  BY <1>1, <1>5, <1>6, <1>7, <1>8 DEF ScopeInv

-----------------------------------------------------------------------------
(* What was found is what the contract says.                               *)

LEMMA AllSeen ==
    ASSUME ScopeInv, position = Len(request.changes) + 1
    PROVE  /\ DOMAIN request.changes = 1..position - 1
           /\ \A i \in DOMAIN request.changes : request.changes[i] \in Change
           /\ Seen = Touched
<1>1. request.changes \in Seq(Change)
  BY RequestFields DEF ScopeInv
<1>2. 1..position - 1 = DOMAIN request.changes
  BY <1>1
<1> QED
  BY <1>1, <1>2 DEF Seen, Touched, EndSet

\* What check_changes asks of a path and its owner.
PathInScope(path) ==
    /\ MatchesAny(request.allowed, path) /\ ~MatchesAny(request.denied, path)
    /\ path \notin Escaping /\ (path \in Governed => request.independent)
    /\ \E o \in CodeOwner : Owns(o, path) /\ (request.owners = {} \/ o \in request.owners)

LEMMA ContractOfPath ==
    ASSUME request \in Requests, NEW c, NEW path
    PROVE  InContract(c, path) <=> PathInScope(path) /\ (c.submodule => request.submodules)
<1>1. (Resolved(path) /\ (request.owners = {} \/ Winners(path) \subseteq request.owners))
      <=> \E o \in CodeOwner : Owns(o, path) /\ (request.owners = {} \/ o \in request.owners)
  BY ResolvedToOwner
<1> QED
  BY <1>1 DEF InContract, PathInScope

LEMMA CrossingOwners ==
    ASSUME request \in Requests, NEW c \in Change,
           \A n \in EndSet(c) : \E o \in CodeOwner : Owns(o, n.path)
    PROVE  CrossesOwners(c) <=>
             ~(c.operation = "rename" /\ EndSet(c) = {c.old, c.new} =>
                  \E o \in CodeOwner : Owns(o, c.old.path) /\ Owns(o, c.new.path))
<1>1. c.operation = "rename" => (Len(Ends(c)) = 2 <=> EndSet(c) = {c.old, c.new})
  BY EndsOfChange
<1>2. CASE c.operation = "rename" /\ EndSet(c) = {c.old, c.new}
  <2>1. PICK o \in CodeOwner, q \in CodeOwner : Owns(o, c.old.path) /\ Owns(q, c.new.path)
    BY <1>2
  <2>2. Winners(c.old.path) = {o} /\ Winners(c.new.path) = {q}
    BY <2>1, ResolvedToOwner
  <2>3. Resolved(c.old.path) /\ Resolved(c.new.path)
    BY <2>1, ResolvedToOwner
  <2>4. CrossesOwners(c) <=> o # q
    BY <1>1, <1>2, <2>2, <2>3 DEF CrossesOwners
  <2>5. (\E r \in CodeOwner : Owns(r, c.old.path) /\ Owns(r, c.new.path)) <=> o = q
    BY <2>1, <2>2, ResolvedToOwner
  <2> QED
    BY <1>2, <2>4, <2>5
<1>3. CASE ~(c.operation = "rename" /\ EndSet(c) = {c.old, c.new})
  BY <1>1, <1>3 DEF CrossesOwners
<1> QED
  BY <1>2, <1>3

WithinScope ==
    /\ Safe
    /\ \A m, n \in Touched : FoldCase[m.path] = FoldCase[n.path] => m = n
    /\ \A n \in Touched : PathInScope(n.path)
    /\ \A i \in DOMAIN request.changes : LET c == request.changes[i] IN
          /\ c.submodule /\ {c.old, c.new} \cap Touched # {} => request.submodules
          /\ c.operation = "rename" /\ {c.old, c.new} \subseteq Touched =>
                \E o \in CodeOwner : Owns(o, c.old.path) /\ Owns(o, c.new.path)

LEMMA SeenInScopeIsWithinScope ==
    ASSUME ScopeInv, position = Len(request.changes) + 1, Safe
    PROVE  SeenInScope <=> WithinScope
<1>1. /\ DOMAIN request.changes = 1..position - 1
      /\ \A i \in DOMAIN request.changes : request.changes[i] \in Change
      /\ Seen = Touched /\ request \in Requests
  BY AllSeen DEF ScopeInv
<1> DEFINE D == DOMAIN request.changes
           c(i) == request.changes[i]
           Together(i) == c(i).operation = "rename" /\ EndSet(c(i)) = {c(i).old, c(i).new} =>
                             \E o \in CodeOwner : Owns(o, c(i).old.path) /\ Owns(o, c(i).new.path)
<1>2. Touched = UNION {EndSet(c(i)) : i \in D}
  BY <1>1 DEF Seen
<1>3. \A i \in D : /\ {c(i).old, c(i).new} \cap Touched # {} <=> EndSet(c(i)) # {}
                   /\ {c(i).old, c(i).new} \subseteq Touched <=> EndSet(c(i)) = {c(i).old, c(i).new}
  BY <1>2 DEF EndSet, Touched
<1>4. (\A n \in Touched : PathInScope(n.path)) <=> \A i \in D : \A n \in EndSet(c(i)) : PathInScope(n.path)
  BY <1>2
<1>5. ASSUME NEW i \in D
      PROVE  InScope(c(i)) <=> /\ \A n \in EndSet(c(i)) : PathInScope(n.path)
                               /\ c(i).submodule /\ EndSet(c(i)) # {} => request.submodules
                               /\ Together(i)
  <2>1. (\A n \in EndSet(c(i)) : InContract(c(i), n.path))
        <=> /\ \A n \in EndSet(c(i)) : PathInScope(n.path)
            /\ c(i).submodule /\ EndSet(c(i)) # {} => request.submodules
    BY <1>1, ContractOfPath
  <2>2. ASSUME \A n \in EndSet(c(i)) : PathInScope(n.path)
        PROVE  CrossesOwners(c(i)) <=> ~Together(i)
    <3>1. c(i) \in Change /\ \A n \in EndSet(c(i)) : \E o \in CodeOwner : Owns(o, n.path)
      BY <1>1, <1>5, <2>2 DEF PathInScope
    <3> QED
      BY <1>1, <3>1, CrossingOwners
  <2> QED
    BY <2>1, <2>2 DEF InScope
<1>6. (\A i \in D : InScope(c(i)))
      <=> /\ \A n \in Touched : PathInScope(n.path)
          /\ \A i \in D : /\ c(i).submodule /\ {c(i).old, c(i).new} \cap Touched # {} => request.submodules
                          /\ c(i).operation = "rename" /\ {c(i).old, c(i).new} \subseteq Touched =>
                                \E o \in CodeOwner : Owns(o, c(i).old.path) /\ Owns(o, c(i).new.path)
  BY <1>3, <1>4, <1>5
<1>7. SeenInScope <=> Distinct(Touched) /\ \A i \in D : InScope(c(i))
  BY <1>1 DEF SeenInScope
<1> QED
  BY <1>6, <1>7 DEF WithinScope, Distinct

\* check_changes passes a diff exactly if all it touches is within the contract, in
\* whatever order Git lists the changes, and its two tables find every clash of names.
THEOREM ChangesAreJudged == ScopeCheckSpec => []CleanIsWithinScope
<1>1. ScopeCheckInit => ScopeInv
  BY CheckStarts
<1>2. ScopeInv /\ [ScopeCheckNext]_scopeCheckVars => ScopeInv'
  BY ChangeKeepsScope, OtherStepsKeepScope DEF ScopeCheckNext
<1>3. ScopeInv => CleanIsWithinScope
  <2>1. SUFFICES ASSUME ScopeInv, judged \in {"clean", "refused"} PROVE judged = "clean" <=> WithinScope
    BY DEF CleanIsWithinScope, WithinScope, Safe, PathInScope
  <2>2. CASE ~Safe
    BY <2>1, <2>2 DEF ScopeInv, WithinScope
  <2>3. CASE Safe
    <3>1. position = Len(request.changes) + 1 /\ (judged = "clean" <=> clean)
      BY <2>1, <2>3 DEF ScopeInv
    <3>2. clean <=> SeenInScope
      BY <2>1 DEF ScopeInv
    <3> QED
      BY <2>1, <2>3, <3>1, <3>2, SeenInScopeIsWithinScope
  <2> QED
    BY <2>2, <2>3
<1> QED
  BY <1>1, <1>2, <1>3, PTL DEF ScopeCheckSpec
=============================================================================

----------------------------- MODULE ChangeScope -----------------------------
(***************************************************************************)
(* check_changes of scope.py, which decides whether what Git reports as    *)
(* changed stays within a task's scope contract, and OwnershipResolver of  *)
(* ownership.py, which it asks who owns a path.  The changes are taken one *)
(* by one, both ends of a rename in turn; two tables, of the first name    *)
(* seen under each case key and under each normalized path, find names     *)
(* that some file system would confuse.                                    *)
(***************************************************************************)
EXTENDS Integers, Sequences, FiniteSets

CONSTANTS Path,               \* repository paths in Unicode's normal form C
          FoldCase,           \* the case key of each
          Name,               \* file names: paths, each in one form or several
          Metadata,           \* is_task_governance_metadata
          Governed,           \* the paths of governance_patterns
          Escaping,           \* the paths that a symbolic link takes out of the repository
          Pattern, Matches,   \* patterns, and the paths each matches
          UnsafePatterns,     \* those validate_patterns finds fault with
          Segments, Literals, \* pattern_specificity
          CodeOwner,          \* the owners of ownership.yaml
          Requests            \* what check_changes is called with

\* `old` is the new name again unless Git reports a rename or a copy.
Change == {c \in [operation : {"add", "modify", "delete", "rename", "copy"},
                  old : Name, new : Name, submodule : BOOLEAN] :
              c.operation \in {"rename", "copy"} \/ c.old = c.new}

Ownership == [include : SUBSET Pattern, exclude : SUBSET Pattern, priority : Int]

ASSUME ChangeScopeParameters ==
    /\ \A n \in Name : n.path \in Path
    /\ Metadata \cup Governed \cup Escaping \subseteq Path /\ UnsafePatterns \subseteq Pattern
    /\ Matches \in [Pattern -> SUBSET Path]
    /\ Segments \in [Pattern -> Nat] /\ Literals \in [Pattern -> Nat]
    /\ IsFiniteSet(CodeOwner)
    /\ \A r \in Requests :
          /\ r.changes \in Seq(Change)
          /\ r.document \in [CodeOwner -> Ownership]
          /\ \A o \in CodeOwner : IsFiniteSet(r.document[o].include)

VARIABLES
    request,   \* changes, allowed, denied and owners (of the contract), document (ownership.yaml),
               \* independent (an approval of level L2 or L3), submodules (approved)
    position,  \* of the next change
    cases,     \* path_keys
    forms,     \* unicode_keys
    clean,     \* no issue so far
    judged     \* "none", "checking", "clean" or "refused"

scopeCheckVars == <<request, position, cases, forms, clean, judged>>

ScopeCheckInit ==
    /\ request \in Requests /\ judged = "checking"
    /\ position = 0 /\ cases = <<>> /\ forms = <<>> /\ clean = TRUE

-----------------------------------------------------------------------------
(* OwnershipResolver.                                                      *)

Including(o, path) == {p \in request.document[o].include : path \in Matches[p]}

Candidates(path) ==
    {o \in CodeOwner : /\ \A p \in request.document[o].exclude : path \notin Matches[p]
                       /\ Including(o, path) # {}}

\* pattern_specificity of one is at least that of the other.
AsSpecific(p, q) == Segments[p] > Segments[q] \/ (Segments[p] = Segments[q] /\ Literals[p] >= Literals[q])

Best(o, path) == CHOOSE p \in Including(o, path) : \A q \in Including(o, path) : AsSpecific(p, q)

\* Mutant of Outranks: the priority goes first.
OutranksByPriority(o, q, path) ==
    \/ request.document[o].priority > request.document[q].priority
    \/ /\ request.document[o].priority = request.document[q].priority
       /\ AsSpecific(Best(o, path), Best(q, path))

Outranks(o, q, path) ==
    /\ AsSpecific(Best(o, path), Best(q, path))
    /\ AsSpecific(Best(q, path), Best(o, path)) =>
          request.document[o].priority >= request.document[q].priority

\* resolve: nobody is unassigned, several are ambiguous.
Winners(path) == {o \in Candidates(path) : \A q \in Candidates(path) : Outranks(o, q, path)}

Resolved(path) == Cardinality(Winners(path)) = 1

-----------------------------------------------------------------------------
(* check_changes.                                                          *)

MatchesAny(patterns, path) == \E p \in patterns : path \in Matches[p]

\* What one end of a change is asked.
InContract(c, path) ==
    /\ path \notin Escaping
    /\ path \in Governed => request.independent
    /\ MatchesAny(request.allowed, path) /\ ~MatchesAny(request.denied, path)
    /\ c.submodule => request.submodules
    /\ Resolved(path) /\ (request.owners = {} \/ Winners(path) \subseteq request.owners)

\* SCOPE_CASE_COLLISION, SCOPE_UNICODE_COLLISION.
CaseCollision(seen, n) ==
    FoldCase[n.path] \in DOMAIN seen /\ seen[FoldCase[n.path]].path # n.path
FormCollision(seen, n) == n.path \in DOMAIN seen /\ seen[n.path] # n

\* The first name stays.
Enter(seen, key, n) == IF key \in DOMAIN seen THEN seen
                       ELSE [k \in DOMAIN seen \cup {key} |-> IF k = key THEN n ELSE seen[k]]

\* The table after the first i of some names, each under its key.
Filled(seen, keys, names) ==
    LET f[i \in 0..Len(names)] == IF i = 0 THEN seen ELSE Enter(f[i-1], keys[i], names[i])
    IN  f

\* Metadata of the task is passed over.
Looked(n) == IF n.path \in Metadata THEN <<>> ELSE <<n>>

\* Mutant of Ends: of a rename only the new name counts.
NewEnd(c) == Looked(c.new)

\* The ends of a change in the order they are checked.
Ends(c) == (IF c.operation \in {"rename", "copy"} THEN Looked(c.old) ELSE <<>>) \o Looked(c.new)

CrossesOwners(c) ==
    /\ c.operation = "rename" /\ Len(Ends(c)) = 2
    /\ \A n \in {c.old, c.new} : Resolved(n.path)
    /\ Winners(c.old.path) # Winners(c.new.path)

\* An unsafe pattern in the contract is refused before any change is looked at.
CheckPatterns ==
    /\ judged = "checking" /\ position = 0
    /\ IF (request.allowed \cup request.denied) \cap UnsafePatterns = {}
       THEN position' = 1 /\ UNCHANGED judged
       ELSE judged' = "refused" /\ UNCHANGED position
    /\ UNCHANGED <<request, cases, forms, clean>>

\* Both ends of one change.  Changes have normal paths: git.py normalizes what Git
\* reports before it is checked, so SCOPE_PATH_UNSAFE is never raised for a change.
CheckChange ==
    /\ judged = "checking" /\ position \in DOMAIN request.changes
    /\ LET c == request.changes[position]
           ends == Ends(c)
           casesAt == Filled(cases, [i \in DOMAIN ends |-> FoldCase[ends[i].path]], ends)
           formsAt == Filled(forms, [i \in DOMAIN ends |-> ends[i].path], ends)
       IN  /\ cases' = casesAt[Len(ends)] /\ forms' = formsAt[Len(ends)]
           /\ clean' = /\ clean /\ ~CrossesOwners(c)
                       /\ \A i \in DOMAIN ends : /\ InContract(c, ends[i].path)
                                                 /\ ~CaseCollision(casesAt[i-1], ends[i])
                                                 /\ ~FormCollision(formsAt[i-1], ends[i])
    /\ position' = position + 1
    /\ UNCHANGED <<request, judged>>

Judge ==
    /\ judged = "checking" /\ position = Len(request.changes) + 1
    /\ judged' = IF clean THEN "clean" ELSE "refused"
    /\ UNCHANGED <<request, position, cases, forms, clean>>

ScopeCheckNext == CheckPatterns \/ CheckChange \/ Judge

ScopeCheckSpec == ScopeCheckInit /\ [][ScopeCheckNext]_scopeCheckVars

-----------------------------------------------------------------------------
(* Properties.                                                             *)

\* What the changes touch, in no order: both ends of renames and copies.
Touched ==
    {n \in UNION {{request.changes[i].old, request.changes[i].new} : i \in DOMAIN request.changes} :
        n.path \notin Metadata}

\* An owner c[1] that does not exclude the path claims it with its pattern c[2]; the claim
\* stands if every other owner's is less specific, or as specific with less priority.
Claims(path) ==
    {c \in CodeOwner \X Pattern :
        /\ c[2] \in request.document[c[1]].include /\ path \in Matches[c[2]]
        /\ ~MatchesAny(request.document[c[1]].exclude, path)}

Owns(o, path) ==
    \E mine \in Claims(path) : mine[1] = o /\ \A other \in Claims(path) : other[1] # o =>
        \/ ~AsSpecific(other[2], mine[2])
        \/ /\ AsSpecific(mine[2], other[2])
           /\ request.document[o].priority > request.document[other[1]].priority

\* The changes are within scope exactly if each path they touch is allowed, is not denied,
\* has one owner, and that one is the contract's; if no rename takes a file from one
\* owner to another; and if no two names they touch are one name to some file system.
\* It does not matter in which order Git lists them, nor which of the two ends of a
\* rename is at fault, and what one table passes over the other finds.
CleanIsWithinScope ==
    judged \in {"clean", "refused"} =>
        (judged = "clean" <=>
            /\ (request.allowed \cup request.denied) \cap UnsafePatterns = {}
            /\ \A m, n \in Touched : FoldCase[m.path] = FoldCase[n.path] => m = n
            /\ \A n \in Touched :
                  /\ MatchesAny(request.allowed, n.path) /\ ~MatchesAny(request.denied, n.path)
                  /\ n.path \notin Escaping /\ (n.path \in Governed => request.independent)
                  /\ \E o \in CodeOwner : Owns(o, n.path) /\ (request.owners = {} \/ o \in request.owners)
            /\ \A i \in DOMAIN request.changes : LET c == request.changes[i] IN
                  /\ c.submodule /\ {c.old, c.new} \cap Touched # {} => request.submodules
                  /\ c.operation = "rename" /\ {c.old, c.new} \subseteq Touched =>
                        \E o \in CodeOwner : Owns(o, c.old.path) /\ Owns(o, c.new.path))
=============================================================================

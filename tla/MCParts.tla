------------------------------ MODULE MCParts ------------------------------
(* Small instances of the parts that nothing else here is composed with:   *)
(* TaskDirectories, EventReplay, ConductorPlan, Identifiers, PullRequest   *)
(* and ChangeScope.  After the first step a behaviour is one of one of     *)
(* them.                                                                   *)
EXTENDS TaskDirectories, EventReplay, ConductorPlan, Identifiers, PullRequest, ChangeScope, TLC

CONSTANTS s, t

MCTaskState == {s, t}
MCIdemKey == 1..3

\* Up to three event files, among them copies of the first and of the second.  An id
\* and a key are the event's own number or those of the first; an expected revision is
\* the one before or a step off.  A creation has a task, or only a state, or neither.
MCShapes == {<<"created", None, s>>, <<"transition", s, t>>, <<"transition", t, s>>,
             <<"closing", None, t>>, <<"other", None, None>>}
MCEvents(i, news, shapes) ==
    {[file |-> i, whole |-> h[1] = "created" /\ h[3] = s,
      id |-> x, key |-> k, expected |-> n - d, new |-> n, type |-> h[1], from |-> h[2], to |-> h[3]] :
        x \in {1, i}, k \in {1, i}, n \in news, d \in 1..2, h \in shapes}
MCFirst == MCEvents(1, 0..1, MCShapes \cup {<<"created", None, None>>, <<"created", None, t>>})
MCCopy(i, e) == [e EXCEPT !.file = i]
MCInputs == {{}} \cup {{e} : e \in MCFirst}
            \cup {{e, f} : e \in MCFirst, f \in MCEvents(2, 0..2, MCShapes)}
            \cup {{e, MCCopy(2, e)} : e \in MCFirst}
            \cup {{e, f, MCCopy(3, f)} : e \in {h \in MCFirst : h.new = 0}, f \in MCEvents(2, {1}, MCShapes)}
            \cup {{e, f, g} : e \in {h \in MCFirst : h.new = 0 /\ h.expected = -1},
                              f \in MCEvents(2, {1}, MCShapes), g \in MCEvents(3, 1..2, MCShapes)}

\* A file whose name has two forms and one that differs in case, one below web/.
MCPath == {"src/a", "src/A", "src/web/b", "schemas/c", "link", "task.yaml"}
MCFoldCase == [p \in MCPath |-> IF p = "src/A" THEN "src/a" ELSE p]
MCForms == {[path |-> "src/a", form |-> f] : f \in 1..2} \cup {[path |-> "src/A", form |-> 1]}
MCName == MCForms \cup [path : MCPath, form : {1}]
MCMatches == ("**" :> MCPath) @@ ("src/**" :> {"src/a", "src/A", "src/web/b"}) @@
             ("src/web/**" :> {"src/web/b"}) @@ ("schemas/**" :> {"schemas/c"}) @@ ("!src/**" :> {})
MCSegments == ("**" :> 0) @@ ("src/**" :> 1) @@ ("src/web/**" :> 2) @@ ("schemas/**" :> 1) @@ ("!src/**" :> 1)
MCLiterals == ("**" :> 0) @@ ("src/**" :> 4) @@ ("src/web/**" :> 8) @@ ("schemas/**" :> 8) @@ ("!src/**" :> 4)
MCOwns(include, exclude, priority) == [include |-> include, exclude |-> exclude, priority |-> priority]

\* Decided by specificity against priority, by an exclusion, by priority, by nothing.
MCDocuments ==
    {("core" :> MCOwns({"src/**", "schemas/**"}, {}, 1)) @@ ("web" :> MCOwns({"**", "src/web/**"}, {}, 0)),
     ("core" :> MCOwns({"**", "src/**"}, {"src/web/**"}, 1)) @@ ("web" :> MCOwns({"**"}, {}, 1)),
     ("core" :> MCOwns({"src/**"}, {}, 2)) @@ ("web" :> MCOwns({"src/**", "schemas/**"}, {}, 1)),
     ("core" :> MCOwns({"**"}, {}, 1)) @@ ("web" :> MCOwns({"**"}, {"src/web/**"}, 1))}

MCChange(operations, old, new, submodules) ==
    {[operation |-> op, old |-> m, new |-> n, submodule |-> b] : op \in operations, m \in old, n \in new, b \in submodules}
MCModify(names) == UNION {MCChange({"modify"}, {n}, {n}, {FALSE}) : n \in names}
MCRename(names) == {c \in MCChange({"rename"}, names, names, {FALSE}) : c.old # c.new}
MCNear == MCForms \cup {[path |-> p, form |-> 1] : p \in {"src/web/b", "task.yaml"}}
MCSingles == UNION {MCChange({"modify"}, {n}, {n}, BOOLEAN) : n \in MCName} \cup MCRename(MCName)
             \cup MCChange({"copy"}, MCName, MCNear, {FALSE})
MCRequest(changes, contracts, flags, documents) ==
    UNION {[changes : changes, allowed : {c[1]}, denied : {c[2]}, owners : {c[3]}, independent : {f[1]},
            submodules : {f[2]}, document : documents] : c \in contracts, f \in flags}
MCContracts == {<<{"src/**"}, {}, {"core"}>>, <<{"**"}, {"src/web/**"}, {"core", "web"}>>,
                <<{"**"}, {}, {}>>, <<{"**"}, {}, {"core"}>>, <<{"src/**", "!src/**"}, {}, {"core"}>>}
MCRequests ==
    MCRequest({<<>>} \cup {<<c>> : c \in MCSingles}, MCContracts, {<<TRUE, TRUE>>, <<FALSE, TRUE>>, <<TRUE, FALSE>>}, MCDocuments)
    \cup MCRequest((MCModify(MCName) \cup MCRename(MCNear)) \X (MCModify(MCName) \cup MCRename(MCNear)),
                   {<<{"**"}, {}, {}>>, <<{"src/**"}, {}, {"core"}>>}, {<<TRUE, TRUE>>}, MCDocuments)
    \cup MCRequest([1..3 -> MCModify(MCForms)], {<<{"**"}, {}, {}>>}, {<<TRUE, TRUE>>}, MCDocuments)

-----------------------------------------------------------------------------
\* What is staged is what HEAD or the working tree holds; one of the failed gates and
\* commits of an unusual kind; a gate and a close do not overlap, and a gate does not
\* start once nothing more can be recorded; after the close there are only commits.
MCTroubles == Cardinality({p \in proofs : ~p.valid})
              + Cardinality({i \in DOMAIN history : history[i].kind \in {"below", "moved"}})
Bounded ==
    /\ index \in {HEAD.code, tree} /\ MCTroubles <= 1
    /\ running = {} \/ (decided = {} /\ closed = {} /\ Cardinality(proofs) < MaxProof)
    /\ closed # {} => tree = index

Symmetry == Permutations(TaskId)

\* What the code is at first makes no difference.
MCInitialCode == index = CHOOSE c \in Content : TRUE

\* What an abandoned staging directory holds is never looked at.
View == CASE verdict # "none" -> replayVars
          [] plan # "none" -> planVars
          [] judged # "none" -> scopeCheckVars
          [] ids # <<>> -> idVars
          [] ~PRInit -> prVars
          [] OTHER -> <<place, origin, aged, at, mine, row, known, todo, listed, told,
                        [i \in TaskId |-> IF place[i] = "staging" /\ \A w \in Writer : mine[w] # i
                                          THEN {} ELSE content[i]]>>

NoReplay == /\ files = {} /\ seed = None /\ unread = {} /\ projected = None /\ revision = -1
            /\ seenKeys = {} /\ seenIds = {} /\ verdict = "none"
NoPlan == /\ given = {} /\ asked = {} /\ needs = <<>> /\ waiting = <<>> /\ layers = <<>>
          /\ plan = "none" /\ node = 1 /\ started = {} /\ ended = {}
NoCheck == /\ request = <<>> /\ position = 0 /\ cases = <<>> /\ forms = <<>> /\ clean = TRUE
           /\ judged = "none"

PartsInit ==
    /\ DirInit /\ IdInit /\ PRInit /\ MCInitialCode
    /\ \/ NoReplay /\ NoPlan /\ NoCheck
       \/ ReplayInit /\ NoPlan /\ NoCheck
       \/ NoReplay /\ PlanInit /\ NoCheck
       \/ NoReplay /\ NoPlan /\ ScopeCheckInit

Idle == verdict = "none" /\ plan = "none" /\ judged = "none"

PartsNext ==
    \/ /\ Idle /\ ids = <<>> /\ PRInit /\ DirNext
       /\ UNCHANGED <<replayVars, planVars, idVars, prVars, scopeCheckVars>>
    \/ /\ Idle /\ DirInit /\ PRInit /\ IdNext
       /\ UNCHANGED <<dirVars, replayVars, planVars, prVars, scopeCheckVars>>
    \/ /\ Idle /\ DirInit /\ ids = <<>> /\ PRNext
       /\ UNCHANGED <<dirVars, replayVars, planVars, idVars, scopeCheckVars>>
    \/ ReplayNext /\ UNCHANGED <<dirVars, planVars, idVars, prVars, scopeCheckVars>>
    \/ PlanNext /\ UNCHANGED <<dirVars, replayVars, idVars, prVars, scopeCheckVars>>
    \/ ScopeCheckNext /\ UNCHANGED <<dirVars, replayVars, planVars, idVars, prVars>>

PartsSpec == PartsInit /\ [][PartsNext]_<<dirVars, replayVars, planVars, idVars, prVars, scopeCheckVars>>
=============================================================================

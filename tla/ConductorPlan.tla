---------------------------- MODULE ConductorPlan ---------------------------
(***************************************************************************)
(* ConductorCompiler of adapters/runtime/conductor.py: the work units that *)
(* are asked for, sorted into layers by their dependencies, become one     *)
(* node or one parallel group per layer, each with a route to the next.    *)
(* Conductor itself is external: it follows the routes and runs the agents *)
(* of a group side by side.  The compiler is given any work units, also    *)
(* ones that `mac work-unit new` did not write.                            *)
(***************************************************************************)
EXTENDS Naturals, Sequences

CONSTANT PlanUnit  \* work unit identifiers

VARIABLES
    given,    \* the work units the compiler is given
    needs,    \* their depends_on
    asked,    \* selected_work_unit_ids
    waiting,  \* what each unit that is in no layer yet waits for
    layers,   \* the layers so far
    plan,     \* "selecting", "layering", "refused", "cyclic" or "compiled"
    node,     \* the route node Conductor is at
    started, ended

planVars == <<given, needs, asked, waiting, layers, plan, node, started, ended>>

PlanInit ==
    /\ given \in SUBSET PlanUnit /\ asked \in SUBSET PlanUnit
    /\ needs \in [given -> SUBSET PlanUnit]
    /\ waiting = <<>> /\ layers = <<>> /\ plan = "selecting"
    /\ node = 1 /\ started = {} /\ ended = {}

\* An empty selection asks for everything.
Requested == IF asked = {} THEN given ELSE asked

\* Mutant of Selectable: units may lack what they depend on.
SelectableAlone == Requested # {} /\ Requested \subseteq given

\* _selected_units.
Selectable ==
    /\ Requested # {} /\ Requested \subseteq given
    /\ \A u \in Requested : needs[u] \subseteq Requested

\* A unit of another task is refused like an incomplete selection.
Select ==
    /\ plan = "selecting"
    /\ \/ Selectable /\ waiting' = [u \in Requested |-> needs[u]] /\ plan' = "layering"
       \/ plan' = "refused" /\ UNCHANGED waiting
    /\ UNCHANGED <<given, needs, asked, layers, node, started, ended>>

\* Mutant of Ready: one unit at a time.
ReadySingly == LET free == {u \in DOMAIN waiting : waiting[u] = {}}
               IN  IF free = {} THEN {} ELSE {CHOOSE u \in free : TRUE}

Ready == {u \in DOMAIN waiting : waiting[u] = {}}

\* Mutant of Left: a unit waits for one of its dependencies only.
LeftAny(u) == IF waiting[u] \cap Ready = {} THEN waiting[u] ELSE {}

Left(u) == waiting[u] \ Ready

\* One round of _topological_layers.
Layer ==
    /\ plan = "layering" /\ DOMAIN waiting # {}
    /\ IF Ready = {}
       THEN plan' = "cyclic" /\ UNCHANGED <<waiting, layers>>
       ELSE /\ layers' = Append(layers, Ready)
            /\ waiting' = [u \in DOMAIN waiting \ Ready |-> Left(u)]
            /\ UNCHANGED plan
    /\ UNCHANGED <<given, needs, asked, node, started, ended>>

\* The document, unless names collide, a handoff is missing or a path is unsafe.
Render ==
    /\ plan = "layering" /\ DOMAIN waiting = {}
    /\ plan' \in {"compiled", "refused"}
    /\ UNCHANGED <<given, needs, asked, waiting, layers, node, started, ended>>

\* Conductor starts the agents of the node it is at; they end in any order, and one
\* that fails ends the workflow.
StartAgent(u) ==
    /\ plan = "compiled" /\ node <= Len(layers) /\ u \in layers[node] \ started
    /\ started' = started \cup {u}
    /\ UNCHANGED <<given, needs, asked, waiting, layers, plan, node, ended>>

EndAgent(u) ==
    /\ u \in started \ ended
    /\ ended' = ended \cup {u}
    /\ UNCHANGED <<given, needs, asked, waiting, layers, plan, node, started>>

\* The route of a node: the node after it, $end after the last.
Route ==
    /\ plan = "compiled" /\ node <= Len(layers) /\ layers[node] \subseteq ended
    /\ node' = node + 1
    /\ UNCHANGED <<given, needs, asked, waiting, layers, plan, started, ended>>

PlanNext ==
    \/ Select \/ Layer \/ Render \/ Route
    \/ \E u \in PlanUnit : StartAgent(u) \/ EndAgent(u)

PlanSpec == PlanInit /\ [][PlanNext]_planVars

-----------------------------------------------------------------------------
(* Properties.                                                             *)

\* Units that wait for each other.
Knot == \E S \in (SUBSET Requested) \ {{}} : \A u \in S : needs[u] \cap S # {}

\* The compiler gives up on a selection for a cycle exactly when there is one:
\* any other complete selection is laid out to its last unit.
CyclesRefused == /\ plan = "cyclic" => Knot
                 /\ plan = "compiled" => ~Knot

\* Every unit that was asked for is in one layer, the first that comes after all
\* it depends on: what could run side by side does.
LayersAreEarliest ==
    plan = "compiled" =>
        /\ UNION {layers[i] : i \in 1..Len(layers)} = Requested
        /\ \A i \in 1..Len(layers) : \A u \in layers[i] :
              /\ needs[u] \subseteq UNION {layers[j] : j \in 1..i-1}
              /\ i > 1 => needs[u] \cap layers[i-1] # {}
              /\ \A j \in 1..Len(layers) : u \in layers[j] => i = j

\* Conductor starts no work before the work it depends on has ended, and has run
\* all of it when it reaches the end.
WorkFollowsDependencies ==
    /\ \A u \in started : needs[u] \subseteq ended
    /\ plan = "compiled" /\ node > Len(layers) => ended = Requested
=============================================================================

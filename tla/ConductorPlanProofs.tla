------------------------- MODULE ConductorPlanProofs ------------------------
(* The plan runs every work unit after all it depends on, leaves out none  *)
(* and gives up on cycles alone, for any units, dependencies and           *)
(* selection.                                                              *)
EXTENDS ConductorPlan, TLAPS

\* The units of the first n layers.
Upto(L, n) == UNION {L[j] : j \in 1..n}

Laid == Upto(layers, Len(layers))

LEMMA UptoAppend ==
    ASSUME NEW T, NEW L \in Seq(T), NEW R \in T
    PROVE  /\ \A n \in 0..Len(L) : Upto(Append(L, R), n) = Upto(L, n)
           /\ Upto(Append(L, R), Len(L) + 1) = Upto(L, Len(L)) \cup R
<1> DEFINE M == Append(L, R)
<1>1. Len(M) = Len(L) + 1 /\ M[Len(L) + 1] = R /\ \A j \in 1..Len(L) : M[j] = L[j]
  OBVIOUS
<1>2. \A n \in 0..Len(L) : \A j \in 1..n : M[j] = L[j]
  BY <1>1
<1>3. \A n \in 0..Len(L) : Upto(M, n) = Upto(L, n)
  BY <1>2 DEF Upto
<1>4. 1..Len(L)+1 = 1..Len(L) \cup {Len(L)+1}
  OBVIOUS
<1>5. Upto(M, Len(L) + 1) = Upto(M, Len(L)) \cup R
  BY <1>1, <1>4, Zenon DEF Upto
<1> QED
  BY <1>3, <1>5

LEMMA UptoNext ==
    ASSUME NEW L, NEW n \in Nat
    PROVE  Upto(L, n + 1) = Upto(L, n) \cup L[n + 1]
<1>1. 1..n+1 = 1..n \cup {n+1}
  OBVIOUS
<1> QED
  BY <1>1, Zenon DEF Upto

PlanTypeOK ==
    /\ needs \in [given -> SUBSET PlanUnit]
    /\ layers \in Seq(SUBSET PlanUnit)
    /\ plan \in {"selecting", "layering", "refused", "cyclic", "compiled"}
    /\ given \subseteq PlanUnit

\* The units that are in no layer yet, and what they wait for: what they depend
\* on and no layer has.  None of them could have been in the last layer.
Waits ==
    plan \in {"layering", "cyclic", "compiled"} =>
        /\ Requested \subseteq given
        /\ \A u \in Requested : needs[u] \subseteq Requested
        /\ Laid \subseteq Requested
        /\ DOMAIN waiting = Requested \ Laid
        /\ \A u \in DOMAIN waiting : waiting[u] = needs[u] \ Laid
        /\ \A u \in DOMAIN waiting :
              Len(layers) > 0 => ~(needs[u] \subseteq Upto(layers, Len(layers) - 1))

\* A unit is laid once, after all it depends on, and no later than it must.
InOrder ==
    \A i \in 1..Len(layers) : \A u \in layers[i] :
        /\ needs[u] \subseteq Upto(layers, i - 1)
        /\ i > 1 => needs[u] \cap layers[i - 1] # {}
        /\ u \notin Upto(layers, i - 1)

\* Units that wait for each other are never laid.
KnotsStay ==
    \A S \in SUBSET Requested : (\A u \in S : needs[u] \cap S # {}) => S \cap Laid = {}

\* What the plan says of cycles when it stops.
Decided ==
    /\ plan = "selecting" => layers = <<>>
    /\ plan = "compiled" => DOMAIN waiting = {}
    /\ plan = "cyclic" => DOMAIN waiting # {} /\ Ready = {}

LayersSound == PlanTypeOK /\ Waits /\ InOrder /\ KnotsStay /\ Decided

\* Conductor has run the layers before the node it is at, and of the others
\* nothing but a part of that node's.
RunInOrder ==
    /\ node \in 1..Len(layers) + 1
    /\ Upto(layers, node - 1) \subseteq ended
    /\ started \subseteq Upto(layers, node - 1) \cup (IF node <= Len(layers) THEN layers[node] ELSE {})
    /\ ended \subseteq started
    /\ plan # "compiled" => node = 1 /\ started = {}

PlanInv == LayersSound /\ RunInOrder

-----------------------------------------------------------------------------
\* One round of the layering.
LEMMA LayerKeepsLayers ==
    ASSUME LayersSound, Layer, Ready # {}
    PROVE  LayersSound'
<1> USE DEF LayersSound
<1>1. /\ plan = "layering" /\ plan' = plan
      /\ layers' = Append(layers, Ready)
      /\ waiting' = [u \in DOMAIN waiting \ Ready |-> Left(u)]
      /\ UNCHANGED <<given, needs, asked>>
  BY DEF Layer
<1>2. /\ Requested' = Requested /\ Ready \subseteq DOMAIN waiting
      /\ \A u \in Ready : waiting[u] = {}
  BY <1>1 DEF Requested, Ready
<1>3. /\ Requested \subseteq given /\ \A u \in Requested : needs[u] \subseteq Requested
      /\ Laid \subseteq Requested /\ DOMAIN waiting = Requested \ Laid
      /\ \A u \in DOMAIN waiting : waiting[u] = needs[u] \ Laid
      /\ \A u \in DOMAIN waiting :
            Len(layers) > 0 => ~(needs[u] \subseteq Upto(layers, Len(layers) - 1))
  BY <1>1 DEF Waits
<1>4. layers \in Seq(SUBSET PlanUnit) /\ Ready \in SUBSET PlanUnit
  BY <1>2, <1>3 DEF PlanTypeOK
<1>5. /\ layers' \in Seq(SUBSET PlanUnit) /\ Len(layers') = Len(layers) + 1
      /\ layers'[Len(layers) + 1] = Ready
      /\ \A i \in 1..Len(layers) : layers'[i] = layers[i]
  BY <1>1, <1>4
<1>6. /\ Laid' = Laid \cup Ready
      /\ \A n \in 0..Len(layers) : Upto(layers', n) = Upto(layers, n)
      /\ Upto(layers', Len(layers') - 1) = Laid
  <2>1. /\ \A n \in 0..Len(layers) : Upto(layers', n) = Upto(layers, n)
        /\ Upto(layers', Len(layers) + 1) = Upto(layers, Len(layers)) \cup Ready
    BY <1>1, <1>4, UptoAppend
  <2>2. Len(layers) \in Nat
    BY <1>4
  <2> QED
    BY <1>5, <2>1, <2>2 DEF Laid
<1>7. \A u \in Ready : needs[u] \subseteq Laid /\ u \notin Laid
  BY <1>2, <1>3
<1>8. PlanTypeOK'
  BY <1>1, <1>5 DEF PlanTypeOK
<1>9. Waits'
  <2>1. DOMAIN waiting' = Requested \ (Laid \cup Ready)
    BY <1>1, <1>2, <1>3
  <2>2. \A u \in DOMAIN waiting' : waiting'[u] = needs[u] \ (Laid \cup Ready)
    BY <1>1, <1>3 DEF Left
  <2>3. \A u \in DOMAIN waiting' : ~(needs[u] \subseteq Laid)
    <3>1. \A u \in DOMAIN waiting' : u \in DOMAIN waiting /\ waiting[u] # {}
      BY <1>1 DEF Ready
    <3> QED
      BY <1>3, <3>1
  <2> QED
    BY <1>1, <1>2, <1>3, <1>6, <2>1, <2>2, <2>3 DEF Waits
<1>10. InOrder'
  <2>1. SUFFICES ASSUME NEW i \in 1..Len(layers'), NEW u \in layers'[i]
                 PROVE  /\ needs[u] \subseteq Upto(layers', i - 1)
                        /\ i > 1 => needs[u] \cap layers'[i - 1] # {}
                        /\ u \notin Upto(layers', i - 1)
    BY <1>1 DEF InOrder
  <2>2. CASE i \in 1..Len(layers)
    <3>1. i - 1 \in 0..Len(layers) /\ (i > 1 => layers'[i - 1] = layers[i - 1])
      BY <1>4, <1>5, <2>2
    <3>2. Upto(layers', i - 1) = Upto(layers, i - 1) /\ u \in layers[i]
      BY <1>5, <1>6, <2>1, <2>2, <3>1
    <3> QED
      BY <2>2, <3>1, <3>2 DEF InOrder
  <2>3. CASE i = Len(layers) + 1
    <3>1. u \in Ready /\ Upto(layers', i - 1) = Laid
      BY <1>4, <1>5, <1>6, <2>1, <2>3
    <3>2. i > 1 => needs[u] \cap layers'[i - 1] # {}
      <4>1. SUFFICES ASSUME i > 1 PROVE needs[u] \cap layers[Len(layers)] # {}
        BY <1>4, <1>5, <2>3
      <4>2. Len(layers) \in Nat /\ Len(layers) > 0 /\ Len(layers) - 1 \in Nat
        BY <1>4, <2>3, <4>1
      <4>3. Laid = Upto(layers, Len(layers) - 1) \cup layers[Len(layers)]
        <5>1. Len(layers) - 1 + 1 = Len(layers)
          BY <4>2
        <5> QED
          BY <4>2, <5>1, UptoNext DEF Laid
      <4>4. ~(needs[u] \subseteq Upto(layers, Len(layers) - 1))
        BY <1>2, <1>3, <3>1, <4>2
      <4> QED
        BY <1>7, <3>1, <4>3, <4>4
    <3> QED
      BY <1>7, <3>1, <3>2
  <2> QED
    BY <1>4, <1>5, <2>2, <2>3
<1>11. KnotsStay'
  <2>1. SUFFICES ASSUME NEW S \in SUBSET Requested, \A u \in S : needs[u] \cap S # {}
                 PROVE  S \cap (Laid \cup Ready) = {}
    BY <1>1, <1>2, <1>6 DEF KnotsStay
  <2>2. S \cap Laid = {}
    BY <2>1 DEF KnotsStay
  <2> QED
    BY <1>7, <2>1, <2>2
<1>12. Decided'
  BY <1>1 DEF Decided
<1> QED
  BY <1>8, <1>9, <1>10, <1>11, <1>12

LEMMA PlanStepKeepsLayers ==
    ASSUME LayersSound, [PlanNext]_planVars
    PROVE  LayersSound'
<1> USE DEF LayersSound
<1>1. CASE UNCHANGED <<given, needs, asked, waiting, layers, plan>>
  <2>1. Requested' = Requested /\ Laid' = Laid /\ Ready' = Ready
    BY <1>1 DEF Requested, Laid, Ready
  <2>2. PlanTypeOK' /\ Decided'
    BY <1>1, <2>1 DEF PlanTypeOK, Decided
  <2>3. Waits'
    BY <1>1, <2>1 DEF Waits
  <2>4. InOrder' /\ KnotsStay'
    BY <1>1, <2>1 DEF InOrder, KnotsStay
  <2> QED
    BY <2>2, <2>3, <2>4
<1>2. CASE Select
  <2>1. layers = <<>> /\ layers' = <<>> /\ UNCHANGED <<given, needs, asked>>
    BY <1>2 DEF Select, Decided
  <2>2. Laid' = {} /\ Requested' = Requested /\ Len(layers') = 0
    BY <2>1 DEF Laid, Upto, Requested
  <2>3. PlanTypeOK' /\ Decided'
    BY <1>2, <2>1 DEF PlanTypeOK, Decided, Select
  <2>4. Waits'
    BY <1>2, <2>1, <2>2 DEF Waits, Select, Selectable
  <2>5. InOrder' /\ KnotsStay'
    BY <2>1, <2>2 DEF InOrder, KnotsStay
  <2> QED
    BY <2>3, <2>4, <2>5
<1>3. CASE Layer
  <2>1. CASE Ready = {}
    <3>1. /\ plan' = "cyclic" /\ plan = "layering" /\ DOMAIN waiting # {}
          /\ UNCHANGED <<given, needs, asked, waiting, layers>>
      BY <1>3, <2>1 DEF Layer
    <3>2. Requested' = Requested /\ Laid' = Laid /\ Ready' = Ready
      BY <3>1 DEF Requested, Laid, Ready
    <3>3. PlanTypeOK' /\ Decided'
      BY <2>1, <3>1, <3>2 DEF PlanTypeOK, Decided
    <3>4. Waits' /\ InOrder' /\ KnotsStay'
      BY <3>1, <3>2 DEF Waits, InOrder, KnotsStay
    <3> QED
      BY <3>3, <3>4
  <2> QED
    BY <1>3, <2>1, LayerKeepsLayers
<1>4. CASE Render
  <2>1. /\ plan' \in {"compiled", "refused"} /\ plan = "layering" /\ DOMAIN waiting = {}
        /\ UNCHANGED <<given, needs, asked, waiting, layers>>
    BY <1>4 DEF Render
  <2>2. Requested' = Requested /\ Laid' = Laid
    BY <2>1 DEF Requested, Laid
  <2>3. PlanTypeOK' /\ Decided'
    BY <2>1 DEF PlanTypeOK, Decided
  <2>4. Waits' /\ InOrder' /\ KnotsStay'
    BY <2>1, <2>2 DEF Waits, InOrder, KnotsStay
  <2> QED
    BY <2>3, <2>4
<1> QED
  BY <1>1, <1>2, <1>3, <1>4 DEF PlanNext, planVars, Route, StartAgent, EndAgent

LEMMA PlanStepKeepsRun ==
    ASSUME LayersSound, RunInOrder, [PlanNext]_planVars
    PROVE  RunInOrder'
<1>1. layers \in Seq(SUBSET PlanUnit) /\ Len(layers) \in Nat
  BY DEF LayersSound, PlanTypeOK
<1>2. CASE Select \/ Layer \/ Render
  <2>1. node = 1 /\ node' = 1 /\ started = {} /\ started' = {} /\ ended = {} /\ ended' = {}
    BY <1>2 DEF Select, Layer, Render, RunInOrder
  <2>2. Len(layers') \in Nat
    <3>1. layers' = layers \/ layers' = Append(layers, Ready)
      BY <1>2 DEF Select, Layer, Render
    <3> QED
      BY <1>1, <3>1, PlanStepKeepsLayers DEF LayersSound, PlanTypeOK
  <2>3. Upto(layers', node' - 1) = {}
    BY <2>1 DEF Upto
  <2> QED
    BY <2>1, <2>2, <2>3 DEF RunInOrder
<1>3. CASE Route
  <2>1. /\ plan = "compiled" /\ plan' = plan /\ node <= Len(layers) /\ layers[node] \subseteq ended
        /\ node' = node + 1 /\ UNCHANGED <<layers, started, ended>>
    BY <1>3 DEF Route
  <2>2. node \in Nat /\ node - 1 \in Nat /\ node - 1 + 1 = node /\ node' - 1 = node
    BY <1>1, <2>1 DEF RunInOrder
  <2>3. Upto(layers, node) = Upto(layers, node - 1) \cup layers[node]
    BY <2>2, UptoNext
  <2>4. Upto(layers', node' - 1) = Upto(layers, node)
    BY <2>1, <2>2
  <2>5. node' \in 1..Len(layers') + 1
    BY <1>1, <2>1, <2>2
  <2>6. Upto(layers, node) \subseteq ended /\ started \subseteq Upto(layers, node)
    BY <2>1, <2>3 DEF RunInOrder
  <2> QED
    BY <2>1, <2>4, <2>5, <2>6 DEF RunInOrder
<1>4. ASSUME NEW u \in PlanUnit, StartAgent(u) PROVE RunInOrder'
  BY <1>4 DEF StartAgent, RunInOrder
<1>5. ASSUME NEW u \in PlanUnit, EndAgent(u) PROVE RunInOrder'
  BY <1>5 DEF EndAgent, RunInOrder
<1>6. CASE UNCHANGED planVars
  BY <1>6 DEF planVars, RunInOrder
<1> QED
  BY <1>2, <1>3, <1>4, <1>5, <1>6 DEF PlanNext

LEMMA PlanIsSound == PlanSpec => []PlanInv
<1>1. PlanInit => PlanInv
  <2>1. SUFFICES ASSUME PlanInit PROVE PlanInv
    OBVIOUS
  <2>2. layers = <<>> /\ Len(layers) = 0 /\ Laid = {} /\ plan = "selecting"
    BY <2>1 DEF PlanInit, Laid, Upto
  <2>3. PlanTypeOK
    BY <2>1, <2>2 DEF PlanInit, PlanTypeOK
  <2>4. Waits /\ InOrder /\ KnotsStay /\ Decided
    BY <2>2 DEF Waits, InOrder, KnotsStay, Decided
  <2>5. RunInOrder
    BY <2>1, <2>2 DEF PlanInit, RunInOrder, Upto
  <2> QED
    BY <2>3, <2>4, <2>5 DEF PlanInv, LayersSound
<1>2. PlanInv /\ [PlanNext]_planVars => PlanInv'
  BY PlanStepKeepsLayers, PlanStepKeepsRun DEF PlanInv
<1> QED
  BY <1>1, <1>2, PTL DEF PlanSpec

-----------------------------------------------------------------------------
\* _topological_layers gives up for a cycle exactly when there is one.
THEOREM OnlyCyclesAreRefused == PlanSpec => []CyclesRefused
<1>1. PlanInv => CyclesRefused
  <2>1. SUFFICES ASSUME PlanInv PROVE CyclesRefused
    OBVIOUS
  <2>2. ASSUME plan = "cyclic" PROVE Knot
    <3>1. /\ DOMAIN waiting # {} /\ Ready = {} /\ DOMAIN waiting = Requested \ Laid
          /\ \A u \in DOMAIN waiting : waiting[u] = needs[u] \ Laid
          /\ \A u \in Requested : needs[u] \subseteq Requested
      BY <2>1, <2>2 DEF PlanInv, LayersSound, Decided, Waits
    <3>2. \A u \in DOMAIN waiting : waiting[u] # {}
      BY <3>1 DEF Ready
    <3>3. \A u \in DOMAIN waiting : needs[u] \cap DOMAIN waiting # {}
      BY <3>1, <3>2
    <3>4. DOMAIN waiting \in (SUBSET Requested) \ {{}}
      BY <3>1
    <3> QED
      BY <3>3, <3>4 DEF Knot
  <2>3. ASSUME plan = "compiled" PROVE ~Knot
    <3>1. DOMAIN waiting = {} /\ DOMAIN waiting = Requested \ Laid /\ KnotsStay
      BY <2>1, <2>3 DEF PlanInv, LayersSound, Decided, Waits
    <3> QED
      BY <3>1 DEF Knot, KnotsStay
  <2> QED
    BY <2>2, <2>3 DEF CyclesRefused
<1> QED
  BY <1>1, PlanIsSound, PTL

\* The layers of a plan hold every unit that was asked for, each in the first
\* layer that comes after all it depends on.
THEOREM LayersAreTight == PlanSpec => []LayersAreEarliest
<1>1. PlanInv => LayersAreEarliest
  <2>1. SUFFICES ASSUME PlanInv, plan = "compiled"
                 PROVE  LayersAreEarliest
    BY DEF LayersAreEarliest
  <2>2. Laid = Requested /\ Len(layers) \in Nat
    BY <2>1 DEF PlanInv, LayersSound, Decided, Waits, PlanTypeOK
  <2>3. \A i \in 1..Len(layers) : \A u \in layers[i] :
            /\ needs[u] \subseteq UNION {layers[j] : j \in 1..i-1}
            /\ i > 1 => needs[u] \cap layers[i-1] # {}
    BY <2>1 DEF PlanInv, LayersSound, InOrder, Upto
  <2>4. \A i, j \in 1..Len(layers) : \A u \in layers[i] : ~(u \in layers[j] /\ j < i)
    <3>1. SUFFICES ASSUME NEW i \in 1..Len(layers), NEW j \in 1..Len(layers),
                          NEW u \in layers[i], u \in layers[j], j < i
                   PROVE  FALSE
      BY Zenon
    <3>2. j \in 1..i-1
      BY <2>2, <3>1
    <3> QED
      BY <2>1, <3>1, <3>2 DEF PlanInv, LayersSound, InOrder, Upto
  <2>5. \A i \in 1..Len(layers) : \A u \in layers[i] : \A j \in 1..Len(layers) :
            u \in layers[j] => i = j
    BY <2>2, <2>4
  <2> QED
    BY <2>2, <2>3, <2>5 DEF LayersAreEarliest, Laid, Upto
<1> QED
  BY <1>1, PlanIsSound, PTL

\* No agent is started before the work its unit depends on has ended, and all of
\* it has been run at the end.
THEOREM AgentsFollowDependencies == PlanSpec => []WorkFollowsDependencies
<1>1. PlanInv => WorkFollowsDependencies
  <2>1. SUFFICES ASSUME PlanInv PROVE WorkFollowsDependencies
    OBVIOUS
  <2>2. Len(layers) \in Nat /\ node \in 1..Len(layers) + 1
    BY <2>1 DEF PlanInv, LayersSound, PlanTypeOK, RunInOrder
  <2>3. ASSUME NEW u \in started PROVE needs[u] \subseteq ended
    <3>1. PICK i \in 1..Len(layers) : i <= node /\ u \in layers[i]
      <4>1. u \in Upto(layers, node - 1) \/ (node <= Len(layers) /\ u \in layers[node])
        BY <2>1, <2>3 DEF PlanInv, RunInOrder
      <4>2. CASE u \in Upto(layers, node - 1)
        <5>1. PICK i \in 1..node-1 : u \in layers[i]
          BY <4>2 DEF Upto
        <5> QED
          BY <2>2, <5>1
      <4> QED
        BY <2>2, <4>1, <4>2
    <3>2. 1..i-1 \subseteq 1..node-1
      BY <2>2, <3>1
    <3>3. Upto(layers, i - 1) \subseteq Upto(layers, node - 1)
      BY <3>2, Zenon DEF Upto
    <3> QED
      BY <2>1, <3>1, <3>3 DEF PlanInv, LayersSound, InOrder, RunInOrder
  <2>4. ASSUME plan = "compiled", node > Len(layers) PROVE ended = Requested
    <3>1. node - 1 = Len(layers) /\ ~(node <= Len(layers))
      BY <2>2, <2>4
    <3>2. Laid = Requested
      BY <2>1, <2>4 DEF PlanInv, LayersSound, Decided, Waits
    <3> QED
      BY <2>1, <3>1, <3>2 DEF PlanInv, RunInOrder, Laid
  <2> QED
    BY <2>3, <2>4 DEF WorkFollowsDependencies
<1> QED
  BY <1>1, PlanIsSound, PTL
=============================================================================

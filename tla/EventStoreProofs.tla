-------------------------- MODULE EventStoreProofs --------------------------
(***************************************************************************)
(* Theorems about EventStore, for any number of processes, keys, entities  *)
(* and states, and any workflow.                                           *)
(*                                                                         *)
(* TypeOK, AckedDurable and RevisionsHaveNoGap hold without assumption.    *)
(* The other theorems need the things the model's counterexamples turn on, *)
(* each only those it names: the lease is exclusive (no holder has lapsed, *)
(* or no Lapses), nobody guesses a revision that does not exist yet        *)
(* (Ahead = 0), nobody rebuilds without the lease (no Rebuilder), nobody   *)
(* dies (no Crashes).                                                      *)
(***************************************************************************)
EXTENDS EventStore, TLAPS

-----------------------------------------------------------------------------
(* Facts about every log: what appending an event keeps.  The lengths      *)
(* matter, never the contents, so no induction is needed.                  *)

\* Appending an event leaves the earlier ones where they are.
LEMMA AppendEvent ==
    ASSUME NEW lg \in Seq(Event), NEW e \in Event
    PROVE  /\ Append(lg, e) \in Seq(Event)
           /\ Len(Append(lg, e)) = Len(lg) + 1
           /\ DOMAIN Append(lg, e) = 1..(Len(lg) + 1)
           /\ \A i \in 1..Len(lg) : Append(lg, e)[i] = lg[i]
           /\ Append(lg, e)[Len(lg) + 1] = e
  OBVIOUS

\* A log without its last event, and that event, are the log.
LEMMA FrontAndLast ==
    ASSUME NEW lg \in Seq(Event), NEW n \in Nat, n + 1 = Len(lg)
    PROVE  Append(SubSeq(lg, 1, n), lg[Len(lg)]) = lg
  <1> DEFINE front == SubSeq(lg, 1, n)
             back  == Append(front, lg[Len(lg)])
  <1>1. /\ front \in Seq(Event) /\ Len(front) = n
        /\ \A i \in 1..n : front[i] = lg[i]
        /\ lg[Len(lg)] \in Event
    OBVIOUS
  <1> HIDE DEF front
  <1>2. /\ back \in Seq(Event) /\ Len(back) = n + 1
        /\ \A i \in 1..n : back[i] = front[i]
        /\ back[n + 1] = lg[Len(lg)]
    BY <1>1, AppendEvent
  <1> HIDE DEF back
  <1>3. \A i \in 1..Len(lg) : back[i] = lg[i]
    BY <1>1, <1>2
  <1>4. back = lg
    BY <1>2, <1>3
  <1> QED  BY <1>4 DEF front, back

\* The keys of a longer log.
LEMMA KeysAppend ==
    ASSUME NEW lg \in Seq(Event), NEW e \in Event
    PROVE  Keys(Append(lg, e)) = Keys(lg) \cup {e.key}
  <1> DEFINE L == Append(lg, e)
  <1>1. \A k \in Keys(L) : k \in Keys(lg) \cup {e.key}
    <2> SUFFICES ASSUME NEW i \in 1..(Len(lg) + 1)
                 PROVE  L[i].key \in Keys(lg) \cup {e.key}
      BY AppendEvent DEF Keys
    <2>1. CASE i \in 1..Len(lg)
      BY <2>1, AppendEvent DEF Keys
    <2>2. CASE i = Len(lg) + 1
      BY <2>2, AppendEvent
    <2> QED  BY <2>1, <2>2
  <1>2. \A k \in Keys(lg) \cup {e.key} : k \in Keys(L)
    <2>1. Len(lg) + 1 \in DOMAIN L /\ L[Len(lg) + 1] = e
      BY AppendEvent
    <2>2. \A i \in DOMAIN lg : i \in DOMAIN L /\ L[i] = lg[i]
      BY AppendEvent
    <2> QED  BY <2>1, <2>2 DEF Keys
  <1> QED  BY <1>1, <1>2

\* The state and the snapshots after the first n events do not depend on the rest.
LEMMA StateStable ==
    ASSUME NEW lg \in Seq(Event), NEW e \in Event, NEW n \in 0..Len(lg), NEW s
    PROVE  IsState(Append(lg, e), n, s) <=> IsState(lg, n, s)
  <1>1. \A i \in 1..n : Append(lg, e)[i] = lg[i]
    BY AppendEvent
  <1> QED  BY <1>1 DEF IsState

LEMMA SnapshotStable ==
    ASSUME NEW lg \in Seq(Event), NEW e \in Event, NEW n \in 0..Len(lg), NEW x, NEW r
    PROVE  IsSnapshot(Append(lg, e), n, x, r) <=> IsSnapshot(lg, n, x, r)
  <1>1. \A i \in 1..n : Append(lg, e)[i] = lg[i]
    BY AppendEvent
  <1> QED  BY <1>1 DEF IsSnapshot

\* The last event is the snapshot of its entity, and of no other.
LEMMA SnapshotLast ==
    ASSUME NEW lg \in Seq(Event), Len(lg) \in DOMAIN lg, lg[Len(lg)].type = "update",
           NEW x, x = lg[Len(lg)].ent
    PROVE  IsSnapshot(lg, Len(lg), x, Len(lg))
  BY DEF IsSnapshot

LEMMA SnapshotKept ==
    ASSUME NEW lg \in Seq(Event), NEW e \in Event, NEW x, NEW r \in Nat,
           ~(e.type = "update" /\ e.ent = x), IsSnapshot(lg, Len(lg), x, r)
    PROVE  IsSnapshot(Append(lg, e), Len(lg) + 1, x, r)
  <1> DEFINE L == Append(lg, e)
  <1>1. /\ Len(lg) \in Nat
        /\ \A i \in 1..Len(lg) : L[i] = lg[i]
        /\ L[Len(lg) + 1] = e
    BY AppendEvent
  <1> HIDE DEF L
  <1>2. \A i \in 1..(Len(lg) + 1) : i \in 1..Len(lg) \/ i = Len(lg) + 1
    BY <1>1
  <1>3. IsSnapshot(L, Len(lg) + 1, x, r)
    BY <1>1, <1>2 DEF IsSnapshot
  <1> QED  BY <1>3 DEF L

\* An event fits at the end of a log if it has the next revision, a fresh key,
\* and, for a transition, the state the task is in as its source.
Fits(lg, e) ==
    /\ e.new = Len(lg) + 1
    /\ e.key \notin Keys(lg)
    /\ e.type = "transition" => IsState(lg, Len(lg), e.from)

\* A log that replays still replays after an event that fits.
LEMMA ReplayableAppend ==
    ASSUME NEW lg \in Seq(Event), NEW e \in Event, Replayable(lg), Fits(lg, e)
    PROVE  Replayable(Append(lg, e))
  <1> DEFINE L == Append(lg, e)
  <1>0. /\ L \in Seq(Event) /\ DOMAIN L = 1..(Len(lg) + 1)
        /\ \A i \in 1..Len(lg) : L[i] = lg[i]
        /\ L[Len(lg) + 1] = e
    BY AppendEvent
  <1> HIDE DEF L
  <1>1. Contiguous(L)
    BY <1>0 DEF Contiguous, Replayable, Fits
  <1>2. KeysUnique(L)
    <2>1. \A i \in 1..Len(lg) : L[i].key # e.key
      BY <1>0 DEF Keys, Fits
    <2>2. \A i, j \in 1..Len(lg) : L[i].key = L[j].key => i = j
      BY <1>0 DEF KeysUnique, Replayable
    <2> QED  BY <1>0, <2>1, <2>2 DEF KeysUnique
  <1>3. SourcesMatch(L)
    <2> SUFFICES ASSUME NEW i \in 1..(Len(lg) + 1), L[i].type = "transition"
                 PROVE  IsState(L, i - 1, L[i].from)
      BY <1>0 DEF SourcesMatch
    <2>1. CASE i \in 1..Len(lg)
      <3>1. IsState(lg, i - 1, lg[i].from)
        BY <2>1, <1>0 DEF SourcesMatch, Replayable
      <3> QED  BY <3>1, <2>1, <1>0, StateStable DEF L
    <2>2. CASE i = Len(lg) + 1
      <3>1. IsState(lg, Len(lg), e.from)
        BY <2>2, <1>0 DEF Fits
      <3> QED  BY <3>1, <2>2, <1>0, StateStable DEF L
    <2> QED  BY <2>1, <2>2
  <1> QED  BY <1>1, <1>2, <1>3 DEF Replayable, L

\* The fields of an event, by its type.
LEMMA EventTyped ==
    ASSUME NEW a \in Event
    PROVE  /\ a.type \in {"transition", "update"}
           /\ a.key \in Key /\ a.new \in Nat
           /\ a.type = "transition" => a \in Transition /\ a.from \in State /\ a.to \in State
           /\ a.type = "update" => a \in Update /\ a.ent \in Entity /\ a.base \in Nat
  BY DEF Event, Transition, Update

-----------------------------------------------------------------------------
(* Facts about single events.                                              *)

\* Changing one field of an event leaves the others.
LEMMA Renumbered ==
    ASSUME NEW a \in Event, NEW n \in Nat, NEW b, b = [a EXCEPT !.new = n]
    PROVE  /\ b \in Event /\ b.new = n /\ b.key = a.key /\ b.type = a.type
           /\ a.type = "transition" => b.from = a.from /\ b.to = a.to
           /\ a.type = "update" => b.ent = a.ent /\ b.base = a.base
  <1>1. CASE a \in Transition
    BY <1>1 DEF Event, Transition, Update
  <1>2. CASE a \in Update
    BY <1>2 DEF Event, Transition, Update
  <1> QED  BY <1>1, <1>2 DEF Event

LEMMA Resourced ==
    ASSUME NEW a \in Event, a.type = "transition", NEW s \in State,
           NEW b, b = [a EXCEPT !.from = s]
    PROVE  b \in Event /\ b.type = "transition" /\ b.from = s /\ b.key = a.key /\ b.to = a.to
  BY DEF Event, Transition, Update

LEMMA Rebased ==
    ASSUME NEW a \in Event, a.type = "update", NEW r \in Nat, NEW b, b = [a EXCEPT !.base = r]
    PROVE  b \in Event /\ b.type = "update" /\ b.base = r /\ b.key = a.key /\ b.ent = a.ent
  BY DEF Event, Transition, Update

-----------------------------------------------------------------------------
(* Type correctness.                                                       *)

\* The steps that only transitions, and those that only entity updates, take.
StepsOfType ==
    \A c \in Client :
        /\ pc[c] \in {"guard", "evaluate", "decided"} => ask[c].type = "transition"
        /\ pc[c] \in {"load", "materialize"} => ask[c].type = "update"

Typed == TypeOK /\ StepsOfType

\* The commands a user can give are events.
LEMMA CommandsAreEvents ==
    ASSUME NEW a \in Commands
    PROVE  /\ a \in Event
           /\ a.type \in {"transition", "update"}
  BY LogParameters DEF Commands, NewTransition, NewUpdate, Event, Transition, Update

LEMMA TypedInit == ASSUME Init PROVE Typed
  <1>1. PICK k \in Key : ask = [c \in Client |-> NewTransition(k, Start, Start)]
    BY DEF Init
  <1>2. ask \in [Client -> Event]
    BY <1>1, LogParameters DEF NewTransition, Event, Transition
  <1>3. log = <<>> /\ lease = Free /\ acked = {} /\ lapsed \in BOOLEAN
    BY Zenon DEF Init
  <1>4. TypeOK
    BY <1>2, <1>3 DEF Init, TypeOK, Lease!TypeOK, Steps, Process
  <1>5. StepsOfType
    BY DEF Init, StepsOfType, Process
  <1> QED  BY <1>4, <1>5 DEF Typed

LEMMA NewRevisionTyped == ASSUME TypeOK, NEW c \in Client PROVE NewRevision(c) \in Nat
  <1>1. seen[c] \in Nat
    BY DEF TypeOK, Process
  <1> QED  BY <1>1 DEF NewRevision

LEMMA NewEventTyped ==
    ASSUME TypeOK, NEW c \in Client
    PROVE  /\ NewEvent(c) \in Event
           /\ NewEvent(c).new = NewRevision(c)
           /\ NewEvent(c).key = ask[c].key
           /\ NewEvent(c).type = ask[c].type
           /\ ask[c].type = "transition" => NewEvent(c).from = ask[c].from
           /\ ask[c].type = "transition" => NewEvent(c).to = ask[c].to
           /\ ask[c].type = "update" => NewEvent(c).ent = ask[c].ent
           /\ ask[c].type = "update" => NewEvent(c).base = ask[c].base
  <1>1. ask[c] \in Event
    BY DEF TypeOK
  <1>2. NewRevision(c) \in Nat
    BY NewRevisionTyped
  <1>3. NewEvent(c) = [ask[c] EXCEPT !.new = NewRevision(c)]
    BY DEF NewEvent
  <1> HIDE DEF TypeOK
  <1> QED  BY <1>1, <1>2, <1>3, Renumbered

LEMMA TypedStep == ASSUME Typed, [Next]_vars PROVE Typed'
  <1> USE DEF Typed, Lease!TypeOK, Process, Steps, InSection, Rebuilding
  <1>1. ASSUME NEW c \in Client, NEW a \in Commands, Retry(c, a) PROVE Typed'
    <2>1. a.key \in Key
      BY <1>1, CommandsAreEvents, EventTyped
    <2> QED  BY <1>1, <2>1 DEF Retry, TypeOK, StepsOfType, disk, view, call
  <1>2. ASSUME NEW c \in Client, NEW a \in Commands, NEW x \in 0..(Len(log) + Ahead),
               Call(c, a, x) \/ Create(c, a, x)
        PROVE  Typed'
    <2>1. x \in Nat /\ a \in Event /\ a.type \in {"transition", "update"}
      BY CommandsAreEvents, StoreParameters DEF TypeOK
    <2>2. CASE Call(c, a, x)
      BY <2>1, <2>2 DEF Call, Goto, TypeOK, StepsOfType, disk, view
    <2>3. CASE Create(c, a, x)
      BY <2>1, <2>3 DEF Create, Goto, TypeOK, StepsOfType, disk, view
    <2> QED  BY <1>2, <2>2, <2>3
  <1>3. ASSUME NEW c \in Client, Enter(c) PROVE Typed'
    BY <1>3 DEF Enter, Lease!Acquire, Goto, TypeOK, StepsOfType, disk, view, call
  <1>4. ASSUME NEW c \in Client, Evaluate(c) PROVE Typed'
    <2>1. ask' \in [Client -> Event] /\ \A d \in Client : ask'[d].type = ask[d].type
      <3>1. ask[c].type = "transition" /\ ask[c] \in Event
        BY <1>4 DEF Evaluate, TypeOK, StepsOfType
      <3>2. CASE UNCHANGED ask
        BY <3>2 DEF TypeOK
      <3>3. CASE \E s \in State : ask' = [ask EXCEPT ![c].from = s]
        <4> PICK s \in State : ask' = [ask EXCEPT ![c].from = s]
          BY <3>3
        <4>1. /\ [ask[c] EXCEPT !.from = s] \in Event
              /\ [ask[c] EXCEPT !.from = s].type = "transition"
          BY <3>1, Resourced
        <4> QED  BY <4>1, <3>1 DEF TypeOK
      <3> QED  BY <1>4, <3>2, <3>3 DEF Evaluate
    <2> QED  BY <1>4, <2>1 DEF Evaluate, Goto, TypeOK, StepsOfType, disk, view
  <1>5. ASSUME NEW c \in Client, LeaveGuard(c) PROVE Typed'
    BY <1>5 DEF LeaveGuard, Release, Lease!Release, Goto, TypeOK, StepsOfType, disk, view, call
  <1>6. ASSUME NEW c \in Client, Load(c) PROVE Typed'
    <2>1. ask[c].type = "update" /\ ask[c] \in Event /\ ask[c].ent \in Entity
      BY <1>6, EventTyped DEF Load, TypeOK, StepsOfType
    <2>2. file[ask[c].ent] \in Nat
      BY <2>1 DEF TypeOK
    <2>3. /\ [ask[c] EXCEPT !.base = file[ask[c].ent]] \in Event
          /\ [ask[c] EXCEPT !.base = file[ask[c].ent]].type = "update"
      BY <2>1, <2>2, Rebased
    <2>4. ask' \in [Client -> Event] /\ \A d \in Client : ask'[d].type = ask[d].type
      <3>1. CASE UNCHANGED ask
        BY <3>1 DEF TypeOK
      <3>2. CASE ask' = [ask EXCEPT ![c].base = file[ask[c].ent]]
        BY <2>1, <2>3, <3>2 DEF TypeOK
      <3> QED  BY <1>6, <3>1, <3>2 DEF Load
    <2> QED  BY <1>6, <2>4 DEF Load, Goto, TypeOK, StepsOfType, disk, view
  <1>7. ASSUME NEW c \in Client, Check(c) PROVE Typed'
    <2>1. pc' \in [Process -> Steps] /\ \A d \in Client : pc'[d] \in {"rebuild", "write", "leave", pc[d]}
      BY <1>7 DEF Check, Goto, TypeOK
    <2>2. seen' \in [Process -> Nat] /\ todo' \in [Process -> SUBSET Entity]
      BY <1>7 DEF Check, Replay, TypeOK
    <2> QED  BY <1>7, <2>1, <2>2 DEF Check, TypeOK, StepsOfType, disk, call
  <1>8. ASSUME NEW c \in Client, WriteEvent(c) PROVE Typed'
    <2>1. NewEvent(c) \in Event
      BY NewEventTyped
    <2>2. ask[c].type \in {"transition", "update"}
      BY EventTyped DEF TypeOK
    <2>3. log' \in Seq(Event)
      BY <1>8, <2>1, AppendEvent DEF WriteEvent, TypeOK
    <2> QED  BY <1>8, <2>2, <2>3 DEF WriteEvent, Goto, TypeOK, StepsOfType, view, call
  <1>9. ASSUME NEW c \in Client, Materialize(c) PROVE Typed'
    BY <1>9, NewRevisionTyped DEF Materialize, Goto, TypeOK, StepsOfType, view, call
  <1>10. ASSUME NEW c \in Client, Index(c) PROVE Typed'
    BY <1>10, NewRevisionTyped DEF Index, Goto, TypeOK, StepsOfType, view, call
  <1>11. ASSUME NEW c \in Client, Leave(c) PROVE Typed'
    <2>1. ask[c].key \in Key
      BY EventTyped DEF TypeOK
    <2> QED  BY <1>11, <2>1 DEF Leave, Release, Lease!Release, Goto, TypeOK, StepsOfType, disk, view, call
  <1>12. ASSUME NEW r \in Rebuilder, StartRebuild(r) PROVE Typed'
    <2>1. r \notin Client
      BY StoreParameters
    <2> QED  BY <1>12, <2>1 DEF StartRebuild, Replay, Goto, TypeOK, StepsOfType, disk, call
  <1>13. ASSUME NEW p \in Process, RebuildYaml(p) PROVE Typed'
    BY <1>13 DEF RebuildYaml, Goto, TypeOK, StepsOfType, view, call
  <1>14. ASSUME NEW p \in Process, FinishRebuild(p) PROVE Typed'
    BY <1>14 DEF FinishRebuild, Goto, TypeOK, StepsOfType, disk, view, call
  <1>15. ASSUME NEW p \in Process, Crash(p) PROVE Typed'
    BY <1>15 DEF Crash, Lease!Die, Goto, TypeOK, StepsOfType, disk, view, call
  <1>16. ASSUME NEW p \in Process, NEW e \in Entity, RebuildFile(p, e) PROVE Typed'
    BY <1>16 DEF RebuildFile, TypeOK, StepsOfType, call
  <1>17. ASSUME Reclaim PROVE Typed'
    BY <1>17 DEF Reclaim, Lease!Reclaim, TypeOK, StepsOfType, disk, view, call
  <1>18. ASSUME Lapse PROVE Typed'
    BY <1>18 DEF Lapse, TypeOK, StepsOfType, disk, view, call
  <1>19. ASSUME UNCHANGED vars PROVE Typed'
    BY <1>19 DEF vars, disk, call, view, TypeOK, StepsOfType
  <1> QED
    BY <1>1, <1>2, <1>3, <1>4, <1>5, <1>6, <1>7, <1>8, <1>9, <1>10, <1>11, <1>12, <1>13,
       <1>14, <1>15, <1>16, <1>17, <1>18, <1>19 DEF Next

\* TypeOK holds in every reachable state: every file, message and program counter
\* of the store keeps its shape, whatever crashes, lapses or guesses happen.
THEOREM TypeCorrect == Spec => []TypeOK
  <1>1. Init => Typed
    BY TypedInit
  <1>2. Typed /\ [Next]_vars => Typed'
    BY TypedStep
  <1>3. Typed => TypeOK
    BY DEF Typed
  <1> QED  BY <1>1, <1>2, <1>3, PTL DEF Spec

-----------------------------------------------------------------------------
(* What was reported is durable.                                           *)

\* Past these steps the command's event is in the log.
Written == {"materialize", "index", "done", "rebuild", "rebuild_files"}

WrittenIsDurable == \A c \in Client : pc[c] \in Written => ask[c].key \in Keys(log)

Durable == Typed /\ WrittenIsDurable /\ AckedDurable

\* Only WriteEvent touches the log, and it appends.
LEMMA LogSteps ==
    ASSUME [Next]_vars, UNCHANGED log \/ \A c \in Client : ~WriteEvent(c)
    PROVE  UNCHANGED log
  BY DEF Next, vars, disk, view, call, Retry, Call, Create, Enter, Evaluate, LeaveGuard, Load, Check,
         Materialize, Index, Leave, StartRebuild, RebuildYaml, RebuildFile, FinishRebuild,
         Crash, Reclaim, Lapse

LEMMA KeysGrow == ASSUME Typed, [Next]_vars PROVE Keys(log) \subseteq Keys(log')
  <1>1. CASE \E c \in Client : WriteEvent(c)
    <2> PICK c \in Client : WriteEvent(c)
      BY <1>1
    <2>1. log \in Seq(Event) /\ NewEvent(c) \in Event
      BY NewEventTyped DEF Typed, TypeOK
    <2> QED  BY <2>1, KeysAppend DEF WriteEvent
  <1>2. CASE \A c \in Client : ~WriteEvent(c)
    <2>1. log' = log
      BY <1>2, LogSteps
    <2> QED  BY <2>1
  <1> QED  BY <1>1, <1>2

\* The key of an event that is found is in the log.
LEMMA ExistingKey == \A k : Existing(k) # {} => k \in Keys(log)
  BY DEF Existing, Keys

LEMMA DurableStep == ASSUME Durable, [Next]_vars PROVE Durable'
  <1>1. Keys(log) \subseteq Keys(log')
    BY KeysGrow DEF Durable
  <1>2. Typed'
    BY TypedStep DEF Durable
  <1> USE <1>1 DEF Durable, WrittenIsDurable, AckedDurable, Written
  <1>3. ASSUME NEW c \in Client, NEW a \in Commands, Retry(c, a)
        PROVE  WrittenIsDurable' /\ AckedDurable'
    <2>1. a.key \in Keys(log)
      BY <1>3, ExistingKey DEF Retry
    <2> QED  BY <1>3, <2>1 DEF Retry, disk, call
  <1>4. ASSUME NEW c \in Client, NEW a \in Commands, NEW x \in 0..(Len(log) + Ahead),
               Call(c, a, x) \/ Create(c, a, x)
        PROVE  WrittenIsDurable' /\ AckedDurable'
    BY <1>4 DEF Call, Create, Goto, Typed, TypeOK, disk, Process
  <1>5. ASSUME NEW c \in Client, \/ Enter(c) \/ LeaveGuard(c) \/ Materialize(c) \/ Index(c)
        PROVE  WrittenIsDurable' /\ AckedDurable'
    BY <1>5 DEF Enter, LeaveGuard, Materialize, Index, Goto, Typed, TypeOK, disk, call, Process
  <1>6. ASSUME NEW c \in Client, Evaluate(c) PROVE WrittenIsDurable' /\ AckedDurable'
    <2>1. \A d \in Client : d # c => ask'[d] = ask[d]
      BY <1>6 DEF Evaluate, Typed, TypeOK
    <2> QED  BY <1>6, <2>1 DEF Evaluate, Goto, Typed, TypeOK, disk, Process
  <1>7. ASSUME NEW c \in Client, Load(c) PROVE WrittenIsDurable' /\ AckedDurable'
    BY <1>7 DEF Load, Goto, Typed, TypeOK, disk, Process
  <1>8. ASSUME NEW c \in Client, Check(c) PROVE WrittenIsDurable' /\ AckedDurable'
    <2>1. pc'[c] = "rebuild" => ask[c].key \in Keys(log)
      BY <1>8, ExistingKey DEF Check, Committed, Goto, Typed, TypeOK, Process
    <2> QED  BY <1>8, <2>1 DEF Check, Goto, Typed, TypeOK, disk, call, Process
  <1>9. ASSUME NEW c \in Client, WriteEvent(c) PROVE WrittenIsDurable' /\ AckedDurable'
    <2>1. ask[c].key \in Keys(log')
      <3>1. log \in Seq(Event) /\ NewEvent(c) \in Event /\ NewEvent(c).key = ask[c].key
        BY NewEventTyped DEF Typed, TypeOK
      <3> QED  BY <1>9, <3>1, KeysAppend DEF WriteEvent
    <2> QED  BY <1>9, <2>1 DEF WriteEvent, Goto, Typed, TypeOK, call, Process
  <1>10. ASSUME NEW c \in Client, Leave(c) PROVE WrittenIsDurable' /\ AckedDurable'
    BY <1>10 DEF Leave, Succeeded, Goto, Typed, TypeOK, disk, call, Process
  <1>11. ASSUME NEW r \in Rebuilder, StartRebuild(r) PROVE WrittenIsDurable' /\ AckedDurable'
    <2>1. r \notin Client
      BY StoreParameters
    <2> QED  BY <1>11, <2>1 DEF StartRebuild, Goto, Typed, TypeOK, disk, call, Process
  <1>12. ASSUME NEW p \in Process, \/ RebuildYaml(p) \/ FinishRebuild(p) \/ Crash(p)
                                   \/ \E e \in Entity : RebuildFile(p, e)
         PROVE  WrittenIsDurable' /\ AckedDurable'
    BY <1>12 DEF RebuildYaml, FinishRebuild, Crash, RebuildFile, Goto, Typed, TypeOK, disk, call,
                 Process
  <1>13. ASSUME Reclaim \/ Lapse \/ UNCHANGED vars PROVE WrittenIsDurable' /\ AckedDurable'
    BY <1>13 DEF Reclaim, Lapse, vars, disk, call
  <1> QED
    BY <1>2, <1>3, <1>4, <1>5, <1>6, <1>7, <1>8, <1>9, <1>10, <1>11, <1>12, <1>13 DEF Next

\* AckedDurable holds in every reachable state: no crash, lapse of a lease or
\* guessed revision makes the store forget a command it reported successful.
THEOREM ReportedIsDurable == Spec => []AckedDurable
  <1>1. Init => Durable
    BY TypedInit DEF Init, Durable, WrittenIsDurable, Written, AckedDurable, Process
  <1>2. Durable /\ [Next]_vars => Durable'
    BY DurableStep
  <1>3. Durable => AckedDurable
    BY DEF Durable
  <1> QED  BY <1>1, <1>2, <1>3, PTL DEF Spec

-----------------------------------------------------------------------------
(* The log always replays.                                                 *)
(*                                                                         *)
(* The holder's knowledge of the log stays exact while it holds the lease. *)
(* A transition's source is decided in an earlier section; the expected    *)
(* revision, which the log had reached when the command was called, is     *)
(* what makes a stale source harmless.                                     *)

Section == InSection \cup Rebuilding

\* Exactly the holder of the lease is inside a section.
HolderInside == \A c \in Client : pc[c] \in Section <=> lease = c

\* Nothing refers to a revision the log has not reached.
Bounded ==
    /\ yaml <= Len(log)
    /\ \A e \in Entity : file[e] <= Len(log)
    /\ \A p \in Process : seen[p] <= Len(log)
    /\ \A c \in Client :
          /\ expected[c] <= Len(log)
          /\ ask[c].type = "update" => ask[c].base <= Len(log)

\* What the holder is about to write fits, and what it has written is the last event.
HolderExact ==
    \A c \in Client :
        /\ pc[c] = "write" =>
              /\ seen[c] = Len(log) /\ ask[c].key \notin Keys(log)
              /\ ask[c].type = "transition" => IsState(log, Len(log), ask[c].from)
        /\ pc[c] \in {"materialize", "index"} => seen[c] + 1 = Len(log)

\* A decided transition is current for as long as the expected revision is.
DecidedCurrent ==
    \A c \in Client :
        pc[c] \in {"decided", "append", "check"} /\ ask[c].type = "transition"
            /\ Len(log) = expected[c] => IsState(log, Len(log), ask[c].from)

Sound ==
    Typed /\ HolderInside /\ Bounded /\ HolderExact /\ DecidedCurrent /\ LogReplayable

LEMMA HolderInsideStep ==
    ASSUME ~lapsed', Typed, HolderInside, [Next]_vars PROVE HolderInside'
  <1> USE StoreParameters
      DEF HolderInside, Section, InSection, Rebuilding, Process, Goto, Typed, TypeOK, disk, call, view
  <1>1. ASSUME NEW c \in Client, NEW a \in Commands, Retry(c, a) PROVE HolderInside'
    BY <1>1 DEF Retry
  <1>2. ASSUME NEW c \in Client, NEW a \in Commands, NEW x \in 0..(Len(log) + Ahead),
               Call(c, a, x) \/ Create(c, a, x)
        PROVE  HolderInside'
    BY <1>2 DEF Call, Create
  <1>3. ASSUME NEW c \in Client, Enter(c) PROVE HolderInside'
    BY <1>3 DEF Enter, Lease!Acquire
  <1>4. ASSUME NEW c \in Client, Evaluate(c) PROVE HolderInside'
    BY <1>4 DEF Evaluate
  <1>5. ASSUME NEW c \in Client, LeaveGuard(c) PROVE HolderInside'
    BY <1>5 DEF LeaveGuard, Release, Lease!Release
  <1>6. ASSUME NEW c \in Client, Load(c) PROVE HolderInside'
    BY <1>6 DEF Load
  <1>7. ASSUME NEW c \in Client, Check(c) PROVE HolderInside'
    BY <1>7 DEF Check
  <1>8. ASSUME NEW c \in Client, WriteEvent(c) \/ Materialize(c) PROVE HolderInside'
    BY <1>8 DEF WriteEvent, Materialize
  <1>9. ASSUME NEW c \in Client, Index(c) PROVE HolderInside'
    BY <1>9 DEF Index
  <1>10. ASSUME NEW c \in Client, Leave(c) PROVE HolderInside'
    BY <1>10 DEF Leave, Release, Lease!Release
  <1>11. ASSUME NEW r \in Rebuilder, StartRebuild(r) PROVE HolderInside'
    BY <1>11 DEF StartRebuild
  <1>12. ASSUME NEW p \in Process, RebuildYaml(p) \/ FinishRebuild(p) PROVE HolderInside'
    BY <1>12 DEF RebuildYaml, FinishRebuild
  <1>13. ASSUME NEW p \in Process, Crash(p) PROVE HolderInside'
    BY <1>13 DEF Crash, Lease!Die
  <1>14. ASSUME NEW p \in Process, NEW e \in Entity, RebuildFile(p, e) PROVE HolderInside'
    BY <1>14 DEF RebuildFile
  <1>15. ASSUME Reclaim PROVE HolderInside'
    BY <1>15 DEF Reclaim, Lease!Reclaim
  <1>16. ASSUME Lapse PROVE HolderInside'
    BY <1>16 DEF Lapse
  <1>17. ASSUME UNCHANGED vars PROVE HolderInside'
    BY <1>17 DEF vars
  <1> QED
    BY <1>1, <1>2, <1>3, <1>4, <1>5, <1>6, <1>7, <1>8, <1>9, <1>10, <1>11, <1>12, <1>13,
       <1>14, <1>15, <1>16, <1>17 DEF Next

\* A step leaves the log as it is, or it is the holder's WriteEvent of an event
\* that fits.
LEMMA LogStep ==
    ASSUME Sound, [Next]_vars
    PROVE  \/ log' = log
           \/ \E c \in Client :
                 /\ WriteEvent(c) /\ lease = c
                 /\ log' = Append(log, NewEvent(c)) /\ Len(log') = Len(log) + 1
                 /\ Fits(log, NewEvent(c)) /\ NewEvent(c) \in Event
  <1>1. CASE \A c \in Client : ~WriteEvent(c)
    BY <1>1, LogSteps
  <1>2. ASSUME NEW c \in Client, WriteEvent(c)
        PROVE  /\ lease = c
               /\ log' = Append(log, NewEvent(c)) /\ Len(log') = Len(log) + 1
               /\ Fits(log, NewEvent(c)) /\ NewEvent(c) \in Event
    <2>1. /\ pc[c] = "write" /\ log \in Seq(Event)
          /\ log' = Append(log, NewEvent(c))
      BY <1>2 DEF WriteEvent, Sound, Typed, TypeOK
    <2>2. /\ NewEvent(c) \in Event /\ NewEvent(c).new = seen[c] + 1
          /\ NewEvent(c).key = ask[c].key /\ NewEvent(c).type = ask[c].type
          /\ ask[c].type = "transition" => NewEvent(c).from = ask[c].from
      BY NewEventTyped DEF NewRevision, Sound, Typed
    <2>3. Fits(log, NewEvent(c))
      BY <2>1, <2>2 DEF Fits, Sound, HolderExact
    <2>4. lease = c
      BY <2>1 DEF Sound, HolderInside, Section, InSection
    <2> QED  BY <2>1, <2>2, <2>3, <2>4, AppendEvent
  <1> QED  BY <1>1, <1>2

LEMMA LogGrows ==
    ASSUME Sound, [Next]_vars
    PROVE  Len(log) \in Nat /\ Len(log') \in Nat /\ Len(log) <= Len(log')
  <1>1. log \in Seq(Event) /\ log' \in Seq(Event)
    BY TypedStep DEF Sound, Typed, TypeOK
  <1> QED  BY <1>1, LogStep

LEMMA ReplayableStep == ASSUME Sound, [Next]_vars PROVE LogReplayable'
  <1>1. log \in Seq(Event) /\ Replayable(log)
    BY DEF Sound, Typed, TypeOK, LogReplayable
  <1>2. CASE log' = log
    BY <1>1, <1>2 DEF LogReplayable
  <1>3. CASE \E c \in Client : /\ log' = Append(log, NewEvent(c)) /\ NewEvent(c) \in Event
                               /\ Fits(log, NewEvent(c))
    BY <1>1, <1>3, ReplayableAppend DEF LogReplayable
  <1> QED  BY <1>2, <1>3, LogStep

LEMMA BoundedStep == ASSUME Ahead = 0, Sound, [Next]_vars PROVE Bounded'
  <1>1. Len(log) \in Nat /\ Len(log') \in Nat /\ Len(log) <= Len(log')
    BY LogGrows
  <1>2. /\ yaml \in Nat /\ file \in [Entity -> Nat] /\ seen \in [Process -> Nat]
        /\ ask \in [Client -> Event] /\ expected \in [Client -> Nat]
    BY DEF Sound, Typed, TypeOK
  <1>3. Bounded
    BY DEF Sound
  <1> USE <1>1, <1>2, <1>3 DEF Bounded, Process, disk, call, view
  <1>4. ASSUME NEW c \in Client, NEW a \in Commands, NEW x \in 0..(Len(log) + Ahead),
               Call(c, a, x) \/ Create(c, a, x)
        PROVE  Bounded'
    <2>1. x <= Len(log)
      BY <1>4
    <2>2. a.type = "update" => a.base = 0
      BY DEF Commands, NewTransition, NewUpdate
    <2>3. CASE Call(c, a, x)
      BY <2>1, <2>2, <2>3 DEF Call
    <2>4. CASE Create(c, a, x)
      BY <2>1, <2>2, <2>4 DEF Create
    <2> QED  BY <1>4, <2>3, <2>4
  <1>5. ASSUME NEW c \in Client, Evaluate(c) PROVE Bounded'
    <2>1. ask[c].type = "transition"
      BY <1>5 DEF Evaluate, Sound, Typed, StepsOfType
    <2>2. CASE UNCHANGED ask
      BY <1>5, <2>2 DEF Evaluate
    <2>3. CASE \E s \in State : ask' = [ask EXCEPT ![c].from = s]
      <3> PICK s \in State : ask' = [ask EXCEPT ![c].from = s]
        BY <2>3
      <3>1. [ask[c] EXCEPT !.from = s].type = "transition"
        BY <2>1, Resourced
      <3> QED  BY <1>5, <3>1 DEF Evaluate
    <2> QED  BY <1>5, <2>2, <2>3 DEF Evaluate
  <1>6. ASSUME NEW c \in Client, Load(c) PROVE Bounded'
    <2>1. ask[c].type = "update" /\ ask[c] \in Event /\ ask[c].ent \in Entity
      BY <1>6, EventTyped DEF Load, Sound, Typed, StepsOfType
    <2>2. [ask[c] EXCEPT !.base = file[ask[c].ent]].base = file[ask[c].ent]
      BY <2>1, Rebased
    <2> QED  BY <1>6, <2>1, <2>2 DEF Load
  <1>7. ASSUME NEW c \in Client, WriteEvent(c) PROVE Bounded'
    <2>1. UNCHANGED <<yaml, file, seen, ask, expected>>
      BY <1>7 DEF WriteEvent
    <2>2. \A d \in Client : ask[d].type = "update" => ask[d].base \in Nat
      BY EventTyped
    <2> QED  BY <2>1, <2>2
  <1>8. ASSUME NEW c \in Client, Materialize(c) \/ Index(c) PROVE Bounded'
    <2>1. NewRevision(c) = Len(log)
      BY <1>8 DEF Materialize, Index, NewRevision, Sound, HolderExact
    <2> QED  BY <1>8, <2>1 DEF Materialize, Index
  <1>9. ASSUME NEW p \in Process, \/ p \in Client /\ Check(p)
                                  \/ p \in Rebuilder /\ StartRebuild(p)
        PROVE  Bounded'
    BY <1>9 DEF Check, StartRebuild, Replay
  <1>10. ASSUME NEW p \in Process, RebuildYaml(p) PROVE Bounded'
    BY <1>10 DEF RebuildYaml
  <1>11. ASSUME NEW p \in Process, NEW e \in Entity, RebuildFile(p, e) PROVE Bounded'
    <2>1. PICK r \in 0..seen[p] : file' = IF r = 0 THEN file ELSE [file EXCEPT ![e] = r]
      BY <1>11 DEF RebuildFile
    <2>2. r <= Len(log)
      OBVIOUS
    <2> QED  BY <1>11, <2>1, <2>2 DEF RebuildFile
  <1>12. ASSUME NEW c \in Client,
                \/ Enter(c) \/ LeaveGuard(c) \/ Leave(c) \/ \E a \in Commands : Retry(c, a)
         PROVE  Bounded'
    BY <1>12 DEF Enter, LeaveGuard, Leave, Retry
  <1>13. ASSUME \/ \E p \in Process : FinishRebuild(p) \/ Crash(p)
                \/ Reclaim \/ Lapse \/ UNCHANGED vars
         PROVE  Bounded'
    BY <1>13 DEF FinishRebuild, Crash, Reclaim, Lapse, vars
  <1> QED
    BY <1>4, <1>5, <1>6, <1>7, <1>8, <1>9, <1>10, <1>11, <1>12, <1>13 DEF Next

\* While another process holds the lease, or the log stays as it is, what a
\* process knows stays exact.
LEMMA HolderExactStep == ASSUME ~lapsed', Sound, [Next]_vars PROVE HolderExact'
  <1>1. Typed /\ HolderInside /\ HolderExact /\ DecidedCurrent /\ LogReplayable
    BY DEF Sound
  <1>2. HolderInside'
    BY <1>1, HolderInsideStep
  <1>3. log \in Seq(Event) /\ Len(log) \in Nat
    BY <1>1 DEF Typed, TypeOK
  <1>4. SUFFICES ASSUME NEW d \in Client, pc'[d] \in {"write", "materialize", "index"}
                 PROVE  /\ pc'[d] = "write" =>
                              /\ seen'[d] = Len(log') /\ ask'[d].key \notin Keys(log')
                              /\ ask'[d].type = "transition" => IsState(log', Len(log'), ask'[d].from)
                        /\ pc'[d] \in {"materialize", "index"} => seen'[d] + 1 = Len(log')
    BY DEF HolderExact
  <1>5. lease' = d
    BY <1>2, <1>4 DEF HolderInside, Section, InSection
  <1>6. CASE WriteEvent(d)
    <2>1. pc'[d] \in {"materialize", "index"} /\ seen'[d] = seen[d] /\ seen[d] = Len(log)
      BY <1>1, <1>6 DEF WriteEvent, Goto, Typed, TypeOK, view, HolderExact, Process
    <2>2. log' = Append(log, NewEvent(d)) /\ NewEvent(d) \in Event
      BY <1>1, <1>6, NewEventTyped DEF WriteEvent, Typed
    <2>3. Len(log') = Len(log) + 1
      BY <1>3, <2>2, AppendEvent
    <2> QED  BY <2>1, <2>3
  <1>7. CASE Check(d)
    <2>1. /\ log' = log /\ ask' = ask /\ seen'[d] = Len(log)
          /\ pc'[d] = "write" /\ pc[d] = "check"
      BY <1>1, <1>4, <1>7 DEF Check, Replay, Goto, Typed, TypeOK, disk, call, Process
    <2>2. Committed(d) = {} /\ Accepted(d)
      BY <1>1, <1>7, <2>1 DEF Check, Goto, Typed, TypeOK, Process
    <2>3. ask[d].key \notin Keys(log)
      BY <2>2 DEF Committed, Existing, Keys
    <2>4. ask[d].type = "transition" => IsState(log, Len(log), ask[d].from)
      BY <1>1, <2>1, <2>2 DEF Accepted, DecidedCurrent
    <2> QED  BY <2>1, <2>3, <2>4
  <1>8. CASE Materialize(d)
    BY <1>1, <1>8 DEF Materialize, Goto, Typed, TypeOK, view, HolderExact, Process
  <1>9. CASE ~WriteEvent(d) /\ ~Check(d) /\ ~Materialize(d)
    <2>1. /\ pc'[d] = pc[d] /\ ask'[d] = ask[d] /\ seen'[d] = seen[d]
      <3> USE StoreParameters DEF Typed, TypeOK, Process, Goto, Replay, disk, call, view
      <3>1. ASSUME NEW c \in Client, c # d, \/ Check(c) \/ WriteEvent(c) \/ Materialize(c)
            PROVE  UNCHANGED <<pc[d], ask[d], seen[d]>>
        BY <1>1, <3>1 DEF Check, WriteEvent, Materialize
      <3>2. ASSUME NEW c \in Client, \/ Enter(c) \/ Evaluate(c) \/ LeaveGuard(c) \/ Load(c)
                                     \/ Index(c) \/ Leave(c) \/ \E a \in Commands : Retry(c, a)
            PROVE  UNCHANGED <<pc[d], ask[d], seen[d]>>
        BY <1>1, <1>4, <3>2 DEF Enter, Evaluate, LeaveGuard, Load, Index, Leave, Retry
      <3>3. ASSUME NEW c \in Client, NEW a \in Commands, NEW x \in 0..(Len(log) + Ahead),
                   Call(c, a, x) \/ Create(c, a, x)
            PROVE  UNCHANGED <<pc[d], ask[d], seen[d]>>
        BY <1>1, <1>4, <3>3 DEF Call, Create
      <3>4. ASSUME NEW r \in Rebuilder, StartRebuild(r)
            PROVE  UNCHANGED <<pc[d], ask[d], seen[d]>>
        BY <1>1, <3>4 DEF StartRebuild
      <3>5. ASSUME NEW p \in Process, \/ RebuildYaml(p) \/ FinishRebuild(p) \/ Crash(p)
                                      \/ \E e \in Entity : RebuildFile(p, e)
            PROVE  UNCHANGED <<pc[d], ask[d], seen[d]>>
        BY <1>1, <1>4, <3>5 DEF RebuildYaml, FinishRebuild, Crash, RebuildFile
      <3>6. ASSUME Reclaim \/ Lapse \/ UNCHANGED vars
            PROVE  UNCHANGED <<pc[d], ask[d], seen[d]>>
        BY <3>6 DEF Reclaim, Lapse, vars
      <3> QED
        BY <1>9, <3>1, <3>2, <3>3, <3>4, <3>5, <3>6 DEF Next
    <2>2. lease = d
      BY <1>1, <1>4, <2>1 DEF HolderInside, Section, InSection
    <2>3. log' = log
      BY <1>9, <2>2, LogStep
    <2> QED  BY <1>1, <1>4, <2>1, <2>3 DEF HolderExact
  <1> QED  BY <1>6, <1>7, <1>8, <1>9

LEMMA DecidedCurrentStep == ASSUME Sound, [Next]_vars PROVE DecidedCurrent'
  <1>1. /\ Typed /\ Bounded /\ DecidedCurrent
        /\ log \in Seq(Event) /\ Len(log) \in Nat
    BY DEF Sound, Typed, TypeOK
  <1>2. SUFFICES ASSUME NEW d \in Client, pc'[d] \in {"decided", "append", "check"},
                        ask'[d].type = "transition", Len(log') = expected'[d]
                 PROVE  IsState(log', Len(log'), ask'[d].from)
    BY DEF DecidedCurrent
  <1>3. CASE Evaluate(d)
    <2>1. PICK s \in State : /\ IsState(log, Len(log), s)
                             /\ ask' = [ask EXCEPT ![d].from = s] /\ log' = log
      BY <1>1, <1>2, <1>3 DEF Evaluate, Allowed, Goto, Typed, TypeOK, disk, Process
    <2>2. ask[d] \in Event /\ ask[d].type = "transition"
      BY <1>1, <1>3 DEF Evaluate, Typed, TypeOK, StepsOfType
    <2>3. ask'[d].from = s
      BY <1>1, <2>1, <2>2, Resourced DEF Typed, TypeOK
    <2> QED  BY <2>1, <2>3
  <1>4. CASE Load(d)
    <2>1. ask[d].type = "update" /\ ask[d] \in Event /\ ask[d].ent \in Entity
      BY <1>1, <1>4, EventTyped DEF Load, Typed, TypeOK, StepsOfType
    <2>2. file[ask[d].ent] \in Nat
      BY <1>1, <2>1 DEF Typed, TypeOK
    <2>3. ask'[d].type = "update"
      BY <1>1, <1>4, <2>1, <2>2, Rebased DEF Load, Typed, TypeOK
    <2> QED  BY <1>2, <2>3
  <1>5. CASE ~Evaluate(d) /\ ~Load(d)
    <2>1. /\ pc[d] \in {"decided", "append", "check"}
          /\ ask'[d] = ask[d] /\ expected'[d] = expected[d]
      <3> USE StoreParameters DEF Typed, TypeOK, Process, Goto, disk, call, view
      <3> DEFINE Kept == pc[d] \in {"decided", "append", "check"}
                            /\ ask'[d] = ask[d] /\ expected'[d] = expected[d]
      <3>1. ASSUME NEW c \in Client, c # d, Evaluate(c) \/ Load(c) PROVE Kept
        BY <1>1, <1>2, <3>1 DEF Evaluate, Load
      <3>2. ASSUME NEW c \in Client, \/ Enter(c) \/ LeaveGuard(c) \/ Check(c) \/ WriteEvent(c)
                                     \/ Materialize(c)
            PROVE  Kept
        BY <1>1, <1>2, <3>2 DEF Enter, LeaveGuard, Check, WriteEvent, Materialize
      <3>3. ASSUME NEW c \in Client, \/ Index(c) \/ Leave(c) \/ \E a \in Commands : Retry(c, a)
            PROVE  Kept
        BY <1>1, <1>2, <3>3 DEF Index, Leave, Retry
      <3>4. ASSUME NEW c \in Client, NEW a \in Commands, NEW x \in 0..(Len(log) + Ahead),
                   Call(c, a, x) \/ Create(c, a, x)
            PROVE  Kept
        BY <1>1, <1>2, <3>4 DEF Call, Create
      <3>5. ASSUME NEW p \in Process, \/ RebuildYaml(p) \/ FinishRebuild(p) \/ Crash(p)
                                      \/ \E e \in Entity : RebuildFile(p, e)
                                      \/ p \in Rebuilder /\ StartRebuild(p)
            PROVE  Kept
        BY <1>1, <1>2, <3>5 DEF RebuildYaml, FinishRebuild, Crash, RebuildFile, StartRebuild
      <3>6. ASSUME Reclaim \/ Lapse \/ UNCHANGED vars PROVE Kept
        BY <1>2, <3>6 DEF Reclaim, Lapse, vars
      <3> QED
        BY <1>5, <3>1, <3>2, <3>3, <3>4, <3>5, <3>6 DEF Next
    <2>2. CASE log' = log
      BY <1>1, <1>2, <2>1, <2>2 DEF DecidedCurrent
    <2>3. CASE Len(log') = Len(log) + 1
      <3>1. expected[d] <= Len(log) /\ expected[d] \in Nat
        BY <1>1 DEF Bounded, Typed, TypeOK
      <3> QED  BY <1>1, <1>2, <2>1, <2>3, <3>1
    <2> QED  BY <2>2, <2>3, LogStep
  <1> QED  BY <1>3, <1>4, <1>5

LEMMA SoundInit == ASSUME Init PROVE Sound
  <1>1. Typed
    BY TypedInit
  <1>2. log = <<>> /\ Len(log) = 0
    BY DEF Init
  <1>3. \A c \in Client : ask[c].type = "transition"
    BY DEF Init, NewTransition
  <1>4. HolderInside /\ Bounded /\ HolderExact /\ DecidedCurrent
    BY <1>2, <1>3, StoreParameters
    DEF Init, HolderInside, Bounded, HolderExact, DecidedCurrent, Section, InSection, Rebuilding, Process
  <1>5. LogReplayable
    BY <1>2 DEF LogReplayable, Replayable, Contiguous, KeysUnique, SourcesMatch
  <1> QED  BY <1>1, <1>4, <1>5 DEF Sound

LEMMA SoundStep == ASSUME ~lapsed', Ahead = 0, Sound, [Next]_vars PROVE Sound'
  <1>1. Typed' /\ HolderInside'
    BY TypedStep, HolderInsideStep DEF Sound
  <1> QED
    BY <1>1, BoundedStep, HolderExactStep, DecidedCurrentStep, ReplayableStep DEF Sound

\* Only Lapse touches lapsed.
LEMMA LapsedSteps ==
    ASSUME [Next]_vars PROVE UNCHANGED lapsed \/ (Lapses /\ lapsed' = TRUE)
  <1>1. CASE Lapse
    BY <1>1, Zenon DEF Lapse
  <1>2. CASE UNCHANGED vars
    BY <1>2, Zenon DEF vars
  <1>3. ASSUME NEW c \in Client, \/ Enter(c) \/ Evaluate(c) \/ LeaveGuard(c) \/ Load(c) \/ Check(c)
                                 \/ WriteEvent(c) \/ Materialize(c) \/ Index(c) \/ Leave(c)
                                 \/ \E a \in Commands : Retry(c, a)
        PROVE  lapsed' = lapsed
    BY <1>3, Zenon DEF Enter, Evaluate, LeaveGuard, Load, Check, WriteEvent, Materialize, Index,
           Leave, Retry
  <1>4. ASSUME NEW c \in Client, NEW a \in Commands, NEW x, Call(c, a, x) \/ Create(c, a, x)
        PROVE  lapsed' = lapsed
    BY <1>4, Zenon DEF Call, Create
  <1>5. ASSUME NEW p \in Process, \/ RebuildYaml(p) \/ FinishRebuild(p) \/ Crash(p) \/ StartRebuild(p)
                                  \/ \E e \in Entity : RebuildFile(p, e)
        PROVE  lapsed' = lapsed
    BY <1>5, Zenon DEF RebuildYaml, FinishRebuild, Crash, StartRebuild, RebuildFile
  <1>6. CASE Reclaim
    BY <1>6, Zenon DEF Reclaim
  <1> QED  BY <1>1, <1>2, <1>3, <1>4, <1>5, <1>6 DEF Next, Process

\* Once a lease has lapsed it has.
LEMMA LapsedStays ==
    ASSUME lapsed \in BOOLEAN, [Next]_vars
    PROVE  /\ ~lapsed' => ~lapsed
           /\ ~Lapses /\ ~lapsed => ~lapsed'
  <1>1. lapsed' = lapsed \/ (Lapses /\ lapsed' = TRUE)
    BY LapsedSteps
  <1>2. CASE lapsed' = lapsed
    BY <1>2
  <1>3. CASE Lapses /\ lapsed' = TRUE
    BY <1>3
  <1> QED  BY <1>1, <1>2, <1>3

SoundUntilLapse == Typed /\ (~lapsed => Sound)

LEMMA SoundUntilLapseStep ==
    ASSUME Ahead = 0, SoundUntilLapse, [Next]_vars PROVE SoundUntilLapse'
  <1>1. Typed' /\ lapsed \in BOOLEAN
    BY TypedStep DEF SoundUntilLapse, Typed, TypeOK
  <1> QED
    BY <1>1, LapsedStays, SoundStep DEF SoundUntilLapse

\* LogReplayable holds as long as leases are exclusive, when revisions are not guessed:
\* crashes, retries and rebuilds beside the commands never corrupt the log.
THEOREM LogStaysReplayable ==
    ASSUME Ahead = 0 PROVE Spec => [](~lapsed => LogReplayable)
  <1>1. Init => SoundUntilLapse
    BY SoundInit DEF SoundUntilLapse, Sound
  <1>2. SoundUntilLapse /\ [Next]_vars => SoundUntilLapse'
    BY SoundUntilLapseStep
  <1>3. SoundUntilLapse => (~lapsed => LogReplayable)
    BY DEF SoundUntilLapse, Sound
  <1> QED  BY <1>1, <1>2, <1>3, PTL DEF Spec

-----------------------------------------------------------------------------
(* The store implements the atomic log.                                    *)

\* A decided transition is one the guards let through.
DecidedAllowed ==
    \A c \in Client :
        pc[c] \in {"decided", "append", "check", "write"} /\ ask[c].type = "transition" =>
            <<ask[c].from, ask[c].to>> \in Move

LEMMA DecidedAllowedStep == ASSUME Typed, DecidedAllowed, [Next]_vars PROVE DecidedAllowed'
  <1>1. SUFFICES ASSUME NEW d \in Client, pc'[d] \in {"decided", "append", "check", "write"},
                        ask'[d].type = "transition"
                 PROVE  <<ask'[d].from, ask'[d].to>> \in Move
    BY DEF DecidedAllowed
  <1>2. CASE Evaluate(d)
    <2>1. PICK s \in State : /\ <<s, ask[d].to>> \in Move
                             /\ ask' = [ask EXCEPT ![d].from = s]
      BY <1>1, <1>2 DEF Evaluate, Allowed, Goto, Typed, TypeOK, Process
    <2>2. ask[d] \in Event /\ ask[d].type = "transition"
      BY <1>2 DEF Evaluate, Typed, TypeOK, StepsOfType
    <2>3. ask'[d].from = s /\ ask'[d].to = ask[d].to
      BY <2>1, <2>2, Resourced DEF Typed, TypeOK
    <2> QED  BY <2>1, <2>3
  <1>3. CASE Load(d)
    <2>1. ask[d].type = "update" /\ ask[d] \in Event /\ ask[d].ent \in Entity
      BY <1>3, EventTyped DEF Load, Typed, TypeOK, StepsOfType
    <2>2. file[ask[d].ent] \in Nat
      BY <2>1 DEF Typed, TypeOK
    <2>3. ask'[d].type = "update"
      BY <1>3, <2>1, <2>2, Rebased DEF Load, Typed, TypeOK
    <2> QED  BY <1>1, <2>3
  <1>4. CASE ~Evaluate(d) /\ ~Load(d)
    <2> USE StoreParameters DEF Typed, TypeOK, Process, Goto, disk, call, view
    <2> DEFINE Kept == pc[d] \in {"decided", "append", "check", "write"} /\ ask'[d] = ask[d]
    <2>1. ASSUME NEW c \in Client, c # d, Evaluate(c) \/ Load(c) PROVE Kept
      BY <1>1, <2>1 DEF Evaluate, Load
    <2>2. ASSUME NEW c \in Client, \/ Enter(c) \/ LeaveGuard(c) \/ Check(c) \/ WriteEvent(c)
                                   \/ Materialize(c)
          PROVE  Kept
      BY <1>1, <2>2 DEF Enter, LeaveGuard, Check, WriteEvent, Materialize
    <2>3. ASSUME NEW c \in Client, \/ Index(c) \/ Leave(c) \/ \E a \in Commands : Retry(c, a)
          PROVE  Kept
      BY <1>1, <2>3 DEF Index, Leave, Retry
    <2>4. ASSUME NEW c \in Client, NEW a \in Commands, NEW x \in 0..(Len(log) + Ahead),
                 Call(c, a, x) \/ Create(c, a, x)
          PROVE  Kept
      BY <1>1, <2>4 DEF Call, Create
    <2>5. ASSUME NEW p \in Process, \/ RebuildYaml(p) \/ FinishRebuild(p) \/ Crash(p)
                                    \/ \E e \in Entity : RebuildFile(p, e)
                                    \/ p \in Rebuilder /\ StartRebuild(p)
          PROVE  Kept
      BY <1>1, <2>5 DEF RebuildYaml, FinishRebuild, Crash, RebuildFile, StartRebuild
    <2>6. ASSUME Reclaim \/ Lapse \/ UNCHANGED vars PROVE Kept
      BY <1>1, <2>6 DEF Reclaim, Lapse, vars
    <2>7. Kept
      BY <1>4, <2>1, <2>2, <2>3, <2>4, <2>5, <2>6 DEF Next
    <2> QED  BY <1>1, <2>7 DEF DecidedAllowed
  <1> QED  BY <1>2, <1>3, <1>4

\* What the prover's instances of EventLog's definitions say.
LEMMA AbstractDefs ==
    /\ \A lg, n, s : Abstract!IsState(lg, n, s) <=> IsState(lg, n, s)
    /\ \A lg : Abstract!Keys(lg) = Keys(lg)
  BY DEF Abstract!IsState, IsState, Abstract!Keys, Keys

\* WriteEvent is the commit point.
LEMMA WriteCommits ==
    ASSUME Sound, DecidedAllowed, NEW c \in Client, WriteEvent(c),
           Fits(log, NewEvent(c)), NewEvent(c) \in Event
    PROVE  Abstract!Next
  <1> DEFINE e == NewEvent(c)
  <1>1. /\ log' = Append(log, e) /\ acked' = acked /\ e \in Event
        /\ e.new = Len(log) + 1 /\ e.key \notin Keys(log) /\ e.key \in Key
      BY EventTyped DEF WriteEvent, Fits
  <1>2. /\ e.type = ask[c].type
        /\ ask[c].type = "transition" => e.from = ask[c].from /\ e.to = ask[c].to
        /\ ask[c].type = "update" => e.base = ask[c].base
    BY NewEventTyped DEF Sound, Typed
  <1>3. CASE e.type = "transition"
    <2>1. e \in Transition /\ e.from \in State /\ e.to \in State
      BY <1>1, <1>3, EventTyped
    <2>2. IsState(log, Len(log), e.from) /\ <<e.from, e.to>> \in Move
      BY <1>2, <1>3 DEF Fits, DecidedAllowed, WriteEvent
    <2>3. e = [type |-> "transition", key |-> e.key, new |-> Len(log) + 1, from |-> e.from, to |-> e.to]
      BY <1>1, <2>1 DEF Transition
    <2>4. Abstract!CommitTransition(e.key, e.from, e.to)
      BY <1>1, <2>2, <2>3, AbstractDefs DEF Abstract!CommitTransition, Abstract!Commit
    <2> QED  BY <1>1, <2>1, <2>4 DEF Abstract!Next
  <1>4. CASE e.type = "update"
    <2>1. e \in Update /\ e.ent \in Entity /\ e.base \in Nat
      BY <1>1, <1>4, EventTyped
    <2>2. e.base \in 0..Len(log)
      <3>1. e.base <= Len(log)
        BY <1>2, <1>4 DEF Sound, Bounded
      <3>2. Len(log) \in Nat
        BY DEF Sound, Typed, TypeOK
      <3> HIDE DEF e
      <3> QED  BY <2>1, <3>1, <3>2
    <2>3. e = [type |-> "update", key |-> e.key, new |-> Len(log) + 1, ent |-> e.ent, base |-> e.base]
      BY <1>1, <2>1 DEF Update
    <2>4. Abstract!CommitUpdate(e.key, e.ent, e.base)
      BY <1>1, <2>3, AbstractDefs DEF Abstract!CommitUpdate, Abstract!Commit
    <2> QED  BY <1>1, <2>1, <2>2, <2>4 DEF Abstract!Next
  <1> QED  BY <1>1, <1>3, <1>4, EventTyped

LEMMA AckedSteps ==
    ASSUME Durable, [Next]_vars
    PROVE  \/ UNCHANGED acked
           \/ log' = log /\ \E k \in Keys(log) \cap Key : acked' = acked \cup {k}
  <1>1. ASSUME NEW c \in Client, NEW a \in Commands, Retry(c, a)
        PROVE  log' = log /\ \E k \in Keys(log) \cap Key : acked' = acked \cup {k}
    <2>1. a.key \in Key
      BY CommandsAreEvents, EventTyped
    <2>2. a.key \in Keys(log)
      BY <1>1, ExistingKey DEF Retry
    <2> QED  BY <1>1, <2>1, <2>2 DEF Retry, disk
  <1>2. ASSUME NEW c \in Client, Leave(c)
        PROVE  \/ UNCHANGED acked
               \/ log' = log /\ \E k \in Keys(log) \cap Key : acked' = acked \cup {k}
    <2>1. ask[c].key \in Key
      BY EventTyped DEF Durable, Typed, TypeOK
    <2>2. Succeeded(c) => ask[c].key \in Keys(log)
      BY DEF Succeeded, Durable, WrittenIsDurable, Written
    <2> QED  BY <1>2, <2>1, <2>2 DEF Leave, disk
  <1>3. CASE \A c \in Client : ~Leave(c) /\ \A a \in Commands : ~Retry(c, a)
    BY <1>3 DEF Next, vars, Call, Create, Enter, Evaluate, LeaveGuard, Load, Check, WriteEvent,
           Materialize, Index, StartRebuild, RebuildYaml, RebuildFile, FinishRebuild, Crash,
           Reclaim, Lapse
  <1> QED  BY <1>1, <1>2, <1>3

\* When the lease is exclusive and revisions are not guessed, the store implements
\* TaskLog: each command commits atomically, at the moment its event file
\* appears, or not at all.
THEOREM StoreImplementsTaskLog ==
    ASSUME ~Lapses, Ahead = 0 PROVE Spec => ImplementsTaskLog
  <1> DEFINE Inv == ~lapsed /\ Sound /\ Durable /\ DecidedAllowed
  <1>1. Init => Inv
    BY SoundInit
    DEF Init, Sound, Durable, WrittenIsDurable, Written, AckedDurable, DecidedAllowed, Process
  <1>2. Inv /\ [Next]_vars => Inv'
    BY LapsedStays, SoundStep, DurableStep, DecidedAllowedStep DEF Sound, Typed, TypeOK
  <1>3. Init => Abstract!Init
    BY DEF Init, Abstract!Init
  <1>4. Inv /\ [Next]_vars => [Abstract!Next]_<<log, acked>>
    <2> SUFFICES ASSUME Inv, [Next]_vars PROVE [Abstract!Next]_<<log, acked>>
      OBVIOUS
    <2>1. CASE log' = log
      <3>1. ASSUME NEW k \in Keys(log) \cap Key, acked' = acked \cup {k} PROVE Abstract!Next
        BY <2>1, <3>1, AbstractDefs DEF Abstract!Next, Abstract!Report
      <3> QED  BY <2>1, <3>1, AckedSteps
    <2>2. CASE log' # log
      BY <2>2, LogStep, WriteCommits
    <2> QED  BY <2>1, <2>2
  <1> QED  BY <1>1, <1>2, <1>3, <1>4, PTL DEF Spec, ImplementsTaskLog, Abstract!Spec
-----------------------------------------------------------------------------
(* No revision is ever missing.                                            *)

\* The steps a client takes itself.
OwnStep(d) ==
    \/ \E a \in Commands, x \in 0..(Len(log) + Ahead) : Call(d, a, x) \/ Create(d, a, x)
    \/ Enter(d) \/ Evaluate(d) \/ LeaveGuard(d) \/ Load(d) \/ Check(d)
    \/ WriteEvent(d) \/ Materialize(d) \/ Index(d) \/ Leave(d)
    \/ RebuildYaml(d) \/ FinishRebuild(d) \/ Crash(d) \/ \E e \in Entity : RebuildFile(d, e)

\* Nobody else changes what a client is at.
LEMMA OthersKeep ==
    ASSUME Typed, [Next]_vars, NEW d \in Client, ~OwnStep(d)
    PROVE  UNCHANGED <<pc[d], ask[d], expected[d], seen[d], todo[d]>>
  <1> DEFINE Kept == UNCHANGED <<pc[d], ask[d], expected[d], seen[d], todo[d]>>
  <1> USE StoreParameters DEF Typed, TypeOK, Process, Goto, Replay, disk, call, view
  <1>1. ASSUME NEW c \in Client, c # d, \/ Enter(c) \/ Evaluate(c) \/ LeaveGuard(c) \/ Load(c)
                                        \/ Check(c)
        PROVE  Kept
    BY <1>1 DEF Enter, Evaluate, LeaveGuard, Load, Check
  <1>2. ASSUME NEW c \in Client, c # d, \/ WriteEvent(c) \/ Materialize(c) \/ Index(c) \/ Leave(c)
        PROVE  Kept
    BY <1>2 DEF WriteEvent, Materialize, Index, Leave
  <1>3. ASSUME NEW c \in Client, c # d, NEW a \in Commands, NEW x \in 0..(Len(log) + Ahead),
               Call(c, a, x) \/ Create(c, a, x)
        PROVE  Kept
    BY <1>3 DEF Call, Create
  <1>4. ASSUME NEW p \in Process, p # d, \/ RebuildYaml(p) \/ FinishRebuild(p) \/ Crash(p)
                                         \/ \E e \in Entity : RebuildFile(p, e)
                                         \/ p \in Rebuilder /\ StartRebuild(p)
        PROVE  Kept
    BY <1>4 DEF RebuildYaml, FinishRebuild, Crash, RebuildFile, StartRebuild
  <1>5. ASSUME Reclaim \/ Lapse \/ UNCHANGED vars PROVE Kept
    BY <1>5 DEF Reclaim, Lapse, vars
  <1>6. \A r \in Rebuilder : r # d
    OBVIOUS
  <1>7. \A c \in Client, a \in Commands : Retry(c, a) => Kept
    BY DEF Retry
  <1> HIDE DEF Kept, Typed, TypeOK
  <1>8. ASSUME NEW c \in Client, \E a \in Commands : Retry(c, a) \/ \E x \in 0..(Len(log) + Ahead) : Call(c, a, x) \/ Create(c, a, x)
        PROVE  Kept
    BY <1>3, <1>7, <1>8 DEF OwnStep
  <1>9. ASSUME NEW c \in Client, \/ Enter(c) \/ Evaluate(c) \/ LeaveGuard(c) \/ Load(c) \/ Check(c)
                                 \/ WriteEvent(c) \/ Materialize(c) \/ Index(c) \/ Leave(c)
        PROVE  Kept
    BY <1>1, <1>2, <1>9 DEF OwnStep
  <1>10. ASSUME NEW r \in Rebuilder, StartRebuild(r) PROVE Kept
    BY <1>4, <1>6, <1>10 DEF Process
  <1>11. ASSUME NEW p \in Process, \/ RebuildYaml(p) \/ FinishRebuild(p) \/ Crash(p)
                                   \/ \E e \in Entity : RebuildFile(p, e)
         PROVE  Kept
    BY <1>4, <1>11 DEF OwnStep
  <1> QED  BY <1>5, <1>8, <1>9, <1>10, <1>11 DEF Next, Kept

\* The event a client is about to write has a predecessor, unless it is the first.
Grounded ==
    \A c \in Client : pc[c] = "write" =>
        seen[c] = 0 \/ \E j \in DOMAIN log : log[j].new = seen[c]

NoGap == Typed /\ Grounded /\ RevisionsHaveNoGap

LEMMA NoGapStep == ASSUME NoGap, [Next]_vars PROVE NoGap'
  <1>1. Typed /\ Typed' /\ log \in Seq(Event) /\ Len(log) \in Nat
    BY TypedStep DEF NoGap, Typed, TypeOK
  <1>2. \A i \in DOMAIN log : i \in DOMAIN log' /\ log'[i] = log[i]
    <2>1. CASE \A c \in Client : ~WriteEvent(c)
      BY <2>1, LogSteps
    <2>2. CASE \E c \in Client : WriteEvent(c)
      <3> PICK c \in Client : WriteEvent(c)
        BY <2>2
      <3>1. log' = Append(log, NewEvent(c)) /\ NewEvent(c) \in Event
        BY <1>1, NewEventTyped DEF WriteEvent, Typed
      <3> QED  BY <1>1, <3>1, AppendEvent
    <2> QED  BY <2>1, <2>2
  <1>3. Grounded'
    <2> SUFFICES ASSUME NEW d \in Client, pc'[d] = "write"
                 PROVE  seen'[d] = 0 \/ \E j \in DOMAIN log' : log'[j].new = seen'[d]
      BY DEF Grounded
    <2>1. CASE Check(d)
      <3>1. seen'[d] = Len(log) /\ log' = log /\ Contiguous(log)
        BY <1>1, <2>1 DEF Check, Accepted, Replayable, Replay, Goto, Typed, TypeOK, Process, disk
      <3>2. Len(log) = 0 \/ (Len(log) \in DOMAIN log /\ log[Len(log)].new = Len(log))
        BY <1>1, <3>1 DEF Contiguous
      <3> QED  BY <3>1, <3>2
    <2>2. CASE ~Check(d)
      <3>1. pc[d] = "write" /\ seen'[d] = seen[d]
        <4>1. ~OwnStep(d)
          BY <1>1, <2>2 DEF OwnStep, Call, Create, Enter, Evaluate, LeaveGuard, Load, WriteEvent, Materialize,
             Index, Leave, RebuildYaml, FinishRebuild, Crash, RebuildFile, Goto, Typed, TypeOK, Process
        <4> QED  BY <1>1, <4>1, OthersKeep
      <3> QED  BY <1>2, <3>1 DEF NoGap, Grounded
    <2> QED  BY <2>1, <2>2
  <1>4. RevisionsHaveNoGap'
    <2>1. CASE \A c \in Client : ~WriteEvent(c)
      BY <2>1, LogSteps DEF NoGap, RevisionsHaveNoGap
    <2>2. CASE \E c \in Client : WriteEvent(c)
      <3> PICK c \in Client : WriteEvent(c)
        BY <2>2
      <3>1. log' = Append(log, NewEvent(c)) /\ NewEvent(c) \in Event
            /\ NewEvent(c).new = seen[c] + 1 /\ pc[c] = "write" /\ seen[c] \in Nat
        BY <1>1, NewEventTyped DEF WriteEvent, Typed, TypeOK, Process, NewRevision
      <3>2. DOMAIN log' = 1..(Len(log) + 1) /\ log'[Len(log) + 1].new = seen[c] + 1
        BY <1>1, <3>1, AppendEvent
      <3>3. seen[c] = 0 \/ \E j \in DOMAIN log' : log'[j].new = seen[c]
        BY <1>2, <3>1 DEF NoGap, Grounded
      <3>4. \A i \in DOMAIN log : log'[i].new = 1 \/ \E j \in DOMAIN log' : log'[j].new = log'[i].new - 1
        BY <1>2 DEF NoGap, RevisionsHaveNoGap
      <3>5. \A i \in DOMAIN log' : i \in DOMAIN log \/ i = Len(log) + 1
        BY <1>1, <3>2
      <3> QED  BY <3>1, <3>2, <3>3, <3>4, <3>5 DEF RevisionsHaveNoGap
    <2> QED  BY <2>1, <2>2
  <1> QED  BY <1>1, <1>3, <1>4 DEF NoGap

\* RevisionsHaveNoGap holds in every reachable state: holders whose leases have lapsed may
\* write a revision twice, but whatever they do, no revision is skipped.
THEOREM NoRevisionSkipped == Spec => []RevisionsHaveNoGap
  <1>1. ASSUME Init PROVE NoGap
    <2>1. log = <<>> /\ pc = [p \in Process |-> "idle"]
      BY <1>1 DEF Init
    <2> QED  BY <1>1, <2>1, TypedInit DEF NoGap, Grounded, RevisionsHaveNoGap, Process
  <1>2. NoGap /\ [Next]_vars => NoGap'
    BY NoGapStep
  <1>3. NoGap => RevisionsHaveNoGap
    BY DEF NoGap
  <1> QED  BY <1>1, <1>2, <1>3, PTL DEF Spec
-----------------------------------------------------------------------------
(* Files only ever show the log.                                           *)

\* What the holder has written is the log's last event.
WrittenLast ==
    \A c \in Client : pc[c] \in {"materialize", "index"} =>
        Len(log) \in DOMAIN log /\ log[Len(log)] = NewEvent(c)

LEMMA WrittenLastStep ==
    ASSUME ~lapsed', Sound, WrittenLast, [Next]_vars PROVE WrittenLast'
  <1>1. Typed /\ Typed' /\ HolderInside /\ HolderInside' /\ log \in Seq(Event)
    BY TypedStep, HolderInsideStep DEF Sound, Typed, TypeOK
  <1>2. SUFFICES ASSUME NEW d \in Client, pc'[d] \in {"materialize", "index"}
                 PROVE  Len(log') \in DOMAIN log' /\ log'[Len(log')] = NewEvent(d)'
    BY DEF WrittenLast
  <1>3. CASE WriteEvent(d)
    <2>1. log' = Append(log, NewEvent(d)) /\ NewEvent(d) \in Event /\ NewEvent(d)' = NewEvent(d)
      BY <1>1, <1>3, NewEventTyped DEF WriteEvent, NewEvent, NewRevision, call, view, Typed
    <2> QED  BY <1>1, <2>1, AppendEvent
  <1>4. CASE Materialize(d)
    BY <1>4 DEF Materialize, WrittenLast, NewEvent, NewRevision, call, view
  <1>5. CASE ~WriteEvent(d) /\ ~Materialize(d)
    <2>1. ~OwnStep(d)
      BY <1>1, <1>2, <1>5 DEF OwnStep, Call, Create, Enter, Evaluate, LeaveGuard, Load, Check, Index,
         Leave, RebuildYaml, FinishRebuild, Crash, RebuildFile, Goto, Typed, TypeOK, Process
    <2>2. pc[d] \in {"materialize", "index"} /\ NewEvent(d)' = NewEvent(d)
      BY <1>1, <1>2, <2>1, OthersKeep DEF NewEvent, NewRevision
    <2>3. lease = d
      BY <1>1, <2>2 DEF HolderInside, Section, InSection
    <2>4. log' = log
      BY <1>5, <2>3, LogStep
    <2> QED  BY <2>2, <2>4 DEF WrittenLast
  <1> QED  BY <1>3, <1>4, <1>5

\* Only Materialize and RebuildFile touch the entity files.
LEMMA FileSteps ==
    ASSUME [Next]_vars, \A c \in Client : ~Materialize(c),
           \A p \in Process, e \in Entity : ~RebuildFile(p, e)
    PROVE  UNCHANGED file
  BY DEF Next, vars, disk, Retry, Call, Create, Enter, Evaluate, LeaveGuard, Load, Check, WriteEvent,
         Index, Leave, StartRebuild, RebuildYaml, FinishRebuild, Crash, Reclaim, Lapse

Projected == Sound /\ WrittenLast /\ ProjectionFromLog

LEMMA ProjectedStep ==
    ASSUME ~lapsed', Ahead = 0, Projected, [Next]_vars PROVE Projected'
  <1>1. Sound /\ Sound' /\ WrittenLast'
    BY SoundStep, WrittenLastStep DEF Projected
  <1>2. Typed /\ HolderExact /\ log \in Seq(Event) /\ Len(log) \in Nat
        /\ file \in [Entity -> Nat]
    BY <1>1 DEF Sound, Typed, TypeOK
  <1>3. \A i \in DOMAIN log : i \in DOMAIN log' /\ log'[i] = log[i]
    BY <1>1, <1>2, LogStep, AppendEvent
  <1> DEFINE Shown(e, r) == r # 0 => r \in DOMAIN log /\ log[r].type = "update" /\ log[r].ent = e
  <1>4. \A e \in Entity : Shown(e, file'[e])
    <2>1. \A e \in Entity : Shown(e, file[e])
      BY DEF Projected, ProjectionFromLog
    <2>2. ASSUME NEW c \in Client, Materialize(c) PROVE \A e \in Entity : Shown(e, file'[e])
      <3>1. ask[c].type = "update" /\ NewRevision(c) = Len(log)
        BY <1>2, <2>2 DEF Materialize, Typed, StepsOfType, HolderExact, NewRevision
      <3>2. Shown(ask[c].ent, NewRevision(c))
        BY <1>2, <2>2, <3>1, NewEventTyped DEF Materialize, Projected, WrittenLast, Typed
      <3>3. \A e \in Entity : file'[e] = IF e = ask[c].ent THEN NewRevision(c) ELSE file[e]
        BY <1>2, <2>2 DEF Materialize
      <3> QED  BY <2>1, <3>2, <3>3
    <2>3. ASSUME NEW p \in Process, NEW x \in Entity, RebuildFile(p, x)
          PROVE  \A e \in Entity : Shown(e, file'[e])
      <3>1. PICK r \in 0..seen[p] : /\ IsSnapshot(log, seen[p], x, r)
                                    /\ file' = IF r = 0 THEN file ELSE [file EXCEPT ![x] = r]
        BY <2>3 DEF RebuildFile
      <3>2. seen[p] \in Nat /\ seen[p] <= Len(log)
        BY <1>1 DEF Sound, Bounded, Typed, TypeOK
      <3>3. Shown(x, r)
        BY <1>2, <3>1, <3>2 DEF IsSnapshot
      <3> QED  BY <1>2, <2>1, <3>1, <3>3
    <2> QED  BY <2>1, <2>2, <2>3, FileSteps
  <1>5. ProjectionFromLog'
    BY <1>1, <1>3, <1>4 DEF Sound, Bounded, ProjectionFromLog
  <1> QED  BY <1>1, <1>5 DEF Projected

LEMMA ProjectedInit == ASSUME Init PROVE Projected
  <1>1. yaml = 0 /\ file = [e \in Entity |-> 0] /\ log = <<>> /\ pc = [p \in Process |-> "idle"]
    BY DEF Init
  <1> QED  BY <1>1, SoundInit DEF Projected, WrittenLast, ProjectionFromLog, Process

\* ProjectionFromLog holds as long as leases are exclusive: whatever crashes, and however
\* rebuilds without the lease overlap with commands, no file shows a change that the
\* log does not contain, nor one of another entity.
THEOREM FilesShowTheLog ==
    ASSUME Ahead = 0 PROVE Spec => [](~lapsed => ProjectionFromLog)
  <1> DEFINE Inv == Typed /\ (~lapsed => Projected)
  <1>1. Init => Inv
    BY ProjectedInit, TypedInit
  <1>2. Inv /\ [Next]_vars => Inv'
    BY TypedStep, LapsedStays, ProjectedStep DEF Typed, TypeOK
  <1>3. Inv => (~lapsed => ProjectionFromLog)
    BY DEF Projected
  <1> QED  BY <1>1, <1>2, <1>3, PTL DEF Spec
-----------------------------------------------------------------------------
(* Without rebuilds beside the commands only the holder writes.            *)

\* A holder is alone in its section.
LEMMA HolderAlone ==
    ASSUME HolderInside, NEW c \in Client, pc[c] \in Section
    PROVE  lease = c /\ \A d \in Client : d # c => pc[d] \notin Section
  BY DEF HolderInside

\* The steps of the holder that write.
Writes(c) ==
    \/ WriteEvent(c) \/ Materialize(c) \/ Index(c)
    \/ RebuildYaml(c) \/ \E e \in Entity : RebuildFile(c, e)

LEMMA DiskSteps ==
    ASSUME Rebuilder = {}, [Next]_vars, \A c \in Client : ~Writes(c)
    PROVE  UNCHANGED disk
  BY DEF Next, vars, Process, Writes, Retry, Call, Create, Enter, Evaluate, LeaveGuard, Load, Check,
         Leave, StartRebuild, FinishRebuild, Crash, Reclaim, Lapse

\* As long as a client is in its section, nobody else writes.
LEMMA OthersOutside ==
    ASSUME Rebuilder = {}, Typed, HolderInside, [Next]_vars, NEW d \in Client, pc[d] \in Section,
           ~Writes(d)
    PROVE  UNCHANGED disk
  <1>1. \A c \in Client : Writes(c) => pc[c] \in Section
    BY DEF Writes, WriteEvent, Materialize, Index, RebuildYaml, RebuildFile, Section, InSection, Rebuilding
  <1> QED  BY <1>1, HolderAlone, DiskSteps

\* A rebuild under the lease has restored the files it no longer lists.
Restoring ==
    \A c \in Client :
        /\ pc[c] \in Rebuilding => seen[c] = Len(log)
        /\ pc[c] = "rebuild" => todo[c] = Entity
        /\ pc[c] = "rebuild_files" =>
              /\ yaml = Len(log)
              /\ \A e \in Entity \ todo[c] : IsSnapshot(log, Len(log), e, file[e])

\* What RebuildFile leaves in the file is the entity's last snapshot: where the log
\* has none, the file was never written.
LEMMA RebuiltFile ==
    ASSUME Projected, NEW p \in Process, seen[p] = Len(log), NEW e \in Entity, RebuildFile(p, e)
    PROVE  /\ IsSnapshot(log, Len(log), e, file'[e])
           /\ \A x \in Entity : x # e => file'[x] = file[x]
  <1>1. PICK r \in 0..seen[p] : /\ IsSnapshot(log, seen[p], e, r)
                                /\ file' = IF r = 0 THEN file ELSE [file EXCEPT ![e] = r]
    BY DEF RebuildFile
  <1>2. file \in [Entity -> Nat] /\ log \in Seq(Event)
    BY DEF Projected, Sound, Typed, TypeOK
  <1>3. CASE r # 0
    BY <1>1, <1>2, <1>3
  <1>4. CASE r = 0
    <2>1. \A i \in DOMAIN log : ~(log[i].type = "update" /\ log[i].ent = e)
      BY <1>1, <1>2, <1>4 DEF IsSnapshot
    <2>2. file[e] = 0
      BY <2>1 DEF Projected, ProjectionFromLog
    <2> QED  BY <1>1, <1>4, <2>2
  <1> QED  BY <1>3, <1>4

LEMMA RestoringStep ==
    ASSUME ~lapsed', Rebuilder = {}, Projected, Restoring, [Next]_vars PROVE Restoring'
  <1>1. Typed /\ HolderInside /\ HolderInside' /\ log \in Seq(Event)
    BY HolderInsideStep DEF Projected, Sound, Typed, TypeOK
  <1>2. SUFFICES ASSUME NEW d \in Client, pc'[d] \in Rebuilding
                 PROVE  /\ seen'[d] = Len(log')
                        /\ pc'[d] = "rebuild" => todo'[d] = Entity
                        /\ pc'[d] = "rebuild_files" =>
                              /\ yaml' = Len(log')
                              /\ \A e \in Entity \ todo'[d] : IsSnapshot(log', Len(log'), e, file'[e])
    BY DEF Restoring, Rebuilding
  <1>3. CASE Check(d)
    BY <1>1, <1>2, <1>3 DEF Check, Replay, Goto, Typed, TypeOK, Process, disk, Rebuilding
  <1>4. CASE RebuildYaml(d)
    <2>1. /\ log' = log /\ file' = file /\ todo' = todo /\ seen' = seen
          /\ yaml' = seen[d] /\ seen[d] = Len(log) /\ todo[d] = Entity
          /\ pc'[d] = "rebuild_files"
      BY <1>1, <1>4 DEF RebuildYaml, view, Restoring, Rebuilding, Goto, Typed, TypeOK, Process
    <2> QED  BY <2>1
  <1>5. ASSUME NEW e \in Entity, RebuildFile(d, e)
        PROVE  /\ seen'[d] = Len(log') /\ pc'[d] = "rebuild_files" /\ yaml' = Len(log')
               /\ \A x \in Entity \ todo'[d] : IsSnapshot(log', Len(log'), x, file'[x])
    <2>1. /\ log' = log /\ yaml' = yaml /\ seen' = seen /\ pc' = pc
          /\ pc[d] = "rebuild_files" /\ todo'[d] = todo[d] \ {e}
      BY <1>1, <1>5 DEF RebuildFile, Typed, TypeOK, Process
    <2>2. /\ seen[d] = Len(log) /\ yaml = Len(log)
          /\ \A x \in Entity \ todo[d] : IsSnapshot(log, Len(log), x, file[x])
      BY <2>1 DEF Restoring, Rebuilding
    <2>3. /\ IsSnapshot(log, Len(log), e, file'[e])
          /\ \A x \in Entity : x # e => file'[x] = file[x]
      BY <1>5, <2>2, RebuiltFile DEF Process
    <2> QED  BY <2>1, <2>2, <2>3
  <1>6. CASE ~Check(d) /\ ~RebuildYaml(d) /\ ~\E e \in Entity : RebuildFile(d, e)
    <2>1. ~OwnStep(d)
      BY <1>1, <1>2, <1>6 DEF OwnStep, Call, Create, Enter, Evaluate, LeaveGuard, Load, WriteEvent,
         Materialize, Index, Leave, FinishRebuild, Crash, Goto, Typed, TypeOK, Process, Rebuilding
    <2>2. pc[d] \in Rebuilding /\ pc'[d] = pc[d] /\ seen'[d] = seen[d] /\ todo'[d] = todo[d]
      BY <1>1, <1>2, <2>1, OthersKeep
    <2>3. log' = log /\ yaml' = yaml /\ file' = file
      <3>1. ~Writes(d)
        BY <1>6, <2>2 DEF Writes, Rebuilding, WriteEvent, Materialize, Index
      <3> QED  BY <1>1, <2>2, <3>1, OthersOutside DEF disk, Section
    <2> QED  BY <2>2, <2>3 DEF Restoring
  <1> QED  BY <1>3, <1>4, <1>5, <1>6

\* Reading the log again and adding the event gives the log itself, so that the replay
\* before task.yaml does not raise.
LEMMA IndexReplays ==
    ASSUME Projected, NEW c \in Client, pc[c] = "index"
    PROVE  Append(SubSeq(log, 1, seen[c]), NewEvent(c)) = log /\ NewRevision(c) = Len(log)
  <1>1. /\ log \in Seq(Event) /\ seen[c] \in Nat /\ seen[c] + 1 = Len(log)
        /\ log[Len(log)] = NewEvent(c) /\ NewEvent(c) \in Event
    BY NewEventTyped DEF Projected, Sound, Typed, TypeOK, HolderExact, WrittenLast, Process
  <1> QED  BY <1>1, FrontAndLast DEF NewRevision

\* The command's event, whoever wrote it, is shown by the files.
Shown(c) ==
    /\ yaml = Len(log)
    /\ \A i \in DOMAIN log : log[i].type = "update" /\ log[i].key = ask[c].key =>
          IsSnapshot(log, Len(log), log[i].ent, file[log[i].ent])

\* ... before it is reported, and its entity already before task.yaml is written.
ShownInTime ==
    \A c \in Client :
        /\ pc[c] = "index" /\ ask[c].type = "update" => file[ask[c].ent] = Len(log)
        /\ pc[c] = "done" => Shown(c)

\* The event just written is the only one with its key.
LEMMA WrittenIsShown ==
    ASSUME Projected, NEW c \in Client, pc[c] = "index", yaml' = Len(log),
           ask[c].type = "update" => file[ask[c].ent] = Len(log),
           UNCHANGED <<log, file, ask>>
    PROVE  Shown(c)'
  <1>1. /\ log \in Seq(Event) /\ Len(log) \in DOMAIN log /\ KeysUnique(log)
        /\ log[Len(log)].key = ask[c].key /\ log[Len(log)].type = ask[c].type
        /\ ask[c].type = "update" => log[Len(log)].ent = ask[c].ent
    BY NewEventTyped
    DEF Projected, WrittenLast, Sound, LogReplayable, Replayable, Typed, TypeOK
  <1>2. SUFFICES ASSUME NEW i \in DOMAIN log, log[i].type = "update", log[i].key = ask[c].key
                 PROVE  IsSnapshot(log, Len(log), log[i].ent, file[log[i].ent])
    BY DEF Shown
  <1>3. i = Len(log)
    BY <1>1, <1>2 DEF KeysUnique
  <1> QED  BY <1>1, <1>2, <1>3, SnapshotLast

LEMMA ShownInTimeStep ==
    ASSUME ~lapsed', Rebuilder = {}, Projected, Restoring, ShownInTime, [Next]_vars
    PROVE  ShownInTime'
  <1>1. Typed /\ Typed' /\ HolderInside /\ HolderExact /\ log \in Seq(Event)
    BY TypedStep DEF Projected, Sound, Typed, TypeOK
  <1>2. SUFFICES ASSUME NEW d \in Client, pc'[d] \in {"index", "done"}
                 PROVE  /\ pc'[d] = "index" /\ ask'[d].type = "update" =>
                              file'[ask'[d].ent] = Len(log')
                        /\ pc'[d] = "done" => Shown(d)'
    BY DEF ShownInTime
  <1>3. CASE WriteEvent(d)
    BY <1>1, <1>2, <1>3 DEF WriteEvent, Goto, call, Typed, TypeOK, Process
  <1>4. CASE Materialize(d)
    <2>1. ask' = ask /\ log' = log /\ pc'[d] = "index" /\ file' = [file EXCEPT ![ask[d].ent] = Len(log)]
      BY <1>1, <1>4 DEF Materialize, NewRevision, HolderExact, Goto, call, Typed, TypeOK, Process
    <2>2. ask[d].type = "update" => ask[d].ent \in Entity
      BY <1>1, EventTyped DEF Typed, TypeOK
    <2> QED  BY <1>1, <2>1, <2>2 DEF Typed, TypeOK
  <1>5. CASE Index(d)
    <2>1. /\ pc[d] = "index" /\ pc'[d] = "done" /\ UNCHANGED <<log, file, ask>>
          /\ yaml' = NewRevision(d)
      BY <1>1, <1>2, <1>5 DEF Index, Goto, call, Typed, TypeOK, Process
    <2>2. yaml' = Len(log)
      BY <1>1, <2>1 DEF NewRevision, HolderExact
    <2>3. ask[d].type = "update" => file[ask[d].ent] = Len(log)
      BY <2>1 DEF ShownInTime
    <2> QED  BY <2>1, <2>2, <2>3, WrittenIsShown
  <1>6. CASE FinishRebuild(d)
    <2>1. /\ UNCHANGED <<log, yaml, file, ask>> /\ pc[d] = "rebuild_files" /\ todo[d] = {}
          /\ pc'[d] = "done"
      BY <1>1, <1>6 DEF FinishRebuild, disk, call, Goto, Typed, TypeOK, Process
    <2>2. yaml = Len(log) /\ \A e \in Entity : IsSnapshot(log, Len(log), e, file[e])
      BY <2>1 DEF Restoring
    <2>3. \A i \in DOMAIN log : log[i].type = "update" => log[i].ent \in Entity
      BY <1>1, EventTyped
    <2> QED  BY <2>1, <2>2, <2>3 DEF Shown
  <1>7. CASE ~WriteEvent(d) /\ ~Materialize(d) /\ ~Index(d) /\ ~FinishRebuild(d)
    <2>1. ~OwnStep(d)
      BY <1>1, <1>2, <1>7 DEF OwnStep, Call, Create, Enter, Evaluate, LeaveGuard, Load, Check,
         Leave, RebuildYaml, RebuildFile, Crash, Goto, Typed, TypeOK, Process
    <2>2. pc'[d] = pc[d] /\ ask'[d] = ask[d]
      BY <1>1, <2>1, OthersKeep
    <2>3. ~Writes(d)
      BY <2>1 DEF OwnStep, Writes
    <2>4. log' = log /\ yaml' = yaml /\ file' = file
      BY <1>1, <1>2, <2>2, <2>3, OthersOutside DEF disk, Section, InSection
    <2> QED  BY <1>2, <2>2, <2>4 DEF ShownInTime, Shown
  <1> QED  BY <1>3, <1>4, <1>5, <1>6, <1>7

\* AnswerIsOnFile: if leases are exclusive and nobody rebuilds without one, what
\* append_event reports is shown by task.yaml and the entity's file when the lease is left,
\* wherever the commands before it died; also when it reports an event it found.
THEOREM AnswersAreOnFile ==
    ASSUME ~Lapses, Ahead = 0, Rebuilder = {} PROVE Spec => []AnswerIsOnFile
  <1> DEFINE Inv == ~lapsed /\ Projected /\ Restoring /\ ShownInTime
  <1>1. ASSUME Init PROVE Inv
    <2>1. pc = [p \in Process |-> "idle"]
      BY <1>1 DEF Init
    <2>2. ~lapsed
      BY <1>1 DEF Init
    <2> QED  BY <1>1, <2>1, <2>2, ProjectedInit DEF Restoring, ShownInTime, Rebuilding, Process
  <1>2. Inv /\ [Next]_vars => Inv'
    BY LapsedStays, ProjectedStep, RestoringStep, ShownInTimeStep DEF Projected, Sound, Typed, TypeOK
  <1>3. Inv => AnswerIsOnFile
    BY DEF ShownInTime, Shown, AnswerIsOnFile
  <1> QED  BY <1>1, <1>2, <1>3, PTL DEF Spec
-----------------------------------------------------------------------------
(* No update is lost.                                                      *)
(*                                                                         *)
(* Between the event and task.yaml the projection is behind the log, but   *)
(* by exactly one event, and nobody can have been told the new revision:   *)
(* a command that read before it carries a smaller expected revision, and  *)
(* is turned away.                                                         *)

Pending(c) == pc[c] \in {"materialize", "index"}

YamlCurrent ==
    /\ (\A c \in Client : ~Pending(c)) => yaml = Len(log)
    /\ (\E c \in Client : Pending(c)) =>
          yaml < Len(log) /\ \A d \in Client : expected[d] < Len(log)

FilesCurrent ==
    \A e \in Entity : (\A c \in Client : pc[c] = "materialize" => ask[c].ent # e) =>
        IsSnapshot(log, Len(log), e, file[e])

\* What an update was computed from is current for as long as its expected revision is.
BasesCurrent ==
    \A c \in Client :
        /\ pc[c] = "write" => expected[c] = Len(log)
        /\ pc[c] \in {"append", "check", "write"} /\ ask[c].type = "update"
             /\ expected[c] = Len(log) => IsSnapshot(log, Len(log), ask[c].ent, ask[c].base)

Current == Projected /\ Restoring /\ YamlCurrent /\ FilesCurrent /\ BasesCurrent

\* The other steps leave the disk and the writers where they are.
LEMMA QuietSteps ==
    ASSUME ~Crashes, Rebuilder = {}, Typed, [Next]_vars, \A c \in Client : ~Writes(c)
    PROVE  /\ UNCHANGED disk
           /\ \A c \in Client : Pending(c)' <=> Pending(c)
           /\ \A c \in Client : Pending(c) => pc'[c] = pc[c] /\ ask'[c] = ask[c]
  <1> SUFFICES ASSUME NEW c \in Client
               PROVE  /\ Pending(c)' <=> Pending(c)
                      /\ Pending(c) => pc'[c] = pc[c] /\ ask'[c] = ask[c]
    BY DiskSteps
  <1>1. CASE OwnStep(c)
    BY <1>1 DEF OwnStep, Writes, Pending, Call, Create, Enter, Evaluate, LeaveGuard, Load, Check, Leave,
       FinishRebuild, Crash, Goto, Typed, TypeOK, Process
  <1>2. CASE ~OwnStep(c)
    BY <1>2, OthersKeep DEF Pending
  <1> QED  BY <1>1, <1>2

\* An expected revision comes from a call, and no call knows more than task.yaml
\* while somebody writes.
LEMMA ExpectedSteps ==
    ASSUME Ahead = 0, Typed, HolderInside, [Next]_vars, NEW d \in Client
    PROVE  \/ expected'[d] = expected[d]
           \/ (\E c \in Client : Pending(c)) => expected'[d] <= yaml
  <1>1. CASE \E a \in Commands, x \in 0..(Len(log) + Ahead) : Call(d, a, x) \/ Create(d, a, x)
    <2> PICK a \in Commands, x \in 0..(Len(log) + Ahead) : Call(d, a, x) \/ Create(d, a, x)
      BY <1>1
    <2>1. expected'[d] = x /\ x <= Known + Ahead /\ x \in Nat /\ yaml \in Nat
      BY StoreParameters DEF Call, Create, Typed, TypeOK
    <2>2. (\E c \in Client : Pending(c)) => lease # Free
      BY StoreParameters DEF HolderInside, Pending, Section, InSection
    <2> QED  BY <2>1, <2>2 DEF Known
  <1>2. CASE OwnStep(d) /\ ~\E a \in Commands, x \in 0..(Len(log) + Ahead) : Call(d, a, x) \/ Create(d, a, x)
    BY <1>2 DEF OwnStep, Enter, Evaluate, LeaveGuard, Load, Check, WriteEvent, Materialize, Index,
       Leave, RebuildYaml, FinishRebuild, Crash, RebuildFile, call
  <1>3. CASE ~OwnStep(d)
    BY <1>3, OthersKeep
  <1> QED  BY <1>1, <1>2, <1>3

LEMMA YamlCurrentStep ==
    ASSUME ~lapsed', ~Crashes, Ahead = 0, Rebuilder = {}, Current, [Next]_vars
    PROVE  YamlCurrent'
  <1>1. /\ Typed /\ HolderInside /\ Bounded /\ HolderExact /\ Projected /\ YamlCurrent /\ Restoring
        /\ log \in Seq(Event) /\ Len(log) \in Nat /\ yaml \in Nat
        /\ expected \in [Client -> Nat] /\ pc \in [Process -> Steps]
    BY DEF Current, Projected, Sound, Typed, TypeOK
  <1>2. ASSUME NEW c \in Client, WriteEvent(c) PROVE YamlCurrent'
    <2>1. Pending(c)' /\ yaml' = yaml /\ expected' = expected
      BY <1>1, <1>2 DEF WriteEvent, Pending, Goto, call, Process
    <2>2. Len(log') = Len(log) + 1
      BY <1>1, <1>2, NewEventTyped, AppendEvent DEF WriteEvent, Typed
    <2> QED  BY <1>1, <2>1, <2>2 DEF Bounded, YamlCurrent
  <1>3. ASSUME NEW c \in Client, Materialize(c) PROVE YamlCurrent'
    <2>1. Pending(c)' /\ Pending(c) /\ yaml' = yaml /\ expected' = expected /\ log' = log
      BY <1>1, <1>3 DEF Materialize, Pending, Goto, call, Process
    <2> QED  BY <1>1, <2>1 DEF YamlCurrent
  <1>4. ASSUME NEW c \in Client, Index(c) PROVE YamlCurrent'
    <2>1. pc[c] = "index" /\ log' = log /\ yaml' = Len(log) /\ pc' = [pc EXCEPT ![c] = "done"]
      BY <1>1, <1>4, IndexReplays DEF Index, Goto, Projected, Sound, LogReplayable
    <2>2. \A d \in Client : ~Pending(d)'
      BY <1>1, <2>1, HolderAlone DEF Pending, Section, InSection, Process
    <2> QED  BY <2>1, <2>2 DEF YamlCurrent
  <1>5. ASSUME NEW c \in Client, RebuildYaml(c) PROVE YamlCurrent'
    <2>1. pc[c] = "rebuild" /\ log' = log /\ yaml' = Len(log) /\ pc' = [pc EXCEPT ![c] = "rebuild_files"]
      BY <1>1, <1>5 DEF RebuildYaml, Goto, Restoring, Rebuilding
    <2>2. \A d \in Client : ~Pending(d)'
      BY <1>1, <2>1, HolderAlone DEF Pending, Section, InSection, Rebuilding, Process
    <2> QED  BY <2>1, <2>2 DEF YamlCurrent
  <1>6. ASSUME NEW c \in Client, NEW e \in Entity, RebuildFile(c, e) PROVE YamlCurrent'
    <2>1. UNCHANGED <<log, yaml, pc, expected>>
      BY <1>6 DEF RebuildFile, call
    <2> QED  BY <1>1, <2>1 DEF YamlCurrent, Pending
  <1>7. CASE \A c \in Client : ~Writes(c)
    <2>1. UNCHANGED <<log, yaml>> /\ \A c \in Client : Pending(c)' <=> Pending(c)
      BY <1>1, <1>7, QuietSteps DEF disk
    <2>2. (\E c \in Client : Pending(c)) => \A d \in Client : expected'[d] < Len(log)
      <3> SUFFICES ASSUME \E c \in Client : Pending(c), NEW d \in Client
                   PROVE  expected'[d] < Len(log)
        OBVIOUS
      <3>1. expected'[d] = expected[d] \/ expected'[d] <= yaml
        BY <1>1, ExpectedSteps
      <3>2. expected'[d] \in Nat
        BY <1>1, TypedStep DEF Typed, TypeOK
      <3> QED  BY <1>1, <3>1, <3>2 DEF YamlCurrent
    <2> QED  BY <1>1, <2>1, <2>2 DEF YamlCurrent
  <1> QED  BY <1>2, <1>3, <1>4, <1>5, <1>6, <1>7 DEF Writes
LEMMA FilesCurrentStep ==
    ASSUME ~lapsed', ~Crashes, Ahead = 0, Rebuilder = {}, Current, [Next]_vars
    PROVE  FilesCurrent'
  <1>1. /\ Typed /\ HolderInside /\ HolderExact /\ Projected /\ FilesCurrent /\ WrittenLast
        /\ log \in Seq(Event) /\ Len(log) \in Nat
        /\ pc \in [Process -> Steps] /\ file \in [Entity -> Nat]
    BY DEF Current, Projected, Sound, Typed, TypeOK
  <1>2. SUFFICES ASSUME NEW e \in Entity,
                        \A c \in Client : pc'[c] = "materialize" => ask'[c].ent # e
                 PROVE  IsSnapshot(log', Len(log'), e, file'[e])
    BY DEF FilesCurrent
  <1> DEFINE Settled == \A c \in Client : pc[c] = "materialize" => ask[c].ent # e
  <1>3. Settled => IsSnapshot(log, Len(log), e, file[e])
    BY <1>1 DEF FilesCurrent
  <1>4. ASSUME NEW c \in Client, WriteEvent(c)
        PROVE  IsSnapshot(log', Len(log'), e, file'[e])
    <2>1. /\ log' = Append(log, NewEvent(c)) /\ Len(log') = Len(log) + 1
          /\ NewEvent(c) \in Event /\ NewEvent(c).type = ask[c].type
          /\ ask[c].type = "update" => NewEvent(c).ent = ask[c].ent
      BY <1>1, <1>4, NewEventTyped, AppendEvent DEF WriteEvent, Typed
    <2>2. file' = file /\ ask' = ask /\ pc[c] = "write"
          /\ pc'[c] = IF ask[c].type = "update" THEN "materialize" ELSE "index"
      BY <1>1, <1>4 DEF WriteEvent, Goto, call, Process
    <2>3. Settled
      BY <1>1, <2>2, HolderAlone DEF Section, InSection
    <2>4. ~(NewEvent(c).type = "update" /\ NewEvent(c).ent = e)
      BY <1>2, <2>1, <2>2
    <2>5. file[e] \in Nat
      BY <1>1
    <2> QED  BY <1>1, <1>3, <2>1, <2>2, <2>3, <2>4, <2>5, SnapshotKept
  <1>5. ASSUME NEW c \in Client, Materialize(c)
        PROVE  IsSnapshot(log', Len(log'), e, file'[e])
    <2>1. /\ pc[c] = "materialize" /\ log' = log /\ ask[c].type = "update" /\ ask[c].ent \in Entity
          /\ file' = [file EXCEPT ![ask[c].ent] = Len(log)]
      BY <1>1, <1>5, EventTyped
      DEF Materialize, NewRevision, HolderExact, Typed, TypeOK, StepsOfType
    <2>2. \A d \in Client : d # c => pc[d] # "materialize"
      BY <1>1, <2>1, HolderAlone DEF Section, InSection
    <2>3. CASE ask[c].ent = e
      <3>1. /\ Len(log) \in DOMAIN log
            /\ log[Len(log)].type = "update" /\ log[Len(log)].ent = e
        BY <1>1, <2>1, <2>3, NewEventTyped DEF WrittenLast, Typed
      <3> QED  BY <1>1, <2>1, <2>3, <3>1, SnapshotLast
    <2>4. CASE ask[c].ent # e
      BY <1>1, <1>3, <2>1, <2>2, <2>4
    <2> QED  BY <2>3, <2>4
  <1>6. ASSUME NEW c \in Client, Index(c) \/ RebuildYaml(c)
        PROVE  IsSnapshot(log', Len(log'), e, file'[e])
    <2>1. log' = log /\ file' = file /\ pc[c] \in {"index", "rebuild"}
      BY <1>6 DEF Index, RebuildYaml
    <2>2. Settled
      BY <1>1, <2>1, HolderAlone DEF Section, InSection, Rebuilding
    <2> QED  BY <1>3, <2>1, <2>2
  <1>7. ASSUME NEW c \in Client, NEW x \in Entity, RebuildFile(c, x)
        PROVE  IsSnapshot(log', Len(log'), e, file'[e])
    <2>1. log' = log /\ pc[c] = "rebuild_files" /\ seen[c] = Len(log)
      BY <1>7 DEF RebuildFile, Current, Restoring, Rebuilding
    <2>2. Settled
      BY <1>1, <2>1, HolderAlone DEF Section, InSection, Rebuilding
    <2>3. /\ IsSnapshot(log, Len(log), x, file'[x])
          /\ \A y \in Entity : y # x => file'[y] = file[y]
      BY <1>1, <1>7, <2>1, RebuiltFile DEF Process
    <2> QED  BY <1>3, <2>1, <2>2, <2>3
  <1>8. CASE \A c \in Client : ~Writes(c)
    <2>1. log' = log /\ file' = file
      BY <1>1, <1>8, QuietSteps DEF disk
    <2>2. Settled
      BY <1>1, <1>2, <1>8, QuietSteps DEF Pending
    <2> QED  BY <1>3, <2>1, <2>2
  <1> QED  BY <1>4, <1>5, <1>6, <1>7, <1>8 DEF Writes

LEMMA BasesCurrentStep ==
    ASSUME ~lapsed', ~Crashes, Ahead = 0, Rebuilder = {}, Current, [Next]_vars
    PROVE  BasesCurrent'
  <1>1. /\ Typed /\ Sound /\ Bounded /\ Projected /\ YamlCurrent /\ FilesCurrent /\ BasesCurrent
        /\ log \in Seq(Event) /\ Len(log) \in Nat
        /\ pc \in [Process -> Steps] /\ file \in [Entity -> Nat]
        /\ ask \in [Client -> Event] /\ expected \in [Client -> Nat]
    BY DEF Current, Projected, Sound, Typed, TypeOK
  <1> DEFINE Based(d) ==
        /\ pc'[d] = "write" => expected'[d] = Len(log')
        /\ ask'[d].type = "update" /\ expected'[d] = Len(log') =>
              IsSnapshot(log', Len(log'), ask'[d].ent, ask'[d].base)
  <1>2. SUFFICES ASSUME NEW d \in Client, pc'[d] \in {"append", "check", "write"}
                 PROVE  Based(d)
    BY DEF BasesCurrent
  <1>3. CASE Load(d)
    <2>1. /\ log' = log /\ expected' = expected /\ pc'[d] = "append" /\ ask[d].type = "update"
          /\ ask[d].ent \in Entity /\ ask' = [ask EXCEPT ![d].base = file[ask[d].ent]]
      BY <1>1, <1>2, <1>3, EventTyped DEF Load, Goto, disk, Typed, StepsOfType, Process
    <2>2. ask'[d].ent = ask[d].ent /\ ask'[d].base = file[ask[d].ent]
      BY <1>1, <2>1, Rebased
    <2>3. expected[d] = Len(log) => IsSnapshot(log, Len(log), ask[d].ent, file[ask[d].ent])
      <3> SUFFICES ASSUME expected[d] = Len(log)
                   PROVE  IsSnapshot(log, Len(log), ask[d].ent, file[ask[d].ent])
        OBVIOUS
      <3>1. \A c \in Client : ~Pending(c)
        BY <1>1 DEF YamlCurrent
      <3> QED  BY <1>1, <2>1, <3>1 DEF FilesCurrent, Pending
    <2> QED  BY <2>1, <2>2, <2>3
  <1>4. CASE LeaveGuard(d)
    <2>1. ask' = ask /\ ask[d].type = "transition" /\ pc'[d] = "append"
      BY <1>1, <1>4 DEF LeaveGuard, call, Typed, StepsOfType, Goto, Process
    <2> QED  BY <2>1
  <1>5. CASE Enter(d)
    <2>1. log' = log /\ ask' = ask /\ expected' = expected /\ pc[d] = "append" /\ pc'[d] = "check"
      BY <1>1, <1>2, <1>5 DEF Enter, disk, call, Goto, Process
    <2> QED  BY <1>1, <2>1 DEF BasesCurrent
  <1>6. CASE Check(d)
    <2>1. /\ log' = log /\ ask' = ask /\ expected' = expected /\ pc[d] = "check"
          /\ pc'[d] = "write" /\ expected[d] = Len(log)
      BY <1>1, <1>2, <1>6 DEF Check, Accepted, disk, call, Goto, Process
    <2> QED  BY <1>1, <2>1 DEF BasesCurrent
  <1>8. ASSUME NEW a \in Commands, NEW x, Create(d, a, x) PROVE Based(d)
    <2>1. /\ log' = log /\ ask'[d] = a /\ pc'[d] = "append" /\ a.base = 0
          /\ \A i \in DOMAIN log : ~(log[i].type = "update" /\ log[i].ent = a.ent)
      BY <1>1, <1>8 DEF Create, Fresh, Goto, disk, Process, Commands, NewTransition, NewUpdate
    <2>2. IsSnapshot(log, Len(log), a.ent, 0)
      BY <1>1, <2>1 DEF IsSnapshot
    <2> QED  BY <2>1, <2>2
  <1>7. CASE /\ ~Load(d) /\ ~LeaveGuard(d) /\ ~Enter(d) /\ ~Check(d)
             /\ \A a \in Commands, x \in 0..(Len(log) + Ahead) : ~Create(d, a, x)
    <2>1. ~OwnStep(d)
      BY <1>1, <1>2, <1>7 DEF OwnStep, Call, Create, Evaluate, WriteEvent, Materialize, Index, Leave,
         RebuildYaml, FinishRebuild, Crash, RebuildFile, Goto, Process
    <2>2. pc'[d] = pc[d] /\ ask'[d] = ask[d] /\ expected'[d] = expected[d]
      BY <1>1, <2>1, OthersKeep
    <2>3. CASE log' = log
      BY <1>1, <1>2, <2>2, <2>3 DEF BasesCurrent
    <2>4. CASE log' # log
      <3>1. PICK c \in Client : WriteEvent(c) /\ lease = c /\ Len(log') = Len(log) + 1
        BY <1>1, <2>4, LogStep
      <3>2. expected'[d] # Len(log')
        BY <1>1, <2>2, <3>1 DEF Bounded
      <3>3. pc'[d] # "write"
        <4>1. c # d
          BY <1>1, <1>2, <3>1 DEF WriteEvent, Goto, Process
        <4> QED  BY <1>1, <2>2, <3>1, <4>1 DEF Sound, HolderInside, Section, InSection
      <3> QED  BY <3>2, <3>3
    <2> QED  BY <2>3, <2>4
  <1> QED  BY <1>3, <1>4, <1>5, <1>6, <1>7, <1>8

LEMMA CurrentStep ==
    ASSUME ~lapsed', ~Crashes, Ahead = 0, Rebuilder = {}, Current, [Next]_vars
    PROVE  Current'
  <1>1. Projected' /\ Restoring'
    BY ProjectedStep, RestoringStep DEF Current
  <1> QED  BY <1>1, YamlCurrentStep, FilesCurrentStep, BasesCurrentStep DEF Current

\* Every snapshot of the log was computed from the one before it.
BasedOnLast ==
    \A i \in DOMAIN log :
        log[i].type = "update" => IsSnapshot(log, i - 1, log[i].ent, log[i].base)

LEMMA BasedOnLastStep == ASSUME Current, BasedOnLast, [Next]_vars PROVE BasedOnLast'
  <1>1. Sound /\ Typed /\ BasesCurrent /\ log \in Seq(Event) /\ Len(log) \in Nat
    BY DEF Current, Projected, Sound, Typed, TypeOK
  <1>2. CASE log' = log
    BY <1>2 DEF BasedOnLast
  <1>3. ASSUME NEW c \in Client, WriteEvent(c) PROVE BasedOnLast'
    <2> DEFINE e == NewEvent(c)
    <2>1. /\ log' = Append(log, e) /\ e \in Event /\ pc[c] = "write"
          /\ e.type = ask[c].type
          /\ ask[c].type = "update" => e.ent = ask[c].ent /\ e.base = ask[c].base
      BY <1>1, <1>3, NewEventTyped DEF WriteEvent, Typed
    <2>2. e.type = "update" => IsSnapshot(log, Len(log), e.ent, e.base)
      BY <1>1, <2>1 DEF BasesCurrent
    <2> HIDE DEF e
    <2>3. /\ DOMAIN log' = 1..(Len(log) + 1)
          /\ \A i \in 1..Len(log) : log'[i] = log[i]
          /\ log'[Len(log) + 1] = e
      BY <1>1, <2>1, AppendEvent
    <2> SUFFICES ASSUME NEW i \in 1..(Len(log) + 1), log'[i].type = "update"
                 PROVE  IsSnapshot(log', i - 1, log'[i].ent, log'[i].base)
      BY <2>3 DEF BasedOnLast
    <2>4. i - 1 \in 0..Len(log)
      BY <1>1
    <2>5. IsSnapshot(log, i - 1, log'[i].ent, log'[i].base)
      <3>1. CASE i \in 1..Len(log)
        BY <1>1, <2>3, <3>1 DEF BasedOnLast
      <3>2. CASE i = Len(log) + 1
        BY <1>1, <2>2, <2>3, <3>2
      <3> QED  BY <1>1, <3>1, <3>2
    <2> QED  BY <1>1, <2>1, <2>4, <2>5, SnapshotStable
  <1> QED  BY <1>1, <1>2, <1>3, LogStep

CurrentUntilLapse == Typed /\ (~lapsed => Current /\ BasedOnLast)

LEMMA CurrentInit == ASSUME Init PROVE CurrentUntilLapse
  <1>1. /\ yaml = 0 /\ file = [e \in Entity |-> 0] /\ log = <<>> /\ Len(log) = 0
        /\ pc = [p \in Process |-> "idle"]
    BY DEF Init
  <1>2. Restoring /\ YamlCurrent /\ BasesCurrent /\ BasedOnLast
    BY <1>1 DEF Restoring, YamlCurrent, BasesCurrent, BasedOnLast, Pending, Rebuilding, Process
  <1>3. FilesCurrent
    BY <1>1 DEF FilesCurrent, IsSnapshot
  <1> QED  BY <1>2, <1>3, ProjectedInit, TypedInit DEF CurrentUntilLapse, Current

LEMMA CurrentUntilLapseStep ==
    ASSUME ~Crashes, Ahead = 0, Rebuilder = {}, CurrentUntilLapse, [Next]_vars
    PROVE  CurrentUntilLapse'
  <1>1. Typed' /\ (~lapsed' => ~lapsed)
    BY TypedStep, LapsedStays DEF CurrentUntilLapse, Typed, TypeOK
  <1>2. ASSUME ~lapsed' PROVE Current' /\ BasedOnLast'
    BY <1>1, <1>2, CurrentStep, BasedOnLastStep DEF CurrentUntilLapse
  <1> QED  BY <1>1, <1>2 DEF CurrentUntilLapse

\* NoLostUpdate: where nobody dies in mid-command or rebuilds without the lease, no
\* command ever overwrites a change of an entity that it has not seen, although the entity's
\* file is read outside the lease.
THEOREM NoUpdateIsLost ==
    ASSUME ~Crashes, Ahead = 0, Rebuilder = {} PROVE Spec => []NoLostUpdate
  <1>1. Init => CurrentUntilLapse
    BY CurrentInit
  <1>2. CurrentUntilLapse /\ [Next]_vars => CurrentUntilLapse'
    BY CurrentUntilLapseStep
  <1>3. CurrentUntilLapse => NoLostUpdate
    BY DEF CurrentUntilLapse, BasedOnLast, NoLostUpdate
  <1> QED  BY <1>1, <1>2, <1>3, PTL DEF Spec

\* InSyncWhenIdle, under the same assumptions: whenever the lease is free, task.yaml and
\* every entity file are the projection of the log.
THEOREM IdleIsInSync ==
    ASSUME ~Crashes, Ahead = 0, Rebuilder = {} PROVE Spec => []InSyncWhenIdle
  <1>1. Init => CurrentUntilLapse
    BY CurrentInit
  <1>2. CurrentUntilLapse /\ [Next]_vars => CurrentUntilLapse'
    BY CurrentUntilLapseStep
  <1>3. CurrentUntilLapse => InSyncWhenIdle
    <2> SUFFICES ASSUME CurrentUntilLapse, ~lapsed, lease = Free PROVE InSync
      BY DEF InSyncWhenIdle
    <2>1. HolderInside /\ YamlCurrent /\ FilesCurrent
      BY DEF CurrentUntilLapse, Current, Projected, Sound
    <2>2. \A c \in Client : ~Pending(c)
      BY <2>1, StoreParameters DEF HolderInside, Pending, Section, InSection
    <2> QED  BY <2>1, <2>2 DEF YamlCurrent, FilesCurrent, InSync, Pending
  <1> QED  BY <1>1, <1>2, <1>3, PTL DEF Spec
=============================================================================

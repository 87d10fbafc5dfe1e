-------------------------- MODULE WorkUnitsProofs --------------------------
(***************************************************************************)
(* Theorems about WorkUnits, for any number of work units, runs and        *)
(* processes that finish runs, and whatever --status they are given, with  *)
(* commands and rebuilds that die or do not.                               *)
(***************************************************************************)
EXTENDS WorkUnits, FiniteSetTheorems, TLAPS

Open     == {"absent", "pending", "ready"}
Existing == {r \in Run : runLog[r] # "absent"}

-----------------------------------------------------------------------------
(* What the commits and rebuilds write.                                    *)

LEMMA WrittenFiles == ASSUME NEW k \in Nat, NEW n \in Written(k) PROVE n \in Nat
  BY WorkUnitParameters DEF Written

\* A snapshot is in the log, and its file is written or not.
LEMMA SnapshotWritten ==
    ASSUME NEW u, NEW status, NEW k, NEW n, Snapshot(u, status, k, n)
    PROVE  /\ unitLog' = [unitLog EXCEPT ![u] = status]
           /\ unit' = unit \/ unit' = [unit EXCEPT ![u] = status]
  BY DEF Snapshot

\* A registered run has a file only if its work unit's file says so.
LEMMA RegisterWritten ==
    ASSUME NEW r \in Run, NEW u \in Unit, RegisterRun(r, u)
    PROVE  /\ unitLog' = [unitLog EXCEPT ![u] = "running"]
           /\ \/ unit' = [unit EXCEPT ![u] = "running"] /\ run' = [run EXCEPT ![r] = "running"]
              \/ unit' = [unit EXCEPT ![u] = "running"] /\ run' = run
              \/ unit' = unit /\ run' = run
  <1>1. PICK n \in Written(2) :
          Started(u, n) /\ run' = IF n < 2 THEN run ELSE [run EXCEPT ![r] = "running"]
    BY DEF RegisterRun
  <1>2. n \in Nat
    BY WrittenFiles
  <1> QED  BY <1>1, <1>2 DEF Started, Snapshot

\* A result has a file only if its run's has been written, and so has the unit's.
LEMMA SubmitWritten ==
    ASSUME NEW r \in Run, NEW outcome \in {"succeeded", "failed"}, SubmitResult(r, outcome)
    PROVE  /\ unitLog' = [unitLog EXCEPT ![work[r]] = Answered(outcome)]
           /\ unit' = unit \/ unit' = [unit EXCEPT ![work[r]] = Answered(outcome)]
           /\ run' = run \/ run' = [run EXCEPT ![r] = outcome]
           /\ result' = result \/ result' = result \cup {[run |-> r, outcome |-> outcome]}
           /\ resultLog' = resultLog \cup {[run |-> r, outcome |-> outcome]}
  BY DEF SubmitResult, Snapshot

\* A finish changes its run and, at most, that run's work unit.
LEMMA FinishWritten ==
    ASSUME NEW a \in Command, NEW own, Finish(a, own)
    PROVE  /\ run' = run \/ run' = [run EXCEPT ![a.run] = a.status]
           /\ \/ unitLog' = unitLog /\ unit' = unit
              \/ /\ a.status \in {"failed", "cancelled"}
                 /\ unitLog' = [unitLog EXCEPT ![work[a.run]] = a.status]
                 /\ unit' = unit \/ unit' = [unit EXCEPT ![work[a.run]] = a.status]
           /\ result' = result
  BY DEF Finish, UnitAfter, Snapshot

\* A rebuild writes what is in the log, no run before all work units and no result
\* before all runs.
LEMMA RebuiltFiles ==
    ASSUME UnitsTypeOK, Rebuilt
    PROVE  /\ unit' \in [Unit -> UnitStatus] /\ run' \in [Run -> RunStatus]
           /\ \A u \in Unit : unit'[u] \in {unit[u], unitLog[u]}
           /\ \A r \in Run : run'[r] \in {run[r], runLog[r]}
           /\ unit' = unitLog \/ run' = run
           /\ run' = runLog \/ result' = result
           /\ result \subseteq result' /\ result' \subseteq result \cup resultLog
  <1> USE DEF UnitsTypeOK, Restored
  <1>1. CASE Restored(Unit, Run, resultLog)
    BY <1>1
  <1>2. ASSUME NEW units \in SUBSET Unit, Restored(units, {}, {})
        PROVE  /\ unit' \in [Unit -> UnitStatus] /\ \A u \in Unit : unit'[u] \in {unit[u], unitLog[u]}
               /\ run' = run /\ result' = result
    BY <1>2
  <1>3. ASSUME NEW runs \in SUBSET Run, Restored(Unit, runs, {})
        PROVE  /\ run' \in [Run -> RunStatus] /\ \A r \in Run : run'[r] \in {run[r], runLog[r]}
               /\ unit' = unitLog /\ result' = result
    BY <1>3
  <1>4. ASSUME NEW results \in SUBSET resultLog, Restored(Unit, Run, results)
        PROVE  /\ unit' = unitLog /\ run' = runLog
               /\ result \subseteq result' /\ result' \subseteq result \cup resultLog
    BY <1>4
  <1> HIDE DEF Restored
  <1> QED  BY <1>1, <1>2, <1>3, <1>4 DEF Rebuilt, Restored

-----------------------------------------------------------------------------
(* Type correctness.                                                       *)

LEMMA UnitsTypedInit == ASSUME UnitsInit PROVE UnitsTypeOK
  BY DEF UnitsInit, UnitsTypeOK, UnitStatus, RunStatus

LEMMA UnitsTypedStep == ASSUME UnitsTypeOK, [UnitsNext]_unitVars PROVE UnitsTypeOK'
  <1> USE DEF UnitsTypeOK, Commit
  <1>0. /\ {"pending", "ready", "running", "completed", "failed", "cancelled"} \subseteq UnitStatus
        /\ {"running", "succeeded", "failed"} \cup FinishStatus \subseteq RunStatus
    BY DEF UnitStatus, RunStatus
  <1>1. ASSUME NEW u \in Unit, ReadyUnit(u) PROVE UnitsTypeOK'
    BY <1>0, <1>1, SnapshotWritten DEF ReadyUnit
  <1>2. ASSUME NEW u \in Unit, NEW units \in SUBSET Unit, NewUnit(u, units) PROVE UnitsTypeOK'
    BY <1>0, <1>2, SnapshotWritten DEF NewUnit
  <1>3. ASSUME NEW r \in Run, NEW u \in Unit, RegisterRun(r, u) PROVE UnitsTypeOK'
    <2>1. unit' \in [Unit -> UnitStatus] /\ unitLog' \in [Unit -> UnitStatus] /\ run' \in [Run -> RunStatus]
      BY <1>0, <1>3, RegisterWritten
    <2> QED  BY <1>0, <1>3, <2>1 DEF RegisterRun
  <1>4. ASSUME NEW r \in Run, NEW outcome \in {"succeeded", "failed"}, SubmitResult(r, outcome)
        PROVE UnitsTypeOK'
    <2>1. Answered(outcome) \in UnitStatus /\ [run |-> r, outcome |-> outcome] \in Result
      BY <1>0 DEF Answered, Result
    <2>2. /\ unit' \in [Unit -> UnitStatus] /\ unitLog' \in [Unit -> UnitStatus] /\ run' \in [Run -> RunStatus]
          /\ result' \subseteq Result /\ resultLog' \subseteq Result
      BY <1>0, <1>4, <2>1, SubmitWritten
    <2> QED  BY <1>0, <1>4, <2>2 DEF SubmitResult
  <1>5. ASSUME NEW c \in Finisher, NEW a \in Command, CallFinish(c, a) PROVE UnitsTypeOK'
    BY <1>5 DEF CallFinish, entities, logs
  <1>6. ASSUME NEW c \in Finisher, ReadRevision(c) PROVE UnitsTypeOK'
    BY <1>6 DEF ReadRevision, entities, logs
  <1>7. ASSUME NEW c \in Finisher, NEW own \in BOOLEAN, FinishAppend(c, own) PROVE UnitsTypeOK'
    <2> DEFINE a == cmd[c]
    <2>1. a \in Command /\ a.run \in Run /\ a.status \in FinishStatus
      BY DEF Command
    <2>2. UNCHANGED <<depends, work, runLog, resultLog, misled, cmd>> /\ pc' = [pc EXCEPT ![c] = "idle"]
      BY <1>7 DEF FinishAppend
    <2>3. \/ Rebuilt /\ UNCHANGED <<unitLog, finished, fresh, overtaken>>
          \/ UNCHANGED <<unit, unitLog, run, result, finished, fresh, overtaken>>
          \/ Finish(a, own)
      BY <1>7 DEF FinishAppend
    <2>4. CASE Rebuilt /\ UNCHANGED <<unitLog, finished, fresh, overtaken>>
      BY <2>2, <2>4, RebuiltFiles
    <2>5. CASE UNCHANGED <<unit, unitLog, run, result, finished, fresh, overtaken>>
      BY <2>2, <2>5
    <2>6. CASE Finish(a, own)
      <3>1. /\ finished' \subseteq Run \X FinishStatus /\ fresh' \subseteq Finisher
            /\ overtaken' \in BOOLEAN
        BY <2>1, <2>6 DEF Finish, Finishable
      <3>2. unit' \in [Unit -> UnitStatus] /\ unitLog' \in [Unit -> UnitStatus]
        BY <1>0, <2>1, <2>6, FinishWritten
      <3>3. run' \in [Run -> RunStatus] /\ result' \subseteq Result
        BY <1>0, <2>1, <2>6, FinishWritten
      <3> QED  BY <2>2, <3>1, <3>2, <3>3
    <2> QED  BY <2>3, <2>4, <2>5, <2>6
  <1>8. CASE RebuildUnits
    BY <1>8, RebuiltFiles DEF RebuildUnits, logs, calls
  <1>9. CASE UNCHANGED unitVars
    BY <1>9 DEF unitVars, entities, logs, calls
  <1> QED
    BY <1>1, <1>2, <1>3, <1>4, <1>5, <1>6, <1>7, <1>8, <1>9 DEF UnitsNext, FinishNext

\* Every variable of WorkUnits stays in its range.
THEOREM UnitsTypeCorrect == UnitsSpec => []UnitsTypeOK
  <1>1. UnitsInit => UnitsTypeOK
    BY UnitsTypedInit
  <1>2. UnitsTypeOK /\ [UnitsNext]_unitVars => UnitsTypeOK'
    BY UnitsTypedStep
  <1> QED  BY <1>1, <1>2, PTL DEF UnitsSpec

-----------------------------------------------------------------------------
(* Files and log: a file that is behind is behind in one way only, and what *)
(* has a run has left the open statuses for good, in the log and on file.   *)

FilesFollow ==
    \A u \in Unit :
        /\ unit[u] = "absent" => unitLog[u] \in {"absent", "pending"}
        /\ unit[u] = "pending" => unitLog[u] \in {"pending", "ready"}
        /\ unit[u] = "ready" => unitLog[u] \notin {"absent", "pending"}
        /\ unit[u] \notin Open => unitLog[u] \notin Open
RunsKnown   == \A r \in Run : run[r] # "absent" => runLog[r] # "absent"
CallsKnown  == \A c \in Finisher : pc[c] # "idle" => run[cmd[c].run] # "absent"
RunsStarted ==
    \A r \in Run :
        /\ runLog[r] # "absent" => unitLog[work[r]] \notin Open
        /\ run[r] # "absent" => unit[work[r]] \notin Open
ResultsOfRuns ==
    /\ result \subseteq resultLog
    /\ \A x \in resultLog : runLog[x.run] # "absent"
    /\ \A x \in result : run[x.run] # "absent"

RunsSound == UnitsTypeOK /\ FilesFollow /\ RunsKnown /\ CallsKnown /\ RunsStarted /\ ResultsOfRuns

LEMMA RunsRebuilt ==
    ASSUME RunsSound, Rebuilt, UnitsTypeOK', UNCHANGED <<unitLog, runLog, work, resultLog, cmd>>,
           \A c \in Finisher : pc'[c] # "idle" => pc[c] # "idle"
    PROVE  RunsSound'
  <1> USE RebuiltFiles DEF RunsSound, UnitsTypeOK
  <1>1. FilesFollow'
    BY DEF FilesFollow, Open
  <1>2. RunsKnown'
    BY DEF RunsKnown
  <1>3. CallsKnown'
    BY DEF CallsKnown, RunsKnown, Command
  <1>4. RunsStarted'
    BY DEF RunsStarted, RunsKnown, Open
  <1>5. ResultsOfRuns'
    BY DEF ResultsOfRuns, RunsKnown, Result
  <1> QED  BY <1>1, <1>2, <1>3, <1>4, <1>5

LEMMA RunsFinished ==
    ASSUME RunsSound, NEW c \in Finisher, NEW own, pc[c] # "idle", Finish(cmd[c], own), UnitsTypeOK',
           UNCHANGED <<runLog, work, resultLog, cmd>>,
           \A d \in Finisher : pc'[d] # "idle" => pc[d] # "idle"
    PROVE  RunsSound'
  <1> DEFINE a == cmd[c]
  <1>0. a \in Command /\ a.run \in Run /\ a.status # "absent" /\ run[a.run] # "absent"
    BY WorkUnitParameters DEF RunsSound, UnitsTypeOK, CallsKnown, Command
  <1>1. work[a.run] \in Unit /\ unit[work[a.run]] \notin Open /\ unitLog[work[a.run]] \notin Open
    BY <1>0 DEF RunsSound, UnitsTypeOK, RunsStarted, RunsKnown
  <1>2. /\ unit \in [Unit -> UnitStatus] /\ unitLog \in [Unit -> UnitStatus] /\ run \in [Run -> RunStatus]
        /\ runLog \in [Run -> RunStatus] /\ work \in [Run -> Unit]
    BY DEF RunsSound, UnitsTypeOK
  <1>3. /\ \A r \in Run : run'[r] = "absent" <=> run[r] = "absent"
        /\ \A u \in Unit : unit'[u] = unit[u] \/ (unit'[u] \notin Open /\ u = work[a.run] /\ unitLog'[u] \notin Open)
        /\ \A u \in Unit : unitLog'[u] = unitLog[u] \/ (unitLog'[u] \notin Open /\ u = work[a.run])
        /\ result' = result
    BY <1>0, <1>2, FinishWritten DEF Open
  <1>4. FilesFollow'
    BY <1>1, <1>3 DEF RunsSound, FilesFollow, Open
  <1>5. RunsKnown' /\ CallsKnown'
    BY <1>3 DEF RunsSound, RunsKnown, CallsKnown, UnitsTypeOK, Command
  <1>6. RunsStarted'
    BY <1>2, <1>3 DEF RunsSound, RunsStarted
  <1>7. ResultsOfRuns'
    BY <1>3 DEF RunsSound, ResultsOfRuns, UnitsTypeOK, Result
  <1> QED  BY <1>4, <1>5, <1>6, <1>7 DEF RunsSound

LEMMA RunsStep == ASSUME RunsSound, [UnitsNext]_unitVars PROVE RunsSound'
  <1>0. UnitsTypeOK'
    BY UnitsTypedStep DEF RunsSound
  <1> USE <1>0 DEF RunsSound, UnitsTypeOK, Commit
  <1>1. ASSUME NEW u \in Unit, ReadyUnit(u) PROVE RunsSound'
    <2>1. /\ unitLog' = [unitLog EXCEPT ![u] = "ready"]
          /\ unit' = unit \/ unit' = [unit EXCEPT ![u] = "ready"]
          /\ unit[u] = "pending" /\ UNCHANGED <<run, runLog, work, result, resultLog, pc, cmd>>
      BY <1>1, SnapshotWritten DEF ReadyUnit
    <2>2. FilesFollow'
      BY <2>1 DEF FilesFollow, Open
    <2>3. RunsStarted'
      BY <2>1 DEF FilesFollow, RunsStarted, Open
    <2> QED  BY <2>1, <2>2, <2>3 DEF RunsKnown, CallsKnown, ResultsOfRuns
  <1>2. ASSUME NEW u \in Unit, NEW units \in SUBSET Unit, NewUnit(u, units) PROVE RunsSound'
    <2>1. /\ unitLog' = [unitLog EXCEPT ![u] = "pending"]
          /\ unit' = unit \/ unit' = [unit EXCEPT ![u] = "pending"]
          /\ unitLog[u] = "absent" /\ UNCHANGED <<run, runLog, work, result, resultLog, pc, cmd>>
      BY <1>2, SnapshotWritten DEF NewUnit
    <2>2. FilesFollow'
      BY <2>1 DEF FilesFollow, Open
    <2>3. RunsStarted'
      BY <2>1 DEF FilesFollow, RunsStarted, Open
    <2> QED  BY <2>1, <2>2, <2>3 DEF RunsKnown, CallsKnown, ResultsOfRuns
  <1>3. ASSUME NEW r \in Run, NEW u \in Unit, RegisterRun(r, u) PROVE RunsSound'
    <2>1. /\ unit[u] = "ready" /\ runLog[r] = "absent"
          /\ runLog' = [runLog EXCEPT ![r] = "running"] /\ work' = [work EXCEPT ![r] = u]
          /\ UNCHANGED <<result, resultLog, pc, cmd>>
      BY <1>3 DEF RegisterRun, Registrable
    <2>2. run[r] = "absent" /\ \A x \in resultLog : x.run # r
      BY <2>1 DEF RunsKnown, ResultsOfRuns
    <2>3. FilesFollow'
      BY <1>3, <2>1, RegisterWritten DEF FilesFollow, Open
    <2>4. RunsKnown' /\ CallsKnown'
      BY <1>3, <2>1, RegisterWritten DEF RunsKnown, CallsKnown, Command
    <2>5. RunsStarted'
      BY <1>3, <2>1, <2>2, RegisterWritten DEF RunsStarted, Open
    <2>6. ResultsOfRuns'
      BY <1>3, <2>1, <2>2, RegisterWritten DEF ResultsOfRuns, Result
    <2> QED  BY <2>3, <2>4, <2>5, <2>6
  <1>4. ASSUME NEW r \in Run, NEW outcome \in {"succeeded", "failed"}, SubmitResult(r, outcome)
        PROVE RunsSound'
    <2>1. /\ unit[work[r]] = "running" /\ run[r] # "absent" /\ runLog[r] # "absent"
          /\ runLog' = [runLog EXCEPT ![r] = outcome] /\ UNCHANGED <<work, pc, cmd>>
      BY <1>4 DEF SubmitResult, Submittable, RunsKnown
    <2>2. Answered(outcome) \notin Open
      BY DEF Answered, Open
    <2>3. FilesFollow'
      BY <1>4, <2>1, <2>2, SubmitWritten DEF FilesFollow, Open
    <2>4. RunsKnown' /\ CallsKnown'
      BY <1>4, <2>1, SubmitWritten DEF RunsKnown, CallsKnown, Command
    <2>5. RunsStarted'
      BY <1>4, <2>1, <2>2, SubmitWritten DEF RunsStarted, Open
    <2>6. ResultsOfRuns'
      BY <1>4, <2>1, SubmitWritten DEF ResultsOfRuns, Result
    <2> QED  BY <2>3, <2>4, <2>5, <2>6
  <1>5. ASSUME NEW c \in Finisher, NEW a \in Command, CallFinish(c, a) PROVE RunsSound'
    <2>1. run[a.run] # "absent" /\ cmd' = [cmd EXCEPT ![c] = a] /\ UNCHANGED entities
          /\ \A d \in Finisher \ {c} : pc'[d] = pc[d]
      BY <1>5, WorkUnitParameters DEF CallFinish, Finishable
    <2>2. CallsKnown'
      BY <2>1 DEF CallsKnown, entities
    <2> QED  BY <2>1, <2>2 DEF entities, logs, FilesFollow, RunsKnown, RunsStarted, ResultsOfRuns
  <1>6. ASSUME NEW c \in Finisher, ReadRevision(c) PROVE RunsSound'
    BY <1>6 DEF ReadRevision, entities, logs, FilesFollow, RunsKnown, CallsKnown, RunsStarted, ResultsOfRuns
  <1>7. ASSUME NEW c \in Finisher, NEW own \in BOOLEAN, FinishAppend(c, own) PROVE RunsSound'
    <2>1. /\ UNCHANGED <<work, runLog, resultLog, cmd>> /\ pc[c] # "idle"
          /\ \A d \in Finisher : pc'[d] # "idle" => pc[d] # "idle"
      BY <1>7 DEF FinishAppend
    <2>2. \/ Rebuilt /\ unitLog' = unitLog
          \/ UNCHANGED <<unit, unitLog, run, result>>
          \/ Finish(cmd[c], own)
      BY <1>7 DEF FinishAppend
    <2>3. CASE UNCHANGED <<unit, unitLog, run, result>>
      BY <2>1, <2>3 DEF FilesFollow, RunsKnown, CallsKnown, RunsStarted, ResultsOfRuns
    <2> HIDE DEF UnitsTypeOK, Commit
    <2>4. CASE Rebuilt /\ unitLog' = unitLog
      BY <1>0, <2>1, <2>4, RunsRebuilt
    <2>5. CASE Finish(cmd[c], own)
      BY <1>0, <2>1, <2>5, RunsFinished
    <2> QED  BY <2>2, <2>3, <2>4, <2>5
  <1>8. CASE RebuildUnits
    BY <1>0, <1>8, RunsRebuilt DEF RebuildUnits, logs, calls
  <1>9. CASE UNCHANGED unitVars
    BY <1>9 DEF unitVars, entities, logs, calls, FilesFollow, RunsKnown, CallsKnown, RunsStarted, ResultsOfRuns
  <1> HIDE DEF RunsSound, UnitsTypeOK, Commit
  <1> QED
    BY <1>1, <1>2, <1>3, <1>4, <1>5, <1>6, <1>7, <1>8, <1>9 DEF UnitsNext, FinishNext

-----------------------------------------------------------------------------
(* Delivered work: a status that is neither open nor that of completion was *)
(* there before, follows from one that was not open, or from completed      *)
(* dependencies.                                                           *)

Finished  == \A u \in Unit : unitLog[u] = "completed" => Succeeded(u)
Delivered == \A u \in Unit : unitLog[u] \notin Open => \A v \in depends[u] : Succeeded(v)

Sound == RunsSound /\ CompletedIsDelivered /\ Finished /\ Delivered

\* Results are never taken back, nor given to another work unit.
LEMMA DeliveredForGood ==
    ASSUME RunsSound, [UnitsNext]_unitVars, NEW u \in Unit, Succeeded(u)
    PROVE  Succeeded(u)'
  <1> PICK x \in resultLog : work[x.run] = u /\ x.outcome = "succeeded"
    BY DEF Succeeded
  <1>1. x.run \in Run /\ runLog[x.run] # "absent"
    BY DEF RunsSound, ResultsOfRuns, UnitsTypeOK, Result
  <1>2. x \in resultLog'
    BY DEF UnitsNext, FinishNext, ReadyUnit, NewUnit, RegisterRun, SubmitResult, CallFinish, ReadRevision,
           FinishAppend, RebuildUnits, unitVars, entities, logs
  <1>3. work'[x.run] = work[x.run]
    BY <1>1 DEF UnitsNext, FinishNext, ReadyUnit, NewUnit, RegisterRun, SubmitResult, CallFinish, ReadRevision,
           FinishAppend, RebuildUnits, unitVars, entities, RunsSound, UnitsTypeOK
  <1> QED  BY <1>2, <1>3 DEF Succeeded

\* What a step does to a work unit, on file and in the log.
LEMMA UnitSteps ==
    ASSUME RunsSound, [UnitsNext]_unitVars, NEW u \in Unit
    PROVE  /\ unit'[u] = "completed" => unit[u] = "completed" \/ unitLog[u] = "completed" \/ Succeeded(u)'
           /\ unitLog'[u] = "completed" => unitLog[u] = "completed" \/ Succeeded(u)'
           /\ unitLog'[u] \notin Open =>
                 \/ unitLog[u] \notin Open /\ depends'[u] = depends[u]
                 \/ depends'[u] = depends[u] /\ \A v \in depends[u] : unit[v] = "completed"
  <1> DEFINE Claim ==
        /\ unit'[u] = "completed" => unit[u] = "completed" \/ unitLog[u] = "completed" \/ Succeeded(u)'
        /\ unitLog'[u] = "completed" => unitLog[u] = "completed" \/ Succeeded(u)'
        /\ unitLog'[u] \notin Open =>
              \/ unitLog[u] \notin Open /\ depends'[u] = depends[u]
              \/ depends'[u] = depends[u] /\ \A v \in depends[u] : unit[v] = "completed"
  <1> USE DEF RunsSound, UnitsTypeOK, Open
  <1>1. ASSUME NEW w \in Unit, ReadyUnit(w) PROVE Claim
    BY <1>1, SnapshotWritten DEF ReadyUnit
  <1>2. ASSUME NEW w \in Unit, NEW units \in SUBSET Unit, NewUnit(w, units) PROVE Claim
    BY <1>2, SnapshotWritten DEF NewUnit
  <1>3. ASSUME NEW r \in Run, NEW w \in Unit, RegisterRun(r, w) PROVE Claim
    <2>1. depends' = depends /\ \A v \in depends[w] : unit[v] = "completed"
      BY <1>3 DEF RegisterRun, Registrable
    <2>2. unit'[u] = unit[u] \/ unit'[u] = "running"
      BY <1>3, RegisterWritten
    <2>3. unitLog' = [unitLog EXCEPT ![w] = "running"]
      BY <1>3, RegisterWritten
    <2> QED  BY <2>1, <2>2, <2>3
  <1>4. ASSUME NEW r \in Run, NEW outcome \in {"succeeded", "failed"}, SubmitResult(r, outcome)
        PROVE Claim
    <2> DEFINE x == [run |-> r, outcome |-> outcome]
    <2>1. unit[work[r]] = "running" /\ depends' = depends /\ work' = work /\ x \in resultLog'
      BY <1>4 DEF SubmitResult, Submittable
    <2>2. work[r] = u /\ outcome = "succeeded" => Succeeded(u)'
      <3> SUFFICES ASSUME work[r] = u, outcome = "succeeded"
                   PROVE  \E y \in resultLog' : work'[y.run] = u /\ y.outcome = "succeeded"
        BY DEF Succeeded
      <3> QED  BY <2>1
    <2>3. unitLog[work[r]] \notin Open
      BY <2>1 DEF FilesFollow
    <2> QED  BY <1>4, <2>1, <2>2, <2>3, SubmitWritten DEF Answered
  <1>5. ASSUME NEW c \in Finisher, NEW a \in Command, CallFinish(c, a) PROVE Claim
    BY <1>5 DEF CallFinish, entities, logs
  <1>6. ASSUME NEW c \in Finisher, ReadRevision(c) PROVE Claim
    BY <1>6 DEF ReadRevision, entities, logs
  <1>7. ASSUME NEW c \in Finisher, NEW own \in BOOLEAN, FinishAppend(c, own) PROVE Claim
    <2>1. depends' = depends /\ cmd[c] \in Command /\ run[cmd[c].run] # "absent" /\ cmd[c].run \in Run
      BY <1>7 DEF FinishAppend, CallsKnown, Command
    <2>2. CASE Finish(cmd[c], own)
      <3>1. unitLog[work[cmd[c].run]] \notin Open
        BY <2>1 DEF RunsStarted, RunsKnown
      <3> QED  BY <2>1, <2>2, <3>1, FinishWritten
    <2>3. CASE Rebuilt /\ unitLog' = unitLog
      BY <2>1, <2>3, RebuiltFiles
    <2> QED  BY <1>7, <2>1, <2>2, <2>3 DEF FinishAppend
  <1>8. CASE RebuildUnits
    BY <1>8, RebuiltFiles DEF RebuildUnits, logs
  <1>9. CASE UNCHANGED unitVars
    BY <1>9 DEF unitVars, entities, logs
  <1> HIDE DEF RunsSound, UnitsTypeOK
  <1> QED
    BY <1>1, <1>2, <1>3, <1>4, <1>5, <1>6, <1>7, <1>8, <1>9 DEF UnitsNext, FinishNext

LEMMA SoundInit == ASSUME UnitsInit PROVE Sound
  BY UnitsTypedInit
  DEF UnitsInit, Sound, RunsSound, FilesFollow, RunsKnown, CallsKnown, RunsStarted, ResultsOfRuns,
      CompletedIsDelivered, Finished, Delivered, Open

LEMMA SoundStep == ASSUME Sound, [UnitsNext]_unitVars PROVE Sound'
  <1>0. RunsSound' /\ RunsSound
    BY RunsStep DEF Sound
  <1>1. CompletedIsDelivered' /\ Finished'
    BY <1>0, UnitSteps, DeliveredForGood DEF Sound, CompletedIsDelivered, Finished
  <1>2. Delivered'
    <2> SUFFICES ASSUME NEW u \in Unit, unitLog'[u] \notin Open, NEW v \in depends'[u]
                 PROVE  Succeeded(v)'
      BY DEF Delivered
    <2>1. v \in depends[u] /\ v \in Unit
      BY <1>0, UnitSteps DEF RunsSound, UnitsTypeOK
    <2>2. Succeeded(v)
      BY <1>0, <2>1, UnitSteps DEF Sound, CompletedIsDelivered, Delivered
    <2> QED  BY <1>0, <2>1, <2>2, DeliveredForGood
  <1> QED  BY <1>0, <1>1, <1>2 DEF Sound

LEMMA SoundAlways == UnitsSpec => []Sound
  <1>1. UnitsInit => Sound
    BY SoundInit
  <1>2. Sound /\ [UnitsNext]_unitVars => Sound'
    BY SoundStep
  <1> QED  BY <1>1, <1>2, PTL DEF UnitsSpec

\* A completed work unit has a successful result, however results, finished runs
\* and rebuilds of the files interleave and wherever they die.
THEOREM CompletedUnitsAreDelivered == UnitsSpec => []CompletedIsDelivered
  <1>1. Sound => CompletedIsDelivered
    BY DEF Sound
  <1> QED  BY SoundAlways, <1>1, PTL

\* No work unit is started before its dependencies are delivered.
THEOREM DependenciesComeFirst == UnitsSpec => []DependenciesDelivered
  <1>1. Sound => DependenciesDelivered
    BY DEF Sound, RunsSound, FilesFollow, Delivered, DependenciesDelivered, Open
  <1> QED  BY SoundAlways, <1>1, PTL

-----------------------------------------------------------------------------
(* Results: as long as no command was misled, runs have work units of their *)
(* own, and an answered work unit keeps one of the final statuses in the    *)
(* log, so that it is not answered again.                                  *)

Final == {"completed", "failed", "cancelled"}

RunsApart     == \A r, s \in Existing : work[r] = work[s] => r = s
UnitsAnswered == \A x \in resultLog : unitLog[work[x.run]] \in Final /\ runLog[x.run] = x.outcome
OnePerRun     == \A x, y \in resultLog : x.run = y.run => x = y

\* The log agrees with the result until a finish is overtaken, and the file with both,
\* or it is behind.
Agrees == \A x \in resultLog :
    unitLog[work[x.run]] = Answered(x.outcome) /\ unit[work[x.run]] \in {"running", Answered(x.outcome)}

Answers ==
    /\ RunsSound
    /\ ~misled => RunsApart /\ UnitsAnswered /\ OnePerRun
    /\ ~misled /\ ~overtaken => Agrees

\* Steps that leave runs and results in the log alone, and change no answered work unit
\* but by a rebuild.
LEMMA AnswersKept ==
    ASSUME Answers, RunsSound', UNCHANGED <<runLog, work, resultLog, misled, overtaken>>,
           \A x \in resultLog :
              /\ unitLog'[work[x.run]] = unitLog[work[x.run]]
              /\ unit'[work[x.run]] \in {unit[work[x.run]], unitLog[work[x.run]]}
    PROVE  Answers'
  <1>1. RunsApart => RunsApart'
    BY DEF RunsApart, Existing
  <1>2. UnitsAnswered => UnitsAnswered'
    BY DEF UnitsAnswered
  <1>3. OnePerRun => OnePerRun'
    BY DEF OnePerRun
  <1>4. Agrees => Agrees'
    BY DEF Agrees
  <1> QED  BY <1>1, <1>2, <1>3, <1>4 DEF Answers

\* An open work unit has no runs and no results in the log.
LEMMA OpenUnanswered ==
    ASSUME RunsSound, NEW u \in Unit, unitLog[u] \in Open
    PROVE  /\ \A r \in Existing : work[r] # u
           /\ \A x \in resultLog : x.run \in Existing /\ work[x.run] # u
  BY DEF RunsSound, RunsStarted, ResultsOfRuns, Existing, UnitsTypeOK, Result

LEMMA AnswersRegistered ==
    ASSUME Answers, RunsSound', NEW r \in Run, NEW u \in Unit, RegisterRun(r, u)
    PROVE  Answers'
  <1>1. /\ runLog[r] = "absent" /\ runLog' = [runLog EXCEPT ![r] = "running"]
        /\ work' = [work EXCEPT ![r] = u] /\ resultLog' = resultLog
        /\ misled' = (misled \/ unitLog[u] # "ready") /\ overtaken' = overtaken
    BY DEF RegisterRun
  <1>2. SUFFICES ASSUME ~misled, unitLog[u] = "ready"
                 PROVE  /\ RunsApart' /\ UnitsAnswered' /\ OnePerRun'
                        /\ Agrees => Agrees'
    BY <1>1 DEF Answers
  <1>3. RunsSound /\ RunsApart /\ UnitsAnswered /\ OnePerRun
    BY <1>2 DEF Answers
  <1>4. /\ \A s \in Existing : s # r /\ work[s] # u
        /\ \A x \in resultLog : x.run \in Run /\ x.run # r /\ work[x.run] # u
    BY <1>1, <1>2, <1>3, OpenUnanswered DEF Open, Existing
  <1>5. runLog \in [Run -> RunStatus] /\ work \in [Run -> Unit]
        /\ unit \in [Unit -> UnitStatus] /\ unitLog \in [Unit -> UnitStatus]
    BY <1>3 DEF RunsSound, UnitsTypeOK
  <1>6. \A x \in resultLog : /\ work'[x.run] = work[x.run] /\ runLog'[x.run] = runLog[x.run]
                             /\ unitLog'[work[x.run]] = unitLog[work[x.run]]
                             /\ unit'[work[x.run]] = unit[work[x.run]]
    BY <1>1, <1>4, <1>5, RegisterWritten
  <1>7. RunsApart'
    BY <1>1, <1>3, <1>4, <1>5 DEF RunsApart, Existing
  <1> QED  BY <1>1, <1>3, <1>6, <1>7 DEF UnitsAnswered, OnePerRun, Agrees

LEMMA AnswersSubmitted ==
    ASSUME Answers, RunsSound', NEW r \in Run, NEW outcome \in {"succeeded", "failed"},
           SubmitResult(r, outcome)
    PROVE  Answers'
  <1> DEFINE new == [run |-> r, outcome |-> outcome]
  <1>1. /\ runLog' = [runLog EXCEPT ![r] = outcome] /\ work' = work /\ resultLog' = resultLog \cup {new}
        /\ misled' = (misled \/ unitLog[work[r]] # "running") /\ overtaken' = overtaken
        /\ unit[work[r]] = "running" /\ run[r] # "absent"
    BY DEF SubmitResult, Submittable
  <1>2. SUFFICES ASSUME ~misled, unitLog[work[r]] = "running"
                 PROVE  /\ RunsApart' /\ UnitsAnswered' /\ OnePerRun'
                        /\ Agrees => Agrees'
    BY <1>1 DEF Answers
  <1>3. RunsSound /\ RunsApart /\ UnitsAnswered /\ OnePerRun
    BY <1>2 DEF Answers
  <1>4. runLog \in [Run -> RunStatus] /\ work \in [Run -> Unit] /\ r \in Existing
        /\ unit \in [Unit -> UnitStatus] /\ unitLog \in [Unit -> UnitStatus]
    BY <1>1, <1>3 DEF RunsSound, UnitsTypeOK, RunsKnown, Existing
  <1>5. \A x \in resultLog : x.run \in Run /\ x.run # r /\ work[x.run] # work[r]
    BY <1>2, <1>3, <1>4 DEF RunsSound, UnitsTypeOK, Result, UnitsAnswered, Final
  <1>6. \A x \in resultLog : /\ runLog'[x.run] = runLog[x.run]
                             /\ unitLog'[work[x.run]] = unitLog[work[x.run]]
                             /\ unit'[work[x.run]] = unit[work[x.run]]
    BY <1>1, <1>4, <1>5, SubmitWritten
  <1>7. /\ runLog'[r] = outcome /\ unitLog'[work[r]] = Answered(outcome)
        /\ unit'[work[r]] \in {"running", Answered(outcome)} /\ Answered(outcome) \in Final
    BY <1>1, <1>4, SubmitWritten DEF Answered, Final
  <1>8. new.run = r /\ new.outcome = outcome
    OBVIOUS
  <1> HIDE DEF new
  <1>9. RunsApart'
    BY <1>1, <1>3, <1>4 DEF RunsApart, Existing
  <1>10. UnitsAnswered' /\ OnePerRun'
    BY <1>1, <1>3, <1>5, <1>6, <1>7, <1>8 DEF UnitsAnswered, OnePerRun
  <1>11. Agrees => Agrees'
    BY <1>1, <1>6, <1>7, <1>8 DEF Agrees
  <1> QED  BY <1>9, <1>10, <1>11

\* A finish that is not overtaken is one of a run without a result.
LEMMA AnswersFinished ==
    ASSUME Answers, RunsSound', NEW a \in Command, NEW own, Finish(a, own), run[a.run] # "absent",
           UNCHANGED <<work, runLog, resultLog, misled>>
    PROVE  Answers'
  <1>1. overtaken' = (overtaken \/ ~Finishable(a.run) \/ runLog[a.run] \notin {"running", run[a.run]})
    BY DEF Finish
  <1>2. SUFFICES ASSUME ~misled
                 PROVE  /\ RunsApart' /\ UnitsAnswered' /\ OnePerRun'
                        /\ ~overtaken' /\ Agrees => Agrees'
    BY <1>1 DEF Answers
  <1>3. RunsSound /\ RunsApart /\ UnitsAnswered /\ OnePerRun
    BY <1>2 DEF Answers
  <1>4. a.run \in Existing /\ a.run \in Run /\ work \in [Run -> Unit]
        /\ unit \in [Unit -> UnitStatus] /\ unitLog \in [Unit -> UnitStatus]
    BY <1>3 DEF RunsSound, RunsKnown, Existing, UnitsTypeOK, Command
  <1>5. \A x \in resultLog : x.run \in Existing /\ work[x.run] \in Unit
    BY <1>3, <1>4 DEF RunsSound, ResultsOfRuns, Existing, UnitsTypeOK, Result
  <1>6. \A u \in Unit : unitLog'[u] = unitLog[u] \/ unitLog'[u] \in Final
    BY <1>4, FinishWritten DEF Final
  <1>7. RunsApart' /\ UnitsAnswered' /\ OnePerRun'
    BY <1>3, <1>5, <1>6 DEF RunsApart, Existing, UnitsAnswered, OnePerRun
  <1>8. ASSUME ~overtaken', Agrees PROVE Agrees'
    <2>1. Finishable(a.run) /\ runLog[a.run] \in {"running", run[a.run]}
      BY <1>1, <1>8
    <2>2. ASSUME NEW x \in resultLog PROVE work[x.run] # work[a.run]
      <3>1. x.outcome \in {"succeeded", "failed"} /\ runLog[x.run] = x.outcome
        BY <1>3 DEF RunsSound, UnitsTypeOK, Result, UnitsAnswered
      <3>2. x.run # a.run
        BY <2>1, <3>1 DEF Finishable
      <3> QED  BY <1>3, <1>4, <1>5, <3>2 DEF RunsApart
    <2>3. \A x \in resultLog : unitLog'[work[x.run]] = unitLog[work[x.run]] /\ unit'[work[x.run]] = unit[work[x.run]]
      BY <1>4, <1>5, <2>2, FinishWritten
    <2> QED  BY <1>8, <2>3 DEF Agrees
  <1> QED  BY <1>7, <1>8

\* A work unit that is created or made ready has not been answered.
LEMMA AnswersOpen ==
    ASSUME Answers, RunsSound', NEW u \in Unit, unitLog[u] \in Open, NEW status, NEW k, NEW n,
           Snapshot(u, status, k, n), UNCHANGED <<runLog, work, resultLog, misled, overtaken>>
    PROVE  Answers'
  <1>1. RunsSound /\ unit \in [Unit -> UnitStatus] /\ unitLog \in [Unit -> UnitStatus]
    BY DEF Answers, RunsSound, UnitsTypeOK
  <1>2. ASSUME NEW x \in resultLog
        PROVE  unitLog'[work[x.run]] = unitLog[work[x.run]] /\ unit'[work[x.run]] = unit[work[x.run]]
    <2>1. work[x.run] # u /\ work[x.run] \in Unit
      BY <1>1, OpenUnanswered DEF RunsSound, UnitsTypeOK, Result
    <2> QED  BY <1>1, <2>1, SnapshotWritten
  <1> QED  BY <1>2, AnswersKept

LEMMA AnswersStep == ASSUME Answers, [UnitsNext]_unitVars PROVE Answers'
  <1>0. RunsSound /\ RunsSound'
    BY RunsStep DEF Answers
  <1>1. ASSUME NEW u \in Unit, ReadyUnit(u) PROVE Answers'
    <2>1. unitLog[u] \in Open
      BY <1>0, <1>1 DEF ReadyUnit, RunsSound, FilesFollow, Open
    <2> QED
      BY <1>0, <1>1, <2>1, AnswersOpen DEF ReadyUnit
  <1>2. ASSUME NEW u \in Unit, NEW units \in SUBSET Unit, NewUnit(u, units) PROVE Answers'
    <2>1. unitLog[u] \in Open
      BY <1>2 DEF NewUnit, Open
    <2> QED
      BY <1>0, <1>2, <2>1, AnswersOpen DEF NewUnit
  <1>3. ASSUME NEW r \in Run, NEW u \in Unit, RegisterRun(r, u) PROVE Answers'
    BY <1>0, <1>3, AnswersRegistered
  <1>4. ASSUME NEW r \in Run, NEW outcome \in {"succeeded", "failed"}, SubmitResult(r, outcome)
        PROVE Answers'
    BY <1>0, <1>4, AnswersSubmitted
  <1>5. CASE UNCHANGED entities
    BY <1>0, <1>5, AnswersKept DEF entities, logs
  <1>6. ASSUME Rebuilt, UNCHANGED <<unitLog, runLog, work, resultLog, misled, overtaken>> PROVE Answers'
    <2>1. \A x \in resultLog : work[x.run] \in Unit
      BY <1>0 DEF RunsSound, UnitsTypeOK, Result
    <2>2. \A u \in Unit : unit'[u] \in {unit[u], unitLog[u]}
      BY <1>0, <1>6, RebuiltFiles DEF RunsSound
    <2> QED  BY <1>0, <1>6, <2>1, <2>2, AnswersKept
  <1>7. ASSUME NEW c \in Finisher, NEW own \in BOOLEAN, FinishAppend(c, own) PROVE Answers'
    <2>1. cmd[c] \in Command /\ run[cmd[c].run] # "absent" /\ UNCHANGED <<work, runLog, resultLog, misled>>
      BY <1>0, <1>7 DEF FinishAppend, RunsSound, UnitsTypeOK, CallsKnown
    <2>2. CASE Finish(cmd[c], own)
      BY <1>0, <2>1, <2>2, AnswersFinished
    <2>3. CASE Rebuilt /\ UNCHANGED <<unitLog, overtaken>>
      BY <1>6, <2>1, <2>3
    <2>4. CASE UNCHANGED <<unit, unitLog, overtaken>>
      BY <1>0, <2>1, <2>4, AnswersKept
    <2> QED  BY <1>7, <2>2, <2>3, <2>4 DEF FinishAppend
  <1>8. CASE RebuildUnits
    BY <1>6, <1>8 DEF RebuildUnits, logs
  <1> QED
    BY <1>1, <1>2, <1>3, <1>4, <1>5, <1>7, <1>8
    DEF UnitsNext, FinishNext, CallFinish, ReadRevision, unitVars

LEMMA AnswersAlways == UnitsSpec => []Answers
  <1>1. UnitsInit => Answers
    BY SoundInit
    DEF UnitsInit, Sound, Answers, RunsApart, UnitsAnswered, OnePerRun, Agrees, Existing
  <1>2. Answers /\ [UnitsNext]_unitVars => Answers'
    BY AnswersStep
  <1> QED  BY <1>1, <1>2, PTL DEF UnitsSpec

\* A set without two elements has at most one.
LEMMA AtMostOne ==
    ASSUME NEW S, \A x, y \in S : x = y
    PROVE  Cardinality(S) <= 1
  <1>1. CASE S = {}
    BY <1>1, FS_EmptySet
  <1>2. CASE S # {}
    <2> PICK x \in S : TRUE
      BY <1>2
    <2>1. S = {x}
      OBVIOUS
    <2> QED  BY <2>1, FS_Singleton
  <1> QED  BY <1>1, <1>2

\* A work unit is given to one run and answered by one result, until a command reads
\* a file that a crash left behind.
THEOREM UnitsAreAnsweredOnce == UnitsSpec => []OneAnswer
  <1>1. ASSUME Answers PROVE OneAnswer
    <2> SUFFICES ASSUME ~misled, NEW u \in Unit
                 PROVE  /\ Cardinality(Runs(u)) <= 1
                        /\ Cardinality({x \in resultLog : work[x.run] = u}) <= 1
      BY DEF OneAnswer
    <2>0. RunsSound /\ RunsApart /\ OnePerRun
      BY <1>1 DEF Answers
    <2>1. \A r, s \in Runs(u) : r = s
      BY <2>0 DEF Runs, RunsApart, Existing
    <2>2. \A x, y \in {z \in resultLog : work[z.run] = u} : x = y
      BY <2>0 DEF OnePerRun, RunsSound, RunsApart, ResultsOfRuns, Existing, UnitsTypeOK, Result
    <2> QED  BY <2>1, <2>2, AtMostOne
  <1> QED  BY AnswersAlways, <1>1, PTL

\* Delivered work stays delivered until a finish overtakes a result, or a command reads
\* a file that a crash left behind.
THEOREM DeliveredWorkStays == UnitsSpec => []DeliveredStays
  <1>1. ASSUME Answers PROVE DeliveredStays
    BY <1>1 DEF Answers, Agrees, Answered, DeliveredStays, Succeeded
  <1> QED  BY AnswersAlways, <1>1, PTL

-----------------------------------------------------------------------------
(* Dependencies.                                                           *)

\* Among any work units there is one that waits for none of the others: every plan
\* can be worked off, and the Conductor compiler finds no cycle in it.
NoneWaitForEachOther ==
    \A units \in SUBSET Unit : units # {} => \E u \in units : depends[u] \cap units = {}

LEMMA OrderedByNewUnit ==
    ASSUME UnitsTypeOK, NoneWaitForEachOther, NEW n \in Unit, NEW needs \in SUBSET Unit, NewUnit(n, needs)
    PROVE  NoneWaitForEachOther'
  <1>1. depends' = [depends EXCEPT ![n] = needs] /\ depends \in [Unit -> SUBSET Unit]
    BY DEF NewUnit, UnitsTypeOK
  <1>2. n \notin needs /\ \A v \in Unit : n \notin depends[v]
    BY DEF NewUnit
  <1>3. SUFFICES ASSUME NEW units \in SUBSET Unit, units # {}
                 PROVE  \E u \in units : depends'[u] \cap units = {}
    BY DEF NoneWaitForEachOther
  <1>4. CASE units \subseteq {n}
    <2>1. n \in units /\ depends'[n] = needs
      BY <1>1, <1>3, <1>4
    <2> QED  BY <1>2, <1>4, <2>1
  <1>5. CASE units \ {n} # {}
    <2>1. PICK u \in units \ {n} : depends[u] \cap (units \ {n}) = {}
      BY <1>5 DEF NoneWaitForEachOther
    <2>2. n \notin depends[u] /\ depends'[u] = depends[u]
      BY <1>1, <1>2
    <2> QED  BY <2>1, <2>2
  <1> QED  BY <1>4, <1>5

\* Work units never wait for each other in a circle, however many are created and
\* whatever they name: a unit names what it depends on when it is created
\* (work_unit_new), before the names of later ones are generated.
THEOREM DependenciesHaveNoCycle == UnitsSpec => []NoneWaitForEachOther
  <1>1. ASSUME UnitsInit PROVE UnitsTypeOK /\ NoneWaitForEachOther
    <2>1. \A u \in Unit : depends[u] = {}
      BY <1>1 DEF UnitsInit
    <2>2. NoneWaitForEachOther
      BY <2>1 DEF NoneWaitForEachOther
    <2> QED  BY <1>1, <2>2, UnitsTypedInit
  <1>2. ASSUME UnitsTypeOK, NoneWaitForEachOther, [UnitsNext]_unitVars
        PROVE  UnitsTypeOK' /\ NoneWaitForEachOther'
    <2>1. UnitsTypeOK'
      BY <1>2, UnitsTypedStep
    <2>2. CASE \E n \in Unit, needs \in SUBSET Unit : NewUnit(n, needs)
      BY <1>2, <2>1, <2>2, OrderedByNewUnit
    <2>3. CASE depends' = depends
      BY <1>2, <2>1, <2>3 DEF NoneWaitForEachOther
    <2> QED
      BY <1>2, <2>2, <2>3
      DEF UnitsNext, FinishNext, ReadyUnit, RegisterRun, SubmitResult, CallFinish, ReadRevision,
          FinishAppend, RebuildUnits, unitVars, entities
  <1> QED  BY <1>1, <1>2, PTL DEF UnitsSpec
=============================================================================

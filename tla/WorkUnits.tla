------------------------------ MODULE WorkUnits ------------------------------
(***************************************************************************)
(* The work units, runs and results of one task: the commands work-unit    *)
(* new and ready, run register and finish, result submit of cli.py and     *)
(* result.py.                                                              *)
(*                                                                         *)
(* A command reads the entity files, computes new snapshots and commits    *)
(* them with append_event, if no event was appended since the revision it  *)
(* expects (EventStore).  All commands but `run finish` are told that      *)
(* revision by their caller, who took it before the command read anything, *)
(* so they take effect in one step.  `run finish` may be called without    *)
(* --expected-revision: it then takes the revision after it has read the   *)
(* run, and is a process of several steps.                                 *)
(*                                                                         *)
(* A commit writes its event and then its files, one after the other.  A   *)
(* crash leaves the event with the first few of the files; the commands    *)
(* that follow read those files, not the log, until a rebuild restores     *)
(* them.  A command that is repeated with its key finds its event, and     *)
(* either does nothing or rebuilds.                                        *)
(***************************************************************************)
EXTENDS Naturals, FiniteSets

CONSTANTS Unit, Run,
          Finisher,     \* the processes that execute `run finish`
          FinishStatus, \* the values of its --status
          UnitCrashes   \* commands may die before the last file

\* The status is any text; that a file is missing is none.
ASSUME WorkUnitParameters == "absent" \notin FinishStatus /\ UnitCrashes \in BOOLEAN

VARIABLES
    unit,      \* the status in each work unit's file
    unitLog,   \* the status in its last snapshot in the log
    depends,   \* its depends_on
    run,       \* the status in each run's file
    runLog,    \* the status in its last snapshot
    work,      \* the run's work_unit_id
    result,    \* the results on file: which run, which outcome
    resultLog, \* the results in the log
    finished,  \* the default idempotency keys of `run finish` in the log
    pc, cmd,   \* each finisher's next step and command
    fresh,     \* the finishers that expect the current revision
    overtaken, \* history: a finish was committed whose run had been finished
               \* since it was read, or has a result that is in the log only
    misled     \* history: a run was registered, or a result submitted, on a
               \* work unit whose file was behind the log

logs     == <<unitLog, runLog, resultLog, finished>>
entities == <<unit, depends, run, work, result, logs, overtaken, misled>>
calls    == <<pc, cmd, fresh>>
unitVars == <<entities, calls>>

UnitStatus == {"absent", "pending", "ready", "running", "completed", "failed", "cancelled"}
RunStatus  == {"absent", "running", "succeeded", "failed"} \cup FinishStatus
Result     == [run : Run, outcome : {"succeeded", "failed"}]
Command    == [run : Run, status : FinishStatus, checked : BOOLEAN]

UnitsTypeOK ==
    /\ unit \in [Unit -> UnitStatus] /\ unitLog \in [Unit -> UnitStatus]
    /\ depends \in [Unit -> SUBSET Unit]
    /\ run \in [Run -> RunStatus] /\ runLog \in [Run -> RunStatus]
    /\ work \in [Run -> Unit]
    /\ result \subseteq Result /\ resultLog \subseteq Result
    /\ finished \subseteq Run \X FinishStatus
    /\ pc \in [Finisher -> {"idle", "revision", "append"}]
    /\ cmd \in [Finisher -> Command] /\ fresh \subseteq Finisher
    /\ overtaken \in BOOLEAN /\ misled \in BOOLEAN

UnitsInit ==
    /\ unit = [u \in Unit |-> "absent"] /\ unitLog = unit
    /\ depends = [u \in Unit |-> {}]
    /\ run = [r \in Run |-> "absent"] /\ runLog = run
    /\ work \in {[r \in Run |-> u] : u \in Unit}
    /\ result = {} /\ resultLog = {} /\ finished = {}
    /\ pc = [c \in Finisher |-> "idle"]
    /\ cmd \in {[c \in Finisher |-> a] : a \in Command}
    /\ fresh = {} /\ overtaken = FALSE /\ misled = FALSE

\* An event was appended: nobody's expected revision is current any more.
Commit == fresh' = {} /\ UNCHANGED <<pc, cmd>>

\* The number of its files that a commit writes before it ends or dies.
Written(files) == IF UnitCrashes THEN 0..files ELSE {files}

\* The commit of a new snapshot of u, whose file is the k-th of the n that are written.
Snapshot(u, status, k, n) ==
    /\ unitLog' = [unitLog EXCEPT ![u] = status]
    /\ unit' = IF n < k THEN unit ELSE [unit EXCEPT ![u] = status]

-----------------------------------------------------------------------------
(* Work units.                                                             *)

\* `mac work-unit new`: the name is generated, so that no work unit names it; what the
\* new one depends on is any text, the name of no work unit among them.
NewUnit(u, units) ==
    /\ unitLog[u] = "absent" /\ \A v \in Unit : u \notin depends[v]
    /\ u \notin units
    /\ \E n \in Written(1) : Snapshot(u, "pending", 1, n)
    /\ depends' = [depends EXCEPT ![u] = units]
    /\ Commit
    /\ UNCHANGED <<run, runLog, work, result, resultLog, finished, overtaken, misled>>

ReadyUnit(u) ==
    /\ unit[u] = "pending"
    /\ \E n \in Written(1) : Snapshot(u, "ready", 1, n)
    /\ Commit
    /\ UNCHANGED <<depends, run, runLog, work, result, resultLog, finished, overtaken, misled>>

\* Mutant of Registrable: the dependencies are not looked at.
RegistrableAlone(u) == unit[u] = "ready"

\* A dependency that has no file is not completed either.
Registrable(u) == unit[u] = "ready" /\ \A v \in depends[u] : unit[v] = "completed"

\* Mutant of Started: the work unit is not marked.
StartedRunOnly(u, n) == UNCHANGED <<unit, unitLog>>

\* The work unit's snapshot is part of the run_started event; its file comes first.
Started(u, n) == Snapshot(u, "running", 1, n)

RegisterRun(r, u) ==
    /\ runLog[r] = "absent" /\ Registrable(u)
    /\ \E n \in Written(2) :
          /\ Started(u, n)
          /\ run' = IF n < 2 THEN run ELSE [run EXCEPT ![r] = "running"]
    /\ runLog' = [runLog EXCEPT ![r] = "running"]
    /\ work' = [work EXCEPT ![r] = u]
    /\ misled' = (misled \/ unitLog[u] # "ready")
    /\ Commit
    /\ UNCHANGED <<depends, result, resultLog, finished, overtaken>>

-----------------------------------------------------------------------------
(* Results.                                                                *)

Submittable(r) == run[r] \in {"registered", "running"} /\ unit[work[r]] = "running"

\* Mutant of Answered: the outcome is not looked at.
AnsweredAlways(outcome) == "completed"

Answered(outcome) == IF outcome = "succeeded" THEN "completed" ELSE "failed"

\* `mac result submit`: work unit, run and result in one event, and in this order on
\* file.  That the scope is approved and covers the diff is for TaskGovernance to add.
SubmitResult(r, outcome) ==
    LET x == [run |-> r, outcome |-> outcome] IN
    /\ Submittable(r)
    /\ \E n \in Written(3) :
          /\ Snapshot(work[r], Answered(outcome), 1, n)
          /\ run' = IF n < 2 THEN run ELSE [run EXCEPT ![r] = outcome]
          /\ result' = IF n < 3 THEN result ELSE result \cup {x}
    /\ runLog' = [runLog EXCEPT ![r] = outcome]
    /\ resultLog' = resultLog \cup {x}
    /\ misled' = (misled \/ unitLog[work[r]] # "running")
    /\ Commit
    /\ UNCHANGED <<depends, work, finished, overtaken>>

-----------------------------------------------------------------------------
(* A rebuild.                                                              *)

Restored(units, runs, results) ==
    /\ unit' = [u \in Unit |-> IF u \in units THEN unitLog[u] ELSE unit[u]]
    /\ run' = [r \in Run |-> IF r \in runs THEN runLog[r] ELSE run[r]]
    /\ result' = result \cup results

\* rebuild_task, one directory after the other: the files become the last snapshots of
\* the log.  Every event that touches a work unit carries it; run_finished does not
\* carry the run.
Rebuilt ==
    \/ Restored(Unit, Run, resultLog)
    \/ UnitCrashes /\ \E units \in SUBSET Unit : Restored(units, {}, {})
    \/ UnitCrashes /\ \E runs \in SUBSET Run : Restored(Unit, runs, {})
    \/ UnitCrashes /\ \E results \in SUBSET resultLog : Restored(Unit, Run, results)

\* `mac task rebuild`, `mac doctor --repair-safe --apply`, or a repeated command whose
\* event append_event finds.
RebuildUnits == Rebuilt /\ UNCHANGED <<depends, work, logs, overtaken, misled, calls>>

-----------------------------------------------------------------------------
(* `mac run finish`.                                                       *)

\* Mutant of Finishable: a finished run can be finished again.
FinishableAgain(r) == run[r] # "absent"

Finishable(r) == run[r] \in {"registered", "running", "unknown"}

\* Read the run; the expected revision, if it is given, was current before.
CallFinish(c, a) ==
    /\ pc[c] = "idle" /\ Finishable(a.run)
    /\ cmd' = [cmd EXCEPT ![c] = a]
    /\ pc' = [pc EXCEPT ![c] = IF a.checked THEN "append" ELSE "revision"]
    /\ fresh' = IF a.checked THEN fresh \cup {c} ELSE fresh
    /\ UNCHANGED entities

\* load_task(task_id)["revision"].
ReadRevision(c) ==
    /\ pc[c] = "revision"
    /\ fresh' = fresh \cup {c}
    /\ pc' = [pc EXCEPT ![c] = "append"]
    /\ UNCHANGED <<entities, cmd>>

\* A failed or cancelled run takes its work unit with it, whose file is the second.
UnitAfter(a, n) ==
    IF a.status \in {"failed", "cancelled"}
    THEN Snapshot(work[a.run], a.status, 2, n)
    ELSE UNCHANGED <<unit, unitLog>>

Finish(a, own) ==
    /\ \E n \in Written(2) :
          /\ run' = IF n < 1 THEN run ELSE [run EXCEPT ![a.run] = a.status]
          /\ UnitAfter(a, n)
    /\ finished' = IF own THEN finished ELSE finished \cup {<<a.run, a.status>>}
    /\ overtaken' = (overtaken \/ ~Finishable(a.run) \/ runLog[a.run] \notin {"running", run[a.run]})
    /\ fresh' = {}
    /\ UNCHANGED result

\* append_event, with a key of the caller's own or one made of run and status:
\* a key that is in the log already, a revision conflict, or the event.
FinishAppend(c, own) ==
    /\ pc[c] = "append"
    /\ IF ~own /\ <<cmd[c].run, cmd[c].status>> \in finished
       THEN Rebuilt /\ UNCHANGED <<unitLog, finished, fresh, overtaken>>
       ELSE IF c \notin fresh
       THEN UNCHANGED <<unit, unitLog, run, result, finished, fresh, overtaken>>
       ELSE Finish(cmd[c], own)
    /\ pc' = [pc EXCEPT ![c] = "idle"]
    /\ UNCHANGED <<depends, work, runLog, resultLog, misled, cmd>>

FinishNext ==
    \E c \in Finisher :
       \/ \E a \in Command : CallFinish(c, a)
       \/ ReadRevision(c)
       \/ \E own \in BOOLEAN : FinishAppend(c, own)

UnitsNext ==
    \/ \E u \in Unit : ReadyUnit(u) \/ \E units \in SUBSET Unit : NewUnit(u, units)
    \/ \E r \in Run :
          \/ \E u \in Unit : RegisterRun(r, u)
          \/ \E outcome \in {"succeeded", "failed"} : SubmitResult(r, outcome)
    \/ FinishNext \/ RebuildUnits

UnitsSpec == UnitsInit /\ [][UnitsNext]_unitVars

-----------------------------------------------------------------------------
(* Properties.                                                             *)

Succeeded(u) == \E x \in resultLog : work[x.run] = u /\ x.outcome = "succeeded"
Runs(u)      == {r \in Run : runLog[r] # "absent" /\ work[r] = u}

\* Work never starts before the work it depends on has been delivered, whatever
\* commands and rebuilds die on the way and even when that work unit's status is
\* overwritten later (run_register).
DependenciesDelivered ==
    \A u \in Unit : unit[u] \notin {"absent", "pending", "ready"} =>
        \A v \in depends[u] : Succeeded(v)

\* A work unit is given to one run only, and is answered by one result at most: no
\* status leads back to ready.  After a crash the files may promise the same work unit
\* once more; as long as nobody acts on that, neither crash nor rebuild breaks it.
OneAnswer ==
    ~misled => \A u \in Unit :
        /\ Cardinality(Runs(u)) <= 1
        /\ Cardinality({x \in resultLog : work[x.run] = u}) <= 1

\* A completed work unit has a successful result to show for it, in the log at least.
CompletedIsDelivered == \A u \in Unit : unit[u] = "completed" => Succeeded(u)

\* Delivered work stays delivered, in the log and, but for a file that was not written,
\* on file, unless a `run finish` that was not told which revision to expect read its
\* run before the result came, or a command read a file that was behind (run_finish).
DeliveredStays ==
    ~overtaken /\ ~misled => \A u \in Unit : Succeeded(u) =>
        unitLog[u] = "completed" /\ unit[u] \in {"running", "completed"}

\* A run that was finished stays so: repairs never alter business state.
FinishedStays == [][\A r \in Run : run[r] \in {"succeeded", "failed", "cancelled"} => run'[r] = run[r]]_unitVars
=============================================================================

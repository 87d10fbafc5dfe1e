# A verification project for multi-agent-collab

`mac` (`src/src/mac`) is a local-first governance kernel for software tasks
that several human and agent processes work on at once. There is no server:
each command is a short-lived process that reads and writes files under
`tasks/<TASK>/`, and everything the processes agree on they agree on through
those files. This directory models that program in TLA+, checks the models with
TLC on small instances and proves the main theorems with TLAPS for every
instance.

## Inventory

| component | state | operations | interacts with |
|---|---|---|---|
| Controller lease (`repository.py` `lease`) | `private/controller.lease`, quarantined `.controller.lease.*.expired` files, the clock | acquire, take over an expired lease, release; the doctor deletes expired ones | taken by every `append_event` and `transition` |
| Event store (`repository.py`, `events.py`) | `events/EVT-*.json` (the source of recovery), the projection: `task.yaml` and the entity files | append an event, transition, rebuild, replay | every command of the CLI writes through it |
| Workflow (`state_machine.py`) | the task's state | transition under guards and conditions | guards are computed by the CLI from the other components' files |
| Work units, runs and results (`cli.py`, `result.py`) | `work-units/`, `runs/`, `results/` | create, ready, register a run, finish it, submit a result | read and written outside the lease, committed through the event store |
| Scope contract (`cli.py`, `scope.py`, `authority.py`) | `scope-contract.yaml`, `scope-history/`, `approvals/` | propose, approve, amend | guards `triage_to_ready` and results |
| Ownership and change scope (`scope.py`, `ownership.py`) | two tables while it runs | check what Git reports as changed against a contract | results, the close and CI ask it |
| Evidence, findings, review, risk, close (`evidence.py`, `application/`) | `evidence/`, `findings/`, `approvals/`, `risk-acceptances/`, the code's digest | record, promote, invalidate, open, resolve, approve, evaluate the close | guards the terminal states |
| Pull request gate (`scripts/ci/governance_pr.py`, `git.py`) | none of its own: the commits of the branch | find the tasks of a diff, the commit of their code, judge their evidence | reads what `mac` wrote and the developer committed |
| Task creation (`application/task_service.py`, `create_task`) | the task directory, a staging directory | create with a repository-wide idempotency key | the first event of the log |
| Doctor (`doctor.py`) | nothing of its own | report, repair: temporary files, leases, projections | deletes leases, rebuilds without one |
| Migration (`migration.py`) | `tasks-v6/` | import of v5 tasks | first event `legacy_imported` |
| Runtime adapters (`runtime.py`, `adapters/runtime`) | none; they compile documents and check result files | profile resolution, launch packets, the Conductor graph in layers | the work units; an external runtime executes what they compile |
| Identifiers (`ids.py`) | the last timestamp and random part of the process, under a lock | draw a ULID | names of tasks, entities and event files, which are read in the order of their names |
| Files, policy, schemas, security checks, reports | none beyond a file | pure functions and thin wrappers | used everywhere |

Hard behaviours. Any two commands of any processes interleave at every file
operation. A process may die between any two of them, or sleep for longer than
its lease. A caller who saw an error or a timeout retries with the same
idempotency key. Commands read entity files before they enter the lease and
write after; only the expected revision connects the two. The projection is
several files, written one by one after the event. None of this is exercised
by the tests beyond one fault hook and one race of two threads; `PROJECT.json`
lists each hazard at its line.

What makes the components correct:

- lease: one controller at a time; an abandoned lease is taken over; only
  expired leases are removed;
- event store: one atomic append-only log per task, which always replays; a
  reported success is durable; no update is lost; the projection is repaired;
- workflow: the state changes along the workflow's transitions only, terminal
  states stay, every state the workflow needs can be entered and left;
- work units: a unit runs only after its dependencies, under one run, and its
  status, its runs and its results agree;
- scope: what is approved is what is in force;
- close: a task completes only on current evidence of every required gate, with
  its findings settled and reviewed by somebody independent;
- pull request gate: `mac` and CI agree on what the code is and whether it is
  tested;
- change scope: a diff is clean exactly if all it touches is within the contract;
- task creation: a task directory is visible whole or not at all, once per
  idempotency key and once per imported row;
- plans and identifiers: no agent before its dependencies, no two identifiers
  out of order.

## Modules

| module | models | composed with |
|---|---|---|
| `ExclusiveLease` | abstract: one holder, abandoned leases are reclaimed | the promise of `ControllerLease`; the lease of `EventStore` |
| `ControllerLease` | `lease()` of `repository.py`, one file operation per step, and the doctor's sweep | |
| `EventLog` | events, replayable logs, snapshots: the vocabulary of the log | |
| `TaskLog` | abstract: an atomic append-only log | the promise of `EventStore` |
| `EventStore` | `append_event`, `transition`, `rebuild_task` and the commands around them | `ExclusiveLease`, `EventLog` |
| `EventReplay` | `replay_events` of `events.py`, one event per step | |
| `Workflow` | the transition table and its conditions | |
| `WorkUnits` | work units, runs, results | commits as `EventStore` provides them |
| `ScopeContract` | contract, history, approvals | |
| `TaskGovernance` | the life of a task: evidence, findings, waivers, code, close | `Workflow`, `WorkUnits`, `ScopeContract` |
| `TaskDirectories` | task creation, v5 import, the doctor's cleaning of staging directories | |
| `PullRequest` | evidence and close beside a developer who edits, stages and commits, and CI's judgement of the branch | the Git index and promotion of `TaskGovernance`, one file operation finer |
| `ChangeScope` | `check_changes` and `OwnershipResolver.resolve` | what `Touches` of `TaskGovernance` stands for |
| `ConductorPlan` | `ConductorCompiler`, and Conductor as an external runner | |
| `Identifiers` | `ulid` | |
| `MC*` | instances for TLC: constant values, symmetry, views | |
| `*Proofs` | theorems about the module of the name before; `TaskCreationProofs` about `TaskDirectories` and `Identifiers`, `PullRequestProofs` about `PullRequest` and `ChangeScope` | |

**ControllerLease.** The variables are the lease file (`path` holds the inode at
the name, `full` the inodes with a payload), the quarantined files, the clock,
and for every process its next file operation. `Create` is `os.open` with
`O_EXCL`, `WritePayload` the dump and fsync, `Inspect` the read after
`FileExistsError`, `Rename` the quarantine, `Leave`, `Unlink` and `CleanUp` the
`finally` block; `Scan` and `Sweep` are the two halves of the doctor's repair.
Tokens are numbered as they are drawn, and because every call has the same time
to live, the clock is just the number of tokens that have expired. Everything
about the timing is left free; `timely` and `serial` are history variables that
say when it was not what the code hopes for.

**EventStore.** A client is a process that executes one command: `Call` and
`Retry` are the look-up of the idempotency key outside the lease, `Enter`,
`Evaluate` and `LeaveGuard` the first lease section of a transition, `Load` the
unlocked read of an entity's file, without which an update ends, `Create` the
commands that draw a new identifier instead, and `Check`, `WriteEvent`, `Materialize`,
`Index` and `Leave` are `append_event`. `Retry` reports what it finds in the log and
does nothing else, as the look-ups of `transition`, `_operation_replay`, `run register`,
`result submit` and `evidence record` do; only a command that gets as far as `append_event`
and finds its key there (`Check`) rebuilds. A projection file is represented by the
revision it was written from. `Rebuilder`s run `rebuild_task` without the lease,
as `mac task rebuild` and the doctor do. `Crash` can take any process anywhere;
`Lapse` is a holder that outlives its 30 seconds and is taken over, the only way
in which the lease stops being the one of `ExclusiveLease`.

**WorkUnits.** The files of units, runs and results (`unit`, `run`, `result`) and, beside
them, their last snapshots in the log (`unitLog`, `runLog`, `resultLog`). Commands read the
files. A commit changes the log and then its files in the order of the code; with
`UnitCrashes` it may die after the event or after any file (`Written`), and a rebuild after
any directory or file of one (`Rebuilt`). All commands are told a revision that was current
before they read, so a commit is one step (`EventStore` is what justifies this);
the exception is `run finish` without `--expected-revision`, which is a process
of three steps (`CallFinish`, `ReadRevision`, `FinishAppend`). `fresh` says whose
expected revision is still the current one. `overtaken` and `misled` are history variables:
a finish was committed over a run that had ended since it was read, and a run was registered
or a result submitted on a unit whose file was behind the log. The second happens
after a crash between `run_started` and the unit's file: the unit still reads `ready`, and the
next controller gets a second run for it. A new unit may name any unit as a dependency that does
not exist, since `--depends-on` is not checked; such a name only keeps the unit from being run.

**ScopeContract.** `scope-contract.yaml`, `scope-history/` and the approvals, with
`signed` for the approvals in the log. A command writes its event and then its
files in order; with `ScopeCrashes` it may die after any of them (`Reached`).

**TaskGovernance.** Adds the task's state, the code (working tree, Git's index and
HEAD), evidence, findings and risk acceptances. `Context` is what `_transition_context` computes,
`CloseAllowed` is `evaluate_close`, `Validated` is `validate_task_invariants`.
`Transition` is the whole of `mac task transition`. The developer's `Edit`, `Stage`
and `CommitCode` come between any two commands; `ScopeClean` looks at HEAD, index
and tree, and `PromoteEvidence` compares the index alone, as the code does.

**PullRequest.** `history` is the branch, each commit with its code and its kind:
code, code below the task's directory, a file moved into the metadata, or metadata
only. `StartGate` and `EndGate` are the two halves of `mac evidence record`, `Decide`
and `Close` those of `mac task transition completed`; `GitAdd`, `Edit` and `Commit` come
between them. (`transition` decides twice, in `cli.py:203` and `cli.py:235`; `Decide` is
the last.) The subject of evidence is the last commit that changed code, found by
`CommitSubject` for `mac` and by `CISubject` for CI with different lists and different
views of a rename. `began`, `ended`, `staged` and `from` of a piece of evidence are history
variables that say what the gate really ran on. `Passes` is what CI lets through.

**ChangeScope.** One change per step, both ends of a rename in turn, with the tables
`path_keys` and `unicode_keys`, each of which keeps its first name. The inputs are
contracts, ownership documents and diffs; what a pattern matches and how a name folds
is given by constants, since pathspec and `unicodedata` do that. `SCOPE_PATH_UNSAFE` for a
changed path (`scope.py:141-145`) has no step: `git.py:55-71` has normalized every path it
reports with the same function, or raised, before `check_changes` sees it. For a pattern of the
contract it has one (`CheckPatterns`).

**TaskDirectories.** `place` says whether an identifier is unused, a staging
directory or a task, `content` which files it has. Callers, an importer and the
doctor take one step per file operation; any step may fail (`Fail`) or be the
last (`Die`), and a caller or the importer starts again afterwards.

**EventReplay.** The event files in the order of their names, folded one by one.
Its inputs are up to three files with wrong or repeated identifiers, keys,
revisions and states, among them copies of one event under two names. A copy is refused
(`EVENT_ID_DUPLICATE`), and `OneLog` says so. A creation without a task takes the
projection on disk (`Seed`), whose state the payload's overrides (`Initial`). `ReplaysExactlyOneLog` compares the verdict with the
declarative definition that `EventStore` uses (`Replayable` of `EventLog`).

**ConductorPlan** is the layering of a selection of units, and Conductor
following the routes; **Identifiers** is the generator with its clock.

The refinements `ControllerLease` => `ExclusiveLease` and `EventStore` =>
`TaskLog` are checked as properties (`ImplementsExclusiveLease`,
`ImplementsTaskLog`) and proved. `WorkUnits`, `ScopeContract` and `TaskGovernance` are
written over atomic commits, which is what `TaskLog` promises; what a crash does to
the files between event and rebuild is modelled in `WorkUnits` (`UnitCrashes`) and in
`ScopeContract` (`ScopeCrashes`). In `TaskGovernance` evidence, findings and risk acceptances
change with their event: a file of theirs that a crash leaves behind its event is left
to `EventStore`.

## What the runs check

Bounds are the constants of each `.cfg`. Deadlock is not checked: every process may be
idle for ever, and identifiers, keys and tokens run out.

| run | instance | shows |
|---|---|---|
| `lease_exclusive` | three clients, one doctor, three lease calls | Up to the first expiry the lease is a lock (`ExclusiveUntilExpiry`); an undisturbed call takes over an abandoned lease (`LoneTakeover`); with timely calls that acquire one at a time the protocol implements `ExclusiveLease`. Three calls are the first to have a victim, a thief and a bystander. |
| `lease_takeover_race` | two clients, three calls | *Violation* of `OneHolderWhileTimely`: finding 1. |
| `store_live` | two clients, three keys, one entity, leases may lapse | `NoLostUpdate`, `InSyncWhenIdle` while leases are exclusive, `RevisionsHaveNoGap` always. |
| `store_crash` | two clients, two keys, two entities, crashes | `LogReplayable`, `AckedDurable`, `AnswerIsOnFile`, `ImplementsTaskLog`. Keys bound the log; two events are enough for an attempt that dies with its event written and is run again, a collision and a transition that its guard no longer allows. |
| `store_repair` | one client, one lease-less rebuilder, two keys, one entity, crashes | `ProjectionFromLog`, and `EventuallyRepaired`. |
| `store_stale_entity` | one client, three keys, one entity, crashes | *Violation* of `NoLostUpdate`: finding 2. Three events are needed: a creation, an update that dies and one that follows it. |
| `work_units` | two units, two runs, two `run finish` processes that fail the run or give it a status of their own, crashes | `DependenciesDelivered`, `OneAnswer`, `CompletedIsDelivered`, `DeliveredStays`. Two finishers race each other, a result and a rebuild that may die as well. `Bounded` allows two finishes at a time, one beside an `overtaken` one and none after a `misled` command. |
| `work_units_rebuild` | one of each | *Violation* of `FinishedStays`: finding 3. |
| `governance` | one unit, code in two versions of which one leaves the narrow contract, one gate, one finding, one approver, two pieces of evidence, one amendment, crashes of the scope commands | `ApprovedIndependently`, `HistoryComplete`, `NothingStartsUnapproved`, `ClosesDelivered`, `ClosesProven`, `SeriousFindingsResolved`, `ClosesValid`. |
| `governance_rerun` | no finding, no crash | *Violation* of `RerunSuffices`: finding 4. |
| `governance_repairing` | no crash | *Violation* of `BlockingFindingIsRepaired`: finding 5. |
| `parts` | one caller and an importer of two rows over four identifiers, with a doctor; up to three event files; three work units with any dependencies; five identifiers; a branch of up to three commits with two pieces of evidence; changes of up to three files under five contracts and four ownership documents | the properties of `TaskDirectories`, `EventReplay`, `ConductorPlan`, `Identifiers`, `PullRequest` and `ChangeScope`. The six do not interact, so a behaviour is one of one of them. |

The bounds of `governance` are small because its states multiply: with one
amendment and two versions of the code every order of edit, commit, evidence,
approval, amendment and close occurs, and what more units, gates or findings could add
is in the theorems, which hold for any number. `Bounded` leaves out what is
done to a task after its end and more than three evidences, findings, waivers and
amendments together, which is what a waived finding beside its proof takes, two
pieces of evidence with anything else, and an index that is neither HEAD nor the tree;
the theorems have none of these limits. The three governance runs have `UnitCrashes = FALSE`;
`TaskGovernanceProofs` holds for both values.

Three commits are the base, one that changes code and one that only carries metadata
or moves a file, in either order, which is where the two walks over the history can part;
two pieces of evidence are an original and its promoted copy, or one for each side of a
commit. At most one gate fails or one commit is of an unusual kind, a gate does not overlap
with a close, and only commits follow a close; the theorems have none of these bounds, and TLC
also went through the 17 million states that three commits have without them.
Three files are enough for two that collide and a third that
one of the tables passes over. Of the five contracts one has a narrow list, one a denied
path, one no owner, one a single owner and one an unsafe pattern; in the four ownership
documents a path is decided by specificity against priority, by an exclusion, by priority, and
not at all. Single changes meet every contract, pairs and triples those that can pass.

Views (`VIEW`) hide what a process has finished with; symmetry is over
processes, keys, units, runs and identifiers, and is not used in a run with a
liveness property.

**Fairness.** Only `EventuallyRepaired` needs any: weak fairness of one rebuilder's
steps. It says that the operator keeps calling `mac task rebuild` (or the doctor)
and that a started repair is scheduled. Nothing is assumed of clients. The
property is conditional on `Quiet`: no command runs any more and no repair
dies.

## Findings

1. *Takeover race* (`repository.py:176`): the rename of an expired lease
   moves away whatever is at the path by then, also the fresh lease of another
   contender.
2. *Stale entity after a crash* (`cli.py:318`): an entity exists; an update of it dies
   between its event and the entity file; the next update builds on the file, which is
   stale, and the first one's change is gone from the log's last snapshot too.
3. *Half a snapshot* (`cli.py:425`): `run_finished` carries the work unit but not
   the run, so any rebuild revives the run.
4. *Evidence cannot be repeated* (`application/governance.py:196`): one stale or
   failed piece of evidence blocks the close for good.
5. *Unreachable states* (`cli.py:204`): no caller sets `blocking_findings_exist`, so
   no task enters `repairing`.

Modelling showed more of the same kind, which no document promises to be
otherwise (but for one docstring, named under *Log*) and no run is spent on:

- Lease. A crash between creation and payload leaves an empty lease that never
  expires. The doctor's sweep can delete a lease taken after its scan. A holder
  whose lease lapsed goes on writing and can give a revision twice.
- Log. An `--expected-revision` that is guessed ahead of the log can be accepted
  after a concurrent commit the caller never saw (`Ahead`, at 0 in the runs). A
  rebuild has no lease and can overwrite a newer projection. Two transitions
  with one key and different targets both report success when they race. Most retries report
  success and repair nothing: `transition` (`repository.py:297-302`), `_operation_replay`,
  `run register` (`cli.py:353-359`), `result submit` and `evidence record` (`cli.py:466-471`).
  `find_idempotency` matches the key of any event of any task. The docstring of
  `replay_events` (`events.py:17-18`) says that identical duplicates are ignored; the branch that
  would (`events.py:33-35`) cannot be reached, because `EVENT_ID_DUPLICATE` is raised before it
  (`events.py:31-32`). `ReplaysExactlyOneLog` states what the code does: any copy makes the log
  corrupt. This is a disagreement of document and code that no run of its own shows.
- Runs. A `run finish` without an expected revision overwrites a delivered unit.
  A crash after the event of `run register` lets the unit be given to a second run, until
  something rebuilds. After `run finish --status succeeded` the result is rejected and the unit
  stays running. `--status` is any text.
- Scope. `scope-contract.yaml` is not restored by a rebuild; a history file left
  by a crash blocks amendments for good; approvals are not bound to a version of the
  contract.
- Close. `evidence promote` leaves the original, which then blocks the close. An
  expired or unauthorized waiver blocks it even when its finding is resolved. No
  command records evidence of a review, so tasks that need one cannot close.
  `waiting_input`, `waiting_external`, `failed` and `repairing` are unreachable.
  `supersede` takes any text for the successor. Entities of a closed task can still
  be changed. `mac validate` judges closed tasks against the present code, so a
  later commit makes them invalid, although CI runs it. Evidence is bound to the
  code as it is after the gate has run, not before: a commit made while the gate runs
  gets evidence of a gate that started on other code, which is why
  `EvidenceBindsItsCode` has a condition on the start. The close decision is
  not bound to the tree at all. A promotion compares the recorded digest of the index with
  HEAD but not that of the working tree (`git.py:187`), so that with unstaged edits the gate
  ran on something else; `PassedIsTested` excepts promoted evidence for that reason.
- Pull requests. Of a file that is moved from the code into the metadata the kernel sees
  both names (`--name-status --find-renames`) and CI the new one (`--name-only`), so they
  disagree on the commit evidence is for; the properties say `NothingMoved`. CI takes an
  acceptance criterion without `required` for optional, the kernel for required. A task
  closes on workspace evidence with a dirty tree, which CI then refuses;
  `require_commit_bound_evidence` of `.agents/config.yaml:75` is read by nobody. CI accepts
  a task that is not closed and ignores superfluous stale evidence, which blocks the close.
- Scope. A rename that only changes the case of a name is refused as
  `SCOPE_CASE_COLLISION`. `governance_sensitive` of `authority.py` matches the patterns of the
  contract against patterns, as if they were paths. For level L2 one implementer other than the
  reviewer is enough.
- Directories. Two callers with one key at the same time create two tasks. The
  doctor empties the staging directory of a creator that was suspended for a
  minute. Neither the rename of a directory nor staging litter in `tasks-v6` is
  taken care of. Duplicate legacy identifiers are imported twice. `mac init`
  writes `config.yaml` first and refuses to run again after a crash.

## What is proved

Eight modules hold theorems, all by an inductive invariant; TLC checked the
candidates first. The constants are unbounded in all of them: any sets
of clients, keys, units, actors, paths, gates, versions, findings, files. Every
invariant and action property that a passing run checks is a theorem, some under the
hypotheses named here.

- `ControllerLeaseProofs`: `TypeOK`, `ExclusiveUntilExpiry`, `LoneTakeover` and
  `ImplementsExclusiveLease`, which name their own conditions. Before any expiry nobody is past
  `Inspect` on the way to a takeover (`NobodyTakesOver`), so whoever created the file
  finds it at the path, and live calls have different tokens. A call that nobody
  disturbs knows what is at the path at each of its steps (`AloneKnows`). For the
  refinement, `OwnersAtPath` says what timely calls that acquire one at a time owe each other:
  the file of a running call is at the path until it releases it, and a file about to be
  renamed is expired or gone. Finding 1 is what becomes of this when two of them acquire at a time.
- `EventStoreProofs`:

  | property | holds |
  |---|---|
  | `TypeOK`, `AckedDurable`, `RevisionsHaveNoGap` | always |
  | `LogReplayable`, `ProjectionFromLog` | until a holder lapses, if `Ahead = 0` |
  | `ImplementsTaskLog` | if `~Lapses` and `Ahead = 0` |
  | `AnswerIsOnFile` | if, besides, nobody rebuilds without the lease |
  | `NoLostUpdate`, `InSyncWhenIdle` | until a holder lapses, if `~Crashes`, `Ahead = 0` and nobody rebuilds without the lease |

  `Ahead = 0` says that no expected revision is guessed ahead of the log. What the
  hypotheses exclude does happen: finding 2 is a lost update after a crash, and the remarks
  under *Lease* and *Log* above are what lapsed holders, guesses and rebuilds do. The
  invariant: a process in its section holds the lease (`HolderInside`); what a holder has replayed is the whole
  log (`HolderExact`); every process has seen at most the log (`Bounded`); and a
  transition that was decided and whose expected revision is still current would be
  decided so again (`DecidedCurrent`). The gap between the two lease sections of a
  transition is closed by that one alone. For the files it adds that what a holder has
  written is the last event (`WrittenLast`), that a rebuild under the lease has restored
  what it no longer lists (`Restoring`), and that a base read from a file is the last
  snapshot for as long as the expected revision is current (`BasesCurrent`): this is what
  connects the read outside the lease to the write inside.
- `EventReplayProofs`: `ReplaysExactlyOneLog` and `ProjectsTheLog`, for any number of
  event files with anything in them, copies of one event included. The loop is an event per step, so the invariant does the
  induction: what was read has one event for each revision with a key and an identifier of
  its own (`OneEach`), precedes what is unread (`ReadInOrder`), and leads to
  `projected` (`Followed`); and each way to fail shows that the files are no log.
- `WorkUnitsProofs`: the type invariant and all four properties of the run, with crashes and
  without. The strengthening is about the log, which no crash changes, and says how the files
  follow it (`FilesFollow`: a file behind the log shows an earlier snapshot). It links
  runs, results and units (`ResultsOfRuns`; `UnitsAnswered`; `Agrees`) and says of a finisher in
  the middle of its steps that its run was known and started. `DependenciesDelivered` and
  `CompletedIsDelivered` hold whatever dies. `OneAnswer` holds as long as no command was
  `misled`, and `DeliveredStays` as long as none was `misled` and no finish `overtaken`: those
  two are the only ways in which a delivered unit is taken back or given out again.
  Besides, `NoneWaitForEachOther`: dependencies have no cycle, because the name of a new unit
  is in use nowhere, not even as the dependency of another. So the Conductor compiler, which
  refuses only cycles (`CyclesRefused`), refuses no complete selection of units that `mac` wrote.
- `TaskGovernanceProofs`: the type invariant, the three invariants of the contract and
  of work, and the four action properties of the close. `ApprovalsSigned` (every
  approval on file is in the log) is what carries approvals over crashes;
  `ContextHolds` says that a condition in the context is true of the state. The
  composition uses the invariant of `WorkUnitsProofs` unchanged, since every step
  of a task is a step of `WorkUnits` or leaves its entities alone (`PartsOfSteps`).
  `ClosesProven` needs `OriginalsKept`: what was promoted still has its original, whose
  subject is a workspace, and that blocks any close on the commit.
- `TaskCreationProofs`: `VisibleIsWhole`, `OneTaskPerOrigin`, `ImportLeavesNoRow` and
  `AnswersAgree` of `TaskDirectories`, for any number of keys, rows, identifiers and
  doctors. The doctor touches no directory of a running writer or one nobody has begun (`WritersOwn`,
  `Abandoned`), so a directory is whole when it is published; whoever is about to create a task has
  looked for it, and nobody else creates it (`FreshWriters`, which is where two callers
  with one key would break it: the model gives each key to one caller); and the importer
  accounts for each row it has passed (`RowsAccounted`). `IdsIncrease` of `Identifiers`
  follows from the fact that the generator remembers the greatest identifier it gave out.
- `PullRequestProofs`: all four properties of `PullRequest`. `HistoryOK` says that the branch
  has a base, that a commit of metadata leaves the code as it was, and hence that the code at
  the last commit of code is HEAD's (`IsLast` is shown to have exactly one solution);
  `EvidenceOK` that evidence of a commit was recorded with index and tree at its code;
  `OriginalsOK` as above; `GatesOK` and `DecisionsOK` carry what a command saw over the
  steps in which it does nothing, as long as its expected revision is current.
  And `CleanIsWithinScope` of `ChangeScope`, for any patterns, ownership documents and diffs of any
  length: `ScopeInv` says that the two tables have one name for each key of what was seen
  and that `clean` is the verdict on it. That keeping the first name of a key is enough to
  find every clash is `TablesFindClashes`; that the best-ranked claim is the one owner the
  declarative definition names is `OwnerIsOnlyWinner`.
- `ConductorPlanProofs`: `CyclesRefused`, `LayersAreEarliest`,
  `WorkFollowsDependencies`. What a unit waits for is what it depends on and is not
  laid (`Waits`); units that wait for each other are never laid (`KnotsStay`).

Each assumption on a constant is an `ASSUME` of the module that declares it, which
TLC evaluates in every run. Where a fact about finite sets needs induction (a set of
patterns has a best one), the proofs use that strict inclusion of finite sets is
well-founded (`FiniteHasFirst`), since the library's induction theorems take
operators and cannot be used.

Only model-checked: `EventuallyRepaired`, which is liveness. The type invariants of
`WorkUnits` and `EventStore` are proved and no longer checked by a run of their own. The
five violations are counterexamples, which only TLC gives.

## What is not modelled

What a pattern matches and what a name is in a normal form (constants of `ChangeScope`;
`Touches` is what `TaskGovernance` sees of a diff). Policy files, schemas and the security
scan, reports, the index and handoff texts, the launch packets of `plain_terminal` and the
records of `agtx`: they parse or render one file, and a command either stops before its first
write or goes on. The checks of `mac doctor` and `mac validate` other than
`validate_task_invariants` only read. `parse_transitions` and `validate_workflow_invariants`:
the workflow is the shipped one; the code reads it from the repository, and a test keeps the
file equal to the built-in table. `evaluate_review_independence`, since no command records
evidence of a review. Power loss, after which a rename that was not synced is undone. Output
formats and exit codes. Time is a free order of expiries. The contents of documents are model
values. In `PullRequest`, findings and approvals are left to `TaskGovernance`, and other
branches and merges do not occur, since both programs follow first parents only.

## Plan

Done: the lease, the log and its store, replay, work units, scope, the life of a
task, task directories, the Conductor plan, identifiers, evidence against a developer who
works on and against CI, ownership and change scope, and the proofs above.

Left:

1. `NoLostUpdate` under crashes of processes whose retries come before any other
   command: the discipline that would avoid finding 2.
2. The refinement of `WorkUnits` by `TaskGovernance` as a theorem of its own, for which
   `UnitsNext` has to allow a commit that touches no unit.
3. `parse_transitions` with `validate_workflow_invariants`, and the v5 state map.

----------------------------- MODULE EventStore -----------------------------
(***************************************************************************)
(* The event store of one task, FilesystemTaskRepository in repository.py, *)
(* with the commands of cli.py that append to it.  Every client is a       *)
(* process running one CLI command at a time.  A command                   *)
(*   - looks for its idempotency key without holding the lease;            *)
(*   - if it is a state transition, enters the lease, replays the log,     *)
(*     evaluates the guards and leaves the lease again;                    *)
(*   - if it updates an entity, reads the entity's file, which must exist; *)
(*     if it creates one, it draws a new identifier instead;               *)
(*   - calls append_event, which enters the lease, checks the key and the  *)
(*     expected revision against the log, writes the event file, then the  *)
(*     entity file, then task.yaml, and leaves the lease.                  *)
(* A process can die between any two of these.  Rebuilders run             *)
(* `mac task rebuild` or the doctor's repair, which write the projection   *)
(* without taking the lease.                                               *)
(*                                                                         *)
(* A projection file is represented by the revision of the event it was    *)
(* projected from, so that stale is smaller.                               *)
(***************************************************************************)
EXTENDS EventLog

CONSTANTS Client, Rebuilder,
          Free, Orphan,   \* values of the lease, see ExclusiveLease
          Ahead,          \* how far an expected revision may exceed those seen
          Crashes,        \* processes may die
          Lapses          \* a live holder's lease may expire and be taken over

ASSUME StoreParameters ==
    /\ {Free, Orphan} \cap (Client \cup Rebuilder) = {} /\ Free # Orphan
    /\ Client \cap Rebuilder = {}
    /\ Ahead \in Nat /\ Crashes \in BOOLEAN /\ Lapses \in BOOLEAN

VARIABLES
    log,      \* the event files, in the order they were written
    yaml,     \* the revision of task.yaml
    file,     \* the revision of the snapshot in each entity file
    lease,    \* who holds the controller lease
    pc,       \* the next step of each process
    ask,      \* the command each client runs: an event that lacks `new`
    expected, \* its --expected-revision
    seen,     \* the log's length when the process replayed it
    todo,     \* the entity files a rebuild still has to write
    acked,    \* history: the keys whose commands were reported successful
    lapsed    \* history: a live holder's lease has been taken over

disk == <<log, yaml, file>>
call == <<ask, expected>>
view == <<seen, todo>>
vars == <<disk, lease, pc, call, view, acked, lapsed>>

Lease == INSTANCE ExclusiveLease

Process   == Client \cup Rebuilder
InSection == {"evaluate", "decided", "check", "write", "materialize", "index", "done", "leave"}
Rebuilding == {"rebuild", "rebuild_files"}
Steps     == {"idle", "guard", "load", "append"} \cup InSection \cup Rebuilding

\* The command's event, new_revision aside.
NewTransition(k, s, t) == [type |-> "transition", key |-> k, new |-> 0, from |-> s, to |-> t]
NewUpdate(k, e, r)     == [type |-> "update", key |-> k, new |-> 0, ent |-> e, base |-> r]

TypeOK ==
    /\ log \in Seq(Event)
    /\ yaml \in Nat /\ file \in [Entity -> Nat]
    /\ Lease!TypeOK
    /\ pc \in [Process -> Steps]
    /\ ask \in [Client -> Event] /\ expected \in [Client -> Nat]
    /\ seen \in [Process -> Nat] /\ todo \in [Process -> SUBSET Entity]
    /\ acked \subseteq Key /\ lapsed \in BOOLEAN

Init ==
    /\ log = <<>> /\ yaml = 0 /\ file = [e \in Entity |-> 0]
    /\ lease = Free
    /\ pc = [p \in Process |-> "idle"]
    /\ \E k \in Key : ask = [c \in Client |-> NewTransition(k, Start, Start)]
    /\ expected = [c \in Client |-> 0]
    /\ seen = [p \in Process |-> 0] /\ todo = [p \in Process |-> {}]
    /\ acked = {} /\ lapsed = FALSE

Goto(p, step) == pc' = [pc EXCEPT ![p] = step]

\* The events of the log committed under key k.
Existing(k) == {log[i] : i \in {j \in DOMAIN log : log[j].key = k}}

-----------------------------------------------------------------------------
(* Before append_event.                                                    *)

\* The latest revision a user can have seen: in task.yaml, or in the message of a
\* REVISION_CONFLICT, which is raised inside the lease.
Known == IF lease = Free THEN Len(log) ELSE yaml

\* A new command with its --expected-revision, seen or (by Ahead) guessed.  A
\* transition's key has no event yet; not every entity command looks.
Call(c, a, x) ==
    /\ pc[c] = "idle"
    /\ a.type = "transition" => Existing(a.key) = {}
    /\ x <= Known + Ahead
    /\ ask' = [ask EXCEPT ![c] = a]
    /\ expected' = [expected EXCEPT ![c] = x]
    /\ Goto(c, IF a.type = "transition" THEN "guard" ELSE "load")
    /\ UNCHANGED <<disk, lease, view, acked, lapsed>>

\* An identifier nobody has used, as `prefixed` draws it (identifiers that the caller
\* chooses, those of results, are in WorkUnits).
Fresh(e) ==
    /\ \A i \in DOMAIN log : ~(log[i].type = "update" /\ log[i].ent = e)
    /\ \A c \in Client : ~(pc[c] # "idle" /\ ask[c].type = "update" /\ ask[c].ent = e)

\* `work-unit new` and `finding open`: the first snapshot of a new entity, with no
\* file to read and no look-up of the key.
Create(c, a, x) ==
    /\ pc[c] = "idle"
    /\ a.type = "update" /\ Fresh(a.ent)
    /\ x <= Known + Ahead
    /\ ask' = [ask EXCEPT ![c] = a]
    /\ expected' = [expected EXCEPT ![c] = x]
    /\ Goto(c, "append")
    /\ UNCHANGED <<disk, lease, view, acked, lapsed>>

\* A repeated command: the key's event is of the command's type (and leads to its
\* target, and the log replays up to it), so the command reports it.  It repairs
\* nothing, whatever the first attempt left undone.
Retry(c, a) ==
    /\ pc[c] = "idle"
    /\ \E e \in Existing(a.key) :
          /\ e.type = a.type
          /\ a.type = "transition" =>
                e.to = a.to /\ Replayable(SelectSeq(log, LAMBDA x : x.new <= e.new))
    /\ acked' = acked \cup {a.key}
    /\ UNCHANGED <<disk, lease, pc, call, view, lapsed>>

\* `with self.lease(...)`, or LEASE_CONFLICT.
Enter(c) ==
    /\ pc[c] \in {"guard", "append"}
    /\ \/ /\ Lease!Acquire(c)
          /\ Goto(c, IF pc[c] = "guard" THEN "evaluate" ELSE "check")
       \/ /\ lease # Free
          /\ Goto(c, "idle")
          /\ UNCHANGED lease
    /\ UNCHANGED <<disk, call, view, acked, lapsed>>

\* Mutant of Allowed: the guards of the transition are not evaluated.
AllowedUnguarded(c, s) == Replayable(log) /\ IsState(log, Len(log), s)

\* Replay the log: the task is in state s, and the guards of s -> target hold.
Allowed(c, s) ==
    Replayable(log) /\ IsState(log, Len(log), s) /\ <<s, ask[c].to>> \in Move

Evaluate(c) ==
    /\ pc[c] = "evaluate"
    /\ \/ \E s \in State :
             /\ Allowed(c, s)
             /\ ask' = [ask EXCEPT ![c].from = s]
             /\ Goto(c, "decided")
       \/ /\ \A s \in State : ~Allowed(c, s)
          /\ Goto(c, "leave")
          /\ UNCHANGED ask
    /\ UNCHANGED <<disk, lease, expected, view, acked, lapsed>>

\* The end of the lease section: only the own token's file is unlinked.
Release(c) == IF lease = c THEN Lease!Release(c) ELSE UNCHANGED lease

LeaveGuard(c) ==
    /\ pc[c] = "decided"
    /\ Release(c)
    /\ Goto(c, "append")
    /\ UNCHANGED <<disk, call, view, acked, lapsed>>

\* Read the entity's file; the new snapshot is computed from it.  Without a file
\* the command ends with ENTITY_NOT_FOUND.
Load(c) ==
    /\ pc[c] = "load"
    /\ IF file[ask[c].ent] = 0
       THEN Goto(c, "idle") /\ UNCHANGED ask
       ELSE /\ ask' = [ask EXCEPT ![c].base = file[ask[c].ent]]
            /\ Goto(c, "append")
    /\ UNCHANGED <<disk, lease, expected, view, acked, lapsed>>

-----------------------------------------------------------------------------
(* append_event.                                                           *)

\* Mutant of Replay: a rebuild forgets the entity files.
ReplayTaskOnly(p) ==
    /\ seen' = [seen EXCEPT ![p] = Len(log)]
    /\ todo' = [todo EXCEPT ![p] = {}]

\* list_events and replay_events: what the process knows of the log from now on.
Replay(p) ==
    /\ seen' = [seen EXCEPT ![p] = Len(log)]
    /\ todo' = [todo EXCEPT ![p] = Entity]

\* Mutant of Committed: the key is not looked up again under the lease.
CommittedUnknown(c) == {}

\* _existing_idempotency.
Committed(c) == Existing(ask[c].key)

\* Mutants of Accepted: any expected revision will do; a log that does not
\* replay is appended to.
AcceptedBlindly(c) == Replayable(log)
AcceptedCorrupt(c) == Len(log) = expected[c]

\* The log replays, the expected revision is its revision, and the entity file of
\* a new entity does not exist (ENTITY_ID_CONFLICT).
Accepted(c) ==
    /\ Replayable(log) /\ Len(log) = expected[c]
    /\ ask[c].type = "update" /\ ask[c].base = 0 => file[ask[c].ent] = 0

\* Under the lease: report an existing event of the same type after a rebuild,
\* or go on to write a new one.
Check(c) ==
    /\ pc[c] = "check"
    /\ Replay(c)
    /\ LET old == Committed(c)
           sameType == \E e \in old : e.type = ask[c].type
       IN  Goto(c, IF old # {} /\ sameType /\ Replayable(log) THEN "rebuild"
                   ELSE IF old = {} /\ Accepted(c) THEN "write" ELSE "leave")
    /\ UNCHANGED <<disk, lease, call, acked, lapsed>>

\* Mutant of NewRevision: counted from the wrong end.
NewRevisionBehind(c) == seen[c] - 1

NewRevision(c) == seen[c] + 1
NewEvent(c) == [ask[c] EXCEPT !.new = NewRevision(c)]

\* Mutant of WriteEvent: the event is not on disk yet.
WriteEventLater(c) ==
    /\ pc[c] = "write"
    /\ Goto(c, IF ask[c].type = "update" THEN "materialize" ELSE "index")
    /\ UNCHANGED <<disk, lease, call, view, acked, lapsed>>

\* atomic_write_json(event_path, event): the event is durable.
WriteEvent(c) ==
    /\ pc[c] = "write"
    /\ log' = Append(log, NewEvent(c))
    /\ Goto(c, IF ask[c].type = "update" THEN "materialize" ELSE "index")
    /\ UNCHANGED <<yaml, file, lease, call, view, acked, lapsed>>

Materialize(c) ==
    /\ pc[c] = "materialize"
    /\ file' = [file EXCEPT ![ask[c].ent] = NewRevision(c)]
    /\ Goto(c, "index")
    /\ UNCHANGED <<log, yaml, lease, call, view, acked, lapsed>>

\* replay_events([*events, event]), which may raise, then task.yaml.
Index(c) ==
    /\ pc[c] = "index"
    /\ IF Replayable(Append(SubSeq(log, 1, seen[c]), NewEvent(c)))
       THEN yaml' = NewRevision(c) /\ Goto(c, "done")
       ELSE UNCHANGED yaml /\ Goto(c, "leave")
    /\ UNCHANGED <<log, file, lease, call, view, acked, lapsed>>

\* Mutant of Succeeded: a rejected command reports success as well.
SucceededAlways(c) == TRUE

Succeeded(c) == pc[c] = "done"

Leave(c) ==
    /\ pc[c] \in {"done", "leave"}
    /\ Release(c)
    /\ acked' = IF Succeeded(c) THEN acked \cup {ask[c].key} ELSE acked
    /\ Goto(c, "idle")
    /\ UNCHANGED <<disk, call, view, lapsed>>

-----------------------------------------------------------------------------
(* rebuild_task: replay the log once, write task.yaml, then every entity   *)
(* the log has a snapshot of.                                              *)

StartRebuild(r) ==
    /\ pc[r] = "idle" /\ Replayable(log)
    /\ Replay(r)
    /\ Goto(r, "rebuild")
    /\ UNCHANGED <<disk, lease, call, acked, lapsed>>

RebuildYaml(p) ==
    /\ pc[p] = "rebuild"
    /\ yaml' = seen[p]
    /\ Goto(p, "rebuild_files")
    /\ UNCHANGED <<log, file, lease, call, view, acked, lapsed>>

RebuildFile(p, e) ==
    /\ pc[p] = "rebuild_files" /\ e \in todo[p]
    /\ \E r \in 0..seen[p] :
          /\ IsSnapshot(log, seen[p], e, r)
          /\ file' = IF r = 0 THEN file ELSE [file EXCEPT ![e] = r]
    /\ todo' = [todo EXCEPT ![p] = @ \ {e}]
    /\ UNCHANGED <<log, yaml, lease, pc, call, seen, acked, lapsed>>

FinishRebuild(p) ==
    /\ pc[p] = "rebuild_files" /\ todo[p] = {}
    /\ Goto(p, IF p \in Client THEN "done" ELSE "idle")
    /\ UNCHANGED <<disk, lease, call, view, acked, lapsed>>

-----------------------------------------------------------------------------
(* Crashes and the lease's time to live.                                   *)

Crash(p) ==
    /\ Crashes /\ pc[p] # "idle"
    /\ IF lease = p THEN Lease!Die(p) ELSE UNCHANGED lease
    /\ Goto(p, "idle")
    /\ UNCHANGED <<disk, call, view, acked, lapsed>>

Reclaim == Lease!Reclaim /\ UNCHANGED <<disk, pc, call, view, acked, lapsed>>

\* A holder outlives its lease, and a contender moves the lease file away.
Lapse ==
    /\ Lapses /\ lease \in Client
    /\ lease' = Free
    /\ lapsed' = TRUE
    /\ UNCHANGED <<disk, pc, call, view, acked>>

Commands == {NewTransition(k, Start, t) : k \in Key, t \in State}
              \cup {NewUpdate(k, e, 0) : k \in Key, e \in Entity}

Next ==
    \/ \E c \in Client :
          \/ \E a \in Commands :
                Retry(c, a) \/ \E x \in 0..(Len(log) + Ahead) : Call(c, a, x) \/ Create(c, a, x)
          \/ Enter(c) \/ Evaluate(c) \/ LeaveGuard(c) \/ Load(c) \/ Check(c)
          \/ WriteEvent(c) \/ Materialize(c) \/ Index(c) \/ Leave(c)
    \/ \E r \in Rebuilder : StartRebuild(r)
    \/ \E p \in Process :
          \/ RebuildYaml(p) \/ FinishRebuild(p) \/ Crash(p)
          \/ \E e \in Entity : RebuildFile(p, e)
    \/ Reclaim \/ Lapse

Spec == Init /\ [][Next]_vars

-----------------------------------------------------------------------------
(* Properties.                                                             *)

\* The log always replays: no revision is skipped or used twice, no key has two
\* events, every transition leaves the state the task is in (replay_events).
LogReplayable == Replayable(log)

\* A command that reported success is in the log, whatever crashes or retries
\* follow: the event is durable before anything is reported.
AckedDurable == acked \subseteq Keys(log)

\* As long as leases are exclusive, every snapshot was computed from the entity's
\* previous snapshot: no command overwrites a change it has not seen.
NoLostUpdate ==
    ~lapsed => \A i \in DOMAIN log :
        log[i].type = "update" => IsSnapshot(log, i - 1, log[i].ent, log[i].base)

\* task.yaml and the entity files are the projection of the log.
InSync == yaml = Len(log) /\ \A e \in Entity : IsSnapshot(log, Len(log), e, file[e])

\* ... whenever no process is writing, as long as leases are exclusive.
InSyncWhenIdle ==
    ~lapsed /\ lease = Free /\ (\A r \in Rebuilder : pc[r] = "idle") => InSync

\* Revisions may collide when two holders overlap, but none is ever missing.
RevisionsHaveNoGap ==
    \A i \in DOMAIN log : log[i].new = 1 \/ \E j \in DOMAIN log : log[j].new = log[i].new - 1

\* Nothing is projected before it is durable: task.yaml and the entity files
\* only ever show events that are in the log.
ProjectionFromLog ==
    /\ yaml <= Len(log)
    /\ \A e \in Entity : file[e] # 0 =>
          file[e] \in DOMAIN log /\ log[file[e]].type = "update" /\ log[file[e]].ent = e

\* What append_event answers can be read back: as the lease section ends with success,
\* task.yaml shows the log's last event, and the entity the command's event is about
\* has its last snapshot on file, also when the event is an earlier attempt's that
\* died before it wrote a file.  (_write_entity answers with what it reads there.)
AnswerIsOnFile ==
    \A c \in Client : pc[c] = "done" =>
        /\ yaml = Len(log)
        /\ \A i \in DOMAIN log : log[i].type = "update" /\ log[i].key = ask[c].key =>
              IsSnapshot(log, Len(log), log[i].ent, file[log[i].ent])

\* After the last command and the last crash, repairing brings task.yaml and the
\* entity files in sync for good.
Quiet ==
    /\ \A c \in Client : pc[c] = "idle" /\ pc'[c] = "idle"
    /\ \A r \in Rebuilder : Crash(r) => FinishRebuild(r)
EventuallyRepaired == <>[][Quiet]_vars => <>[]InSync

\* The operator keeps running the repair, and a running repair keeps running.
RepairStep(r) ==
    StartRebuild(r) \/ RebuildYaml(r) \/ (\E e \in Entity : RebuildFile(r, e)) \/ FinishRebuild(r)
RepairedSpec == Spec /\ \A r \in Rebuilder : WF_vars(RepairStep(r))

\* The store implements the atomic log of TaskLog.
Abstract == INSTANCE TaskLog
ImplementsTaskLog == Abstract!Spec
=============================================================================

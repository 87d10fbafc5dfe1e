---------------------------- MODULE EventReplay ----------------------------
(***************************************************************************)
(* replay_events of events.py: the loop that every command of a task goes  *)
(* through, one event per step, over whatever event files the directory    *)
(* holds.  The files are tracked by Git, so a merge or a lost file can     *)
(* leave any number of them: two events of one revision, a gap, a second   *)
(* creation, copies of one event under two names.  Reading stops at the    *)
(* first event that does not continue the log (every such error is a       *)
(* CORRUPTION and no projection is returned).                              *)
(*                                                                         *)
(* EventLog states declaratively which logs replay and the state they lead *)
(* to, and EventStore is written and proved over those definitions; the    *)
(* properties below compare the loop with them.                            *)
(***************************************************************************)
EXTENDS Integers, FiniteSets

CONSTANTS IdemKey,   \* idempotency keys
          TaskState, \* states of a task
          None,      \* no value
          Inputs     \* the sets of event files to replay

\* An event file: `file` is its name, which the loop does not look at, so that two
\* files may hold the same event.  A creation is `whole` if its payload has a task,
\* whose state is `to`; otherwise `to` is the payload's state, which may be missing.
\* A closing event is task_completed, task_cancelled or task_superseded; "other" is
\* every type that leaves the state alone.
Event == [file : Nat, whole : BOOLEAN, id : Nat, key : IdemKey, expected : Int, new : Nat,
          type : {"created", "transition", "closing", "other"},
          from : TaskState \cup {None}, to : TaskState \cup {None}]

\* The projection on disk that rebuild passes for such an old event.
Seed == [mine : BOOLEAN, state : TaskState]

ASSUME InputsAreFiles ==
    /\ None \notin TaskState
    /\ \A F \in Inputs :
          /\ IsFiniteSet(F)
          /\ \A e \in F :
                /\ e \in Event
                /\ e.type \in {"transition", "closing"} \/ e.whole => e.to \in TaskState
                /\ e.type = "transition" => e.from \in TaskState

VARIABLES files,      \* the event files
          seed,       \* the initial projection, or None
          unread,     \* the events the loop has not reached
          projected,  \* the projection's state, or None
          revision, seenKeys, seenIds,
          verdict     \* "reading", "replayed" or "corrupt"

replayVars == <<files, seed, unread, projected, revision, seenKeys, seenIds, verdict>>

ReplayInit ==
    /\ files \in Inputs
    /\ seed \in (IF \E e \in files : e.type = "created" /\ ~e.whole THEN Seed ELSE {}) \cup {None}
    /\ unread = files
    /\ projected = None /\ revision = -1
    /\ seenKeys = {} /\ seenIds = {}
    /\ verdict = "reading"

\* sorted by (new_revision, event_id).
Precedes(e, f) == e.new < f.new \/ (e.new = f.new /\ e.id <= f.id)

\* What the first event gives: the state of its task; without one the seed's state,
\* which the payload's own state overrides.
Initial(e) == IF e.to # None THEN e.to ELSE seed.state

Starts(e) == e.type = "created" /\ (e.whole \/ (seed # None /\ seed.mine))

\* Mutant of Continues: keys are not compared.
ContinuesAnyKey(e) ==
    /\ e.id \notin seenIds
    /\ e.expected = revision /\ e.new = revision + 1
    /\ revision = -1 => Starts(e)
    /\ e.type = "transition" => e.from = projected

\* A copy of an event that was read is refused as well (EVENT_ID_DUPLICATE): its
\* event_id has been seen, and that is looked at before the branch that would skip an
\* identical event, which therefore is never reached.  The docstring of
\* replay_events says that copies are ignored.
Continues(e) ==
    /\ e.id \notin seenIds /\ e.key \notin seenKeys
    /\ e.expected = revision /\ e.new = revision + 1
    /\ revision = -1 => Starts(e)
    /\ e.type = "transition" => e.from = projected

\* Mutant of Target: only transitions move the task.
TargetOfTransitions(e) == CASE revision = -1 -> Initial(e)
                            [] revision # -1 /\ e.type = "transition" -> e.to
                            [] OTHER -> projected

Target(e) == CASE revision = -1 -> Initial(e)
               [] revision # -1 /\ e.type \in {"transition", "closing"} -> e.to
               [] OTHER -> projected

Apply ==
    \E e \in unread :
        /\ \A f \in unread : Precedes(e, f)
        /\ verdict = "reading" /\ Continues(e)
        /\ projected' = Target(e)
        /\ revision' = e.new
        /\ seenKeys' = seenKeys \cup {e.key} /\ seenIds' = seenIds \cup {e.id}
        /\ unread' = unread \ {e}
        /\ UNCHANGED <<files, seed, verdict>>

Refuse ==
    /\ verdict = "reading"
    /\ \/ files = {}
       \/ \E e \in unread : (\A f \in unread : Precedes(e, f)) /\ ~Continues(e)
    /\ verdict' = "corrupt"
    /\ UNCHANGED <<files, seed, unread, projected, revision, seenKeys, seenIds>>

Return ==
    /\ verdict = "reading" /\ unread = {} /\ files # {}
    /\ verdict' = "replayed"
    /\ UNCHANGED <<files, seed, unread, projected, revision, seenKeys, seenIds>>

ReplayNext == Apply \/ Refuse \/ Return

ReplaySpec == ReplayInit /\ [][ReplayNext]_replayVars

-----------------------------------------------------------------------------
(* Properties.                                                             *)

\* The files as a log of EventLog: the event of each revision after the
\* first, a closing event as a transition from wherever the task was.
At(i) == CHOOSE e \in files : e.new = i

MovesTask(e) == e.type \in {"transition", "closing"}

Highest(S) == CHOOSE j \in S : \A k \in S : k <= j

\* The state after the event of revision i: where the last event up to it that
\* moves the task took it, or what the first event gives.
StateAt(i) ==
    LET moves == {j \in 1..i : MovesTask(At(j))}
    IN  IF moves = {} THEN Initial(At(0)) ELSE At(Highest(moves)).to

AsLog == [i \in 1..Cardinality(files) - 1 |->
            LET e == At(i)
            IN  IF MovesTask(e)
                THEN [type |-> "transition", key |-> e.key, new |-> e.new, to |-> e.to,
                      from |-> IF e.type = "closing" THEN StateAt(i - 1) ELSE e.from]
                ELSE [type |-> "update", key |-> e.key, new |-> e.new, ent |-> None, base |-> 0]]

Log == INSTANCE EventLog WITH Key <- IdemKey, Entity <- {None}, State <- TaskState,
                              Start <- StateAt(0), Move <- {}

\* The files are one log: one event for each revision from 0, each under a key
\* and an id of its own, the first of them a creation, the rest what EventLog
\* calls replayable.
OneLog ==
    /\ files # {}
    /\ {e.new : e \in files} = 0..Cardinality(files) - 1
    /\ \A e \in files : e.expected = e.new - 1
    /\ \A e, f \in files : e.id = f.id \/ e.key = f.key => e = f
    /\ Starts(At(0))
    /\ Log!Replayable(AsLog)

\* replay_events fails closed and nothing more: it returns a projection for
\* exactly the files that are one log, in whatever way others came about (a merge
\* of two branches, a deleted, an edited or a copied file).  Files that are one log
\* but for a copy are not: every file counts.
ReplaysExactlyOneLog ==
    /\ verdict = "replayed" => OneLog
    /\ verdict = "corrupt" => ~OneLog

\* What it returns is the log's last state and length, whatever events that
\* leave the state alone lie between.
ProjectsTheLog ==
    verdict = "replayed" => /\ revision = Cardinality(files) - 1
                            /\ Log!IsState(AsLog, revision, projected)

=============================================================================

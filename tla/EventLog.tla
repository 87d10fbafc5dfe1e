------------------------------ MODULE EventLog ------------------------------
(***************************************************************************)
(* The event log of one task: the files events/EVT-*.json that follow      *)
(* task_created, in the order they were written, and what replay_events    *)
(* (events.py) makes of them.  An event keeps the fields replay and the    *)
(* commands tell apart: its type, idempotency key and new_revision, the    *)
(* source and target of a state transition, and for every other event the  *)
(* entity whose snapshot it carries with `base`, the revision of the       *)
(* snapshot the new one was computed from (0: the entity's first version). *)
(* expected_revision is new_revision - 1 by construction.                  *)
(***************************************************************************)
EXTENDS Naturals, Sequences

CONSTANTS Key,      \* idempotency keys
          Entity,   \* entity files of the task (work units, findings, ...)
          State,    \* task states
          Start,    \* the state of the task_created event's task
          Move      \* the pairs of states the workflow's guards let through

ASSUME LogParameters == Start \in State /\ Move \subseteq State \X State

Transition == [type : {"transition"}, key : Key, new : Nat, from : State, to : State]
Update     == [type : {"update"}, key : Key, new : Nat, ent : Entity, base : Nat]
Event      == Transition \cup Update

Keys(lg) == {lg[i].key : i \in DOMAIN lg}

\* After its first n events the task is in state s: the target of the last
\* transition among them, or the state it was created in.
IsState(lg, n, s) ==
    \/ s = Start /\ \A i \in 1..n : lg[i].type # "transition"
    \/ \E i \in 1..n :
          /\ lg[i].type = "transition" /\ lg[i].to = s
          /\ \A j \in 1..n : lg[j].type = "transition" => j <= i

\* r is the revision of the last snapshot of e among the first n events, 0 if
\* none of them carries one.
IsSnapshot(lg, n, e, r) ==
    \/ r = 0 /\ \A i \in 1..n : ~(lg[i].type = "update" /\ lg[i].ent = e)
    \/ /\ r \in 1..n /\ lg[r].type = "update" /\ lg[r].ent = e
       /\ \A j \in 1..n : lg[j].type = "update" /\ lg[j].ent = e => j <= r

\* What replay_events accepts: revisions without gap or rollback, one event per
\* idempotency key, and transitions that start where the task is.
Contiguous(lg)   == \A i \in DOMAIN lg : lg[i].new = i
KeysUnique(lg)   == \A i, j \in DOMAIN lg : lg[i].key = lg[j].key => i = j
SourcesMatch(lg) == \A i \in DOMAIN lg :
                        lg[i].type = "transition" => IsState(lg, i - 1, lg[i].from)
Replayable(lg)   == Contiguous(lg) /\ KeysUnique(lg) /\ SourcesMatch(lg)
=============================================================================

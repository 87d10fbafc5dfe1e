------------------------------- MODULE TaskLog ------------------------------
(***************************************************************************)
(* What the event store promises (abstract specification): one atomic,     *)
(* append-only log per task.  A commit puts one event at the end, under a  *)
(* key that was never used, and a transition leaves the state the task is  *)
(* in along an allowed move.  A caller is told of success only for a key   *)
(* that is committed, and stays right.  EventStore implements this with    *)
(* leases, files and crashes.                                              *)
(***************************************************************************)
EXTENDS EventLog

VARIABLES log,     \* the committed events
          acked    \* the keys whose commands were reported successful

Init == log = <<>> /\ acked = {}

Commit(e) ==
    /\ e.key \notin Keys(log)
    /\ log' = Append(log, e)
    /\ UNCHANGED acked

CommitTransition(k, s, t) ==
    /\ IsState(log, Len(log), s) /\ <<s, t>> \in Move
    /\ Commit([type |-> "transition", key |-> k, new |-> Len(log) + 1, from |-> s, to |-> t])

CommitUpdate(k, e, r) ==
    Commit([type |-> "update", key |-> k, new |-> Len(log) + 1, ent |-> e, base |-> r])

Report(k) ==
    /\ k \in Keys(log)
    /\ acked' = acked \cup {k}
    /\ UNCHANGED log

Next ==
    \E k \in Key :
        \/ \E s, t \in State : CommitTransition(k, s, t)
        \/ \E e \in Entity, r \in 0..Len(log) : CommitUpdate(k, e, r)
        \/ Report(k)

Spec == Init /\ [][Next]_<<log, acked>>
=============================================================================

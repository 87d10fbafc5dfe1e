--------------------------- MODULE ExclusiveLease ---------------------------
(***************************************************************************)
(* What FilesystemTaskRepository.lease (repository.py) promises its        *)
(* callers: a task has at most one controller at a time.  A controller     *)
(* that dies inside its section leaves the lease behind; after its time to *)
(* live the abandoned lease is reclaimed and the next controller may       *)
(* enter.  ControllerLease is the file protocol behind this promise, and   *)
(* EventStore relies on it.                                                *)
(***************************************************************************)
CONSTANTS Client,   \* the processes that may control the task
          Free,     \* no lease
          Orphan    \* a lease whose owner has died

VARIABLE lease

TypeOK == lease \in Client \cup {Free, Orphan}

Init == lease = Free

Acquire(c) == lease = Free /\ lease' = c
Release(c) == lease = c /\ lease' = Free
Die(c)     == lease = c /\ lease' = Orphan
Reclaim    == lease = Orphan /\ lease' = Free

Next == Reclaim \/ \E c \in Client : Acquire(c) \/ Release(c) \/ Die(c)

Spec == Init /\ [][Next]_lease
=============================================================================

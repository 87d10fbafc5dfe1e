--------------------------- MODULE ControllerLease --------------------------
(***************************************************************************)
(* The controller lease of one task, FilesystemTaskRepository.lease in     *)
(* repository.py, and the way `doctor --repair-safe` deletes old leases.   *)
(*                                                                         *)
(* A lease is the file private/controller.lease.  A call draws a fresh     *)
(* token and fixes its expiry, creates the file with O_CREAT|O_EXCL, then  *)
(* writes the payload into it, runs its section, and finally reads the     *)
(* file back and unlinks it if the token is its own.  Every one of these   *)
(* is a file operation of its own, so other processes, crashes and the     *)
(* clock come between any two of them.                                     *)
(*                                                                         *)
(* Tokens are numbered in the order they are drawn.  The time to live is   *)
(* the same for every call, so leases expire in that order and the clock   *)
(* is the number of tokens whose expiry has passed.  A token also names    *)
(* the inode its call creates.                                             *)
(***************************************************************************)
EXTENDS Naturals, FiniteSets

CONSTANTS Client,     \* the processes that open the lease
          Doctor,     \* the processes that run `doctor --repair-safe --apply`
          MaxToken    \* bound: the number of lease calls

ASSUME LeaseParameters == MaxToken \in Nat /\ Client \cap Doctor = {}

VARIABLES
    issued,      \* number of tokens drawn so far
    now,         \* tokens 1..now have expired
    path,        \* the inode at controller.lease, 0 if there is none
    full,        \* the inodes whose payload has been written
    quarantined, \* the inodes renamed to .controller.lease.*.expired files
    pc,          \* the next file operation of each process
    token,       \* the token of each client's current call
    attempt,     \* the loop counter of each client's current call
    mine,        \* the inode each call quarantined last, 0 if none
    listed,      \* what each doctor's scan listed: inodes and the lease path
    alone,       \* history: no other process has run since the call began
    met,         \* history: the call has found a lease whose time was not up
    timely,      \* history: no running call has outlived its lease
    serial       \* history: the lease was acquired by one call at a time, and
                 \* no doctor has looked for old leases

files == <<path, full, quarantined>>
local == <<token, attempt, mine>>
calm  == <<timely, serial>>
vars  == <<issued, now, files, pc, local, listed, alone, met, calm>>

Process   == Client \cup Doctor
Token     == 1..MaxToken
Acquiring == {"create", "payload", "inspect", "rename", "giveup"}
Releasing == {"unlink", "cleanup"}
Steps     == {"idle", "held", "sweep"} \cup Acquiring \cup Releasing

TypeOK ==
    /\ issued \in 0..MaxToken /\ now \in 0..issued
    /\ path \in 0..issued
    /\ full \subseteq 1..issued /\ quarantined \subseteq 1..issued
    /\ pc \in [Process -> Steps]
    /\ token \in [Client -> 0..issued] /\ mine \in [Client -> 0..issued]
    /\ attempt \in [Client -> 0..2]
    /\ listed \in [Doctor -> [lease : BOOLEAN, debris : SUBSET (1..issued)]]
    /\ alone \in [Client -> BOOLEAN] /\ met \in [Client -> BOOLEAN]
    /\ timely \in BOOLEAN /\ serial \in BOOLEAN

Expired(t) == t \in full /\ t <= now       \* what a reader can tell of a file
Live(t)    == \E c \in Client : pc[c] # "idle" /\ token[c] = t
Holders    == {c \in Client : pc[c] \in {"held", "unlink"}}

\* History: a step of p ends the solitude of every other call.
Disturb(p) == alone' = [c \in Client |-> alone[c] /\ c = p]

Init ==
    /\ issued = 0 /\ now = 0
    /\ path = 0 /\ full = {} /\ quarantined = {}
    /\ pc = [p \in Process |-> "idle"]
    /\ token = [c \in Client |-> 0] /\ mine = [c \in Client |-> 0]
    /\ attempt = [c \in Client |-> 0]
    /\ listed = [d \in Doctor |-> [lease |-> FALSE, debris |-> {}]]
    /\ alone = [c \in Client |-> FALSE] /\ met = [c \in Client |-> FALSE]
    /\ timely = TRUE /\ serial = TRUE

Goto(p, step) == pc' = [pc EXCEPT ![p] = step]

-----------------------------------------------------------------------------
(* Acquiring the lease.                                                    *)

\* The call draws its token and computes expires_unix before it touches the file.
Begin(c) ==
    /\ pc[c] = "idle" /\ issued < MaxToken
    /\ issued' = issued + 1
    /\ token' = [token EXCEPT ![c] = issued + 1]
    /\ attempt' = [attempt EXCEPT ![c] = 0]
    /\ mine' = [mine EXCEPT ![c] = 0]
    /\ alone' = [d \in Client |-> d = c /\ \A p \in Process \ {c} : pc[p] = "idle"]
    /\ met' = [met EXCEPT ![c] = FALSE]
    /\ serial' = (serial /\ \A d \in Client : pc[d] \notin Acquiring)
    /\ Goto(c, "create")
    /\ UNCHANGED <<now, files, listed, timely>>

\* os.open(path, O_CREAT | O_EXCL): creates an empty file, or finds one there.
Create(c) ==
    /\ pc[c] = "create"
    /\ \/ /\ path = 0
          /\ path' = token[c]
          /\ Goto(c, "payload")
          /\ UNCHANGED met
       \/ /\ path # 0
          /\ met' = [met EXCEPT ![c] = @ \/ path > now]
          /\ Goto(c, "inspect")
          /\ UNCHANGED path
    /\ Disturb(c)
    /\ UNCHANGED <<issued, now, full, quarantined, local, listed, calm>>

\* json.dump, flush and fsync: from here on the file can be read.
WritePayload(c) ==
    /\ pc[c] = "payload"
    /\ full' = full \cup {token[c]}
    /\ Goto(c, "held")
    /\ Disturb(c)
    /\ UNCHANGED <<issued, now, path, quarantined, local, listed, met, calm>>

\* Mutants of Stale: an unreadable file counts as expired, any readable file
\* counts as expired, nothing is ever taken over.
StaleIfUnreadable(c) == (path \notin full \/ Expired(path)) /\ attempt[c] < 2
StaleIfReadable(c)   == path \in full /\ attempt[c] < 2
StaleNever(c)        == Expired(path) /\ attempt[c] > 2

\* A missing, empty or unreadable file counts as not expired.
Stale(c) == Expired(path) /\ attempt[c] < 2

\* FileExistsError: read the file.
Inspect(c) ==
    /\ pc[c] = "inspect"
    /\ Goto(c, IF Stale(c) THEN "rename" ELSE "giveup")
    /\ Disturb(c)
    /\ UNCHANGED <<issued, now, files, local, listed, met, calm>>

\* Mutant of MoveAway: the file is taken to be there still.
MoveAwayBlindly(c) ==
    /\ path' = 0
    /\ quarantined' = quarantined \cup {path}
    /\ mine' = [mine EXCEPT ![c] = path]

\* os.rename(path, quarantine) moves whatever is at the path by now, which
\* need not be the file Inspect read; FileNotFoundError is ignored.
MoveAway(c) ==
    IF path = 0
    THEN UNCHANGED <<path, quarantined, mine>>
    ELSE /\ path' = 0
         /\ quarantined' = quarantined \cup {path}
         /\ mine' = [mine EXCEPT ![c] = path]

Rename(c) ==
    /\ pc[c] = "rename"
    /\ MoveAway(c)
    /\ attempt' = [attempt EXCEPT ![c] = @ + 1]
    /\ Goto(c, "create")
    /\ Disturb(c)
    /\ UNCHANGED <<issued, now, full, token, listed, met, calm>>

\* Any other OSError of the rename ends the call with LEASE_CONFLICT.
RenameFails(c) ==
    /\ pc[c] = "rename"
    /\ Goto(c, "idle")
    /\ Disturb(c)
    /\ UNCHANGED <<issued, now, files, local, listed, met, calm>>

\* The lease is active: remove the own quarantine file and raise LEASE_CONFLICT.
GiveUp(c) ==
    /\ pc[c] = "giveup"
    /\ quarantined' = quarantined \ {mine[c]}
    /\ Goto(c, "idle")
    /\ Disturb(c)
    /\ UNCHANGED <<issued, now, path, full, local, listed, met, calm>>

-----------------------------------------------------------------------------
(* Releasing the lease.                                                    *)

\* Finally: read the file.  No file: nothing to unlink.  An unreadable file of
\* another call: JSONDecodeError leaves the call without its clean-up.
Leave(c) ==
    /\ pc[c] = "held"
    /\ Goto(c, IF path = token[c] THEN "unlink"
               ELSE IF path \in full \cup {0} THEN "cleanup" ELSE "idle")
    /\ Disturb(c)
    /\ UNCHANGED <<issued, now, files, local, listed, met, calm>>

\* path.unlink() removes whatever is at the path by now.
Unlink(c) ==
    /\ pc[c] = "unlink"
    /\ path' = 0
    /\ Goto(c, "cleanup")
    /\ Disturb(c)
    /\ UNCHANGED <<issued, now, full, quarantined, local, listed, met, calm>>

CleanUp(c) ==
    /\ pc[c] = "cleanup"
    /\ quarantined' = quarantined \ {mine[c]}
    /\ Goto(c, "idle")
    /\ Disturb(c)
    /\ UNCHANGED <<issued, now, path, full, local, listed, met, calm>>

-----------------------------------------------------------------------------
(* The doctor, crashes and the clock.                                      *)

\* _expired_leases lists an expired lease and old quarantine files ...
Scan(d) ==
    /\ pc[d] = "idle"
    /\ Expired(path) \/ quarantined # {}
    /\ \E old \in SUBSET quarantined :
          listed' = [listed EXCEPT ![d] = [lease |-> Expired(path), debris |-> old]]
    /\ serial' = FALSE
    /\ Goto(d, "sweep")
    /\ Disturb(d)
    /\ UNCHANGED <<issued, now, files, local, met, timely>>

\* ... and repair_safe unlinks what was listed, without reading it again.  The
\* first file that is gone by now raises FileNotFoundError and ends the repair.
Sweep(d) ==
    /\ pc[d] = "sweep"
    /\ path' = IF listed[d].lease THEN 0 ELSE path
    /\ \E swept \in SUBSET (listed[d].debris \cap quarantined) :
          /\ (listed[d].lease => path # 0) /\ listed[d].debris \subseteq quarantined
                => swept = listed[d].debris
          /\ listed[d].lease /\ path = 0 => swept = {}
          /\ quarantined' = quarantined \ swept
    /\ listed' = [listed EXCEPT ![d] = [lease |-> FALSE, debris |-> {}]]
    /\ Goto(d, "idle")
    /\ Disturb(d)
    /\ UNCHANGED <<issued, now, full, local, met, calm>>

\* The process dies; its files stay.
Crash(c) ==
    /\ pc[c] # "idle"
    /\ Goto(c, "idle")
    /\ Disturb(c)
    /\ UNCHANGED <<issued, now, files, local, listed, met, calm>>

Tick ==
    /\ now < issued
    /\ now' = now + 1
    /\ timely' = (timely /\ ~Live(now + 1))
    /\ UNCHANGED <<issued, files, pc, local, listed, alone, met, serial>>

Next ==
    \/ Tick
    \/ \E c \in Client :
          \/ Begin(c) \/ Create(c) \/ WritePayload(c) \/ Inspect(c) \/ Rename(c)
          \/ RenameFails(c) \/ GiveUp(c) \/ Leave(c) \/ Unlink(c) \/ CleanUp(c)
          \/ Crash(c)
    \/ \E d \in Doctor : Scan(d) \/ Sweep(d)

Spec == Init /\ [][Next]_vars

-----------------------------------------------------------------------------
(* Properties.                                                             *)

OneHolder == \A c, d \in Holders : c = d

\* Until the first lease expires the protocol is a lock: every holder's own
\* file is at the path, so there is one holder and its release unlinks no
\* other call's lease.
ExclusiveUntilExpiry ==
    now = 0 => OneHolder /\ \A c \in Holders : path = token[c]

\* A call that no other process disturbs fails only if it finds a lease whose
\* time is not up, or a file without a payload: an abandoned lease that was
\* written is taken over in that very call.
LoneTakeover ==
    \A c \in Client : pc[c] = "giveup" /\ alone[c] =>
        met[c] \/ (path # 0 /\ path \notin full)

\* At most one live process runs its section of `with lease(...)`, as long as
\* every call ends before its lease expires: the controller lease guards every
\* write to the task.  A takeover race violates it.
OneHolderWhileTimely == timely => OneHolder

\* Who holds the lease, in the terms of ExclusiveLease: the live call that has
\* created its file and has not unlinked it yet.
Owning(c) == pc[c] \in {"payload", "held", "unlink"}
leaseBar ==
    IF ~timely \/ ~serial THEN "free"
    ELSE IF \E c \in Client : Owning(c) THEN CHOOSE c \in Client : Owning(c)
    ELSE IF path = 0 THEN "free" ELSE "orphan"
Abstract == INSTANCE ExclusiveLease
                WITH lease <- leaseBar, Free <- "free", Orphan <- "orphan"

\* As long as calls are timely and acquire the lease one at a time, the file
\* protocol implements the exclusive lease, crashes and takeovers included.
\* (From the first call on that is not, the mapping stays at "free", which the
\* abstract lease may always return to.)
ImplementsExclusiveLease == Abstract!Spec
=============================================================================

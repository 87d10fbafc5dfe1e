----------------------------- MODULE Identifiers ----------------------------
(***************************************************************************)
(* ulid of ids.py in one process: a timestamp and a random part, under a   *)
(* lock, so that a call is one step.  An identifier is the pair of both;   *)
(* its base 32 text sorts like the pair.  Event files are named by it and  *)
(* read in the order of their names.                                       *)
(***************************************************************************)
EXTENDS Integers, Sequences

CONSTANTS Times,    \* 2^48, the first millisecond that is refused
          Randoms,  \* 2^80
          MaxIds    \* a bound on the identifiers

ASSUME IdentifierParameters == Times \in Nat \ {0} /\ Randoms \in Nat \ {0} /\ MaxIds \in Nat

VARIABLES last,  \* _LAST_TIMESTAMP_MS and _LAST_RANDOM
          ids    \* the identifiers returned

idVars == <<last, ids>>

IdInit == last = [time |-> -1, random |-> -1] /\ ids = <<>>

\* Mutant of Current: the clock is believed.
CurrentClock(now) == now

\* The clock may go backwards, an identifier may not.
Current(now) == IF now > last.time THEN now ELSE last.time

\* The random part counts up within a millisecond, and carries into the next.
Successor(now, random) ==
    IF Current(now) # last.time
    THEN [time |-> Current(now), random |-> random]
    ELSE IF last.random + 1 < Randoms
    THEN [time |-> last.time, random |-> last.random + 1]
    ELSE [time |-> last.time + 1, random |-> random]

\* A carry past the last millisecond the clock may show still has a text, because
\* ten characters hold 50 bits: a call with a legal clock never fails.
Issue(now, random) ==
    /\ Len(ids) < MaxIds
    /\ last' = Successor(now, random)
    /\ ids' = Append(ids, last')

IdNext == \E now \in 0..Times-1, random \in 0..Randoms-1 : Issue(now, random)

IdSpec == IdInit /\ [][IdNext]_idVars

-----------------------------------------------------------------------------
Before(x, y) == x.time < y.time \/ (x.time = y.time /\ x.random < y.random)

\* No identifier repeats, and each sorts after all that the process had before,
\* whatever the clock does and however many fall into one millisecond.
IdsIncrease == \A i, j \in 1..Len(ids) : i < j => Before(ids[i], ids[j])
=============================================================================

-------------------------- MODULE EventReplayProofs --------------------------
(***************************************************************************)
(* replay_events accepts exactly the event files that are one log, and     *)
(* projects its state: for any number of files, copies of one event under  *)
(* two names among them.                                                   *)
(*                                                                         *)
(* The invariant says what the loop knows of the events it has read: they  *)
(* are one for each revision, each follows the ones before it, and         *)
(* `projected` is where they lead.  That only later files are unread makes *)
(* it enough: a log's next event cannot be refused.                        *)
(***************************************************************************)
EXTENDS EventReplay, FiniteSetTheorems, TLAPS

\* The last event with a revision in 1..n that moves the task takes it to s, or
\* none does and the first event gives s.
LeadsTo(E, n, s) ==
    \/ /\ \E e \in E : e.new = 0 /\ s = Initial(e)
       /\ \A f \in E : f.new \in 1..n => ~MovesTask(f)
    \/ \E e \in E :
          /\ e.new \in 1..n /\ MovesTask(e) /\ s = e.to
          /\ \A f \in E : f.new \in 1..n /\ MovesTask(f) => f.new <= e.new

Read == files \ unread

LoopTyped ==
    /\ files \in Inputs /\ unread \subseteq files
    /\ revision \in Int /\ revision >= -1
    /\ verdict \in {"reading", "replayed", "corrupt"}

\* One event read for each revision, with a key and an id of its own.
OneEach ==
    /\ \A e \in Read : e.new \in 0..revision /\ e.expected = e.new - 1
    /\ \A n \in 0..revision : \E e \in Read : e.new = n
    /\ \A e, f \in Read : e.new = f.new \/ e.id = f.id \/ e.key = f.key => e = f
    /\ Cardinality(Read) = revision + 1
    /\ seenKeys = {e.key : e \in Read} /\ seenIds = {e.id : e \in Read}

ReadInOrder == \A e \in Read, f \in unread : Precedes(e, f)

\* Each event read follows those before it, and they lead to `projected`.
Followed ==
    /\ \A e \in Read : e.new = 0 => Starts(e)
    /\ \A e \in Read : e.new > 0 =>
          \E s : LeadsTo(Read, e.new - 1, s) /\ (e.type = "transition" => e.from = s)
    /\ revision >= 0 => LeadsTo(Read, revision, projected)

LoopInv ==
    /\ LoopTyped /\ OneEach /\ ReadInOrder /\ Followed
    /\ verdict = "replayed" => unread = {} /\ files # {}
    /\ verdict = "corrupt" => ~OneLog

-----------------------------------------------------------------------------
(* What a set of events leads to.                                          *)

LEMMA EventFields ==
    ASSUME NEW F \in Inputs
    PROVE  /\ IsFiniteSet(F)
           /\ \A e \in F : /\ e \in Event /\ e.id \in Nat /\ e.new \in Nat /\ e.expected \in Int
                           /\ MovesTask(e) => e.to \in TaskState
BY InputsAreFiles DEF Event, MovesTask

\* Events of later revisions make no difference.
LEMMA LaterEventsDoNotLead ==
    ASSUME NEW E, NEW F, E \subseteq F, NEW n \in Int, NEW s, n >= 0,
           \A f \in F \ E : f.new \in Nat /\ f.new > n
    PROVE  LeadsTo(E, n, s) <=> LeadsTo(F, n, s)
<1>1. \A f \in F : f.new \in 1..n => f \in E
  OBVIOUS
<1>2. \A f \in F : f.new = 0 => f \in E
  OBVIOUS
<1> QED
  BY <1>1, <1>2 DEF LeadsTo

\* One more event.
LEMMA NextEventLeads ==
    ASSUME NEW E, NEW e, NEW n \in Int, n >= 0, NEW s,
           e.new = n + 1,
           \A f \in E : f.new \in 0..n,
           LeadsTo(E, n, s)
    PROVE  LeadsTo(E \cup {e}, n + 1, IF MovesTask(e) THEN e.to ELSE s)
<1>1. CASE MovesTask(e)
  <2>1. e \in E \cup {e} /\ e.new \in 1..n+1
    OBVIOUS
  <2>2. \A f \in E \cup {e} : f.new \in 1..n+1 => f.new <= e.new
    OBVIOUS
  <2> QED
    BY <1>1, <2>1, <2>2 DEF LeadsTo
<1>2. CASE ~MovesTask(e)
  <2>1. \A f \in E \cup {e} : f.new \in 1..n+1 /\ MovesTask(f) => f \in E /\ f.new \in 1..n
    BY <1>2
  <2>2. \A f \in E : f.new \in 1..n => f.new \in 1..n+1
    OBVIOUS
  <2> QED
    BY <1>2, <2>1, <2>2 DEF LeadsTo
<1> QED
  BY <1>1, <1>2

-----------------------------------------------------------------------------
(* Files with one event for each revision, as a log.                       *)

OnePerRevision(N) ==
    /\ N \in Nat /\ N = Cardinality(files) - 1
    /\ \A e \in files : e.new \in 0..N
    /\ \A n \in 0..N : \E e \in files : e.new = n
    /\ \A e, f \in files : e.new = f.new => e = f

LEMMA EventOfRevision ==
    ASSUME NEW N, OnePerRevision(N)
    PROVE  /\ \A n \in 0..N : At(n) \in files /\ At(n).new = n
           /\ \A e \in files : At(e.new) = e
BY DEF OnePerRevision, At

LEMMA LogOfFiles ==
    ASSUME NEW N, OnePerRevision(N)
    PROVE  /\ DOMAIN AsLog = 1..N
           /\ \A i \in 1..N :
                /\ AsLog[i].new = At(i).new /\ AsLog[i].key = At(i).key
                /\ AsLog[i].type = "transition" <=> MovesTask(At(i))
                /\ MovesTask(At(i)) =>
                      /\ AsLog[i].to = At(i).to
                      /\ AsLog[i].from = IF At(i).type = "closing" THEN StateAt(i - 1) ELSE At(i).from
<1>1. DOMAIN AsLog = 1..N
  BY DEF OnePerRevision, AsLog
<1>2. ASSUME NEW i \in 1..N, MovesTask(At(i))
      PROVE  AsLog[i] = [type |-> "transition", key |-> At(i).key, new |-> At(i).new, to |-> At(i).to,
                         from |-> IF At(i).type = "closing" THEN StateAt(i - 1) ELSE At(i).from]
  BY <1>2 DEF OnePerRevision, AsLog
<1>3. ASSUME NEW i \in 1..N, ~MovesTask(At(i))
      PROVE  AsLog[i] = [type |-> "update", key |-> At(i).key, new |-> At(i).new, ent |-> None, base |-> 0]
  BY <1>3 DEF OnePerRevision, AsLog
<1> QED
  BY <1>1, <1>2, <1>3

LEMMA FirstState == StateAt(0) = Initial(At(0))
BY DEF StateAt

\* What the files lead to is the log's state.
LEMMA LeadsToIsState ==
    ASSUME NEW N, OnePerRevision(N), NEW n \in 0..N, NEW s
    PROVE  LeadsTo(files, n, s) <=> Log!IsState(AsLog, n, s)
<1>1. N \in Nat
  BY DEF OnePerRevision
<1>2. \A e \in files : e.new \in 1..n => At(e.new) = e
  BY EventOfRevision
<1>3. \A i \in 1..n : i \in 1..N /\ At(i) \in files /\ At(i).new = i
  BY <1>1, EventOfRevision
<1>4. \A i \in 1..n : /\ AsLog[i].type = "transition" <=> MovesTask(At(i))
                      /\ MovesTask(At(i)) => AsLog[i].to = At(i).to
  BY <1>3, LogOfFiles
<1>5. (\A f \in files : f.new \in 1..n => ~MovesTask(f)) <=> (\A i \in 1..n : AsLog[i].type # "transition")
  BY <1>2, <1>3, <1>4
<1>6. (\E e \in files : e.new = 0 /\ s = Initial(e)) <=> s = StateAt(0)
  <2>1. At(0) \in files /\ At(0).new = 0
    BY <1>1, EventOfRevision
  <2>2. \A e \in files : e.new = 0 => e = At(0)
    BY EventOfRevision
  <2> QED
    BY <2>1, <2>2, FirstState
<1>7. (\E e \in files : /\ e.new \in 1..n /\ MovesTask(e) /\ s = e.to
                        /\ \A f \in files : f.new \in 1..n /\ MovesTask(f) => f.new <= e.new)
      <=> (\E i \in 1..n : /\ AsLog[i].type = "transition" /\ AsLog[i].to = s
                           /\ \A j \in 1..n : AsLog[j].type = "transition" => j <= i)
  <2>1. ASSUME NEW e \in files, e.new \in 1..n, MovesTask(e), s = e.to,
               \A f \in files : f.new \in 1..n /\ MovesTask(f) => f.new <= e.new
        PROVE  \E i \in 1..n : /\ AsLog[i].type = "transition" /\ AsLog[i].to = s
                               /\ \A j \in 1..n : AsLog[j].type = "transition" => j <= i
    <3>1. AsLog[e.new].type = "transition" /\ AsLog[e.new].to = s
      BY <1>2, <1>4, <2>1
    <3>2. \A j \in 1..n : AsLog[j].type = "transition" => j <= e.new
      BY <1>3, <1>4, <2>1
    <3> QED
      BY <2>1, <3>1, <3>2
  <2>2. ASSUME NEW i \in 1..n, AsLog[i].type = "transition", AsLog[i].to = s,
               \A j \in 1..n : AsLog[j].type = "transition" => j <= i
        PROVE  \E e \in files : /\ e.new \in 1..n /\ MovesTask(e) /\ s = e.to
                                /\ \A f \in files : f.new \in 1..n /\ MovesTask(f) => f.new <= e.new
    <3>1. At(i) \in files /\ At(i).new = i /\ MovesTask(At(i)) /\ s = At(i).to
      BY <1>3, <1>4, <2>2
    <3>2. \A f \in files : f.new \in 1..n /\ MovesTask(f) => f.new <= i
      BY <1>2, <1>4, <2>2
    <3> QED
      BY <3>1, <3>2
  <2> QED
    BY <2>1, <2>2
<1> QED
  BY <1>5, <1>6, <1>7 DEF LeadsTo, Log!IsState

\* A log is in one state.
LEMMA OneState ==
    ASSUME NEW n \in Int, NEW s, NEW t, Log!IsState(AsLog, n, s), Log!IsState(AsLog, n, t)
    PROVE  s = t
<1>1. \A i, j \in 1..n : i <= j /\ j <= i => i = j
  OBVIOUS
<1> QED
  BY <1>1 DEF Log!IsState

LEMMA StateIsStateAt ==
    ASSUME NEW N, OnePerRevision(N), NEW n \in 0..N, NEW s, LeadsTo(files, n, s)
    PROVE  StateAt(n) = s
<1> DEFINE moves == {j \in 1..n : MovesTask(At(j))}
<1>1. N \in Nat
  BY DEF OnePerRevision
<1>2. \A e \in files : e.new \in 1..n => At(e.new) = e
  BY EventOfRevision
<1>3. \A i \in 1..n : At(i) \in files /\ At(i).new = i
  BY <1>1, EventOfRevision
<1>4. CASE /\ \E e \in files : e.new = 0 /\ s = Initial(e)
           /\ \A f \in files : f.new \in 1..n => ~MovesTask(f)
  <2>1. moves = {}
    BY <1>3, <1>4
  <2>2. s = Initial(At(0))
    BY <1>4, EventOfRevision
  <2> QED
    BY <2>1, <2>2 DEF StateAt
<1>5. ASSUME NEW e \in files, e.new \in 1..n, MovesTask(e), s = e.to,
             \A f \in files : f.new \in 1..n /\ MovesTask(f) => f.new <= e.new
      PROVE  StateAt(n) = s
  <2>1. e.new \in moves /\ \A k \in moves : k <= e.new
    BY <1>2, <1>3, <1>5
  <2> DEFINE last == Highest(moves)
  <2>2. last \in moves /\ \A k \in moves : k <= last
    BY <2>1 DEF Highest
  <2>3. last = e.new
    <3>1. last <= e.new /\ e.new <= last
      BY <2>1, <2>2
    <3> HIDE DEF last
    <3> QED
      BY <1>5, <2>2, <3>1
  <2>4. moves # {}
    BY <2>1
  <2>5. StateAt(n) = At(last).to
    BY <2>4 DEF StateAt
  <2> QED
    BY <1>2, <1>5, <2>3, <2>5
<1> QED
  BY <1>4, <1>5 DEF LeadsTo
-----------------------------------------------------------------------------
(* The loop.                                                               *)

LEMMA LoopStarts == ASSUME ReplayInit PROVE LoopInv
<1>1. Read = {}
  BY DEF ReplayInit, Read
<1>2. Cardinality({}) = 0
  BY FS_EmptySet
<1>3. LoopTyped /\ ReadInOrder
  BY <1>1 DEF ReplayInit, LoopTyped, ReadInOrder
<1>4. OneEach
  BY <1>1, <1>2 DEF ReplayInit, OneEach
<1>5. Followed
  BY <1>1 DEF ReplayInit, Followed
<1> QED
  BY <1>3, <1>4, <1>5 DEF ReplayInit, LoopInv

LEMMA ApplyKeepsLoop == ASSUME LoopInv, Apply PROVE LoopInv'
<1>1. PICK e \in unread :
        /\ \A f \in unread : Precedes(e, f)
        /\ verdict = "reading" /\ Continues(e)
        /\ projected' = Target(e)
        /\ revision' = e.new
        /\ seenKeys' = seenKeys \cup {e.key} /\ seenIds' = seenIds \cup {e.id}
        /\ unread' = unread \ {e}
        /\ UNCHANGED <<files, seed, verdict>>
  BY DEF Apply
<1>2. /\ files \in Inputs /\ unread \subseteq files
      /\ revision \in Int /\ revision >= -1
      /\ IsFiniteSet(files)
      /\ \A f \in files : f.id \in Nat /\ f.new \in Nat /\ f.expected \in Int
  BY EventFields DEF LoopInv, LoopTyped
<1>3. Read' = Read \cup {e} /\ e \notin Read /\ Read \subseteq files /\ e \in files
  BY <1>1, <1>2 DEF Read
<1>4. /\ e.new = revision + 1 /\ e.expected = revision
      /\ e.id \notin seenIds /\ e.key \notin seenKeys
      /\ revision = -1 => Starts(e)
      /\ e.type = "transition" => e.from = projected
  BY <1>1 DEF Continues
<1>5. LoopTyped'
  BY <1>1, <1>2, <1>4 DEF LoopInv, LoopTyped
<1>6. OneEach'
  <2>1. OneEach
    BY DEF LoopInv
  <2>2. \A f \in Read' : f.new \in 0..revision' /\ f.expected = f.new - 1
    BY <1>1, <1>2, <1>3, <1>4, <2>1 DEF OneEach
  <2>3. \A n \in 0..revision' : \E f \in Read' : f.new = n
    BY <1>1, <1>2, <1>3, <1>4, <2>1 DEF OneEach
  <2>4. \A f \in Read : f.new # e.new /\ f.id # e.id /\ f.key # e.key
    BY <1>2, <1>4, <2>1 DEF OneEach
  <2>5. \A f, g \in Read' : f.new = g.new \/ f.id = g.id \/ f.key = g.key => f = g
    BY <1>3, <2>1, <2>4 DEF OneEach
  <2>6. Cardinality(Read') = revision' + 1
    <3>1. IsFiniteSet(Read)
      BY <1>2, <1>3, FS_Subset
    <3>2. Cardinality(Read \cup {e}) = Cardinality(Read) + 1
      BY <1>3, <3>1, FS_AddElement
    <3>3. Cardinality(Read) = revision + 1
      BY <2>1 DEF OneEach
    <3> QED
      BY <1>1, <1>3, <1>4, <3>2, <3>3
  <2>7. seenKeys' = {f.key : f \in Read'} /\ seenIds' = {f.id : f \in Read'}
    BY <1>1, <1>3, <2>1 DEF OneEach
  <2> QED
    BY <2>2, <2>3, <2>5, <2>6, <2>7 DEF OneEach
<1>7. ReadInOrder'
  BY <1>1, <1>3 DEF LoopInv, ReadInOrder, Precedes
<1>8. Followed'
  <2>1. /\ \A f \in Read : f.new \in 0..revision
        /\ revision = -1 => Read = {}
    BY <1>2 DEF LoopInv, OneEach
  <2>4. ASSUME NEW n \in Int, n >= 0, n <= revision, NEW s
        PROVE  LeadsTo(Read, n, s) => LeadsTo(Read \cup {e}, n, s)
    <3>1. \A f \in (Read \cup {e}) \ Read : f.new \in Nat /\ f.new > n
      BY <1>2, <1>3, <1>4, <2>4
    <3> QED
      BY <2>4, <3>1, LaterEventsDoNotLead
  <2>5. \A f \in Read \cup {e} : f.new = 0 => Starts(f)
    BY <1>2, <1>4, <2>1 DEF LoopInv, Followed
  <2>6. ASSUME NEW f \in Read \cup {e}, f.new > 0
        PROVE  \E s : LeadsTo(Read \cup {e}, f.new - 1, s) /\ (f.type = "transition" => f.from = s)
    <3>1. CASE f \in Read
      <4>1. PICK s : LeadsTo(Read, f.new - 1, s) /\ (f.type = "transition" => f.from = s)
        BY <2>6, <3>1 DEF LoopInv, Followed
      <4>2. f.new - 1 \in Int /\ f.new - 1 >= 0 /\ f.new - 1 <= revision
        BY <1>2, <2>1, <2>6, <3>1
      <4> QED
        BY <2>4, <4>1, <4>2
    <3>2. CASE f = e
      <4>1. revision >= 0 /\ e.new - 1 = revision
        BY <1>2, <1>4, <2>6, <3>2
      <4>2. LeadsTo(Read, revision, projected)
        BY <4>1 DEF LoopInv, Followed
      <4>3. LeadsTo(Read \cup {e}, e.new - 1, projected)
        BY <1>2, <2>4, <4>1, <4>2
      <4> QED
        BY <1>4, <3>2, <4>3
    <3> QED
      BY <3>1, <3>2
  <2>7. LeadsTo(Read \cup {e}, e.new, Target(e))
    <3>1. CASE revision = -1
      <4>1. e.new = 0 /\ Target(e) = Initial(e) /\ Read = {}
        BY <1>4, <2>1, <3>1 DEF Target
      <4> QED
        BY <4>1 DEF LeadsTo
    <3>2. CASE revision # -1
      <4>1. LeadsTo(Read, revision, projected) /\ revision >= 0
        BY <1>2, <3>2 DEF LoopInv, Followed
      <4>2. Target(e) = IF MovesTask(e) THEN e.to ELSE projected
        BY <3>2 DEF Target, MovesTask
      <4>3. LeadsTo(Read \cup {e}, revision + 1, IF MovesTask(e) THEN e.to ELSE projected)
        BY <1>2, <1>4, <2>1, <4>1, NextEventLeads
      <4> QED
        BY <1>4, <4>2, <4>3
    <3> QED
      BY <3>1, <3>2
  <2>8. seed' = seed /\ Read' = Read \cup {e} /\ revision' = e.new /\ projected' = Target(e)
    BY <1>1, <1>3
  <2>9. (\A f \in Read : f.new = 0 => Starts(f))'
    BY <2>5, <2>8 DEF Starts
  <2>10. (\A f \in Read : f.new > 0 =>
            \E s : LeadsTo(Read, f.new - 1, s) /\ (f.type = "transition" => f.from = s))'
    BY <2>6, <2>8 DEF LeadsTo, Initial
  <2>11. LeadsTo(Read, revision, projected)'
    BY <2>7, <2>8 DEF LeadsTo, Initial
  <2> QED
    BY <2>9, <2>10, <2>11 DEF Followed
<1> QED
  BY <1>1, <1>5, <1>6, <1>7, <1>8 DEF LoopInv

-----------------------------------------------------------------------------
(* What the loop accepts is a log, and what it refuses is none.            *)

LEMMA AllRead ==
    ASSUME LoopInv, unread = {}, files # {}
    PROVE  Read = files /\ OnePerRevision(revision)
<1>1. Read = files
  BY DEF Read
<1>2. revision \in Nat /\ revision = Cardinality(files) - 1
  <2>1. revision # -1
    BY <1>1 DEF LoopInv, OneEach, LoopTyped
  <2> QED
    BY <1>1, <2>1 DEF LoopInv, OneEach, LoopTyped
<1> QED
  BY <1>1, <1>2 DEF LoopInv, OneEach, OnePerRevision

LEMMA AcceptedIsLog ==
    ASSUME LoopInv, unread = {}, files # {}
    PROVE  OneLog /\ Log!IsState(AsLog, revision, projected)
<1>1. Read = files /\ OnePerRevision(revision)
  BY AllRead
<1>2. revision \in Nat /\ Cardinality(files) = revision + 1
  BY <1>1 DEF OnePerRevision, LoopInv, OneEach
<1>3. /\ \A n \in 0..revision : At(n) \in files /\ At(n).new = n
      /\ \A e \in files : At(e.new) = e
  BY <1>1, EventOfRevision
<1>4. /\ {e.new : e \in files} = 0..Cardinality(files) - 1
      /\ \A e \in files : e.expected = e.new - 1
      /\ \A e, f \in files : e.id = f.id \/ e.key = f.key => e = f
  BY <1>1, <1>2 DEF LoopInv, OneEach
<1>5. Starts(At(0))
  BY <1>1, <1>2, <1>3 DEF LoopInv, Followed
<1>6. Log!Contiguous(AsLog) /\ Log!KeysUnique(AsLog)
  BY <1>1, <1>2, <1>3, <1>4, LogOfFiles DEF Log!Contiguous, Log!KeysUnique
<1>7. Log!SourcesMatch(AsLog)
  <2>1. SUFFICES ASSUME NEW i \in 1..revision, AsLog[i].type = "transition"
                 PROVE  Log!IsState(AsLog, i - 1, AsLog[i].from)
    BY <1>1, LogOfFiles DEF Log!SourcesMatch
  <2>2. At(i) \in files /\ At(i).new = i /\ MovesTask(At(i)) /\ i - 1 \in 0..revision
    BY <1>1, <1>2, <1>3, <2>1, LogOfFiles
  <2>3. PICK s : LeadsTo(files, i - 1, s) /\ (At(i).type = "transition" => At(i).from = s)
    BY <1>1, <2>2 DEF LoopInv, Followed
  <2>4. StateAt(i - 1) = s
    BY <1>1, <2>2, <2>3, StateIsStateAt
  <2>5. AsLog[i].from = s
    BY <1>1, <2>2, <2>3, <2>4, LogOfFiles DEF MovesTask
  <2> QED
    BY <1>1, <2>2, <2>3, <2>5, LeadsToIsState
<1>8. Log!IsState(AsLog, revision, projected)
  BY <1>1, <1>2, LeadsToIsState DEF LoopInv, Followed
<1> QED
  BY <1>4, <1>5, <1>6, <1>7, <1>8 DEF OneLog, Log!Replayable

\* As many events as revisions: one each.
LEMMA LogIsOnePerRevision ==
    ASSUME OneLog, files \in Inputs
    PROVE  OnePerRevision(Cardinality(files) - 1)
<1>1. IsFiniteSet(files) /\ Cardinality(files) \in Nat
  BY EventFields, FS_CardinalityType
<1>2. Cardinality(files) # 0
  BY <1>1, FS_EmptySet DEF OneLog
<1> DEFINE N == Cardinality(files) - 1
           new == [e \in files |-> e.new]
<1>3. N \in Nat
  BY <1>1, <1>2
<1>4. {e.new : e \in files} = 0..N
  BY DEF OneLog
<1>5. Cardinality(0..N) = Cardinality(files)
  BY <1>1, <1>3, FS_Interval
<1>6. new \in Surjection(files, 0..N)
  BY <1>4 DEF Surjection
<1>7. new \in Injection(files, 0..N)
  BY <1>1, <1>5, <1>6, FS_SurjSameCardinalityImpliesInj
<1>8. \A e, f \in files : e.new = f.new => e = f
  BY <1>7 DEF Injection, IsInjective
<1> QED
  BY <1>3, <1>4, <1>8 DEF OnePerRevision

LEMMA LogContinues ==
    ASSUME LoopInv, OneLog, NEW e \in unread, \A f \in unread : Precedes(e, f)
    PROVE  Continues(e)
<1> DEFINE N == Cardinality(files) - 1
<1>1. OnePerRevision(N)
  BY LogIsOnePerRevision DEF LoopInv, LoopTyped
<1> HIDE DEF N
<1>2. /\ files \in Inputs /\ unread \subseteq files
      /\ revision \in Int /\ revision >= -1
      /\ \A f \in files : f.id \in Nat /\ f.new \in Nat /\ f.expected \in Int
  BY EventFields DEF LoopInv, LoopTyped
<1>3. /\ Read \subseteq files /\ e \in files /\ e \notin Read
      /\ \A f \in files : f \in Read \/ f \in unread
  BY <1>2 DEF Read
<1>4. /\ N \in Nat
      /\ \A f \in files : f.new \in 0..N
      /\ \A n \in 0..N : \E f \in files : f.new = n
      /\ \A f, g \in files : f.new = g.new => f = g
  BY <1>1 DEF OnePerRevision
<1>5. /\ \A f \in Read : f.new \in 0..revision
      /\ \A n \in 0..revision : \E f \in Read : f.new = n
  BY DEF LoopInv, OneEach
<1>6. \A f \in files : f \notin Read => f.new > revision
  <2>1. SUFFICES ASSUME NEW f \in files, f \notin Read, f.new <= revision PROVE FALSE
    BY <1>2
  <2>2. f.new \in 0..revision
    BY <1>2, <2>1
  <2>3. PICK g \in Read : g.new = f.new
    BY <1>5, <2>2
  <2> QED
    BY <1>3, <1>4, <2>1, <2>3
<1>7. e.new = revision + 1
  <2>1. revision + 1 \in 0..N
    BY <1>2, <1>3, <1>4, <1>6
  <2>2. PICK f \in files : f.new = revision + 1
    BY <1>4, <2>1
  <2>3. f \in unread
    BY <1>2, <1>3, <1>5, <2>2
  <2>4. e.new <= f.new
    BY <1>2, <1>3, <2>3 DEF Precedes
  <2> QED
    BY <1>2, <1>3, <1>6, <2>2, <2>4
<1>8. e.expected = revision
  BY <1>2, <1>3, <1>7 DEF OneLog
<1>9. e.id \notin seenIds /\ e.key \notin seenKeys
  BY <1>3 DEF OneLog, LoopInv, OneEach
<1>10. At(e.new) = e
  BY <1>1, <1>3, EventOfRevision
<1>11. revision = -1 => Starts(e)
  BY <1>7, <1>10 DEF OneLog
<1>12. ASSUME e.type = "transition" PROVE e.from = projected
  <2>1. revision >= 0
    BY <1>2, <1>11, <1>12 DEF Starts
  <2>2. e.new \in 1..N /\ revision \in 0..N
    BY <1>2, <1>3, <1>4, <1>7, <2>1
  <2>3. AsLog[e.new].type = "transition" /\ AsLog[e.new].from = e.from /\ e.new \in DOMAIN AsLog
    BY <1>1, <1>10, <1>12, <2>2, LogOfFiles DEF MovesTask
  <2>4. Log!IsState(AsLog, revision, e.from)
    <3>1. Log!IsState(AsLog, e.new - 1, AsLog[e.new].from)
      BY <2>3 DEF OneLog, Log!Replayable, Log!SourcesMatch
    <3>2. e.new - 1 = revision
      BY <1>2, <1>7
    <3> QED
      BY <2>3, <3>1, <3>2
  <2>5. LeadsTo(Read, revision, projected)
    BY <2>1 DEF LoopInv, Followed
  <2>6. \A f \in files \ Read : f.new \in Nat /\ f.new > revision
    BY <1>2, <1>6
  <2>7. LeadsTo(files, revision, projected)
    BY <1>2, <1>3, <2>1, <2>5, <2>6, LaterEventsDoNotLead
  <2>8. Log!IsState(AsLog, revision, projected)
    BY <1>1, <2>2, <2>7, LeadsToIsState
  <2> QED
    BY <1>2, <2>4, <2>8, OneState
<1> QED
  BY <1>7, <1>8, <1>9, <1>11, <1>12 DEF Continues

\* The files and what a seed is do not change, so neither does what they are.
LEMMA FilesStay ==
    ASSUME UNCHANGED <<files, seed>>
    PROVE  OneLog' <=> OneLog
<1>1. \A i : At(i)' = At(i)
  BY DEF At
<1>2. \A e : Initial(e)' = Initial(e) /\ (Starts(e)' <=> Starts(e))
  BY DEF Initial, Starts
<1>3. \A i : StateAt(i)' = StateAt(i)
  <2> DEFINE moves(i) == {j \in 1..i : MovesTask(At(j))}
  <2>1. \A i : moves(i)' = moves(i)
    BY <1>1
  <2>2. \A i : StateAt(i) = IF moves(i) = {} THEN Initial(At(0)) ELSE At(Highest(moves(i))).to
    BY DEF StateAt
  <2>3. \A i : StateAt(i)' = IF moves(i)' = {} THEN Initial(At(0))' ELSE At(Highest(moves(i)))'.to
    BY DEF StateAt
  <2> QED
    BY <1>1, <1>2, <2>1, <2>2, <2>3
<1>4. AsLog' = AsLog
  BY <1>1, <1>3 DEF AsLog
<1>5. Log!Replayable(AsLog)' <=> Log!Replayable(AsLog)
  BY <1>3, <1>4 DEF Log!Replayable, Log!Contiguous, Log!KeysUnique, Log!SourcesMatch, Log!IsState
<1> QED
  BY <1>1, <1>2, <1>5 DEF OneLog


LEMMA LoopStutters ==
    ASSUME LoopInv, UNCHANGED <<files, seed, unread, projected, revision, seenKeys, seenIds>>,
           \/ verdict' = verdict
           \/ verdict' = "replayed" /\ unread = {} /\ files # {}
           \/ verdict' = "corrupt" /\ ~OneLog
    PROVE  LoopInv'
<1>1. Read' = Read
  BY DEF Read
<1>2. LoopTyped'
  BY DEF LoopInv, LoopTyped
<1>3. OneEach' /\ ReadInOrder'
  BY <1>1 DEF LoopInv, OneEach, ReadInOrder, Precedes
<1>4. Followed'
  <2>1. (\A e \in Read : e.new = 0 => Starts(e))'
    BY <1>1 DEF LoopInv, Followed, Starts
  <2>2. (\A e \in Read : e.new > 0 =>
            \E s : LeadsTo(Read, e.new - 1, s) /\ (e.type = "transition" => e.from = s))'
    BY <1>1 DEF LoopInv, Followed, LeadsTo, Initial
  <2>3. (revision >= 0 => LeadsTo(Read, revision, projected))'
    BY <1>1 DEF LoopInv, Followed, LeadsTo, Initial
  <2> QED
    BY <2>1, <2>2, <2>3 DEF Followed
<1>5. /\ verdict' = "replayed" => unread' = {} /\ files' # {}
      /\ verdict' = "corrupt" => ~OneLog'
  BY FilesStay DEF LoopInv
<1> QED
  BY <1>2, <1>3, <1>4, <1>5 DEF LoopInv

LEMMA LoopSteps == ASSUME LoopInv, [ReplayNext]_replayVars PROVE LoopInv'
<1>1. CASE Apply
  BY <1>1, ApplyKeepsLoop
<1>2. CASE Refuse
  <2>1. ~OneLog
    <3>1. CASE files = {}
      BY <3>1 DEF OneLog
    <3>2. CASE \E e \in unread : (\A f \in unread : Precedes(e, f)) /\ ~Continues(e)
      BY <3>2, LogContinues
    <3> QED
      BY <1>2, <3>1, <3>2 DEF Refuse
  <2> QED
    BY <1>2, <2>1, LoopStutters DEF Refuse
<1>3. CASE Return
  BY <1>3, LoopStutters DEF Return
<1>4. CASE UNCHANGED replayVars
  BY <1>4, LoopStutters DEF replayVars
<1> QED
  BY <1>1, <1>2, <1>3, <1>4 DEF ReplayNext

LEMMA LoopHolds == ReplaySpec => []LoopInv
<1>1. ReplayInit => LoopInv
  BY LoopStarts
<1>2. LoopInv /\ [ReplayNext]_replayVars => LoopInv'
  BY LoopSteps
<1> QED
  BY <1>1, <1>2, PTL DEF ReplaySpec

\* replay_events returns a projection for exactly the event files that are one log,
\* whatever a merge, a deletion, an edit or a copy made of them.
THEOREM ReplayFailsClosed == ReplaySpec => []ReplaysExactlyOneLog
<1>1. LoopInv => ReplaysExactlyOneLog
  BY AcceptedIsLog DEF LoopInv, ReplaysExactlyOneLog
<1> QED
  BY <1>1, LoopHolds, PTL

\* What replay_events returns is the last state of the log, and its length.
THEOREM ReplayProjects == ReplaySpec => []ProjectsTheLog
<1>1. LoopInv => ProjectsTheLog
  <2>1. SUFFICES ASSUME LoopInv, verdict = "replayed"
                 PROVE  revision = Cardinality(files) - 1 /\ Log!IsState(AsLog, revision, projected)
    BY DEF ProjectsTheLog
  <2>2. unread = {} /\ files # {}
    BY <2>1 DEF LoopInv
  <2> QED
    BY <2>1, <2>2, AcceptedIsLog, AllRead DEF OnePerRevision
<1> QED
  BY <1>1, LoopHolds, PTL
=============================================================================

------------------------ MODULE ControllerLeaseProofs -----------------------
(***************************************************************************)
(* Theorems about ControllerLease, for any number of clients, doctors and  *)
(* calls, whatever their timing; and that it implements ExclusiveLease for *)
(* as long as calls are timely and acquire one at a time.                  *)
(***************************************************************************)
EXTENDS ControllerLease, TLAPS

\* A running call has a token, and one about to rename has an attempt left.
CallsTyped ==
    \A c \in Client :
        /\ pc[c] # "idle" => token[c] >= 1
        /\ pc[c] = "rename" => attempt[c] < 2

Typed == TypeOK /\ CallsTyped

LEMMA TypedInit == ASSUME Init PROVE Typed
  BY LeaseParameters DEF Init, Typed, TypeOK, CallsTyped, Steps, Process

LEMMA TypedStep == ASSUME Typed, [Next]_vars PROVE Typed'
  <1> USE LeaseParameters
      DEF Typed, TypeOK, CallsTyped, Steps, Acquiring, Releasing, Process, Goto, Disturb, files, local, calm
  <1>0. issued \in Nat /\ now \in Nat
    OBVIOUS
  <1>1. ASSUME NEW c \in Client, Begin(c) PROVE Typed'
    <2>1. issued' \in 0..MaxToken /\ now' \in 0..issued' /\ path' \in 0..issued'
      BY <1>0, <1>1 DEF Begin
    <2>2. full' \subseteq 1..issued' /\ quarantined' \subseteq 1..issued'
      BY <1>0, <1>1 DEF Begin
    <2>3. pc' \in [Process -> Steps] /\ attempt' \in [Client -> 0..2]
      BY <1>1 DEF Begin
    <2>4. token' \in [Client -> 0..issued'] /\ mine' \in [Client -> 0..issued']
      BY <1>0, <1>1 DEF Begin
    <2>5. listed' \in [Doctor -> [lease : BOOLEAN, debris : SUBSET (1..issued')]]
      <3>1. SUBSET (1..issued) \subseteq SUBSET (1..issued')
        BY <1>0, <1>1 DEF Begin
      <3> QED  BY <1>1, <3>1 DEF Begin
    <2>6. alone' \in [Client -> BOOLEAN]
      <3> DEFINE f(d) == d = c /\ \A p \in Process \ {c} : pc[p] = "idle"
      <3>1. \A d \in Client : f(d) \in BOOLEAN
        OBVIOUS
      <3>2. alone' = [d \in Client |-> f(d)]
        BY <1>1 DEF Begin
      <3> HIDE DEF f
      <3> QED  BY <3>1, <3>2
    <2>7. met' \in [Client -> BOOLEAN]
      BY <1>1 DEF Begin
    <2>8. CallsTyped'
      BY <1>0, <1>1 DEF Begin
    <2>9. timely' \in BOOLEAN /\ serial' \in BOOLEAN
      BY <1>1, Zenon DEF Begin
    <2> QED  BY <2>1, <2>2, <2>3, <2>4, <2>5, <2>6, <2>7, <2>8, <2>9
  <1>2. ASSUME NEW c \in Client, Create(c) PROVE Typed'
    <2>1. path' \in 0..issued'
      BY <1>2 DEF Create
    <2>2. pc' \in [Process -> Steps]
      BY <1>2 DEF Create
    <2>3. met' \in [Client -> BOOLEAN]
      <3>1. (met[c] \/ path > now) \in BOOLEAN
        OBVIOUS
      <3> QED  BY <1>2, <3>1, Zenon DEF Create
    <2>4. alone' \in [Client -> BOOLEAN]
      BY <1>2 DEF Create
    <2>5. CallsTyped'
      BY <1>2 DEF Create
    <2> QED  BY <1>2, <2>1, <2>2, <2>3, <2>4, <2>5 DEF Create
  <1>3. ASSUME NEW c \in Client, WritePayload(c) PROVE Typed'
    <2>1. token[c] \in 1..issued
      BY <1>0, <1>3 DEF WritePayload
    <2>2. full' \subseteq 1..issued /\ alone' \in [Client -> BOOLEAN]
      BY <1>3, <2>1 DEF WritePayload
    <2>3. CallsTyped' /\ pc' \in [Process -> Steps]
      BY <1>3 DEF WritePayload
    <2> QED  BY <1>3, <2>2, <2>3 DEF WritePayload
  <1>4. ASSUME NEW c \in Client, Inspect(c) PROVE Typed'
    BY <1>4 DEF Inspect, Stale
  <1>5. ASSUME NEW c \in Client, Rename(c) PROVE Typed'
    <2>1. attempt' \in [Client -> 0..2]
      BY <1>5 DEF Rename
    <2>2. path' \in 0..issued /\ quarantined' \subseteq 1..issued /\ mine' \in [Client -> 0..issued]
      <3>1. CASE path = 0
        BY <1>5, <3>1 DEF Rename, MoveAway
      <3>2. CASE path # 0
        <4>1. path \in 1..issued /\ path' = 0
          BY <1>0, <1>5, <3>2 DEF Rename, MoveAway
        <4>2. quarantined' = quarantined \cup {path} /\ mine' = [mine EXCEPT ![c] = path]
          BY <1>5, <3>2 DEF Rename, MoveAway
        <4> QED  BY <1>0, <4>1, <4>2
      <3> QED  BY <3>1, <3>2
    <2>3. CallsTyped' /\ pc' \in [Process -> Steps] /\ alone' \in [Client -> BOOLEAN]
      BY <1>5 DEF Rename
    <2> QED  BY <1>5, <2>1, <2>2, <2>3 DEF Rename
  <1>6. ASSUME NEW c \in Client, RenameFails(c) \/ GiveUp(c) \/ CleanUp(c) \/ Crash(c) PROVE Typed'
    BY <1>6 DEF RenameFails, GiveUp, CleanUp, Crash
  <1>7. ASSUME NEW c \in Client, Leave(c) PROVE Typed'
    BY <1>7 DEF Leave
  <1>8. ASSUME NEW c \in Client, Unlink(c) PROVE Typed'
    BY <1>0, <1>8 DEF Unlink
  <1>9. ASSUME NEW d \in Doctor, Scan(d) PROVE Typed'
    <2>1. PICK old \in SUBSET quarantined :
             listed' = [listed EXCEPT ![d] = [lease |-> Expired(path), debris |-> old]]
      BY <1>9 DEF Scan
    <2>2. listed' \in [Doctor -> [lease : BOOLEAN, debris : SUBSET (1..issued)]]
      BY <2>1 DEF Expired
    <2>3. pc' = [pc EXCEPT ![d] = "sweep"] /\ d \notin Client
      BY <1>9 DEF Scan
    <2> QED  BY <1>9, <2>2, <2>3 DEF Scan
  <1>10. ASSUME NEW d \in Doctor, Sweep(d) PROVE Typed'
    <2>1. listed' \in [Doctor -> [lease : BOOLEAN, debris : SUBSET (1..issued)]]
      BY <1>10 DEF Sweep
    <2>2. path' \in 0..issued /\ quarantined' \subseteq 1..issued
      BY <1>0, <1>10 DEF Sweep
    <2>3. pc' = [pc EXCEPT ![d] = "idle"]
      BY <1>10 DEF Sweep
    <2> QED  BY <1>10, <2>1, <2>2, <2>3 DEF Sweep
  <1>11. ASSUME Tick PROVE Typed'
    BY <1>0, <1>11 DEF Tick
  <1>12. ASSUME UNCHANGED vars PROVE Typed'
    BY <1>12 DEF vars
  <1> QED
    BY <1>1, <1>2, <1>3, <1>4, <1>5, <1>6, <1>7, <1>8, <1>9, <1>10, <1>11, <1>12 DEF Next

\* TypeOK holds in every reachable state of the lease protocol.
THEOREM LeaseTypeCorrect == Spec => []TypeOK
  <1>1. Init => Typed
    BY TypedInit
  <1>2. Typed /\ [Next]_vars => Typed'
    BY TypedStep
  <1>3. Typed => TypeOK
    BY DEF Typed
  <1> QED  BY <1>1, <1>2, <1>3, PTL DEF Spec

-----------------------------------------------------------------------------
(* Exclusion until a lease expires.                                        *)

\* No two running calls share a token.
TokensDiffer ==
    \A c, d \in Client :
        pc[c] # "idle" /\ pc[d] # "idle" /\ token[c] = token[d] => c = d

\* As long as no lease has expired nobody is about to take one over or delete
\* one, and whoever has created its file still has it at the path.
NobodyTakesOver ==
    now = 0 =>
        /\ \A c \in Client : pc[c] # "rename"
        /\ \A d \in Doctor : ~listed[d].lease
        /\ \A c \in Client : pc[c] \in {"payload", "held", "unlink"} => path = token[c]

Exclusive == Typed /\ TokensDiffer /\ NobodyTakesOver

LEMMA TokensDifferStep == ASSUME Typed, TokensDiffer, [Next]_vars PROVE TokensDiffer'
  <1> USE LeaseParameters DEF Typed, TypeOK, TokensDiffer, Process, Goto, files, local, calm
  <1>1. ASSUME NEW c \in Client, Begin(c) PROVE TokensDiffer'
    <2>1. issued \in Nat /\ \A d \in Client : token[d] <= issued
      OBVIOUS
    <2> QED  BY <1>1, <2>1 DEF Begin
  <1>2. ASSUME NEW c \in Client, \/ Create(c) \/ WritePayload(c) \/ Inspect(c) \/ Rename(c)
                                 \/ RenameFails(c) \/ GiveUp(c)
        PROVE  TokensDiffer'
    BY <1>2 DEF Create, WritePayload, Inspect, Rename, RenameFails, GiveUp
  <1>3. ASSUME NEW c \in Client, Leave(c) \/ Unlink(c) \/ CleanUp(c) \/ Crash(c)
        PROVE  TokensDiffer'
    BY <1>3 DEF Leave, Unlink, CleanUp, Crash
  <1>4. ASSUME NEW d \in Doctor, Scan(d) \/ Sweep(d) PROVE TokensDiffer'
    BY <1>4 DEF Scan, Sweep
  <1>5. ASSUME Tick \/ UNCHANGED vars PROVE TokensDiffer'
    BY <1>5 DEF Tick, vars
  <1> QED  BY <1>1, <1>2, <1>3, <1>4, <1>5 DEF Next

LEMMA NobodyTakesOverStep == ASSUME Exclusive, [Next]_vars PROVE NobodyTakesOver'
  <1>1. CASE now' # 0
    BY <1>1 DEF NobodyTakesOver
  <1>2. CASE now' = 0
    <2> USE LeaseParameters, <1>2
        DEF Exclusive, Typed, TypeOK, CallsTyped, TokensDiffer, NobodyTakesOver, Process, Goto, files, local, calm
    <2>0. issued \in Nat /\ now \in Nat /\ (now = 0 => ~Expired(path))
      BY DEF Expired
    <2>1. ASSUME NEW c \in Client, Begin(c) PROVE NobodyTakesOver'
      BY <2>1 DEF Begin
    <2>2. ASSUME NEW c \in Client, Create(c) PROVE NobodyTakesOver'
      BY <2>0, <2>2 DEF Create
    <2>3. ASSUME NEW c \in Client, WritePayload(c) \/ Inspect(c) PROVE NobodyTakesOver'
      BY <2>0, <2>3 DEF WritePayload, Inspect, Stale
    <2>4. ASSUME NEW c \in Client, Rename(c) \/ RenameFails(c) \/ GiveUp(c) PROVE NobodyTakesOver'
      BY <2>4 DEF Rename, RenameFails, GiveUp
    <2>5. ASSUME NEW c \in Client, Leave(c) \/ CleanUp(c) \/ Crash(c) PROVE NobodyTakesOver'
      BY <2>5 DEF Leave, CleanUp, Crash
    <2>6. ASSUME NEW c \in Client, Unlink(c) PROVE NobodyTakesOver'
      <3>1. now = 0 /\ path = token[c]
        BY <2>6 DEF Unlink
      <3>2. \A d \in Client : pc'[d] \in {"payload", "held", "unlink"} => FALSE
        BY <2>6, <3>1 DEF Unlink
      <3> QED  BY <2>6, <3>1, <3>2 DEF Unlink
    <2>7. ASSUME NEW d \in Doctor, Scan(d) PROVE NobodyTakesOver'
      BY <2>0, <2>7 DEF Scan
    <2>8. ASSUME NEW d \in Doctor, Sweep(d) PROVE NobodyTakesOver'
      BY <2>8 DEF Sweep
    <2>9. ASSUME Tick PROVE FALSE
      BY <2>0, <2>9 DEF Tick
    <2>10. ASSUME UNCHANGED vars PROVE NobodyTakesOver'
      BY <2>10 DEF vars
    <2> QED
      BY <2>1, <2>2, <2>3, <2>4, <2>5, <2>6, <2>7, <2>8, <2>9, <2>10 DEF Next
  <1> QED  BY <1>1, <1>2

\* Until the first lease expires the lease file is a lock, for any number of
\* processes: ExclusiveUntilExpiry.
THEOREM LeaseExclusiveUntilExpiry == Spec => []ExclusiveUntilExpiry
  <1>1. Init => Exclusive
    BY TypedInit DEF Init, Exclusive, TokensDiffer, NobodyTakesOver, Process
  <1>2. Exclusive /\ [Next]_vars => Exclusive'
    BY TypedStep, TokensDifferStep, NobodyTakesOverStep DEF Exclusive
  <1>3. Exclusive => ExclusiveUntilExpiry
    BY DEF Exclusive, Typed, TypeOK, TokensDiffer, NobodyTakesOver, ExclusiveUntilExpiry, OneHolder, Holders
  <1> QED  BY <1>1, <1>2, <1>3, PTL DEF Spec
-----------------------------------------------------------------------------
(* A call left alone takes an abandoned lease over.                        *)

\* The call that nobody disturbs knows what is at the path: nothing after its own
\* rename, and otherwise the file it found.
AloneKnows ==
    \A c \in Client : alone[c] =>
        /\ pc[c] = "create"  => attempt[c] = 0 \/ path = 0
        /\ pc[c] = "inspect" => attempt[c] = 0 /\ path # 0 /\ (met[c] \/ path <= now)
        /\ pc[c] = "giveup"  => met[c] \/ (path # 0 /\ path \notin full)

LEMMA AloneKnowsStep == ASSUME Typed, AloneKnows, [Next]_vars PROVE AloneKnows'
  <1> USE LeaseParameters
      DEF Typed, TypeOK, AloneKnows, Process, Goto, Disturb, files, local, calm
  <1>0. issued \in Nat /\ now \in Nat /\ path \in Nat
    OBVIOUS
  <1>1. ASSUME NEW c \in Client, Begin(c) PROVE AloneKnows'
    <2>1. \A d \in Client : alone'[d] => d = c
      BY <1>1 DEF Begin
    <2> QED  BY <1>1, <2>1 DEF Begin
  <1> DEFINE Lone(c) == \A d \in Client : alone'[d] => d = c /\ alone[c]
  <1>2. ASSUME NEW c \in Client, Create(c) PROVE AloneKnows'
    <2>1. Lone(c)
      BY <1>2 DEF Create
    <2>2. CASE path = 0
      BY <1>2, <2>1, <2>2 DEF Create
    <2>3. CASE path # 0
      <3>1. /\ pc'[c] = "inspect" /\ path' = path /\ now' = now /\ attempt' = attempt
            /\ pc[c] = "create" /\ met'[c] = (met[c] \/ path > now)
        BY <1>2, <2>3 DEF Create
      <3>2. met'[c] \/ path <= now
        <4>1. CASE path > now
          BY <3>1, <4>1
        <4>2. CASE ~(path > now)
          BY <1>0, <4>2
        <4> QED  BY <4>1, <4>2
      <3>3. alone[c] => attempt[c] = 0
        BY <2>3, <3>1
      <3> QED  BY <2>1, <2>3, <3>1, <3>2, <3>3
    <2> QED  BY <2>2, <2>3
  <1>3. ASSUME NEW c \in Client, Inspect(c) PROVE AloneKnows'
    <2>1. Lone(c) /\ pc'[c] \in {"rename", "giveup"}
      BY <1>3 DEF Inspect
    <2>2. UNCHANGED <<path, now, full, attempt, met>> /\ pc[c] = "inspect"
      BY <1>3 DEF Inspect
    <2>3. pc'[c] = "giveup" => ~Stale(c)
      BY <1>3 DEF Inspect
    <2> QED  BY <1>0, <2>1, <2>2, <2>3 DEF Stale, Expired
  <1>4. ASSUME NEW c \in Client, Rename(c) PROVE AloneKnows'
    <2>1. Lone(c) /\ pc'[c] = "create" /\ path' = 0
      BY <1>4 DEF Rename, MoveAway
    <2> QED  BY <2>1
  <1>5. ASSUME NEW c \in Client, \/ WritePayload(c) \/ RenameFails(c) \/ GiveUp(c) \/ Leave(c)
                                 \/ Unlink(c) \/ CleanUp(c) \/ Crash(c)
        PROVE  AloneKnows'
    <2>1. Lone(c) /\ pc'[c] \in {"held", "idle", "unlink", "cleanup"}
      BY <1>5 DEF WritePayload, RenameFails, GiveUp, Leave, Unlink, CleanUp, Crash
    <2> QED  BY <2>1
  <1>6. ASSUME NEW d \in Doctor, Scan(d) \/ Sweep(d) PROVE AloneKnows'
    <2>1. \A c \in Client : ~alone'[c]
      BY <1>6 DEF Scan, Sweep
    <2> QED  BY <2>1
  <1>7. CASE Tick
    BY <1>0, <1>7 DEF Tick
  <1>8. CASE UNCHANGED vars
    BY <1>8 DEF vars
  <1> QED  BY <1>1, <1>2, <1>3, <1>4, <1>5, <1>6, <1>7, <1>8 DEF Next

\* LoneTakeover: whatever crashed or hung before, a call that runs by itself is refused
\* only for a lease whose time was not up when it looked, or for a file whose
\* writer died before the payload.
THEOREM LoneCallTakesOver == Spec => []LoneTakeover
  <1> DEFINE Inv == Typed /\ AloneKnows
  <1>1. ASSUME Init PROVE Inv
    <2>1. pc = [p \in Process |-> "idle"]
      BY <1>1 DEF Init
    <2> QED  BY <1>1, <2>1, TypedInit DEF AloneKnows, Process
  <1>2. Inv /\ [Next]_vars => Inv'
    BY TypedStep, AloneKnowsStep
  <1>3. Inv => LoneTakeover
    BY DEF AloneKnows, LoneTakeover
  <1> QED  BY <1>1, <1>2, <1>3, PTL DEF Spec
-----------------------------------------------------------------------------
(* The file protocol implements the exclusive lease.                       *)

Calm == timely /\ serial

\* While calls are timely and acquire the lease one at a time: a running call's lease has
\* not expired; the call that created its file still has it at the path; a file about
\* to be renamed has expired, and can only have gone meanwhile; no doctor interferes.
OwnersAtPath ==
    Calm =>
        /\ \A c, d \in Client : pc[c] \in Acquiring /\ pc[d] \in Acquiring => c = d
        /\ \A c \in Client : pc[c] # "idle" => token[c] > now
        /\ \A c \in Client : Owning(c) => path = token[c]
        /\ \A c \in Client : pc[c] = "rename" => path <= now
        /\ \A d \in Doctor : pc[d] # "sweep"

Calmed == Typed /\ TokensDiffer /\ OwnersAtPath

\* Calm never returns.
LEMMA CalmSteps == ASSUME Typed, [Next]_vars, Calm' PROVE Calm
  <1> USE DEF Calm, Typed, TypeOK, calm
  <1>1. ASSUME NEW c \in Client, Begin(c) PROVE Calm
    BY <1>1 DEF Begin
  <1>2. ASSUME NEW c \in Client, \/ Create(c) \/ WritePayload(c) \/ Inspect(c) \/ Rename(c)
                                 \/ RenameFails(c) \/ GiveUp(c) \/ Leave(c) \/ Unlink(c)
                                 \/ CleanUp(c) \/ Crash(c)
        PROVE  Calm
    BY <1>2 DEF Create, WritePayload, Inspect, Rename, RenameFails, GiveUp, Leave, Unlink, CleanUp, Crash
  <1>3. ASSUME NEW d \in Doctor, Scan(d) \/ Sweep(d) PROVE Calm
    BY <1>3 DEF Scan, Sweep
  <1>4. CASE Tick
    BY <1>4 DEF Tick
  <1>5. CASE UNCHANGED vars
    BY <1>5 DEF vars
  <1> QED  BY <1>1, <1>2, <1>3, <1>4, <1>5 DEF Next

LEMMA OwnersAtPathStep == ASSUME Calmed, [Next]_vars PROVE OwnersAtPath'
  <1> SUFFICES ASSUME Calm' PROVE OwnersAtPath'
    BY DEF OwnersAtPath
  <1>0. /\ Calm /\ Calm' /\ serial' /\ timely'
        /\ issued \in Nat /\ now \in Nat /\ path \in Nat /\ now <= issued
        /\ \A c \in Client : token[c] \in Nat
    BY CalmSteps DEF Calmed, Calm, Typed, TypeOK
  <1> USE LeaseParameters, <1>0
      DEF Calmed, Typed, TypeOK, CallsTyped, OwnersAtPath, Owning, Acquiring, Process, Goto, files, local, calm
  <1>1. ASSUME NEW c \in Client, Begin(c) PROVE OwnersAtPath'
    <2>1. \A d \in Client : pc[d] \notin Acquiring
      <3>1. serial' = (serial /\ \A d \in Client : pc[d] \notin Acquiring)
        BY <1>1, Zenon DEF Begin
      <3> HIDE DEF Acquiring
      <3> QED  BY <1>0, <3>1, Zenon
    <2>2. /\ pc' = [pc EXCEPT ![c] = "create"] /\ token' = [token EXCEPT ![c] = issued + 1]
          /\ path' = path /\ now' = now
      BY <1>1 DEF Begin
    <2> QED  BY <2>1, <2>2
  <1>2. ASSUME NEW c \in Client, Create(c) PROVE OwnersAtPath'
    BY <1>2 DEF Create
  <1>3. ASSUME NEW c \in Client, WritePayload(c) PROVE OwnersAtPath'
    BY <1>3 DEF WritePayload
  <1>4. ASSUME NEW c \in Client, Inspect(c) PROVE OwnersAtPath'
    BY <1>4 DEF Inspect, Stale, Expired
  <1>5. ASSUME NEW c \in Client, Rename(c) PROVE OwnersAtPath'
    <2>1. \A d \in Client : ~Owning(d) \/ path = 0
      BY <1>5 DEF Rename
    <2> QED  BY <1>5, <2>1 DEF Rename, MoveAway
  <1>6. ASSUME NEW c \in Client, RenameFails(c) \/ GiveUp(c) \/ CleanUp(c) \/ Crash(c)
        PROVE  OwnersAtPath'
    BY <1>6 DEF RenameFails, GiveUp, CleanUp, Crash
  <1>7. ASSUME NEW c \in Client, Leave(c) PROVE OwnersAtPath'
    BY <1>7 DEF Leave
  <1>8. ASSUME NEW c \in Client, Unlink(c) PROVE OwnersAtPath'
    <2>1. \A d \in Client : d # c => ~Owning(d)
      BY <1>8 DEF Unlink, TokensDiffer
    <2> QED  BY <1>8, <2>1 DEF Unlink
  <1>9. ASSUME NEW d \in Doctor, Scan(d) \/ Sweep(d) PROVE OwnersAtPath'
    BY <1>9 DEF Scan, Sweep
  <1>10. CASE Tick
    <2>1. now' = now + 1 /\ pc' = pc /\ token' = token /\ path' = path /\ ~Live(now + 1)
      BY <1>10 DEF Tick
    <2>2. \A c \in Client : pc[c] # "idle" => token[c] # now + 1
      BY <2>1 DEF Live
    <2> QED  BY <2>1, <2>2
  <1>11. CASE UNCHANGED vars
    BY <1>11 DEF vars
  <1> QED  BY <1>1, <1>2, <1>3, <1>4, <1>5, <1>6, <1>7, <1>8, <1>9, <1>10, <1>11 DEF Next

\* What the refinement mapping shows: the one owner, if there is one.
LEMMA OneOwner ==
    ASSUME Calmed, Calm, NEW c \in Client, Owning(c), NEW d \in Client, Owning(d) PROVE c = d
  BY DEF Calmed, OwnersAtPath, TokensDiffer, Owning

Shows(bar) ==
    /\ ~Calm => bar = "free"
    /\ \A c \in Client : Calm /\ Owning(c) => bar = c
    /\ Calm /\ (\A c \in Client : ~Owning(c)) => bar = IF path = 0 THEN "free" ELSE "orphan"

LEMMA BarShows == Calmed => Shows(leaseBar)
  <1> SUFFICES ASSUME Calmed PROVE Shows(leaseBar)
    OBVIOUS
  <1>1. ASSUME ~Calm PROVE leaseBar = "free"
    BY <1>1 DEF leaseBar, Calm
  <1>2. ASSUME NEW c \in Client, Calm, Owning(c) PROVE leaseBar = c
    <2>1. leaseBar = CHOOSE d \in Client : Owning(d)
      BY <1>2 DEF leaseBar, Calm
    <2>2. leaseBar \in Client /\ Owning(leaseBar)
      BY <1>2, <2>1
    <2> QED  BY <1>2, <2>2, OneOwner
  <1>3. ASSUME Calm, \A c \in Client : ~Owning(c)
        PROVE  leaseBar = IF path = 0 THEN "free" ELSE "orphan"
    BY <1>3 DEF leaseBar, Calm
  <1> QED  BY <1>1, <1>2, <1>3 DEF Shows
\* Every step of the protocol is a step of the abstract lease or a stutter.
LEMMA LeaseSimulation ==
    ASSUME Calmed, Calmed', Shows(leaseBar), Shows(leaseBar)', [Next]_vars
    PROVE  [Abstract!Next]_leaseBar
  <1> USE DEF Abstract!Next, Abstract!Acquire, Abstract!Release, Abstract!Die, Abstract!Reclaim
  <1>1. CASE ~Calm'
    <2>1. leaseBar' = "free"
      BY <1>1 DEF Shows
    <2>2. CASE \E c \in Client : Calm /\ Owning(c)
      BY <2>1, <2>2 DEF Shows
    <2>3. CASE ~\E c \in Client : Calm /\ Owning(c)
      <3>1. leaseBar \in {"free", "orphan"}
        BY <2>3 DEF Shows
      <3> QED  BY <2>1, <3>1
    <2> QED  BY <2>2, <2>3
  <1>2. CASE Calm'
    <2>0. /\ Calm /\ Calm'
          /\ path \in Nat /\ now \in Nat
          /\ \A c \in Client : token[c] \in Nat /\ (now < token[c] \/ pc[c] = "idle")
          /\ pc \in [Process -> Steps]
      BY <1>2, CalmSteps DEF Calmed, OwnersAtPath, Typed, TypeOK
    <2>1. ASSUME path' = path, \A c \in Client : Owning(c)' <=> Owning(c)
          PROVE  leaseBar' = leaseBar
      <3>1. CASE \E c \in Client : Owning(c)
        BY <2>0, <2>1, <3>1 DEF Shows
      <3>2. CASE \A c \in Client : ~Owning(c)
        BY <2>0, <2>1, <3>2 DEF Shows
      <3> QED  BY <3>1, <3>2
    <2> USE LeaseParameters DEF Process, Goto, files, local
    <2>2. ASSUME NEW c \in Client, Begin(c) \/ WritePayload(c) \/ Inspect(c) \/ RenameFails(c)
                                   \/ GiveUp(c) \/ CleanUp(c)
          PROVE  leaseBar' = leaseBar
      BY <2>0, <2>1, <2>2 DEF Begin, WritePayload, Inspect, RenameFails, GiveUp, CleanUp, Owning
    <2>3. ASSUME NEW c \in Client, Create(c) PROVE [Abstract!Next]_leaseBar
      <3>1. CASE path = 0
        <4>1. \A d \in Client : ~Owning(d)
          BY <2>0, <3>1 DEF Calmed, OwnersAtPath, Owning
        <4>2. Owning(c)'
          BY <2>0, <2>3, <3>1 DEF Create, Owning
        <4>3. leaseBar = "free" /\ leaseBar' = c
          BY <2>0, <3>1, <4>1, <4>2 DEF Shows
        <4> QED  BY <4>3
      <3>2. CASE path # 0
        BY <2>0, <2>1, <2>3, <3>2 DEF Create, Owning
      <3> QED  BY <3>1, <3>2
    <2>4. ASSUME NEW c \in Client, Rename(c) PROVE [Abstract!Next]_leaseBar
      <3>1. /\ path <= now /\ path' = 0
            /\ \A d \in Client : Owning(d)' <=> Owning(d)
        BY <2>0, <2>4 DEF Rename, MoveAway, Owning, Calmed, OwnersAtPath
      <3>2. \A d \in Client : ~Owning(d)
        BY <2>0, <3>1 DEF Calmed, OwnersAtPath, Owning
      <3>3. leaseBar \in {"free", "orphan"} /\ leaseBar' = "free"
        BY <2>0, <3>1, <3>2 DEF Shows
      <3> QED  BY <3>3
    <2>5. ASSUME NEW c \in Client, Leave(c) PROVE leaseBar' = leaseBar
      <3>1. path = token[c]
        BY <2>0, <2>5 DEF Leave, Calmed, OwnersAtPath, Owning
      <3> QED  BY <2>0, <2>1, <2>5, <3>1 DEF Leave, Owning
    <2>6. ASSUME NEW c \in Client, Unlink(c) PROVE [Abstract!Next]_leaseBar
      <3>1. Owning(c) /\ \A d \in Client : ~Owning(d)'
        BY <2>0, <2>6, OneOwner DEF Unlink, Owning
      <3>2. leaseBar = c /\ leaseBar' = "free"
        BY <2>0, <2>6, <3>1 DEF Shows, Unlink
      <3> QED  BY <3>2
    <2>7. ASSUME NEW c \in Client, Crash(c) PROVE [Abstract!Next]_leaseBar
      <3>1. CASE Owning(c)
        <4>1. path' = path /\ path # 0
          BY <2>0, <2>7, <3>1 DEF Crash, Calmed, OwnersAtPath
        <4>2. \A d \in Client : ~Owning(d)'
          BY <2>0, <2>7, <3>1, OneOwner DEF Crash, Owning
        <4>3. leaseBar = c /\ leaseBar' = "orphan"
          BY <2>0, <3>1, <4>1, <4>2 DEF Shows
        <4> QED  BY <4>3
      <3>2. CASE ~Owning(c)
        BY <2>0, <2>1, <2>7, <3>2 DEF Crash, Owning
      <3> QED  BY <3>1, <3>2
    <2>8. ASSUME NEW d \in Doctor, Scan(d) \/ Sweep(d) PROVE FALSE
      <3>1. CASE Scan(d)
        BY <2>0, <3>1 DEF Scan, Calm
      <3>2. CASE Sweep(d)
        BY <2>0, <3>2 DEF Sweep, Calmed, OwnersAtPath
      <3> QED  BY <2>8, <3>1, <3>2
    <2>9. ASSUME Tick \/ UNCHANGED vars PROVE leaseBar' = leaseBar
      BY <2>1, <2>9 DEF Tick, vars, Owning
    <2> QED  BY <2>2, <2>3, <2>4, <2>5, <2>6, <2>7, <2>8, <2>9 DEF Next
  <1> QED  BY <1>1, <1>2

\* ImplementsExclusiveLease: while every call ends before its lease expires and calls
\* acquire it one at a time, the lease file is the atomic lease the event store relies
\* on, for any number of clients, doctors, crashes and takeovers.
THEOREM FileImplementsLease == Spec => ImplementsExclusiveLease
  <1> DEFINE Inv == Calmed /\ Shows(leaseBar)
  <1>1. ASSUME Init PROVE Calmed
    <2>1. pc = [p \in Process |-> "idle"] /\ now = 0
      BY <1>1 DEF Init
    <2> QED  BY <1>1, <2>1, TypedInit
             DEF Calmed, TokensDiffer, OwnersAtPath, Owning, Acquiring, Process
  <1>2. Calmed /\ [Next]_vars => Calmed'
    BY TypedStep, TokensDifferStep, OwnersAtPathStep DEF Calmed
  <1>3. Calmed => Shows(leaseBar)
    BY BarShows
  <1>4. ASSUME Init PROVE Abstract!Init
    <2>1. Shows(leaseBar)
      BY <1>1, <1>3, <1>4
    <2>2. path = 0 /\ \A c \in Client : ~Owning(c)
      BY <1>4 DEF Init, Owning, Process
    <2> QED  BY <2>1, <2>2 DEF Shows, Abstract!Init
  <1>5. Calmed /\ Calmed' /\ Shows(leaseBar) /\ Shows(leaseBar)' /\ [Next]_vars
            => [Abstract!Next]_leaseBar
    BY LeaseSimulation
  <1> QED
    BY <1>1, <1>2, <1>3, <1>4, <1>5, PTL DEF Spec, ImplementsExclusiveLease, Abstract!Spec
=============================================================================

------------------------- MODULE IdGeneratorProofs -------------------------
(***************************************************************************)
(* Proofs about IdGenerator, for any capacity and any number of requests    *)
(* and of calls of Stop.                                                   *)
(***************************************************************************)
EXTENDS IdGenerator, TLAPS

\* While no two calls of Stop have overlapped, at most one of them has looked
\* and not yet closed, and then nobody else has closed the channel.
StopsApart ==
  ~overlap =>
    /\ ~panicked
    /\ \A s, t \in Stoppers : stopper[s] = "close" /\ stopper[t] = "close" => s = t
    /\ \A s \in Stoppers : stopper[s] = "close" => ~closed

IInv == TypeOK /\ StopsApart
-----------------------------------------------------------------------------
LEMMA TypeInit == Init => TypeOK
  <1> SUFFICES ASSUME Init PROVE TypeOK
    OBVIOUS
  <1>1. pool \in 0..Size /\ producer \in {"select", "send", "ended"}
    BY PoolAssumption DEF Init
  <1>2. waiting \in Seq(Requests) /\ (waiting # <<>> => pool = 0) BY DEF Init
  <1>3. /\ pc \in [Requests -> {"idle", "waiting", "next"}]
        /\ stopper \in [Stoppers -> {"idle", "close"}]
    BY DEF Init
  <1>4. {closed, panicked, overlap} \subseteq BOOLEAN BY DEF Init
  <1>5. QED BY <1>1, <1>2, <1>3, <1>4 DEF TypeOK

\* The producer hands its identifier to the first that waits, or has room.
LEMMA TypeSend == ASSUME TypeOK, Send PROVE TypeOK'
  <1>1. CASE waiting # <<>>
    <2>1. Head(waiting) \in Requests /\ Tail(waiting) \in Seq(Requests) /\ pool = 0
      BY <1>1 DEF TypeOK
    <2>2. QED
      BY <1>1, <2>1 DEF TypeOK, Send, HandedTo, AfterSend, stopVars
  <1>2. CASE waiting = <<>>
    BY <1>2, PoolAssumption DEF TypeOK, Send, Capacity, AfterSend, stopVars
  <1>3. QED BY <1>1, <1>2

LEMMA TypeNewID == ASSUME TypeOK, NEW r \in Requests, NewID(r) PROVE TypeOK'
  <1>1. CASE pool > 0
    BY <1>1, PoolAssumption DEF TypeOK, NewID, HandedTo, stopVars
  <1>2. CASE pool = 0
    <2>1. Append(waiting, r) \in Seq(Requests) BY DEF TypeOK
    <2>2. QED BY <1>2, <2>1, PoolAssumption DEF TypeOK, NewID, stopVars
  <1>3. QED BY <1>1, <1>2, PoolAssumption DEF TypeOK

LEMMA TypeNext == TypeOK /\ [Next]_vars => TypeOK'
  <1> SUFFICES ASSUME TypeOK, [Next]_vars PROVE TypeOK'
    OBVIOUS
  <1>1. CASE Select BY <1>1 DEF TypeOK, Select, Selected, stopVars
  <1>2. CASE Send BY <1>2, TypeSend
  <1>3. ASSUME NEW r \in Requests, Known(r) \/ Served(r) PROVE TypeOK'
    BY <1>3 DEF TypeOK, Known, Served, stopVars
  <1>4. ASSUME NEW r \in Requests, NewID(r) PROVE TypeOK'
    BY <1>4, TypeNewID
  <1>5. ASSUME NEW s \in Stoppers, BeginStop(s) \/ Close(s) PROVE TypeOK'
    BY <1>5 DEF TypeOK, BeginStop, Close
  <1>6. CASE UNCHANGED vars BY <1>6 DEF TypeOK, vars, stopVars
  <1>7. QED BY <1>1, <1>2, <1>3, <1>4, <1>5, <1>6 DEF Next

\* The channel keeps its capacity, and nobody waits while it holds an
\* identifier.
THEOREM TypeCorrect == Spec => []TypeOK
  BY TypeInit, TypeNext, PTL DEF Spec
-----------------------------------------------------------------------------
LEMMA StopsApartNext == TypeOK /\ StopsApart /\ [Next]_vars => StopsApart'
  <1> SUFFICES ASSUME TypeOK, StopsApart, [Next]_vars PROVE StopsApart'
    OBVIOUS
  <1>1. ASSUME NEW s \in Stoppers, BeginStop(s) PROVE StopsApart'
    BY <1>1 DEF TypeOK, StopsApart, BeginStop, FindsOpen
  <1>2. ASSUME NEW s \in Stoppers, Close(s) PROVE StopsApart'
    BY <1>2 DEF TypeOK, StopsApart, Close
  <1>3. CASE UNCHANGED stopVars BY <1>3 DEF StopsApart, stopVars
  <1>4. QED
    BY <1>1, <1>2, <1>3 DEF Next, Select, Send, Known, NewID, Served, vars, stopVars

\* Stop may be called any number of times: it panics only when two calls have
\* been in progress at the same time.
THEOREM StopsAreRepeatable == Spec => []StopsRepeatable
  <1>1. Init => StopsApart BY DEF Init, StopsApart
  <1>2. StopsApart => StopsRepeatable BY DEF StopsApart, StopsRepeatable
  <1>3. QED BY <1>1, <1>2, TypeInit, TypeNext, StopsApartNext, PTL DEF Spec
-----------------------------------------------------------------------------
(* The queue of the requests that wait.                                    *)

Queued(r) == \E i \in 1..Len(waiting) : waiting[i] = r
OnceQueued ==
  /\ \A r \in Requests : pc[r] = "waiting" => Queued(r)
  /\ \A i, j \in 1..Len(waiting) :
       pc[waiting[i]] = "waiting" /\ (waiting[i] = waiting[j] => i = j)

\* The one that leaves the queue no longer waits; the others move up.
LEMMA QueuedSend == ASSUME TypeOK, OnceQueued, Send PROVE OnceQueued'
  <1>1. CASE waiting # <<>>
    <2> DEFINE first == Head(waiting)
               len == Len(waiting)
    <2>1. /\ len \in Nat \ {0} /\ Len(waiting') = len - 1
          /\ \A i \in 1..(len - 1) : waiting'[i] = waiting[i + 1]
          /\ first = waiting[1] /\ first \in Requests
          /\ \A i \in 1..len : waiting[i] \in Requests
      BY <1>1 DEF TypeOK, Send
    <2>2. \A r \in Requests : pc'[r] = IF r = first THEN "next" ELSE pc[r]
      BY <1>1, <2>1 DEF TypeOK, Send, HandedTo
    <2> HIDE DEF first, len
    <2>3. ASSUME NEW r \in Requests, pc'[r] = "waiting" PROVE Queued(r)'
      <3>1. pc[r] = "waiting" /\ r # first BY <2>2, <2>3
      <3>2. PICK i \in 1..len : waiting[i] = r BY <3>1 DEF OnceQueued, Queued, len
      <3>3. i # 1 BY <2>1, <3>1, <3>2
      <3>4. i - 1 \in 1..(len - 1) /\ (i - 1) + 1 = i BY <2>1, <3>2, <3>3
      <3>5. waiting'[i - 1] = r BY <2>1, <3>2, <3>4
      <3>6. QED BY <2>1, <3>4, <3>5 DEF Queued
    <2>4. ASSUME NEW i \in 1..(len - 1), NEW j \in 1..(len - 1)
          PROVE  /\ pc'[waiting'[i]] = "waiting"
                 /\ waiting'[i] = waiting'[j] => i = j
      <3>1. i + 1 \in 1..len /\ j + 1 \in 1..len /\ 1 \in 1..len /\ i + 1 # 1
        BY <2>1
      <3>2. /\ pc[waiting[i + 1]] = "waiting"
            /\ waiting[i + 1] = waiting[j + 1] => i + 1 = j + 1
            /\ waiting[i + 1] # waiting[1]
        BY <3>1 DEF OnceQueued, len
      <3>3. QED BY <2>1, <2>2, <3>1, <3>2
    <2>5. QED BY <2>1, <2>3, <2>4 DEF OnceQueued
  <1>2. CASE waiting = <<>>
    BY <1>2 DEF OnceQueued, Queued, Send
  <1>3. QED BY <1>1, <1>2

LEMMA QueuedNewID ==
  ASSUME TypeOK, OnceQueued, NEW r \in Requests, NewID(r)
  PROVE  OnceQueued'
  <1> DEFINE len == Len(waiting)
  <1>1. /\ len \in Nat
        /\ \A i \in 1..len : waiting[i] \in Requests /\ waiting[i] # r
    BY DEF TypeOK, OnceQueued, NewID
  <1>2. CASE UNCHANGED waiting
    <2>1. \A q \in Requests : pc'[q] = IF q = r THEN pc'[r] ELSE pc[q]
      BY DEF TypeOK, NewID, HandedTo
    <2>2. pc'[r] # "waiting"
      BY <1>2, <1>1 DEF TypeOK, NewID, HandedTo
    <2>3. QED BY <1>1, <1>2, <2>1, <2>2 DEF OnceQueued, Queued
  <1>3. CASE /\ waiting' = Append(waiting, r)
             /\ pc' = [pc EXCEPT ![r] = "waiting"]
    <2>1. /\ Len(waiting') = len + 1 /\ waiting'[len + 1] = r
          /\ \A i \in 1..len : waiting'[i] = waiting[i]
      BY <1>3 DEF TypeOK
    <2>2. \A q \in Requests : pc'[q] = IF q = r THEN "waiting" ELSE pc[q]
      BY <1>3 DEF TypeOK
    <2>3. \A i \in 1..(len + 1) : i \in 1..len \/ i = len + 1
      BY <1>1
    <2>4. len + 1 \in 1..(len + 1) /\ 1..len \subseteq 1..(len + 1) BY <1>1
    <2> HIDE DEF len
    <2>5. ASSUME NEW q \in Requests, pc'[q] = "waiting" PROVE Queued(q)'
      <3>1. CASE q = r BY <2>1, <2>4, <3>1 DEF Queued
      <3>2. CASE q # r
        <4>1. PICK i \in 1..len : waiting[i] = q
          BY <2>2, <2>5, <3>2 DEF OnceQueued, Queued, len
        <4>2. QED BY <2>1, <2>4, <4>1 DEF Queued
      <3>3. QED BY <3>1, <3>2
    <2>6. ASSUME NEW i \in 1..(len + 1), NEW j \in 1..(len + 1)
          PROVE  /\ pc'[waiting'[i]] = "waiting"
                 /\ waiting'[i] = waiting'[j] => i = j
      <3>1. \A k, l \in 1..len : /\ pc[waiting[k]] = "waiting"
                                 /\ waiting[k] = waiting[l] => k = l
        BY DEF OnceQueued, len
      <3>2. QED BY <1>1, <2>1, <2>2, <2>3, <3>1
    <2>7. QED BY <2>1, <2>5, <2>6 DEF OnceQueued
  <1>4. QED BY <1>2, <1>3 DEF NewID

LEMMA QueuedNext == TypeOK /\ OnceQueued /\ [Next]_vars => OnceQueued'
  <1> SUFFICES ASSUME TypeOK, OnceQueued, [Next]_vars PROVE OnceQueued'
    OBVIOUS
  <1>1. CASE Send BY <1>1, QueuedSend
  <1>2. ASSUME NEW r \in Requests, NewID(r) PROVE OnceQueued'
    BY <1>2, QueuedNewID
  <1>3. ASSUME NEW r \in Requests, Known(r) \/ Served(r) PROVE OnceQueued'
    <2>1. /\ \A q \in Requests : pc'[q] = IF q = r THEN pc'[r] ELSE pc[q]
          /\ pc[r] # "waiting" /\ pc'[r] # "waiting" /\ UNCHANGED waiting
      BY <1>3 DEF TypeOK, Known, Served
    <2>2. \A i \in 1..Len(waiting) : waiting[i] \in Requests BY DEF TypeOK
    <2>3. QED BY <2>1, <2>2 DEF OnceQueued, Queued
  <1>4. CASE UNCHANGED <<pc, waiting>> BY <1>4 DEF OnceQueued, Queued
  <1>5. QED
    BY <1>1, <1>2, <1>3, <1>4 DEF Next, Select, BeginStop, Close, vars

LEMMA EndedNext ==
  (producer = "ended" => closed) /\ [Next]_vars => (producer = "ended" => closed)'
  BY DEF Next, Select, Selected, Send, AfterSend, Known, NewID, Served, BeginStop,
         Close, vars, stopVars

\* No waiting request is lost, and until Stop the producer goes on to serve it.
THEOREM WaitersAreReached == Spec => []WaitersReached
  <1>1. Init => OnceQueued /\ (producer = "ended" => closed)
    BY DEF Init, OnceQueued, Queued
  <1>2. OnceQueued /\ (producer = "ended" => closed) => WaitersReached
    BY DEF OnceQueued, Queued, WaitersReached
  <1>3. QED BY <1>1, <1>2, TypeInit, TypeNext, QueuedNext, EndedNext, PTL DEF Spec
=============================================================================

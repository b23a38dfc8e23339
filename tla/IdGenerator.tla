---------------------------- MODULE IdGenerator ----------------------------
(***************************************************************************)
(* The log identifiers (biz/util/id_gen): a goroutine fills a buffered      *)
(* channel, the pool, from which the trace middleware takes one for every   *)
(* request that brings none.  Identifiers are not told apart: the state is  *)
(* how many there are.                                                     *)
(*                                                                         *)
(* A receiver that finds the channel empty waits its turn, as in Go: it is  *)
(* handed the value of the next send, first come, first served.            *)
(***************************************************************************)
EXTENDS Naturals, Sequences

CONSTANTS Requests,  \* goroutines serving requests
          Stoppers,  \* goroutines that call Stop
          Size       \* capacity of the pool

ASSUME PoolAssumption == Size \in Nat \ {0}

VARIABLES pool,      \* number of identifiers in the channel
          producer,  \* the step the goroutine of newPool takes next
          waiting,   \* requests blocked in NewID
          pc,        \* pc[r]: where request r is
          closed,    \* the channel stop is closed
          stopper,   \* stopper[s]: what s does next in Stop
          panicked,  \* the process has died of a panic
          overlap    \* auxiliary: two calls of Stop have been in progress at once

vars == <<pool, producer, waiting, pc, closed, stopper, panicked, overlap>>
stopVars == <<closed, stopper, panicked, overlap>>

Init ==
  /\ pool = 0 /\ producer = "select"
  /\ waiting = <<>>
  /\ pc = [r \in Requests |-> "idle"]
  /\ closed = FALSE
  /\ stopper = [s \in Stoppers |-> "idle"]
  /\ panicked = FALSE /\ overlap = FALSE
-----------------------------------------------------------------------------
\* An identifier is handed to r, which goes on to the next handler.
HandedTo(r) == pc' = [pc EXCEPT ![r] = "next"]

\* select takes the closed channel if it can, the default only if it cannot.
NeverStops == "send"
Selected == IF closed THEN "ended" ELSE "send"

Select == /\ producer = "select"
          /\ producer' = Selected
          /\ UNCHANGED <<pool, waiting, pc, stopVars>>

\* make(chan string, size), and the loop around select.
Capacity == Size
EndsAfterSend == "ended"
AfterSend == "select"

Send ==
  /\ producer = "send"
  /\ \/ /\ waiting # <<>>
        /\ HandedTo(Head(waiting)) /\ waiting' = Tail(waiting)
        /\ UNCHANGED pool
     \/ /\ waiting = <<>> /\ pool < Capacity
        /\ pool' = pool + 1
        /\ UNCHANGED <<waiting, pc>>
  /\ producer' = AfterSend
  /\ UNCHANGED stopVars

-----------------------------------------------------------------------------
\* trace.New: a request that brings its identifier does not ask for one.
Known(r) == /\ pc[r] = "idle"
            /\ pc' = [pc EXCEPT ![r] = "next"]
            /\ UNCHANGED <<pool, producer, waiting, stopVars>>

NewID(r) ==
  /\ pc[r] = "idle"
  /\ \/ pool > 0 /\ pool' = pool - 1 /\ HandedTo(r) /\ UNCHANGED waiting
     \/ /\ pool = 0 /\ waiting' = Append(waiting, r)
        /\ pc' = [pc EXCEPT ![r] = "waiting"]
        /\ UNCHANGED <<pool>>
  /\ UNCHANGED <<producer, stopVars>>

Served(r) == /\ pc[r] = "next"
             /\ pc' = [pc EXCEPT ![r] = "idle"]
             /\ UNCHANGED <<pool, producer, waiting, stopVars>>
-----------------------------------------------------------------------------
\* Stop looks whether the channel is closed, then closes it; a second close
\* panics.
ClosesBlindly(s) == TRUE
FindsOpen(s) == ~closed

BeginStop(s) ==
  /\ stopper[s] = "idle"
  /\ stopper' = [stopper EXCEPT ![s] = IF FindsOpen(s) THEN "close" ELSE "idle"]
  /\ overlap' = (overlap \/ \E t \in Stoppers : stopper[t] = "close")
  /\ UNCHANGED <<pool, producer, waiting, pc, closed, panicked>>

Close(s) ==
  /\ stopper[s] = "close"
  /\ panicked' = closed /\ closed' = TRUE
  /\ stopper' = [stopper EXCEPT ![s] = "idle"]
  /\ UNCHANGED <<pool, producer, waiting, pc, overlap>>

Next == /\ ~panicked
        /\ \/ Select \/ Send
           \/ \E r \in Requests : Known(r) \/ NewID(r) \/ Served(r)
           \/ \E s \in Stoppers : BeginStop(s) \/ Close(s)

Produce == ~panicked /\ (Select \/ Send)
Spec == Init /\ [][Next]_vars /\ WF_vars(Produce)
-----------------------------------------------------------------------------
(* Properties.                                                             *)

\* Every variable holds a value of its type; the channel keeps its capacity,
\* and nobody waits while it holds an identifier.
TypeOK ==
  /\ pool \in 0..Size
  /\ producer \in {"select", "send", "ended"}
  /\ waiting \in Seq(Requests) /\ (waiting # <<>> => pool = 0)
  /\ pc \in [Requests -> {"idle", "waiting", "next"}]
  /\ stopper \in [Stoppers -> {"idle", "close"}]
  /\ {closed, panicked, overlap} \subseteq BOOLEAN

\* Stop may be called any number of times: it panics only when two calls have
\* been in progress at the same time.
StopsRepeatable == panicked => overlap

\* No waiting request is lost: it stands in the channel's queue exactly once,
\* the queue holds no other, and until Stop the producer goes on to serve it.
WaitersReached ==
  /\ \A r \in Requests : pc[r] = "waiting" => \E i \in 1..Len(waiting) : waiting[i] = r
  /\ \A i, j \in 1..Len(waiting) :
       pc[waiting[i]] = "waiting" /\ (waiting[i] = waiting[j] => i = j)
  /\ producer = "ended" => closed

\* A request gets its identifier unless the generator has been stopped.
RequestsServed == \A r \in Requests : pc[r] = "waiting" ~> pc[r] # "waiting" \/ closed

\* After Stop the producer ends as soon as there is room in the pool; without
\* another call of NewID a full pool would keep the goroutine for ever.
ProducerEnds == closed /\ pool < Size ~> producer = "ended" \/ panicked
=============================================================================

------------------------- MODULE RegisterProtection -------------------------
(***************************************************************************)
(* The middleware in front of Register: a successful registration blocks   *)
(* its address for a while.  The block is looked up before the handler and  *)
(* set after it; between two steps other requests run and time passes.      *)
(* Redis may fail either command: the lookup then finds nothing, the block  *)
(* is not set.  MySQL may lose the acknowledgement of the handler's commit: *)
(* the user is registered, the answer an error.                            *)
(***************************************************************************)
EXTENDS Interceptor, FiniteSets

CONSTANTS IPs, Workers,
          BlockTime,   \* blockDuration
          MaxFaults,   \* bound on the commands, a commit among them, that fail
          MaxMade,     \* bound on `made`, beyond which it is not counted
          Null         \* no request

ASSUME RegisterAssumption ==
  /\ BlockTime \in Nat \ {0}  \* 10 minutes unless the configuration is positive
  /\ MaxFaults \in Nat /\ MaxMade \in Nat
  /\ Null \notin IPs

\* There are finitely many goroutines.
ASSUME WorkersAssumption == IsFiniteSet(Workers)

VARIABLES block,   \* block[ip]: time left of the key register_block, 0 if none
          pc,      \* pc[w]: the step worker w takes next
          client,  \* client[w]: the address of the request w serves
          pause,   \* auxiliary: time left since an address registered a user
          made,    \* auxiliary: its registrations since its last block ended
          faults   \* the number of commands that have failed

vars == <<block, pc, client, pause, made, faults>>

Labels == {"idle", "check", "handle", "block"}

Init ==
  /\ block = [ip \in IPs |-> 0]
  /\ pc = [w \in Workers |-> "idle"]
  /\ client = [w \in Workers |-> Null]
  /\ pause = [ip \in IPs |-> 0]
  /\ made = [ip \in IPs |-> 0]
  /\ faults = 0
-----------------------------------------------------------------------------
Goto(w, label) == pc' = [pc EXCEPT ![w] = label] /\ UNCHANGED client
Answer(w) == /\ pc' = [pc EXCEPT ![w] = "idle"]
             /\ client' = [client EXCEPT ![w] = Null]
Fault == faults < MaxFaults /\ faults' = faults + 1

Begin(w) ==
  /\ pc[w] = "idle"
  /\ \E ip \in IPs : client' = [client EXCEPT ![w] = ip]
  /\ pc' = [pc EXCEPT ![w] = "check"]
  /\ UNCHANGED <<block, pause, made, faults>>

Check(w) ==
  /\ pc[w] = "check"
  /\ \/ block[client[w]] # 0 /\ Answer(w) /\ UNCHANGED faults
     \/ block[client[w]] = 0 /\ Goto(w, "handle") /\ UNCHANGED faults
     \/ Fault /\ Goto(w, "handle")
  /\ UNCHANGED <<block, pause, made>>

Registers(ip) ==
  /\ pause' = [pause EXCEPT ![ip] = BlockTime]
  /\ made' = [made EXCEPT ![ip] = IF @ < MaxMade THEN @ + 1 ELSE @]

\* handler.Register answers: a success, or an error; after an error the user is
\* registered only if the commit went through and its acknowledgement did not.
Succeed(w) == /\ pc[w] = "handle" /\ Goto(w, "block")
              /\ Registers(client[w])
              /\ UNCHANGED <<block, faults>>
Fail(w) == /\ pc[w] = "handle" /\ Answer(w)
           /\ \/ UNCHANGED <<pause, made, faults>>
              \/ Registers(client[w]) /\ Fault
           /\ UNCHANGED block

NotBlocked(ip) == block
Blocked(ip) == [block EXCEPT ![ip] = BlockTime]

SetBlock(w) ==
  /\ pc[w] = "block"
  /\ \/ block' = Blocked(client[w]) /\ UNCHANGED faults
     \/ UNCHANGED block /\ Fault
  /\ Answer(w)
  /\ UNCHANGED <<pause, made>>

\* Time passes; the registrations of an address are counted anew when its
\* block ends.
Tick ==
  /\ \E ip \in IPs : block[ip] > 0 \/ pause[ip] > 0
  /\ block' = [ip \in IPs |-> Older(block[ip])]
  /\ pause' = [ip \in IPs |-> Older(pause[ip])]
  /\ made' = [ip \in IPs |-> IF block[ip] = 1 THEN 0 ELSE made[ip]]
  /\ UNCHANGED <<pc, client, faults>>

Next == Tick \/ \E w \in Workers : Begin(w) \/ Check(w) \/ Succeed(w) \/ Fail(w)
                                   \/ SetBlock(w)

Spec == Init /\ [][Next]_vars
-----------------------------------------------------------------------------
(* Properties.                                                             *)

\* Every variable holds a value of its type; a block has a time to live.
TypeOK ==
  /\ block \in [IPs -> 0..BlockTime]
  /\ pc \in [Workers -> Labels]
  /\ client \in [Workers -> IPs \cup {Null}]
  /\ pause \in [IPs -> 0..BlockTime]
  /\ made \in [IPs -> 0..MaxMade]
  /\ faults \in 0..MaxFaults

\* Until its block ends an address registers at most one user with every
\* request that was under way together, plus one for every command or commit that
\* failed: the check before and the block after are not one step.
RegistrationsBounded ==
  \A ip \in IPs : made[ip] <= Cardinality(Workers) + faults

\* The middleware "prevents registration after a successful one for a certain
\* duration", as long as Redis and MySQL answer.
OneRegistration ==
  [][\A w \in Workers : Succeed(w) => pause[client[w]] = 0 \/ faults > 0]_vars
=============================================================================

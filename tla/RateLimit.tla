----------------------------- MODULE RateLimit -----------------------------
(***************************************************************************)
(* The rate limiter in front of every route (biz/middleware/ratelimit).    *)
(* A request is counted by a run of the interceptor's script, which Redis  *)
(* does not interrupt, so an attempt to run it is one step.  The client     *)
(* library repeats an attempt that has failed, and one whose answer is lost *)
(* has counted; when it gives up, the request fails open.  Counters may be  *)
(* found in Redis without a time to live, the state the script repairs.    *)
(***************************************************************************)
EXTENDS Interceptor, FiniteSets

CONSTANTS Paths,
          Rules,     \* Rules[p]: window, limit and hasSession of configured paths
          Clients,   \* [ip, sid]: an address, and the identifier of its session
          MaxFaults, \* bound on the attempts that fail
          MaxCount,  \* a count that is reached is not counted up
          MaxNoted   \* bound on the attempts of a client noted per unit of time

Rule == [window : Nat \ {0}, limit : Nat \ {0}, hasSession : BOOLEAN]

\* New skips a configuration without a path, a positive window or limit.
ASSUME RateLimitAssumption ==
  /\ DOMAIN Rules \subseteq Paths /\ \A p \in DOMAIN Rules : Rules[p] \in Rule
  /\ MaxFaults \in Nat

DefaultRule == [window |-> 1, limit |-> 2, hasSession |-> FALSE]
RuleOf(p) == IF p \in DOMAIN Rules THEN Rules[p] ELSE DefaultRule

\* Who shares a limit on a path: the session of the cookie, which is empty for
\* every client without one, or the address.
AddressOnly(p, c) == c.ip
Subject(p, c) == IF RuleOf(p).hasSession THEN c.sid ELSE c.ip
Key(p, c) == <<p, Subject(p, c)>>

Keys == {Key(p, c) : p \in Paths, c \in Clients}

\* The bounds are beyond every limit.
ASSUME BoundsAssumption ==
  /\ MaxCount \in Nat /\ MaxNoted \in Nat
  /\ \A p \in Paths : RuleOf(p).limit < MaxCount /\ RuleOf(p).limit <= MaxNoted

\* How an attempt ends: the script allows the request, the request fails open,
\* or the answer is lost and the library sends the script again.
Outcomes == {"allowed", "open", "lost"}

\* An attempt made `age` units of time ago, the nr-th of its unit.
Attempt == [path : Paths, client : Clients, age : Nat, nr : 1..MaxNoted, how : Outcomes]

VARIABLES counter,  \* counter[k]: the Redis key rate_limit:k
          faults,   \* the number of attempts that have failed
          old,      \* auxiliary: keys with counts from before the start
          asked,    \* auxiliary: keys the script has counted on
          noted     \* auxiliary: the attempts of the last window of their path that
                    \* have let a request through or were lost

vars == <<counter, faults, old, asked, noted>>

Init ==
  /\ counter \in [Keys -> {NoKey, [count |-> MaxCount, ttl |-> NoTTL]}]
  /\ old = {k \in Keys : counter[k] # NoKey}
  /\ faults = 0
  /\ asked = {} /\ noted = {}
-----------------------------------------------------------------------------
AtMost(n, bound) == IF n > bound THEN bound ELSE n

\* The counter of k after the script has run on it for path p.
Counted(p, k) ==
  LET c == Incr(counter[k], RuleOf(p).window)
  IN [c EXCEPT !.count = AtMost(@, MaxCount)]
Count(p, c) == /\ counter' = [counter EXCEPT ![Key(p, c)] = Counted(p, Key(p, c))]
               /\ asked' = asked \cup {Key(p, c)}
Within(p, c) == Allowed(Counted(p, Key(p, c)), RuleOf(p).limit)

Attempts(p, c, how) ==
  [path : {p}, client : {c}, age : {0}, nr : 1..MaxNoted, how : {how}]
Note(p, c, how) ==
  LET free == Attempts(p, c, how) \ noted
  IN noted' = IF free = {} THEN noted ELSE noted \cup {CHOOSE s \in free : TRUE}

Admit(p, c) == /\ Within(p, c)
               /\ Count(p, c) /\ Note(p, c, "allowed")
               /\ UNCHANGED <<faults, old>>

Deny(p, c) == /\ ~Within(p, c)
              /\ Count(p, c)
              /\ UNCHANGED <<faults, old, noted>>

Fault == faults < MaxFaults /\ faults' = faults + 1

\* The attempt counts and its answer is lost.  The next one is a step like a
\* new request's; one that has not reached Redis leaves nothing and is no step.
Resend(p, c) == /\ Fault
                /\ Count(p, c) /\ Note(p, c, "lost")
                /\ UNCHANGED old

\* The library gives up: the script, or only its answer, does not get through.
FailOpen(p, c) == /\ Fault
                  /\ UNCHANGED <<counter, asked>> \/ Count(p, c)
                  /\ Note(p, c, "open")
                  /\ UNCHANGED old

\* A unit of time later.
Later(s) == [s EXCEPT !.age = @ + 1]
Remembered(s) == s.age + 1 < RuleOf(s.path).window

Tick ==
  /\ \/ \E k \in Keys : counter[k].ttl > 0
     \/ noted # {}
  /\ counter' = [k \in Keys |-> Aged(counter[k])]
  /\ old' = {k \in old : counter'[k] # NoKey}
  /\ asked' = {k \in asked : counter'[k] # NoKey}
  /\ noted' = {Later(s) : s \in {s \in noted : Remembered(s)}}
  /\ UNCHANGED faults

Next == \/ Tick
        \/ \E p \in Paths, c \in Clients :
             Admit(p, c) \/ Deny(p, c) \/ Resend(p, c) \/ FailOpen(p, c)

Spec == Init /\ [][Next]_vars
TimedSpec == Spec /\ WF_vars(Tick)
-----------------------------------------------------------------------------
(* Properties.                                                             *)

\* Every variable holds a value of its type; a key that exists has counted.
TypeOK ==
  /\ counter \in [Keys -> [count : 0..MaxCount, ttl : {NoTTL} \cup Nat]]
  /\ \A k \in Keys : /\ counter[k].count = 0 <=> counter[k].ttl = 0
                     /\ counter[k].ttl <= RuleOf(k[1]).window
  /\ faults \in 0..MaxFaults
  /\ old \subseteq Keys /\ asked \subseteq Keys
  /\ noted \subseteq Attempt /\ \A s \in noted : s.age < RuleOf(s.path).window

\* The attempts noted on p during its last window, of the clients that are one
\* session, or one address, with c; those that have let a request through.
Same(p, c, d) == IF RuleOf(p).hasSession THEN d.sid = c.sid ELSE d.ip = c.ip
AttemptsOf(p, c) == {s \in noted : s.path = p /\ Same(p, c, s.client)}
RecentOf(p, c) == {s \in AttemptsOf(p, c) : s.how # "lost"}

\* Whenever one looks, no more than twice the limit less one request of a caller
\* have been let through during the last window, plus one for each failed
\* attempt: two windows of the counter meet in it, but not both first requests.
AdmissionsBounded ==
  \A p \in Paths, c \in Clients :
    Cardinality(RecentOf(p, c)) <= 2 * RuleOf(p).limit - 1 + faults

\* "To avoid shared limits across different paths": a request is denied only for
\* attempts of its own session or address on this very path.  As many as the
\* limit have been let through there during the last window, or have counted
\* there and were sent again; or the key is a left-over.
DeniedForOwnRequests ==
  [][\A p \in Paths, c \in Clients :
       Deny(p, c) => \/ Cardinality(AttemptsOf(p, c)) >= RuleOf(p).limit
                     \/ Key(p, c) \in old]_vars

\* A counter that a request has counted on has an end, and no later request,
\* let through, denied or failed, puts it off: a caller who keeps asking while it
\* is denied waits no longer than one who does not.
WindowsRunOut ==
  [][\A k \in asked : counter[k].ttl > 0 /\ counter'[k].ttl <= counter[k].ttl]_vars

\* A session or address that is denied is let in again later, also when its
\* counter had no time to live before it asked.
DenialsEnd ==
  \A k \in Keys :
    LET over == \E p \in Paths, c \in Clients :
                  k = Key(p, c) /\ counter[k].count > RuleOf(p).limit
    IN over /\ k \in asked ~> ~over
=============================================================================

-------------------------- MODULE LoginProtection --------------------------
(***************************************************************************)
(* The middleware in front of Login (biz/middleware/security): failed      *)
(* logins are counted per client address, successful ones per account, and  *)
(* an address with too many failures is blocked for minutes, then for hours. *)
(*                                                                         *)
(* Every Redis command is a step; between two steps other requests run and  *)
(* time passes.  Redis may fail any command: the code then goes on as if   *)
(* the key did not exist, or leaves the command undone.  Before that the   *)
(* client library repeats it, and a repeated script counts again.          *)
(***************************************************************************)
EXTENDS Interceptor, FiniteSets

CONSTANTS IPs, Accounts, Workers,
          FailWindow, Limit,            \* conf.WindowSeconds, conf.Limit
          SuccessWindow, SuccessLimit,  \* of the same configuration
          BlockMin, BlockHour, FailLevel,  \* durations of the three marks
          MaxFaults,                    \* bound on the Redis commands that fail
          Null                          \* no request

Request == [ip : IPs, account : Accounts]

\* The counters and marks have a time to live, which newLoginProtectionSettings
\* makes positive whatever the configuration says.
ASSUME SettingsAssumption ==
  /\ FailWindow \in Nat \ {0} /\ SuccessWindow \in Nat \ {0}
  /\ Limit \in Nat \ {0} /\ SuccessLimit \in Nat \ {0}
  /\ BlockMin \in Nat \ {0} /\ BlockHour \in Nat \ {0} /\ FailLevel \in Nat \ {0}
  /\ MaxFaults \in Nat
  /\ Null \notin Request

\* There are finitely many goroutines.
ASSUME WorkersAssumption == IsFiniteSet(Workers)

\* What the configuration must add for the protection to be one: a block lasts
\* at least as long as the failures are remembered, and is remembered itself.
\* The example configuration meets it (deploy.example.yml); no code checks it.
ASSUME ConfigurationAssumption ==
  /\ FailWindow <= BlockMin
  /\ BlockMin <= FailLevel
  /\ BlockMin <= BlockHour

\* The limits given to the interceptors.
FailLimit == Limit - 1
SuccessCap == SuccessLimit - 1

VARIABLES fails,      \* fails[ip]: the key login_fail
          successes,  \* successes[a]: the key login_success
          minute,     \* minute[ip]: time left of the key login_block_m, 0 if none
          hour,       \* hour[ip]: the same of login_block_h
          level,      \* level[ip]: the same of login_fail_level
          pc,         \* pc[w]: the command worker w executes next
          req,        \* req[w]: the request w serves
          due,        \* auxiliary: blocks in force since w's request came
          faults      \* the number of commands that have failed

counters == <<fails, successes>>
marks == <<minute, hour, level>>
vars == <<counters, marks, pc, req, due, faults>>

Labels == {"idle", "hour", "minute", "reach", "handle", "recordSuccess",
           "recordFailure", "level", "setHour", "setMinute", "setLevel"}

Init ==
  /\ fails = [ip \in IPs |-> NoKey]
  /\ successes = [a \in Accounts |-> NoKey]
  /\ minute = [ip \in IPs |-> 0]
  /\ hour = [ip \in IPs |-> 0]
  /\ level = [ip \in IPs |-> 0]
  /\ pc = [w \in Workers |-> "idle"]
  /\ req = [w \in Workers |-> Null]
  /\ due = [w \in Workers |-> {}]
  /\ faults = 0
-----------------------------------------------------------------------------
Goto(w, label) == /\ pc' = [pc EXCEPT ![w] = label]
                  /\ UNCHANGED <<req, due>>
Answer(w) == /\ pc' = [pc EXCEPT ![w] = "idle"]
             /\ req' = [req EXCEPT ![w] = Null]
             /\ due' = [due EXCEPT ![w] = {}]

Fault == faults < MaxFaults /\ faults' = faults + 1

BlockKinds == {"hour", "minute"}
TimeLeft(kind, ip) == IF kind = "hour" THEN hour[ip] ELSE minute[ip]

Begin(w) ==
  /\ pc[w] = "idle"
  /\ \E r \in Request :
       /\ req' = [req EXCEPT ![w] = r]
       /\ due' = [due EXCEPT ![w] = {k \in BlockKinds : TimeLeft(k, r.ip) # 0}]
  /\ pc' = [pc EXCEPT ![w] = "hour"]
  /\ UNCHANGED <<counters, marks, faults>>

\* loginProtectionAbortIfBlocked: two EXISTS, whose errors are dropped.
LastUnitIgnored(ttl) == ttl > 1
Exists(ttl) == ttl # 0

CheckBlock(w, here, ttl, next) ==
  /\ pc[w] = here
  /\ \/ Exists(ttl) /\ Answer(w) /\ UNCHANGED faults
     \/ ~Exists(ttl) /\ Goto(w, next) /\ UNCHANGED faults
     \/ /\ Fault
        /\ due' = [due EXCEPT ![w] = @ \ {here}]
        /\ pc' = [pc EXCEPT ![w] = next]
        /\ UNCHANGED req
  /\ UNCHANGED <<counters, marks>>

CheckHour(w) == CheckBlock(w, "hour", hour[req[w].ip], "minute")
CheckMinute(w) == CheckBlock(w, "minute", minute[req[w].ip], "reach")

\* The request is parsed (it may be malformed) and the account's recent logins
\* are counted.
CheckSuccessLimit(w) ==
  LET reached == Reached(successes[req[w].account], SuccessCap) IN
  /\ pc[w] = "reach"
  /\ \/ Answer(w) /\ UNCHANGED faults
     \/ ~reached /\ Goto(w, "handle") /\ UNCHANGED faults
     \/ Fault /\ Goto(w, "handle")
  /\ UNCHANGED <<counters, marks>>

\* handler.Login answers: a success, a wrong account or password, or an error
\* that is neither (UserNotExist and PasswordIncorrect are one code).
Handle(w) ==
  /\ pc[w] = "handle"
  /\ Goto(w, "recordSuccess") \/ Goto(w, "recordFailure") \/ Answer(w)
  /\ UNCHANGED <<counters, marks, faults>>

RecordSuccess(w) ==
  LET a == req[w].account
      new == Incr(successes[a], SuccessWindow)
  IN /\ pc[w] = "recordSuccess"
     /\ \/ successes' = [successes EXCEPT ![a] = new] /\ UNCHANGED faults
        \/ successes' \in {successes, [successes EXCEPT ![a] = new]} /\ Fault
     /\ Answer(w)
     /\ UNCHANGED <<fails, marks>>
-----------------------------------------------------------------------------
(* loginProtectionHandleFailure.                                           *)

\* The script may have run although the last reply is lost.
RecordFailure(w) ==
  LET ip == req[w].ip
      new == Incr(fails[ip], FailWindow)
  IN /\ pc[w] = "recordFailure"
     /\ \/ /\ fails' = [fails EXCEPT ![ip] = new]
           /\ IF Allowed(new, FailLimit) THEN Answer(w) ELSE Goto(w, "level")
           /\ UNCHANGED faults
        \/ /\ fails' \in {fails, [fails EXCEPT ![ip] = new]}
           /\ Fault /\ Answer(w)
     /\ UNCHANGED <<successes, marks>>

\* Either script has run, its reply is lost, and the library sends it again.  (A
\* lookup or a SET sent again is the last one sent: it adds nothing.)
Resend(w) ==
  LET ip == req[w].ip  a == req[w].account IN
  /\ \/ /\ pc[w] = "recordSuccess"
        /\ successes' = [successes EXCEPT ![a] = Incr(successes[a], SuccessWindow)]
        /\ UNCHANGED fails
     \/ /\ pc[w] = "recordFailure"
        /\ fails' = [fails EXCEPT ![ip] = Incr(fails[ip], FailWindow)]
        /\ UNCHANGED successes
  /\ Fault
  /\ UNCHANGED <<marks, pc, req, due>>

CheckLevel(w) ==
  /\ pc[w] = "level"
  /\ \/ level[req[w].ip] # 0 /\ Goto(w, "setHour") /\ UNCHANGED faults
     \/ level[req[w].ip] = 0 /\ Goto(w, "setMinute") /\ UNCHANGED faults
     \/ Fault /\ Goto(w, "setMinute")
  /\ UNCHANGED <<counters, marks>>

HourWithoutExpiry(ip) == [hour EXCEPT ![ip] = NoTTL]
HourBlocked(ip) == [hour EXCEPT ![ip] = BlockHour]

SetHour(w) ==
  /\ pc[w] = "setHour"
  /\ \/ hour' = HourBlocked(req[w].ip) /\ UNCHANGED faults
     \/ UNCHANGED hour /\ Fault
  /\ Answer(w)
  /\ UNCHANGED <<counters, minute, level>>

\* The pipeline is two commands between which those of others may run; when it
\* breaks, either command may be undone.
SetMinute(w) ==
  /\ pc[w] = "setMinute"
  /\ \/ minute' = [minute EXCEPT ![req[w].ip] = BlockMin] /\ UNCHANGED faults
     \/ UNCHANGED minute /\ Fault
  /\ Goto(w, "setLevel")
  /\ UNCHANGED <<counters, hour, level>>

LevelNotMarked(ip) == level
LevelMarked(ip) == [level EXCEPT ![ip] = FailLevel]

SetLevel(w) ==
  /\ pc[w] = "setLevel"
  /\ \/ level' = LevelMarked(req[w].ip) /\ UNCHANGED faults
     \/ UNCHANGED level /\ Fault
  /\ Answer(w)
  /\ UNCHANGED <<counters, minute, hour>>
-----------------------------------------------------------------------------
\* Redis counts the time to live of every key down.
Running == \/ \E ip \in IPs : \/ fails[ip] # NoKey
                              \/ minute[ip] > 0 \/ hour[ip] > 0 \/ level[ip] > 0
           \/ \E a \in Accounts : successes[a] # NoKey
Tick ==
  /\ Running
  /\ fails' = [ip \in IPs |-> Aged(fails[ip])]
  /\ successes' = [a \in Accounts |-> Aged(successes[a])]
  /\ minute' = [ip \in IPs |-> Older(minute[ip])]
  /\ hour' = [ip \in IPs |-> Older(hour[ip])]
  /\ level' = [ip \in IPs |-> Older(level[ip])]
  /\ UNCHANGED <<pc, req, faults>>
  /\ due' = [w \in Workers |-> {k \in due[w] : TimeLeft(k, req[w].ip)' # 0}]

Serve(w) == \/ CheckHour(w) \/ CheckMinute(w) \/ CheckSuccessLimit(w)
            \/ Handle(w) \/ RecordSuccess(w) \/ RecordFailure(w)
            \/ CheckLevel(w) \/ SetHour(w) \/ SetMinute(w) \/ SetLevel(w)

Next == Tick \/ \E w \in Workers : Begin(w) \/ Serve(w) \/ Resend(w)

Spec == Init /\ [][Next]_vars

\* Time passes, and every request that has come is served to its end; that
\* another request comes is not assumed.
Fairness == WF_vars(Tick) /\ \A w \in Workers : WF_vars(Serve(w))
FairSpec == Spec /\ Fairness
-----------------------------------------------------------------------------
(* Properties.                                                             *)

Marks(duration) == [IPs -> 0..duration]

\* Every variable holds a value of its type; a counter that exists has a time
\* to live.
TypeOK ==
  /\ fails \in [IPs -> Counters(FailWindow)]
  /\ successes \in [Accounts -> Counters(SuccessWindow)]
  /\ \A ip \in IPs : fails[ip].count > 0 <=> fails[ip].ttl > 0
  /\ \A a \in Accounts : successes[a].count > 0 <=> successes[a].ttl > 0
  /\ minute \in Marks(BlockMin)
  /\ hour \in Marks(BlockHour)
  /\ level \in Marks(FailLevel)
  /\ pc \in [Workers -> Labels]
  /\ req \in [Workers -> Request \cup {Null}]
  /\ due \in [Workers -> SUBSET BlockKinds]
  /\ faults \in 0..MaxFaults

\* A block that was in force when a request came, and still is, has been seen
\* before the request is handed to the handler (or a command has failed): a
\* request that came under a block is neither served nor prolongs that block.
BlockedNotServed ==
  \A w \in Workers : pc[w] \notin {"hour", "minute"} => due[w] = {}

Blocked(ip) == minute[ip] # 0 \/ hour[ip] # 0
Blocking(w, ip) == /\ req[w] # Null /\ req[w].ip = ip
                   /\ pc[w] \in {"level", "setHour", "setMinute"}

\* As long as Redis answers, an address over its limit is blocked, or one of
\* the requests that went over it is about to block it: the counter is never
\* left behind by its block.
OverLimitBlocked ==
  faults = 0 => \A ip \in IPs : fails[ip].count > FailLimit =>
                  Blocked(ip) \/ \E w \in Workers : Blocking(w, ip)

\* Within a window an address fails at most Limit - 1 times, plus one time for
\* every request that was under way when the limit was passed, plus one for
\* every Redis command that failed (an error lets one request through, no more).
FailuresBounded ==
  \A ip \in IPs : fails[ip].count <= FailLimit + Cardinality(Workers) + faults

\* Within a window an account logs in until the cap is reached; only requests
\* that passed the check together, or at an error, go beyond it.  (The first
\* login is always let in, a SuccessLimit of 1 or 2 alike.)
SuccessesBounded ==
  LET free == IF SuccessCap = 0 THEN 0 ELSE SuccessCap - 1
  IN \A a \in Accounts : successes[a].count <= free + Cardinality(Workers) + faults

\* A block of minutes never outlives the mark that makes the next one a block
\* of hours, whatever order several blocking requests write the two keys in.
BlockRemembered ==
  faults = 0 => \A ip \in IPs :
    \/ minute[ip] <= level[ip]
    \/ \E w \in Workers : pc[w] = "setLevel" /\ req[w].ip = ip

\* Neither block lasts for good: requests that were under way when it came may
\* prolong it, one time each, and no later one can.  The two together may be in
\* force without a gap: a request that passes between the checks of the two keys
\* while one block gives way to the other can fail and set the first one again.
BlockEnds == \A ip \in IPs : []<>(minute[ip] = 0) /\ []<>(hour[ip] = 0)
=============================================================================

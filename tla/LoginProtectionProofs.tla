----------------------- MODULE LoginProtectionProofs -----------------------
(***************************************************************************)
(* Proofs about LoginProtection: how far beyond its limits the protection   *)
(* can be pushed, for every number of addresses, accounts and concurrent    *)
(* requests, and every configuration the assumptions admit.                *)
(***************************************************************************)
EXTENDS LoginProtection, FiniteSetTheorems, TLAPS

N == Cardinality(Workers)

\* A worker that serves a request has one.
Typed == TypeOK /\ \A w \in Workers : pc[w] # "idle" => req[w] \in Request

\* What a worker remembers of the blocks that were in force when its request
\* came is still in force, and the check that it has passed has looked for it.
DueInForce ==
  \A w \in Workers :
    /\ \A k \in due[w] : req[w] \in Request /\ TimeLeft(k, req[w].ip) # 0
    /\ pc[w] # "hour" => "hour" \notin due[w]
    /\ pc[w] \notin {"hour", "minute"} => "minute" \notin due[w]

\* The block of minutes, or of hours, lasts at least as long as the failures
\* of the address are remembered.
MinuteCovers(ip) == fails[ip].ttl <= minute[ip]
HourCovers(ip) == fails[ip].ttl <= hour[ip]
Covered(ip) == MinuteCovers(ip) \/ HourCovers(ip)

\* The requests of an address that nothing stops from counting another failure.
PastAt(w, ip) == /\ \/ pc[w] \in {"reach", "handle", "recordFailure"}
                    \/ pc[w] = "minute" /\ ~MinuteCovers(ip)
                 /\ req[w].ip = ip
Past(ip) == {w \in Workers : PastAt(w, ip)}
Blockers(ip) == {w \in Workers : Blocking(w, ip)}

\* An address over its limit is covered by a block, and then the requests that
\* have got past the check are all that can still count; or every failure
\* beyond the limit belongs to a request that is about to block the address.
Counted(ip) ==
  fails[ip].count > FailLimit =>
    \/ fails[ip].count <= FailLimit + Cardinality(Blockers(ip)) + faults
    \/ /\ Covered(ip)
       /\ fails[ip].count + Cardinality(Past(ip)) <= FailLimit + N + faults
FailuresCounted == \A ip \in IPs : Counted(ip)

\* The logins of an account that have passed the check of its successes.
Entered(a) == {w \in Workers : /\ pc[w] \in {"handle", "recordSuccess"}
                               /\ req[w].account = a}
Free == IF SuccessCap = 0 THEN 0 ELSE SuccessCap - 1
SuccessesCounted ==
  \A a \in Accounts :
    successes[a].count + Cardinality(Entered(a)) <= Free + N + faults

IInv == /\ Typed /\ DueInForce /\ FailuresCounted /\ SuccessesCounted
        /\ BlockRemembered
-----------------------------------------------------------------------------
(* Counting workers.                                                       *)

LEMMA CountType ==
  ASSUME NEW S \in SUBSET Workers
  PROVE  /\ IsFiniteSet(S) /\ Cardinality(S) \in Nat
         /\ N \in Nat /\ Cardinality(S) <= N
  BY WorkersAssumption, FS_Subset, FS_CardinalityType DEF N

LEMMA CountAtMost ==
  ASSUME NEW T \in SUBSET Workers, NEW S \in SUBSET T
  PROVE  Cardinality(S) <= Cardinality(T)
  BY CountType, FS_Subset

\* One worker more, or at most one.
LEMMA CountLess ==
  ASSUME NEW T \in SUBSET Workers, NEW w \in T, NEW S \in SUBSET T, w \notin S
  PROVE  Cardinality(S) + 1 <= Cardinality(T)
  <1>1. S \cup {w} \in SUBSET T /\ IsFiniteSet(S) BY CountType
  <1>2. Cardinality(S \cup {w}) = Cardinality(S) + 1 BY <1>1, FS_AddElement
  <1>3. QED BY <1>1, <1>2, CountAtMost

LEMMA CountOneMore ==
  ASSUME NEW S \in SUBSET Workers, NEW w \in Workers, NEW T \in SUBSET Workers,
         T \subseteq S \cup {w}
  PROVE  Cardinality(T) <= Cardinality(S) + 1
  <1>1. IsFiniteSet(S) /\ Cardinality(S) \in Nat /\ Cardinality(T) \in Nat BY CountType
  <1>2. Cardinality(S \cup {w}) <= Cardinality(S) + 1 BY <1>1, FS_AddElement
  <1>3. S \cup {w} \in SUBSET Workers OBVIOUS
  <1>4. Cardinality(T) <= Cardinality(S \cup {w}) /\ Cardinality(S \cup {w}) \in Nat
    BY <1>3, CountAtMost, CountType
  <1>5. QED BY <1>1, <1>2, <1>4

LEMMA CountDisjoint ==
  ASSUME NEW S \in SUBSET Workers, NEW T \in SUBSET Workers, S \cap T = {}
  PROVE  Cardinality(S) + Cardinality(T) <= N
  <1>1. Cardinality(S \cup T) = Cardinality(S) + Cardinality(T)
    BY CountType, FS_Union, FS_EmptySet
  <1>2. S \cup T \in SUBSET Workers OBVIOUS
  <1>3. QED BY <1>1, <1>2, CountType
-----------------------------------------------------------------------------
(* The operators on keys.                                                  *)

\* A counter that exists has a time to live.
Counter(c, window) == c \in Counters(window) /\ (c.count > 0 <=> c.ttl > 0)

LEMMA IncrCounter ==
  ASSUME NEW window \in Nat \ {0}, NEW c, Counter(c, window)
  PROVE  /\ Counter(Incr(c, window), window)
         /\ Incr(c, window).count = c.count + 1
         /\ c.count > 0 => Incr(c, window).ttl = c.ttl
  BY DEF Counter, Counters, Incr, Healed, NoTTL

LEMMA OlderMark ==
  ASSUME NEW ttl \in Nat
  PROVE  /\ Older(ttl) \in Nat /\ Older(ttl) <= ttl
         /\ Older(ttl) = IF ttl = 0 THEN 0 ELSE ttl - 1
  BY DEF Older

LEMMA AgedCounter ==
  ASSUME NEW window \in Nat \ {0}, NEW c, Counter(c, window)
  PROVE  /\ Counter(Aged(c), window)
         /\ Aged(c).count \in {0, c.count}
         /\ Aged(c).ttl = IF c.ttl <= 0 THEN c.ttl ELSE c.ttl - 1
  BY DEF Counter, Counters, Aged, Older, NoKey, NoTTL
-----------------------------------------------------------------------------
(* Types.                                                                  *)

LEMMA TypedInit == Init => Typed
  BY SettingsAssumption
  DEF Init, Typed, TypeOK, NoKey, Counters, NoTTL, Marks, Labels

LEMMA TypedTick == Typed /\ Tick => Typed'
  <1> SUFFICES ASSUME Typed, Tick PROVE Typed'
    OBVIOUS
  <1>1. /\ fails' \in [IPs -> Counters(FailWindow)]
        /\ \A ip \in IPs : fails'[ip].count > 0 <=> fails'[ip].ttl > 0
    BY AgedCounter, SettingsAssumption DEF Typed, TypeOK, Tick, Counter
  <1>2. /\ successes' \in [Accounts -> Counters(SuccessWindow)]
        /\ \A a \in Accounts : successes'[a].count > 0 <=> successes'[a].ttl > 0
    BY AgedCounter, SettingsAssumption DEF Typed, TypeOK, Tick, Counter
  <1>3. minute' \in Marks(BlockMin) /\ hour' \in Marks(BlockHour)
        /\ level' \in Marks(FailLevel)
    BY OlderMark, SettingsAssumption DEF Typed, TypeOK, Tick, Marks
  <1>4. pc' \in [Workers -> Labels] /\ req' \in [Workers -> Request \cup {Null}]
        /\ due' \in [Workers -> SUBSET BlockKinds] /\ faults' \in 0..MaxFaults
    BY DEF Typed, TypeOK, Tick
  <1>5. QED BY <1>1, <1>2, <1>3, <1>4 DEF Typed, TypeOK, Tick

\* A step of one worker that leaves the keys alone.
LEMMA TypedMove ==
  ASSUME Typed, NEW w \in Workers, UNCHANGED <<counters, marks>>,
         Begin(w) \/ Serve(w)
  PROVE  Typed'
  <1>1. TypeOK' BY SettingsAssumption
    DEF Typed, TypeOK, counters, marks, Begin, Serve, CheckHour, CheckMinute,
        CheckBlock, CheckSuccessLimit, Handle, RecordSuccess, RecordFailure,
        CheckLevel, SetHour, SetMinute, SetLevel, Goto, Answer, Fault, Labels, BlockKinds
  <1>2. ASSUME NEW v \in Workers, pc'[v] # "idle" PROVE req'[v] \in Request
    BY <1>2
    DEF Typed, TypeOK, Begin, Serve, CheckHour, CheckMinute,
        CheckBlock, CheckSuccessLimit, Handle, RecordSuccess, RecordFailure,
        CheckLevel, SetHour, SetMinute, SetLevel, Goto, Answer
  <1>3. QED BY <1>1, <1>2 DEF Typed

LEMMA TypedServe == ASSUME Typed, NEW w \in Workers, Serve(w) PROVE Typed'
  <1> USE SettingsAssumption
  <1>1. ASSUME NEW v \in Workers, pc'[v] # "idle" PROVE req'[v] \in Request
    BY <1>1
    DEF Typed, TypeOK, Serve, CheckHour, CheckMinute,
        CheckBlock, CheckSuccessLimit, Handle, RecordSuccess, RecordFailure,
        CheckLevel, SetHour, SetMinute, SetLevel, Goto, Answer
  <1>2. CASE RecordSuccess(w)
    <2>1. req[w] \in Request /\ req[w].account \in Accounts
      BY <1>2 DEF RecordSuccess, Typed, Request
    <2>2. Counter(Incr(successes[req[w].account], SuccessWindow), SuccessWindow)
      BY <2>1, IncrCounter DEF Counter, Typed, TypeOK
    <2>3. /\ successes' \in [Accounts -> Counters(SuccessWindow)]
          /\ \A a \in Accounts : successes'[a].count > 0 <=> successes'[a].ttl > 0
      BY <1>2, <2>1, <2>2 DEF RecordSuccess, Typed, TypeOK, Counter
    <2>4. pc' \in [Workers -> Labels] /\ req' \in [Workers -> Request \cup {Null}]
          /\ due' \in [Workers -> SUBSET BlockKinds] /\ faults' \in 0..MaxFaults
      BY <1>2 DEF RecordSuccess, Typed, TypeOK, Answer, Labels, Fault
    <2>5. QED BY <1>1, <1>2, <2>3, <2>4 DEF RecordSuccess, Typed, TypeOK, marks
  <1>3. CASE RecordFailure(w)
    <2>1. req[w] \in Request /\ req[w].ip \in IPs
      BY <1>3 DEF RecordFailure, Typed, Request
    <2>2. Counter(Incr(fails[req[w].ip], FailWindow), FailWindow)
      BY <2>1, IncrCounter DEF Counter, Typed, TypeOK
    <2>3. /\ fails' \in [IPs -> Counters(FailWindow)]
          /\ \A ip \in IPs : fails'[ip].count > 0 <=> fails'[ip].ttl > 0
      BY <1>3, <2>1, <2>2 DEF RecordFailure, Typed, TypeOK, Counter
    <2>4. pc' \in [Workers -> Labels] /\ req' \in [Workers -> Request \cup {Null}]
          /\ due' \in [Workers -> SUBSET BlockKinds] /\ faults' \in 0..MaxFaults
      BY <1>3 DEF RecordFailure, Typed, TypeOK, Answer, Goto, Labels, Fault
    <2>5. QED BY <1>1, <1>3, <2>3, <2>4 DEF RecordFailure, Typed, TypeOK, marks
  <1>4. CASE SetHour(w) \/ SetMinute(w) \/ SetLevel(w)
    <2>1. TypeOK'
      BY <1>4 DEF SetHour, SetMinute, SetLevel, Typed, TypeOK, Answer, Goto, Fault,
                  HourBlocked, LevelMarked, Marks, counters, Labels
    <2>2. QED BY <1>1, <2>1 DEF Typed
  <1>5. CASE CheckHour(w) \/ CheckMinute(w) \/ CheckSuccessLimit(w) \/ Handle(w)
             \/ CheckLevel(w)
    <2>1. UNCHANGED <<counters, marks>>
      BY <1>5 DEF CheckHour, CheckMinute, CheckBlock, CheckSuccessLimit, Handle, CheckLevel
    <2>2. QED BY <2>1, TypedMove
  <1>6. QED BY <1>2, <1>3, <1>4, <1>5 DEF Serve

LEMMA TypedResend == ASSUME Typed, NEW w \in Workers, Resend(w) PROVE Typed'
  <1>1. /\ req[w] \in Request /\ req[w].account \in Accounts /\ req[w].ip \in IPs
        /\ UNCHANGED <<marks, pc, req, due>>
    BY DEF Resend, Typed, Request
  <1>2. /\ Counter(Incr(successes[req[w].account], SuccessWindow), SuccessWindow)
        /\ Counter(Incr(fails[req[w].ip], FailWindow), FailWindow)
    BY <1>1, IncrCounter, SettingsAssumption DEF Counter, Typed, TypeOK
  <1>3. /\ successes' \in [Accounts -> Counters(SuccessWindow)]
        /\ \A a \in Accounts : successes'[a].count > 0 <=> successes'[a].ttl > 0
    BY <1>1, <1>2 DEF Resend, Typed, TypeOK, Counter
  <1>4. /\ fails' \in [IPs -> Counters(FailWindow)]
        /\ \A ip \in IPs : fails'[ip].count > 0 <=> fails'[ip].ttl > 0
    BY <1>1, <1>2 DEF Resend, Typed, TypeOK, Counter
  <1>5. faults' \in 0..MaxFaults
    BY SettingsAssumption DEF Resend, Fault, Typed, TypeOK
  <1>6. QED BY <1>1, <1>3, <1>4, <1>5 DEF Typed, TypeOK, marks

LEMMA TypedNext == Typed /\ [Next]_vars => Typed'
  <1> SUFFICES ASSUME Typed, [Next]_vars PROVE Typed'
    OBVIOUS
  <1>1. CASE Tick BY <1>1, TypedTick
  <1>2. ASSUME NEW w \in Workers, Begin(w) PROVE Typed'
    BY <1>2, TypedMove DEF Begin
  <1>3. ASSUME NEW w \in Workers, Serve(w) PROVE Typed'
    BY <1>3, TypedServe
  <1>4. ASSUME NEW w \in Workers, Resend(w) PROVE Typed'
    BY <1>4, TypedResend
  <1>5. CASE UNCHANGED vars
    BY <1>5 DEF Typed, TypeOK, vars, counters, marks
  <1>6. QED BY <1>1, <1>2, <1>3, <1>4, <1>5 DEF Next

\* Every key has a time to live, every command finds the request it is for.
THEOREM TypeCorrect == Spec => []TypeOK
  <1>1. Typed => TypeOK BY DEF Typed
  <1>2. QED BY <1>1, TypedInit, TypedNext, PTL DEF Spec
-----------------------------------------------------------------------------
(* Blocks that were in force when a request came.                          *)

LEMMA DueNext == Typed /\ DueInForce /\ [Next]_vars => DueInForce'
  <1> SUFFICES ASSUME Typed, DueInForce, [Next]_vars PROVE DueInForce'
    OBVIOUS
  <1>1. CASE Tick BY <1>1 DEF DueInForce, Tick
  <1>2. ASSUME NEW w \in Workers, Begin(w) PROVE DueInForce'
    BY <1>2 DEF DueInForce, Begin, Typed, TypeOK, TimeLeft, counters, marks, BlockKinds
  <1>3. ASSUME NEW w \in Workers, CheckHour(w) PROVE DueInForce'
    BY <1>3 DEF DueInForce, CheckHour, CheckBlock, Exists, Goto, Answer, Typed, TypeOK,
                TimeLeft, counters, marks, BlockKinds
  <1>4. ASSUME NEW w \in Workers, CheckMinute(w) PROVE DueInForce'
    BY <1>4 DEF DueInForce, CheckMinute, CheckBlock, Exists, Goto, Answer, Typed, TypeOK,
                TimeLeft, counters, marks, BlockKinds
  <1>5. ASSUME NEW w \in Workers,
               CheckSuccessLimit(w) \/ Handle(w) \/ RecordSuccess(w)
               \/ RecordFailure(w) \/ CheckLevel(w)
        PROVE  DueInForce'
    BY <1>5 DEF DueInForce, CheckSuccessLimit, Handle, RecordSuccess, RecordFailure,
                CheckLevel, Goto, Answer, Typed, TypeOK, TimeLeft, counters, marks
  <1>6. ASSUME NEW w \in Workers, SetHour(w) \/ SetMinute(w) \/ SetLevel(w)
        PROVE  DueInForce'
    <2>1. \A k \in BlockKinds, ip \in IPs : TimeLeft(k, ip) # 0 => TimeLeft(k, ip)' # 0
      BY <1>6, SettingsAssumption
      DEF SetHour, SetMinute, SetLevel, HourBlocked, TimeLeft, Typed, TypeOK, Marks, marks
    <2>2. QED
      BY <1>6, <2>1 DEF DueInForce, SetHour, SetMinute, SetLevel, Goto, Answer, Typed,
                        TypeOK, Request
  <1>7. ASSUME NEW w \in Workers, Resend(w) PROVE DueInForce'
    BY <1>7 DEF DueInForce, Resend, TimeLeft, marks
  <1>8. CASE UNCHANGED vars
    BY <1>8 DEF DueInForce, vars, counters, marks, TimeLeft
  <1>9. QED BY <1>1, <1>2, <1>3, <1>4, <1>5, <1>6, <1>7, <1>8 DEF Next, Serve

\* A request neither gets past nor prolongs a block that was there when it came
\* and still is, unless Redis failed to tell.
THEOREM BlocksAreSeen == Spec => []BlockedNotServed
  <1>1. Init => DueInForce BY DEF Init, DueInForce
  <1>2. Typed /\ DueInForce => BlockedNotServed
    BY DEF Typed, TypeOK, DueInForce, BlockedNotServed, BlockKinds
  <1>3. QED BY <1>1, <1>2, TypedInit, TypedNext, DueNext, PTL DEF Spec
-----------------------------------------------------------------------------
(* The mark that makes the next block one of hours.                        *)

LEMMA RememberedNext == Typed /\ BlockRemembered /\ [Next]_vars => BlockRemembered'
  <1> SUFFICES ASSUME Typed, BlockRemembered, [Next]_vars, faults' = 0,
                      NEW ip \in IPs,
                      ~\E w \in Workers : pc'[w] = "setLevel" /\ req'[w].ip = ip
               PROVE  minute'[ip] <= level'[ip]
    BY DEF BlockRemembered
  <1>0. /\ minute[ip] \in Nat /\ level[ip] \in Nat /\ minute[ip] <= BlockMin
        /\ faults \in Nat
    BY SettingsAssumption DEF Typed, TypeOK, Marks
  <1>1. CASE Tick
    <2>1. minute[ip] <= level[ip]
      BY <1>1 DEF BlockRemembered, Tick
    <2>2. QED BY <1>0, <1>1, <2>1, OlderMark DEF Tick
  <1>2. ASSUME NEW w \in Workers, SetMinute(w) PROVE minute'[ip] <= level'[ip]
    <2>1. req[w].ip # ip
      BY <1>2 DEF SetMinute, Goto, Typed, TypeOK
    <2>2. faults = 0 BY <1>0, <1>2 DEF SetMinute, Fault
    <2>3. ~\E v \in Workers : pc[v] = "setLevel" /\ req[v].ip = ip
      BY <1>2, <2>1 DEF SetMinute, Goto, Typed, TypeOK
    <2>4. QED BY <1>2, <2>1, <2>2, <2>3 DEF SetMinute, BlockRemembered, Typed, TypeOK, Marks
  <1>3. ASSUME NEW w \in Workers, SetLevel(w) PROVE minute'[ip] <= level'[ip]
    <2>1. faults = 0 /\ level' = LevelMarked(req[w].ip) /\ UNCHANGED minute
      BY <1>0, <1>3 DEF SetLevel, Fault
    <2>2. CASE req[w].ip = ip
      BY <1>0, <2>1, <2>2, SettingsAssumption, ConfigurationAssumption
      DEF LevelMarked, Typed, TypeOK, Marks
    <2>3. CASE req[w].ip # ip
      <3>1. ~\E v \in Workers : pc[v] = "setLevel" /\ req[v].ip = ip
        BY <1>3, <2>3 DEF SetLevel, Answer, Typed, TypeOK
      <3>2. QED BY <2>1, <2>3, <3>1 DEF LevelMarked, BlockRemembered, Typed, TypeOK, Marks
    <2>4. QED BY <2>2, <2>3
  <1>4. ASSUME NEW w \in Workers, Begin(w) \/ (Serve(w) /\ ~SetMinute(w) /\ ~SetLevel(w))
        PROVE  minute'[ip] <= level'[ip]
    <2>1. UNCHANGED <<minute, level>> /\ faults = 0
      BY <1>0, <1>4
      DEF Begin, Serve, CheckHour, CheckMinute, CheckBlock, CheckSuccessLimit, Handle,
          RecordSuccess, RecordFailure, CheckLevel, SetHour, Fault, marks
    <2>2. ~\E v \in Workers : pc[v] = "setLevel" /\ req[v].ip = ip
      BY <1>4
      DEF Begin, Serve, CheckHour, CheckMinute, CheckBlock, CheckSuccessLimit, Handle,
          RecordSuccess, RecordFailure, CheckLevel, SetHour, Goto, Answer, Typed, TypeOK
    <2>3. QED BY <2>1, <2>2 DEF BlockRemembered
  <1>5. ASSUME NEW w \in Workers, Resend(w) PROVE minute'[ip] <= level'[ip]
    BY <1>0, <1>5 DEF Resend, Fault
  <1>6. CASE UNCHANGED vars
    BY <1>6 DEF vars, marks, BlockRemembered
  <1>7. QED BY <1>1, <1>2, <1>3, <1>4, <1>5, <1>6 DEF Next

\* A block of minutes never outlives the mark of the address, in whatever order
\* several requests write the two keys.
THEOREM BlocksAreRemembered == Spec => []BlockRemembered
  <1>1. Init => BlockRemembered BY DEF Init, BlockRemembered
  <1>2. QED BY <1>1, TypedInit, TypedNext, RememberedNext, PTL DEF Spec
-----------------------------------------------------------------------------
(* Successful logins of an account.                                        *)

LEMMA SuccessesNext == Typed /\ SuccessesCounted /\ [Next]_vars => SuccessesCounted'
  <1> SUFFICES ASSUME Typed, SuccessesCounted, [Next]_vars, NEW a \in Accounts
               PROVE  successes'[a].count + Cardinality(Entered(a)') <= Free + N + faults'
    BY DEF SuccessesCounted
  <1> DEFINE count == successes[a].count
             E == Entered(a)
             Bound == Free + N + faults
  <1>0. /\ count \in Nat /\ Free \in Nat /\ faults \in Nat /\ N \in Nat
        /\ E \in SUBSET Workers /\ E' \in SUBSET Workers
        /\ Cardinality(E) \in Nat /\ Cardinality(E') \in Nat
        /\ count + Cardinality(E) <= Bound
    <2>1. count \in Nat /\ Free \in Nat /\ faults \in Nat
      BY SettingsAssumption DEF Typed, TypeOK, Counters, Free, SuccessCap
    <2>2. E \in SUBSET Workers /\ E' \in SUBSET Workers BY DEF Entered
    <2>3. QED BY <2>1, <2>2, CountType DEF SuccessesCounted
  \* Steps that let no request in and count nothing.
  <1>1. ASSUME successes'[a].count <= count, successes'[a].count \in Nat, E' \subseteq E,
               faults' \in Nat, faults' >= faults
        PROVE  successes'[a].count + Cardinality(E') <= Free + N + faults'
    <2>1. Cardinality(E') <= Cardinality(E) BY <1>0, <1>1, CountAtMost
    <2>2. QED BY <1>0, <1>1, <2>1
  <1>2. CASE Tick
    <2>1. E' \subseteq E BY <1>2 DEF Tick, Entered
    <2>2. successes'[a].count \in {0, count}
      BY <1>2, AgedCounter, SettingsAssumption DEF Tick, Typed, TypeOK, Counter
    <2>3. QED BY <1>0, <1>1, <1>2, <2>1, <2>2 DEF Tick
  <1>3. ASSUME NEW w \in Workers,
               Begin(w) \/ (Serve(w) /\ ~CheckSuccessLimit(w) /\ ~RecordSuccess(w))
        PROVE  successes'[a].count + Cardinality(E') <= Free + N + faults'
    <2>1. UNCHANGED successes /\ faults' \in Nat /\ faults' >= faults
      BY <1>0, <1>3
      DEF Begin, Serve, CheckHour, CheckMinute, CheckBlock, Handle, RecordFailure,
          CheckLevel, SetHour, SetMinute, SetLevel, Fault, counters
    <2>2. E' \subseteq E
      BY <1>3
      DEF Begin, Serve, CheckHour, CheckMinute, CheckBlock, Handle, RecordFailure,
          CheckLevel, SetHour, SetMinute, SetLevel, Goto, Answer, Entered, Typed, TypeOK
    <2>3. QED BY <1>0, <1>1, <2>1, <2>2
  <1>4. ASSUME NEW w \in Workers, CheckSuccessLimit(w)
        PROVE  successes'[a].count + Cardinality(E') <= Free + N + faults'
    <2>1. UNCHANGED successes BY <1>4 DEF CheckSuccessLimit, counters
    <2>2. CASE E' \subseteq E
      BY <1>0, <1>1, <1>4, <2>1, <2>2 DEF CheckSuccessLimit, Fault
    <2>3. CASE ~(E' \subseteq E)
      <3>1. /\ req[w].account = a /\ E' \subseteq E \cup {w}
            /\ \/ ~Reached(successes[a], SuccessCap) /\ UNCHANGED faults
               \/ faults' = faults + 1
        BY <1>4, <2>3 DEF CheckSuccessLimit, Goto, Answer, Fault, Entered, Typed, TypeOK
      <3>2. CASE faults' = faults + 1
        BY <1>0, <2>1, <3>1, <3>2, CountOneMore
      <3>3. CASE ~Reached(successes[a], SuccessCap) /\ UNCHANGED faults
        <4>1. count <= Free
          BY <1>0, <3>3, SettingsAssumption DEF Reached, Free, SuccessCap
        <4>2. QED BY <1>0, <2>1, <3>3, <4>1, CountType
      <3>4. QED BY <3>1, <3>2, <3>3
    <2>4. QED BY <2>2, <2>3
  <1>5. ASSUME NEW w \in Workers, RecordSuccess(w)
        PROVE  successes'[a].count + Cardinality(E') <= Free + N + faults'
    <2>1. E' \subseteq E /\ faults' \in Nat /\ faults' >= faults
      BY <1>0, <1>5 DEF RecordSuccess, Answer, Fault, Entered, Typed, TypeOK
    <2>2. CASE req[w].account # a
      <3>1. successes'[a] = successes[a]
        BY <1>5, <2>2 DEF RecordSuccess, Typed, TypeOK
      <3>2. QED BY <1>0, <1>1, <2>1, <3>1
    <2>3. CASE req[w].account = a
      <3>1. w \in E /\ w \notin E'
        BY <1>5, <2>3 DEF RecordSuccess, Answer, Entered, Typed, TypeOK
      <3>2. Cardinality(E') + 1 <= Cardinality(E)
        BY <1>0, <2>1, <3>1, CountLess
      <3>3. Incr(successes[a], SuccessWindow).count = count + 1
        BY IncrCounter, SettingsAssumption DEF Typed, TypeOK, Counter
      <3>4. successes'[a].count \in {count, count + 1}
        BY <1>5, <2>3, <3>3 DEF RecordSuccess, Typed, TypeOK
      <3>5. QED BY <1>0, <2>1, <3>2, <3>4
    <2>4. QED BY <2>2, <2>3
  \* An attempt that counts and is lost takes up a fault.
  <1>6. ASSUME NEW w \in Workers, Resend(w)
        PROVE  successes'[a].count + Cardinality(E') <= Free + N + faults'
    <2>1. E' = E /\ faults' = faults + 1 BY <1>6 DEF Resend, Fault, Entered
    <2>2. Incr(successes[a], SuccessWindow).count = count + 1
      BY IncrCounter, SettingsAssumption DEF Typed, TypeOK, Counter
    <2>3. successes'[a].count \in {count, count + 1}
      BY <1>6, <2>2 DEF Resend, Typed, TypeOK
    <2>4. QED BY <1>0, <2>1, <2>3
  <1>7. CASE UNCHANGED vars
    <2>1. E' \subseteq E /\ UNCHANGED <<successes, faults>>
      BY <1>7 DEF vars, counters, Entered
    <2>2. QED BY <1>0, <1>1, <2>1
  <1>8. QED BY <1>2, <1>3, <1>4, <1>5, <1>6, <1>7 DEF Next

\* An account logs in within a window until the cap is reached, and beyond it
\* only with the requests that passed the check together, or at an error.
THEOREM LoginsBounded == Spec => []SuccessesBounded
  <1>1. Init => SuccessesCounted
    <2> SUFFICES ASSUME Init, NEW a \in Accounts
                 PROVE  successes[a].count + Cardinality(Entered(a)) <= Free + N + faults
      BY DEF SuccessesCounted
    <2>1. Entered(a) = {} /\ successes[a].count = 0 /\ faults = 0
      BY DEF Init, Entered, NoKey
    <2>2. N \in Nat /\ Free \in Nat
      BY CountType, SettingsAssumption DEF Free, SuccessCap
    <2>3. QED BY <2>1, <2>2, FS_EmptySet
  <1>2. Typed /\ SuccessesCounted => SuccessesBounded
    <2> SUFFICES ASSUME Typed, SuccessesCounted, NEW a \in Accounts
                 PROVE  successes[a].count <= Free + N + faults
      BY DEF SuccessesBounded, Free, N
    <2>1. Cardinality(Entered(a)) \in Nat /\ N \in Nat
      BY CountType DEF Entered
    <2>2. successes[a].count \in Nat /\ faults \in Nat /\ Free \in Nat
      BY SettingsAssumption DEF Typed, TypeOK, Counters, Free, SuccessCap
    <2>3. QED BY <2>1, <2>2 DEF SuccessesCounted
  <1>3. QED BY <1>1, <1>2, TypedInit, TypedNext, SuccessesNext, PTL DEF Spec
-----------------------------------------------------------------------------
(* Failed logins of an address.                                            *)

LEMMA FailTypes ==
  ASSUME Typed, NEW ip \in IPs
  PROVE  /\ Counter(fails[ip], FailWindow) /\ fails[ip].count \in Nat
         /\ fails[ip].ttl \in Int /\ fails[ip].ttl <= FailWindow
         /\ minute[ip] \in Nat /\ hour[ip] \in Nat
         /\ faults \in Nat /\ FailLimit \in Nat /\ N \in Nat
         /\ Past(ip) \in SUBSET Workers /\ Blockers(ip) \in SUBSET Workers
         /\ Cardinality(Past(ip)) \in Nat /\ Cardinality(Blockers(ip)) \in Nat
  <1>1. /\ Counter(fails[ip], FailWindow) /\ fails[ip].count \in Nat
        /\ fails[ip].ttl \in Int /\ fails[ip].ttl <= FailWindow
        /\ minute[ip] \in Nat /\ hour[ip] \in Nat /\ faults \in Nat /\ FailLimit \in Nat
    BY SettingsAssumption DEF Typed, TypeOK, Counter, Counters, Marks, NoTTL, FailLimit
  <1>2. Past(ip) \in SUBSET Workers /\ Blockers(ip) \in SUBSET Workers
    BY DEF Past, Blockers
  <1>3. QED BY <1>1, <1>2, CountType

\* However many have failed, those that can still count fit into the bound: a
\* request is not past the check and about to block at once.
LEMMA RoomForPast ==
  ASSUME Typed, NEW ip \in IPs, Counted(ip), fails[ip].count > FailLimit
  PROVE  fails[ip].count + Cardinality(Past(ip)) <= FailLimit + N + faults
  <1>1. Past(ip) \cap Blockers(ip) = {} BY DEF Past, PastAt, Blockers, Blocking
  <1>2. Cardinality(Past(ip)) + Cardinality(Blockers(ip)) <= N
    BY <1>1, FailTypes, CountDisjoint
  <1>3. QED BY <1>2, FailTypes DEF Counted

\* A step that counts no failure of ip, lets no request past the check unless
\* it fails, and takes away no request that is about to block unless it fails.
LEMMA CountedKept ==
  ASSUME Typed, Typed', NEW ip \in IPs, Counted(ip),
         fails'[ip].count \in {0, fails[ip].count},
         faults' >= faults, Covered(ip) => Covered(ip)',
         Cardinality(Blockers(ip)) + faults <= Cardinality(Blockers(ip)') + faults',
         Cardinality(Past(ip)') + faults <= Cardinality(Past(ip)) + faults'
  PROVE  Counted(ip)'
  <1>1. /\ fails'[ip].count \in Nat /\ faults' \in Nat
        /\ Cardinality(Past(ip)') \in Nat /\ Cardinality(Blockers(ip)') \in Nat
    <2>1. Past(ip)' \in SUBSET Workers /\ Blockers(ip)' \in SUBSET Workers
      BY DEF Past, Blockers
    <2>2. QED
      BY <2>1, CountType, SettingsAssumption DEF Typed, TypeOK, Counters
  <1>2. QED BY <1>1, FailTypes DEF Counted

\* The same of steps that leave the keys of failures and blocks alone.
LEMMA CountedSame ==
  ASSUME Typed, Typed', NEW ip \in IPs, Counted(ip), UNCHANGED <<fails, minute, hour>>,
         faults' >= faults, Blockers(ip) \subseteq Blockers(ip)', Past(ip)' \subseteq Past(ip)
  PROVE  Counted(ip)'
  <1>1. Past(ip)' \in SUBSET Workers /\ Blockers(ip)' \in SUBSET Workers
    BY DEF Past, Blockers
  <1>2. /\ Cardinality(Past(ip)') <= Cardinality(Past(ip))
        /\ Cardinality(Blockers(ip)) <= Cardinality(Blockers(ip)')
        /\ Cardinality(Past(ip)') \in Nat /\ Cardinality(Blockers(ip)') \in Nat
    BY <1>1, FailTypes, CountAtMost, CountType
  <1>3. faults' \in Nat BY SettingsAssumption DEF Typed, TypeOK
  <1>4. Covered(ip) => Covered(ip)' BY DEF Covered, MinuteCovers, HourCovers
  <1>5. QED BY <1>2, <1>3, <1>4, FailTypes, CountedKept

LEMMA CountedTick ==
  ASSUME Typed, Typed', Tick, NEW ip \in IPs, Counted(ip)
  PROVE  Counted(ip)'
  <1>1. /\ fails'[ip].count \in {0, fails[ip].count}
        /\ fails'[ip].ttl = IF fails[ip].ttl <= 0 THEN fails[ip].ttl ELSE fails[ip].ttl - 1
        /\ Counter(fails'[ip], FailWindow)
    BY FailTypes, AgedCounter, SettingsAssumption DEF Tick, Typed, TypeOK
  <1>2. /\ minute'[ip] = IF minute[ip] = 0 THEN 0 ELSE minute[ip] - 1
        /\ hour'[ip] = IF hour[ip] = 0 THEN 0 ELSE hour[ip] - 1
    BY FailTypes, OlderMark DEF Tick
  <1>3. CASE fails'[ip].count = 0 BY <1>3, FailTypes DEF Counted, FailLimit
  <1>4. CASE fails'[ip].count # 0
    <2>1. fails[ip].ttl > 0 /\ fails'[ip].ttl > 0
      BY <1>1, <1>4, FailTypes DEF Counter, Counters
    <2>2. /\ MinuteCovers(ip) <=> MinuteCovers(ip)'
          /\ Covered(ip) => Covered(ip)'
      BY <1>1, <1>2, <2>1, FailTypes DEF MinuteCovers, HourCovers, Covered
    <2>3. Past(ip)' = Past(ip) /\ Blockers(ip)' = Blockers(ip) /\ faults' = faults
      BY <2>2 DEF Past, PastAt, Blockers, Blocking, Tick
    <2>4. QED BY <1>1, <2>2, <2>3, FailTypes, CountedKept
  <1>5. QED BY <1>3, <1>4

\* The two lookups: a request gets past them only where no block covers the
\* failures of its address, or by a failure of Redis.
LEMMA CountedCheck ==
  ASSUME Typed, Typed', NEW w \in Workers, CheckHour(w) \/ CheckMinute(w),
         NEW ip \in IPs, Counted(ip)
  PROVE  Counted(ip)'
  <1>1. /\ UNCHANGED <<fails, minute, hour>> /\ Blockers(ip)' = Blockers(ip)
        /\ faults' = faults \/ faults' = faults + 1
        /\ Past(ip)' \subseteq Past(ip) \cup {w}
    BY DEF CheckHour, CheckMinute, CheckBlock, Goto, Answer, Fault, counters, marks,
           Blockers, Blocking, Past, PastAt, MinuteCovers, Typed, TypeOK
  <1>2. CASE faults' = faults + 1
    <2>1. Past(ip)' \in SUBSET Workers BY DEF Past
    <2>2. Cardinality(Past(ip)') <= Cardinality(Past(ip)) + 1
      BY <1>1, <2>1, FailTypes, CountOneMore
    <2>3. Covered(ip) => Covered(ip)'
      BY <1>1 DEF Covered, MinuteCovers, HourCovers
    <2>4. Cardinality(Past(ip)') \in Nat BY <2>1, CountType
    <2>5. QED BY <1>1, <1>2, <2>2, <2>3, <2>4, FailTypes, CountedKept
  <1>3. CASE faults' = faults
    <2>1. CASE Past(ip)' \subseteq Past(ip)
      BY <1>1, <1>3, <2>1, FailTypes, CountedSame
    <2>2. CASE fails[ip].count <= FailLimit
      BY <1>1, <2>2, FailTypes DEF Counted
    <2>3. CASE ~(Past(ip)' \subseteq Past(ip)) /\ fails[ip].count > FailLimit
      <3>1. fails[ip].ttl > 0 BY <2>3, FailTypes DEF Counter
      <3>2. w \in Past(ip)' /\ w \notin Past(ip) BY <1>1, <2>3
      <3>3. ~Answer(w)
        BY <3>2 DEF Answer, Past, PastAt, Typed, TypeOK
      <3>4. req'[w] = req[w] /\ req[w].ip = ip
        BY <3>2, <3>3 DEF CheckHour, CheckMinute, CheckBlock, Goto, Past, PastAt
      <3>5. (CheckHour(w) /\ hour[ip] = 0) \/ (CheckMinute(w) /\ minute[ip] = 0)
        BY <1>3, <3>3, <3>4, FailTypes
        DEF CheckHour, CheckMinute, CheckBlock, Exists, Fault
      <3>6. CASE CheckMinute(w) /\ minute[ip] = 0
        <4>1. ~MinuteCovers(ip) BY <3>1, <3>6, FailTypes DEF MinuteCovers
        <4>2. pc[w] = "minute" BY <3>6 DEF CheckMinute, CheckBlock
        <4>3. w \in Past(ip) BY <3>4, <4>1, <4>2 DEF Past, PastAt
        <4>4. QED BY <3>2, <4>3
      <3>7. CASE CheckHour(w) /\ hour[ip] = 0
        <4>1. pc'[w] = "minute" /\ ~MinuteCovers(ip)
          BY <1>1, <1>3, <3>2, <3>3, <3>4, <3>7, FailTypes
          DEF CheckHour, CheckBlock, Goto, Answer, Fault, Past, PastAt, MinuteCovers,
              Typed, TypeOK
        <4>2. ~Covered(ip)
          BY <3>1, <3>7, <4>1, FailTypes DEF Covered, MinuteCovers, HourCovers
        <4>3. QED BY <1>1, <1>3, <4>2 DEF Counted
      <3>8. QED BY <3>5, <3>6, <3>7
    <2>4. QED BY <2>1, <2>2, <2>3, FailTypes
  <1>4. QED BY <1>1, <1>2, <1>3

\* A failure is counted: over the limit, its request goes on to block.
LEMMA CountedFailure ==
  ASSUME Typed, Typed', NEW w \in Workers, RecordFailure(w), NEW ip \in IPs, Counted(ip)
  PROVE  Counted(ip)'
  <1> DEFINE count == fails[ip].count
  <1>0. /\ Past(ip)' \in SUBSET Workers /\ Blockers(ip)' \in SUBSET Workers
        /\ Cardinality(Past(ip)') \in Nat /\ Cardinality(Blockers(ip)') \in Nat
        /\ fails'[ip].count \in Nat /\ faults' \in Nat
    <2>1. Past(ip)' \in SUBSET Workers /\ Blockers(ip)' \in SUBSET Workers
      BY DEF Past, Blockers
    <2>2. QED BY <2>1, CountType, SettingsAssumption DEF Typed, TypeOK, Counters
  <1>1. /\ Blockers(ip) \subseteq Blockers(ip)' /\ UNCHANGED <<minute, hour>>
        /\ faults' = faults \/ faults' = faults + 1
    BY DEF RecordFailure, Goto, Answer, Fault, marks, Blockers, Blocking, Typed, TypeOK
  <1>2. CASE req[w].ip # ip
    <2>1. fails'[ip] = fails[ip]
      BY <1>2 DEF RecordFailure, Typed, TypeOK
    <2>2. Past(ip)' \subseteq Past(ip)
      BY <1>1, <1>2, <2>1 DEF RecordFailure, Goto, Answer, Past, PastAt, MinuteCovers,
                              Typed, TypeOK
    <2>3. Covered(ip) => Covered(ip)'
      BY <1>1, <2>1 DEF Covered, MinuteCovers, HourCovers
    <2>4. /\ Cardinality(Past(ip)') <= Cardinality(Past(ip))
          /\ Cardinality(Blockers(ip)) <= Cardinality(Blockers(ip)')
      BY <1>0, <1>1, <2>2, FailTypes, CountAtMost
    <2>5. QED BY <1>0, <1>1, <2>1, <2>3, <2>4, FailTypes, CountedKept
  <1>3. CASE req[w].ip = ip
    <2>1. /\ fails'[ip].count \in {count, count + 1}
          /\ count > 0 => fails'[ip].ttl = fails[ip].ttl
      BY <1>3, FailTypes, IncrCounter, SettingsAssumption DEF RecordFailure, Typed, TypeOK
    <2>2. /\ w \in Past(ip) /\ w \notin Past(ip)' /\ w \notin Blockers(ip)
          /\ count > 0 => Past(ip)' \subseteq Past(ip)
      BY <1>1, <1>3, <2>1 DEF RecordFailure, Goto, Answer, Past, PastAt, MinuteCovers,
                              Blockers, Blocking, Typed, TypeOK
    \* The count stays in step with the requests about to block, or with faults.
    <2>3. fails'[ip].count > FailLimit =>
            \/ Cardinality(Blockers(ip)) + 1 <= Cardinality(Blockers(ip)') /\ faults' = faults
            \/ /\ Cardinality(Blockers(ip)) <= Cardinality(Blockers(ip)')
               /\ faults' = faults + 1
      <3>1. CASE faults' = faults
        <4>1. fails'[ip] = Incr(fails[ip], FailWindow)
          BY <1>3, <3>1, FailTypes DEF RecordFailure, Fault, Typed, TypeOK
        <4>2. ASSUME fails'[ip].count > FailLimit PROVE w \in Blockers(ip)'
          <5>1. ~Allowed(Incr(fails[ip], FailWindow), FailLimit)
            BY <1>0, <4>1, <4>2, FailTypes DEF Allowed
          <5>2. Goto(w, "level")
            BY <1>3, <3>1, <5>1, FailTypes DEF RecordFailure, Fault
          <5>3. req[w] # Null
            BY SettingsAssumption DEF RecordFailure, Typed
          <5>4. QED BY <1>3, <5>2, <5>3 DEF Goto, Blockers, Blocking, Typed, TypeOK
        <4>3. ASSUME w \in Blockers(ip)'
              PROVE  Cardinality(Blockers(ip)) + 1 <= Cardinality(Blockers(ip)')
          <5>1. w \notin Blockers(ip) /\ Blockers(ip) \in SUBSET (Blockers(ip)')
            BY <1>1, <2>2
          <5>2. QED BY <1>0, <4>3, <5>1, CountLess
        <4>4. QED BY <3>1, <4>2, <4>3
      <3>2. CASE faults' = faults + 1
        BY <1>0, <1>1, <3>2, CountAtMost
      <3>3. QED BY <1>1, <3>1, <3>2
    <2>4. CASE count > FailLimit
      <3>1. Cardinality(Past(ip)') + 1 <= Cardinality(Past(ip))
        BY <2>2, <2>4, FailTypes, CountLess
      <3>2. Covered(ip) => Covered(ip)'
        BY <1>1, <2>1, <2>4, FailTypes DEF Covered, MinuteCovers, HourCovers
      <3>3. CASE Covered(ip) /\ count + Cardinality(Past(ip)) <= FailLimit + N + faults
        BY <1>0, <1>1, <2>1, <3>1, <3>2, <3>3, FailTypes DEF Counted
      <3>4. CASE count <= FailLimit + Cardinality(Blockers(ip)) + faults
        BY <1>0, <2>1, <2>3, <2>4, <3>4, FailTypes DEF Counted
      <3>5. QED BY <2>4, <3>3, <3>4 DEF Counted
    <2>5. CASE count <= FailLimit
      BY <1>0, <2>1, <2>3, <2>5, FailTypes DEF Counted
    <2>6. QED BY <2>4, <2>5, FailTypes
  <1>4. QED BY <1>2, <1>3

\* A failure that is counted and sent again takes up a fault.
LEMMA CountedResend ==
  ASSUME Typed, Typed', NEW w \in Workers, Resend(w), NEW ip \in IPs, Counted(ip)
  PROVE  Counted(ip)'
  <1> DEFINE count == fails[ip].count
  <1>1. /\ UNCHANGED <<marks, pc, req>> /\ faults' = faults + 1
        /\ Blockers(ip)' = Blockers(ip)
    BY DEF Resend, Fault, Blockers, Blocking
  <1>2. /\ Past(ip)' \in SUBSET Workers /\ Cardinality(Past(ip)') \in Nat
    <2>1. Past(ip)' \in SUBSET Workers BY DEF Past
    <2>2. QED BY <2>1, CountType
  <1>3. /\ fails'[ip].count \in {count, count + 1}
        /\ count > 0 => fails'[ip].ttl = fails[ip].ttl
    BY FailTypes, IncrCounter, SettingsAssumption DEF Resend, Typed, TypeOK
  <1>4. count > 0 => /\ Past(ip)' = Past(ip)
                     /\ Covered(ip) => Covered(ip)'
    BY <1>1, <1>3 DEF Past, PastAt, Covered, MinuteCovers, HourCovers, marks
  <1>5. CASE count > FailLimit
    BY <1>1, <1>2, <1>3, <1>4, <1>5, FailTypes DEF Counted
  <1>6. CASE count <= FailLimit
    BY <1>1, <1>3, <1>6, FailTypes DEF Counted
  <1>7. QED BY <1>5, <1>6, FailTypes

\* A block of its own address covers all failures; one that Redis fails to set
\* leaves a fault in place of its request.
LEMMA CountedBlock ==
  ASSUME Typed, Typed', NEW w \in Workers, SetHour(w) \/ SetMinute(w),
         NEW ip \in IPs, Counted(ip)
  PROVE  Counted(ip)'
  <1>0. /\ Past(ip)' \in SUBSET Workers /\ Blockers(ip)' \in SUBSET Workers
        /\ Cardinality(Past(ip)') \in Nat /\ Cardinality(Blockers(ip)') \in Nat
        /\ faults' \in Nat
    <2>1. Past(ip)' \in SUBSET Workers /\ Blockers(ip)' \in SUBSET Workers
      BY DEF Past, Blockers
    <2>2. QED BY <2>1, CountType, SettingsAssumption DEF Typed, TypeOK
  <1>1. /\ UNCHANGED fails /\ Blockers(ip) \subseteq Blockers(ip)' \cup {w}
        /\ req[w].ip # ip => Blockers(ip) \subseteq Blockers(ip)'
    BY DEF SetHour, SetMinute, Goto, Answer, counters, Blockers, Blocking, Typed, TypeOK
  <1>2. fails[ip].ttl <= FailWindow /\ minute[ip] <= BlockMin /\ hour[ip] <= BlockHour
    BY FailTypes, SettingsAssumption DEF Typed, TypeOK, Marks
  <1>3. /\ minute'[ip] \in {minute[ip], BlockMin}
        /\ hour'[ip] \in {hour[ip], BlockHour}
    BY DEF SetHour, SetMinute, HourBlocked, Typed, TypeOK, Marks
  <1>4. (MinuteCovers(ip) => MinuteCovers(ip)') /\ (Covered(ip) => Covered(ip)')
    BY <1>1, <1>2, <1>3, FailTypes, SettingsAssumption, ConfigurationAssumption
    DEF MinuteCovers, HourCovers, Covered
  <1>5. Past(ip)' \subseteq Past(ip)
    BY <1>4 DEF SetHour, SetMinute, Goto, Answer, Past, PastAt, Typed, TypeOK
  <1>6. Cardinality(Past(ip)') <= Cardinality(Past(ip))
    BY <1>5, FailTypes, CountAtMost
  <1>7. CASE faults' = faults + 1
    <2>1. Cardinality(Blockers(ip)) <= Cardinality(Blockers(ip)') + 1
      BY <1>0, <1>1, FailTypes, CountOneMore
    <2>2. QED BY <1>0, <1>1, <1>4, <1>6, <1>7, <2>1, FailTypes, CountedKept
  <1>8. CASE faults' = faults /\ req[w].ip # ip
    <2>1. Cardinality(Blockers(ip)) <= Cardinality(Blockers(ip)')
      BY <1>0, <1>1, <1>8, CountAtMost
    <2>2. QED BY <1>0, <1>1, <1>4, <1>6, <1>8, <2>1, FailTypes, CountedKept
  <1>9. CASE faults' = faults /\ req[w].ip = ip
    <2>1. minute'[ip] = BlockMin \/ hour'[ip] = BlockHour
      BY <1>9, FailTypes DEF SetHour, SetMinute, HourBlocked, Fault, Typed, TypeOK, Marks
    <2>2. Covered(ip)'
      BY <1>1, <1>2, <2>1, FailTypes, SettingsAssumption, ConfigurationAssumption
      DEF Covered, MinuteCovers, HourCovers
    <2>3. fails[ip].count > FailLimit =>
            fails[ip].count + Cardinality(Past(ip)) <= FailLimit + N + faults
      BY RoomForPast
    <2>4. QED BY <1>0, <1>1, <1>6, <1>9, <2>2, <2>3, FailTypes DEF Counted
  <1>10. faults' = faults \/ faults' = faults + 1
    BY DEF SetHour, SetMinute, Fault
  <1>11. QED BY <1>7, <1>8, <1>9, <1>10

\* The other steps leave the address's failures and blocks alone.
LEMMA CountedOther ==
  ASSUME Typed, Typed', NEW w \in Workers,
         \/ Begin(w) \/ CheckSuccessLimit(w) \/ Handle(w) \/ RecordSuccess(w)
         \/ CheckLevel(w) \/ SetLevel(w),
         NEW ip \in IPs, Counted(ip)
  PROVE  Counted(ip)'
  <1>1. UNCHANGED <<fails, minute, hour>> /\ (faults' = faults \/ faults' = faults + 1)
    BY DEF Begin, CheckSuccessLimit, Handle, RecordSuccess, CheckLevel, SetLevel, Fault,
           counters, marks
  <1>2. Blockers(ip) \subseteq Blockers(ip)'
    BY DEF Begin, CheckSuccessLimit, Handle, RecordSuccess, CheckLevel, SetLevel, Goto,
           Answer, Blockers, Blocking, Typed, TypeOK
  <1>3. Past(ip)' \subseteq Past(ip)
    BY <1>1 DEF Begin, CheckSuccessLimit, Handle, RecordSuccess, CheckLevel, SetLevel, Goto,
           Answer, Past, PastAt, MinuteCovers, Typed, TypeOK
  <1>4. QED BY <1>1, <1>2, <1>3, FailTypes, CountedSame

LEMMA FailuresNext == Typed /\ FailuresCounted /\ [Next]_vars => FailuresCounted'
  <1> SUFFICES ASSUME Typed, FailuresCounted, [Next]_vars, NEW ip \in IPs
               PROVE  Counted(ip)'
    BY DEF FailuresCounted
  <1>1. Typed' /\ Counted(ip) BY TypedNext DEF FailuresCounted
  <1>2. CASE Tick BY <1>1, <1>2, CountedTick
  <1>3. ASSUME NEW w \in Workers, Begin(w) PROVE Counted(ip)'
    BY <1>1, <1>3, CountedOther
  <1>4. ASSUME NEW w \in Workers, Serve(w) PROVE Counted(ip)'
    BY <1>1, <1>4, CountedOther, CountedCheck, CountedFailure, CountedBlock DEF Serve
  <1>5. ASSUME NEW w \in Workers, Resend(w) PROVE Counted(ip)'
    BY <1>1, <1>5, CountedResend
  <1>6. CASE UNCHANGED vars
    <2>1. Past(ip)' = Past(ip) /\ Blockers(ip)' = Blockers(ip)
      BY <1>6 DEF vars, counters, marks, Past, PastAt, MinuteCovers, Blockers, Blocking
    <2>2. QED BY <1>1, <1>6, <2>1, FailTypes, CountedSame DEF vars, counters, marks
  <1>7. QED BY <1>2, <1>3, <1>4, <1>5, <1>6 DEF Next

LEMMA FailuresInit == Init => FailuresCounted
  BY SettingsAssumption DEF Init, FailuresCounted, Counted, NoKey, FailLimit

\* An address fails at most Limit - 1 times within a window, and beyond that
\* only as often as there are requests at once and commands that failed.
THEOREM FailuresLimited == Spec => []FailuresBounded
  <1>1. Typed /\ FailuresCounted => FailuresBounded
    <2> SUFFICES ASSUME Typed, FailuresCounted, NEW ip \in IPs
                 PROVE  fails[ip].count <= FailLimit + N + faults
      BY DEF FailuresBounded, N
    <2>1. Counted(ip) BY DEF FailuresCounted
    <2>2. Cardinality(Blockers(ip)) <= N BY FailTypes, CountType
    <2>3. QED BY <2>1, <2>2, FailTypes DEF Counted
  <1>2. QED BY <1>1, TypedInit, FailuresInit, TypedNext, FailuresNext, PTL DEF Spec

\* While Redis answers, the counter of an address is never left behind by its
\* block: over the limit there is a block, or a request about to set one.
THEOREM BlockFollows == Spec => []OverLimitBlocked
  <1>1. Typed /\ FailuresCounted => OverLimitBlocked
    <2> SUFFICES ASSUME Typed, FailuresCounted, faults = 0, NEW ip \in IPs,
                        fails[ip].count > FailLimit
                 PROVE  Blocked(ip) \/ \E w \in Workers : Blocking(w, ip)
      BY DEF OverLimitBlocked
    <2>1. Counted(ip) BY DEF FailuresCounted
    <2>2. CASE Covered(ip)
      <3>1. fails[ip].ttl > 0 BY FailTypes DEF Counter
      <3>2. QED BY <2>2, <3>1, FailTypes DEF Covered, MinuteCovers, HourCovers, Blocked
    <2>3. CASE fails[ip].count <= FailLimit + Cardinality(Blockers(ip)) + faults
      <3>1. ASSUME Blockers(ip) = {} PROVE FALSE
        <4>1. Cardinality(Blockers(ip)) = 0 BY <3>1, FS_EmptySet
        <4>2. QED BY <2>3, <4>1, FailTypes
      <3>2. QED BY <3>1 DEF Blockers
    <2>4. QED BY <2>1, <2>2, <2>3 DEF Counted
  <1>2. QED BY <1>1, TypedInit, FailuresInit, TypedNext, FailuresNext, PTL DEF Spec
=============================================================================

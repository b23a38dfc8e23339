---------------------------- MODULE TokensProofs ----------------------------
(***************************************************************************)
(* Proofs about Tokens: for any number of tokens and requests and any       *)
(* durations, a token that has died stays dead, one that is redeemed can be *)
(* redeemed again for a while, and then it dies.                           *)
(***************************************************************************)
EXTENDS Tokens, TLAPS

Carries(w, t) == req[w] # Null /\ t \in {req[w].access, req[w].refresh}

\* A worker serves a request of the kind its next command belongs to, whose
\* tokens have been issued.
ReqFits(w) ==
  /\ req[w] \in Request <=> pc[w] # "idle"
  /\ pc[w] \in {"check", "removeAccess", "remove"} => req[w] \in LogoutReq
  /\ pc[w] \in {"genAccess", "genRefresh"} => req[w] \in LoginReq \cup RefreshReq
  /\ pc[w] \in {"exists", "removeRefresh"} =>
       req[w] \in RefreshReq \cup LogoutReq /\ req[w].refresh \in RefreshIds
  /\ \A t \in Ids : Carries(w, t) => t \in issued

\* The token whose key worker w is about to shorten, and the time it gives it:
\* what the claim had left when it was looked up.
Shortens(w, t) == \/ pc[w] = "removeAccess" /\ t = req[w].access
                  \/ pc[w] = "removeRefresh" /\ t = req[w].refresh
LeftFits(w) == \A t \in Ids : Shortens(w, t) => left[w] \in jwt[t] .. LifeOf(t)

Typed == /\ TypeOK
         /\ jwt \in [Ids -> Nat] /\ key \in [Ids -> Nat]
         /\ \A w \in Workers : ReqFits(w) /\ LeftFits(w)

\* A token nobody has presented lives as long as its claim; one that is being
\* removed keeps what is left of its grace, as far as the claim allows.
Presented(t) == first[t] # Never
Grace(t) ==
  /\ Presented(t) => key[t] >= jwt[t] \/ key[t] + first[t] >= TokenRemovalTTL
  /\ ~Presented(t) => key[t] = jwt[t] /\ \A w \in Workers : ~Carries(w, t)
  /\ t \notin issued => ~Presented(t)

\* The tokens a worker has removed and not yet told its client of.
Handled(w, t) ==
  \/ pc[w] \in {"exists", "removeRefresh", "remove"} /\ t = req[w].access
  \/ pc[w] \in {"genAccess", "genRefresh", "remove"} /\ t = req[w].refresh

\* A token that has been removed has no more than its grace left; what is left
\* runs out with the time since the last answer, unless a request that has
\* removed it again is still to answer.
Short(t) == jwt[t] = 0 \/ key[t] <= TokenRemovalTTL
Dying(t) == jwt[t] = 0 \/ key[t] = 0 \/ key[t] + last[t] <= TokenRemovalTTL
Ends(t) ==
  /\ \A w \in Workers : Handled(w, t) => Short(t) \/ t \in failed
  /\ last[t] # Never =>
       Dying(t) \/ t \in failed \/ \E w \in Workers : Handled(w, t)
  /\ t \notin issued => last[t] = Never

IInv == Typed /\ \A t \in Ids : Grace(t) /\ Ends(t)
-----------------------------------------------------------------------------
(* Requests and the lives of tokens.                                       *)

LEMMA Lives ==
  /\ AccessLife \in Nat \ {0} /\ RefreshLife \in Nat \ {0} /\ TokenRemovalTTL \in Nat \ {0}
  /\ \A t \in Ids : LifeOf(t) \in Nat \ {0}
  BY TokenAssumption DEF LifeOf, Ids

LEMMA RequestKinds ==
  /\ \A r \in LoginReq : r \in Request /\ r.access = Null /\ r.refresh = Null
  /\ \A r \in RefreshReq : r \in Request /\ r.access = Null /\ r.refresh \in RefreshIds
  /\ \A r \in LogoutReq : /\ r \in Request /\ r.access \in AccessIds
                          /\ r.refresh \in RefreshIds \cup {Null}
  /\ \A r \in Request : /\ r.op = "login" <=> r \in LoginReq
                        /\ r.op = "refresh" <=> r \in RefreshReq
                        /\ r.op = "logout" <=> r \in LogoutReq
  /\ Null \notin Request
  BY TokenAssumption DEF Request, LoginReq, RefreshReq, LogoutReq
-----------------------------------------------------------------------------
(* Types.                                                                  *)

LEMMA TypedInit == Init => Typed
  BY Lives, RequestKinds
  DEF Init, Typed, TypeOK, ReqFits, LeftFits, Carries, Shortens, Labels, Never

\* A step that shortens a life does it to a token that its worker carries.
LEMMA ShortensIssued ==
  ASSUME Typed, NEW w \in Workers, NEW t \in Ids, Shortens(w, t)
  PROVE  Carries(w, t) /\ t \in issued /\ left[w] \in jwt[t] .. LifeOf(t)
  BY RequestKinds DEF Typed, TypeOK, Labels, Shortens, Carries, ReqFits, LeftFits

\* What a step of one worker does to the tokens: nothing, or it issues a new
\* one, or it shortens the life of one.
LEMMA TokenEffects ==
  ASSUME Typed, NEW w \in Workers, Step(w)
  PROVE  \/ UNCHANGED tokens
         \/ \E t \in Ids \ issued : Generate(t)
         \/ \E t \in Ids : Shortens(w, t) /\ Shorten(t, left[w])
  <1>1. CASE RemoveRefresh(w)
    BY <1>1 DEF RemoveRefresh, Typed, ReqFits, Ids, Shortens
  <1>2. CASE RemoveToken(w)
    <2>1. req[w].access \in Ids
      BY <1>2, RequestKinds DEF RemoveToken, Typed, ReqFits, Ids
    <2>2. QED BY <1>2, <2>1 DEF RemoveToken, Shortens
  <1>3. QED
    BY <1>1, <1>2 DEF Step, BeginLogin, GenAccess, GenRefresh, BeginRefresh, Exists,
       BeginLogout, Check, EndLogout, Accept, Ids

LEMMA ShortenedTypes ==
  ASSUME Typed, NEW t \in Ids, NEW timeLeft \in 0 .. LifeOf(t)
  PROVE  /\ Shortened(t, timeLeft) \in 0 .. LifeOf(t)
         /\ Shortened(t, timeLeft) <= TokenRemovalTTL
         /\ key[t] = 0 => Shortened(t, timeLeft) = 0
         /\ key[t] # 0 => \/ Shortened(t, timeLeft) = timeLeft
                          \/ Shortened(t, timeLeft) = TokenRemovalTTL
  BY Lives DEF Shortened, Typed, TypeOK

LEMMA TokenTypes ==
  ASSUME Typed, NEW w \in Workers, Step(w)
  PROVE  /\ issued' \subseteq Ids /\ issued \subseteq issued'
         /\ jwt' \in [Ids -> Nat] /\ \A t \in Ids : jwt'[t] \in 0 .. LifeOf(t)
         /\ key' \in [Ids -> Nat] /\ \A t \in Ids : key'[t] \in 0 .. LifeOf(t)
         /\ \A t \in issued : jwt'[t] = jwt[t]
  <1>0. /\ issued \subseteq Ids /\ jwt \in [Ids -> Nat] /\ key \in [Ids -> Nat]
        /\ \A t \in Ids : jwt[t] \in 0 .. LifeOf(t) /\ key[t] \in 0 .. LifeOf(t)
    BY DEF Typed, TypeOK
  <1>1. CASE UNCHANGED tokens BY <1>0, <1>1 DEF tokens
  <1>2. CASE \E t \in Ids \ issued : Generate(t)
    BY <1>0, <1>2, Lives DEF Generate, Stored
  <1>3. CASE \E t \in Ids : Shortens(w, t) /\ Shorten(t, left[w])
    <2>1. PICK t \in Ids : Shortens(w, t) /\ Shorten(t, left[w]) BY <1>3
    <2>2. left[w] \in 0 .. LifeOf(t) BY <1>0, <2>1, ShortensIssued, Lives
    <2>3. Shortened(t, left[w]) \in 0 .. LifeOf(t) BY <2>2, ShortenedTypes
    <2>4. QED BY <1>0, <2>1, <2>3, Lives DEF Shorten
  <1>4. QED BY <1>1, <1>2, <1>3, TokenEffects

\* A step of one worker leaves the others alone.
LEMMA OnlyWorker ==
  ASSUME Typed, NEW w \in Workers, Step(w), NEW v \in Workers, v # w
  PROVE  pc'[v] = pc[v] /\ req'[v] = req[v] /\ left'[v] = left[v]
  BY DEF Typed, TypeOK, Step, BeginLogin, GenAccess, GenRefresh, BeginRefresh, Exists,
         RemoveRefresh, BeginLogout, Check, RemoveToken, EndLogout, Accept, Answer,
         GoOn, Goto

\* What a step does to its request: it takes one up, goes on with it, or answers.
LEMMA RequestEffects ==
  ASSUME Typed, NEW w \in Workers, Step(w)
  PROVE  \/ \E r \in Request : /\ req' = [req EXCEPT ![w] = r]
                               /\ \A t \in {r.access, r.refresh} \ {Null} : t \in issued
         \/ req' = req
         \/ req' = [req EXCEPT ![w] = Null] /\ pc'[w] = "idle"
  BY RequestKinds
  DEF Typed, TypeOK, Step, BeginLogin, GenAccess, GenRefresh, BeginRefresh, Exists,
      RemoveRefresh, BeginLogout, Check, RemoveToken, EndLogout, Accept, Answer,
      GoOn, Goto

LEMMA BeginFits ==
  ASSUME Typed, NEW w \in Workers, BeginLogin(w) \/ BeginRefresh(w) \/ BeginLogout(w)
  PROVE  ReqFits(w)' /\ LeftFits(w)'
  BY RequestKinds, TokenAssumption
  DEF Typed, TypeOK, BeginLogin, BeginRefresh, BeginLogout, Accept, Goto, ReqFits,
      LeftFits, Carries, Shortens, tokens, Ids

LEMMA AnswerFits ==
  ASSUME Typed, NEW w \in Workers, NEW removed, Answer(w, removed)
  PROVE  ReqFits(w)' /\ LeftFits(w)'
  BY RequestKinds DEF Typed, TypeOK, Answer, Goto, ReqFits, LeftFits, Carries, Shortens

LEMMA GoOnFits ==
  ASSUME Typed, NEW w \in Workers, Step(w), NEW label \in Labels \ {"idle"},
         GoOn(w, label), pc[w] # "idle",
         label \in {"check", "removeAccess", "remove"} => req[w] \in LogoutReq,
         label \in {"genAccess", "genRefresh"} => req[w] \in LoginReq \cup RefreshReq,
         label \in {"exists", "removeRefresh"} =>
           req[w] \in RefreshReq \cup LogoutReq /\ req[w].refresh \in RefreshIds,
         label = "removeAccess" => left'[w] = jwt[req[w].access] /\ jwt' = jwt,
         label = "removeRefresh" => left'[w] = jwt[req[w].refresh] /\ jwt' = jwt
  PROVE  ReqFits(w)' /\ LeftFits(w)'
  <1>1. pc'[w] = label /\ req' = req
    BY DEF GoOn, Goto, Typed, TypeOK
  <1>2. issued \subseteq issued' BY TokenTypes
  <1>3. ReqFits(w)'
    BY <1>1, <1>2, RequestKinds DEF Typed, ReqFits, Carries
  <1>4. ASSUME NEW t \in Ids, Shortens(w, t)' PROVE left'[w] \in jwt'[t] .. LifeOf(t)
    BY <1>1, <1>4 DEF Shortens, Typed, TypeOK
  <1>5. QED BY <1>3, <1>4 DEF LeftFits

LEMMA StepFits ==
  ASSUME Typed, NEW w \in Workers, Step(w)
  PROVE  ReqFits(w)' /\ LeftFits(w)'
  <1>0. /\ ReqFits(w) /\ pc \in [Workers -> Labels]
        /\ req \in [Workers -> Request \cup {Null}] /\ left \in [Workers -> Nat]
    BY DEF Typed, TypeOK
  <1>1. CASE BeginLogin(w) \/ BeginRefresh(w) \/ BeginLogout(w)
    BY <1>1, BeginFits
  <1>2. CASE \E removed : Answer(w, removed)
    BY <1>2, AnswerFits
  <1>3. CASE GenAccess(w) /\ GoOn(w, "genRefresh")
    BY <1>0, <1>3, GoOnFits DEF GenAccess, ReqFits, Labels
  <1>4. CASE Exists(w) /\ GoOn(w, "removeRefresh")
    <2>1. pc[w] = "exists" BY <1>4 DEF Exists
    <2>2. left'[w] = jwt[req[w].refresh] /\ jwt' = jwt
      BY <1>0, <1>4 DEF Exists, GoOn, Goto, Answer, tokens
    <2>3. QED BY <1>0, <1>4, <2>1, <2>2, GoOnFits DEF ReqFits, Labels
  <1>5. CASE Exists(w) /\ GoOn(w, "remove")
    <2>1. pc[w] = "exists" /\ req[w].op = "logout"
      BY <1>0, <1>5 DEF Exists, GoOn, Goto, Answer
    <2>2. req[w] \in LogoutReq BY <1>0, <2>1, RequestKinds DEF ReqFits
    <2>3. QED BY <1>0, <1>5, <2>1, <2>2, GoOnFits DEF Labels
  <1>6. CASE RemoveRefresh(w) /\ GoOn(w, "genAccess")
    <2>1. pc[w] = "removeRefresh" /\ req[w].op = "refresh"
      BY <1>0, <1>6 DEF RemoveRefresh, GoOn, Goto, Answer
    <2>2. req[w] \in RefreshReq BY <1>0, <2>1, RequestKinds DEF ReqFits
    <2>3. QED BY <1>0, <1>6, <2>1, <2>2, GoOnFits DEF Labels
  <1>7. CASE RemoveRefresh(w) /\ GoOn(w, "remove")
    <2>1. pc[w] = "removeRefresh" /\ req[w].op = "logout"
      BY <1>0, <1>7 DEF RemoveRefresh, GoOn, Goto, Answer
    <2>2. req[w] \in LogoutReq BY <1>0, <2>1, RequestKinds DEF ReqFits
    <2>3. QED BY <1>0, <1>7, <2>1, <2>2, GoOnFits DEF Labels
  <1>8. CASE Check(w) /\ GoOn(w, "removeAccess")
    <2>1. pc[w] = "check" BY <1>8 DEF Check
    <2>2. left'[w] = jwt[req[w].access] /\ jwt' = jwt
      BY <1>0, <1>8 DEF Check, GoOn, Goto, Answer, tokens
    <2>3. QED BY <1>0, <1>8, <2>1, <2>2, GoOnFits DEF ReqFits, Labels
  <1>9. CASE RemoveToken(w)
    <2>1. pc[w] = "removeAccess" /\ req[w] \in LogoutReq
      BY <1>0, <1>9 DEF RemoveToken, ReqFits
    <2>2. CASE GoOn(w, "exists") /\ req[w].refresh # Null
      BY <1>9, <2>1, <2>2, RequestKinds, GoOnFits DEF Labels
    <2>3. CASE GoOn(w, "remove")
      BY <1>9, <2>1, <2>3, GoOnFits DEF Labels
    <2>4. QED BY <1>9, <2>2, <2>3 DEF RemoveToken
  <1>10. QED
    BY <1>1, <1>2, <1>3, <1>4, <1>5, <1>6, <1>7, <1>8, <1>9
    DEF Step, GenAccess, GenRefresh, Exists, RemoveRefresh, Check, EndLogout

LEMMA TypedStep == ASSUME Typed, NEW w \in Workers, Step(w) PROVE Typed'
  <1>1. /\ issued' \subseteq Ids /\ DOMAIN jwt' = Ids /\ DOMAIN key' = Ids
        /\ \A t \in Ids : jwt'[t] \in 0 .. LifeOf(t) /\ key'[t] \in 0 .. LifeOf(t)
        /\ jwt' \in [Ids -> Nat] /\ key' \in [Ids -> Nat]
    BY TokenTypes
  <1>2. pc' \in [Workers -> Labels]
    BY DEF Typed, TypeOK, Labels, Step, BeginLogin, GenAccess, GenRefresh, BeginRefresh,
           Exists, RemoveRefresh, BeginLogout, Check, RemoveToken, EndLogout, Accept,
           Answer, GoOn, Goto
  <1>3. req' \in [Workers -> Request \cup {Null}]
    BY RequestEffects DEF Typed, TypeOK
  <1>4. left' \in [Workers -> Nat]
    BY RequestKinds
    DEF Typed, TypeOK, ReqFits, Step, BeginLogin, GenAccess, GenRefresh, BeginRefresh,
        Exists, RemoveRefresh, BeginLogout, Check, RemoveToken, EndLogout, Accept, Answer,
        Ids
  <1>5. first' \in [Ids -> Never .. TokenRemovalTTL] /\ last' \in [Ids -> Never .. TokenRemovalTTL]
    BY Lives
    DEF Typed, TypeOK, Never, Step, BeginLogin, GenAccess, GenRefresh, BeginRefresh, Exists,
        RemoveRefresh, BeginLogout, Check, RemoveToken, EndLogout, Accept, Answer, GoOn
  <1>6. failed' \subseteq Ids
    BY RequestKinds
    DEF Typed, TypeOK, ReqFits, Step, BeginLogin, GenAccess, GenRefresh, BeginRefresh,
        Exists, RemoveRefresh, BeginLogout, Check, RemoveToken, EndLogout, Accept, Ids
  <1>7. ASSUME NEW v \in Workers PROVE ReqFits(v)' /\ LeftFits(v)'
    <2>1. CASE v = w BY <2>1, StepFits
    <2>2. CASE v # w
      <3>1. pc'[v] = pc[v] /\ req'[v] = req[v] /\ left'[v] = left[v]
        BY <2>2, OnlyWorker
      <3>2. ReqFits(v)' BY <3>1, TokenTypes DEF Typed, ReqFits, Carries
      <3>3. ASSUME NEW t \in Ids, Shortens(v, t)' PROVE left'[v] \in jwt'[t] .. LifeOf(t)
        <4>1. Shortens(v, t) BY <3>1, <3>3 DEF Shortens
        <4>2. QED BY <3>1, <4>1, TokenTypes, ShortensIssued
      <3>4. QED BY <3>2, <3>3 DEF LeftFits
    <2>3. QED BY <2>1, <2>2
  <1>8. QED BY <1>1, <1>2, <1>3, <1>4, <1>5, <1>6, <1>7 DEF Typed, TypeOK

LEMMA TypedTick == ASSUME Typed, Tick PROVE Typed'
  <1>1. /\ jwt' \in [Ids -> Nat] /\ key' \in [Ids -> Nat]
        /\ \A t \in Ids : /\ jwt'[t] \in 0 .. LifeOf(t) /\ jwt'[t] <= jwt[t]
                          /\ key'[t] \in 0 .. LifeOf(t)
    BY Lives DEF Tick, Older, Typed, TypeOK
  <1>2. first' \in [Ids -> Never .. TokenRemovalTTL] /\ last' \in [Ids -> Never .. TokenRemovalTTL]
    BY Lives DEF Tick, Clock, Never, Typed, TypeOK
  <1>3. TypeOK' BY <1>1, <1>2 DEF Tick, Typed, TypeOK
  <1>4. ASSUME NEW v \in Workers PROVE ReqFits(v)' /\ LeftFits(v)'
    <2>1. ReqFits(v)' BY DEF Tick, Typed, ReqFits, Carries
    <2>2. ASSUME NEW t \in Ids, Shortens(v, t)' PROVE left'[v] \in jwt'[t] .. LifeOf(t)
      <3>1. Shortens(v, t) /\ left'[v] = left[v] BY <2>2 DEF Tick, Shortens
      <3>2. left[v] \in jwt[t] .. LifeOf(t) BY <3>1, ShortensIssued
      <3>3. QED BY <1>1, <3>1, <3>2, Lives DEF Typed
    <2>3. QED BY <2>1, <2>2 DEF LeftFits
  <1>5. QED BY <1>1, <1>3, <1>4 DEF Typed

LEMMA TypedNext == Typed /\ [Next]_vars => Typed'
  <1> SUFFICES ASSUME Typed, [Next]_vars PROVE Typed'
    OBVIOUS
  <1>1. CASE UNCHANGED vars
    BY <1>1 DEF vars, Typed, TypeOK, ReqFits, LeftFits, Carries, Shortens
  <1>2. QED BY <1>1, TypedStep, TypedTick DEF Next

\* Every key has a time to live that its token's life bounds, every command
\* finds the request it is for.
THEOREM TypeCorrect == Spec => []TypeOK
  <1>1. Typed => TypeOK BY DEF Typed
  <1>2. QED BY <1>1, TypedInit, TypedNext, PTL DEF Spec
-----------------------------------------------------------------------------
(* Tokens that have died.                                                  *)

\* Issuing a token brings it to life and leaves the others as they were.
LEMMA GenerateIssues ==
  ASSUME Typed, NEW t \in Ids \ issued, Generate(t)
  PROVE  lives[t] = "unborn" /\ lives' = [lives EXCEPT ![t] = "live"]
  <1>1. LifeNow(t) = "unborn" /\ LifeNow(t)' = "live"
    BY Lives DEF Generate, Stored, LifeNow, Accepts, Expired, Typed
  <1>2. ASSUME NEW u \in Ids, u # t PROVE LifeNow(u)' = LifeNow(u)
    BY <1>2 DEF Generate, LifeNow, Accepts, Expired, Typed
  <1>3. QED BY <1>1, <1>2 DEF lives

\* A token dies, or stays what it is.
Dies(t) == LifeNow(t)' = LifeNow(t) \/ (LifeNow(t) = "live" /\ LifeNow(t)' = "dead")

LEMMA ShortenDies ==
  ASSUME Typed, NEW w \in Workers, NEW t \in Ids, Shortens(w, t), Shorten(t, left[w]),
         NEW u \in Ids
  PROVE  Dies(u)
  <1>1. left[w] \in 0 .. LifeOf(t) BY ShortensIssued, Lives DEF Typed
  <1>2. key[t] = 0 => Shortened(t, left[w]) = 0 BY <1>1, ShortenedTypes
  <1>3. QED BY <1>2 DEF Shorten, Dies, LifeNow, Accepts, Expired, Typed

LEMMA TickDies == ASSUME Typed, Tick, NEW u \in Ids PROVE Dies(u)
  BY DEF Tick, Older, Dies, LifeNow, Accepts, Expired, Typed

LEMMA DeathsOnly ==
  ASSUME \A u \in Ids : Dies(u)
  PROVE  Life!Die
  <1> DEFINE T == {t \in Ids : LifeNow(t) = "live" /\ LifeNow(t)' = "dead"}
  <1>1. T \in SUBSET {t \in Ids : lives[t] = "live"} BY DEF lives
  <1>2. lives' = [t \in Ids |-> IF t \in T THEN "dead" ELSE lives[t]]
    BY DEF lives, Dies
  <1>3. QED BY <1>1, <1>2 DEF Life!Die

\* A token is issued once, and once it is dead no request brings it back to
\* life, whatever the order its commands and the expiry of its key come in.
THEOREM TokensStayDead == Spec => StaysDead
  <1>1. Init => Life!LifeInit
    BY DEF Init, Life!LifeInit, lives, LifeNow
  <1>2. Typed /\ [Next]_vars => [Life!Issue \/ Life!Die]_lives
    <2> SUFFICES ASSUME Typed, [Next]_vars PROVE Life!Issue \/ Life!Die \/ lives' = lives
      OBVIOUS
    <2>1. CASE Tick BY <2>1, TickDies, DeathsOnly
    <2>2. ASSUME NEW w \in Workers, Step(w) PROVE Life!Issue \/ Life!Die \/ lives' = lives
      <3>1. CASE UNCHANGED tokens
        BY <3>1 DEF tokens, lives, LifeNow, Accepts, Expired
      <3>2. CASE \E t \in Ids \ issued : Generate(t)
        BY <3>2, GenerateIssues DEF Life!Issue
      <3>3. CASE \E t \in Ids : Shortens(w, t) /\ Shorten(t, left[w])
        BY <2>2, <3>3, ShortenDies, DeathsOnly
      <3>4. QED BY <2>2, <3>1, <3>2, <3>3, TokenEffects
    <2>3. CASE UNCHANGED vars
      BY <2>3 DEF vars, lives, LifeNow, Accepts, Expired
    <2>4. QED BY <2>1, <2>2, <2>3 DEF Next
  <1>3. QED
    BY <1>1, <1>2, TypedInit, TypedNext, PTL DEF Spec, StaysDead, Life!LifeSpec
-----------------------------------------------------------------------------
(* Tokens that are redeemed again.                                         *)

Begin(w) == BeginLogin(w) \/ BeginRefresh(w) \/ BeginLogout(w)

\* A request that begins presents tokens that have been issued, and changes none.
LEMMA BeginPresents ==
  ASSUME Typed, NEW w \in Workers, Begin(w), NEW t \in Ids
  PROVE  /\ UNCHANGED <<tokens, last, failed>>
         /\ Carries(w, t)' => t \in issued /\ Presented(t)'
         /\ \/ first'[t] = first[t]
            \/ first[t] = Never /\ first'[t] = 0 /\ Carries(w, t)'
  BY RequestKinds, TokenAssumption
  DEF Typed, TypeOK, Begin, BeginLogin, BeginRefresh, BeginLogout, Accept, Carries,
      Presented, Never, Ids

\* Any other step presents none.
LEMMA StepPresentsNone ==
  ASSUME Typed, NEW w \in Workers, Step(w), ~Begin(w), NEW t \in Ids
  PROVE  first' = first /\ (Carries(w, t)' => Carries(w, t))
  BY DEF Typed, TypeOK, Begin, Step, GenAccess, GenRefresh, Exists, RemoveRefresh, Check,
         RemoveToken, EndLogout, Answer, GoOn, Carries

LEMMA GraceStep ==
  ASSUME Typed, NEW w \in Workers, Step(w), NEW t \in Ids, Grace(t)
  PROVE  Grace(t)'
  <1>0. /\ jwt[t] \in Nat /\ key[t] \in Nat /\ first[t] \in Never .. TokenRemovalTTL
        /\ TokenRemovalTTL \in Nat
    BY Lives DEF Typed, TypeOK
  <1>1. ASSUME NEW v \in Workers, v # w PROVE Carries(v, t)' <=> Carries(v, t)
    BY <1>1, OnlyWorker DEF Carries
  <1>2. CASE Begin(w)
    <2>1. /\ UNCHANGED <<issued, jwt, key>>
          /\ Carries(w, t)' => t \in issued /\ Presented(t)'
          /\ \/ first'[t] = first[t]
             \/ first[t] = Never /\ first'[t] = 0 /\ Carries(w, t)'
      BY <1>2, BeginPresents DEF tokens
    <2>2. QED BY <1>0, <1>1, <2>1 DEF Grace, Presented
  <1>3. CASE ~Begin(w)
    <2>1. first' = first /\ \A v \in Workers : Carries(v, t)' => Carries(v, t)
      BY <1>1, <1>3, StepPresentsNone
    <2>2. CASE UNCHANGED tokens BY <2>1, <2>2 DEF tokens, Grace, Presented
    <2>3. ASSUME NEW u \in Ids \ issued, Generate(u) PROVE Grace(t)'
      <3>1. CASE u = t
        <4>1. key'[t] = jwt'[t] /\ t \in issued'
          BY <2>3, <3>1 DEF Generate, Stored, Typed
        <4>2. QED BY <2>1, <2>3, <3>1, <4>1 DEF Grace, Presented
      <3>2. CASE u # t
        BY <2>1, <2>3, <3>2 DEF Generate, Typed, Grace, Presented
      <3>3. QED BY <3>1, <3>2
    <2>4. ASSUME NEW u \in Ids, Shortens(w, u), Shorten(u, left[w]) PROVE Grace(t)'
      <3>1. CASE u = t
        <4>1. left[w] \in 0 .. LifeOf(t) /\ left[w] >= jwt[t] /\ Presented(t)
          BY <2>4, <3>1, ShortensIssued, <1>0, Lives DEF Grace
        <4>2. key'[t] = Shortened(t, left[w]) /\ jwt' = jwt /\ issued' = issued
          BY <2>4, <3>1 DEF Shorten, Typed
        <4>3. /\ key[t] = 0 => key'[t] = 0
              /\ key[t] # 0 => key'[t] = left[w] \/ key'[t] = TokenRemovalTTL
          BY <4>1, <4>2, ShortenedTypes
        <4>4. left[w] \in Nat /\ first[t] \in 0 .. TokenRemovalTTL
          BY <1>0, <4>1, Lives DEF Presented, Never
        <4>5. QED BY <1>0, <2>1, <4>1, <4>2, <4>3, <4>4 DEF Grace, Presented
      <3>2. CASE u # t
        BY <2>1, <2>4, <3>2 DEF Shorten, Typed, Grace, Presented
      <3>3. QED BY <3>1, <3>2
    <2>5. QED BY <2>2, <2>3, <2>4, TokenEffects
  <1>4. QED BY <1>2, <1>3

LEMMA GraceTick == ASSUME Typed, Tick, NEW t \in Ids, Grace(t) PROVE Grace(t)'
  <1>1. /\ jwt[t] \in Nat /\ key[t] \in Nat /\ first[t] \in Never .. TokenRemovalTTL
        /\ TokenRemovalTTL \in Nat
    BY Lives DEF Typed, TypeOK
  <1>2. /\ jwt'[t] = IF jwt[t] > 0 THEN jwt[t] - 1 ELSE jwt[t]
        /\ key'[t] = IF key[t] > 0 THEN key[t] - 1 ELSE key[t]
        /\ first'[t] = IF first[t] \in 0 .. TokenRemovalTTL - 1 THEN first[t] + 1 ELSE first[t]
        /\ UNCHANGED <<issued, req>>
    BY DEF Tick, Older, Clock
  <1>3. (\A v \in Workers : ~Carries(v, t)) <=> (\A v \in Workers : ~Carries(v, t)')
    BY <1>2 DEF Carries
  <1>4. CASE Presented(t) BY <1>1, <1>2, <1>4 DEF Grace, Presented, Never
  <1>5. CASE ~Presented(t) BY <1>1, <1>2, <1>3, <1>5 DEF Grace, Presented, Never
  <1>6. QED BY <1>4, <1>5

\* A token whose client has not heard that it was redeemed can be redeemed
\* again for TokenRemovalTTL, as long as its claim, whatever requests race.
THEOREM GraceIsHonoured == Spec => []GraceHonoured
  <1> DEFINE AllGrace == \A t \in Ids : Grace(t)
  <1>1. Init => AllGrace
    BY DEF Init, Grace, Presented, Carries
  <1>2. Typed /\ AllGrace /\ [Next]_vars => AllGrace'
    <2> SUFFICES ASSUME Typed, [Next]_vars, NEW t \in Ids, Grace(t) PROVE Grace(t)'
      OBVIOUS
    <2>1. CASE UNCHANGED vars BY <2>1 DEF vars, Grace, Presented, Carries
    <2>2. QED BY <2>1, GraceStep, GraceTick DEF Next
  <1>3. Typed /\ AllGrace => GraceHonoured
    <2> SUFFICES ASSUME Typed, AllGrace, NEW t \in issued, ~Expired(t),
                        first[t] < TokenRemovalTTL
                 PROVE  Accepts(t)
      BY DEF GraceHonoured
    <2>1. /\ Grace(t) /\ jwt[t] \in Nat /\ key[t] \in Nat
          /\ first[t] \in Never .. TokenRemovalTTL /\ TokenRemovalTTL \in Nat
      BY Lives DEF Typed, TypeOK
    <2>2. QED BY <2>1 DEF Grace, Presented, Accepts, Expired, Never
  <1> HIDE DEF AllGrace
  <1>4. QED BY <1>1, <1>2, <1>3, TypedInit, TypedNext, PTL DEF Spec
-----------------------------------------------------------------------------
(* Tokens that have been removed.                                          *)

\* A worker goes on to what follows a removal only when the token has no more
\* than its grace left, or by a failure of its logout; and it answers as one
\* that has removed the token exactly then.
HandlesWell(w, t) ==
  /\ Handled(w, t)' => Handled(w, t) \/ Short(t)' \/ t \in failed'
  /\ Handled(w, t) => Handled(w, t)' \/ last'[t] = 0
  /\ \/ last'[t] = last[t]
     \/ last'[t] = 0 /\ t \in issued /\ (Handled(w, t) \/ Short(t)')
  /\ t \in issued /\ key'[t] # key[t] => Handled(w, t)' \/ last'[t] = 0

LEMMA HandledIssued ==
  ASSUME Typed, NEW w \in Workers, NEW t \in Ids, Handled(w, t)
  PROVE  pc[w] # "idle" /\ t \in issued
  BY RequestKinds DEF Typed, TypeOK, Handled, ReqFits, Carries

LEMMA ShortenedShort ==
  ASSUME Typed, NEW w \in Workers, NEW t \in Ids, Shortens(w, t), Shorten(t, left[w])
  PROVE  Short(t)'
  <1>1. left[w] \in 0 .. LifeOf(t) BY ShortensIssued, Lives DEF Typed
  <1>2. key'[t] = Shortened(t, left[w]) BY DEF Shorten, Typed
  <1>3. QED BY <1>1, <1>2, ShortenedTypes DEF Short

LEMMA HandlesAll ==
  ASSUME Typed, NEW w \in Workers, Step(w), NEW t \in Ids
  PROVE  HandlesWell(w, t)
  <1> USE DEF HandlesWell
  <1>0. /\ ReqFits(w) /\ pc \in [Workers -> Labels] /\ Null \notin Ids
        /\ req \in [Workers -> Request \cup {Null}] /\ issued \subseteq Ids
        /\ AccessIds \cap RefreshIds = {}
        /\ Carries(w, t) => t \in issued
    BY TokenAssumption DEF Typed, TypeOK, ReqFits
  <1>1. CASE Begin(w)
    BY <1>0, <1>1, RequestKinds
    DEF Begin, BeginLogin, BeginRefresh, BeginLogout, Accept, Goto, Handled, tokens
  <1>2. CASE GenAccess(w)
    BY <1>0, <1>2, HandledIssued, RequestKinds
    DEF GenAccess, Answer, GoOn, Goto, Removed, Handled, ReqFits, Generate, tokens, Typed,
        Carries
  <1>3. CASE GenRefresh(w)
    BY <1>0, <1>3, HandledIssued, RequestKinds
    DEF GenRefresh, Answer, GoOn, Goto, Removed, Handled, ReqFits, Generate, tokens, Typed,
        Carries
  <1>4. CASE Exists(w)
    <2>1. pc[w] = "exists" /\ UNCHANGED tokens BY <1>4 DEF Exists
    <2>2. CASE GoOn(w, "removeRefresh")
      BY <1>0, <1>4, <2>1, <2>2 DEF Exists, GoOn, Goto, Handled, tokens
    <2>3. CASE Answer(w, {}) /\ req[w].op = "refresh"
      BY <1>0, <1>4, <2>1, <2>3, RequestKinds DEF Exists, Answer, Goto, Handled, ReqFits, tokens
    <2>4. CASE GoOn(w, "remove") /\ key[req[w].refresh] = 0
      <3>1. t = req[w].refresh => Short(t)'
        BY <1>4, <2>4, Lives DEF Exists, Short, tokens
      <3>2. QED BY <1>0, <1>4, <2>1, <2>4, <3>1 DEF Exists, GoOn, Goto, Handled, tokens
    <2>5. CASE GoOn(w, "remove") /\ failed' = failed \cup {req[w].refresh}
      BY <1>0, <1>4, <2>1, <2>5 DEF Exists, GoOn, Goto, Handled, tokens
    <2>6. QED BY <1>4, <2>2, <2>3, <2>4, <2>5 DEF Exists
  <1>5. CASE RemoveRefresh(w)
    <2>1. pc[w] = "removeRefresh" /\ req[w] \in RefreshReq \cup LogoutReq
      BY <1>0, <1>5 DEF RemoveRefresh, ReqFits
    <2>2. t = req[w].refresh /\ Shorten(req[w].refresh, left[w]) => Short(t)'
      BY <2>1, ShortenedShort DEF Shortens
    <2>3. CASE /\ Shorten(req[w].refresh, left[w]) /\ req[w].op = "refresh"
               /\ GoOn(w, "genAccess")
      BY <1>0, <2>1, <2>2, <2>3, RequestKinds DEF GoOn, Goto, Handled, Shorten
    <2>4. CASE /\ Shorten(req[w].refresh, left[w]) /\ req[w].op = "refresh"
               /\ Answer(w, Removed(w))
      BY <1>0, <2>1, <2>2, <2>4, RequestKinds
      DEF Answer, Goto, Removed, Handled, Shorten, Carries
    <2>5. CASE /\ Shorten(req[w].refresh, left[w]) /\ req[w].op = "logout"
               /\ GoOn(w, "remove")
      BY <1>0, <2>1, <2>2, <2>5, RequestKinds DEF GoOn, Goto, Handled, Shorten
    <2>6. CASE req[w].op = "refresh" /\ Answer(w, {}) /\ UNCHANGED tokens
      BY <1>0, <2>1, <2>6, RequestKinds DEF Answer, Goto, Handled, tokens
    <2>7. CASE /\ req[w].op = "logout" /\ GoOn(w, "remove") /\ UNCHANGED tokens
               /\ failed' = failed \cup {req[w].refresh}
      BY <1>0, <2>1, <2>7, RequestKinds DEF GoOn, Goto, Handled, tokens
    <2>8. QED BY <1>5, <2>3, <2>4, <2>5, <2>6, <2>7 DEF RemoveRefresh
  <1>6. CASE Check(w)
    BY <1>0, <1>6, RequestKinds DEF Check, Answer, GoOn, Goto, Handled, ReqFits, tokens
  <1>7. CASE RemoveToken(w)
    <2>1. pc[w] = "removeAccess" /\ req[w] \in LogoutReq
      BY <1>0, <1>7 DEF RemoveToken, ReqFits
    <2>2. t = req[w].access /\ Shorten(req[w].access, left[w]) => Short(t)'
      BY <2>1, ShortenedShort DEF Shortens
    <2>3. /\ ~Handled(w, t) /\ last' = last
          /\ t # req[w].access => key'[t] = key[t] /\ jwt'[t] = jwt[t]
          /\ t = req[w].access => Short(t)' \/ (t \in failed' /\ key' = key)
      BY <1>0, <1>7, <2>1, <2>2 DEF RemoveToken, GoOn, Handled, Shorten, tokens, Typed
    <2>4. CASE GoOn(w, "exists")
      BY <1>0, <2>1, <2>3, <2>4 DEF GoOn, Goto, Handled
    <2>5. CASE GoOn(w, "remove") /\ (req[w].refresh = Null \/ Expired(req[w].refresh))
      <3>1. t = req[w].refresh => Short(t)'
        BY <1>0, <2>1, <2>3, <2>5, RequestKinds DEF Expired, Short
      <3>2. QED BY <1>0, <2>1, <2>3, <2>5, <3>1 DEF GoOn, Goto, Handled
    <2>6. QED BY <1>7, <2>4, <2>5 DEF RemoveToken
  <1>8. CASE EndLogout(w)
    BY <1>0, <1>8, RequestKinds DEF EndLogout, Answer, Goto, Removed, Handled, ReqFits,
                                    tokens, Carries
  <1>9. QED BY <1>1, <1>2, <1>3, <1>4, <1>5, <1>6, <1>7, <1>8 DEF Step, Begin

LEMMA EndsStep ==
  ASSUME Typed, NEW w \in Workers, Step(w), NEW t \in Ids, Ends(t)
  PROVE  Ends(t)'
  <1>0. /\ jwt[t] \in Nat /\ key[t] \in Nat /\ last[t] \in Never .. TokenRemovalTTL
        /\ TokenRemovalTTL \in Nat /\ Typed'
    BY Lives, TypedStep DEF Typed, TypeOK
  <1>1. jwt'[t] \in Nat /\ key'[t] \in Nat /\ last'[t] \in Never .. TokenRemovalTTL
    BY <1>0, Lives DEF Typed, TypeOK
  <1>2. ASSUME NEW v \in Workers, v # w PROVE Handled(v, t)' <=> Handled(v, t)
    BY <1>2, OnlyWorker DEF Handled
  <1>3. HandlesWell(w, t) /\ failed \subseteq failed' /\ issued \subseteq issued'
    <2>1. failed \subseteq failed'
      BY DEF Step, BeginLogin, GenAccess, GenRefresh, BeginRefresh, Exists,
             RemoveRefresh, BeginLogout, Check, RemoveToken, EndLogout, Accept
    <2>2. QED BY <2>1, HandlesAll, TokenTypes
  \* Neither a token that is short nor one that is dying gets more time.
  <1>4. t \in issued => key'[t] = key[t] \/ Short(t)'
    <2>1. CASE UNCHANGED tokens BY <2>1 DEF tokens
    <2>2. CASE \E u \in Ids \ issued : Generate(u) BY <2>2 DEF Generate, Typed
    <2>3. CASE \E u \in Ids : Shortens(w, u) /\ Shorten(u, left[w])
      BY <2>3, ShortenedShort DEF Shorten, Typed
    <2>4. QED BY <2>1, <2>2, <2>3, TokenEffects
  <1>5. t \in issued /\ Short(t) => Short(t)'
    BY <1>4, TokenTypes DEF Short
  <1>6. ASSUME NEW v \in Workers, Handled(v, t)' PROVE Short(t)' \/ t \in failed'
    <2>1. CASE Handled(v, t)
      BY <1>3, <1>5, <2>1, HandledIssued DEF Ends
    <2>2. CASE ~Handled(v, t)
      BY <1>2, <1>3, <1>6, <2>2 DEF HandlesWell
    <2>3. QED BY <2>1, <2>2
  <1>7. ASSUME last'[t] # Never
        PROVE  Dying(t)' \/ t \in failed' \/ \E v \in Workers : Handled(v, t)'
    <2>1. CASE last'[t] = 0 /\ t \in issued /\ (Handled(w, t) \/ Short(t)')
      <3>1. Short(t)' \/ t \in failed'
        BY <1>3, <1>5, <2>1 DEF Ends
      <3>2. QED BY <1>0, <1>1, <2>1, <3>1 DEF Short, Dying
    <2>2. CASE last'[t] = last[t]
      <3>1. t \in issued /\ jwt'[t] = jwt[t]
        BY <1>7, <2>2, TokenTypes DEF Ends
      <3>2. CASE t \in failed BY <1>3, <3>2
      <3>3. CASE \E v \in Workers : Handled(v, t)
        <4>1. PICK v \in Workers : Handled(v, t) BY <3>3
        <4>2. CASE Handled(v, t)' BY <4>2
        <4>3. CASE ~Handled(v, t)'
          <5>1. v = w /\ last'[t] = 0 BY <1>2, <1>3, <4>1, <4>3 DEF HandlesWell
          <5>2. Short(t)' \/ t \in failed' BY <1>3, <1>5, <3>1, <4>1 DEF Ends
          <5>3. QED BY <1>0, <1>1, <5>1, <5>2 DEF Short, Dying
        <4>4. QED BY <4>2, <4>3
      <3>4. CASE Dying(t) /\ key'[t] = key[t]
        BY <2>2, <3>1, <3>4 DEF Dying
      <3>5. CASE Dying(t) /\ key'[t] # key[t]
        <4>1. Handled(w, t)' \/ last'[t] = 0 BY <1>3, <3>1, <3>5 DEF HandlesWell
        <4>2. Short(t)' BY <1>4, <3>1, <3>5
        <4>3. QED BY <1>0, <1>1, <4>1, <4>2 DEF Short, Dying
      <3>6. QED BY <1>7, <2>2, <3>2, <3>3, <3>4, <3>5 DEF Ends
    <2>3. QED BY <1>3, <2>1, <2>2 DEF HandlesWell
  <1>8. t \notin issued' => last'[t] = Never
    BY <1>3 DEF HandlesWell, Ends
  <1>9. QED BY <1>6, <1>7, <1>8 DEF Ends

LEMMA EndsTick == ASSUME Typed, Tick, NEW t \in Ids, Ends(t) PROVE Ends(t)'
  <1>1. /\ jwt[t] \in Nat /\ key[t] \in Nat /\ last[t] \in Never .. TokenRemovalTTL
        /\ TokenRemovalTTL \in Nat
    BY Lives DEF Typed, TypeOK
  <1>2. /\ jwt'[t] = IF jwt[t] > 0 THEN jwt[t] - 1 ELSE jwt[t]
        /\ key'[t] = IF key[t] > 0 THEN key[t] - 1 ELSE key[t]
        /\ last'[t] = IF last[t] \in 0 .. TokenRemovalTTL - 1 THEN last[t] + 1 ELSE last[t]
        /\ UNCHANGED <<issued, failed>>
        /\ \A v \in Workers : Handled(v, t)' <=> Handled(v, t)
    BY DEF Tick, Older, Clock, Handled
  <1>3. Short(t) => Short(t)' BY <1>1, <1>2 DEF Short
  <1>4. last[t] # Never /\ Dying(t) => Dying(t)'
    BY <1>1, <1>2 DEF Dying, Never
  <1>5. last'[t] # Never <=> last[t] # Never BY <1>1, <1>2 DEF Never
  <1>6. QED BY <1>2, <1>3, <1>4, <1>5 DEF Ends

\* A token that was removed is dead TokenRemovalTTL after the last answer that
\* told of it, unless a logout that reports success failed to remove it.
THEOREM RemovedTokensEnd == Spec => []RemovedTokensDie
  <1> DEFINE AllEnd == \A t \in Ids : Ends(t)
  <1>1. Init => AllEnd
    BY DEF Init, Ends, Handled
  <1>2. Typed /\ AllEnd /\ [Next]_vars => AllEnd'
    <2> SUFFICES ASSUME Typed, [Next]_vars, NEW t \in Ids, Ends(t) PROVE Ends(t)'
      OBVIOUS
    <2>1. CASE UNCHANGED vars BY <2>1 DEF vars, Ends, Handled, Short, Dying
    <2>2. QED BY <2>1, EndsStep, EndsTick DEF Next
  <1>3. Typed /\ AllEnd => RemovedTokensDie
    <2> SUFFICES ASSUME Typed, AllEnd, NEW t \in Ids, last[t] = TokenRemovalTTL,
                        ~UnderWay(t), Accepts(t)
                 PROVE  t \in failed
      BY DEF RemovedTokensDie
    <2>1. /\ Ends(t) /\ jwt[t] \in Nat /\ key[t] \in Nat /\ TokenRemovalTTL \in Nat
      BY Lives DEF Typed, TypeOK
    <2>2. ASSUME NEW w \in Workers PROVE ~Handled(w, t)
      <3>1. Handled(w, t) => pc[w] # "idle" BY HandledIssued
      <3>2. pc[w] # "idle" => req[w] # Null BY RequestKinds DEF Typed, ReqFits
      <3>3. QED BY <3>1, <3>2 DEF UnderWay, Handled
    <2>3. QED BY <2>1, <2>2 DEF Ends, Dying, Accepts, Expired, Never
  <1> HIDE DEF AllEnd
  <1>4. QED BY <1>1, <1>2, <1>3, TypedInit, TypedNext, PTL DEF Spec
=============================================================================

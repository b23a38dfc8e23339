------------------------------- MODULE Tokens -------------------------------
(***************************************************************************)
(* The lives of access and refresh tokens: what their JWT claims, the time  *)
(* to live of their keys in Redis, and the requests that issue, redeem and  *)
(* remove them (biz/middleware/jwt, and Login, RefreshToken and Logout of   *)
(* biz/handler/user.go).  A local computation belongs to the Redis command  *)
(* before it; time passes and other requests run between two commands, and *)
(* every command may fail.                                                 *)
(*                                                                         *)
(* All requests come on the session their tokens were issued on.  Whether   *)
(* it still has a user, and what becomes of tokens on other sessions, is    *)
(* AuthSession's: here a request may be refused whatever its tokens.        *)
(***************************************************************************)
EXTENDS Interceptor

CONSTANTS AccessIds, RefreshIds,  \* the uuids the generators will draw
          Workers,
          AccessLife, RefreshLife,  \* accessExpiration, refreshExpiration
          TokenRemovalTTL,
          Null

Ids == AccessIds \cup RefreshIds

Never == -1   \* of the auxiliary clocks

\* The tokens a request carries.
LoginReq == [op : {"login"}, access : {Null}, refresh : {Null}]
RefreshReq == [op : {"refresh"}, access : {Null}, refresh : RefreshIds]
LogoutReq == [op : {"logout"}, access : AccessIds, refresh : RefreshIds \cup {Null}]
Request == LoginReq \cup RefreshReq \cup LogoutReq

ASSUME TokenAssumption ==
  /\ AccessIds \cap RefreshIds = {}
  /\ {AccessLife, RefreshLife, TokenRemovalTTL} \subseteq Nat \ {0}
  /\ Null \notin Ids \cup Request

VARIABLES issued,  \* the tokens that have been signed and stored
          jwt,     \* jwt[t]: time left until the claim exp, 0 when it is over
          key,     \* key[t]: time to live of the key of t, 0 when there is none
          pc,      \* pc[w]: the command worker w sends next
          req,     \* req[w]: the request w serves
          left,    \* left[w]: the variable timeLeft
          first,   \* auxiliary: time since t was first presented, to be removed
          last,    \* auxiliary: time since the last such request was answered
          failed   \* auxiliary: tokens a logout failed to remove

vars == <<issued, jwt, key, pc, req, left, first, last, failed>>
tokens == <<issued, jwt, key>>

Labels == {"idle", "check", "removeAccess", "exists", "removeRefresh",
           "genAccess", "genRefresh", "remove"}

Init ==
  /\ issued = {}
  /\ jwt = [t \in Ids |-> 0] /\ key = [t \in Ids |-> 0]
  /\ pc = [w \in Workers |-> "idle"]
  /\ req = [w \in Workers |-> Null]
  /\ left = [w \in Workers |-> 0]
  /\ first = [t \in Ids |-> Never] /\ last = [t \in Ids |-> Never]
  /\ failed = {}
-----------------------------------------------------------------------------
\* validateToken refuses a token whose claim exp is over.
Expired(t) == jwt[t] = 0
Accepts(t) == ~Expired(t) /\ key[t] # 0

Goto(w, label) == pc' = [pc EXCEPT ![w] = label]
GoOn(w, label) == Goto(w, label) /\ UNCHANGED <<req, first, last>>

\* The tokens that the request has removed, as its answer tells.
Removed(w) == IF pc[w] \in {"removeRefresh", "genAccess", "genRefresh", "remove"}
              THEN {req[w].access, req[w].refresh} ELSE {}

Answer(w, removed) ==
  /\ Goto(w, "idle")
  /\ req' = [req EXCEPT ![w] = Null]
  /\ left' = [left EXCEPT ![w] = 0]
  /\ last' = [t \in Ids |-> IF t \in removed THEN 0 ELSE last[t]]
  /\ UNCHANGED first

Accept(w, r, label) ==
  /\ pc[w] = "idle"
  /\ req' = [req EXCEPT ![w] = r]
  /\ first' = [t \in Ids |-> IF t \in {r.access, r.refresh} /\ first[t] = Never
                             THEN 0 ELSE first[t]]
  /\ Goto(w, label)
  /\ UNCHANGED <<tokens, left, last, failed>>
-----------------------------------------------------------------------------
LifeOf(t) == IF t \in AccessIds THEN AccessLife ELSE RefreshLife

\* Signing the claims and SET with the same expiration.
StoredForGood(t) == NoTTL
Stored(t) == LifeOf(t)
Generate(t) == /\ issued' = issued \cup {t}
               /\ jwt' = [jwt EXCEPT ![t] = LifeOf(t)]
               /\ key' = [key EXCEPT ![t] = Stored(t)]

\* DEL when the claim is over, else EXPIRE, which does nothing without a key.
SetAgain(t, timeLeft) ==
  IF timeLeft = 0 THEN 0
  ELSE IF timeLeft < TokenRemovalTTL THEN timeLeft ELSE TokenRemovalTTL
DeletedAtOnce(t, timeLeft) == 0
KeptAlive(t, timeLeft) == key[t]
Shortened(t, timeLeft) ==
  IF key[t] = 0 \/ timeLeft = 0 THEN 0
  ELSE IF timeLeft < TokenRemovalTTL THEN timeLeft ELSE TokenRemovalTTL
Shorten(t, timeLeft) == /\ key' = [key EXCEPT ![t] = Shortened(t, timeLeft)]
                        /\ UNCHANGED <<issued, jwt>>
-----------------------------------------------------------------------------
\* A login that has saved its session, then the second half of both.
BeginLogin(w) == \E r \in LoginReq : Accept(w, r, "genAccess")

GenAccess(w) ==
  /\ pc[w] = "genAccess"
  /\ \/ Answer(w, Removed(w)) /\ UNCHANGED tokens
     \/ /\ \E t \in AccessIds \ issued : Generate(t)
        /\ GoOn(w, "genRefresh") /\ UNCHANGED left
  /\ UNCHANGED failed

GenRefresh(w) ==
  /\ pc[w] = "genRefresh"
  /\ \/ UNCHANGED tokens
     \/ \E t \in RefreshIds \ issued : Generate(t)
  /\ Answer(w, Removed(w))
  /\ UNCHANGED failed

\* RefreshToken: a request that comes late, or again, may carry any token.
BeginRefresh(w) == \E r \in RefreshReq : /\ r.refresh \in issued
                                         /\ ~Expired(r.refresh)
                                         /\ Accept(w, r, "exists")

\* RemoveRefreshToken up to timeLeft: the key is there, is not there, or the
\* command fails; a logout goes on in each case.
Exists(w) ==
  LET t == req[w].refresh IN
  /\ pc[w] = "exists"
  /\ \/ /\ key[t] # 0
        /\ left' = [left EXCEPT ![w] = jwt[t]]
        /\ GoOn(w, "removeRefresh") /\ UNCHANGED failed
     \/ req[w].op = "refresh" /\ Answer(w, {}) /\ UNCHANGED failed
     \/ /\ req[w].op = "logout" /\ GoOn(w, "remove")
        /\ \/ key[t] = 0 /\ UNCHANGED failed
           \/ failed' = failed \cup {t}
        /\ UNCHANGED left
  /\ UNCHANGED tokens

\* ... and from there: the session has a user or not, the command fails or not.
RemoveRefresh(w) ==
  LET t == req[w].refresh IN
  /\ pc[w] = "removeRefresh"
  /\ \/ /\ Shorten(t, left[w])
        /\ \/ req[w].op = "refresh" /\ GoOn(w, "genAccess") /\ UNCHANGED left
           \/ req[w].op = "refresh" /\ Answer(w, Removed(w))
           \/ req[w].op = "logout" /\ GoOn(w, "remove") /\ UNCHANGED left
        /\ UNCHANGED failed
     \/ /\ req[w].op = "refresh" /\ Answer(w, {})
        /\ UNCHANGED <<tokens, failed>>
     \/ /\ req[w].op = "logout" /\ GoOn(w, "remove")
        /\ failed' = failed \cup {t}
        /\ UNCHANGED <<tokens, left>>
-----------------------------------------------------------------------------
\* ValidateMW lets a logout pass; the refresh token is the one of the cookie.
BeginLogout(w) == \E r \in LogoutReq : /\ r.access \in issued /\ Accepts(r.access)
                                       /\ r.refresh \in issued \cup {Null}
                                       /\ Accept(w, r, "check")

\* CredentialCheck refuses, or RemoveToken begins.
Check(w) ==
  /\ pc[w] = "check"
  /\ \/ Answer(w, {})
     \/ /\ left' = [left EXCEPT ![w] = jwt[req[w].access]]
        /\ GoOn(w, "removeAccess")
  /\ UNCHANGED <<tokens, failed>>

RemoveToken(w) ==
  LET a == req[w].access  t == req[w].refresh IN
  /\ pc[w] = "removeAccess"
  /\ \/ Shorten(a, left[w]) /\ UNCHANGED failed
     \/ failed' = failed \cup {a} /\ UNCHANGED tokens
  /\ GoOn(w, IF t # Null /\ ~Expired(t) THEN "exists" ELSE "remove")
  /\ UNCHANGED left

\* The cookie is cleared, the session removed, and the answer is a success.
EndLogout(w) == /\ pc[w] = "remove"
                /\ Answer(w, Removed(w))
                /\ UNCHANGED <<tokens, failed>>
-----------------------------------------------------------------------------
Clock(age) == IF age \in 0 .. TokenRemovalTTL - 1 THEN age + 1 ELSE age

Tick ==
  /\ \E t \in Ids : jwt[t] > 0 \/ key[t] > 0
  /\ jwt' = [t \in Ids |-> Older(jwt[t])]
  /\ key' = [t \in Ids |-> Older(key[t])]
  /\ first' = [t \in Ids |-> Clock(first[t])]
  /\ last' = [t \in Ids |-> Clock(last[t])]
  /\ UNCHANGED <<issued, pc, req, left, failed>>

Step(w) == \/ BeginLogin(w) \/ GenAccess(w) \/ GenRefresh(w)
           \/ BeginRefresh(w) \/ Exists(w) \/ RemoveRefresh(w)
           \/ BeginLogout(w) \/ Check(w) \/ RemoveToken(w) \/ EndLogout(w)

Next == Tick \/ \E w \in Workers : Step(w)

Spec == Init /\ [][Next]_vars
-----------------------------------------------------------------------------
(* Properties.                                                             *)

\* Every variable holds a value of its type; every key has a time to live.
TypeOK ==
  /\ issued \subseteq Ids
  /\ DOMAIN jwt = Ids /\ \A t \in Ids : jwt[t] \in 0 .. LifeOf(t)
  /\ DOMAIN key = Ids /\ \A t \in Ids : key[t] \in 0 .. LifeOf(t)
  /\ pc \in [Workers -> Labels]
  /\ req \in [Workers -> Request \cup {Null}]
  /\ left \in [Workers -> Nat]
  /\ first \in [Ids -> Never .. TokenRemovalTTL]
  /\ last \in [Ids -> Never .. TokenRemovalTTL]
  /\ failed \subseteq Ids

LifeNow(t) == IF t \notin issued THEN "unborn" ELSE IF Accepts(t) THEN "live" ELSE "dead"
lives == [t \in Ids |-> LifeNow(t)]

\* A token is issued once and never comes back to life: not by a command that
\* shortens its life and arrives after its key has expired, nor by two requests
\* that remove it together.
Life == INSTANCE TokenLife WITH life <- lives
StaysDead == Life!LifeSpec

\* A token of which a client has not heard that it was redeemed can be redeemed
\* again: until its claim is over it is accepted for TokenRemovalTTL after the
\* first request that presented it, however many requests race with that one.
GraceHonoured ==
  \A t \in issued :
    ~Expired(t) /\ first[t] < TokenRemovalTTL => Accepts(t)

\* A token that a refresh or a logout has removed is dead once no such request
\* is under way or has been answered for TokenRemovalTTL.  It lives longer only
\* where a logout, which reports success all the same, failed to remove it.
UnderWay(t) == \E w \in Workers :
                 req[w] # Null /\ t \in {req[w].access, req[w].refresh}
RemovedTokensDie ==
  \A t \in Ids : last[t] = TokenRemovalTTL /\ ~UnderWay(t) /\ Accepts(t) =>
                 t \in failed
=============================================================================

---------------------------- MODULE AuthSession ----------------------------
(***************************************************************************)
(* Login sessions: the handlers of biz/handler/user.go behind the router's  *)
(* middleware, over the session store, the existence keys of access and     *)
(* refresh tokens in Redis, and the credential version in MySQL.            *)
(*                                                                         *)
(* The transactions of the user service are the atomic operations of        *)
(* CredentialStore, which UserService implements; every Redis command and   *)
(* every transaction is a step of its own, so that requests interleave.     *)
(*                                                                         *)
(* A signed token is known by what it claims.  Its existence key may expire *)
(* at any time: removing a token only shortens its time to live, so the     *)
(* removals change nothing here.                                            *)
(* A user is known by the account.                                          *)
(***************************************************************************)
EXTENDS CredentialStore

CONSTANTS Sids,     \* session identifiers: the values of the session cookie
          Workers   \* goroutines serving requests

Token == [sess : Sids, user : UserIds]     \* claims of an access token
\* A session as stored in Redis.  `shown` is auxiliary: the password given at
\* the login that saved it.
Session == [user : UserIds, version : 0..MaxVersion, shown : Passwords]

LoginReq == [op : {"login"}, sid : Sids, user : UserIds, password : Passwords]
RefreshReq == [op : {"refresh"}, sid : Sids, bound : Sids]
InfoReq == [op : {"info", "logout"}, sid : Sids, token : Token]
UpdateInfoReq == [op : {"updateInfo"}, sid : Sids, token : Token, name : Names]
UpdatePasswordReq == [op : {"updatePassword"}, sid : Sids, token : Token,
                      old : Passwords, new : Passwords]
ProtectedReq == InfoReq \cup UpdateInfoReq \cup UpdatePasswordReq
Request == LoginReq \cup RefreshReq \cup ProtectedReq

ASSUME SessionAssumption ==
  /\ Null \notin Request /\ Null \notin Session
  /\ Null \notin [user : UserIds, shown : Passwords, valid : BOOLEAN]

VARIABLES session,  \* session[s]: the session stored under s, or Null
          access,   \* claims of the access tokens whose key exists
          refresh,  \* sessions with a refresh token whose key exists
          pc,       \* pc[w]: the call worker w makes next
          req,      \* req[w]: the request w serves
          snap,     \* snap[w]: the session as w loaded it, or is to save it
          logins,   \* auxiliary: who has logged in on which session
          ended,    \* auxiliary: what has ended the session since its login
          saw       \* auxiliary: `ended` when w's request came, no login since

vars == <<tables, session, access, refresh, pc, req, snap, logins, ended, saw>>
keys == <<session, access, refresh>>
aux == <<logins, ended, saw>>

Labels == {"idle", "verify", "saveSession", "genAccess", "genRefresh",
           "redeem", "exists", "check", "handle", "handleUnchecked", "remove"}
Ends == {"logout", "change"}

\* The users have registered; nobody has logged in.
Init ==
  /\ users \in [UserIds -> UserRow]
  /\ \A i, j \in UserIds : users[i].account = users[j].account => i = j
  /\ creds \in [UserIds -> {[password |-> p, version |-> 0] : p \in Passwords}]
  /\ session = [s \in Sids |-> Null]
  /\ access = {} /\ refresh = {}
  /\ pc = [w \in Workers |-> "idle"]
  /\ req = [w \in Workers |-> Null]
  /\ snap = [w \in Workers |-> Null]
  /\ logins = {}
  /\ ended = [s \in Sids |-> {}]
  /\ saw = [w \in Workers |-> {}]
-----------------------------------------------------------------------------
Goto(w, label) == pc' = [pc EXCEPT ![w] = label]

\* The response is written, whatever it says.
Done(w) == /\ Goto(w, "idle")
           /\ req' = [req EXCEPT ![w] = Null]
           /\ snap' = [snap EXCEPT ![w] = Null]
           /\ saw' = [saw EXCEPT ![w] = {}]
Answer(w) == Done(w) /\ UNCHANGED <<tables, keys, logins, ended>>

Accept(w, r, label, s) == /\ pc[w] = "idle"
                          /\ req' = [req EXCEPT ![w] = r]
                          /\ snap' = [snap EXCEPT ![w] = s]
                          /\ saw' = [saw EXCEPT ![w] = ended[r.sid]]
                          /\ Goto(w, label)
                          /\ UNCHANGED <<tables, keys, logins, ended>>

\* sessions.Default(c) loads the session once per request, at its first use;
\* when Redis does not answer, the request goes on with an empty one.
Loaded(sid) == {session[sid], Null}

\* CheckSum: the token carries a salted hash of the session it was issued on.
ChecksumIgnored(bound, sid) == TRUE
CheckSum(bound, sid) == bound = sid
-----------------------------------------------------------------------------
(* Login.                                                                  *)

BeginLogin(w) == \E r \in LoginReq : Accept(w, r, "verify", Null)

\* The session to save, with the credential version the transaction read.
Verify(w) ==
  LET r == req[w] IN
  /\ pc[w] = "verify"
  /\ \/ Answer(w)
     \/ /\ Verifies(r.user, r.password)
        /\ snap' = [snap EXCEPT ![w] = [user |-> r.user, shown |-> r.password,
                                        version |-> creds[r.user].version]]
        /\ Goto(w, "saveSession")
        /\ UNCHANGED <<tables, keys, req, aux>>

\* sess.Save writes under the identifier of the cookie; an old session there
\* is replaced.
SaveSession(w) ==
  LET sid == req[w].sid IN
  /\ pc[w] = "saveSession"
  /\ \/ Answer(w)
     \/ /\ session' = [session EXCEPT ![sid] = snap[w]]
        /\ logins' = logins \cup {<<sid, snap[w].user>>}
        /\ ended' = [ended EXCEPT ![sid] = {}]
        /\ saw' = [v \in Workers |-> IF req[v] # Null /\ req[v].sid = sid
                                     THEN {} ELSE saw[v]]
        /\ Goto(w, "genAccess")
        /\ UNCHANGED <<tables, access, refresh, req, snap>>

\* GenerateToken for the user of the session, then GenerateRefreshToken; the
\* second half of Login and of RefreshToken.
GenAccess(w) ==
  /\ pc[w] = "genAccess"
  /\ \/ Answer(w)
     \/ /\ access' = access \cup {[sess |-> req[w].sid, user |-> snap[w].user]}
        /\ Goto(w, "genRefresh")
        /\ UNCHANGED <<tables, session, refresh, req, snap, aux>>

GenRefresh(w) ==
  /\ pc[w] = "genRefresh"
  /\ refresh' \in {refresh, refresh \cup {req[w].sid}}
  /\ Done(w)
  /\ UNCHANGED <<tables, session, access, logins, ended>>
-----------------------------------------------------------------------------
(* RefreshToken: RemoveRefreshToken, then new tokens for the session's user. *)

BeginRefresh(w) ==
  \E r \in RefreshReq : \E s \in Loaded(r.sid) :
    /\ r.bound \in refresh
    /\ CheckSum(r.bound, r.sid)
    /\ Accept(w, r, "redeem", s)

Redeem(w) ==
  /\ pc[w] = "redeem"
  /\ \/ Answer(w)
     \/ /\ req[w].bound \in refresh
        /\ snap[w] # Null
        /\ Goto(w, "genAccess")
        /\ UNCHANGED <<tables, keys, req, snap, aux>>
-----------------------------------------------------------------------------
(* The protected endpoints: ValidateMW, CredentialCheck, the handler.      *)

BeginProtected(w) ==
  \E r \in ProtectedReq : \E s \in Loaded(r.sid) :
    /\ r.token \in access
    /\ CheckSum(r.token.sess, r.sid)
    /\ Accept(w, r, "exists", s)

TokenExists(w) ==
  /\ pc[w] = "exists"
  /\ \/ Answer(w)
     \/ /\ req[w].token \in access
        /\ Goto(w, "check")
        /\ UNCHANGED <<tables, keys, req, snap, aux>>

\* The version in the session against the version in the table.
VersionIgnored(s) == TRUE
Current(s) == s.version = creds[s.user].version

CredentialCheck(w) ==
  /\ pc[w] = "check"
  /\ \/ snap[w] = Null /\ Answer(w)
     \/ snap[w] # Null /\ ~Current(snap[w]) /\ Answer(w)
     \/ /\ snap[w] # Null /\ Current(snap[w])
        /\ Goto(w, "handle")
        /\ UNCHANGED <<tables, keys, req, snap, aux>>

\* "For DB errors, we fail open (allow request) to avoid outage".
CredentialCheckFailsOpen(w) ==
  /\ pc[w] = "check"
  /\ snap[w] # Null
  /\ Goto(w, "handleUnchecked")
  /\ UNCHANGED <<tables, keys, req, snap, aux>>

Handling(w) == pc[w] \in {"handle", "handleUnchecked"}

\* GetUserInfo, and every handler whose transaction fails.
HandlerAnswers(w) == Handling(w) /\ Answer(w)

\* The handlers act on the user of the token, not of the session.
UpdateInfo(w) ==
  /\ Handling(w) /\ req[w].op = "updateInfo"
  /\ Rename(req[w].token.user, req[w].name)
  /\ Done(w)
  /\ UNCHANGED <<keys, logins, ended>>

UpdatePassword(w) ==
  /\ Handling(w) /\ req[w].op = "updatePassword"
  /\ ChangePassword(req[w].token.user, req[w].old, req[w].new)
  /\ ended' = [ended EXCEPT ![req[w].sid] = @ \cup {"change"}]
  /\ Done(w)
  /\ UNCHANGED <<keys, logins>>

\* Logout: RemoveToken and RemoveRefreshToken, their errors only logged, then
\* session.Remove, its error logged too: the answer is a success.
Logout(w) ==
  /\ Handling(w) /\ req[w].op = "logout"
  /\ Goto(w, "remove")
  /\ UNCHANGED <<tables, keys, req, snap, aux>>

SessionKept(sid) == session
Removed(sid) == [session EXCEPT ![sid] = Null]

RemoveSession(w) ==
  LET sid == req[w].sid IN
  /\ pc[w] = "remove"
  /\ \/ Answer(w)
     \/ /\ session' = Removed(sid)
        /\ ended' = [ended EXCEPT ![sid] = @ \cup {"logout"}]
        /\ Done(w)
        /\ UNCHANGED <<tables, access, refresh, logins>>
-----------------------------------------------------------------------------
(* Redis drops a key when its time to live is over.                        *)

ExpireAccess == \E t \in access :
                  /\ access' = access \ {t}
                  /\ UNCHANGED <<tables, session, refresh, pc, req, snap, aux>>
ExpireRefresh == \E s \in refresh :
                   /\ refresh' = refresh \ {s}
                   /\ UNCHANGED <<tables, session, access, pc, req, snap, aux>>
ExpireSession == \E s \in Sids :
                   /\ session[s] # Null
                   /\ session' = [session EXCEPT ![s] = Null]
                   /\ UNCHANGED <<tables, access, refresh, pc, req, snap, aux>>

Step(w) == \/ BeginLogin(w) \/ Verify(w) \/ SaveSession(w)
           \/ GenAccess(w) \/ GenRefresh(w)
           \/ BeginRefresh(w) \/ Redeem(w)
           \/ BeginProtected(w) \/ TokenExists(w)
           \/ CredentialCheck(w) \/ CredentialCheckFailsOpen(w)
           \/ HandlerAnswers(w) \/ UpdateInfo(w) \/ UpdatePassword(w)
           \/ Logout(w) \/ RemoveSession(w)

Next == (\E w \in Workers : Step(w)) \/ ExpireAccess \/ ExpireRefresh \/ ExpireSession

Spec == Init /\ [][Next]_vars
-----------------------------------------------------------------------------
(* Properties.                                                             *)

\* Every variable holds a value of its type.
TypeOK ==
  /\ TablesOK
  /\ session \in [Sids -> Session \cup {Null}]
  /\ access \subseteq Token
  /\ refresh \subseteq Sids
  /\ pc \in [Workers -> Labels]
  /\ req \in [Workers -> Request \cup {Null}]
  /\ snap \in [Workers -> Session \cup {Null}]
  /\ logins \subseteq Sids \X UserIds
  /\ ended \in [Sids -> SUBSET Ends]
  /\ saw \in [Workers -> SUBSET Ends]

\* A session whose version is current was opened with the password in force,
\* wherever it is: in Redis, loaded by a request, or about to be saved by a
\* login that verified the password before it was changed.
Proves(s) == creds[s.user].version = s.version =>
               creds[s.user].password = s.shown
SessionProvesPassword ==
  /\ \A s \in Sids : session[s] # Null => Proves(session[s])
  /\ \A w \in Workers : snap[w] # Null => Proves(snap[w])

\* The versions do what LoginSessions promises: a change of the password, in
\* whatever request and on whatever session it comes, makes every session of
\* the user outdated in the same step, and nothing makes one current again.
Seen(x) == IF x = Null THEN Null
           ELSE [user |-> x.user, shown |-> x.shown, valid |-> Current(x)]
passwords == [u \in UserIds |-> creds[u].password]
sess == [s \in Sids |-> Seen(session[s])]
Sessions == INSTANCE LoginSessions WITH password <- passwords
ImplementsSessions == Sessions!SessionsSpec

\* A handler acts for a user who has logged in on the session of the request,
\* also when tokens are refreshed while others log in and out on it.
ActsForLoggedInUser ==
  /\ \A t \in access : <<t.sess, t.user>> \in logins
  /\ \A w \in Workers :
       Handling(w) => <<req[w].sid, req[w].token.user>> \in logins

\* After a logout has removed the session, no request that comes later on it
\* is handled or given new tokens before someone logs in on it again.
LogoutEndsSession ==
  \A w \in Workers :
    Handling(w) \/ pc[w] = "genAccess" => "logout" \notin saw[w]

\* After a password is changed on a session, no request that comes later on it
\* passes the credential check before someone logs in on it again.
ChangeEndsSession ==
  \A w \in Workers : pc[w] = "handle" => "change" \notin saw[w]
=============================================================================

------------------------- MODULE AuthSessionProofs -------------------------
(***************************************************************************)
(* Proofs about AuthSession: what a session proves about its owner, for     *)
(* every number of users, sessions and concurrent requests.                *)
(***************************************************************************)
EXTENDS AuthSession, TLAPS

\* A request has the fields of its operation.
LEMMA RequestShape ==
  ASSUME NEW r \in Request
  PROVE  /\ r # Null /\ r.sid \in Sids
         /\ r.op \in {"login", "refresh", "info", "logout", "updateInfo",
                      "updatePassword"}
         /\ r.op = "login" => r.user \in UserIds /\ r.password \in Passwords
         /\ r.op \in {"info", "logout", "updateInfo", "updatePassword"} =>
              r.token \in Token
         /\ r.op = "updateInfo" => r.name \in Names
         /\ r.op = "updatePassword" => r.old \in Passwords /\ r.new \in Passwords
  BY SessionAssumption
  DEF Request, LoginReq, RefreshReq, ProtectedReq, InfoReq, UpdateInfoReq,
      UpdatePasswordReq

\* Which operation is at which call, and what it has loaded by then.
Staged(w) ==
  /\ pc[w] # "idle" => req[w] \in Request
  /\ pc[w] \in {"verify", "saveSession"} => req[w].op = "login"
  /\ pc[w] \in {"exists", "check", "handle", "handleUnchecked", "remove"} =>
       req[w].op \in {"info", "logout", "updateInfo", "updatePassword"}
  /\ pc[w] \in {"saveSession", "genAccess", "handle", "handleUnchecked"} =>
       snap[w] # Null
  /\ pc[w] \in {"idle", "verify"} => snap[w] = Null

Typed == /\ TypeOK
         /\ users \in [UserIds -> UserRow]
         /\ creds \in [UserIds -> CredRow]
         /\ \A w \in Workers : Staged(w)

LEMMA TypedInit == Init => Typed
  <1> SUFFICES ASSUME Init PROVE Typed
    OBVIOUS
  <1>1. users \in [UserIds -> UserRow] /\ creds \in [UserIds -> CredRow]
    BY StoreAssumption DEF Init, CredRow
  <1>2. QED BY <1>1 DEF Init, Typed, TypeOK, TablesOK, Labels, Staged

LEMMA TypedDone ==
  ASSUME Typed, NEW w \in Workers, Done(w)
  PROVE  /\ pc' \in [Workers -> Labels] /\ req' \in [Workers -> Request \cup {Null}]
         /\ snap' \in [Workers -> Session \cup {Null}]
         /\ saw' \in [Workers -> SUBSET Ends]
         /\ pc'[w] = "idle" /\ snap'[w] = Null /\ saw'[w] = {}
         /\ \A v \in Workers \ {w} : /\ pc'[v] = pc[v] /\ req'[v] = req[v]
                                     /\ snap'[v] = snap[v] /\ saw'[v] = saw[v]
         /\ \A v \in Workers : Staged(v)'
  BY DEF Typed, TypeOK, Done, Goto, Labels, Staged

LEMMA TypedAccept ==
  ASSUME Typed, NEW w \in Workers, NEW r \in Request, NEW label \in Labels,
         NEW s \in Session \cup {Null}, Accept(w, r, label, s),
         \/ label = "verify" /\ r.op = "login" /\ s = Null
         \/ label = "redeem" /\ r.op = "refresh"
         \/ label = "exists" /\ r.op \in {"info", "logout", "updateInfo", "updatePassword"}
  PROVE  Typed'
  <1> USE DEF Typed, Accept, Goto, tables, keys
  <1>1. r.sid \in Sids BY RequestShape
  <1>2. TypeOK' BY <1>1 DEF TypeOK, TablesOK
  <1>3. ASSUME NEW v \in Workers PROVE Staged(v)' BY DEF TypeOK, Staged
  <1>4. QED BY <1>2, <1>3

\* A step of w to the next call of its request, with the session it goes on with.
LEMMA TypedGoto ==
  ASSUME Typed, NEW w \in Workers, NEW label \in Labels, Goto(w, label),
         UNCHANGED <<tables, req>>,
         snap' \in [Workers -> Session \cup {Null}],
         \A v \in Workers \ {w} : snap'[v] = snap[v],
         session' \in [Sids -> Session \cup {Null}], access' \subseteq Token,
         refresh' \subseteq Sids, logins' \subseteq Sids \X UserIds,
         ended' \in [Sids -> SUBSET Ends], saw' \in [Workers -> SUBSET Ends],
         Staged(w)'
  PROVE  Typed'
  <1>1. TypeOK' BY DEF Typed, TypeOK, TablesOK, Goto, tables
  <1>2. ASSUME NEW v \in Workers, v # w PROVE Staged(v)'
    BY <1>2 DEF Typed, TypeOK, Staged, Goto
  <1>3. QED BY <1>1, <1>2 DEF Typed, tables

\* What the steps on the credentials of the token's user do to the tables.
LEMMA StoreStepTyped ==
  ASSUME users \in [UserIds -> UserRow], creds \in [UserIds -> CredRow],
         NEW id \in UserIds,
         \/ \E n \in Names : Rename(id, n)
         \/ \E old, new \in Passwords : ChangePassword(id, old, new)
  PROVE  users' \in [UserIds -> UserRow] /\ creds' \in [UserIds -> CredRow]
  <1>1. ASSUME NEW n \in Names, Rename(id, n)
        PROVE users' \in [UserIds -> UserRow] /\ creds' \in [UserIds -> CredRow]
    <2>1. [users[id] EXCEPT !.name = n] \in UserRow BY DEF UserRow
    <2>2. QED BY <1>1, <2>1 DEF Rename
  <1>2. ASSUME NEW old \in Passwords, NEW new \in Passwords, ChangePassword(id, old, new)
        PROVE users' \in [UserIds -> UserRow] /\ creds' \in [UserIds -> CredRow]
    <2>1. creds[id].version \in Nat /\ creds[id].version < MaxVersion
      BY <1>2 DEF ChangePassword, CredRow
    <2>2. [password |-> new, version |-> creds[id].version + 1] \in CredRow
      BY <2>1, StoreAssumption DEF CredRow
    <2>3. QED BY <1>2, <2>2 DEF ChangePassword
  <1>3. QED BY <1>1, <1>2

LEMMA TypedNext == Typed /\ [Next]_vars => Typed'
  <1> SUFFICES ASSUME Typed, [Next]_vars PROVE Typed'
    OBVIOUS
  <1>A. ASSUME NEW w \in Workers, Answer(w) PROVE Typed'
    BY <1>A, TypedDone DEF Answer, Typed, TypeOK, TablesOK, tables, keys
  <1>G. ASSUME NEW w \in Workers, NEW label \in Labels, Goto(w, label),
               UNCHANGED <<tables, keys, req, snap, aux>>, Staged(w)'
        PROVE Typed'
    BY <1>G, TypedGoto DEF Typed, TypeOK, keys, aux
  <1>1. ASSUME NEW w \in Workers, BeginLogin(w) PROVE Typed'
    BY <1>1, TypedAccept DEF BeginLogin, LoginReq, Request, Labels
  <1>2. ASSUME NEW w \in Workers, Verify(w) PROVE Typed'
    <2>1. CASE Answer(w) BY <1>A, <2>1
    <2>2. CASE ~Answer(w)
      <3>1. req[w] \in Request /\ req[w].op = "login" /\ req[w].user \in UserIds
            /\ req[w].password \in Passwords
        BY <1>2, RequestShape DEF Verify, Typed, Staged
      <3>2. [user |-> req[w].user, shown |-> req[w].password,
             version |-> creds[req[w].user].version] \in Session
        BY <3>1 DEF Typed, CredRow, Session
      <3>3. /\ Goto(w, "saveSession") /\ UNCHANGED <<tables, keys, req, aux>>
            /\ snap' = [snap EXCEPT ![w] =
                 [user |-> req[w].user, shown |-> req[w].password,
                  version |-> creds[req[w].user].version]]
        BY <1>2, <2>2 DEF Verify
      <3>4. Staged(w)'
        BY <3>1, <3>2, <3>3, SessionAssumption DEF Typed, TypeOK, Staged, Goto
      <3>5. snap' \in [Workers -> Session \cup {Null}]
        BY <3>2, <3>3 DEF Typed, TypeOK
      <3>6. QED
        BY <3>3, <3>4, <3>5, TypedGoto DEF Typed, TypeOK, Labels, keys, aux
    <2>3. QED BY <2>1, <2>2
  <1>3. ASSUME NEW w \in Workers, SaveSession(w) PROVE Typed'
    <2>1. CASE Answer(w) BY <1>A, <2>1
    <2>2. CASE ~Answer(w)
      <3>1. /\ req[w] \in Request /\ req[w].sid \in Sids /\ snap[w] \in Session
            /\ snap[w].user \in UserIds
        BY <1>3, RequestShape DEF SaveSession, Typed, TypeOK, Staged, Session
      <3>2. /\ Goto(w, "genAccess") /\ UNCHANGED <<tables, access, refresh, req, snap>>
            /\ session' = [session EXCEPT ![req[w].sid] = snap[w]]
            /\ logins' = logins \cup {<<req[w].sid, snap[w].user>>}
            /\ ended' = [ended EXCEPT ![req[w].sid] = {}]
            /\ saw' = [v \in Workers |-> IF req[v] # Null /\ req[v].sid = req[w].sid
                                         THEN {} ELSE saw[v]]
        BY <1>3, <2>2 DEF SaveSession
      <3>3. Staged(w)'
        BY <1>3, <3>1, <3>2, SessionAssumption
        DEF SaveSession, Typed, TypeOK, Staged, Goto
      <3>4. /\ session' \in [Sids -> Session \cup {Null}]
            /\ ended' \in [Sids -> SUBSET Ends] /\ saw' \in [Workers -> SUBSET Ends]
            /\ logins' \subseteq Sids \X UserIds
        BY <3>1, <3>2 DEF Typed, TypeOK
      <3>5. QED
        BY <3>2, <3>3, <3>4, TypedGoto DEF Typed, TypeOK, Labels
    <2>3. QED BY <2>1, <2>2
  <1>4. ASSUME NEW w \in Workers, GenAccess(w) PROVE Typed'
    <2>1. CASE Answer(w) BY <1>A, <2>1
    <2>2. CASE ~Answer(w)
      <3>1. req[w].sid \in Sids /\ snap[w] \in Session
        BY <1>4, RequestShape DEF GenAccess, Typed, TypeOK, Staged
      <3>2. [sess |-> req[w].sid, user |-> snap[w].user] \in Token
        BY <3>1 DEF Session, Token
      <3>3. Staged(w)'
        BY <1>4, <2>2 DEF GenAccess, Goto, Typed, TypeOK, Staged
      <3>4. QED
        BY <1>4, <2>2, <3>2, <3>3, TypedGoto
        DEF GenAccess, Typed, TypeOK, Labels, aux
    <2>3. QED BY <2>1, <2>2
  <1>5. ASSUME NEW w \in Workers, GenRefresh(w) PROVE Typed'
    <2>1. req[w].sid \in Sids
      BY <1>5, RequestShape DEF GenRefresh, Typed, Staged
    <2>2. QED
      BY <1>5, <2>1, TypedDone DEF GenRefresh, Typed, TypeOK, TablesOK, tables
  <1>6. ASSUME NEW w \in Workers, BeginRefresh(w) PROVE Typed'
    <2>0. PICK r \in RefreshReq : \E s \in Loaded(r.sid) : Accept(w, r, "redeem", s)
      BY <1>6 DEF BeginRefresh
    <2>1. PICK s \in Loaded(r.sid) : Accept(w, r, "redeem", s)
      BY <2>0
    <2>2. r \in Request /\ r.op = "refresh" BY DEF Request, RefreshReq
    <2>3. s \in Session \cup {Null}
      BY <2>2, RequestShape DEF Loaded, Typed, TypeOK
    <2>4. QED BY <2>1, <2>2, <2>3, TypedAccept DEF Labels
  <1>7. ASSUME NEW w \in Workers, Redeem(w) PROVE Typed'
    <2>1. CASE Answer(w) BY <1>A, <2>1
    <2>2. CASE ~Answer(w)
      BY <1>7, <2>2, <1>G DEF Redeem, Labels, Staged, Goto, Typed, TypeOK
    <2>3. QED BY <2>1, <2>2
  <1>8. ASSUME NEW w \in Workers, BeginProtected(w) PROVE Typed'
    <2>0. PICK r \in ProtectedReq : \E s \in Loaded(r.sid) : Accept(w, r, "exists", s)
      BY <1>8 DEF BeginProtected
    <2>1. PICK s \in Loaded(r.sid) : Accept(w, r, "exists", s)
      BY <2>0
    <2>2. /\ r \in Request
          /\ r.op \in {"info", "logout", "updateInfo", "updatePassword"}
      BY DEF Request, ProtectedReq, InfoReq, UpdateInfoReq, UpdatePasswordReq
    <2>3. s \in Session \cup {Null}
      BY <2>2, RequestShape DEF Loaded, Typed, TypeOK
    <2>4. QED BY <2>1, <2>2, <2>3, TypedAccept DEF Labels
  <1>9. ASSUME NEW w \in Workers, TokenExists(w) PROVE Typed'
    <2>1. CASE Answer(w) BY <1>A, <2>1
    <2>2. CASE ~Answer(w)
      BY <1>9, <2>2, <1>G DEF TokenExists, Labels, Staged, Goto, Typed, TypeOK
    <2>3. QED BY <2>1, <2>2
  <1>10. ASSUME NEW w \in Workers, CredentialCheck(w) PROVE Typed'
    <2>1. CASE Answer(w) BY <1>A, <2>1
    <2>2. CASE ~Answer(w)
      BY <1>10, <2>2, <1>G DEF CredentialCheck, Labels, Staged, Goto, Typed, TypeOK
    <2>3. QED BY <2>1, <2>2
  <1>11. ASSUME NEW w \in Workers, CredentialCheckFailsOpen(w) PROVE Typed'
    BY <1>11, <1>G DEF CredentialCheckFailsOpen, Labels, Staged, Goto, Typed, TypeOK
  <1>12. ASSUME NEW w \in Workers, HandlerAnswers(w) PROVE Typed'
    BY <1>12, <1>A DEF HandlerAnswers
  <1>13. ASSUME NEW w \in Workers, UpdateInfo(w) \/ UpdatePassword(w) PROVE Typed'
    <2>1. req[w] \in Request /\ req[w].op \in {"updateInfo", "updatePassword"}
      BY <1>13 DEF UpdateInfo, UpdatePassword, Handling, Typed, Staged
    <2>2. req[w].token.user \in UserIds /\ req[w].sid \in Sids
      BY <2>1, RequestShape DEF Token
    <2>3. users' \in [UserIds -> UserRow] /\ creds' \in [UserIds -> CredRow]
      BY <1>13, <2>1, <2>2, RequestShape, StoreStepTyped
      DEF UpdateInfo, UpdatePassword, Typed
    <2>4. ended' \in [Sids -> SUBSET Ends]
      BY <1>13, <2>2 DEF UpdateInfo, UpdatePassword, Typed, TypeOK, Ends
    <2>5. Done(w) /\ UNCHANGED <<keys, logins>>
      BY <1>13 DEF UpdateInfo, UpdatePassword
    <2>6. QED BY <2>3, <2>4, <2>5, TypedDone DEF Typed, TypeOK, TablesOK, keys
  <1>14. ASSUME NEW w \in Workers, Logout(w) PROVE Typed'
    BY <1>14, <1>G DEF Logout, Handling, Labels, Staged, Goto, Typed, TypeOK
  <1>15. ASSUME NEW w \in Workers, RemoveSession(w) PROVE Typed'
    <2>1. CASE Answer(w) BY <1>A, <2>1
    <2>2. CASE ~Answer(w)
      <3>1. req[w].sid \in Sids
        BY <1>15, RequestShape DEF RemoveSession, Typed, Staged
      <3>2. /\ session' \in [Sids -> Session \cup {Null}]
            /\ ended' \in [Sids -> SUBSET Ends]
        BY <1>15, <2>2, <3>1 DEF RemoveSession, Removed, Typed, TypeOK, Ends
      <3>3. Done(w) /\ UNCHANGED <<tables, access, refresh, logins>>
        BY <1>15, <2>2 DEF RemoveSession
      <3>4. QED BY <3>2, <3>3, TypedDone DEF Typed, TypeOK, TablesOK, tables
    <2>3. QED BY <2>1, <2>2
  <1>16. CASE ExpireAccess \/ ExpireRefresh \/ ExpireSession \/ UNCHANGED vars
    <2>1. /\ UNCHANGED <<tables, pc, req, snap, aux>>
          /\ session' \in [Sids -> Session \cup {Null}]
          /\ access' \subseteq Token /\ refresh' \subseteq Sids
      BY <1>16 DEF ExpireAccess, ExpireRefresh, ExpireSession, vars, aux, Typed, TypeOK
    <2>2. QED BY <2>1 DEF Typed, TypeOK, TablesOK, Staged, tables, aux
  <1>17. QED
    BY <1>1, <1>2, <1>3, <1>4, <1>5, <1>6, <1>7, <1>8, <1>9, <1>10, <1>11,
       <1>12, <1>13, <1>14, <1>15, <1>16 DEF Next, Step

\* Every variable keeps its type, and every user keeps a credential.
THEOREM TypeCorrect == Spec => []TypeOK
  <1>1. Typed => TypeOK BY DEF Typed
  <1>2. QED BY <1>1, TypedInit, TypedNext, PTL DEF Spec
-----------------------------------------------------------------------------
(* Sessions prove passwords.  Inductively, the version of a session is also *)
(* never ahead of its user's, so a version that is out of date stays so.    *)

Vouched(x) == x.version \leq creds[x.user].version /\ Proves(x)
Vouching == /\ \A s \in Sids : session[s] # Null => Vouched(session[s])
            /\ \A w \in Workers : snap[w] # Null => Vouched(snap[w])

\* A session in the next state is one of this state or has just been verified.
Known(x) == \/ x = Null
            \/ \E s \in Sids : session[s] = x
            \/ \E w \in Workers : snap[w] = x
Fresh(x) == x.version = creds[x.user].version /\ creds[x.user].password = x.shown

LEMMA SessionSources ==
  ASSUME Typed, [Next]_vars
  PROVE  /\ \A s \in Sids : Known(session'[s])
         /\ \A w \in Workers : Known(snap'[w]) \/ (Fresh(snap'[w]) /\ UNCHANGED creds)
  <1> DEFINE Goal == /\ \A s \in Sids : Known(session'[s])
                     /\ \A w \in Workers : Known(snap'[w]) \/ (Fresh(snap'[w]) /\ UNCHANGED creds)
  <1> USE DEF Known
  <1>D. ASSUME NEW w \in Workers, Done(w), \A s \in Sids : Known(session'[s])
        PROVE Goal
    BY <1>D DEF Done, Typed, TypeOK
  <1>A. ASSUME NEW w \in Workers, Answer(w) PROVE Goal
    BY <1>A, <1>D DEF Answer, keys
  <1>G. ASSUME UNCHANGED <<snap, session>> PROVE Goal
    BY <1>G
  <1>C. ASSUME NEW w \in Workers, NEW r \in Request, NEW label \in Labels,
               NEW x, Known(x), Accept(w, r, label, x)
        PROVE Goal
    BY <1>C DEF Accept, keys, Typed, TypeOK
  <1>1. ASSUME NEW w \in Workers, BeginLogin(w) PROVE Goal
    BY <1>1, <1>C DEF BeginLogin, Request, Labels
  <1>2. ASSUME NEW w \in Workers, BeginRefresh(w) \/ BeginProtected(w) PROVE Goal
    <2>1. PICK r \in RefreshReq \cup ProtectedReq, label \in {"redeem", "exists"} :
            \E x \in Loaded(r.sid) : Accept(w, r, label, x)
      BY <1>2 DEF BeginRefresh, BeginProtected
    <2>2. PICK x \in Loaded(r.sid) : Accept(w, r, label, x)
      BY <2>1
    <2>3. r \in Request BY DEF Request
    <2>4. Known(x) BY <2>3, RequestShape DEF Loaded
    <2>5. QED BY <1>C, <2>2, <2>3, <2>4 DEF Labels
  <1>3. ASSUME NEW w \in Workers, Verify(w) PROVE Goal
    <2>1. CASE Answer(w) BY <1>A, <2>1
    <2>2. CASE ~Answer(w)
      <3>1. /\ creds[req[w].user].password = req[w].password
            /\ UNCHANGED <<creds, session>>
            /\ snap' = [snap EXCEPT ![w] =
                 [user |-> req[w].user, shown |-> req[w].password,
                  version |-> creds[req[w].user].version]]
        BY <1>3, <2>2 DEF Verify, Verifies, tables, keys
      <3>2. Fresh(snap'[w]) BY <3>1 DEF Fresh, Typed, TypeOK
      <3>3. QED BY <3>1, <3>2 DEF Typed, TypeOK
    <2>3. QED BY <2>1, <2>2
  <1>4. ASSUME NEW w \in Workers, SaveSession(w) PROVE Goal
    <2>1. CASE Answer(w) BY <1>A, <2>1
    <2>2. CASE ~Answer(w) BY <1>4, <2>2 DEF SaveSession, Typed, TypeOK
    <2>3. QED BY <2>1, <2>2
  <1>5. ASSUME NEW w \in Workers, GenAccess(w) \/ Redeem(w) \/ TokenExists(w) \/ CredentialCheck(w)
        PROVE Goal
    BY <1>5, <1>A, <1>G DEF GenAccess, Redeem, TokenExists, CredentialCheck, keys
  <1>6. ASSUME NEW w \in Workers, CredentialCheckFailsOpen(w) \/ HandlerAnswers(w) \/ Logout(w)
        PROVE Goal
    BY <1>6, <1>A, <1>G DEF CredentialCheckFailsOpen, HandlerAnswers, Logout, keys
  <1>7. ASSUME NEW w \in Workers, GenRefresh(w) \/ UpdateInfo(w) \/ UpdatePassword(w)
        PROVE Goal
    BY <1>7, <1>D DEF GenRefresh, UpdateInfo, UpdatePassword, keys
  <1>8. ASSUME NEW w \in Workers, RemoveSession(w) PROVE Goal
    <2>1. CASE Answer(w) BY <1>A, <2>1
    <2>2. CASE ~Answer(w)
      <3>1. \A s \in Sids : session'[s] = Null \/ session'[s] = session[s]
        BY <1>8, <2>2 DEF RemoveSession, Removed, Typed, TypeOK
      <3>2. QED BY <1>8, <2>2, <3>1, <1>D DEF RemoveSession
    <2>3. QED BY <2>1, <2>2
  <1>9. CASE ExpireAccess \/ ExpireRefresh \/ UNCHANGED vars
    BY <1>9, <1>G DEF ExpireAccess, ExpireRefresh, vars
  <1>10. CASE ExpireSession
    BY <1>10 DEF ExpireSession, Typed, TypeOK
  <1>11. QED
    BY <1>1, <1>2, <1>3, <1>4, <1>5, <1>6, <1>7, <1>8, <1>9, <1>10 DEF Next, Step

\* The credentials change only by a change of password, which raises the version.
LEMMA VersionsGrow ==
  ASSUME Typed, [Next]_vars
  PROVE  \A id \in UserIds : \/ creds'[id] = creds[id]
                             \/ creds'[id].version > creds[id].version
  <1>1. CASE UNCHANGED creds BY <1>1
  <1>2. ASSUME NEW w \in Workers, UpdatePassword(w)
        PROVE \A id \in UserIds : \/ creds'[id] = creds[id]
                                  \/ creds'[id].version > creds[id].version
    <2>1. req[w] \in Request /\ req[w].op = "updatePassword"
      BY <1>2 DEF UpdatePassword, Handling, Typed, Staged
    <2>2. req[w].token.user \in UserIds BY <2>1, RequestShape DEF Token
    <2>3. creds[req[w].token.user].version \in Nat
      BY <2>2 DEF Typed, CredRow
    <2>4. creds' = [creds EXCEPT ![req[w].token.user] =
            [password |-> req[w].new, version |-> creds[req[w].token.user].version + 1]]
      BY <1>2 DEF UpdatePassword, ChangePassword
    <2>5. QED BY <2>2, <2>3, <2>4 DEF Typed
  <1>3. ASSUME NEW w \in Workers, Step(w), ~UpdatePassword(w) PROVE UNCHANGED creds
    BY <1>3
    DEF Step, BeginLogin, Verify, SaveSession, GenAccess, GenRefresh, BeginRefresh,
        Redeem, BeginProtected, TokenExists, CredentialCheck,
        CredentialCheckFailsOpen, HandlerAnswers, UpdateInfo, Logout,
        RemoveSession, Answer, Accept, Rename, tables
  <1>4. CASE ExpireAccess \/ ExpireRefresh \/ ExpireSession \/ UNCHANGED vars
    BY <1>4 DEF ExpireAccess, ExpireRefresh, ExpireSession, vars, tables
  <1>5. QED BY <1>1, <1>2, <1>3, <1>4 DEF Next

LEMMA VouchingNext == Typed /\ Vouching /\ [Next]_vars => Vouching'
  <1> SUFFICES ASSUME Typed, Vouching, [Next]_vars PROVE Vouching'
    OBVIOUS
  <1>1. ASSUME NEW x \in Session, Vouched(x) PROVE Vouched(x)'
    <2>1. x.user \in UserIds /\ x.version \in Nat BY DEF Session
    <2>2. creds[x.user] \in CredRow /\ creds'[x.user] \in CredRow
      BY <2>1, TypedNext DEF Typed
    <2>3. creds'[x.user].version \in Nat /\ creds[x.user].version \in Nat
      BY <2>2 DEF CredRow
    <2>4. CASE creds'[x.user] = creds[x.user]
      BY <1>1, <2>4 DEF Vouched, Proves
    <2>5. CASE creds'[x.user].version > creds[x.user].version
      BY <1>1, <2>1, <2>3, <2>5 DEF Vouched, Proves
    <2>6. QED BY <2>1, <2>4, <2>5, VersionsGrow
  <1>2. ASSUME NEW x, Known(x), x # Null PROVE x \in Session /\ Vouched(x)
    BY <1>2 DEF Known, Vouching, Typed, TypeOK
  <1>3. ASSUME NEW x \in Session, Fresh(x) PROVE Vouched(x)
    <2>1. x.user \in UserIds /\ x.version \in Nat BY DEF Session
    <2>2. QED BY <1>3, <2>1 DEF Fresh, Vouched, Proves
  <1>4. ASSUME NEW s \in Sids, session'[s] # Null PROVE Vouched(session[s])'
    <2>1. session'[s] \in Session /\ Vouched(session'[s])
      BY <1>2, <1>4, SessionSources
    <2>2. QED BY <1>1, <2>1 DEF Vouched, Proves
  <1>5. ASSUME NEW w \in Workers, snap'[w] # Null PROVE Vouched(snap[w])'
    <2>1. snap'[w] \in Session
      BY <1>5, TypedNext DEF Typed, TypeOK
    <2>2. Vouched(snap'[w]) BY <1>2, <1>3, <1>5, <2>1, SessionSources
    <2>3. QED BY <1>1, <2>1, <2>2 DEF Vouched, Proves
  <1>6. QED BY <1>4, <1>5 DEF Vouching

\* Wherever a session is held, if its version is current then its owner has
\* shown the password that is in force.
THEOREM SessionsProvePasswords == Spec => []SessionProvesPassword
  <1>1. Init => Vouching BY DEF Init, Vouching
  <1>2. Vouching => SessionProvesPassword
    BY DEF Vouching, Vouched, SessionProvesPassword
  <1>3. QED
    BY <1>1, <1>2, TypedInit, TypedNext, VouchingNext, PTL DEF Spec
-----------------------------------------------------------------------------
(* The versions implement LoginSessions.  A step on the sessions or the      *)
(* credentials saves a session, removes one, or changes a password; by       *)
(* Vouching no session is ahead of the version a change leaves behind.       *)

Opens(w) == /\ w \in Workers /\ pc[w] = "saveSession"
            /\ session' = [session EXCEPT ![req[w].sid] = snap[w]]
Closes(s) == s \in Sids /\ session' = [session EXCEPT ![s] = Null]

LEMMA SessionSteps ==
  ASSUME Typed, [Next]_vars
  PROVE  \/ UNCHANGED <<creds, session>>
         \/ UNCHANGED creds /\ \E w \in Workers : Opens(w)
         \/ UNCHANGED creds /\ \E s \in Sids : Closes(s)
         \/ \E w \in Workers : UpdatePassword(w)
  <1>1. ASSUME NEW w \in Workers, SaveSession(w)
        PROVE  UNCHANGED <<creds, session>> \/ (UNCHANGED creds /\ Opens(w))
    BY <1>1 DEF SaveSession, Answer, Opens, tables, keys
  <1>2. ASSUME NEW w \in Workers, RemoveSession(w)
        PROVE  \/ UNCHANGED <<creds, session>>
               \/ UNCHANGED creds /\ \E s \in Sids : Closes(s)
    <2>1. req[w].sid \in Sids
      BY <1>2, RequestShape DEF RemoveSession, Typed, Staged
    <2>2. QED BY <1>2, <2>1 DEF RemoveSession, Removed, Answer, Closes, tables, keys
  <1>3. ASSUME ExpireSession
        PROVE  UNCHANGED creds /\ \E s \in Sids : Closes(s)
    BY <1>3 DEF ExpireSession, Closes, tables
  <1>4. ASSUME NEW w \in Workers, Step(w),
               ~SaveSession(w), ~RemoveSession(w), ~UpdatePassword(w)
        PROVE  UNCHANGED <<creds, session>>
    BY <1>4
    DEF Step, BeginLogin, Verify, GenAccess, GenRefresh, BeginRefresh, Redeem,
        BeginProtected, TokenExists, CredentialCheck, CredentialCheckFailsOpen,
        HandlerAnswers, UpdateInfo, Logout, Answer, Accept, Rename, tables, keys
  <1>5. CASE ExpireAccess \/ ExpireRefresh \/ UNCHANGED vars
    BY <1>5 DEF ExpireAccess, ExpireRefresh, vars, tables, keys
  <1>6. QED BY <1>1, <1>2, <1>3, <1>4, <1>5 DEF Next

LEMMA OpensASession ==
  ASSUME Typed, Vouching, NEW w \in Workers, Opens(w), UNCHANGED creds
  PROVE  \E s \in Sids : Sessions!Open(s)
  <1>1. req[w].sid \in Sids /\ snap[w] \in Session /\ Vouched(snap[w])
    BY RequestShape DEF Opens, Typed, TypeOK, Staged, Vouching
  <1>2. snap[w].user \in UserIds /\ snap[w].shown \in Passwords /\ snap[w] # Null
    BY <1>1, SessionAssumption DEF Session
  <1> DEFINE o == Seen(snap[w])
  <1>3. o \in Sessions!OpenSession
    BY <1>2 DEF Seen, Sessions!OpenSession, Current
  <1>4. o.valid => o.shown = passwords[o.user]
    BY <1>1, <1>2 DEF Seen, Current, Vouched, Proves, passwords
  <1>5. sess' = [sess EXCEPT ![req[w].sid] = o]
    BY <1>1, <1>2 DEF Opens, sess, Seen, Current, Typed, TypeOK
  <1>6. UNCHANGED passwords BY DEF passwords
  <1>7. QED BY <1>1, <1>3, <1>4, <1>5, <1>6 DEF Sessions!Open

LEMMA ClosesASession ==
  ASSUME Typed, NEW s \in Sids, Closes(s), UNCHANGED creds
  PROVE  Sessions!Close(s)
  <1>1. sess' = [sess EXCEPT ![s] = Null]
    BY DEF Closes, sess, Seen, Current, Typed, TypeOK
  <1>2. QED BY <1>1 DEF Sessions!Close, passwords

LEMMA ChangesAPassword ==
  ASSUME Typed, Vouching, NEW w \in Workers, UpdatePassword(w)
  PROVE  \E u \in UserIds : Sessions!Change(u)
  <1> DEFINE u == req[w].token.user
             p == req[w].new
  <1>1. req[w] \in Request /\ req[w].op = "updatePassword"
    BY DEF UpdatePassword, Handling, Typed, Staged
  <1>2. u \in UserIds /\ p \in Passwords BY <1>1, RequestShape DEF Token
  <1>3. /\ creds' = [creds EXCEPT ![u] = [password |-> p, version |-> creds[u].version + 1]]
        /\ UNCHANGED session
    BY DEF UpdatePassword, ChangePassword, keys
  <1>4. passwords' = [passwords EXCEPT ![u] = p]
    BY <1>2, <1>3 DEF passwords, Typed
  <1>5. ASSUME NEW s \in Sids
        PROVE  sess'[s] = IF sess[s] # Null /\ sess[s].user = u
                          THEN Sessions!Outdated(sess[s]) ELSE sess[s]
    <2>1. CASE session[s] = Null
      BY <1>3, <2>1 DEF sess, Seen
    <2>2. CASE session[s] # Null
      <3>1. session[s] \in Session /\ Vouched(session[s])
        BY <2>2 DEF Typed, TypeOK, Vouching
      <3>2. /\ session[s].user \in UserIds /\ session[s].shown \in Passwords
            /\ session[s].version \in Nat
            /\ session[s].version \leq creds[session[s].user].version
        BY <3>1 DEF Session, Vouched
      <3>3. /\ sess[s] = [user |-> session[s].user, shown |-> session[s].shown,
                          valid |-> Current(session[s])]
            /\ sess'[s] = [user |-> session[s].user, shown |-> session[s].shown,
                           valid |-> Current(session[s])']
            /\ sess[s] \in [user : UserIds, shown : Passwords, valid : BOOLEAN]
        BY <2>2, <3>2, <1>3 DEF sess, Seen, Current
      <3>4. CASE session[s].user = u
        <4>1. creds[u].version \in Nat /\ creds'[u].version = creds[u].version + 1
          BY <1>2, <1>3 DEF Typed, CredRow
        <4>2. Current(session[s])' = FALSE
          BY <1>3, <3>2, <3>4, <4>1 DEF Current
        <4>3. sess'[s] = [user |-> session[s].user, shown |-> session[s].shown, valid |-> FALSE]
          BY <3>3, <4>2
        <4>4. Sessions!Outdated(sess[s])
                = [user |-> session[s].user, shown |-> session[s].shown, valid |-> FALSE]
          BY <3>3 DEF Sessions!Outdated
        <4>5. sess[s] # Null /\ sess[s].user = u
          BY <3>3, <3>4, SessionAssumption
        <4>6. QED BY <4>3, <4>4, <4>5, Zenon
      <3>5. CASE session[s].user # u
        <4>1. creds'[session[s].user] = creds[session[s].user]
          BY <1>2, <1>3, <3>2, <3>5 DEF Typed
        <4>2. Current(session[s])' = Current(session[s])
          BY <1>3, <4>1 DEF Current
        <4>3. QED BY <3>3, <3>5, <4>2
      <3>6. QED BY <3>4, <3>5
    <2>3. QED BY <2>1, <2>2
  <1>6. QED BY <1>2, <1>4, <1>5 DEF Sessions!Change, sess

\* Whatever the number of users, sessions and requests, a change of password
\* makes all sessions of the user outdated at once and for good.
THEOREM SessionsImplemented == Spec => ImplementsSessions
  <1>1. Init => Sessions!SessionsInit
    BY DEF Init, Sessions!SessionsInit, passwords, sess, Seen
  <1>2. Typed /\ Vouching /\ [Next]_vars => [Sessions!SessionsNext]_<<passwords, sess>>
    <2> SUFFICES ASSUME Typed, Vouching, [Next]_vars
                 PROVE  [Sessions!SessionsNext]_<<passwords, sess>>
      OBVIOUS
    <2>1. CASE UNCHANGED <<creds, session>>
      BY <2>1 DEF passwords, sess, Seen, Current
    <2>2. CASE UNCHANGED creds /\ \E w \in Workers : Opens(w)
      BY <2>2, OpensASession DEF Sessions!SessionsNext
    <2>3. CASE UNCHANGED creds /\ \E s \in Sids : Closes(s)
      BY <2>3, ClosesASession DEF Sessions!SessionsNext
    <2>4. CASE \E w \in Workers : UpdatePassword(w)
      BY <2>4, ChangesAPassword DEF Sessions!SessionsNext
    <2>5. QED BY <2>1, <2>2, <2>3, <2>4, SessionSteps
  <1>3. Init => Vouching BY DEF Init, Vouching
  <1>4. QED
    BY <1>1, <1>2, <1>3, TypedInit, TypedNext, VouchingNext, PTL
    DEF Spec, ImplementsSessions, Sessions!SessionsSpec
-----------------------------------------------------------------------------
(* Logins and logouts.  Inductively: a stored session, and one that a       *)
(* request has loaded, was opened by a login on its identifier, and a       *)
(* request that came after the logout has loaded none.                      *)

SessionTraced(s) ==
  session[s] # Null => <<s, session[s].user>> \in logins /\ "logout" \notin ended[s]
RequestTraced(w) ==
  /\ pc[w] \notin {"idle", "verify", "saveSession"} /\ snap[w] # Null =>
       <<req[w].sid, snap[w].user>> \in logins /\ "logout" \notin saw[w]
  /\ pc[w] \in {"exists", "check", "handle", "handleUnchecked"} =>
       <<req[w].sid, req[w].token.user>> \in logins
Tracing == /\ \A s \in Sids : SessionTraced(s)
           /\ \A t \in access : <<t.sess, t.user>> \in logins
           /\ \A w \in Workers : RequestTraced(w)

\* What a step that saves no session does to one.
SessionKeptOrGone(s) ==
  \/ session'[s] = Null
  \/ /\ session'[s] = session[s]
     /\ "logout" \in ended'[s] => "logout" \in ended[s]

\* The invariant survives a step of w that adds no session, token or login and
\* after which it holds of w.
LEMMA TracingStep ==
  ASSUME Typed, Tracing, NEW w \in Workers,
         \A s \in Sids : SessionKeptOrGone(s),
         \A t \in access' : <<t.sess, t.user>> \in logins, UNCHANGED logins,
         \A v \in Workers \ {w} : /\ pc'[v] = pc[v] /\ req'[v] = req[v]
                                  /\ snap'[v] = snap[v] /\ saw'[v] = saw[v],
         RequestTraced(w)'
  PROVE  Tracing'
  <1>1. ASSUME NEW s \in Sids PROVE SessionTraced(s)'
    BY DEF Tracing, SessionTraced, SessionKeptOrGone
  <1>2. ASSUME NEW v \in Workers PROVE RequestTraced(v)'
    BY DEF Tracing, RequestTraced
  <1>3. QED BY <1>1, <1>2 DEF Tracing

LEMMA TracingNext == Typed /\ Tracing /\ [Next]_vars => Tracing'
  <1> SUFFICES ASSUME Typed, Tracing, [Next]_vars PROVE Tracing'
    OBVIOUS
  <1>D. ASSUME NEW w \in Workers, Done(w), UNCHANGED <<access, logins>>,
               \A s \in Sids : SessionKeptOrGone(s)
        PROVE Tracing'
    <2>1. RequestTraced(w)' BY <1>D, TypedDone DEF RequestTraced
    <2>2. QED BY <1>D, <2>1, TypedDone, TracingStep DEF Tracing
  <1>A. ASSUME NEW w \in Workers, Answer(w) PROVE Tracing'
    BY <1>A, <1>D DEF Answer, keys, SessionKeptOrGone
  <1>C. ASSUME NEW w \in Workers, NEW r \in Request, NEW label \in Labels,
               NEW x, Accept(w, r, label, x),
               \/ label = "verify"
               \/ label \in {"redeem", "exists"} /\ x \in Loaded(r.sid),
               label = "exists" => <<r.sid, r.token.user>> \in logins
        PROVE Tracing'
    <2>1. r.sid \in Sids BY RequestShape
    <2>2. x # Null /\ label # "verify" =>
            <<r.sid, x.user>> \in logins /\ "logout" \notin ended[r.sid]
      BY <1>C, <2>1 DEF Loaded, Tracing, SessionTraced
    <2>3. /\ pc'[w] = label /\ req'[w] = r /\ snap'[w] = x /\ saw'[w] = ended[r.sid]
          /\ UNCHANGED <<session, access, logins, ended>>
      BY <1>C DEF Accept, Goto, Typed, TypeOK, keys
    <2>4. RequestTraced(w)' BY <1>C, <2>2, <2>3 DEF RequestTraced
    <2>5. QED
      BY <1>C, <2>3, <2>4, TracingStep
      DEF Accept, Goto, Typed, TypeOK, Tracing, SessionKeptOrGone
  \* From one call of a request to the next, nothing but pc changing.
  <1>G. ASSUME NEW w \in Workers, NEW label \in Labels, Goto(w, label),
               UNCHANGED <<keys, req, snap, aux>>,
               pc[w] \notin {"idle", "verify", "saveSession"},
               label \in {"check", "handle", "handleUnchecked"} =>
                 pc[w] \in {"exists", "check"},
               label # "exists"
        PROVE Tracing'
    <2>1. pc'[w] = label BY <1>G DEF Goto, Typed, TypeOK
    <2>2. RequestTraced(w)'
      BY <1>G, <2>1 DEF RequestTraced, Tracing, keys, aux
    <2>3. QED
      BY <1>G, <2>2, TracingStep
      DEF Goto, Typed, TypeOK, Tracing, keys, aux, SessionKeptOrGone
  <1>1. ASSUME NEW w \in Workers, BeginLogin(w) PROVE Tracing'
    BY <1>1, <1>C DEF BeginLogin, Request, Labels
  <1>2. ASSUME NEW w \in Workers, BeginRefresh(w) PROVE Tracing'
    <2>1. PICK r \in RefreshReq : \E x \in Loaded(r.sid) : Accept(w, r, "redeem", x)
      BY <1>2 DEF BeginRefresh
    <2>2. QED BY <2>1, <1>C DEF Request, Labels
  <1>3. ASSUME NEW w \in Workers, BeginProtected(w) PROVE Tracing'
    <2>1. PICK r \in ProtectedReq :
            /\ r.token \in access /\ r.token.sess = r.sid
            /\ \E x \in Loaded(r.sid) : Accept(w, r, "exists", x)
      BY <1>3 DEF BeginProtected, CheckSum
    <2>2. <<r.sid, r.token.user>> \in logins BY <2>1 DEF Tracing
    <2>3. QED BY <2>1, <2>2, <1>C DEF Request, Labels
  <1>4. ASSUME NEW w \in Workers, Verify(w) PROVE Tracing'
    <2>1. CASE Answer(w) BY <1>A, <2>1
    <2>2. CASE ~Answer(w)
      <3>1. /\ Goto(w, "saveSession") /\ UNCHANGED <<keys, req, aux>>
            /\ \A v \in Workers \ {w} : snap'[v] = snap[v]
        BY <1>4, <2>2 DEF Verify, Typed, TypeOK
      <3>2. RequestTraced(w)' BY <3>1 DEF RequestTraced, Goto, Typed, TypeOK
      <3>3. QED
        BY <3>1, <3>2, TracingStep
      DEF Goto, Typed, TypeOK, Tracing, keys, aux, SessionKeptOrGone
    <2>3. QED BY <2>1, <2>2
  <1>5. ASSUME NEW w \in Workers, SaveSession(w) PROVE Tracing'
    <2>1. CASE Answer(w) BY <1>A, <2>1
    <2>2. CASE ~Answer(w)
      <3>1. req[w] \in Request /\ req[w].sid \in Sids /\ req[w] # Null
        BY <1>5, RequestShape DEF SaveSession, Typed, Staged
      <3>2. /\ pc[w] = "saveSession" /\ pc' = [pc EXCEPT ![w] = "genAccess"]
            /\ UNCHANGED <<access, req, snap>>
            /\ session' = [session EXCEPT ![req[w].sid] = snap[w]]
            /\ logins' = logins \cup {<<req[w].sid, snap[w].user>>}
            /\ ended' = [ended EXCEPT ![req[w].sid] = {}]
            /\ saw' = [v \in Workers |-> IF req[v] # Null /\ req[v].sid = req[w].sid
                                         THEN {} ELSE saw[v]]
        BY <1>5, <2>2 DEF SaveSession, Goto
      <3>3. ASSUME NEW s \in Sids PROVE SessionTraced(s)'
        BY <3>1, <3>2 DEF Tracing, SessionTraced, Typed, TypeOK
      <3>4. RequestTraced(w)'
        BY <3>1, <3>2 DEF RequestTraced, Typed, TypeOK
      <3>5. ASSUME NEW v \in Workers, v # w PROVE RequestTraced(v)'
        BY <3>2, <3>5 DEF Tracing, RequestTraced, Typed, TypeOK
      <3>6. QED BY <3>2, <3>3, <3>4, <3>5 DEF Tracing
    <2>3. QED BY <2>1, <2>2
  <1>6. ASSUME NEW w \in Workers, GenAccess(w) PROVE Tracing'
    <2>1. CASE Answer(w) BY <1>A, <2>1
    <2>2. CASE ~Answer(w)
      <3>1. /\ pc[w] = "genAccess" /\ pc' = [pc EXCEPT ![w] = "genRefresh"]
            /\ access' = access \cup {[sess |-> req[w].sid, user |-> snap[w].user]}
            /\ UNCHANGED <<session, req, snap, aux>>
        BY <1>6, <2>2 DEF GenAccess, Goto
      <3>2. <<req[w].sid, snap[w].user>> \in logins
        BY <3>1 DEF Typed, Staged, Tracing, RequestTraced
      <3>3. RequestTraced(w)'
        BY <3>1 DEF Typed, TypeOK, Tracing, RequestTraced, aux
      <3>4. QED
        BY <3>1, <3>2, <3>3, TracingStep
        DEF Typed, TypeOK, Tracing, aux, SessionKeptOrGone
    <2>3. QED BY <2>1, <2>2
  <1>7. ASSUME NEW w \in Workers, Redeem(w) \/ TokenExists(w) \/ CredentialCheck(w)
        PROVE Tracing'
    BY <1>7, <1>A, <1>G DEF Redeem, TokenExists, CredentialCheck, Labels
  <1>8. ASSUME NEW w \in Workers, CredentialCheckFailsOpen(w) \/ Logout(w)
        PROVE Tracing'
    BY <1>8, <1>G DEF CredentialCheckFailsOpen, Logout, Handling, Labels
  <1>9. ASSUME NEW w \in Workers,
               HandlerAnswers(w) \/ GenRefresh(w) \/ UpdateInfo(w)
        PROVE Tracing'
    BY <1>9, <1>A, <1>D
    DEF HandlerAnswers, GenRefresh, UpdateInfo, keys, SessionKeptOrGone
  <1>10. ASSUME NEW w \in Workers, UpdatePassword(w) PROVE Tracing'
    <2>1. \A s \in Sids : SessionKeptOrGone(s)
      BY <1>10 DEF UpdatePassword, SessionKeptOrGone, Typed, TypeOK, keys
    <2>2. QED BY <1>10, <2>1, <1>D DEF UpdatePassword, keys
  <1>11. ASSUME NEW w \in Workers, RemoveSession(w) PROVE Tracing'
    <2>1. CASE Answer(w) BY <1>A, <2>1
    <2>2. CASE ~Answer(w)
      <3>1. \A s \in Sids : SessionKeptOrGone(s)
        BY <1>11, <2>2
        DEF RemoveSession, Removed, SessionKeptOrGone, Typed, TypeOK
      <3>2. QED BY <1>11, <2>2, <3>1, <1>D DEF RemoveSession
    <2>3. QED BY <2>1, <2>2
  <1>12. CASE ExpireAccess \/ ExpireRefresh \/ ExpireSession \/ UNCHANGED vars
    <2>1. /\ UNCHANGED <<pc, req, snap, aux>> /\ access' \subseteq access
          /\ \A s \in Sids : session'[s] = Null \/ session'[s] = session[s]
      BY <1>12
      DEF ExpireAccess, ExpireRefresh, ExpireSession, vars, aux, Typed, TypeOK
    <2>2. QED BY <2>1 DEF Tracing, SessionTraced, RequestTraced, aux
  <1>13. QED
    BY <1>1, <1>2, <1>3, <1>4, <1>5, <1>6, <1>7, <1>8, <1>9, <1>10, <1>11, <1>12
    DEF Next, Step

LEMMA TracingInvariant == Spec => [](Typed /\ Tracing)
  <1>1. Init => Tracing
    BY DEF Init, Tracing, SessionTraced, RequestTraced
  <1>2. QED BY <1>1, TypedInit, TypedNext, TracingNext, PTL DEF Spec

\* A handler acts only for a user who has logged in on the request's session.
THEOREM HandlersActForLoggedInUsers == Spec => []ActsForLoggedInUser
  <1>1. Tracing => ActsForLoggedInUser
    BY DEF Tracing, RequestTraced, ActsForLoggedInUser, Handling
  <1>2. QED BY <1>1, TracingInvariant, PTL

\* No request that comes after a logout uses the session before a new login.
THEOREM LogoutsEndSessions == Spec => []LogoutEndsSession
  <1>1. Typed /\ Tracing => LogoutEndsSession
    BY DEF Typed, Staged, Tracing, RequestTraced, LogoutEndsSession, Handling
  <1>2. QED BY <1>1, TracingInvariant, PTL
-----------------------------------------------------------------------------
(* Changes of a password. A request acts on the user of its token, and the  *)
(* check looks at the user of its session; where one cookie is used by one   *)
(* user they are the same, and a change ends the session.                   *)

OneUserPerCookie ==
  \A s \in Sids : \A u, v \in UserIds : <<s, u>> \in logins /\ <<s, v>> \in logins => u = v

\* Inductively, the version of a session on which a password has been changed
\* is behind, in Redis and wherever a request that came later has loaded it.
Stale(x) == x.version < creds[x.user].version
SessionEnds(s) == session[s] # Null /\ "change" \in ended[s] => Stale(session[s])
RequestEnds(w) ==
  /\ pc[w] \notin {"idle", "verify", "saveSession"} /\ snap[w] # Null =>
       ("change" \in saw[w] => Stale(snap[w]))
  /\ pc[w] = "handle" => "change" \notin saw[w]
Ending == /\ \A s \in Sids : SessionEnds(s)
          /\ \A w \in Workers : RequestEnds(w)

\* What a step that saves no session and changes no password does to one.
EndKeptOrGone(s) ==
  \/ session'[s] = Null
  \/ /\ session'[s] = session[s]
     /\ "change" \in ended'[s] => "change" \in ended[s]

\* The invariant survives a step of w that saves no session and changes no
\* password, and after which it holds of w.
LEMMA EndingStep ==
  ASSUME Typed, Ending, NEW w \in Workers, UNCHANGED creds,
         \A s \in Sids : EndKeptOrGone(s),
         \A v \in Workers \ {w} : /\ pc'[v] = pc[v] /\ req'[v] = req[v]
                                  /\ snap'[v] = snap[v] /\ saw'[v] = saw[v],
         RequestEnds(w)'
  PROVE  Ending'
  <1>1. ASSUME NEW s \in Sids PROVE SessionEnds(s)'
    BY DEF Ending, SessionEnds, EndKeptOrGone, Stale
  <1>2. ASSUME NEW v \in Workers PROVE RequestEnds(v)'
    BY DEF Ending, RequestEnds, Stale
  <1>3. QED BY <1>1, <1>2 DEF Ending

\* The user whose password is changed on a session is the user of the session.
LEMMA ChangeIsOfSession ==
  ASSUME Typed, Tracing, OneUserPerCookie, NEW w \in Workers, UpdatePassword(w)
  PROVE  LET u == req[w].token.user IN
         /\ u \in UserIds /\ req[w].sid \in Sids
         /\ session[req[w].sid] # Null => session[req[w].sid].user = u
  <1>1. req[w] \in Request /\ req[w].op = "updatePassword"
    BY DEF UpdatePassword, Handling, Typed, Staged
  <1>2. req[w].token.user \in UserIds /\ req[w].sid \in Sids
    BY <1>1, RequestShape DEF Token
  <1>3. <<req[w].sid, req[w].token.user>> \in logins
    BY DEF Tracing, RequestTraced, UpdatePassword, Handling
  <1>4. ASSUME session[req[w].sid] # Null
        PROVE  session[req[w].sid].user = req[w].token.user
    <2>1. session[req[w].sid] \in Session BY <1>2, <1>4 DEF Typed, TypeOK
    <2>2. session[req[w].sid].user \in UserIds BY <2>1 DEF Session
    <2>3. <<req[w].sid, session[req[w].sid].user>> \in logins
      BY <1>2, <1>4 DEF Tracing, SessionTraced
    <2>4. QED BY <1>2, <1>3, <2>2, <2>3 DEF OneUserPerCookie
  <1>5. QED BY <1>2, <1>4

\* It leaves the version of a stale session behind, and makes the session of
\* the request, which was not ahead, stale.
LEMMA ChangeEnds ==
  ASSUME Typed, Vouching, Tracing, Ending, OneUserPerCookie, NEW w \in Workers,
         UpdatePassword(w)
  PROVE  Ending'
  <1> DEFINE u == req[w].token.user
             sid == req[w].sid
  <1>1. u \in UserIds /\ sid \in Sids /\ (session[sid] # Null => session[sid].user = u)
    BY ChangeIsOfSession
  <1>2. /\ creds' = [creds EXCEPT ![u] = [password |-> req[w].new,
                                          version |-> creds[u].version + 1]]
        /\ UNCHANGED session /\ Done(w)
        /\ ended' = [ended EXCEPT ![sid] = @ \cup {"change"}]
    BY DEF UpdatePassword, ChangePassword, keys
  <1>3. /\ \A v \in UserIds : creds[v].version \in Nat
        /\ \A v \in UserIds : creds'[v].version =
                                IF v = u THEN creds[v].version + 1 ELSE creds[v].version
    BY <1>1, <1>2 DEF Typed, CredRow
  <1> HIDE DEF u, sid
  <1>4. ASSUME NEW x \in Session, x.version < creds[x.user].version
        PROVE  x.version < creds'[x.user].version
    <2>1. x.user \in UserIds /\ x.version \in Nat BY StoreAssumption DEF Session
    <2>2. QED BY <1>3, <1>4, <2>1
  <1>5. ASSUME NEW s \in Sids PROVE SessionEnds(s)'
    <2>1. SUFFICES ASSUME session[s] # Null, "change" \in ended'[s]
                   PROVE  session[s].version < creds'[session[s].user].version
      BY <1>2 DEF SessionEnds, Stale
    <2>2. session[s] \in Session BY <2>1 DEF Typed, TypeOK
    <2>3. CASE s = sid
      <3>1. session[s].user = u /\ session[s].version \in Nat
        BY <1>1, <2>1, <2>2, <2>3, StoreAssumption DEF Session
      <3>2. session[s].version <= creds[u].version
        BY <2>1, <3>1 DEF Vouching, Vouched
      <3>3. QED BY <1>1, <1>3, <3>1, <3>2
    <2>4. CASE s # sid
      <3>1. "change" \in ended[s] BY <1>1, <1>2, <2>1, <2>4 DEF Typed, TypeOK
      <3>2. session[s].version < creds[session[s].user].version
        BY <2>1, <3>1 DEF Ending, SessionEnds, Stale
      <3>3. QED BY <1>4, <2>2, <3>2
    <2>5. QED BY <2>3, <2>4
  <1>6. ASSUME NEW v \in Workers PROVE RequestEnds(v)'
    <2>1. CASE v = w
      <3>1. pc'[v] = "idle" BY <1>2, <2>1, TypedDone
      <3>2. QED BY <3>1 DEF RequestEnds
    <2>2. CASE v # w
      <3>1. /\ pc'[v] = pc[v] /\ snap'[v] = snap[v] /\ saw'[v] = saw[v]
        BY <1>2, <2>2, TypedDone
      <3>2. /\ pc[v] \notin {"idle", "verify", "saveSession"} /\ snap[v] # Null =>
                 ("change" \in saw[v] => snap[v].version < creds[snap[v].user].version)
            /\ pc[v] = "handle" => "change" \notin saw[v]
        BY DEF Ending, RequestEnds, Stale
      <3>3. snap[v] # Null => snap[v] \in Session BY DEF Typed, TypeOK
      <3>4. /\ pc[v] \notin {"idle", "verify", "saveSession"} /\ snap[v] # Null =>
                 ("change" \in saw[v] => snap[v].version < creds'[snap[v].user].version)
        BY <1>4, <3>2, <3>3
      <3>5. QED BY <3>1, <3>2, <3>4 DEF RequestEnds, Stale
    <2>3. QED BY <2>1, <2>2
  <1>7. QED BY <1>5, <1>6 DEF Ending

LEMMA EndingNext ==
  Typed /\ Vouching /\ Tracing /\ Ending /\ OneUserPerCookie /\ [Next]_vars => Ending'
  <1> SUFFICES ASSUME Typed, Vouching, Tracing, Ending, OneUserPerCookie, [Next]_vars
               PROVE  Ending'
    OBVIOUS
  <1>D. ASSUME NEW w \in Workers, Done(w), UNCHANGED creds,
               \A s \in Sids : EndKeptOrGone(s)
        PROVE Ending'
    <2>1. pc'[w] = "idle" BY <1>D, TypedDone
    <2>2. RequestEnds(w)' BY <2>1 DEF RequestEnds
    <2>3. QED BY <1>D, <2>2, TypedDone, EndingStep
  <1>A. ASSUME NEW w \in Workers, Answer(w) PROVE Ending'
    BY <1>A, <1>D DEF Answer, tables, keys, EndKeptOrGone
  <1>C. ASSUME NEW w \in Workers, NEW r \in Request,
               NEW label \in {"verify", "redeem", "exists"},
               NEW x, Accept(w, r, label, x), label = "verify" \/ x \in Loaded(r.sid)
        PROVE Ending'
    <2>1. r.sid \in Sids BY RequestShape
    <2>2. x # Null /\ label # "verify" => ("change" \in ended[r.sid] => Stale(x))
      BY <1>C, <2>1 DEF Loaded, Ending, SessionEnds
    <2>3. /\ pc'[w] = label /\ snap'[w] = x /\ saw'[w] = ended[r.sid]
          /\ UNCHANGED <<session, ended, creds>>
      BY <1>C DEF Accept, Goto, Typed, TypeOK, keys, tables
    <2>4. RequestEnds(w)' BY <1>C, <2>2, <2>3 DEF RequestEnds, Stale
    <2>5. QED
      BY <1>C, <2>3, <2>4, EndingStep DEF Accept, Goto, Typed, TypeOK, EndKeptOrGone
  \* From one call of a request to the next, nothing but pc changing.
  <1>G. ASSUME NEW w \in Workers, NEW label \in Labels, Goto(w, label),
               UNCHANGED <<tables, session, req, snap, aux>>,
               pc[w] \notin {"idle", "verify", "saveSession"},
               label = "handle" => "change" \notin saw[w]
        PROVE Ending'
    <2>1. pc'[w] = label /\ UNCHANGED <<creds, session, snap, saw, ended>>
      BY <1>G DEF Goto, Typed, TypeOK, tables, aux
    <2>2. RequestEnds(w)' BY <1>G, <2>1 DEF RequestEnds, Ending, Stale
    <2>3. QED
      BY <1>G, <2>1, <2>2, EndingStep DEF Goto, Typed, TypeOK, EndKeptOrGone
  <1>1. ASSUME NEW w \in Workers, BeginLogin(w) PROVE Ending'
    BY <1>1, <1>C DEF BeginLogin, Request
  <1>2. ASSUME NEW w \in Workers, BeginRefresh(w) PROVE Ending'
    <2>1. PICK r \in RefreshReq : \E x \in Loaded(r.sid) : Accept(w, r, "redeem", x)
      BY <1>2 DEF BeginRefresh
    <2>2. QED BY <2>1, <1>C DEF Request
  <1>3. ASSUME NEW w \in Workers, BeginProtected(w) PROVE Ending'
    <2>1. PICK r \in ProtectedReq : \E x \in Loaded(r.sid) : Accept(w, r, "exists", x)
      BY <1>3 DEF BeginProtected
    <2>2. QED BY <2>1, <1>C DEF Request
  <1>4. ASSUME NEW w \in Workers, Verify(w) PROVE Ending'
    <2>1. CASE Answer(w) BY <1>A, <2>1
    <2>2. CASE ~Answer(w)
      <3>1. /\ Goto(w, "saveSession") /\ UNCHANGED <<tables, keys, req, aux>>
            /\ \A v \in Workers \ {w} : snap'[v] = snap[v]
        BY <1>4, <2>2 DEF Verify, Typed, TypeOK
      <3>2. RequestEnds(w)' BY <3>1 DEF RequestEnds, Goto, Typed, TypeOK
      <3>3. QED
        BY <3>1, <3>2, EndingStep
        DEF Goto, Typed, TypeOK, keys, aux, tables, EndKeptOrGone
    <2>3. QED BY <2>1, <2>2
  <1>5. ASSUME NEW w \in Workers, SaveSession(w) PROVE Ending'
    <2>1. CASE Answer(w) BY <1>A, <2>1
    <2>2. CASE ~Answer(w)
      <3>1. req[w] \in Request /\ req[w].sid \in Sids /\ req[w] # Null
        BY <1>5, RequestShape DEF SaveSession, Typed, Staged
      <3>2. /\ pc[w] = "saveSession" /\ pc' = [pc EXCEPT ![w] = "genAccess"]
            /\ UNCHANGED <<creds, req, snap>>
            /\ session' = [session EXCEPT ![req[w].sid] = snap[w]]
            /\ ended' = [ended EXCEPT ![req[w].sid] = {}]
            /\ saw' = [v \in Workers |-> IF req[v] # Null /\ req[v].sid = req[w].sid
                                         THEN {} ELSE saw[v]]
        BY <1>5, <2>2 DEF SaveSession, Goto, tables
      <3>3. ASSUME NEW s \in Sids PROVE SessionEnds(s)'
        BY <3>1, <3>2 DEF Ending, SessionEnds, Stale, Typed, TypeOK
      <3>4. saw'[w] = {} BY <3>1, <3>2
      <3>5. RequestEnds(w)' BY <3>4 DEF RequestEnds
      <3>6. ASSUME NEW v \in Workers, v # w PROVE RequestEnds(v)'
        <4>1. pc'[v] = pc[v] /\ snap'[v] = snap[v] /\ saw'[v] \subseteq saw[v]
          BY <3>2, <3>6 DEF Typed, TypeOK
        <4>2. QED BY <3>2, <4>1 DEF Ending, RequestEnds, Stale
      <3>7. QED BY <3>3, <3>5, <3>6 DEF Ending
    <2>3. QED BY <2>1, <2>2
  <1>6. ASSUME NEW w \in Workers, GenAccess(w) PROVE Ending'
    <2>1. CASE Answer(w) BY <1>A, <2>1
    <2>2. CASE ~Answer(w)
      BY <1>6, <2>2, <1>G DEF GenAccess, Labels
    <2>3. QED BY <2>1, <2>2
  <1>7. ASSUME NEW w \in Workers, Redeem(w) \/ TokenExists(w) PROVE Ending'
    BY <1>7, <1>A, <1>G DEF Redeem, TokenExists, Labels, keys
  <1>8. ASSUME NEW w \in Workers, CredentialCheck(w) PROVE Ending'
    <2>1. CASE Answer(w) BY <1>A, <2>1
    <2>2. CASE ~Answer(w)
      <3>1. /\ pc[w] = "check" /\ snap[w] # Null /\ Current(snap[w]) /\ Goto(w, "handle")
            /\ UNCHANGED <<tables, keys, req, snap, aux>>
        BY <1>8, <2>2 DEF CredentialCheck
      <3>2. snap[w] \in Session BY <3>1 DEF Typed, TypeOK
      <3>3. snap[w].version \in Nat BY <3>2, StoreAssumption DEF Session
      <3>4. ~Stale(snap[w]) BY <3>1, <3>3 DEF Current, Stale
      <3>5. "change" \notin saw[w] BY <3>1, <3>4 DEF Ending, RequestEnds
      <3>6. QED BY <3>1, <3>5, <1>G DEF Labels, keys
    <2>3. QED BY <2>1, <2>2
  <1>9. ASSUME NEW w \in Workers, CredentialCheckFailsOpen(w) \/ Logout(w)
        PROVE Ending'
    BY <1>9, <1>G DEF CredentialCheckFailsOpen, Logout, Handling, Labels, keys
  <1>10. ASSUME NEW w \in Workers,
                HandlerAnswers(w) \/ GenRefresh(w) \/ UpdateInfo(w)
         PROVE Ending'
    BY <1>10, <1>A, <1>D
    DEF HandlerAnswers, GenRefresh, UpdateInfo, Rename, tables, keys, EndKeptOrGone
  <1>11. ASSUME NEW w \in Workers, UpdatePassword(w) PROVE Ending'
    BY <1>11, ChangeEnds
  <1>12. ASSUME NEW w \in Workers, RemoveSession(w) PROVE Ending'
    <2>1. CASE Answer(w) BY <1>A, <2>1
    <2>2. CASE ~Answer(w)
      <3>1. \A s \in Sids : EndKeptOrGone(s)
        BY <1>12, <2>2 DEF RemoveSession, Removed, EndKeptOrGone, Typed, TypeOK
      <3>2. QED BY <1>12, <2>2, <3>1, <1>D DEF RemoveSession, tables
    <2>3. QED BY <2>1, <2>2
  <1>13. CASE ExpireAccess \/ ExpireRefresh \/ ExpireSession \/ UNCHANGED vars
    <2>1. /\ UNCHANGED <<creds, pc, req, snap, aux>>
          /\ \A s \in Sids : session'[s] = Null \/ session'[s] = session[s]
      BY <1>13
      DEF ExpireAccess, ExpireRefresh, ExpireSession, vars, aux, tables, Typed, TypeOK
    <2>2. QED BY <2>1 DEF Ending, SessionEnds, RequestEnds, Stale, aux
  <1>14. QED
    BY <1>1, <1>2, <1>3, <1>4, <1>5, <1>6, <1>7, <1>8, <1>9, <1>10, <1>11, <1>12, <1>13
    DEF Next, Step

\* While every cookie is used by one user, no request that comes after a change
\* of the password on a session passes the credential check before a new login.
\* Where a cookie is used by two it need not be so.
THEOREM ChangesEndSessions == Spec /\ []OneUserPerCookie => []ChangeEndsSession
  <1>1. Init => Tracing /\ Vouching /\ Ending
    BY DEF Init, Tracing, SessionTraced, RequestTraced, Vouching, Ending, SessionEnds,
           RequestEnds
  <1>2. Ending => ChangeEndsSession
    BY DEF Ending, RequestEnds, ChangeEndsSession
  <1>3. QED
    BY <1>1, <1>2, TypedInit, TypedNext, VouchingNext, TracingNext, EndingNext, PTL
    DEF Spec
=============================================================================

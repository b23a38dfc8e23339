------------------------- MODULE UserServiceProofs -------------------------
(***************************************************************************)
(* Proofs about UserService: type correctness, the inductive invariant of   *)
(* the transactions, and what follows from it for every number of workers, *)
(* users and accounts.                                                     *)
(***************************************************************************)
EXTENDS UserService, TLAPS

\* A request has the fields of its operation.
LEMMA RequestShape ==
  ASSUME NEW r \in Request
  PROVE  /\ r # Null
         /\ r.op \in {"register", "login", "updateInfo", "updatePassword"}
         /\ r.op = "register" =>
              /\ r.id \in UserIds /\ r.account \in Accounts
              /\ r.name \in Names /\ r.password \in Passwords
         /\ r.op = "login" => r.account \in Accounts /\ r.password \in Passwords
         /\ r.op = "updateInfo" => r.id \in UserIds /\ r.name \in Names
         /\ r.op = "updatePassword" =>
              r.id \in UserIds /\ r.old \in Passwords /\ r.new \in Passwords
  BY WorkersAssumption
  DEF Request, RegisterReq, LoginReq, UpdateInfoReq, UpdatePasswordReq

\* Which operation is at which statement, and which locals it has set by then.
Staged(w) ==
  /\ pc[w] = "idle" => req[w] = Null /\ uid[w] = Null
  /\ pc[w] # "idle" => req[w] \in Request
  /\ pc[w] # "idle" /\ req[w].op # "login" => uid[w] = req[w].id
  /\ pc[w] \in {"findAccount", "insertUser", "insertCred"} =>
       req[w].op = "register"
  /\ pc[w] \in {"lockAccount", "readCred"} => req[w].op = "login"
  /\ pc[w] = "lockUser" => req[w].op \in {"updateInfo", "updatePassword"}
  /\ pc[w] = "saveUser" => req[w].op = "updateInfo"
  /\ pc[w] \in {"lockCred", "saveCred"} => req[w].op = "updatePassword"
  /\ HasUserLock(w) => uid[w] \in UserIds
  /\ HasUserLock(w) /\ req[w].op # "login" => row[w] \in UserRow
  /\ HasUserLock(w) /\ req[w].op = "register" =>
       row[w] = [account |-> req[w].account, name |-> req[w].name]
  /\ pc[w] = "commit" /\ req[w].op = "register" =>
       cred[w] = [password |-> req[w].password, version |-> 0]
  /\ pc[w] = "saveCred" => cred[w] \in CredRow

StagedInv == TypeOK /\ \A w \in Workers : Staged(w)

LEMMA StagedInit == Init => StagedInv
  BY DEF Init, StoreInit, StagedInv, TypeOK, TablesOK, Staged, Labels, Codes,
         HasUserLock

\* The answer to a call leaves the worker idle with nothing in hand.
LEMMA StagedFinish ==
  ASSUME StagedInv, NEW w \in Workers, NEW code \in Codes, Finish(w, code),
         TablesOK'
  PROVE  StagedInv'
  <1>1. TypeOK'
    BY DEF StagedInv, TypeOK, Finish, Respond, Release, Goto, Labels
  <1>2. ASSUME NEW v \in Workers PROVE Staged(v)'
    BY DEF StagedInv, TypeOK, Staged, Finish, Respond, Goto, HasUserLock
  <1>3. QED BY <1>1, <1>2 DEF StagedInv

LEMMA StagedRollback ==
  ASSUME StagedInv, NEW w \in Workers, NEW code \in Codes, Rollback(w, code)
  PROVE  StagedInv'
  <1>1. TablesOK' BY DEF Rollback, StagedInv, TypeOK, TablesOK, tables
  <1>2. QED BY <1>1, StagedFinish DEF Rollback

LEMMA StagedWrite ==
  ASSUME StagedInv, NEW w \in Workers, pc[w] = "commit", WriteTables(w)
  PROVE  TablesOK'
  BY DEF StagedInv, TypeOK, TablesOK, WriteTables

LEMMA StagedNext == StagedInv /\ [Next]_vars => StagedInv'
  <1> SUFFICES ASSUME StagedInv, [Next]_vars PROVE StagedInv'
    OBVIOUS
  <1> USE DEF StagedInv, TypeOK, Staged, HasUserLock, Goto, locals, locks, tables
  <1>1. ASSUME NEW w \in Workers, Begin(w) PROVE StagedInv'
    <2>1. PICK r \in Request :
            /\ req' = [req EXCEPT ![w] = r]
            /\ uid' = [uid EXCEPT ![w] = IF r.op = "login" THEN Null ELSE r.id]
            /\ pc' = [pc EXCEPT ![w] = FirstLabel(r)]
      BY <1>1 DEF Begin
    <2>2. \/ r.op = "register" /\ FirstLabel(r) = "findAccount" /\ r.id \in UserIds
          \/ r.op = "login" /\ FirstLabel(r) = "lockAccount"
          \/ /\ r.op \in {"updateInfo", "updatePassword"}
             /\ FirstLabel(r) = "lockUser" /\ r.id \in UserIds
      BY RequestShape DEF FirstLabel
    <2>3. TypeOK' BY <1>1, <2>1, <2>2 DEF Begin, TablesOK, Labels, Codes
    <2>4. ASSUME NEW v \in Workers PROVE Staged(v)'
      BY <1>1, <2>1, <2>2 DEF Begin
    <2>5. QED BY <2>3, <2>4
  <1>2. ASSUME NEW w \in Workers, FindByAccount(w) PROVE StagedInv'
    <2>1. CASE Rollback(w, "UserNameDuplicated")
      BY <2>1, StagedRollback DEF Codes
    <2>2. CASE Goto(w, "insertUser") /\ UNCHANGED <<tables, req, locals, locks, answer>>
      BY <1>2, <2>2 DEF FindByAccount, TablesOK, Labels
    <2>3. QED BY <1>2, <2>1, <2>2 DEF FindByAccount
  <1>3. ASSUME NEW w \in Workers, InsertUser(w) PROVE StagedInv'
    <2>1. CASE Rollback(w, "UserNameDuplicated")
      BY <2>1, StagedRollback DEF Codes
    <2>2. CASE ~Rollback(w, "UserNameDuplicated")
      <3>1. /\ req[w] \in Request /\ req[w].op = "register"
            /\ req[w].account \in Accounts /\ req[w].name \in Names
            /\ uid[w] \in UserIds
        BY <1>3, RequestShape DEF InsertUser
      <3>2. pc[w] = "insertUser"
        BY <1>3 DEF InsertUser
      <3>3. /\ userLock' = [userLock EXCEPT ![req[w].account] = w]
            /\ row' = [row EXCEPT ![w] = [account |-> req[w].account,
                                         name |-> req[w].name]]
            /\ pc' = [pc EXCEPT ![w] = "insertCred"]
            /\ UNCHANGED <<users, creds, req, uid, cred, credLock, answer>>
        BY <1>3, <2>2 DEF InsertUser
      <3>4. [account |-> req[w].account, name |-> req[w].name] \in UserRow
        BY <3>1 DEF UserRow
      <3>5. TypeOK' BY <3>1, <3>3, <3>4 DEF TablesOK, Labels
      <3>6. ASSUME NEW v \in Workers PROVE Staged(v)'
        BY <3>1, <3>2, <3>3, <3>4
      <3>7. QED BY <3>5, <3>6
    <2>3. QED BY <2>1, <2>2
  <1>4. ASSUME NEW w \in Workers, InsertCredential(w) PROVE StagedInv'
    <2>1. req[w] \in Request /\ req[w].op = "register" /\ req[w].password \in Passwords
      BY <1>4, RequestShape DEF InsertCredential
    <2>2. [password |-> req[w].password, version |-> 0] \in CredRow
      BY <2>1, StoreAssumption DEF CredRow
    <2>3. QED BY <1>4, <2>1, <2>2 DEF InsertCredential, TablesOK, Labels
  <1>5. ASSUME NEW w \in Workers, FindByAccountLock(w) PROVE StagedInv'
    <2>1. CASE Rollback(w, "UserNotExist")
      BY <2>1, StagedRollback DEF Codes
    <2>2. CASE ~Rollback(w, "UserNotExist")
      <3>1. req[w] \in Request /\ req[w].op = "login" /\ req[w].account \in Accounts
        BY <1>5, RequestShape DEF FindByAccountLock
      <3>2. QED BY <1>5, <2>2, <3>1 DEF FindByAccountLock, TablesOK, Labels
    <2>3. QED BY <2>1, <2>2
  <1>6. ASSUME NEW w \in Workers, ReadCredential(w) PROVE StagedInv'
    <2>1. CASE Rollback(w, "UserNotExist") \/ Rollback(w, "ServerError")
      BY <2>1, StagedRollback DEF Codes
    <2>2. CASE ~(Rollback(w, "UserNotExist") \/ Rollback(w, "ServerError"))
      BY <1>6, <2>2 DEF ReadCredential, TablesOK, Labels, Verifies
    <2>3. QED BY <2>1, <2>2
  <1>7. ASSUME NEW w \in Workers, FindByUserIDLock(w) PROVE StagedInv'
    <2>1. CASE Rollback(w, "UserNotExist")
      BY <2>1, StagedRollback DEF Codes
    <2>2. CASE ~Rollback(w, "UserNotExist")
      <3>1. uid[w] \in UserIds
        BY <1>7, RequestShape DEF FindByUserIDLock
      <3>2. users[uid[w]] \in UserRow
        BY <1>7, <2>2, <3>1 DEF FindByUserIDLock, TablesOK
      <3>3. pc[w] = "lockUser" /\ req[w].op \in {"updateInfo", "updatePassword"}
        BY <1>7 DEF FindByUserIDLock
      <3>4. /\ userLock' = [userLock EXCEPT ![users[uid[w]].account] = w]
            /\ row' = [row EXCEPT ![w] = users[uid[w]]]
            /\ pc' = [pc EXCEPT ![w] = IF req[w].op = "updateInfo"
                                       THEN "saveUser" ELSE "lockCred"]
            /\ UNCHANGED <<users, creds, req, uid, cred, credLock, answer>>
        BY <1>7, <2>2 DEF FindByUserIDLock
      <3>5. TypeOK' BY <3>2, <3>3, <3>4 DEF TablesOK, Labels
      <3>6. ASSUME NEW v \in Workers PROVE Staged(v)'
        BY <3>1, <3>2, <3>3, <3>4
      <3>7. QED BY <3>5, <3>6
    <2>3. QED BY <2>1, <2>2
  <1>8. ASSUME NEW w \in Workers, SaveUser(w) PROVE StagedInv'
    <2>1. req[w] \in Request /\ req[w].op = "updateInfo" /\ req[w].name \in Names
      BY <1>8, RequestShape DEF SaveUser
    <2>2. [row[w] EXCEPT !.name = req[w].name] \in UserRow
      BY <1>8, <2>1 DEF SaveUser, UserRow
    <2>3. QED BY <1>8, <2>1, <2>2 DEF SaveUser, TablesOK, Labels
  <1>9. ASSUME NEW w \in Workers, FindCredentialLock(w) PROVE StagedInv'
    <2>1. CASE Rollback(w, "ServerError")
      BY <2>1, StagedRollback DEF Codes
    <2>2. CASE ~Rollback(w, "ServerError")
      BY <1>9, <2>2 DEF FindCredentialLock, TablesOK, Labels
    <2>3. QED BY <2>1, <2>2
  <1>10. ASSUME NEW w \in Workers, SaveCredential(w) PROVE StagedInv'
    <2>1. CASE Rollback(w, "UserNotExist") \/ Rollback(w, "ServerError")
      BY <2>1, StagedRollback DEF Codes
    <2>2. CASE ~(Rollback(w, "UserNotExist") \/ Rollback(w, "ServerError"))
      <3>1. req[w] \in Request /\ req[w].op = "updatePassword" /\ req[w].new \in Passwords
        BY <1>10, RequestShape DEF SaveCredential
      <3>2. cred[w].version < MaxVersion /\ cred[w].version \in Nat
        BY <1>10, <2>2 DEF SaveCredential, CredRow
      <3>3. [password |-> req[w].new, version |-> NextVersion(cred[w].version)] \in CredRow
        BY <3>1, <3>2, StoreAssumption DEF CredRow, NextVersion
      <3>4. QED BY <1>10, <2>2, <3>1, <3>3 DEF SaveCredential, TablesOK, Labels
    <2>3. QED BY <2>1, <2>2
  <1>11. ASSUME NEW w \in Workers, Commit(w) PROVE StagedInv'
    BY <1>11, StagedWrite, StagedFinish DEF Commit, Codes
  <1>12. ASSUME NEW w \in Workers, CommitError(w) PROVE StagedInv'
    <2>1. TablesOK' BY <1>12, StagedWrite DEF CommitError, TablesOK
    <2>2. QED BY <1>12, <2>1, StagedFinish DEF CommitError, Codes
  <1>13. ASSUME NEW w \in Workers, DbError(w) PROVE StagedInv'
    BY <1>13, StagedRollback DEF DbError, Codes
  <1>14. CASE UNCHANGED vars
    BY <1>14 DEF vars, TablesOK
  <1>15. QED
    BY <1>1, <1>2, <1>3, <1>4, <1>5, <1>6, <1>7, <1>8, <1>9, <1>10, <1>11,
       <1>12, <1>13, <1>14 DEF Next, LockStep, PlainStep

\* Whatever the number of workers and the interleaving, every variable keeps
\* its type; a password change never takes the version out of its column.
THEOREM TypeCorrect == Spec => []TypeOK
  <1>1. StagedInv => TypeOK BY DEF StagedInv
  <1>2. QED BY <1>1, StagedInit, StagedNext, PTL DEF Spec
-----------------------------------------------------------------------------
(* The inductive invariant.  PendingFresh needs LocksHeld (one insert per   *)
(* account), CopiesFresh needs both, and AccountUnique and                  *)
(* CredentialPerUser follow from what a commit is then known to write.      *)

Inv == /\ StagedInv /\ LocksHeld /\ PendingFresh /\ CopiesFresh
       /\ AccountUnique /\ CredentialPerUser

LEMMA InvInit == Init => Inv
  <1>1. Init => StagedInv BY StagedInit
  <1>2. Init => AccountUnique /\ CredentialPerUser
    BY DEF Init, StoreInit, AccountUnique, CredentialPerUser, Owns
  <1>3. Init => LocksHeld /\ PendingFresh /\ CopiesFresh
    BY WorkersAssumption, StoreAssumption
    DEF Init, LocksHeld, PendingFresh, CopiesFresh, HasUserLock, HasCredLock, Serves
  <1>4. QED BY <1>1, <1>2, <1>3 DEF Inv

\* Locks move only to or from the worker that takes the step.
LEMMA LocksFinish ==
  ASSUME Inv, NEW w \in Workers, NEW code \in Codes, Finish(w, code)
  PROVE  LocksHeld'
  <1> USE DEF Inv, StagedInv, TypeOK
  <1>1. ASSUME NEW v \in Workers, v # w, NEW a \in Accounts
        PROVE (userLock[a] = v <=> HasUserLock(v) /\ LockedAccount(v) = a)'
    BY <1>1, WorkersAssumption
    DEF LocksHeld, Finish, Respond, Release, Goto, HasUserLock, LockedAccount
  <1>2. ASSUME NEW v \in Workers, v # w, NEW id \in UserIds
        PROVE (credLock[id] = v <=> HasCredLock(v) /\ uid[v] = id)'
    BY <1>2, WorkersAssumption
    DEF LocksHeld, Finish, Respond, Release, Goto, HasCredLock
  <1>3. ASSUME NEW a \in Accounts PROVE userLock'[a] # w /\ ~HasUserLock(w)'
    BY WorkersAssumption DEF Finish, Respond, Release, Goto, HasUserLock
  <1>4. ASSUME NEW id \in UserIds PROVE credLock'[id] # w /\ ~HasCredLock(w)'
    BY WorkersAssumption DEF Finish, Respond, Release, Goto, HasCredLock
  <1>5. QED BY <1>1, <1>2, <1>3, <1>4 DEF LocksHeld

LEMMA LocksNext == Inv /\ [Next]_vars => LocksHeld'
  <1> SUFFICES ASSUME Inv, [Next]_vars PROVE LocksHeld'
    OBVIOUS
  <1> USE DEF Inv, StagedInv, TypeOK, Goto, locals, locks, tables
  <1>F. ASSUME NEW w \in Workers, NEW code \in Codes, Rollback(w, code)
        PROVE LocksHeld'
    BY <1>F, LocksFinish DEF Rollback
  <1>1. ASSUME NEW w \in Workers, Begin(w) PROVE LocksHeld'
    <2>1. ~HasUserLock(w) /\ ~HasCredLock(w) /\ ~HasUserLock(w)' /\ ~HasCredLock(w)'
      BY <1>1 DEF Begin, HasUserLock, HasCredLock, FirstLabel
    <2>2. ASSUME NEW v \in Workers, v # w
          PROVE /\ HasUserLock(v)' = HasUserLock(v) /\ HasCredLock(v)' = HasCredLock(v)
                /\ LockedAccount(v)' = LockedAccount(v) /\ uid'[v] = uid[v]
      BY <1>1, <2>2 DEF Begin, HasUserLock, HasCredLock, LockedAccount
    <2>3. UNCHANGED locks BY <1>1 DEF Begin
    <2>4. QED BY <2>1, <2>2, <2>3 DEF LocksHeld
  <1>2. ASSUME NEW w \in Workers, FindByAccount(w) PROVE LocksHeld'
    <2>1. CASE Rollback(w, "UserNameDuplicated") BY <1>F, <2>1 DEF Codes
    <2>2. CASE ~Rollback(w, "UserNameDuplicated")
      BY <1>2, <2>2
      DEF FindByAccount, LocksHeld, HasUserLock, HasCredLock, LockedAccount
    <2>3. QED BY <2>1, <2>2
  <1>3. ASSUME NEW w \in Workers, InsertUser(w) PROVE LocksHeld'
    <2>1. CASE Rollback(w, "UserNameDuplicated") BY <1>F, <2>1 DEF Codes
    <2>2. CASE ~Rollback(w, "UserNameDuplicated")
      <3>1. req[w].op = "register" /\ req[w].account \in Accounts
        BY <1>3, RequestShape DEF InsertUser, Staged
      <3>2. QED
        BY <1>3, <2>2, <3>1, WorkersAssumption
        DEF InsertUser, Granted, LocksHeld, HasUserLock, HasCredLock, LockedAccount
    <2>3. QED BY <2>1, <2>2
  <1>4. ASSUME NEW w \in Workers, InsertCredential(w) PROVE LocksHeld'
    <2>1. req[w].op = "register" BY <1>4 DEF InsertCredential, Staged
    <2>2. QED
      BY <1>4, <2>1
      DEF InsertCredential, LocksHeld, HasUserLock, HasCredLock, LockedAccount
  <1>5. ASSUME NEW w \in Workers, FindByAccountLock(w) PROVE LocksHeld'
    <2>1. CASE Rollback(w, "UserNotExist") BY <1>F, <2>1 DEF Codes
    <2>2. CASE ~Rollback(w, "UserNotExist")
      <3>1. req[w].op = "login" /\ req[w].account \in Accounts
        BY <1>5, RequestShape DEF FindByAccountLock, Staged
      <3>2. QED
        BY <1>5, <2>2, <3>1, WorkersAssumption
        DEF FindByAccountLock, Granted, LocksHeld, HasUserLock, HasCredLock,
            LockedAccount
    <2>3. QED BY <2>1, <2>2
  <1>6. ASSUME NEW w \in Workers, ReadCredential(w) PROVE LocksHeld'
    <2>1. CASE Rollback(w, "UserNotExist") \/ Rollback(w, "ServerError")
      BY <1>F, <2>1 DEF Codes
    <2>2. CASE ~(Rollback(w, "UserNotExist") \/ Rollback(w, "ServerError"))
      <3>1. req[w].op = "login" BY <1>6 DEF ReadCredential, Staged
      <3>2. QED
        BY <1>6, <2>2, <3>1
        DEF ReadCredential, LocksHeld, HasUserLock, HasCredLock, LockedAccount
    <2>3. QED BY <2>1, <2>2
  <1>7. ASSUME NEW w \in Workers, FindByUserIDLock(w) PROVE LocksHeld'
    <2>1. CASE Rollback(w, "UserNotExist") BY <1>F, <2>1 DEF Codes
    <2>2. CASE ~Rollback(w, "UserNotExist")
      <3>1. /\ req[w].op \in {"updateInfo", "updatePassword"} /\ uid[w] \in UserIds
        BY <1>7, RequestShape DEF FindByUserIDLock, Staged
      <3>2. users[uid[w]].account \in Accounts
        BY <1>7, <2>2, <3>1 DEF FindByUserIDLock, TablesOK, UserRow
      <3>3. QED
        BY <1>7, <2>2, <3>1, <3>2, WorkersAssumption
        DEF FindByUserIDLock, Granted, LocksHeld, HasUserLock, HasCredLock,
            LockedAccount
    <2>3. QED BY <2>1, <2>2
  <1>8. ASSUME NEW w \in Workers, SaveUser(w) PROVE LocksHeld'
    <2>1. req[w].op = "updateInfo" /\ row[w] \in UserRow
      BY <1>8 DEF SaveUser, Staged, HasUserLock
    <2>2. [row[w] EXCEPT !.name = req[w].name].account = row[w].account
      BY <2>1 DEF UserRow
    <2>3. QED
      BY <1>8, <2>1, <2>2
      DEF SaveUser, LocksHeld, HasUserLock, HasCredLock, LockedAccount
  <1>9. ASSUME NEW w \in Workers, FindCredentialLock(w) PROVE LocksHeld'
    <2>1. CASE Rollback(w, "ServerError") BY <1>F, <2>1 DEF Codes
    <2>2. CASE ~Rollback(w, "ServerError")
      <3>1. req[w].op = "updatePassword" /\ uid[w] \in UserIds
        BY <1>9 DEF FindCredentialLock, Staged, HasUserLock
      <3>2. QED
        BY <1>9, <2>2, <3>1, WorkersAssumption
        DEF FindCredentialLock, Granted, LocksHeld, HasUserLock, HasCredLock,
            LockedAccount
    <2>3. QED BY <2>1, <2>2
  <1>10. ASSUME NEW w \in Workers, SaveCredential(w) PROVE LocksHeld'
    <2>1. CASE Rollback(w, "UserNotExist") \/ Rollback(w, "ServerError")
      BY <1>F, <2>1 DEF Codes
    <2>2. CASE ~(Rollback(w, "UserNotExist") \/ Rollback(w, "ServerError"))
      <3>1. req[w].op = "updatePassword" BY <1>10 DEF SaveCredential, Staged
      <3>2. QED
        BY <1>10, <2>2, <3>1
        DEF SaveCredential, LocksHeld, HasUserLock, HasCredLock, LockedAccount
    <2>3. QED BY <2>1, <2>2
  <1>11. ASSUME NEW w \in Workers, Commit(w) \/ CommitError(w) PROVE LocksHeld'
    BY <1>11, LocksFinish DEF Commit, CommitError, Codes
  <1>12. ASSUME NEW w \in Workers, DbError(w) PROVE LocksHeld'
    BY <1>12, <1>F DEF DbError, Codes
  <1>13. CASE UNCHANGED vars
    BY <1>13 DEF vars, LocksHeld, HasUserLock, HasCredLock, LockedAccount
  <1>14. QED
    BY <1>1, <1>2, <1>3, <1>4, <1>5, <1>6, <1>7, <1>8, <1>9, <1>10, <1>11,
       <1>12, <1>13 DEF Next, LockStep, PlainStep
-----------------------------------------------------------------------------
(* What a commit writes.                                                   *)

\* Two transactions that hold a user lock work on different users.
LEMMA LockedUsersDistinct ==
  ASSUME Inv, NEW v \in Workers, NEW w \in Workers,
         HasUserLock(v), HasUserLock(w), uid[v] = uid[w]
  PROVE  v = w
  <1> USE DEF Inv, StagedInv
  <1>1. /\ req[v] \in Request /\ req[w] \in Request
        /\ uid[v] \in UserIds /\ uid[w] \in UserIds
    BY DEF Staged, HasUserLock
  <1>2. CASE req[v].op = "register" /\ req[w].op = "register"
    BY <1>2 DEF PendingFresh, Serves, HasUserLock
  <1>3. ASSUME NEW u \in Workers, HasUserLock(u), req[u].op # "register"
        PROVE /\ users[uid[u]] # Null /\ uid[u] \in UserIds
              /\ LockedAccount(u) = users[uid[u]].account
    <2>1. req[u].op \in {"login", "updateInfo", "updatePassword"} /\ uid[u] \in UserIds
      BY <1>3, RequestShape DEF Staged, HasUserLock
    <2>2. CASE req[u].op = "login"
      BY <1>3, <2>1, <2>2 DEF CopiesFresh, LoginFresh, Owns, LockedAccount
    <2>3. CASE req[u].op = "updateInfo"
      <3>1. users[uid[u]] \in UserRow
        BY <1>3, <2>1, <2>3 DEF CopiesFresh, UpdateInfoFresh, TypeOK, TablesOK
      <3>2. QED
        BY <1>3, <2>1, <2>3, <3>1
        DEF CopiesFresh, UpdateInfoFresh, LockedAccount, UserRow
    <2>4. CASE req[u].op = "updatePassword"
      BY <1>3, <2>1, <2>4 DEF CopiesFresh, UpdatePasswordFresh, LockedAccount
    <2>5. QED BY <2>1, <2>2, <2>3, <2>4
  <1>4. CASE req[v].op = "register" /\ req[w].op # "register"
    BY <1>3, <1>4 DEF PendingFresh, Serves, HasUserLock
  <1>5. CASE req[v].op # "register" /\ req[w].op = "register"
    BY <1>3, <1>5 DEF PendingFresh, Serves, HasUserLock
  <1>6. CASE req[v].op # "register" /\ req[w].op # "register"
    <2>1. /\ users[uid[v]] # Null /\ LockedAccount(v) = users[uid[v]].account
          /\ LockedAccount(w) = users[uid[v]].account
      BY <1>3, <1>6
    <2>2. users[uid[v]].account \in Accounts
      BY <1>1, <2>1 DEF TypeOK, TablesOK, UserRow
    <2>3. QED BY <2>1, <2>2 DEF LocksHeld
  <1>7. QED BY <1>2, <1>4, <1>5, <1>6

\* A commit has the whole effect its call promises, on the tables as they are.
LEMMA CommitPromise ==
  ASSUME Inv, NEW w \in Workers, pc[w] = "commit", WriteTables(w)
  PROVE  Promise(req[w])
  <1> USE DEF Inv, StagedInv, WriteTables
  <1>1. req[w] \in Request /\ HasUserLock(w) /\ uid[w] \in UserIds
    BY DEF Staged, HasUserLock
  <1>2. CASE req[w].op = "register"
    <2>1. /\ uid[w] = req[w].id
          /\ row[w] = [account |-> req[w].account, name |-> req[w].name]
          /\ cred[w] = [password |-> req[w].password, version |-> 0]
      BY <1>1, <1>2 DEF Staged
    <2>2. users[uid[w]] = Null /\ ~Taken(req[w].account)
      BY <1>1, <1>2 DEF PendingFresh, Serves
    <2>3. QED BY <1>2, <2>1, <2>2 DEF Promise, Register
  <1>3. CASE req[w].op = "login"
    <2>1. Owns(uid[w], req[w].account) /\ Verifies(uid[w], req[w].password)
      BY <1>1, <1>3 DEF CopiesFresh, LoginFresh
    <2>2. UNCHANGED tables BY <1>3 DEF tables
    <2>3. QED BY <1>1, <1>3, <2>1, <2>2 DEF Promise
  <1>4. CASE req[w].op = "updateInfo"
    <2>1. /\ users[uid[w]] # Null
          /\ row[w] = [users[uid[w]] EXCEPT !.name = req[w].name]
          /\ uid[w] = req[w].id
      BY <1>1, <1>4 DEF CopiesFresh, UpdateInfoFresh, Staged
    <2>2. QED BY <1>4, <2>1 DEF Promise, Rename
  <1>5. CASE req[w].op = "updatePassword"
    <2>1. /\ Verifies(uid[w], req[w].old)
          /\ creds[uid[w]].version < MaxVersion
          /\ cred[w] = [password |-> req[w].new,
                        version |-> creds[uid[w]].version + 1]
          /\ uid[w] = req[w].id
      BY <1>1, <1>5 DEF CopiesFresh, UpdatePasswordFresh, Staged
    <2>2. QED BY <1>5, <2>1 DEF Promise, ChangePassword
  <1>6. QED BY <1>1, <1>2, <1>3, <1>4, <1>5, RequestShape

\* A promise kept is a step of the atomic store, or none at all.
LEMMA PromiseIsStoreStep ==
  ASSUME NEW r \in Request, Promise(r)
  PROVE  [StoreNext]_tables
  <1>1. CASE r.op = "register"
    BY <1>1, RequestShape DEF Promise, StoreNext
  <1>2. CASE r.op = "login"
    BY <1>2 DEF Promise
  <1>3. CASE r.op = "updateInfo"
    BY <1>3, RequestShape DEF Promise, StoreNext
  <1>4. CASE r.op = "updatePassword"
    BY <1>4, RequestShape DEF Promise, StoreNext
  <1>5. QED BY <1>1, <1>2, <1>3, <1>4, RequestShape

\* The tables change in no other step.
LEMMA StepOnTables ==
  ASSUME [Next]_vars
  PROVE  \/ UNCHANGED tables
         \/ \E w \in Workers :
              /\ pc[w] = "commit" /\ WriteTables(w)
              /\ \E code \in Codes : Finish(w, code)
  BY DEF Next, LockStep, PlainStep, Begin, FindByAccount, InsertUser,
         InsertCredential, FindByAccountLock, ReadCredential, FindByUserIDLock,
         SaveUser, FindCredentialLock, SaveCredential, Commit, CommitError,
         DbError, Rollback, vars, Codes, tables

LEMMA StepIsStoreStep == Inv /\ [Next]_vars => [StoreNext]_tables
  <1> SUFFICES ASSUME Inv, [Next]_vars, ~UNCHANGED tables PROVE StoreNext
    BY DEF tables
  <1>1. PICK w \in Workers : pc[w] = "commit" /\ WriteTables(w)
    BY StepOnTables
  <1>2. Promise(req[w]) BY <1>1, CommitPromise
  <1>3. req[w] \in Request BY <1>1 DEF Inv, StagedInv, Staged
  <1>4. QED BY <1>2, <1>3, PromiseIsStoreStep DEF tables
-----------------------------------------------------------------------------
(* Facts about the store alone.                                            *)

LEMMA StoreKeepsAccountUnique ==
  ASSUME TablesOK, AccountUnique, [StoreNext]_tables
  PROVE  AccountUnique'
  <1> USE DEF AccountUnique, Owns, TablesOK
  <1>1. ASSUME NEW id \in UserIds, NEW a \in Accounts, NEW n \in Names,
               NEW p \in Passwords, Register(id, a, n, p)
        PROVE AccountUnique'
    BY <1>1 DEF Register, Taken
  <1>2. ASSUME NEW id \in UserIds, NEW n \in Names, Rename(id, n)
        PROVE AccountUnique'
    <2>1. users[id] \in UserRow BY <1>2 DEF Rename
    <2>2. users'[id].account = users[id].account BY <1>2, <2>1 DEF Rename, UserRow
    <2>3. QED BY <1>2, <2>2 DEF Rename
  <1>3. CASE UNCHANGED users BY <1>3
  <1>4. QED BY <1>1, <1>2, <1>3 DEF StoreNext, ChangePassword, tables

LEMMA StoreKeepsCredentialPerUser ==
  ASSUME TablesOK, CredentialPerUser, [StoreNext]_tables
  PROVE  CredentialPerUser'
  <1> USE StoreAssumption DEF CredentialPerUser, TablesOK
  <1>1. ASSUME NEW id \in UserIds, NEW a \in Accounts, NEW n \in Names,
               NEW p \in Passwords, Register(id, a, n, p)
        PROVE CredentialPerUser'
    <2>1. /\ [account |-> a, name |-> n] \in UserRow
          /\ [password |-> p, version |-> 0] \in CredRow
      BY DEF UserRow, CredRow
    <2>2. QED BY <1>1, <2>1 DEF Register
  <1>2. ASSUME NEW id \in UserIds, NEW n \in Names, Rename(id, n)
        PROVE CredentialPerUser'
    <2>1. [users[id] EXCEPT !.name = n] \in UserRow BY <1>2 DEF Rename, UserRow
    <2>2. QED BY <1>2, <2>1 DEF Rename
  <1>3. ASSUME NEW id \in UserIds, NEW old \in Passwords, NEW new \in Passwords,
               ChangePassword(id, old, new)
        PROVE CredentialPerUser'
    <2>1. creds[id] \in CredRow BY <1>3 DEF ChangePassword, Verifies
    <2>2. [password |-> new, version |-> creds[id].version + 1] \in CredRow
      BY <1>3, <2>1 DEF ChangePassword, CredRow
    <2>3. QED BY <1>3, <2>1, <2>2 DEF ChangePassword
  <1>4. CASE UNCHANGED tables BY <1>4 DEF tables
  <1>5. QED BY <1>1, <1>2, <1>3, <1>4 DEF StoreNext
-----------------------------------------------------------------------------
(* PendingFresh and CopiesFresh, first for the workers that only look on.   *)

\* What the invariant says of worker v alone.
PendingOf(v) ==
  Serves(v, "register") =>
    /\ users[uid[v]] = Null
    /\ \A u \in Workers : Serves(u, "register") /\ uid[u] = uid[v] => u = v
    /\ HasUserLock(v) => ~Taken(req[v].account)
CopiesOf(v) ==
  HasUserLock(v) =>
    /\ req[v].op = "login" => LoginFresh(v)
    /\ req[v].op = "updateInfo" => UpdateInfoFresh(v)
    /\ req[v].op = "updatePassword" => UpdatePasswordFresh(v)

\* A commit by w touches the rows of no other transaction.
LEMMA WriteLeavesRows ==
  ASSUME Inv, NEW w \in Workers, pc[w] = "commit", WriteTables(w),
         NEW v \in Workers, v # w
  PROVE  /\ Serves(v, "register") => /\ users'[uid[v]] = users[uid[v]]
                                     /\ uid[v] # uid[w] \/ UNCHANGED tables
         /\ HasUserLock(v) => /\ users'[uid[v]] = users[uid[v]]
                              /\ creds'[uid[v]] = creds[uid[v]]
         /\ \A a \in Accounts : Taken(a)' /\ ~Taken(a) => userLock[a] = w
  <1> USE DEF Inv, StagedInv, TypeOK, TablesOK
  <1>1. HasUserLock(w) /\ uid[w] \in UserIds /\ req[w] \in Request
    BY DEF HasUserLock, Staged
  <1>2. \A id \in UserIds \ {uid[w]} : users'[id] = users[id] /\ creds'[id] = creds[id]
    BY DEF WriteTables
  <1>3. ASSUME HasUserLock(v)
        PROVE users'[uid[v]] = users[uid[v]] /\ creds'[uid[v]] = creds[uid[v]]
    <2>1. uid[v] # uid[w] /\ uid[v] \in UserIds
      BY <1>1, <1>3, LockedUsersDistinct DEF Staged
    <2>2. QED BY <1>2, <2>1
  <1>4. ASSUME Serves(v, "register")
        PROVE users'[uid[v]] = users[uid[v]] /\ (uid[v] # uid[w] \/ UNCHANGED tables)
    <2>1. users[uid[v]] = Null /\ uid[v] \in UserIds
      BY <1>4, RequestShape DEF PendingFresh, Serves, Staged
    <2>2. CASE req[w].op = "register"
      <3>1. uid[v] # uid[w]
        BY <1>1, <1>4, <2>2 DEF PendingFresh, Serves, HasUserLock
      <3>2. QED BY <1>2, <2>1, <3>1
    <2>3. CASE req[w].op = "login"
      BY <2>3 DEF WriteTables, tables
    <2>4. CASE req[w].op \in {"updateInfo", "updatePassword"}
      <3>1. uid[v] # uid[w]
        BY <1>1, <2>1, <2>4 DEF CopiesFresh, UpdateInfoFresh, UpdatePasswordFresh
      <3>2. QED BY <1>2, <2>1, <3>1
    <2>5. QED BY <1>1, <2>2, <2>3, <2>4, RequestShape
  <1>5. ASSUME NEW a \in Accounts, Taken(a)', ~Taken(a)
        PROVE userLock[a] = w
    <2>1. PICK id \in UserIds : users'[id] # Null /\ users'[id].account = a
      BY <1>5 DEF Taken, Owns
    <2>2. id = uid[w] /\ users'[id] # users[id]
      BY <1>2, <1>5, <2>1 DEF Taken, Owns
    <2>3. req[w].op \in {"register", "updateInfo"} /\ users'[id] = row[w]
      BY <1>1, <2>2, RequestShape DEF WriteTables
    <2>4. CASE req[w].op = "register"
      <3>1. row[w] = [account |-> req[w].account, name |-> req[w].name]
        BY <1>1, <2>4 DEF Staged
      <3>2. LockedAccount(w) = a
        BY <2>1, <2>3, <2>4, <3>1 DEF LockedAccount
      <3>3. QED BY <1>1, <3>2 DEF LocksHeld
    <2>5. CASE req[w].op = "updateInfo"
      BY <1>1, <2>1, <2>3, <2>5 DEF LockedAccount, LocksHeld
    <2>6. QED BY <2>3, <2>4, <2>5
  <1>6. QED BY <1>3, <1>4, <1>5

LEMMA FreshFinish ==
  ASSUME Inv, NEW w \in Workers, NEW code \in Codes, Finish(w, code),
         \/ UNCHANGED tables
         \/ pc[w] = "commit" /\ WriteTables(w)
  PROVE  PendingFresh' /\ CopiesFresh'
  <1> USE DEF Inv, StagedInv, TypeOK
  <1>1. /\ pc'[w] = "idle"
        /\ \A v \in Workers \ {w} :
             /\ pc'[v] = pc[v] /\ req'[v] = req[v] /\ uid'[v] = uid[v]
             /\ row'[v] = row[v] /\ cred'[v] = cred[v]
    BY DEF Finish, Respond, Goto
  <1>2. ASSUME NEW v \in Workers, v # w PROVE PendingOf(v)'
    <2>1. PendingOf(v) BY DEF PendingFresh, PendingOf
    <2>2. Serves(v, "register")' = Serves(v, "register") /\ HasUserLock(v)' = HasUserLock(v)
      BY <1>1, <1>2 DEF Serves, HasUserLock
    <2>3. \A u \in Workers : Serves(u, "register")' => Serves(u, "register") /\ u # w
      BY <1>1 DEF Serves
    <2>4. ASSUME Serves(v, "register") PROVE users'[uid[v]] = users[uid[v]]
      BY <1>2, <2>4, WriteLeavesRows DEF tables
    <2>5. ASSUME Serves(v, "register"), HasUserLock(v), ~Taken(req[v].account)
          PROVE ~Taken(req[v].account)'
      <3>1. /\ req[v].account \in Accounts /\ userLock[req[v].account] = v
        BY <2>5, RequestShape DEF Serves, Staged, LocksHeld, LockedAccount
      <3>2. CASE UNCHANGED tables
        BY <1>1, <1>2, <2>5, <3>2 DEF Taken, Owns, tables
      <3>3. CASE pc[w] = "commit" /\ WriteTables(w)
        <4>1. req'[v].account = req[v].account BY <1>1, <1>2
        <4>2. \A a \in Accounts : Taken(a)' /\ ~Taken(a) => userLock[a] = w
          BY <1>2, <3>3, WriteLeavesRows
        <4>3. ~\E id \in UserIds :
                users'[id] # Null /\ users'[id].account = req[v].account
          BY <1>2, <2>5, <3>1, <4>2 DEF Taken, Owns
        <4>4. QED BY <4>1, <4>3 DEF Taken, Owns
      <3>4. QED BY <3>2, <3>3
    <2>6. QED BY <1>1, <1>2, <2>1, <2>2, <2>3, <2>4, <2>5 DEF PendingOf
  <1>3. ASSUME NEW v \in Workers, v # w PROVE CopiesOf(v)'
    <2>1. CopiesOf(v) BY DEF CopiesFresh, CopiesOf
    <2>2. HasUserLock(v)' = HasUserLock(v) BY <1>1, <1>3 DEF HasUserLock
    <2>3. ASSUME HasUserLock(v)
          PROVE users'[uid[v]] = users[uid[v]] /\ creds'[uid[v]] = creds[uid[v]]
      BY <1>3, <2>3, WriteLeavesRows DEF tables
    <2>4. QED
      BY <1>1, <1>3, <2>1, <2>2, <2>3
      DEF CopiesOf, LoginFresh, UpdateInfoFresh, UpdatePasswordFresh, Owns, Verifies
  <1>4. PendingOf(w)' /\ CopiesOf(w)'
    BY <1>1 DEF PendingOf, CopiesOf, Serves, HasUserLock
  <1>5. QED
    BY <1>2, <1>3, <1>4 DEF PendingFresh, CopiesFresh, PendingOf, CopiesOf

LEMMA FreshRollback ==
  ASSUME Inv, NEW w \in Workers, NEW code \in Codes, Rollback(w, code)
  PROVE  PendingFresh' /\ CopiesFresh'
  BY FreshFinish DEF Rollback

\* A step of w inside its transaction: only its own claims need a proof.
LEMMA FreshAdvance ==
  ASSUME Inv, NEW w \in Workers, UNCHANGED <<tables, req>>, pc[w] # "idle",
         \A v \in Workers \ {w} :
           /\ pc'[v] = pc[v] /\ uid'[v] = uid[v]
           /\ row'[v] = row[v] /\ cred'[v] = cred[v],
         req[w].op = "register" =>
           /\ uid'[w] = uid[w]
           /\ HasUserLock(w)' => ~Taken(req[w].account),
         CopiesOf(w)'
  PROVE  PendingFresh' /\ CopiesFresh'
  <1>1. Serves(w, "register")' =>
          /\ Serves(w, "register") /\ uid'[w] = uid[w]
          /\ users[uid[w]] = Null
          /\ \A u \in Workers : Serves(u, "register") /\ uid[u] = uid[w] => u = w
    BY DEF Inv, PendingFresh, Serves
  <1>2. PendingOf(w)'
    BY <1>1 DEF PendingOf, Serves, Taken, Owns, tables
  <1>3. ASSUME NEW v \in Workers, v # w PROVE PendingOf(v)' /\ CopiesOf(v)'
    <2>1. PendingOf(v) /\ CopiesOf(v)
      BY DEF Inv, PendingFresh, CopiesFresh, PendingOf, CopiesOf
    <2>2. CopiesOf(v)'
      BY <1>3, <2>1
      DEF CopiesOf, LoginFresh, UpdateInfoFresh, UpdatePasswordFresh, Owns,
          Verifies, HasUserLock, tables
    <2>3. PendingOf(v)'
      BY <1>1, <1>3, <2>1 DEF PendingOf, Serves, HasUserLock, Taken, Owns, tables
    <2>4. QED BY <2>2, <2>3
  <1>4. QED
    BY <1>2, <1>3 DEF PendingFresh, CopiesFresh, PendingOf, CopiesOf

\* A new call: its registration, if it is one, takes an unused identifier.
LEMMA FreshBegin ==
  ASSUME Inv, NEW w \in Workers, Begin(w)
  PROVE  PendingFresh' /\ CopiesFresh'
  <1> USE DEF Inv, StagedInv, TypeOK, Goto
  <1>1. PICK r \in Request :
          /\ r.op = "register" => Unused(r.id)
          /\ req' = [req EXCEPT ![w] = r]
          /\ uid' = [uid EXCEPT ![w] = IF r.op = "login" THEN Null ELSE r.id]
          /\ pc' = [pc EXCEPT ![w] = FirstLabel(r)]
    BY DEF Begin
  <1>2. ~HasUserLock(w)' /\ req'[w] = r
    BY <1>1 DEF HasUserLock, FirstLabel
  <1>3. /\ UNCHANGED tables
        /\ \A v \in Workers \ {w} :
             /\ pc'[v] = pc[v] /\ req'[v] = req[v] /\ uid'[v] = uid[v]
             /\ row'[v] = row[v] /\ cred'[v] = cred[v]
    BY <1>1 DEF Begin
  <1>4. r.op = "register" =>
          /\ users[uid'[w]] = Null /\ \A v \in Workers : uid[v] # uid'[w]
    BY <1>1, RequestShape DEF Unused
  <1>5. ASSUME NEW v \in Workers PROVE PendingOf(v)' /\ CopiesOf(v)'
    <2>1. PendingOf(v) /\ CopiesOf(v)
      BY DEF PendingFresh, CopiesFresh, PendingOf, CopiesOf
    <2>2. CopiesOf(v)'
      BY <1>2, <1>3, <2>1
      DEF CopiesOf, LoginFresh, UpdateInfoFresh, UpdatePasswordFresh, Owns,
          Verifies, HasUserLock, tables
    <2>3. PendingOf(v)'
      BY <1>2, <1>3, <1>4, <2>1 DEF PendingOf, Serves, HasUserLock, Taken, Owns, tables
    <2>4. QED BY <2>2, <2>3
  <1>6. QED BY <1>5 DEF PendingFresh, CopiesFresh, PendingOf, CopiesOf

LEMMA FreshNext == Inv /\ [Next]_vars => PendingFresh' /\ CopiesFresh'
  <1> SUFFICES ASSUME Inv, [Next]_vars PROVE PendingFresh' /\ CopiesFresh'
    OBVIOUS
  <1> USE DEF Inv, StagedInv, TypeOK, Goto, locals, locks
  <1>P. ASSUME NEW w \in Workers PROVE PendingOf(w) /\ CopiesOf(w)
    BY DEF PendingFresh, CopiesFresh, PendingOf, CopiesOf
  <1>1. ASSUME NEW w \in Workers, Begin(w) PROVE PendingFresh' /\ CopiesFresh'
    BY <1>1, FreshBegin
  <1>2. ASSUME NEW w \in Workers, FindByAccount(w) PROVE PendingFresh' /\ CopiesFresh'
    <2>1. CASE Rollback(w, "UserNameDuplicated") BY <2>1, FreshRollback DEF Codes
    <2>2. CASE ~Rollback(w, "UserNameDuplicated")
      <3>1. pc'[w] = "insertUser" /\ UNCHANGED <<tables, req, uid, row, cred>>
        BY <1>2, <2>2 DEF FindByAccount
      <3>2. CopiesOf(w)' /\ ~HasUserLock(w)'
        BY <3>1 DEF CopiesOf, HasUserLock
      <3>3. QED BY <1>2, <2>2, <3>1, <3>2, FreshAdvance DEF FindByAccount
    <2>3. QED BY <2>1, <2>2
  <1>3. ASSUME NEW w \in Workers, InsertUser(w) PROVE PendingFresh' /\ CopiesFresh'
    <2>1. CASE Rollback(w, "UserNameDuplicated") BY <2>1, FreshRollback DEF Codes
    <2>2. CASE ~Rollback(w, "UserNameDuplicated")
      <3>1. /\ req[w].op = "register" /\ ~Taken(req[w].account)
            /\ UNCHANGED <<tables, req, uid, cred>>
        BY <1>3, <2>2 DEF InsertUser, Duplicate, Staged
      <3>2. CopiesOf(w)' BY <3>1 DEF CopiesOf
      <3>3. QED BY <1>3, <2>2, <3>1, <3>2, FreshAdvance DEF InsertUser
    <2>3. QED BY <2>1, <2>2
  <1>4. ASSUME NEW w \in Workers, InsertCredential(w) PROVE PendingFresh' /\ CopiesFresh'
    <2>1. req[w].op = "register" /\ HasUserLock(w) /\ Serves(w, "register")
      BY <1>4 DEF InsertCredential, Staged, HasUserLock, Serves
    <2>2. ~Taken(req[w].account) BY <1>P, <2>1 DEF PendingOf
    <2>3. CopiesOf(w)' BY <1>4, <2>1 DEF InsertCredential, CopiesOf
    <2>4. QED BY <1>4, <2>1, <2>2, <2>3, FreshAdvance DEF InsertCredential
  <1>5. ASSUME NEW w \in Workers, FindByAccountLock(w) PROVE PendingFresh' /\ CopiesFresh'
    <2>1. CASE Rollback(w, "UserNotExist") BY <2>1, FreshRollback DEF Codes
    <2>2. CASE ~Rollback(w, "UserNotExist")
      <3>1. req[w].op = "login" BY <1>5 DEF FindByAccountLock, Staged
      <3>2. CopiesOf(w)'
        BY <1>5, <2>2, <3>1
        DEF FindByAccountLock, CopiesOf, LoginFresh, Owns, Verifies, tables
      <3>3. QED BY <1>5, <2>2, <3>1, <3>2, FreshAdvance DEF FindByAccountLock
    <2>3. QED BY <2>1, <2>2
  <1>6. ASSUME NEW w \in Workers, ReadCredential(w) PROVE PendingFresh' /\ CopiesFresh'
    <2>1. CASE Rollback(w, "UserNotExist") \/ Rollback(w, "ServerError")
      BY <2>1, FreshRollback DEF Codes
    <2>2. CASE ~(Rollback(w, "UserNotExist") \/ Rollback(w, "ServerError"))
      <3>1. req[w].op = "login" /\ HasUserLock(w)
        BY <1>6 DEF ReadCredential, Staged, HasUserLock
      <3>2. CopiesOf(w)'
        BY <1>P, <1>6, <2>2, <3>1
        DEF ReadCredential, CopiesOf, LoginFresh, Owns, Verifies, tables
      <3>3. QED BY <1>6, <2>2, <3>1, <3>2, FreshAdvance DEF ReadCredential
    <2>3. QED BY <2>1, <2>2
  <1>7. ASSUME NEW w \in Workers, FindByUserIDLock(w) PROVE PendingFresh' /\ CopiesFresh'
    <2>1. CASE Rollback(w, "UserNotExist") BY <2>1, FreshRollback DEF Codes
    <2>2. CASE ~Rollback(w, "UserNotExist")
      <3>1. req[w].op \in {"updateInfo", "updatePassword"}
        BY <1>7 DEF FindByUserIDLock, Staged
      <3>2. /\ pc'[w] = IF req[w].op = "updateInfo" THEN "saveUser" ELSE "lockCred"
            /\ row'[w] = users[uid[w]] /\ users[uid[w]] # Null
            /\ UNCHANGED <<tables, req, uid, cred>>
        BY <1>7, <2>2 DEF FindByUserIDLock
      <3>3. CopiesOf(w)'
        BY <3>1, <3>2 DEF CopiesOf, UpdateInfoFresh, UpdatePasswordFresh, tables
      <3>4. QED BY <1>7, <2>2, <3>1, <3>2, <3>3, FreshAdvance DEF FindByUserIDLock
    <2>3. QED BY <2>1, <2>2
  <1>8. ASSUME NEW w \in Workers, SaveUser(w) PROVE PendingFresh' /\ CopiesFresh'
    <2>1. req[w].op = "updateInfo" /\ HasUserLock(w)
      BY <1>8 DEF SaveUser, Staged, HasUserLock
    <2>2. CopiesOf(w)'
      BY <1>P, <1>8, <2>1 DEF SaveUser, CopiesOf, UpdateInfoFresh, tables
    <2>3. QED BY <1>8, <2>1, <2>2, FreshAdvance DEF SaveUser
  <1>9. ASSUME NEW w \in Workers, FindCredentialLock(w) PROVE PendingFresh' /\ CopiesFresh'
    <2>1. CASE Rollback(w, "ServerError") BY <2>1, FreshRollback DEF Codes
    <2>2. CASE ~Rollback(w, "ServerError")
      <3>1. req[w].op = "updatePassword" /\ HasUserLock(w)
        BY <1>9 DEF FindCredentialLock, Staged, HasUserLock
      <3>2. CopiesOf(w)'
        BY <1>P, <1>9, <2>2, <3>1
        DEF FindCredentialLock, CopiesOf, UpdatePasswordFresh, tables
      <3>3. QED BY <1>9, <2>2, <3>1, <3>2, FreshAdvance DEF FindCredentialLock
    <2>3. QED BY <2>1, <2>2
  <1>10. ASSUME NEW w \in Workers, SaveCredential(w) PROVE PendingFresh' /\ CopiesFresh'
    <2>1. CASE Rollback(w, "UserNotExist") \/ Rollback(w, "ServerError")
      BY <2>1, FreshRollback DEF Codes
    <2>2. CASE ~(Rollback(w, "UserNotExist") \/ Rollback(w, "ServerError"))
      <3>1. req[w].op = "updatePassword" /\ HasUserLock(w) /\ cred[w] \in CredRow
        BY <1>10 DEF SaveCredential, Staged, HasUserLock
      <3>2. cred[w] = creds[uid[w]] /\ users[uid[w]] # Null /\ row[w] = users[uid[w]]
        BY <1>P, <1>10, <3>1 DEF SaveCredential, CopiesOf, UpdatePasswordFresh
      <3>3. CopiesOf(w)'
        BY <1>10, <2>2, <3>1, <3>2, StoreAssumption
        DEF SaveCredential, CopiesOf, UpdatePasswordFresh, Verifies, NextVersion,
            tables
      <3>4. QED BY <1>10, <2>2, <3>1, <3>3, FreshAdvance DEF SaveCredential
    <2>3. QED BY <2>1, <2>2
  <1>11. ASSUME NEW w \in Workers, Commit(w) \/ CommitError(w)
         PROVE PendingFresh' /\ CopiesFresh'
    BY <1>11, FreshFinish DEF Commit, CommitError, Codes
  <1>12. ASSUME NEW w \in Workers, DbError(w) PROVE PendingFresh' /\ CopiesFresh'
    BY <1>12, FreshRollback DEF DbError, Codes
  <1>13. CASE UNCHANGED vars
    BY <1>13
    DEF vars, tables, PendingFresh, CopiesFresh, LoginFresh, UpdateInfoFresh,
        UpdatePasswordFresh, Serves, HasUserLock, Taken, Owns, Verifies
  <1>14. QED
    BY <1>1, <1>2, <1>3, <1>4, <1>5, <1>6, <1>7, <1>8, <1>9, <1>10, <1>11,
       <1>12, <1>13 DEF Next, LockStep, PlainStep
-----------------------------------------------------------------------------
(* The theorems.                                                           *)

LEMMA InvNext == Inv /\ [Next]_vars => Inv'
  <1> SUFFICES ASSUME Inv, [Next]_vars PROVE Inv'
    OBVIOUS
  <1>1. StagedInv' BY StagedNext DEF Inv
  <1>2. LocksHeld' BY LocksNext
  <1>3. PendingFresh' /\ CopiesFresh' BY FreshNext
  <1>4. TablesOK /\ [StoreNext]_tables BY StepIsStoreStep DEF Inv, StagedInv, TypeOK
  <1>5. AccountUnique' BY <1>4, StoreKeepsAccountUnique DEF Inv
  <1>6. CredentialPerUser' BY <1>4, StoreKeepsCredentialPerUser DEF Inv
  <1>7. QED BY <1>1, <1>2, <1>3, <1>5, <1>6 DEF Inv

LEMMA Invariant == Spec => []Inv
  BY InvInit, InvNext, PTL DEF Spec

\* However many registrations race, an account belongs to one user.
THEOREM AccountsStayUnique == Spec => []AccountUnique
  <1>1. Inv => AccountUnique BY DEF Inv
  <1>2. QED BY <1>1, Invariant, PTL

\* A crash, an error or a refusal never leaves a user without a credential or
\* a credential without its user.
THEOREM CredentialsMatchUsers == Spec => []CredentialPerUser
  <1>1. Inv => CredentialPerUser BY DEF Inv
  <1>2. QED BY <1>1, Invariant, PTL

\* A row is locked by the transactions whose next statement needs it, and by no
\* other: no lock is left behind by a transaction that has ended.
THEOREM LocksReleased == Spec => []LocksHeld
  <1>1. Inv => LocksHeld BY DEF Inv
  <1>2. QED BY <1>1, Invariant, PTL

\* What a registration has inserted and not yet committed is not taken.
THEOREM RegistrationsFresh == Spec => []PendingFresh
  <1>1. Inv => PendingFresh BY DEF Inv
  <1>2. QED BY <1>1, Invariant, PTL

\* Locks are held by the transactions that took them, and what a transaction
\* read under them is still what is committed when it writes.
THEOREM TransactionsIsolated == Spec => [](LocksHeld /\ PendingFresh /\ CopiesFresh)
  <1>1. Inv => LocksHeld /\ PendingFresh /\ CopiesFresh BY DEF Inv
  <1>2. QED BY <1>1, Invariant, PTL

\* The lock on a credential is free when a change of the password asks for it:
\* its holder would hold the lock on the user's row as well.
LEMMA CredLockFree ==
  ASSUME Inv, NEW v \in Workers, pc[v] = "lockCred"
  PROVE  credLock[uid[v]] = Null
  <1> SUFFICES ASSUME NEW w \in Workers, credLock[uid[v]] = w PROVE FALSE
    BY DEF Inv, StagedInv, TypeOK, Staged, HasUserLock
  <1> USE DEF Inv
  <1>1. HasUserLock(v) /\ req[v].op = "updatePassword" /\ uid[v] \in UserIds
    BY DEF StagedInv, Staged, HasUserLock
  <1>2. HasCredLock(w) /\ uid[w] = uid[v] BY <1>1 DEF LocksHeld
  <1>3. HasUserLock(w) /\ req[w].op = "updatePassword"
    BY <1>2 DEF HasCredLock, HasUserLock, StagedInv, Staged
  <1>4. row[v] = users[uid[v]] /\ row[w] = users[uid[v]] /\ users[uid[v]] # Null
    BY <1>1, <1>2, <1>3 DEF CopiesFresh, UpdatePasswordFresh
  <1> DEFINE a == users[uid[v]].account
  <1>5. a \in Accounts
    BY <1>1, <1>4 DEF StagedInv, TypeOK, TablesOK, UserRow
  <1>6. LockedAccount(v) = a /\ LockedAccount(w) = a
    BY <1>1, <1>3, <1>4 DEF LockedAccount
  <1>7. userLock[a] = v /\ userLock[a] = w BY <1>1, <1>3, <1>5, <1>6 DEF LocksHeld
  <1>8. QED BY <1>2, <1>7 DEF HasCredLock

\* Who is waited for holds a lock on a user's row, and has asked for no lock
\* that is not free.
LEMMA WaitedForGoesOn ==
  ASSUME Inv, NEW u \in Workers, NEW v \in Workers, WaitsFor(u, v), NEW w \in Workers
  PROVE  ~WaitsFor(v, w)
  <1>1. ~(pc[u] = "lockCred" /\ credLock[uid[u]] = v)
    BY CredLockFree, WorkersAssumption
  <1>2. PICK a \in Accounts : userLock[a] = v
    <2>1. CASE pc[u] \in {"insertUser", "lockAccount"}
      BY <2>1, RequestShape DEF WaitsFor, Inv, StagedInv, Staged
    <2>2. CASE pc[u] = "lockUser"
      <3>1. uid[u] \in UserIds
        BY <2>2, RequestShape DEF Inv, StagedInv, Staged
      <3>2. users[uid[u]] # Null /\ userLock[users[uid[u]].account] = v
        BY <2>2 DEF WaitsFor
      <3>3. QED BY <3>1, <3>2 DEF Inv, StagedInv, TypeOK, TablesOK, UserRow
    <2>3. QED BY <1>1, <2>1, <2>2 DEF WaitsFor
  <1>3. HasUserLock(v) BY <1>2 DEF Inv, LocksHeld
  <1>4. QED BY <1>3, CredLockFree, WorkersAssumption DEF WaitsFor, HasUserLock

\* No transaction waits for one that waits: with any number of goroutines the
\* lock order of the service leaves no cycle of waits.
THEOREM WaitsEnd == Spec => []NoWaitChain
  <1>1. Inv => NoWaitChain BY WaitedForGoesOn DEF NoWaitChain
  <1>2. QED BY <1>1, Invariant, PTL

\* The concurrent transactions implement the atomic store.
THEOREM Implementation == Spec => ImplementsStore
  <1>1. Init => StoreInit BY DEF Init
  <1>2. Inv /\ [Next]_vars => [StoreNext]_tables BY StepIsStoreStep
  <1>3. QED BY <1>1, <1>2, Invariant, PTL DEF Spec, ImplementsStore, StoreSpec

\* Only its own step moves a worker.
LEMMA Mover ==
  ASSUME TypeOK, [Next]_vars, NEW w \in Workers, pc'[w] # pc[w]
  PROVE  Begin(w) \/ LockStep(w) \/ PlainStep(w) \/ CommitError(w) \/ DbError(w)
  <1>1. ASSUME NEW v \in Workers, v # w,
               Begin(v) \/ LockStep(v) \/ PlainStep(v) \/ CommitError(v) \/ DbError(v)
        PROVE FALSE
    BY <1>1
    DEF TypeOK, LockStep, PlainStep, Begin, FindByAccount, InsertUser,
        InsertCredential, FindByAccountLock, ReadCredential, FindByUserIDLock,
        SaveUser, FindCredentialLock, SaveCredential, Commit, CommitError,
        DbError, Rollback, Finish, Respond, Goto
  <1>2. QED BY <1>1 DEF Next, vars

LEMMA AnswersStep ==
  ASSUME Inv, [Next]_vars, NEW w \in Workers
  PROVE  /\ Answers(w, "ok") => Promise(req[w])
         /\ \A code \in {"UserNameDuplicated", "UserNotExist"} :
              Answers(w, code) => Refusal(req[w], code)
  <1> DEFINE Told == /\ Answers(w, "ok") => Promise(req[w])
                     /\ \A code \in {"UserNameDuplicated", "UserNotExist"} :
                          Answers(w, code) => Refusal(req[w], code)
  <1> USE DEF Inv, StagedInv, TypeOK, Goto
  <1>F. ASSUME NEW c \in Codes, Rollback(w, c),
               c \in {"UserNameDuplicated", "UserNotExist"} => Refusal(req[w], c),
               c # "ok"
        PROVE Told
    BY <1>F DEF Rollback, Finish, Respond, Answers
  <1>N. ASSUME pc'[w] # "idle" \/ pc[w] = "idle" PROVE Told
    BY <1>N DEF Answers
  <1>1. CASE Begin(w) BY <1>1, <1>N DEF Begin
  <1>2. CASE FindByAccount(w)
    <2>1. req[w].op = "register" BY <1>2 DEF FindByAccount, Staged
    <2>2. CASE Taken(req[w].account) /\ Rollback(w, "UserNameDuplicated")
      BY <2>1, <2>2, <1>F DEF Codes, Refusal, Rollback
    <2>3. CASE Goto(w, "insertUser") BY <2>3, <1>N
    <2>4. QED BY <1>2, <2>2, <2>3 DEF FindByAccount
  <1>3. CASE InsertUser(w)
    <2>1. req[w].op = "register" BY <1>3 DEF InsertUser, Staged
    <2>2. CASE Taken(req[w].account) /\ Rollback(w, "UserNameDuplicated")
      BY <2>1, <2>2, <1>F DEF Codes, Refusal, Rollback
    <2>3. CASE Goto(w, "insertCred") BY <2>3, <1>N
    <2>4. QED BY <1>3, <2>2, <2>3 DEF InsertUser, Duplicate
  <1>4. CASE InsertCredential(w) BY <1>4, <1>N DEF InsertCredential
  <1>5. CASE FindByAccountLock(w)
    <2>1. req[w].op = "login" BY <1>5 DEF FindByAccountLock, Staged
    <2>2. CASE ~Taken(req[w].account) /\ Rollback(w, "UserNotExist")
      BY <2>1, <2>2, <1>F DEF Codes, Refusal, Rollback, Taken
    <2>3. CASE Goto(w, "readCred") BY <2>3, <1>N
    <2>4. QED BY <1>5, <2>2, <2>3 DEF FindByAccountLock
  <1>6. CASE ReadCredential(w)
    <2>1. /\ req[w].op = "login" /\ HasUserLock(w) /\ uid[w] \in UserIds
          /\ req[w].account \in Accounts
      BY <1>6, RequestShape DEF ReadCredential, Staged, HasUserLock
    <2>2. Owns(uid[w], req[w].account)
      BY <2>1 DEF CopiesFresh, LoginFresh
    <2>3. \A id \in UserIds : Owns(id, req[w].account) => id = uid[w]
      BY <2>1, <2>2 DEF AccountUnique
    <2>4. CASE /\ creds[uid[w]].password # req[w].password
               /\ Rollback(w, "UserNotExist")
      BY <2>1, <2>3, <2>4, <1>F DEF Codes, Refusal, Rollback, Verifies
    <2>5. CASE Rollback(w, "ServerError") BY <2>5, <1>F DEF Codes
    <2>6. CASE Goto(w, "commit") BY <2>6, <1>N
    <2>7. QED BY <1>6, <2>4, <2>5, <2>6 DEF ReadCredential
  <1>7. CASE FindByUserIDLock(w)
    <2>1. /\ req[w].op \in {"updateInfo", "updatePassword"}
          /\ uid[w] = req[w].id
      BY <1>7 DEF FindByUserIDLock, Staged
    <2>2. CASE users[uid[w]] = Null /\ Rollback(w, "UserNotExist")
      BY <2>1, <2>2, <1>F DEF Codes, Refusal, Rollback
    <2>3. CASE Goto(w, IF req[w].op = "updateInfo" THEN "saveUser" ELSE "lockCred")
      BY <2>3, <1>N
    <2>4. QED BY <1>7, <2>2, <2>3 DEF FindByUserIDLock
  <1>8. CASE SaveUser(w) BY <1>8, <1>N DEF SaveUser
  <1>9. CASE FindCredentialLock(w)
    <2>1. CASE Rollback(w, "ServerError") BY <2>1, <1>F DEF Codes
    <2>2. CASE Goto(w, "saveCred") BY <2>2, <1>N
    <2>3. QED BY <1>9, <2>1, <2>2 DEF FindCredentialLock
  <1>10. CASE SaveCredential(w)
    <2>1. /\ req[w].op = "updatePassword" /\ HasUserLock(w)
          /\ uid[w] = req[w].id /\ cred[w] = creds[uid[w]]
      BY <1>10 DEF SaveCredential, Staged, HasUserLock, CopiesFresh, UpdatePasswordFresh
    <2>2. CASE cred[w].password # req[w].old /\ Rollback(w, "UserNotExist")
      BY <2>1, <2>2, <1>F DEF Codes, Refusal, Rollback, Verifies
    <2>3. CASE Rollback(w, "ServerError") BY <2>3, <1>F DEF Codes
    <2>4. CASE Goto(w, "commit") BY <2>4, <1>N
    <2>5. QED BY <1>10, <2>2, <2>3, <2>4 DEF SaveCredential
  <1>11. CASE Commit(w)
    <2>1. Promise(req[w]) BY <1>11, CommitPromise DEF Commit
    <2>2. QED BY <1>11, <2>1 DEF Commit, Finish, Respond, Answers
  <1>12. CASE CommitError(w) BY <1>12 DEF CommitError, Finish, Respond, Answers
  <1>13. CASE DbError(w) BY <1>13, <1>F DEF DbError, Codes
  <1>14. CASE pc'[w] = pc[w] BY <1>14, <1>N
  <1>15. QED
    BY <1>1, <1>2, <1>3, <1>4, <1>5, <1>6, <1>7, <1>8, <1>9, <1>10, <1>11,
       <1>12, <1>13, <1>14, Mover DEF LockStep, PlainStep

\* Every success is the whole effect of its call, every business error is the
\* truth, at the step that gives the answer.
THEOREM AnswersAreLinearised == Spec => AnswersLinearised
  <1>1. Inv /\ [Next]_vars =>
          [\A w \in Workers :
             /\ Answers(w, "ok") => Promise(req[w])
             /\ \A code \in {"UserNameDuplicated", "UserNotExist"} :
                  Answers(w, code) => Refusal(req[w], code)]_vars
    BY AnswersStep
  <1>2. QED BY <1>1, Invariant, PTL DEF Spec, AnswersLinearised
=============================================================================

---------------------------- MODULE UserService ----------------------------
(***************************************************************************)
(* The transactions of biz/service/user/user.go over the repositories of   *)
(* biz/dal/repo, run concurrently by the goroutines that serve requests.   *)
(* Every SQL statement is a step.  A transaction sees committed rows, keeps *)
(* its own writes to itself until COMMIT, and holds the row locks it took  *)
(* (SELECT ... FOR UPDATE, or the insert of a row) until it ends.          *)
(*                                                                         *)
(* Left out: InnoDB's gap lock on an account that does not exist and the   *)
(* shared lock of an insert that waits for another one, which delay an      *)
(* insert or end it as a deadlock victim (DbError); created_at/updated_at; *)
(* soft deletion, which no operation of the service performs.              *)
(***************************************************************************)
EXTENDS CredentialStore

CONSTANT Workers  \* goroutines serving requests, one transaction at a time

RegisterReq == [op : {"register"}, id : UserIds, account : Accounts,
                name : Names, password : Passwords]
LoginReq == [op : {"login"}, account : Accounts, password : Passwords]
UpdateInfoReq == [op : {"updateInfo"}, id : UserIds, name : Names]
UpdatePasswordReq == [op : {"updatePassword"}, id : UserIds,
                      old : Passwords, new : Passwords]
Request == RegisterReq \cup LoginReq \cup UpdateInfoReq \cup UpdatePasswordReq

ASSUME WorkersAssumption == Null \notin Workers /\ Null \notin Request

VARIABLES pc,        \* pc[w]: the statement w executes next
          req,       \* req[w]: the call w serves
          uid,       \* uid[w]: the user the transaction works on
          row,       \* row[w]: w's copy of the `users` row, written on commit
          cred,      \* cred[w]: w's copy of the `user_credentials` row
          userLock,  \* userLock[a]: the holder of the lock on account a's row
          credLock,  \* credLock[id]: the holder of the lock on id's credential
          answer     \* answer[w]: the error code of w's last call

locals == <<uid, row, cred>>
locks == <<userLock, credLock>>
vars == <<tables, pc, req, locals, locks, answer>>

Labels == {"idle", "findAccount", "insertUser", "insertCred", "lockAccount",
           "readCred", "lockUser", "saveUser", "lockCred", "saveCred", "commit"}
Codes == {"none", "ok", "UserNameDuplicated", "UserNotExist", "ServerError"}

Init ==
  /\ StoreInit
  /\ pc = [w \in Workers |-> "idle"]
  /\ req = [w \in Workers |-> Null]
  /\ uid = [w \in Workers |-> Null]
  /\ row = [w \in Workers |-> Null]
  /\ cred = [w \in Workers |-> Null]
  /\ userLock = [a \in Accounts |-> Null]
  /\ credLock = [id \in UserIds |-> Null]
  /\ answer = [w \in Workers |-> "none"]
-----------------------------------------------------------------------------
Goto(w, label) == pc' = [pc EXCEPT ![w] = label]

\* A row lock is granted only when no transaction holds it.
GrantedToAll(lock) == TRUE
Granted(lock) == lock = Null

\* The locks a transaction holds are released when it ends.
Release(w) ==
  /\ userLock' = [a \in Accounts |-> IF userLock[a] = w THEN Null ELSE userLock[a]]
  /\ credLock' = [id \in UserIds |-> IF credLock[id] = w THEN Null ELSE credLock[id]]

\* The call is answered and the transaction ends: COMMIT or ROLLBACK.
Respond(w, code) ==
  /\ Goto(w, "idle")
  /\ answer' = [answer EXCEPT ![w] = code]
  /\ req' = [req EXCEPT ![w] = Null]
  /\ uid' = [uid EXCEPT ![w] = Null]
  /\ row' = [row EXCEPT ![w] = Null]
  /\ cred' = [cred EXCEPT ![w] = Null]

EndForgotten(w, code) == Respond(w, code) /\ UNCHANGED locks
Finish(w, code) == Respond(w, code) /\ Release(w)

Rollback(w, code) == Finish(w, code) /\ UNCHANGED tables

\* A call arrives.  uuid.New() never repeats an identifier.
Unused(id) == users[id] = Null /\ \A v \in Workers : uid[v] # id

FirstLabel(r) == CASE r.op = "register" -> "findAccount"
                   [] r.op = "login" -> "lockAccount"
                   [] OTHER -> "lockUser"

Begin(w) ==
  /\ pc[w] = "idle"
  /\ \E r \in Request :
       /\ r.op = "register" => Unused(r.id)
       /\ req' = [req EXCEPT ![w] = r]
       /\ uid' = [uid EXCEPT ![w] = IF r.op = "login" THEN Null ELSE r.id]
       /\ Goto(w, FirstLabel(r))
  /\ answer' = [answer EXCEPT ![w] = "none"]
  /\ UNCHANGED <<tables, row, cred, locks>>
-----------------------------------------------------------------------------
(* Register: SELECT by account, INSERT user, INSERT credential.            *)

FindByAccount(w) ==
  /\ pc[w] = "findAccount"
  /\ \/ /\ Taken(req[w].account)
        /\ Rollback(w, "UserNameDuplicated")
     \/ /\ ~Taken(req[w].account)
        /\ Goto(w, "insertUser")
        /\ UNCHANGED <<tables, req, locals, locks, answer>>

\* The unique index on `account`: the insert waits for a transaction that
\* holds the entry, then fails with error 1062 if the account is committed.
DuplicateIgnored(a) == FALSE
Duplicate(a) == Taken(a)

InsertUser(w) ==
  LET a == req[w].account IN
  /\ pc[w] = "insertUser"
  /\ Granted(userLock[a])
  /\ \/ /\ Duplicate(a)
        /\ Rollback(w, "UserNameDuplicated")
     \/ /\ ~Duplicate(a)
        /\ userLock' = [userLock EXCEPT ![a] = w]
        /\ row' = [row EXCEPT ![w] = [account |-> a, name |-> req[w].name]]
        /\ Goto(w, "insertCred")
        /\ UNCHANGED <<tables, req, uid, cred, credLock, answer>>

InsertCredential(w) ==
  /\ pc[w] = "insertCred"
  /\ cred' = [cred EXCEPT ![w] = [password |-> req[w].password, version |-> 0]]
  /\ Goto(w, "commit")
  /\ UNCHANGED <<tables, req, uid, row, locks, answer>>
-----------------------------------------------------------------------------
(* Login: SELECT user FOR UPDATE, SELECT credential, compare.              *)

FindByAccountLock(w) ==
  LET a == req[w].account IN
  /\ pc[w] = "lockAccount"
  /\ Granted(userLock[a])
  /\ \/ /\ ~Taken(a)
        /\ Rollback(w, "UserNotExist")
     \/ \E id \in UserIds :
          /\ Owns(id, a)
          /\ uid' = [uid EXCEPT ![w] = id]
          /\ userLock' = [userLock EXCEPT ![a] = w]
          /\ Goto(w, "readCred")
          /\ UNCHANGED <<tables, req, row, cred, credLock, answer>>

\* PasswordIncorrect is the same error value as UserNotExist.
ReadCredential(w) ==
  LET c == creds[uid[w]] IN
  /\ pc[w] = "readCred"
  /\ \/ c = Null /\ Rollback(w, "ServerError")
     \/ c # Null /\ c.password # req[w].password /\ Rollback(w, "UserNotExist")
     \/ /\ Verifies(uid[w], req[w].password)
        /\ cred' = [cred EXCEPT ![w] = c]
        /\ Goto(w, "commit")
        /\ UNCHANGED <<tables, req, uid, row, locks, answer>>
-----------------------------------------------------------------------------
(* UpdateInfo and UpdatePassword: SELECT user FOR UPDATE by user_id, then   *)
(* save the renamed row, or lock, verify and save the credential.          *)

FindByUserIDLock(w) ==
  LET id == uid[w] IN
  /\ pc[w] = "lockUser"
  /\ \/ /\ users[id] = Null
        /\ Rollback(w, "UserNotExist")
     \/ /\ users[id] # Null
        /\ Granted(userLock[users[id].account])
        /\ userLock' = [userLock EXCEPT ![users[id].account] = w]
        /\ row' = [row EXCEPT ![w] = users[id]]
        /\ Goto(w, IF req[w].op = "updateInfo" THEN "saveUser" ELSE "lockCred")
        /\ UNCHANGED <<tables, req, uid, cred, credLock, answer>>

SaveUser(w) ==
  /\ pc[w] = "saveUser"
  /\ row' = [row EXCEPT ![w] = [row[w] EXCEPT !.name = req[w].name]]
  /\ Goto(w, "commit")
  /\ UNCHANGED <<tables, req, uid, cred, locks, answer>>

FindCredentialLock(w) ==
  LET id == uid[w] IN
  /\ pc[w] = "lockCred"
  /\ \/ /\ creds[id] = Null
        /\ Rollback(w, "ServerError")
     \/ /\ creds[id] # Null
        /\ Granted(credLock[id])
        /\ credLock' = [credLock EXCEPT ![id] = w]
        /\ cred' = [cred EXCEPT ![w] = creds[id]]
        /\ Goto(w, "saveCred")
        /\ UNCHANGED <<tables, req, uid, row, userLock, answer>>

\* The hash is compared with the copy read under the lock.  The UPDATE fails
\* when the new version does not fit the column.
VersionKept(v) == v
VersionLowered(v) == v - 1
NextVersion(v) == v + 1

SaveCredential(w) ==
  LET c == cred[w] IN
  /\ pc[w] = "saveCred"
  /\ \/ c.password # req[w].old /\ Rollback(w, "UserNotExist")
     \/ /\ c.password = req[w].old
        /\ c.version = MaxVersion
        /\ Rollback(w, "ServerError")
     \/ /\ c.password = req[w].old
        /\ c.version < MaxVersion
        /\ cred' = [cred EXCEPT ![w] = [password |-> req[w].new,
                                        version |-> NextVersion(c.version)]]
        /\ Goto(w, "commit")
        /\ UNCHANGED <<tables, req, uid, row, locks, answer>>
-----------------------------------------------------------------------------
(* The end of a transaction.  A COMMIT whose acknowledgement is lost is     *)
(* reported as a server error whether or not it took effect.               *)

WriteUserOnly(w) ==
  /\ users' = IF req[w].op \in {"register", "updateInfo"}
              THEN [users EXCEPT ![uid[w]] = row[w]] ELSE users
  /\ creds' = IF req[w].op = "updatePassword"
              THEN [creds EXCEPT ![uid[w]] = cred[w]] ELSE creds
WriteTables(w) ==
  /\ users' = IF req[w].op \in {"register", "updateInfo"}
              THEN [users EXCEPT ![uid[w]] = row[w]] ELSE users
  /\ creds' = IF req[w].op \in {"register", "updatePassword"}
              THEN [creds EXCEPT ![uid[w]] = cred[w]] ELSE creds

Commit(w) == pc[w] = "commit" /\ WriteTables(w) /\ Finish(w, "ok")

CommitError(w) == /\ pc[w] = "commit"
                  /\ WriteTables(w) \/ UNCHANGED tables
                  /\ Finish(w, "ServerError")

\* Any statement may fail: lost connection, deadlock victim, lock timeout.
DbError(w) == pc[w] \notin {"idle", "commit"} /\ Rollback(w, "ServerError")
-----------------------------------------------------------------------------
LockStep(w) == InsertUser(w) \/ FindByAccountLock(w)
               \/ FindByUserIDLock(w) \/ FindCredentialLock(w)
PlainStep(w) == FindByAccount(w) \/ InsertCredential(w) \/ ReadCredential(w)
                \/ SaveUser(w) \/ SaveCredential(w) \/ Commit(w)

Next == \E w \in Workers : Begin(w) \/ LockStep(w) \/ PlainStep(w)
                           \/ CommitError(w) \/ DbError(w)

Spec == Init /\ [][Next]_vars

\* A goroutine that is not waiting for a lock goes on; MySQL queues the
\* transactions that wait for a row lock, so none is passed over forever.
Fairness == \A w \in Workers : WF_vars(PlainStep(w)) /\ SF_vars(LockStep(w))
FairSpec == Spec /\ Fairness
-----------------------------------------------------------------------------
(* Properties.                                                             *)

\* Every variable holds a value of its type.
TypeOK ==
  /\ TablesOK
  /\ pc \in [Workers -> Labels]
  /\ req \in [Workers -> Request \cup {Null}]
  /\ uid \in [Workers -> UserIds \cup {Null}]
  /\ row \in [Workers -> UserRow \cup {Null}]
  /\ cred \in [Workers -> CredRow \cup {Null}]
  /\ userLock \in [Accounts -> Workers \cup {Null}]
  /\ credLock \in [UserIds -> Workers \cup {Null}]
  /\ answer \in [Workers -> Codes]

\* However registrations interleave, an account belongs to one user
\* (Register looks the account up without a lock; the index decides).
AccountUnique ==
  \A i, j \in UserIds : \A a \in Accounts : Owns(i, a) /\ Owns(j, a) => i = j

\* A committed user has a committed credential and conversely, so the branch
\* "Inconsistent data state" of Login is never taken.
CredentialPerUser == \A id \in UserIds : users[id] = Null <=> creds[id] = Null

Serves(w, op) == pc[w] # "idle" /\ req[w].op = op
HasUserLock(w) == pc[w] \in {"readCred", "insertCred", "saveUser", "lockCred",
                             "saveCred", "commit"}
HasCredLock(w) == \/ pc[w] = "saveCred"
                  \/ pc[w] = "commit" /\ req[w].op = "updatePassword"
LockedAccount(w) == IF req[w].op \in {"register", "login"}
                    THEN req[w].account ELSE row[w].account

\* A row lock is held exactly by the transaction that took it, from the
\* statement that took it to the end: none is shared, lost or left behind.
LocksHeld ==
  \A w \in Workers :
    /\ \A a \in Accounts :
         userLock[a] = w <=> HasUserLock(w) /\ LockedAccount(w) = a
    /\ \A id \in UserIds : credLock[id] = w <=> HasCredLock(w) /\ uid[w] = id

\* Two registrations under way have identifiers of their own, in no table; one
\* that has passed its insert is the only claim on its account.
PendingFresh ==
  \A w \in Workers : Serves(w, "register") =>
    /\ users[uid[w]] = Null
    /\ \A v \in Workers : Serves(v, "register") /\ uid[v] = uid[w] => v = w
    /\ HasUserLock(w) => ~Taken(req[w].account)

\* The rows a transaction decides on and writes back, read several statements
\* ago, are still the committed ones: what it verified still holds and what it
\* writes is the successor of what it replaces.
LoginFresh(w) ==
  /\ Owns(uid[w], req[w].account)
  /\ pc[w] = "commit" => Verifies(uid[w], req[w].password)
UpdateInfoFresh(w) ==
  /\ users[uid[w]] # Null
  /\ row[w] = IF pc[w] = "saveUser" THEN users[uid[w]]
              ELSE [users[uid[w]] EXCEPT !.name = req[w].name]
UpdatePasswordFresh(w) ==
  /\ users[uid[w]] # Null
  /\ row[w] = users[uid[w]]
  /\ pc[w] = "saveCred" => cred[w] = creds[uid[w]]
  /\ pc[w] = "commit" =>
       /\ Verifies(uid[w], req[w].old)
       /\ creds[uid[w]].version < MaxVersion
       /\ cred[w] = [password |-> req[w].new,
                     version |-> creds[uid[w]].version + 1]
CopiesFresh ==
  \A w \in Workers : HasUserLock(w) =>
    /\ req[w].op = "login" => LoginFresh(w)
    /\ req[w].op = "updateInfo" => UpdateInfoFresh(w)
    /\ req[w].op = "updatePassword" => UpdatePasswordFresh(w)

\* What a call with an answer other than a server error has done, as one
\* indivisible operation with the arguments of that call.
Promise(r) ==
  \/ r.op = "register" /\ Register(r.id, r.account, r.name, r.password)
  \/ /\ r.op = "login" /\ UNCHANGED tables
     /\ \E id \in UserIds : Owns(id, r.account) /\ Verifies(id, r.password)
  \/ r.op = "updateInfo" /\ Rename(r.id, r.name)
  \/ r.op = "updatePassword" /\ ChangePassword(r.id, r.old, r.new)
Refusal(r, code) ==
  /\ UNCHANGED tables
  /\ code = "UserNameDuplicated" => r.op = "register" /\ Taken(r.account)
  /\ code = "UserNotExist" =>
       CASE r.op = "login" ->
              ~\E id \in UserIds : Owns(id, r.account) /\ Verifies(id, r.password)
         [] r.op = "updateInfo" -> users[r.id] = Null
         [] r.op = "updatePassword" -> users[r.id] = Null \/ ~Verifies(r.id, r.old)
         [] OTHER -> FALSE

Answers(w, code) == pc[w] # "idle" /\ pc'[w] = "idle" /\ answer'[w] = code

\* Each answer is linearised at the step that gives it: a success has the
\* effect the call asked for on the tables as they are at that moment, so a
\* password is changed only by one who knows the password in force, and no
\* update is lost; a business error is true of the tables at that moment.
AnswersLinearised ==
  [][\A w \in Workers :
       /\ Answers(w, "ok") => Promise(req[w])
       /\ \A code \in {"UserNameDuplicated", "UserNotExist"} :
            Answers(w, code) => Refusal(req[w], code)]_vars

\* The transactions implement the atomic store: no step of any interleaving
\* shows a half-done registration, a lost update or a skipped version.
ImplementsStore == StoreSpec

\* w's statement needs a row lock that v's transaction holds.
WaitsFor(w, v) ==
  \/ pc[w] \in {"insertUser", "lockAccount"} /\ userLock[req[w].account] = v
  \/ /\ pc[w] = "lockUser" /\ users[uid[w]] # Null
     /\ userLock[users[uid[w]].account] = v
  \/ pc[w] = "lockCred" /\ credLock[uid[w]] = v

\* A transaction that another waits for does not wait itself, so the locks the
\* service asks for in its statements never form a cycle of waits, however many
\* transactions there are: whoever waits for a user's row holds nothing, and the
\* credential's lock, asked for under the lock of its user's row, is free.
NoWaitChain ==
  \A u, v, w \in Workers : ~(WaitsFor(u, v) /\ WaitsFor(v, w))

\* No call waits forever: the order in which the transactions lock the user
\* and then the credential excludes a deadlock.
EveryCallAnswered == \A w \in Workers : pc[w] # "idle" ~> pc[w] = "idle"
=============================================================================

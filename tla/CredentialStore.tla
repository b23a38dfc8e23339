-------------------------- MODULE CredentialStore --------------------------
(***************************************************************************)
(* What the user service (biz/service/user) promises about the two MySQL   *)
(* tables `users` and `user_credentials`: every call that changes them is  *)
(* one indivisible step.  UserService shows that the transactions of the   *)
(* code implement this specification; AuthSession builds on it.            *)
(*                                                                         *)
(* A password and its salted SHA-256 hash are identified: comparing        *)
(* EncodePassword(salt, p) with the stored hash is comparing passwords.    *)
(***************************************************************************)
EXTENDS Naturals

CONSTANTS UserIds, Accounts, Names, Passwords,
          MaxVersion,  \* largest value of the column credential_version
          Null         \* no row, no user, no worker

UserRow == [account : Accounts, name : Names]
CredRow == [password : Passwords, version : 0..MaxVersion]

ASSUME StoreAssumption ==
  /\ MaxVersion \in Nat
  /\ Null \notin UserIds
  /\ Null \notin UserRow
  /\ Null \notin CredRow

VARIABLES users,  \* users[id]: the committed row of table `users`, or Null
          creds   \* creds[id]: the committed row of `user_credentials`, or Null

tables == <<users, creds>>

TablesOK == /\ users \in [UserIds -> UserRow \cup {Null}]
            /\ creds \in [UserIds -> CredRow \cup {Null}]

StoreInit == /\ users = [id \in UserIds |-> Null]
             /\ creds = [id \in UserIds |-> Null]

Owns(id, a) == users[id] # Null /\ users[id].account = a
Taken(a) == \E id \in UserIds : Owns(id, a)
Verifies(id, p) == creds[id] # Null /\ creds[id].password = p

Register(id, a, n, p) ==
  /\ users[id] = Null
  /\ ~Taken(a)
  /\ users' = [users EXCEPT ![id] = [account |-> a, name |-> n]]
  /\ creds' = [creds EXCEPT ![id] = [password |-> p, version |-> 0]]

Rename(id, n) ==
  /\ users[id] # Null
  /\ users' = [users EXCEPT ![id] = [users[id] EXCEPT !.name = n]]
  /\ UNCHANGED creds

ChangeKeepsVersion(id, old, new) ==
  /\ Verifies(id, old)
  /\ creds' = [creds EXCEPT ![id] = [creds[id] EXCEPT !.password = new]]
  /\ UNCHANGED users
ChangeOverflows(id, old, new) ==
  /\ Verifies(id, old)
  /\ creds' = [creds EXCEPT ![id] = [password |-> new,
                                     version |-> creds[id].version + 1]]
  /\ UNCHANGED users
\* The UPDATE fails when the version does not fit its column.
ChangePassword(id, old, new) ==
  /\ Verifies(id, old)
  /\ creds[id].version < MaxVersion
  /\ creds' = [creds EXCEPT ![id] = [password |-> new,
                                     version |-> creds[id].version + 1]]
  /\ UNCHANGED users

StoreNext ==
  \E id \in UserIds :
    \/ \E a \in Accounts, n \in Names, p \in Passwords : Register(id, a, n, p)
    \/ \E n \in Names : Rename(id, n)
    \/ \E old, new \in Passwords : ChangePassword(id, old, new)

StoreSpec == StoreInit /\ [][StoreNext]_tables
=============================================================================

--------------------------- MODULE LoginSessions ---------------------------
(***************************************************************************)
(* What the login sessions of the server promise, without the versions      *)
(* that carry the promise out: a login opens a session, valid only if the   *)
(* password shown is the one in force; a change of the password makes all   *)
(* sessions of the user invalid at once, wherever they are; and an invalid  *)
(* session never becomes valid again, it can only be closed or replaced.   *)
(***************************************************************************)
CONSTANTS Sids, UserIds, Passwords, Null

VARIABLES password,  \* password[u]: the password of u in force
          sess       \* sess[s]: the session opened on s, or Null

OpenSession == [user : UserIds, shown : Passwords, valid : BOOLEAN]

SessionsInit == /\ password \in [UserIds -> Passwords]
                /\ sess = [s \in Sids |-> Null]

Open(s) == /\ \E o \in OpenSession : /\ o.valid => o.shown = password[o.user]
                                     /\ sess' = [sess EXCEPT ![s] = o]
           /\ UNCHANGED password

Close(s) == sess' = [sess EXCEPT ![s] = Null] /\ UNCHANGED password

Outdated(x) == [user |-> x.user, shown |-> x.shown, valid |-> FALSE]
Change(u) ==
  /\ \E p \in Passwords : password' = [password EXCEPT ![u] = p]
  /\ sess' = [s \in Sids |-> IF sess[s] # Null /\ sess[s].user = u
                             THEN Outdated(sess[s]) ELSE sess[s]]

SessionsNext == \/ \E s \in Sids : Open(s) \/ Close(s)
                \/ \E u \in UserIds : Change(u)

SessionsSpec == SessionsInit /\ [][SessionsNext]_<<password, sess>>
=============================================================================

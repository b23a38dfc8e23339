--------------------------- MODULE MCAuthSession ---------------------------
\* TLC instance of AuthSession: identities are interchangeable.
EXTENDS AuthSession, FiniteSets, TLC

Symmetry == Permutations(Workers) \cup Permutations(UserIds)
            \cup Permutations(Accounts) \cup Permutations(Passwords)
            \cup Permutations(Sids)

\* Bound of the run with two cookies and two users: two pairs of a session and
\* a user who has logged in on it, two live access tokens.
FewLogins == Cardinality(logins) <= 2 /\ Cardinality(access) <= 2
=============================================================================

\* Two users and two session cookies, so that a token may come with the wrong
\* cookie; no password is ever changed.
CONSTANTS
  Workers = {w1, w2}
  Sids = {s1, s2}
  UserIds = {u1, u2}
  Accounts = {a1, a2}
  Names = {n1}
  Passwords = {p1}
  MaxVersion = 0
  Null = Null
SPECIFICATION Spec
SYMMETRY Symmetry
INVARIANTS ActsForLoggedInUser
CONSTRAINT FewLogins

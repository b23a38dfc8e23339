\* Two concurrent requests of one user on one session.
CONSTANTS
  Workers = {w1, w2}
  Sids = {s1}
  UserIds = {u1}
  Accounts = {a1}
  Names = {n1}
  Passwords = {p1, p2}
  MaxVersion = 2
  Null = Null
SPECIFICATION Spec
SYMMETRY Symmetry
INVARIANTS TypeOK SessionProvesPassword LogoutEndsSession ChangeEndsSession
PROPERTY ImplementsSessions

\* Two users log in one after the other on one session cookie.
CONSTANTS
  Workers = {w1}
  Sids = {s1}
  UserIds = {u1, u2}
  Accounts = {a1, a2}
  Names = {n1}
  Passwords = {p1}
  MaxVersion = 1
  Null = Null
SPECIFICATION Spec
SYMMETRY Symmetry
INVARIANTS ChangeEndsSession

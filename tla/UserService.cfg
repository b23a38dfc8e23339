\* Two concurrent transactions, two accounts, two users, two passwords; the
\* version column holds 0..2.  No symmetry: TLC's liveness checking is unsound
\* with it.
CONSTANTS
  Workers = {w1, w2}
  UserIds = {u1, u2}
  Accounts = {a1, a2}
  Names = {n1}
  Passwords = {p1, p2}
  MaxVersion = 2
  Null = Null
SPECIFICATION FairSpec
INVARIANTS TypeOK AccountUnique CredentialPerUser CopiesFresh NoWaitChain
PROPERTIES AnswersLinearised ImplementsStore EveryCallAnswered

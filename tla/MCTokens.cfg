\* Two requests at a time on the pair of tokens of one login: a refresh redeems
\* its token and then gets no new pair.  A token lives long enough to be redeemed,
\* die of it, and still have claims left.
CONSTANTS
  AccessIds = {a1}
  RefreshIds = {r1}
  Workers = {w1, w2}
  AccessLife = 3
  RefreshLife = 4
  TokenRemovalTTL = 2
  Null = Null
SPECIFICATION Spec
SYMMETRY Symmetry
INVARIANTS TypeOK GraceHonoured RemovedTokensDie
PROPERTY StaysDead

\* Three concurrent logins from one address for one account: as many as it takes
\* to keep an address blocked by turns.  No symmetry: TLC's liveness checking is
\* unsound with it.
CONSTANTS
  IPs = {i1}
  Accounts = {a1}
  Workers = {w1, w2, w3}
  FailWindow = 2
  Limit = 2
  SuccessWindow = 1
  SuccessLimit = 2
  BlockMin = 2
  BlockHour = 2
  FailLevel = 2
  MaxFaults = 1
  Null = Null
SPECIFICATION FairSpec
INVARIANTS TypeOK BlockedNotServed OverLimitBlocked FailuresBounded SuccessesBounded BlockRemembered
PROPERTY BlockEnds

\* Three concurrent registrations from two addresses; MaxMade is one more than
\* RegistrationsBounded allows.
CONSTANTS
  IPs = {i1, i2}
  Workers = {w1, w2, w3}
  BlockTime = 2
  MaxFaults = 2
  MaxMade = 6
  Null = Null
SPECIFICATION Spec
SYMMETRY Symmetry
INVARIANT RegistrationsBounded

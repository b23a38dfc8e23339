\* What the comment of NewRegisterProtection says, with two requests at once.
CONSTANTS
  IPs = {i1}
  Workers = {w1, w2}
  BlockTime = 2
  MaxFaults = 0
  MaxMade = 3
  Null = Null
SPECIFICATION Spec
PROPERTIES OneRegistration

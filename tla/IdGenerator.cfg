\* Three requests on a pool of two, two goroutines that stop it.  The process
\* may die of a panic.
CONSTANTS
  Requests = {r1, r2, r3}
  Stoppers = {s1, s2}
  Size = 2
SPECIFICATION Spec
INVARIANTS StopsRepeatable WaitersReached
PROPERTIES RequestsServed ProducerEnds
CHECK_DEADLOCK FALSE

\* Two callers, an alphabet of three of the four values of a chunk, two chunks
\* in a word.  The calls end when MaxDraws words are drawn.
CONSTANTS
  Callers = {c1, c2}
  LetterCount = 3
  ChunkValues = 4
  LetterIdMax = 2
  MaxLen = 2
  MaxDraws = 2
SPECIFICATION Spec
INVARIANTS LettersOfWords WordsFreshUnlessRaced
CHECK_DEADLOCK FALSE

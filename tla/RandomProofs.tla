---------------------------- MODULE RandomProofs ----------------------------
(***************************************************************************)
(* Proofs about Random, for any number of callers, words and letters.      *)
(***************************************************************************)
EXTENDS Random, SequenceTheorems, TLAPS

SourceTyped == /\ src \in Nat /\ seen \in [Callers -> Nat] /\ used \subseteq Nat
               /\ pc \in [Callers -> {"idle", "draw", "store", "loop"}]

\* While no two goroutines have drawn at once, the states that have given a
\* word are all behind the source, and the one goroutine that has read the
\* state of the source has the one it is in.
DrawnApart ==
  ~raced =>
    /\ ~repeated /\ \A s \in used : s < src
    /\ \A c \in Callers : pc[c] = "store" => seen[c] = src
    /\ \A c, d \in Callers : pc[c] = "store" /\ pc[d] = "store" => c = d

IInv == SourceTyped /\ DrawnApart
-----------------------------------------------------------------------------
LEMMA SourceNext == SourceTyped /\ [Next]_vars => SourceTyped'
  <1> SUFFICES ASSUME SourceTyped, [Next]_vars PROVE SourceTyped'
    OBVIOUS
  <1>1. CASE UNCHANGED vars BY <1>1 DEF SourceTyped, vars, source
  <1>2. ASSUME NEW c \in Callers, Load(c) PROVE SourceTyped'
    BY <1>2 DEF SourceTyped, Load, Goto
  <1>3. ASSUME NEW c \in Callers, Store(c) PROVE SourceTyped'
    <2>1. /\ src' = seen[c] + 1 /\ seen' = seen /\ used' = used \cup {seen[c]}
          /\ pc' = [pc EXCEPT ![c] = "loop"]
      BY <1>3 DEF Store, Goto, Advanced
    <2>2. seen[c] \in Nat BY DEF SourceTyped
    <2>3. src' \in Nat /\ seen' \in [Callers -> Nat] BY <2>1, <2>2 DEF SourceTyped
    <2>4. used' \subseteq Nat BY <2>1, <2>2 DEF SourceTyped
    <2>5. pc' \in [Callers -> {"idle", "draw", "store", "loop"}] BY <2>1 DEF SourceTyped
    <2>6. QED BY <2>3, <2>4, <2>5 DEF SourceTyped
  <1>4. ASSUME NEW c \in Callers, Begin(c) \/ Loop(c) \/ Return(c) PROVE SourceTyped'
    BY <1>4 DEF SourceTyped, Begin, Loop, Return, Goto, source
  <1>5. QED BY <1>1, <1>2, <1>3, <1>4 DEF Next

LEMMA DrawnApartNext == SourceTyped /\ DrawnApart /\ [Next]_vars => DrawnApart'
  <1> SUFFICES ASSUME SourceTyped, DrawnApart, [Next]_vars PROVE DrawnApart'
    OBVIOUS
  <1>1. CASE UNCHANGED vars BY <1>1 DEF DrawnApart, vars, source
  <1>2. ASSUME NEW c \in Callers, Load(c) PROVE DrawnApart'
    BY <1>2 DEF SourceTyped, DrawnApart, Load, Goto
  <1>3. ASSUME NEW c \in Callers, Store(c) PROVE DrawnApart'
    <2>1. /\ pc[c] = "store" /\ src' = seen[c] + 1 /\ seen' = seen
          /\ used' = used \cup {seen[c]} /\ pc' = [pc EXCEPT ![c] = "loop"]
          /\ (raced' <=> raced) /\ (repeated' => repeated \/ seen[c] \in used)
      BY <1>3 DEF Store, Goto, Advanced
    <2>2. QED BY <2>1 DEF SourceTyped, DrawnApart
  <1>4. ASSUME NEW c \in Callers, Begin(c) \/ Loop(c) \/ Return(c) PROVE DrawnApart'
    BY <1>4 DEF SourceTyped, DrawnApart, Begin, Loop, Return, Goto, source
  <1>5. QED BY <1>1, <1>2, <1>3, <1>4 DEF Next

\* Two calls of RandStr get the same word, hence possibly the same salt, only
\* after two goroutines have drawn from the source at once.
THEOREM WordsAreFresh == Spec => []WordsFreshUnlessRaced
  <1>1. Init => SourceTyped /\ DrawnApart
    BY DEF Init, SourceTyped, DrawnApart
  <1>2. DrawnApart => WordsFreshUnlessRaced BY DEF DrawnApart, WordsFreshUnlessRaced
  <1>3. QED BY <1>1, <1>2, SourceNext, DrawnApartNext, PTL DEF Spec
-----------------------------------------------------------------------------
(* Letters and chunks.                                                     *)

Chunk == 0..(ChunkValues - 1)

\* The letters are the usable ones of the first k chunks, in order: letter i is
\* the chunk at pos[i].
PickedAt(pos, letters, chunks, k) ==
  /\ \A i, j \in 1..Len(letters) : i < j => pos[i] < pos[j]
  /\ \A i \in 1..Len(letters) : letters[i] = chunks[pos[i]] /\ Usable(chunks[pos[i]])
  /\ \A m \in 1..k : Usable(chunks[m]) => \E i \in 1..Len(letters) : pos[i] = m
Picked(letters, chunks, k) ==
  \E pos \in [1..Len(letters) -> 1..k] : PickedAt(pos, letters, chunks, k)

\* The next chunk is a letter.
LEMMA PickNext ==
  ASSUME NEW letters \in Seq(Chunk), NEW chunks \in Seq(Chunk), NEW k \in Nat,
         k + 1 <= Len(chunks), Usable(chunks[k + 1]), Picked(letters, chunks, k)
  PROVE  Picked(Append(letters, chunks[k + 1]), chunks, k + 1)
  <1> DEFINE len == Len(letters)
             longer == Append(letters, chunks[k + 1])
  <1>1. PICK pos \in [1..len -> 1..k] :
          /\ \A i, j \in 1..len : i < j => pos[i] < pos[j]
          /\ \A i \in 1..len : letters[i] = chunks[pos[i]] /\ Usable(chunks[pos[i]])
          /\ \A m \in 1..k : Usable(chunks[m]) => \E i \in 1..len : pos[i] = m
    BY DEF Picked, PickedAt
  <1>2. /\ len \in Nat /\ Len(longer) = len + 1
        /\ \A i \in 1..len : longer[i] = letters[i]
        /\ longer[len + 1] = chunks[k + 1]
    BY LenProperties, AppendProperties, ElementOfSeq
  <1> DEFINE p == [i \in 1..(len + 1) |-> IF i <= len THEN pos[i] ELSE k + 1]
  <1>3. p \in [1..(len + 1) -> 1..(k + 1)] BY <1>1, <1>2
  <1>4. /\ \A i \in 1..len : p[i] = pos[i] /\ pos[i] \in 1..k
        /\ p[len + 1] = k + 1
    <2>1. \A i \in 1..(len + 1) : p[i] = IF i <= len THEN pos[i] ELSE k + 1
      OBVIOUS
    <2> HIDE DEF p, len
    <2>2. \A i \in 1..len : pos[i] \in 1..k BY <1>1
    <2>3. ASSUME NEW i \in 1..len PROVE p[i] = pos[i] /\ pos[i] \in 1..k
      BY <1>2, <2>1, <2>2
    <2>4. len + 1 \in 1..(len + 1) /\ ~(len + 1 <= len) BY <1>2
    <2>5. QED BY <2>1, <2>3, <2>4
  <1> HIDE DEF p, len, longer
  <1>5. ASSUME NEW i \in 1..(len + 1), NEW j \in 1..(len + 1), i < j PROVE p[i] < p[j]
    <2>1. i \in 1..len BY <1>2, <1>5
    <2>2. CASE j = len + 1 BY <1>4, <2>1, <2>2
    <2>3. CASE j # len + 1
      <3>1. j \in 1..len BY <1>2, <2>3
      <3>2. QED BY <1>1, <1>4, <1>5, <2>1, <3>1
    <2>4. QED BY <2>2, <2>3
  <1>6. ASSUME NEW i \in 1..(len + 1)
        PROVE  longer[i] = chunks[p[i]] /\ Usable(chunks[p[i]])
    <2>1. CASE i = len + 1 BY <1>2, <1>4, <2>1
    <2>2. CASE i # len + 1
      <3>1. i \in 1..len BY <1>2, <2>2
      <3>2. QED BY <1>1, <1>2, <1>4, <3>1
    <2>3. QED BY <2>1, <2>2
  <1>7. ASSUME NEW m \in 1..(k + 1), Usable(chunks[m])
        PROVE  \E i \in 1..(len + 1) : p[i] = m
    <2>1. CASE m = k + 1 BY <1>2, <1>4, <2>1
    <2>2. CASE m # k + 1
      <3>1. m \in 1..k BY <2>2
      <3>2. PICK i \in 1..len : pos[i] = m BY <1>1, <1>7, <3>1
      <3>3. i \in 1..(len + 1) /\ p[i] = m BY <1>2, <1>4, <3>2
      <3>4. QED BY <3>3
    <2>3. QED BY <2>1, <2>2
  <1>8. PickedAt(p, longer, chunks, k + 1)
    BY <1>2, <1>5, <1>6, <1>7 DEF PickedAt
  <1>9. Picked(longer, chunks, k + 1) BY <1>2, <1>3, <1>8 DEF Picked
  <1>10. QED BY <1>9 DEF longer

\* The next chunk is beyond the alphabet.
LEMMA SkipNext ==
  ASSUME NEW letters, NEW chunks, NEW k \in Nat,
         ~Usable(chunks[k + 1]), Picked(letters, chunks, k)
  PROVE  Picked(letters, chunks, k + 1)
  <1> DEFINE len == Len(letters)
  <1>1. PICK pos \in [1..len -> 1..k] :
          /\ \A i, j \in 1..len : i < j => pos[i] < pos[j]
          /\ \A i \in 1..len : letters[i] = chunks[pos[i]] /\ Usable(chunks[pos[i]])
          /\ \A m \in 1..k : Usable(chunks[m]) => \E i \in 1..len : pos[i] = m
    BY DEF Picked, PickedAt
  <1> HIDE DEF len
  <1>2. pos \in [1..len -> 1..(k + 1)]
    <2>1. \A i \in 1..len : pos[i] \in 1..(k + 1) BY <1>1
    <2>2. QED BY <1>1, <2>1
  <1>3. ASSUME NEW m \in 1..(k + 1), Usable(chunks[m])
        PROVE  \E i \in 1..len : pos[i] = m
    <2>1. m # k + 1 BY <1>3
    <2>2. m \in 1..k BY <2>1
    <2>3. QED BY <1>1, <1>3, <2>2
  <1>4. PickedAt(pos, letters, chunks, k + 1) BY <1>1, <1>3 DEF PickedAt, len
  <1>5. QED BY <1>2, <1>4 DEF Picked, len

\* Another word changes nothing in the chunks before it.
LEMMA PickKept ==
  ASSUME NEW letters, NEW chunks, NEW more, NEW k \in Nat,
         \A m \in 1..k : more[m] = chunks[m], Picked(letters, chunks, k)
  PROVE  Picked(letters, more, k)
  <1>1. PICK pos \in [1..Len(letters) -> 1..k] :
          /\ \A i, j \in 1..Len(letters) : i < j => pos[i] < pos[j]
          /\ \A i \in 1..Len(letters) :
               letters[i] = chunks[pos[i]] /\ Usable(chunks[pos[i]])
          /\ \A m \in 1..k : Usable(chunks[m]) => \E i \in 1..Len(letters) : pos[i] = m
    BY DEF Picked, PickedAt
  <1>2. \A i \in 1..Len(letters) : pos[i] \in 1..k /\ more[pos[i]] = chunks[pos[i]]
    BY <1>1
  <1>3. PickedAt(pos, letters, more, k) BY <1>1, <1>2 DEF PickedAt
  <1>4. QED BY <1>3 DEF Picked
-----------------------------------------------------------------------------
(* The letters of a call.                                                  *)

CallsTyped == /\ n \in [Callers -> Nat]
              /\ out \in [Callers -> Seq(Chunk)]
              /\ cache \in [Callers -> Seq(Chunk)]
              /\ drawn \in [Callers -> Seq(Chunk)]

\* How many of the chunks drawn call c has looked at; the others are the cache.
Read(c) == Len(drawn[c]) - Len(cache[c])
Cached(c) == /\ Read(c) \in Nat
             /\ \A i \in 1..Len(cache[c]) : cache[c][i] = drawn[c][Read(c) + i]

\* What has been written is what has been looked at, without the rest.
Writing(c) ==
  /\ pc[c] # "loop" => cache[c] = <<>>
  /\ pc[c] = "idle" => out[c] = <<>> /\ drawn[c] = <<>>
  /\ Len(out[c]) <= n[c]
  /\ Cached(c)
  /\ Picked(out[c], drawn[c], Read(c))

LettersInv == SourceTyped /\ CallsTyped /\ \A c \in Callers : Writing(c)

LEMMA WordIsSeq == ASSUME NEW word \in Word PROVE word \in Seq(Chunk)
  <1>1. LetterIdMax \in Nat /\ word \in [1..LetterIdMax -> Chunk]
    BY RandomAssumption DEF Word, Chunk
  <1> HIDE DEF Chunk
  <1>2. QED BY <1>1

LEMMA NonePicked == Picked(<<>>, <<>>, 0)
  <1> DEFINE pos == [i \in 1..0 |-> 0]
  <1>1. pos \in [1..Len(<<>>) -> 1..0] BY EmptySeq
  <1>2. PickedAt(pos, <<>>, <<>>, 0) BY EmptySeq DEF PickedAt
  <1>3. QED BY <1>1, <1>2 DEF Picked

LEMMA CallsTypedNext == SourceTyped /\ CallsTyped /\ [Next]_vars => CallsTyped'
  <1> SUFFICES ASSUME SourceTyped, CallsTyped, [Next]_vars PROVE CallsTyped'
    OBVIOUS
  <1>1. CASE UNCHANGED <<n, cache, out, drawn>> BY <1>1 DEF CallsTyped
  <1>2. ASSUME NEW c \in Callers, Begin(c) PROVE CallsTyped'
    <2>1. PICK m \in 0..MaxLen : n' = [n EXCEPT ![c] = m] BY <1>2 DEF Begin
    <2>2. m \in Nat OBVIOUS
    <2>3. n' \in [Callers -> Nat] BY <2>1, <2>2 DEF CallsTyped
    <2>4. QED BY <1>2, <2>3 DEF CallsTyped, Begin
  <1>3. ASSUME NEW c \in Callers, Store(c) PROVE CallsTyped'
    <2>1. PICK word \in Word : /\ cache' = [cache EXCEPT ![c] = word]
                               /\ drawn' = [drawn EXCEPT ![c] = @ \o word]
      BY <1>3 DEF Store
    <2>2. word \in Seq(Chunk) /\ drawn[c] \in Seq(Chunk)
      BY WordIsSeq DEF CallsTyped
    <2>3. drawn[c] \o word \in Seq(Chunk) BY <2>2, ConcatProperties
    <2>4. QED BY <1>3, <2>1, <2>2, <2>3 DEF CallsTyped, Store
  <1>4. ASSUME NEW c \in Callers, Loop(c) PROVE CallsTyped'
    <2>1. CASE cache[c] = <<>> BY <1>4, <2>1 DEF Loop, CallsTyped
    <2>2. CASE cache[c] # <<>>
      <3>1. /\ out' = IF IsLetter(Head(cache[c]))
                      THEN [out EXCEPT ![c] = Append(@, Head(cache[c]))] ELSE out
            /\ cache' = [cache EXCEPT ![c] = Tail(@)]
            /\ UNCHANGED <<n, drawn>>
        BY <1>4, <2>2 DEF Loop
      <3>2. cache[c] \in Seq(Chunk) /\ out[c] \in Seq(Chunk) BY DEF CallsTyped
      <3>3. Head(cache[c]) \in Chunk /\ Tail(cache[c]) \in Seq(Chunk)
        BY <2>2, <3>2, HeadTailProperties
      <3>4. Append(out[c], Head(cache[c])) \in Seq(Chunk)
        BY <3>2, <3>3, AppendProperties
      <3>5. QED BY <3>1, <3>3, <3>4 DEF CallsTyped
    <2>3. QED BY <2>1, <2>2
  <1>5. ASSUME NEW c \in Callers, Return(c) PROVE CallsTyped'
    <2>1. <<>> \in Seq(Chunk) BY EmptySeq
    <2>2. QED BY <1>5, <2>1 DEF CallsTyped, Return
  <1>6. ASSUME NEW c \in Callers, Load(c) PROVE CallsTyped'
    BY <1>6 DEF Load, CallsTyped
  <1>7. QED BY <1>1, <1>2, <1>3, <1>4, <1>5, <1>6 DEF Next, vars

\* A word is drawn when no chunk is left.
LEMMA WritingStore ==
  ASSUME LettersInv, NEW c \in Callers, Store(c), CallsTyped' PROVE Writing(c)'
  <1>1. PICK word \in Word : /\ cache' = [cache EXCEPT ![c] = word]
                             /\ drawn' = [drawn EXCEPT ![c] = @ \o word]
    BY DEF Store
  <1>2. /\ pc[c] = "store" /\ pc'[c] = "loop" /\ out' = out /\ n' = n
    BY DEF Store, Goto, LettersInv, SourceTyped
  <1>3. Writing(c) /\ cache[c] = <<>> BY <1>2 DEF LettersInv, Writing
  <1>4. /\ word \in Seq(Chunk) /\ drawn[c] \in Seq(Chunk)
        /\ cache'[c] = word /\ drawn'[c] = drawn[c] \o word
    BY <1>1, WordIsSeq DEF LettersInv, CallsTyped
  <1> DEFINE k == Len(drawn[c])
  <1>5. k \in Nat /\ Len(word) \in Nat BY <1>4, LenProperties
  <1>6. Read(c) = k BY <1>3, <1>5, EmptySeq DEF Read
  <1>7. /\ Len(drawn'[c]) = k + Len(word)
        /\ \A i \in 1..k : drawn'[c][i] = drawn[c][i]
        /\ \A i \in 1..Len(word) : drawn'[c][k + i] = word[i]
    <2>1. \A i \in 1..(k + Len(word)) :
            drawn'[c][i] = IF i <= k THEN drawn[c][i] ELSE word[i - k]
      BY <1>4, ConcatProperties
    <2>2. Len(drawn'[c]) = k + Len(word) BY <1>4, ConcatProperties
    <2> HIDE DEF k
    <2>3. \A i \in 1..k : drawn'[c][i] = drawn[c][i] BY <1>5, <2>1
    <2>4. ASSUME NEW i \in 1..Len(word) PROVE drawn'[c][k + i] = word[i]
      <3>1. k + i \in 1..(k + Len(word)) /\ ~(k + i <= k) /\ (k + i) - k = i
        BY <1>5
      <3>2. QED BY <2>1, <3>1
    <2>5. QED BY <2>2, <2>3, <2>4
  <1> HIDE DEF k
  <1>8. Read(c)' = k BY <1>4, <1>5, <1>7 DEF Read
  <1>9. Cached(c)' BY <1>4, <1>5, <1>7, <1>8 DEF Cached
  <1>10. Picked(out[c], drawn'[c], k)
    BY <1>3, <1>5, <1>6, <1>7, PickKept DEF Writing
  <1>11. QED BY <1>2, <1>3, <1>8, <1>9, <1>10 DEF Writing

\* The next chunk is looked at.
LEMMA WritingLoop ==
  ASSUME LettersInv, NEW c \in Callers, Loop(c), CallsTyped' PROVE Writing(c)'
  <1>1. Writing(c) /\ pc[c] = "loop" /\ Len(out[c]) < n[c]
    BY DEF LettersInv, Loop
  <1>2. CASE cache[c] = <<>>
    <2>1. UNCHANGED <<n, cache, out, drawn>> /\ pc'[c] = "draw"
      BY <1>2 DEF Loop, Goto, LettersInv, SourceTyped
    <2>2. QED BY <1>1, <1>2, <2>1 DEF Writing, Cached, Read
  <1>3. CASE cache[c] # <<>>
    <2> DEFINE k == Read(c)
               h == Head(cache[c])
    <2>1. /\ out' = IF IsLetter(h) THEN [out EXCEPT ![c] = Append(@, h)] ELSE out
          /\ cache' = [cache EXCEPT ![c] = Tail(@)]
          /\ UNCHANGED <<n, drawn, pc>>
      BY <1>3 DEF Loop
    <2>2. /\ cache[c] \in Seq(Chunk) /\ out[c] \in Seq(Chunk) /\ drawn[c] \in Seq(Chunk)
          /\ n[c] \in Nat /\ cache'[c] = Tail(cache[c])
          /\ out'[c] = IF IsLetter(h) THEN Append(out[c], h) ELSE out[c]
      BY <2>1 DEF LettersInv, CallsTyped
    <2>3. /\ Len(cache[c]) \in Nat \ {0} /\ Len(drawn[c]) \in Nat /\ Len(out[c]) \in Nat
      BY <1>3, <2>2, EmptySeq, LenProperties
    <2>4. /\ h = cache[c][1] /\ Len(Tail(cache[c])) = Len(cache[c]) - 1
          /\ \A i \in 1..Len(Tail(cache[c])) : Tail(cache[c])[i] = cache[c][i + 1]
      BY <1>3, <2>2
    <2>5. h \in Chunk BY <1>3, <2>2, HeadTailProperties
    <2>6. k \in Nat /\ \A i \in 1..Len(cache[c]) : cache[c][i] = drawn[c][k + i]
      BY <1>1 DEF Writing, Cached
    <2>7. k + 1 <= Len(drawn[c]) BY <2>3 DEF Read
    <2>8. Read(c)' = k + 1
      <3>1. k = Len(drawn[c]) - Len(cache[c]) BY DEF Read
      <3>2. Read(c)' = Len(drawn[c]) - (Len(cache[c]) - 1)
        BY <2>1, <2>2, <2>4 DEF Read
      <3> HIDE DEF k
      <3>3. QED BY <2>3, <3>1, <3>2
    <2> HIDE DEF k, h
    <2>9. h = drawn[c][k + 1] BY <2>3, <2>4, <2>6
    <2>10. Cached(c)'
      <3>1. ASSUME NEW i \in 1..Len(cache'[c])
            PROVE  cache'[c][i] = drawn'[c][(k + 1) + i]
        <4>1. /\ i \in Nat /\ i + 1 \in 1..Len(cache[c]) /\ i \in 1..Len(Tail(cache[c]))
              /\ (k + 1) + i = k + (i + 1)
          BY <2>2, <2>3, <2>4, <2>6
        <4>2. cache'[c][i] = cache[c][i + 1] BY <2>2, <2>4, <4>1
        <4>3. cache[c][i + 1] = drawn[c][k + (i + 1)] BY <2>6, <4>1
        <4>4. QED BY <2>1, <4>1, <4>2, <4>3
      <3>2. QED BY <2>6, <2>8, <3>1 DEF Cached
    <2>11. Picked(out[c], drawn[c], k) BY <1>1 DEF Writing, k
    <2>12. IsLetter(h) <=> Usable(h)
      BY <2>5, RandomAssumption DEF IsLetter, Usable, Chunk
    <2>13. Picked(out'[c], drawn'[c], k + 1) /\ Len(out'[c]) <= n[c]
      <3>1. CASE IsLetter(h)
        <4>1. out'[c] = Append(out[c], drawn[c][k + 1]) BY <2>2, <2>9, <3>1
        <4>2. Picked(Append(out[c], drawn[c][k + 1]), drawn[c], k + 1)
          BY <2>2, <2>6, <2>7, <2>9, <2>11, <2>12, <3>1, PickNext
        <4>3. Len(out'[c]) = Len(out[c]) + 1
          BY <2>2, <2>5, <3>1, AppendProperties
        <4>4. QED BY <1>1, <2>1, <2>2, <2>3, <4>1, <4>2, <4>3
      <3>2. CASE ~IsLetter(h)
        <4>1. Picked(out[c], drawn[c], k + 1)
          BY <2>6, <2>9, <2>11, <2>12, <3>2, SkipNext
        <4>2. QED BY <1>1, <2>1, <2>2, <2>3, <3>2, <4>1
      <3>3. QED BY <3>1, <3>2
    <2>14. QED BY <1>1, <2>1, <2>8, <2>10, <2>13 DEF Writing
  <1>4. QED BY <1>2, <1>3

LEMMA WritingReturn ==
  ASSUME LettersInv, NEW c \in Callers, Return(c) PROVE Writing(c)'
  <1>1. /\ pc'[c] = "idle" /\ out'[c] = <<>> /\ cache'[c] = <<>> /\ drawn'[c] = <<>>
        /\ n'[c] \in Nat
    BY DEF Return, Goto, LettersInv, SourceTyped, CallsTyped
  <1>2. Read(c)' = 0 /\ Cached(c)' /\ Len(out'[c]) = 0 BY <1>1, EmptySeq DEF Read, Cached
  <1>3. QED BY <1>1, <1>2, NonePicked DEF Writing

LEMMA WritingBegin ==
  ASSUME LettersInv, NEW c \in Callers, Begin(c) \/ Load(c), CallsTyped'
  PROVE  Writing(c)'
  <1>1. /\ pc[c] \in {"idle", "draw"} /\ pc'[c] # "loop" /\ pc'[c] # "idle"
        /\ UNCHANGED <<out, cache, drawn>>
        /\ n' = n \/ pc[c] = "idle"
    BY DEF Begin, Load, Goto, LettersInv, SourceTyped
  <1>2. Writing(c) /\ n'[c] \in Nat BY DEF LettersInv, CallsTyped
  <1>3. Len(out'[c]) <= n'[c]
    <2>1. CASE n' = n BY <1>1, <1>2, <2>1 DEF Writing
    <2>2. CASE pc[c] = "idle" BY <1>1, <1>2, <2>2, EmptySeq DEF Writing
    <2>3. QED BY <1>1, <2>1, <2>2
  <1>4. QED BY <1>1, <1>2, <1>3 DEF Writing, Cached, Read

LEMMA LettersNext == LettersInv /\ [Next]_vars => LettersInv'
  <1> SUFFICES ASSUME LettersInv, [Next]_vars PROVE LettersInv'
    OBVIOUS
  <1>1. SourceTyped' /\ CallsTyped' BY SourceNext, CallsTypedNext DEF LettersInv
  <1>2. ASSUME NEW c \in Callers PROVE Writing(c)'
    <2>1. CASE /\ n'[c] = n[c] /\ out'[c] = out[c] /\ cache'[c] = cache[c]
               /\ drawn'[c] = drawn[c] /\ pc'[c] = pc[c]
      <3>1. Writing(c) BY DEF LettersInv
      <3>2. Read(c)' = Read(c) BY <2>1 DEF Read
      <3>3. Cached(c)' BY <2>1, <3>1, <3>2 DEF Writing, Cached
      <3>4. QED BY <2>1, <3>1, <3>2, <3>3 DEF Writing
    <2>2. CASE Begin(c) \/ Load(c) BY <1>1, <2>2, WritingBegin
    <2>3. CASE Store(c) BY <1>1, <2>3, WritingStore
    <2>4. CASE Loop(c) BY <1>1, <2>4, WritingLoop
    <2>5. CASE Return(c) BY <2>5, WritingReturn
    <2>6. ASSUME NEW d \in Callers, d # c,
                 Begin(d) \/ Load(d) \/ Store(d) \/ Loop(d) \/ Return(d)
          PROVE  Writing(c)'
      <3>1. /\ n'[c] = n[c] /\ out'[c] = out[c] /\ cache'[c] = cache[c]
            /\ drawn'[c] = drawn[c] /\ pc'[c] = pc[c]
        BY <2>6
        DEF LettersInv, SourceTyped, CallsTyped, Begin, Load, Store, Loop, Return, Goto
      <3>2. QED BY <2>1, <3>1
    <2>7. QED BY <2>1, <2>2, <2>3, <2>4, <2>5, <2>6 DEF Next, vars
  <1>3. QED BY <1>1, <1>2 DEF LettersInv

LEMMA LettersInit == Init => LettersInv
  <1> SUFFICES ASSUME Init PROVE LettersInv
    OBVIOUS
  <1>1. SourceTyped /\ CallsTyped BY EmptySeq DEF Init, SourceTyped, CallsTyped
  <1>2. ASSUME NEW c \in Callers PROVE Writing(c)
    <2>1. /\ pc[c] = "idle" /\ out[c] = <<>> /\ cache[c] = <<>> /\ drawn[c] = <<>>
          /\ n[c] = 0
      BY DEF Init
    <2>2. Read(c) = 0 /\ Cached(c) /\ Len(out[c]) = 0 BY <2>1, EmptySeq DEF Read, Cached
    <2>3. QED BY <2>1, <2>2, NonePicked DEF Writing
  <1>3. QED BY <1>1, <1>2 DEF LettersInv

\* Whatever words the source returns, a string has the letters that their usable
\* chunks stand for, in order, none left out and none too many.
THEOREM LettersAreOfWords == Spec => []LettersOfWords
  <1>1. LettersInv => LettersOfWords
    <2> SUFFICES ASSUME LettersInv, NEW c \in Callers
                 PROVE  /\ Len(out[c]) <= n[c]
                        /\ \E pos \in [1..Len(out[c]) -> 1..Len(drawn[c])] :
                             /\ Selects(pos, drawn[c])
                             /\ \A i \in DOMAIN pos : out[c][i] = drawn[c][pos[i]]
      BY DEF LettersOfWords
    <2> DEFINE len == Len(out[c])
               k == Read(c)
    <2>1. /\ Writing(c) /\ out[c] \in Seq(Chunk) /\ drawn[c] \in Seq(Chunk)
          /\ cache[c] \in Seq(Chunk)
      BY DEF LettersInv, CallsTyped
    <2>2. /\ len \in Nat /\ Len(drawn[c]) \in Nat /\ Len(cache[c]) \in Nat
          /\ k \in Nat /\ DOMAIN drawn[c] = 1..Len(drawn[c])
      BY <2>1, LenProperties DEF Writing, Cached
    <2>3. k <= Len(drawn[c])
      <3> DEFINE a == Len(drawn[c])
                 b == Len(cache[c])
      <3>1. a \in Nat /\ b \in Nat BY <2>2
      <3>2. k = a - b BY DEF Read
      <3> HIDE DEF a, b, k
      <3>3. k <= a BY <3>1, <3>2
      <3>4. QED BY <3>3 DEF a
    <2>4. PICK pos \in [1..len -> 1..k] : PickedAt(pos, out[c], drawn[c], k)
      BY <2>1 DEF Writing, Picked
    <2> HIDE DEF len, k
    <2>5. \A i \in 1..len : pos[i] \in 1..k BY <2>4
    <2>6. pos \in [1..len -> 1..Len(drawn[c])]
      <3>1. \A i \in 1..len : pos[i] \in 1..Len(drawn[c]) BY <2>2, <2>3, <2>5
      <3>2. QED BY <2>4, <3>1
    <2>7. Selects(pos, drawn[c])
      <3>1. DOMAIN pos = 1..len BY <2>4
      <3>2. ASSUME NEW m \in 1..Len(drawn[c]), NEW j \in 1..len,
                   Usable(drawn[c][m]), m < pos[j]
            PROVE  \E i \in 1..len : pos[i] = m
        <4>1. m \in 1..k BY <2>2, <2>5, <3>2
        <4>2. QED BY <2>4, <3>2, <4>1 DEF PickedAt, len
      <3>3. QED BY <2>2, <2>4, <3>1, <3>2 DEF Selects, PickedAt, len
    <2>8. \A i \in DOMAIN pos : out[c][i] = drawn[c][pos[i]]
      BY <2>4 DEF PickedAt, len
    <2>9. QED BY <2>1, <2>6, <2>7, <2>8 DEF Writing, len
  <1>2. QED BY <1>1, LettersInit, LettersNext, PTL DEF Spec
=============================================================================

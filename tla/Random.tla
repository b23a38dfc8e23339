------------------------------- MODULE Random -------------------------------
(***************************************************************************)
(* RandStr of biz/util/random, which makes the salts: letters cut out of    *)
(* the words of one rand.Source that all goroutines share without a lock.   *)
(* A word is the sequence of its chunks of letterIdBits bits, any values;   *)
(* the source is known by how many words it has produced.  Two goroutines   *)
(* that draw at once read and write its state in any order.                *)
(***************************************************************************)
EXTENDS Naturals, Sequences

CONSTANTS Callers,
          LetterCount,  \* len(letters)
          ChunkValues,  \* letterIdMask + 1
          LetterIdMax,  \* chunks in a word
          MaxLen,       \* bound on the length asked for
          MaxDraws      \* bound on the words drawn

ASSUME RandomAssumption == LetterCount \in 1..ChunkValues /\ LetterIdMax \in Nat \ {0}

Word == [1..LetterIdMax -> 0..(ChunkValues - 1)]

VARIABLES src,       \* the state of the source
          pc, n, cache, out,  \* of the calls: the chunks left, the letters written
          seen,      \* seen[c]: the state of the source as c has read it
          drawn,     \* auxiliary: the chunks of all words of the call
          used,      \* auxiliary: the states that have given a word
          repeated,  \* auxiliary: a state has given two
          raced      \* auxiliary: two goroutines have drawn at once

vars == <<src, pc, n, cache, out, seen, drawn, used, repeated, raced>>
source == <<src, seen, used, repeated, raced>>

Init == /\ src = 0 /\ seen = [c \in Callers |-> 0]
        /\ pc = [c \in Callers |-> "idle"] /\ n = [c \in Callers |-> 0]
        /\ cache = [c \in Callers |-> <<>>] /\ out = [c \in Callers |-> <<>>]
        /\ drawn = [c \in Callers |-> <<>>]
        /\ used = {} /\ repeated = FALSE /\ raced = FALSE
-----------------------------------------------------------------------------
Goto(c, label) == pc' = [pc EXCEPT ![c] = label]

\* The first word is drawn whatever the length.
Begin(c) == /\ pc[c] = "idle"
            /\ \E m \in 0..MaxLen : n' = [n EXCEPT ![c] = m]
            /\ Goto(c, "draw")
            /\ UNCHANGED <<cache, out, drawn, source>>

\* src.Int63(): read the state, advance it.
Load(c) == /\ pc[c] = "draw" /\ src < MaxDraws
           /\ seen' = [seen EXCEPT ![c] = src]
           /\ raced' = (raced \/ \E d \in Callers : pc[d] = "store")
           /\ Goto(c, "store")
           /\ UNCHANGED <<src, n, cache, out, drawn, used, repeated>>

SeededAgain(s) == 0
Advanced(s) == s + 1

Store(c) ==
  /\ pc[c] = "store"
  /\ src' = Advanced(seen[c])
  /\ used' = used \cup {seen[c]} /\ repeated' = (repeated \/ seen[c] \in used)
  /\ \E word \in Word : /\ cache' = [cache EXCEPT ![c] = word]
                        /\ drawn' = [drawn EXCEPT ![c] = @ \o word]
  /\ Goto(c, "loop")
  /\ UNCHANGED <<n, out, seen, raced>>

AnyIndex(idx) == idx <= LetterCount
IsLetter(idx) == idx < LetterCount

\* One turn of the loop; a new word when no chunk remains.
Loop(c) ==
  /\ pc[c] = "loop" /\ Len(out[c]) < n[c]
  /\ \/ cache[c] = <<>> /\ Goto(c, "draw") /\ UNCHANGED <<cache, out>>
     \/ /\ cache[c] # <<>>
        /\ out' = IF IsLetter(Head(cache[c]))
                  THEN [out EXCEPT ![c] = Append(@, Head(cache[c]))] ELSE out
        /\ cache' = [cache EXCEPT ![c] = Tail(@)]
        /\ UNCHANGED pc
  /\ UNCHANGED <<n, drawn, source>>

Return(c) == /\ pc[c] = "loop" /\ Len(out[c]) = n[c]
             /\ Goto(c, "idle")
             /\ cache' = [cache EXCEPT ![c] = <<>>] /\ out' = [out EXCEPT ![c] = <<>>]
             /\ drawn' = [drawn EXCEPT ![c] = <<>>]
             /\ UNCHANGED <<n, source>>

Next == \E c \in Callers : Begin(c) \/ Load(c) \/ Store(c) \/ Loop(c) \/ Return(c)

Spec == Init /\ [][Next]_vars
-----------------------------------------------------------------------------
(* Properties.                                                             *)

\* The letters written are the first usable chunks of the words drawn, in their
\* order and none left out, never more of them than asked for, whatever the
\* source returns: pos says which chunk each letter is.
Usable(idx) == idx \in 0..(LetterCount - 1)
Selects(pos, chunks) ==
  /\ \A i, j \in DOMAIN pos : i < j => pos[i] < pos[j]
  /\ \A i \in DOMAIN pos : Usable(chunks[pos[i]])
  /\ \A k \in DOMAIN chunks, j \in DOMAIN pos :
       Usable(chunks[k]) /\ k < pos[j] => \E i \in DOMAIN pos : pos[i] = k
LettersOfWords ==
  \A c \in Callers :
    /\ Len(out[c]) <= n[c]
    /\ \E pos \in [1..Len(out[c]) -> 1..Len(drawn[c])] :
         Selects(pos, drawn[c]) /\ \A i \in DOMAIN pos : out[c][i] = drawn[c][pos[i]]

\* Two calls are given the same word, hence possibly the same salt, only after
\* two goroutines have drawn from the source at once.
WordsFreshUnlessRaced == repeated => raced
=============================================================================

-------------------------- MODULE RateLimitProofs --------------------------
(***************************************************************************)
(* Proofs about RateLimit: what a caller can be let through and what it is  *)
(* denied for, for every set of rules, with any windows and limits, and any *)
(* number of paths and clients.                                            *)
(***************************************************************************)
EXTENDS RateLimit, FiniteSetTheorems, TLAPS

Typed == TypeOK /\ IsFiniteSet(noted)

Window(k) == RuleOf(k[1]).window
Limit(k) == RuleOf(k[1]).limit

\* The attempts of the callers that share key k, those of them the script has
\* allowed, and all that have failed.
Of(k) == {s \in noted : Key(s.path, s.client) = k}
Admitted(k) == {s \in Of(k) : s.how = "allowed"}
Failed == {s \in noted : s.how # "allowed"}

\* The attempts in A of the last a units of time, and those before.
Upto(A, a) == {s \in A : s.age <= a}
Beyond(A, a) == {s \in A : s.age > a}

\* What counter c, of a rule of w units of time, says of the attempts A that its
\* script has allowed. While a window of the counter runs, it has allowed in it
\* what it has counted, up to the limit; of these the first, which began the
\* window, is not among those that are younger than the window. What is left
\* of the window before has lost its first in the same way.
BoundedBy(c, A, w, limit) ==
  LET e == w - c.ttl IN  \* the time since the window began
  /\ c.ttl = NoTTL => c.count = MaxCount /\ A = {}
  /\ c.ttl = 0 => Cardinality(A) < limit /\ \A s \in A : s.age # 0
  /\ c.ttl > 0 => /\ Cardinality(Upto(A, e)) <= c.count
                  /\ Cardinality(Upto(A, e)) <= limit
                  /\ Cardinality(Upto(A, e - 1)) < c.count
                  /\ Cardinality(Upto(A, e - 1)) < limit
                  /\ Cardinality(Beyond(A, e)) < limit

\* What counter c has counted in its window is, up to the limit, an attempt in P:
\* one that was let through, or was lost and sent again.
SpentBy(c, P, w, limit) ==
  LET n == Cardinality(Upto(P, w - c.ttl)) IN
  c.ttl # NoTTL /\ (c.ttl > 0 => c.count <= n \/ limit <= n)

\* Every attempt that fails counts as a fault.
FailedBounded == Cardinality(Failed) <= faults

Bounded(k) == BoundedBy(counter[k], Admitted(k), Window(k), Limit(k))
Spent(k) == k \notin old => SpentBy(counter[k], Of(k), Window(k), Limit(k))

IInv == /\ Typed /\ FailedBounded
        /\ \A k \in Keys : Bounded(k) /\ Spent(k)
-----------------------------------------------------------------------------
(* Rules and keys.                                                         *)

LEMMA RulesOK ==
  ASSUME NEW p \in Paths
  PROVE  /\ RuleOf(p).window \in Nat \ {0} /\ RuleOf(p).limit \in Nat \ {0}
         /\ RuleOf(p).hasSession \in BOOLEAN
         /\ RuleOf(p).limit < MaxCount /\ RuleOf(p).limit <= MaxNoted
         /\ MaxCount \in Nat /\ MaxNoted \in Nat
  <1>1. RuleOf(p) \in Rule
    <2>1. CASE p \in DOMAIN Rules BY <2>1, RateLimitAssumption DEF RuleOf
    <2>2. CASE p \notin DOMAIN Rules BY <2>2 DEF RuleOf, DefaultRule, Rule
    <2>3. QED BY <2>1, <2>2
  <1>2. /\ RuleOf(p).window \in Nat \ {0} /\ RuleOf(p).limit \in Nat \ {0}
        /\ RuleOf(p).hasSession \in BOOLEAN
    BY <1>1 DEF Rule
  <1>3. QED BY <1>2, BoundsAssumption

LEMMA KeyOf ==
  ASSUME NEW p \in Paths, NEW c \in Clients
  PROVE  Key(p, c) \in Keys /\ Key(p, c)[1] = p
  BY DEF Keys, Key

LEMMA KeysOK ==
  ASSUME NEW k \in Keys
  PROVE  /\ k[1] \in Paths
         /\ Window(k) \in Nat \ {0} /\ Limit(k) \in Nat \ {0} /\ Limit(k) < MaxCount
         /\ MaxCount \in Nat
  <1>1. k[1] \in Paths BY DEF Keys, Key
  <1>2. QED BY <1>1, RulesOK DEF Window, Limit

\* Those who share a key are those a rule takes for the same.
LEMMA SharedIs ==
  ASSUME Typed, NEW p \in Paths, NEW c \in Clients
  PROVE  AttemptsOf(p, c) = Of(Key(p, c)) /\ RecentOf(p, c) \in SUBSET Of(Key(p, c))
  <1>1. ASSUME NEW s \in noted
        PROVE  s.path = p /\ Same(p, c, s.client) <=> Key(s.path, s.client) = Key(p, c)
    BY DEF Key, Same, Subject
  <1>2. AttemptsOf(p, c) = Of(Key(p, c)) BY <1>1 DEF AttemptsOf, Of
  <1>3. QED BY <1>2 DEF RecentOf
-----------------------------------------------------------------------------
(* Counting attempts.                                                      *)

LEMMA CountType ==
  ASSUME Typed, NEW S \in SUBSET noted
  PROVE  IsFiniteSet(S) /\ Cardinality(S) \in Nat
  BY FS_Subset, FS_CardinalityType DEF Typed

LEMMA CountAtMost ==
  ASSUME NEW T, IsFiniteSet(T), NEW S \in SUBSET T
  PROVE  /\ IsFiniteSet(S) /\ Cardinality(S) \in Nat /\ Cardinality(T) \in Nat
         /\ Cardinality(S) <= Cardinality(T)
  BY FS_Subset, FS_CardinalityType

\* Two sets have no more in them than the one and the other.
LEMMA CountBoth ==
  ASSUME NEW S, IsFiniteSet(S), NEW T, IsFiniteSet(T), NEW U \in SUBSET (S \cup T)
  PROVE  Cardinality(U) <= Cardinality(S) + Cardinality(T)
  <1>1. /\ IsFiniteSet(S \cup T)
        /\ Cardinality(S \cup T) = Cardinality(S) + Cardinality(T) - Cardinality(S \cap T)
    BY FS_Union
  <1>2. IsFiniteSet(S \cap T) BY FS_Intersection
  <1>3. /\ Cardinality(S) \in Nat /\ Cardinality(T) \in Nat
        /\ Cardinality(S \cap T) \in Nat
    BY <1>2, FS_CardinalityType
  <1>4. Cardinality(U) \in Nat /\ Cardinality(U) <= Cardinality(S \cup T)
    BY <1>1, CountAtMost
  <1>5. QED BY <1>1, <1>3, <1>4

\* A set of attempts that have grown older, and the same.
Aging(S) == [s \in S |-> Later(s)]

LEMMA CountLater ==
  ASSUME NEW S \in SUBSET Attempt, IsFiniteSet(S), NEW T, T \subseteq {Later(s) : s \in S}
  PROVE  IsFiniteSet(T) /\ Cardinality(T) <= Cardinality(S)
  <1> DEFINE I == {Later(s) : s \in S}
  <1>1. Aging(S) \in Surjection(S, I) BY DEF Aging, Surjection
  <1>2. IsFiniteSet(I) /\ Cardinality(I) <= Cardinality(S)
    BY <1>1, FS_Surjection
  <1>3. QED BY <1>2, CountAtMost, FS_CardinalityType

LEMMA CountLaterSame ==
  ASSUME NEW S \in SUBSET Attempt, IsFiniteSet(S), NEW T, IsFiniteSet(T),
         {Later(s) : s \in S} \subseteq T
  PROVE  Cardinality(S) <= Cardinality(T)
  <1>1. \A s, t \in Attempt : Later(s) = Later(t) => s = t
    BY DEF Later, Attempt
  <1>2. Aging(S) \in [S -> T] BY DEF Aging
  <1>3. ASSUME NEW s \in S, NEW t \in S, Aging(S)[s] = Aging(S)[t]
        PROVE  s = t
    <2>1. Later(s) = Later(t) BY <1>3 DEF Aging
    <2>2. s \in Attempt /\ t \in Attempt OBVIOUS
    <2>3. QED BY <1>1, <2>1, <2>2
  <1>4. Aging(S) \in Injection(S, T) BY <1>2, <1>3 DEF Injection, IsInjective
  <1>5. QED BY <1>4, FS_Injection
-----------------------------------------------------------------------------
(* What the script and time do to a counter and the attempts on its key.    *)

\* A counter as TypeOK has it.
CounterOK(c, w) ==
  /\ c \in [count : 0..MaxCount, ttl : {NoTTL} \cup Nat]
  /\ c.count = 0 <=> c.ttl = 0
  /\ c.ttl <= w

\* d is c after the script has run on it.
Ran(c, d, w) ==
  /\ d.count = IF c.count = MaxCount THEN MaxCount ELSE c.count + 1
  /\ d.ttl = IF c.ttl <= 0 THEN w ELSE c.ttl

\* An attempt that is not allowed leaves the allowed ones bounded.
LEMMA CountKeepsBounded ==
  ASSUME NEW w \in Nat \ {0}, NEW limit \in Nat \ {0}, MaxCount \in Nat, limit < MaxCount,
         NEW c, CounterOK(c, w), NEW d, Ran(c, d, w),
         NEW A \in SUBSET Attempt, IsFiniteSet(A), BoundedBy(c, A, w, limit)
  PROVE  BoundedBy(d, A, w, limit)
  <1>1. /\ c.count \in 0..MaxCount /\ c.ttl \in {-1} \cup Nat /\ NoTTL = -1
        /\ c.count = 0 <=> c.ttl = 0
        /\ c.ttl <= w
    BY DEF CounterOK, NoTTL
  <1>2. \A s \in A : s.age \in Nat BY DEF Attempt
  <1>3. CASE c.ttl = NoTTL
    <2>1. A = {} /\ d.ttl = w /\ d.count = MaxCount BY <1>1, <1>3 DEF BoundedBy, Ran
    <2>2. Upto(A, 0) = {} /\ Upto(A, 0 - 1) = {} /\ Beyond(A, 0) = {}
      BY <2>1 DEF Upto, Beyond
    <2>3. Cardinality({}) = 0 BY FS_EmptySet
    <2>4. w - d.ttl = 0 BY <2>1
    <2>5. QED BY <1>1, <2>1, <2>2, <2>3, <2>4 DEF BoundedBy
  <1>4. CASE c.ttl = 0
    <2>1. d.ttl = w /\ d.count = 1 BY <1>1, <1>4 DEF Ran
    <2>2. Cardinality(A) < limit /\ \A s \in A : s.age # 0
      BY <1>1, <1>4 DEF BoundedBy
    <2>3. Upto(A, 0) = {} /\ Upto(A, 0 - 1) = {} BY <1>2, <2>2 DEF Upto
    <2>4. Cardinality({}) = 0 BY FS_EmptySet
    <2>5. Beyond(A, 0) \in SUBSET A BY DEF Beyond
    <2>6. Cardinality(Beyond(A, 0)) < limit BY <2>2, <2>5, CountAtMost
    <2>7. w - d.ttl = 0 BY <2>1
    <2>8. QED BY <1>1, <2>1, <2>3, <2>4, <2>6, <2>7 DEF BoundedBy
  <1>5. CASE c.ttl > 0
    <2>1. d.ttl = c.ttl /\ d.count >= c.count /\ d.count \in Nat BY <1>1, <1>5 DEF Ran
    <2>2. /\ Upto(A, w - c.ttl) \in SUBSET A /\ Upto(A, w - c.ttl - 1) \in SUBSET A
      BY DEF Upto
    <2>3. /\ Cardinality(Upto(A, w - c.ttl)) \in Nat
          /\ Cardinality(Upto(A, w - c.ttl - 1)) \in Nat
      BY <2>2, CountAtMost
    <2>4. QED BY <1>1, <1>5, <2>1, <2>3 DEF BoundedBy
  <1>6. QED BY <1>1, <1>3, <1>4, <1>5

\* A request that is allowed had fewer before it than the limit.
LEMMA AdmitHasRoom ==
  ASSUME NEW w \in Nat \ {0}, NEW limit \in Nat \ {0}, MaxCount \in Nat, limit < MaxCount,
         NEW c, CounterOK(c, w), NEW d, Ran(c, d, w), d.count <= limit,
         NEW A \in SUBSET Attempt, IsFiniteSet(A), BoundedBy(c, A, w, limit),
         NEW X \in SUBSET A, \A s \in X : s.age = 0
  PROVE  Cardinality(X) < limit
  <1>1. /\ c.count \in 0..MaxCount /\ c.ttl \in {-1} \cup Nat /\ NoTTL = -1
        /\ c.count = 0 <=> c.ttl = 0
        /\ c.ttl <= w
    BY DEF CounterOK, NoTTL
  <1>2. c.count < limit BY <1>1 DEF Ran
  <1>3. c.ttl # NoTTL BY <1>1, <1>2 DEF BoundedBy
  <1>4. CASE c.ttl = 0
    <2>1. X = {} BY <1>1, <1>4 DEF BoundedBy
    <2>2. QED BY <2>1, FS_EmptySet
  <1>5. CASE c.ttl > 0
    <2>1. Upto(A, w - c.ttl) \in SUBSET A /\ X \in SUBSET Upto(A, w - c.ttl)
      BY <1>1, <1>5 DEF Upto
    <2>2. Cardinality(Upto(A, w - c.ttl)) <= c.count BY <1>5 DEF BoundedBy
    <2>3. IsFiniteSet(Upto(A, w - c.ttl)) BY <2>1, CountAtMost
    <2>4. /\ Cardinality(X) \in Nat /\ Cardinality(Upto(A, w - c.ttl)) \in Nat
          /\ Cardinality(X) <= Cardinality(Upto(A, w - c.ttl))
      BY <2>1, <2>3, CountAtMost
    <2>5. QED BY <1>1, <1>2, <2>2, <2>4
  <1>6. QED BY <1>1, <1>3, <1>4, <1>5

\* So does one that is allowed.
LEMMA AdmitKeepsBounded ==
  ASSUME NEW w \in Nat \ {0}, NEW limit \in Nat \ {0}, MaxCount \in Nat, limit < MaxCount,
         NEW c, CounterOK(c, w), NEW d, Ran(c, d, w), d.count <= limit,
         NEW A \in SUBSET Attempt, IsFiniteSet(A), BoundedBy(c, A, w, limit),
         NEW x, x.age = 0, x \notin A
  PROVE  BoundedBy(d, A \cup {x}, w, limit)
  <1> DEFINE B == A \cup {x}
  <1>1. /\ c.count \in 0..MaxCount /\ c.ttl \in {-1} \cup Nat /\ NoTTL = -1
        /\ c.count = 0 <=> c.ttl = 0
        /\ c.ttl <= w
    BY DEF CounterOK, NoTTL
  <1> HIDE DEF B
  <1>2. c.count < limit /\ d.count = c.count + 1 BY <1>1 DEF Ran
  <1>3. c.ttl # NoTTL BY <1>1, <1>2 DEF BoundedBy
  <1>4. \A s \in A : s.age \in Nat BY DEF Attempt
  <1>5. CASE c.ttl = 0
    <2>1. d.ttl = w /\ d.count = 1 /\ w - d.ttl = 0 BY <1>1, <1>2, <1>5 DEF Ran
    <2>2. Cardinality(A) < limit /\ \A s \in A : s.age # 0
      BY <1>1, <1>5 DEF BoundedBy
    <2>3. Upto(B, 0) = {x} /\ Upto(B, 0 - 1) = {} BY <1>4, <2>2 DEF Upto, B
    <2>4. Cardinality({}) = 0 /\ Cardinality({x}) = 1 BY FS_EmptySet, FS_Singleton
    <2>5. Beyond(B, 0) \in SUBSET A BY <1>4 DEF Beyond, B
    <2>6. Cardinality(Beyond(B, 0)) < limit BY <2>2, <2>5, CountAtMost
    <2>7. /\ Cardinality(Upto(B, 0)) = 1 /\ Cardinality(Upto(B, 0 - 1)) = 0
      BY <2>3, <2>4
    <2>8. BoundedBy(d, B, w, limit) BY <1>1, <2>1, <2>6, <2>7 DEF BoundedBy
    <2>9. QED BY <2>8 DEF B
  <1>6. CASE c.ttl > 0
    <2> DEFINE e == w - c.ttl
    <2>1. d.ttl = c.ttl /\ e \in Nat BY <1>1, <1>6 DEF Ran
    <2>2. /\ Cardinality(Upto(A, e)) <= c.count
          /\ Cardinality(Upto(A, e - 1)) < c.count
          /\ Cardinality(Beyond(A, e)) < limit
      BY <1>6 DEF BoundedBy
    <2> HIDE DEF e
    <2>3. /\ Upto(A, e) \in SUBSET A /\ Upto(A, e - 1) \in SUBSET A BY DEF Upto
    <2>4. /\ IsFiniteSet(Upto(A, e)) /\ Cardinality(Upto(A, e)) \in Nat
          /\ IsFiniteSet(Upto(A, e - 1)) /\ Cardinality(Upto(A, e - 1)) \in Nat
      BY <2>3, CountAtMost
    <2>5. x \notin Upto(A, e) /\ x \notin Upto(A, e - 1) BY DEF Upto
    <2>6. Upto(B, e) = Upto(A, e) \cup {x} BY <2>1 DEF Upto, B
    <2>7. Upto(B, e - 1) \in SUBSET (Upto(A, e - 1) \cup {x}) BY DEF Upto, B
    <2>8. Beyond(B, e) = Beyond(A, e) BY <2>1 DEF Beyond, B
    <2>9. Cardinality(Upto(B, e)) = Cardinality(Upto(A, e)) + 1
      <3>1. Cardinality(Upto(A, e) \cup {x}) = Cardinality(Upto(A, e)) + 1
        BY <2>4, <2>5, FS_AddElement
      <3>2. QED BY <2>6, <3>1
    <2>10. /\ IsFiniteSet(Upto(A, e - 1) \cup {x})
           /\ Cardinality(Upto(A, e - 1) \cup {x}) = Cardinality(Upto(A, e - 1)) + 1
      BY <2>4, <2>5, FS_AddElement
    <2>11. Cardinality(Upto(B, e - 1)) <= Cardinality(Upto(A, e - 1)) + 1
      BY <2>7, <2>10, CountAtMost
    <2>12. Cardinality(Upto(B, e - 1)) \in Nat
      BY <2>7, <2>10, CountAtMost
    <2>13. /\ Cardinality(Upto(B, e)) <= d.count /\ Cardinality(Upto(B, e)) <= limit
           /\ Cardinality(Upto(B, e - 1)) < d.count /\ Cardinality(Upto(B, e - 1)) < limit
           /\ Cardinality(Beyond(B, e)) < limit
      BY <1>1, <1>2, <2>2, <2>4, <2>8, <2>9, <2>11, <2>12
    <2>14. d.ttl > 0 /\ d.ttl # NoTTL /\ d.ttl # 0 /\ w - d.ttl = e
      BY <1>1, <1>6, <2>1 DEF e
    <2>15. BoundedBy(d, B, w, limit) BY <2>13, <2>14 DEF BoundedBy
    <2>16. QED BY <2>15 DEF B
  <1>7. QED BY <1>1, <1>3, <1>5, <1>6

\* A unit of time leaves them bounded: the window ends before the first of its
\* attempts, which is as old as it, could join those of the next window.
LEMMA TickKeepsBounded ==
  ASSUME NEW w \in Nat \ {0}, NEW limit \in Nat \ {0}, MaxCount \in Nat,
         NEW c, CounterOK(c, w),
         NEW A \in SUBSET Attempt, IsFiniteSet(A), BoundedBy(c, A, w, limit),
         NEW B, B \subseteq {Later(s) : s \in A}, \A s \in B : s.age < w
  PROVE  BoundedBy(Aged(c), B, w, limit)
  <1>1. /\ c.count \in 0..MaxCount /\ c.ttl \in {-1} \cup Nat /\ NoTTL = -1
        /\ c.count = 0 <=> c.ttl = 0
        /\ c.ttl <= w
    BY DEF CounterOK, NoTTL
  <1>2. ASSUME NEW s \in B
        PROVE  s.age \in Nat /\ s.age # 0 /\ \E t \in A : s = Later(t) /\ s.age = t.age + 1
    BY DEF Later, Attempt
  <1>3. ASSUME NEW S \in SUBSET A, NEW T, T \subseteq {Later(s) : s \in S}
        PROVE  /\ IsFiniteSet(T) /\ Cardinality(T) <= Cardinality(S)
               /\ Cardinality(S) \in Nat /\ Cardinality(T) \in Nat
    <2>1. S \in SUBSET Attempt /\ IsFiniteSet(S) /\ Cardinality(S) \in Nat BY CountAtMost
    <2>2. IsFiniteSet(T) /\ Cardinality(T) <= Cardinality(S) BY <1>3, <2>1, CountLater
    <2>3. QED BY <2>1, <2>2, FS_CardinalityType
  <1>4. CASE c.ttl = NoTTL
    <2>1. A = {} /\ c.count = MaxCount BY <1>4 DEF BoundedBy
    <2>2. B = {} BY <2>1
    <2>3. Aged(c).ttl = NoTTL /\ Aged(c).count = c.count
      BY <1>1, <1>4 DEF Aged, Older, CounterOK
    <2>4. QED BY <1>1, <2>1, <2>2, <2>3 DEF BoundedBy
  <1>5. CASE c.ttl = 0
    <2>1. Cardinality(A) < limit BY <1>1, <1>5 DEF BoundedBy
    <2>2. Cardinality(B) < limit BY <1>3, <2>1
    <2>3. Aged(c).ttl = 0 BY <1>1, <1>5 DEF Aged, Older, CounterOK
    <2>4. QED BY <1>1, <1>2, <2>2, <2>3 DEF BoundedBy
  <1>6. CASE c.ttl = 1
    <2> DEFINE e == w - c.ttl
    <2>0. c.ttl > 0 BY <1>6
    <2>1. Cardinality(Upto(A, e - 1)) < limit BY <1>1, <2>0 DEF BoundedBy
    <2>2. B \subseteq {Later(s) : s \in Upto(A, e - 1)}
      <3>1. ASSUME NEW s \in B PROVE s \in {Later(t) : t \in Upto(A, e - 1)}
        <4>1. PICK t \in A : s = Later(t) /\ s.age = t.age + 1 BY <1>2
        <4>2. t.age \in Nat /\ s.age < w BY DEF Attempt
        <4>3. t \in Upto(A, e - 1) BY <1>6, <4>1, <4>2 DEF Upto
        <4>4. QED BY <4>1, <4>3
      <3>2. QED BY <3>1
    <2>3. Upto(A, e - 1) \in SUBSET A BY DEF Upto
    <2>4. Cardinality(B) < limit BY <1>3, <2>1, <2>2, <2>3
    <2>5. Aged(c) = NoKey BY <1>6 DEF Aged
    <2>6. QED BY <1>1, <1>2, <2>4, <2>5 DEF BoundedBy, NoKey
  <1>7. CASE c.ttl > 1
    <2> DEFINE e == w - c.ttl
    <2>1. /\ e \in Nat /\ Aged(c).ttl = c.ttl - 1 /\ Aged(c).count = c.count
      BY <1>1, <1>7 DEF Aged, Older, CounterOK
    <2>2. w - Aged(c).ttl = e + 1 /\ Aged(c).ttl > 0 /\ Aged(c).ttl # NoTTL
      BY <1>1, <1>7, <2>1
    <2>3. /\ Cardinality(Upto(A, e)) <= c.count /\ Cardinality(Upto(A, e)) <= limit
          /\ Cardinality(Upto(A, e - 1)) < c.count /\ Cardinality(Upto(A, e - 1)) < limit
          /\ Cardinality(Beyond(A, e)) < limit
      BY <1>1, <1>7 DEF BoundedBy
    <2> HIDE DEF e
    <2>4. /\ Upto(A, e) \in SUBSET A /\ Upto(A, e - 1) \in SUBSET A
          /\ Beyond(A, e) \in SUBSET A
      BY DEF Upto, Beyond
    <2>5. /\ Upto(B, e + 1) \subseteq {Later(s) : s \in Upto(A, e)}
          /\ Upto(B, (e + 1) - 1) \subseteq {Later(s) : s \in Upto(A, e - 1)}
          /\ Beyond(B, e + 1) \subseteq {Later(s) : s \in Beyond(A, e)}
      <3>1. ASSUME NEW s \in B
            PROVE  /\ s.age <= e + 1 => s \in {Later(t) : t \in Upto(A, e)}
                   /\ s.age <= (e + 1) - 1 => s \in {Later(t) : t \in Upto(A, e - 1)}
                   /\ s.age > e + 1 => s \in {Later(t) : t \in Beyond(A, e)}
        <4>1. PICK t \in A : s = Later(t) /\ s.age = t.age + 1 BY <1>2
        <4>2. t.age \in Nat BY DEF Attempt
        <4>3. /\ s.age <= e + 1 => t \in Upto(A, e)
              /\ s.age <= (e + 1) - 1 => t \in Upto(A, e - 1)
              /\ s.age > e + 1 => t \in Beyond(A, e)
          BY <2>1, <4>1, <4>2 DEF Upto, Beyond
        <4>4. QED BY <4>1, <4>3
      <3>2. QED BY <3>1 DEF Upto, Beyond
    <2>6. /\ Cardinality(Upto(B, e + 1)) <= Cardinality(Upto(A, e))
          /\ Cardinality(Upto(A, e)) \in Nat /\ Cardinality(Upto(B, e + 1)) \in Nat
      BY <1>3, <2>4, <2>5
    <2>7. /\ Cardinality(Upto(B, (e + 1) - 1)) <= Cardinality(Upto(A, e - 1))
          /\ Cardinality(Upto(A, e - 1)) \in Nat /\ Cardinality(Upto(B, (e + 1) - 1)) \in Nat
      BY <1>3, <2>4, <2>5
    <2>8. /\ Cardinality(Beyond(B, e + 1)) <= Cardinality(Beyond(A, e))
          /\ Cardinality(Beyond(A, e)) \in Nat /\ Cardinality(Beyond(B, e + 1)) \in Nat
      BY <1>3, <2>4, <2>5
    <2>9. /\ Cardinality(Upto(B, e + 1)) <= Aged(c).count
          /\ Cardinality(Upto(B, e + 1)) <= limit
          /\ Cardinality(Upto(B, (e + 1) - 1)) < Aged(c).count
          /\ Cardinality(Upto(B, (e + 1) - 1)) < limit
          /\ Cardinality(Beyond(B, e + 1)) < limit
      BY <1>1, <2>1, <2>3, <2>6, <2>7, <2>8
    <2>10. QED BY <1>1, <1>7, <2>1, <2>2, <2>9 DEF BoundedBy
  <1>8. QED BY <1>1, <1>4, <1>5, <1>6, <1>7

\* A count is spent on attempts in its window: one that is noted adds
\* one, or finds as many as the limit.
LEMMA CountKeepsSpent ==
  ASSUME NEW w \in Nat \ {0}, NEW limit \in Nat \ {0}, MaxCount \in Nat, limit < MaxCount,
         NEW c, CounterOK(c, w), NEW d, Ran(c, d, w),
         NEW P \in SUBSET Attempt, IsFiniteSet(P), SpentBy(c, P, w, limit),
         NEW Q, IsFiniteSet(Q), P \subseteq Q,
         \/ \E x : x \notin P /\ x \in Q /\ x.age = 0
         \/ \E X \in SUBSET Q : limit <= Cardinality(X) /\ \A x \in X : x.age = 0
  PROVE  SpentBy(d, Q, w, limit)
  <1> DEFINE e == w - d.ttl
  <1>1. /\ c.count \in 0..MaxCount /\ c.ttl \in {-1} \cup Nat /\ NoTTL = -1
        /\ c.count = 0 <=> c.ttl = 0
        /\ c.ttl <= w /\ c.ttl # NoTTL
    BY DEF CounterOK, NoTTL, SpentBy
  <1>2. /\ d.ttl > 0 /\ d.ttl # NoTTL /\ e \in Nat
        /\ d.count \in Nat /\ d.count <= c.count + 1
        /\ c.ttl = 0 => d.count = 1
        /\ c.ttl > 0 => e = w - c.ttl
    BY <1>1 DEF Ran
  <1>3. c.ttl > 0 => \/ c.count <= Cardinality(Upto(P, e))
                     \/ limit <= Cardinality(Upto(P, e))
    BY <1>2 DEF SpentBy
  <1>4. Upto(P, e) \in SUBSET P /\ Upto(Q, e) \in SUBSET Q
        /\ Upto(P, e) \in SUBSET Upto(Q, e)
    BY DEF Upto
  <1>5. /\ IsFiniteSet(Upto(P, e)) /\ Cardinality(Upto(P, e)) \in Nat
        /\ IsFiniteSet(Upto(Q, e)) /\ Cardinality(Upto(Q, e)) \in Nat
    BY <1>4, CountAtMost
  <1>6. SUFFICES d.count <= Cardinality(Upto(Q, e)) \/ limit <= Cardinality(Upto(Q, e))
    BY <1>2 DEF SpentBy
  <1>7. CASE \E x : x \notin P /\ x \in Q /\ x.age = 0
    <2>1. PICK x : x \notin P /\ x \in Q /\ x.age = 0 BY <1>7
    <2>2. x \notin Upto(P, e) /\ x \in Upto(Q, e) BY <1>2, <2>1 DEF Upto
    <2>3. Upto(P, e) \cup {x} \in SUBSET Upto(Q, e) BY <1>4, <2>2
    <2>4. Cardinality(Upto(P, e) \cup {x}) = Cardinality(Upto(P, e)) + 1
      BY <1>5, <2>2, FS_AddElement
    <2>5. Cardinality(Upto(P, e) \cup {x}) <= Cardinality(Upto(Q, e))
      BY <1>5, <2>3, CountAtMost
    <2>6. Cardinality(Upto(P, e)) + 1 <= Cardinality(Upto(Q, e)) BY <2>4, <2>5
    <2> HIDE DEF e
    <2>7. QED BY <1>1, <1>2, <1>3, <1>5, <2>6
  <1>8. CASE \E X \in SUBSET Q : limit <= Cardinality(X) /\ \A x \in X : x.age = 0
    <2>1. PICK X \in SUBSET Q : limit <= Cardinality(X) /\ \A x \in X : x.age = 0
      BY <1>8
    <2>2. X \in SUBSET Upto(Q, e) BY <1>2, <2>1 DEF Upto
    <2>3. Cardinality(X) <= Cardinality(Upto(Q, e)) /\ Cardinality(X) \in Nat
      BY <1>5, <2>2, CountAtMost
    <2> HIDE DEF e
    <2>4. QED BY <1>5, <2>1, <2>3
  <1>9. QED BY <1>7, <1>8

\* A unit of time leaves what is counted spent, as long as the window lasts.
LEMMA TickKeepsSpent ==
  ASSUME NEW w \in Nat \ {0}, NEW limit \in Nat \ {0}, MaxCount \in Nat,
         NEW c, CounterOK(c, w),
         NEW P \in SUBSET Attempt, IsFiniteSet(P),
         SpentBy(c, P, w, limit) \/ Aged(c) = NoKey,
         NEW Q, IsFiniteSet(Q), \A s \in P : s.age + 1 < w => Later(s) \in Q
  PROVE  SpentBy(Aged(c), Q, w, limit)
  <1>1. /\ c.count \in 0..MaxCount /\ c.ttl \in {-1} \cup Nat /\ NoTTL = -1
        /\ c.count = 0 <=> c.ttl = 0
        /\ c.ttl <= w
    BY DEF CounterOK, NoTTL
  <1>2. CASE Aged(c) = NoKey BY <1>1, <1>2 DEF SpentBy, NoKey
  <1>3. CASE SpentBy(c, P, w, limit) /\ c.ttl = 0
    <2>1. Aged(c).ttl = 0 BY <1>1, <1>3 DEF Aged, Older, CounterOK
    <2>2. QED BY <1>1, <2>1 DEF SpentBy
  <1>4. CASE c.ttl = 1 BY <1>2, <1>4 DEF Aged
  <1>5. CASE SpentBy(c, P, w, limit) /\ c.ttl > 1
    <2> DEFINE e == w - c.ttl
    <2>1. /\ e \in Nat /\ Aged(c).ttl = c.ttl - 1 /\ Aged(c).count = c.count
          /\ w - Aged(c).ttl = e + 1 /\ Aged(c).ttl > 0 /\ Aged(c).ttl # NoTTL
      BY <1>1, <1>5 DEF Aged, Older, CounterOK
    <2>2. c.count <= Cardinality(Upto(P, e)) \/ limit <= Cardinality(Upto(P, e))
      BY <1>1, <1>5 DEF SpentBy
    <2>3. \A s \in Upto(P, e) : s.age + 1 < w BY <1>1, <1>5 DEF Upto, Attempt
    <2> HIDE DEF e
    <2>4. ASSUME NEW s \in Upto(P, e)
          PROVE  Later(s) \in Upto(Q, e + 1)
      <3>1. s \in P /\ s.age <= e /\ s.age + 1 < w /\ s \in Attempt BY <2>3 DEF Upto
      <3>2. Later(s) \in Q /\ Later(s).age = s.age + 1 /\ s.age \in Nat
        BY <3>1 DEF Later, Attempt
      <3>3. QED BY <2>1, <3>1, <3>2 DEF Upto
    <2>5. {Later(s) : s \in Upto(P, e)} \subseteq Upto(Q, e + 1) BY <2>4
    <2>6. Upto(P, e) \in SUBSET P /\ Upto(Q, e + 1) \in SUBSET Q BY DEF Upto
    <2>7. /\ IsFiniteSet(Upto(P, e)) /\ Cardinality(Upto(P, e)) \in Nat
          /\ IsFiniteSet(Upto(Q, e + 1)) /\ Cardinality(Upto(Q, e + 1)) \in Nat
          /\ Upto(P, e) \in SUBSET Attempt
      BY <2>6, CountAtMost
    <2>8. Cardinality(Upto(P, e)) <= Cardinality(Upto(Q, e + 1))
      BY <2>5, <2>7, CountLaterSame
    <2>9. \/ Aged(c).count <= Cardinality(Upto(Q, e + 1))
          \/ limit <= Cardinality(Upto(Q, e + 1))
      BY <1>1, <2>1, <2>2, <2>7, <2>8
    <2>10. QED BY <2>1, <2>9 DEF SpentBy
  <1>6. QED BY <1>1, <1>2, <1>3, <1>4, <1>5 DEF SpentBy
-----------------------------------------------------------------------------
(* The attempt of a step.                                                  *)

\* The set from which Note takes an attempt has as many as the bound, which is
\* beyond every limit.
LEMMA AttemptsCount ==
  ASSUME NEW p \in Paths, NEW c \in Clients, NEW how \in Outcomes
  PROVE  /\ Attempts(p, c, how) \in SUBSET Attempt
         /\ Cardinality(Attempts(p, c, how)) >= RuleOf(p).limit
         /\ \A x \in Attempts(p, c, how) :
               x.path = p /\ x.client = c /\ x.age = 0 /\ x.how = how
  <1> DEFINE X == Attempts(p, c, how)
             attempt(n) == [path |-> p, client |-> c, age |-> 0, nr |-> n, how |-> how]
             f == [n \in 1..MaxNoted |-> attempt(n)]
  <1>1. MaxNoted \in Nat /\ RuleOf(p).limit <= MaxNoted /\ RuleOf(p).limit \in Nat
    BY RulesOK
  <1>2. X \in SUBSET Attempt BY DEF Attempts, Attempt
  <1>3. \A x \in X : x.path = p /\ x.client = c /\ x.age = 0 /\ x.how = how
    BY DEF Attempts
  <1>4. f \in [1..MaxNoted -> X] BY DEF Attempts
  <1>5. \A x \in X : x = attempt(x.nr) /\ x.nr \in 1..MaxNoted BY DEF Attempts
  <1>6. \A m, n \in 1..MaxNoted : f[m] = f[n] => m = n
    <2>1. \A m, n : attempt(m) = attempt(n) => attempt(m).nr = attempt(n).nr OBVIOUS
    <2>2. QED BY <2>1
  <1>7. f \in Bijection(1..MaxNoted, X)
    BY <1>4, <1>5, <1>6 DEF Bijection, Injection, IsInjective, Surjection
  <1>8. IsFiniteSet(1..MaxNoted) /\ Cardinality(1..MaxNoted) = MaxNoted
    BY <1>1, FS_Interval
  <1> HIDE DEF X, f
  <1>9. Cardinality(X) = MaxNoted
    <2>1. Cardinality(1..MaxNoted) = Cardinality(X) BY <1>7, <1>8, FS_Bijection DEF ExistsBijection
    <2>2. QED BY <1>8, <2>1
  <1>10. QED BY <1>1, <1>2, <1>3, <1>9 DEF X

\* An attempt that is noted was not there, or there are as many as the bound of
\* its kind already.
LEMMA NoteEffect ==
  ASSUME NEW p \in Paths, NEW c \in Clients, NEW how \in Outcomes, Note(p, c, how)
  PROVE  \/ noted' = noted /\ Attempts(p, c, how) \subseteq noted
         \/ \E x \in Attempts(p, c, how) : x \notin noted /\ noted' = noted \cup {x}
  <1> DEFINE free == Attempts(p, c, how) \ noted
  <1>1. noted' = IF free = {} THEN noted ELSE noted \cup {CHOOSE s \in free : TRUE}
    BY DEF Note
  <1>2. CASE free = {} BY <1>1, <1>2
  <1>3. CASE free # {}
    <2>1. (CHOOSE s \in free : TRUE) \in free BY <1>3
    <2>2. QED BY <1>1, <1>3, <2>1
  <1>4. QED BY <1>2, <1>3
-----------------------------------------------------------------------------
(* Type correctness.                                                       *)

\* The counter of every key is one, also after the script has run on it.
LEMMA CountersOK ==
  ASSUME TypeOK, NEW k \in Keys
  PROVE  CounterOK(counter[k], Window(k))
  BY DEF TypeOK, CounterOK, Window

LEMMA CountedCounter ==
  ASSUME TypeOK, NEW k \in Keys
  PROVE  LET d == Counted(k[1], k) IN
         CounterOK(d, Window(k)) /\ Ran(counter[k], d, Window(k))
  <1> DEFINE c == counter[k]
             d == Counted(k[1], k)
             w == Window(k)
  <1>1. /\ c.count \in 0..MaxCount /\ c.ttl \in {-1} \cup Nat /\ NoTTL = -1
        /\ c.count = 0 <=> c.ttl = 0
        /\ c.ttl <= w
    BY CountersOK DEF CounterOK, NoTTL
  <1>2. w \in Nat \ {0} /\ MaxCount \in Nat \ {0}
    <2>1. Limit(k) \in Nat \ {0} /\ Limit(k) < MaxCount BY KeysOK
    <2>2. QED BY <2>1, KeysOK
  <1>3. d = [count |-> AtMost(c.count + 1, MaxCount), ttl |-> Healed(c, w)]
    BY DEF Counted, Incr, Window
  <1> HIDE DEF c, d, w
  <1>4. d.count = AtMost(c.count + 1, MaxCount) /\ d.ttl = Healed(c, w) BY <1>3
  <1>5. Ran(c, d, w) BY <1>1, <1>2, <1>4 DEF Ran, AtMost, Healed
  <1>6. d.count \in 1..MaxCount /\ d.ttl \in 1..w BY <1>1, <1>2, <1>5 DEF Ran
  <1>7. CounterOK(d, w) BY <1>1, <1>2, <1>3, <1>4, <1>6 DEF CounterOK
  <1>8. QED BY <1>5, <1>7 DEF c, d, w

\* Counting for a request runs the script on the counter of its key only.
LEMMA CountEffect ==
  ASSUME TypeOK, NEW p \in Paths, NEW c \in Clients, Count(p, c)
  PROVE  /\ \A k \in Keys : k # Key(p, c) => counter'[k] = counter[k]
         /\ counter'[Key(p, c)] = Counted(p, Key(p, c))
         /\ Ran(counter[Key(p, c)], counter'[Key(p, c)], Window(Key(p, c)))
         /\ \A k \in Keys : CounterOK(counter'[k], Window(k))
         /\ counter' \in [Keys -> [count : 0..MaxCount, ttl : {NoTTL} \cup Nat]]
         /\ asked' \subseteq Keys
  <1> DEFINE k == Key(p, c)
  <1>1. k \in Keys /\ k[1] = p BY KeyOf
  <1> HIDE DEF k
  <1>2. /\ counter' = [counter EXCEPT ![k] = Counted(p, k)] /\ asked' = asked \cup {k}
        /\ counter \in [Keys -> [count : 0..MaxCount, ttl : {NoTTL} \cup Nat]]
        /\ asked \subseteq Keys
    BY DEF Count, TypeOK, k
  <1>3. counter'[k] = Counted(p, k) /\ \A j \in Keys : j # k => counter'[j] = counter[j]
    BY <1>1, <1>2
  <1>4. CounterOK(Counted(p, k), Window(k)) /\ Ran(counter[k], Counted(p, k), Window(k))
    BY <1>1, CountedCounter
  <1>5. \A j \in Keys : CounterOK(counter'[j], Window(j))
    BY <1>3, <1>4, CountersOK
  <1>6. Counted(p, k) \in [count : 0..MaxCount, ttl : {NoTTL} \cup Nat]
    BY <1>4 DEF CounterOK
  <1>7. counter' \in [Keys -> [count : 0..MaxCount, ttl : {NoTTL} \cup Nat]]
    BY <1>1, <1>2, <1>6
  <1>8. asked' \subseteq Keys BY <1>1, <1>2
  <1>9. QED BY <1>3, <1>4, <1>5, <1>7, <1>8 DEF k

\* An attempt that fails, counted or not, is noted and is a fault.
Faulty == {"open", "lost"}

LEMMA FaultEffect ==
  ASSUME NEW p \in Paths, NEW c \in Clients, Resend(p, c) \/ FailOpen(p, c)
  PROVE  /\ faults < MaxFaults /\ faults' = faults + 1 /\ old' = old
         /\ UNCHANGED <<counter, asked>> \/ Count(p, c)
         /\ \E how \in Faulty : Note(p, c, how)
  <1>1. CASE Resend(p, c) BY <1>1 DEF Resend, Fault, Faulty
  <1>2. CASE FailOpen(p, c) BY <1>2 DEF FailOpen, Fault, Faulty
  <1>3. QED BY <1>1, <1>2

\* What is noted of an attempt is typed.
LEMMA NoteTyped ==
  ASSUME Typed, NEW p \in Paths, NEW c \in Clients, NEW how \in Outcomes,
         Note(p, c, how)
  PROVE  /\ noted' \subseteq Attempt /\ \A s \in noted' : s.age < RuleOf(s.path).window
         /\ IsFiniteSet(noted')
  <1>1. /\ noted \subseteq Attempt /\ \A s \in noted : s.age < RuleOf(s.path).window
        /\ IsFiniteSet(noted)
    BY DEF Typed, TypeOK
  <1>2. CASE noted' = noted BY <1>1, <1>2
  <1>3. CASE \E x \in Attempts(p, c, how) : noted' = noted \cup {x}
    <2>1. PICK x \in Attempts(p, c, how) : noted' = noted \cup {x} BY <1>3
    <2>2. x \in Attempt /\ x.path = p /\ x.age = 0 BY AttemptsCount
    <2>3. RuleOf(p).window \in Nat \ {0} BY RulesOK
    <2>4. IsFiniteSet(noted \cup {x}) BY <1>1, FS_AddElement
    <2>5. x.age < RuleOf(x.path).window BY <2>2, <2>3
    <2>6. QED BY <1>1, <2>1, <2>2, <2>4, <2>5
  <1>4. QED BY <1>2, <1>3, NoteEffect

LEMMA TypedInit == Init => Typed
  <1> SUFFICES ASSUME Init PROVE Typed OBVIOUS
  <1>1. noted = {} /\ IsFiniteSet(noted) BY FS_EmptySet DEF Init
  <1>2. faults \in 0..MaxFaults /\ old \subseteq Keys /\ asked \subseteq Keys
    BY RateLimitAssumption DEF Init
  <1>3. ASSUME NEW k \in Keys
        PROVE  CounterOK(counter[k], Window(k))
    <2>1. counter[k] = NoKey \/ counter[k] = [count |-> MaxCount, ttl |-> NoTTL]
      BY DEF Init
    <2>2. Window(k) \in Nat \ {0} /\ MaxCount \in Nat \ {0}
      <3>1. Limit(k) \in Nat \ {0} /\ Limit(k) < MaxCount BY KeysOK
      <3>2. QED BY <3>1, KeysOK
    <2>3. QED BY <2>1, <2>2 DEF CounterOK, NoKey, NoTTL
  <1>4. counter \in [Keys -> [count : 0..MaxCount, ttl : {NoTTL} \cup Nat]]
    <2>1. /\ counter \in [Keys -> {NoKey, [count |-> MaxCount, ttl |-> NoTTL]}]
      BY DEF Init
    <2>2. QED BY <1>3, <2>1 DEF CounterOK
  <1>5. QED BY <1>1, <1>2, <1>3, <1>4 DEF Typed, TypeOK, CounterOK, Window

LEMMA TypedNext == Typed /\ [Next]_vars => Typed'
  <1> SUFFICES ASSUME Typed, [Next]_vars PROVE Typed' OBVIOUS
  <1>1. /\ TypeOK /\ IsFiniteSet(noted) /\ faults \in 0..MaxFaults
        /\ counter \in [Keys -> [count : 0..MaxCount, ttl : {NoTTL} \cup Nat]]
        /\ old \subseteq Keys /\ asked \subseteq Keys /\ noted \subseteq Attempt
        /\ \A s \in noted : s.age < RuleOf(s.path).window
        /\ MaxFaults \in Nat
    BY RateLimitAssumption DEF Typed, TypeOK
  <1>2. \A k \in Keys : CounterOK(counter[k], Window(k)) BY <1>1, CountersOK
  <1>3. SUFFICES
          /\ counter' \in [Keys -> [count : 0..MaxCount, ttl : {NoTTL} \cup Nat]]
          /\ \A k \in Keys : CounterOK(counter'[k], Window(k))
          /\ faults' \in 0..MaxFaults /\ old' \subseteq Keys /\ asked' \subseteq Keys
          /\ noted' \subseteq Attempt /\ IsFiniteSet(noted')
          /\ \A s \in noted' : s.age < RuleOf(s.path).window
    BY DEF Typed, TypeOK, CounterOK, Window
  <1>4. CASE UNCHANGED vars BY <1>1, <1>2, <1>4 DEF vars
  <1>5. ASSUME NEW p \in Paths, NEW c \in Clients, Admit(p, c)
        PROVE  <1>3!1
    <2>1. Count(p, c) /\ Note(p, c, "allowed") /\ faults' = faults /\ old' = old
      BY <1>5 DEF Admit
    <2>2. QED BY <1>1, <2>1, CountEffect, NoteTyped DEF Outcomes
  <1>6. ASSUME NEW p \in Paths, NEW c \in Clients, Deny(p, c)
        PROVE  <1>3!1
    <2>1. Count(p, c) /\ faults' = faults /\ old' = old /\ noted' = noted
      BY <1>6 DEF Deny
    <2>2. QED BY <1>1, <2>1, CountEffect
  <1>7. ASSUME NEW p \in Paths, NEW c \in Clients, Resend(p, c) \/ FailOpen(p, c)
        PROVE  <1>3!1
    <2>1. /\ faults < MaxFaults /\ faults' = faults + 1 /\ old' = old
          /\ UNCHANGED <<counter, asked>> \/ Count(p, c)
          /\ \E how \in Faulty : Note(p, c, how)
      BY <1>7, FaultEffect
    <2>2. /\ noted' \subseteq Attempt /\ IsFiniteSet(noted')
          /\ \A s \in noted' : s.age < RuleOf(s.path).window
      BY <2>1, NoteTyped DEF Faulty, Outcomes
    <2>3. /\ counter' \in [Keys -> [count : 0..MaxCount, ttl : {NoTTL} \cup Nat]]
          /\ \A k \in Keys : CounterOK(counter'[k], Window(k))
          /\ asked' \subseteq Keys
      BY <1>1, <1>2, <2>1, CountEffect
    <2>4. faults' \in 0..MaxFaults BY <1>1, <2>1
    <2>5. QED BY <1>1, <2>1, <2>2, <2>3, <2>4
  <1>8. CASE Tick
    <2>1. /\ counter' = [k \in Keys |-> Aged(counter[k])] /\ faults' = faults
          /\ old' \subseteq Keys /\ asked' \subseteq Keys
          /\ noted' = {Later(s) : s \in {s \in noted : Remembered(s)}}
      BY <1>1, <1>8 DEF Tick
    <2>2. ASSUME NEW k \in Keys
          PROVE  CounterOK(counter'[k], Window(k))
      <3> DEFINE d == counter[k]
                 w == Window(k)
      <3>1. CounterOK(d, w) BY <1>2
      <3>2. counter'[k] = Aged(d) BY <2>1
      <3> HIDE DEF d, w
      <3>3. w \in Nat \ {0} /\ MaxCount \in Nat BY KeysOK DEF w
      <3>4. CASE d.ttl = 1
        <4>1. Aged(d) = NoKey BY <3>4 DEF Aged
        <4>2. QED BY <3>2, <3>3, <4>1 DEF CounterOK, NoKey, NoTTL, w
      <3>5. CASE d.ttl # 1
        <4>1. Aged(d) = [d EXCEPT !.ttl = Older(d.ttl)] BY <3>5 DEF Aged
        <4>2. /\ d \in [count : 0..MaxCount, ttl : {NoTTL} \cup Nat]
              /\ d.count = 0 <=> d.ttl = 0
              /\ d.ttl <= w
          BY <3>1 DEF CounterOK
        <4>3. /\ Older(d.ttl) \in {NoTTL} \cup Nat /\ Older(d.ttl) <= w
              /\ Older(d.ttl) = 0 <=> d.ttl = 0
          BY <3>3, <3>5, <4>2 DEF Older, NoTTL
        <4>4. /\ Aged(d) \in [count : 0..MaxCount, ttl : {NoTTL} \cup Nat]
              /\ Aged(d).count = d.count /\ Aged(d).ttl = Older(d.ttl)
          BY <4>1, <4>2, <4>3
        <4>5. CounterOK(Aged(d), w) BY <4>2, <4>3, <4>4 DEF CounterOK
        <4>6. QED BY <3>2, <4>5 DEF w
      <3>6. QED BY <3>4, <3>5
    <2>3. counter' \in [Keys -> [count : 0..MaxCount, ttl : {NoTTL} \cup Nat]]
      <3>1. \A k \in Keys : Aged(counter[k]) \in [count : 0..MaxCount, ttl : {NoTTL} \cup Nat]
        BY <2>1, <2>2 DEF CounterOK
      <3>2. QED BY <2>1, <3>1
    <2>4. ASSUME NEW s \in noted'
          PROVE  s \in Attempt /\ s.age < RuleOf(s.path).window
      <3>1. PICK t \in noted : s = Later(t) /\ Remembered(t) BY <2>1
      <3>2. t \in Attempt BY <1>1
      <3>3. /\ s.age = t.age + 1 /\ s.path = t.path /\ s \in Attempt
        BY <3>1, <3>2 DEF Later, Attempt
      <3>4. QED BY <3>1, <3>3 DEF Remembered
    <2>5. IsFiniteSet(noted')
      <3>1. noted' \subseteq {Later(s) : s \in noted} BY <2>1
      <3>2. QED BY <1>1, <3>1, CountLater
    <2>6. QED BY <1>1, <2>1, <2>2, <2>3, <2>4, <2>5
  <1>9. QED BY <1>4, <1>5, <1>6, <1>7, <1>8 DEF Next

\* Every variable keeps a value of its type; no counter lives longer than the
\* window of its rule.
THEOREM TypeCorrect == Spec => []TypeOK
  <1>1. Typed => TypeOK BY DEF Typed
  <1>2. QED BY <1>1, TypedInit, TypedNext, PTL DEF Spec
-----------------------------------------------------------------------------
(* The inductive invariant.                                                *)

\* What the attempts on a key are after a step of a caller.
LEMMA SameAttempts ==
  ASSUME NEW k, noted' = noted
  PROVE  Of(k)' = Of(k) /\ Admitted(k)' = Admitted(k) /\ Failed' = Failed
  BY DEF Of, Admitted, Failed, Key, Subject

LEMMA NewAttempt ==
  ASSUME NEW p \in Paths, NEW c \in Clients, NEW how \in Outcomes,
         NEW x \in Attempts(p, c, how), x \notin noted, noted' = noted \cup {x}
  PROVE  /\ \A k \in Keys : k # Key(p, c) => Of(k)' = Of(k) /\ Admitted(k)' = Admitted(k)
         /\ Of(Key(p, c))' = Of(Key(p, c)) \cup {x}
         /\ Admitted(Key(p, c))' = IF how = "allowed" THEN Admitted(Key(p, c)) \cup {x}
                                                       ELSE Admitted(Key(p, c))
         /\ Failed' = IF how = "allowed" THEN Failed ELSE Failed \cup {x}
         /\ x \notin Of(Key(p, c)) /\ x \notin Admitted(Key(p, c)) /\ x \notin Failed
  <1>1. x.path = p /\ x.client = c /\ x.how = how BY AttemptsCount
  <1>2. \A k : Of(k)' = {s \in noted' : Key(s.path, s.client) = k}
    BY DEF Of, Key, Subject
  <1>3. \A k : Of(k)' = IF k = Key(p, c) THEN Of(k) \cup {x} ELSE Of(k)
    BY <1>1, <1>2 DEF Of
  <1>4. \A k : Admitted(k)' = {s \in Of(k)' : s.how = "allowed"} BY DEF Admitted
  <1>5. \A k \in Keys : k # Key(p, c) => Of(k)' = Of(k) /\ Admitted(k)' = Admitted(k)
    BY <1>3, <1>4 DEF Admitted
  <1>6. Failed' = {s \in noted' : s.how # "allowed"} BY DEF Failed
  <1>7. CASE how # "allowed"
    <2>1. Admitted(Key(p, c))' = Admitted(Key(p, c))
      BY <1>1, <1>3, <1>4, <1>7 DEF Admitted
    <2>2. Failed' = Failed \cup {x} BY <1>1, <1>6, <1>7 DEF Failed
    <2>3. QED BY <1>3, <1>5, <1>7, <2>1, <2>2 DEF Of, Admitted, Failed
  <1>8. CASE how = "allowed"
    <2>1. Admitted(Key(p, c))' = Admitted(Key(p, c)) \cup {x}
      BY <1>1, <1>3, <1>4, <1>8 DEF Admitted
    <2>2. Failed' = Failed BY <1>1, <1>6, <1>8 DEF Failed
    <2>3. QED BY <1>3, <1>5, <1>8, <2>1, <2>2 DEF Of, Admitted, Failed
  <1>9. QED BY <1>7, <1>8

\* Windows, limits and keys do not change, and the attempts on a key are finite.
LEMMA OfFinite ==
  ASSUME Typed, NEW k
  PROVE  /\ Of(k) \in SUBSET Attempt /\ IsFiniteSet(Of(k)) /\ Cardinality(Of(k)) \in Nat
         /\ Admitted(k) \in SUBSET Attempt /\ IsFiniteSet(Admitted(k))
         /\ Admitted(k) \in SUBSET Of(k)
  <1>1. noted \subseteq Attempt /\ IsFiniteSet(noted) BY DEF Typed, TypeOK
  <1>2. Of(k) \in SUBSET noted /\ Admitted(k) \in SUBSET Of(k) BY DEF Of, Admitted
  <1>3. IsFiniteSet(Of(k)) /\ Cardinality(Of(k)) \in Nat BY <1>1, <1>2, CountAtMost
  <1>4. IsFiniteSet(Admitted(k)) BY <1>2, <1>3, CountAtMost
  <1>5. QED BY <1>1, <1>2, <1>3, <1>4

\* The attempts on a key are those from which Note takes one, or there are
\* as many of them as the limit.
LEMMA AttemptsNoted ==
  ASSUME Typed, NEW p \in Paths, NEW c \in Clients, NEW how \in Outcomes,
         Attempts(p, c, how) \subseteq noted
  PROVE  /\ Attempts(p, c, how) \in SUBSET Of(Key(p, c))
         /\ how = "allowed" => Attempts(p, c, how) \in SUBSET Admitted(Key(p, c))
         /\ Limit(Key(p, c)) <= Cardinality(Attempts(p, c, how))
         /\ \A x \in Attempts(p, c, how) : x.age = 0
  <1> DEFINE X == Attempts(p, c, how)
  <1>1. /\ Cardinality(X) >= RuleOf(p).limit
        /\ \A x \in X : x.path = p /\ x.client = c /\ x.age = 0 /\ x.how = how
    BY AttemptsCount
  <1>2. X \subseteq noted OBVIOUS
  <1> HIDE DEF X
  <1>3. X \in SUBSET Of(Key(p, c)) BY <1>1, <1>2 DEF Of
  <1>4. how = "allowed" => X \in SUBSET Admitted(Key(p, c)) BY <1>1, <1>3 DEF Admitted
  <1>5. Limit(Key(p, c)) = RuleOf(p).limit BY KeyOf DEF Limit
  <1>6. X \in SUBSET noted BY <1>2
  <1>7. Cardinality(X) \in Nat /\ RuleOf(p).limit \in Nat BY <1>6, CountType, RulesOK
  <1>8. QED BY <1>1, <1>3, <1>4, <1>5, <1>7 DEF X

LEMMA IInvInit == Init => IInv
  <1> SUFFICES ASSUME Init PROVE IInv OBVIOUS
  <1>1. Typed BY TypedInit
  <1>2. noted = {} /\ faults = 0 BY DEF Init
  <1>3. Cardinality({}) = 0 BY FS_EmptySet
  <1>4. FailedBounded
    <2>1. Failed = {} BY <1>2 DEF Failed
    <2>2. QED BY <1>2, <1>3, <2>1 DEF FailedBounded
  <1>5. ASSUME NEW k \in Keys
        PROVE  Bounded(k) /\ Spent(k)
    <2>1. Of(k) = {} /\ Admitted(k) = {} BY <1>2 DEF Of, Admitted
    <2>2. Limit(k) \in Nat \ {0} BY KeysOK
    <2>3. CASE counter[k] = NoKey
      <3>1. counter[k].ttl = 0 /\ counter[k].ttl # NoTTL BY <2>3 DEF NoKey, NoTTL
      <3>2. BoundedBy(counter[k], {}, Window(k), Limit(k))
        BY <1>3, <2>2, <3>1 DEF BoundedBy
      <3>3. SpentBy(counter[k], {}, Window(k), Limit(k)) BY <3>1 DEF SpentBy
      <3>4. QED BY <2>1, <3>2, <3>3 DEF Bounded, Spent
    <2>4. CASE counter[k] = [count |-> MaxCount, ttl |-> NoTTL]
      <3>1. counter[k].ttl = -1 /\ counter[k].count = MaxCount /\ NoTTL = -1
        BY <2>4 DEF NoTTL
      <3>2. BoundedBy(counter[k], {}, Window(k), Limit(k)) BY <3>1 DEF BoundedBy
      <3>3. counter[k] # NoKey BY <3>1 DEF NoKey
      <3>4. k \in old BY <3>3 DEF Init
      <3>5. QED BY <2>1, <3>2, <3>4 DEF Bounded, Spent
    <2>5. QED BY <2>3, <2>4 DEF Init
  <1>6. QED BY <1>1, <1>4, <1>5 DEF IInv

\* A request the script has allowed.
LEMMA AdmitKeeps ==
  ASSUME IInv, Typed', NEW p \in Paths, NEW c \in Clients, Admit(p, c)
  PROVE  FailedBounded' /\ \A k \in Keys : Bounded(k)' /\ Spent(k)'
  <1> DEFINE j == Key(p, c)
  <1>1. /\ Typed /\ TypeOK /\ FailedBounded /\ \A k \in Keys : Bounded(k) /\ Spent(k)
        /\ Within(p, c) /\ Count(p, c) /\ Note(p, c, "allowed")
        /\ faults' = faults /\ old' = old
    BY DEF IInv, Typed, Admit
  <1>2. j \in Keys /\ Limit(j) = RuleOf(p).limit BY KeyOf DEF Limit
  <1>3. /\ Window(j) \in Nat \ {0} /\ Limit(j) \in Nat \ {0} /\ Limit(j) < MaxCount
        /\ MaxCount \in Nat
    BY <1>2, KeysOK
  <1>4. /\ \A k \in Keys : k # j => counter'[k] = counter[k]
        /\ counter'[j] = Counted(p, j)
        /\ CounterOK(counter[j], Window(j)) /\ Ran(counter[j], counter'[j], Window(j))
    BY <1>1, <1>2, CountEffect, CountersOK
  <1>5. counter'[j].count <= Limit(j) BY <1>1, <1>2, <1>4 DEF Within, Allowed
  <1>6. /\ Of(j) \in SUBSET Attempt /\ IsFiniteSet(Of(j))
        /\ Admitted(j) \in SUBSET Attempt /\ IsFiniteSet(Admitted(j))
    BY <1>1, OfFinite
  <1>7. /\ BoundedBy(counter[j], Admitted(j), Window(j), Limit(j))
        /\ j \notin old => SpentBy(counter[j], Of(j), Window(j), Limit(j))
    BY <1>1, <1>2 DEF Bounded, Spent
  <1>8. PICK x \in Attempts(p, c, "allowed") : x \notin noted /\ noted' = noted \cup {x}
    <2>1. CASE Attempts(p, c, "allowed") \subseteq noted
      <3> DEFINE X == Attempts(p, c, "allowed")
      <3>1. /\ X \in SUBSET Admitted(j) /\ Limit(j) <= Cardinality(X)
            /\ \A s \in X : s.age = 0
        BY <1>1, <2>1, AttemptsNoted DEF Outcomes
      <3> HIDE DEF X, j
      <3>2. Cardinality(X) < Limit(j)
        BY <1>3, <1>4, <1>5, <1>6, <1>7, <3>1, AdmitHasRoom
      <3>3. Cardinality(X) \in Nat BY <1>6, <3>1, CountAtMost
      <3>4. QED BY <1>3, <3>1, <3>2, <3>3
    <2>2. QED BY <1>1, <2>1, NoteEffect DEF Outcomes
  <1>9. /\ \A k \in Keys : k # j => Of(k)' = Of(k) /\ Admitted(k)' = Admitted(k)
        /\ Of(j)' = Of(j) \cup {x} /\ Admitted(j)' = Admitted(j) \cup {x}
        /\ Failed' = Failed /\ x \notin Of(j) /\ x \notin Admitted(j)
    BY <1>8, NewAttempt DEF Outcomes
  <1>10. x.age = 0 BY DEF Attempts
  <1>11. FailedBounded'
    <2>1. Failed' = Failed /\ faults' = faults BY <1>1, <1>9
    <2>2. Cardinality(Failed) <= faults BY <1>1 DEF FailedBounded
    <2>3. Cardinality(Failed') <= faults' BY <2>1, <2>2
    <2>4. QED BY <2>3 DEF FailedBounded
  <1>12. ASSUME NEW k \in Keys, k # j
         PROVE  Bounded(k)' /\ Spent(k)'
    <2>1. counter'[k] = counter[k] /\ Of(k)' = Of(k) /\ Admitted(k)' = Admitted(k)
      BY <1>4, <1>9, <1>12
    <2>2. Bounded(k) /\ Spent(k) BY <1>1
    <2>3. QED BY <1>1, <2>1, <2>2 DEF Bounded, Spent, Window, Limit
  <1> HIDE DEF j
  <1>13. BoundedBy(counter'[j], Admitted(j) \cup {x}, Window(j), Limit(j))
    BY <1>3, <1>4, <1>5, <1>6, <1>7, <1>9, <1>10, AdmitKeepsBounded
  <1>14. j \notin old => SpentBy(counter'[j], Of(j) \cup {x}, Window(j), Limit(j))
    <2>1. IsFiniteSet(Of(j) \cup {x}) BY <1>6, FS_AddElement
    <2>2. \E y : y \notin Of(j) /\ y \in Of(j) \cup {x} /\ y.age = 0 BY <1>9, <1>10
    <2>3. QED BY <1>3, <1>4, <1>6, <1>7, <2>1, <2>2, CountKeepsSpent
  <1>15. Bounded(j)' /\ Spent(j)'
    <2>1. BoundedBy(counter'[j], Admitted(j)', Window(j), Limit(j)) BY <1>9, <1>13
    <2>2. j \notin old => SpentBy(counter'[j], Of(j)', Window(j), Limit(j))
      BY <1>9, <1>14
    <2>3. QED BY <1>1, <2>1, <2>2 DEF Bounded, Spent, Window, Limit
  <1>16. QED BY <1>11, <1>12, <1>15

\* An attempt that has failed, whether or not the script has run.
LEMMA FaultKeeps ==
  ASSUME IInv, Typed', NEW p \in Paths, NEW c \in Clients,
         Resend(p, c) \/ FailOpen(p, c)
  PROVE  FailedBounded' /\ \A k \in Keys : Bounded(k)' /\ Spent(k)'
  <1> DEFINE j == Key(p, c)
  <1>1. /\ Typed /\ TypeOK /\ FailedBounded /\ \A k \in Keys : Bounded(k) /\ Spent(k)
        /\ UNCHANGED <<counter, asked>> \/ Count(p, c)
        /\ faults' = faults + 1 /\ old' = old /\ faults \in Nat
    <2>1. /\ Typed /\ TypeOK /\ FailedBounded /\ \A k \in Keys : Bounded(k) /\ Spent(k)
          /\ faults \in Nat
      BY DEF IInv, Typed, TypeOK
    <2>2. QED BY <2>1, FaultEffect
  <1> PICK how \in Faulty : Note(p, c, how) BY FaultEffect
  <1>0. how \in Outcomes /\ how # "allowed" BY DEF Faulty, Outcomes
  <1>2. j \in Keys BY KeyOf
  <1>3. /\ Window(j) \in Nat \ {0} /\ Limit(j) \in Nat \ {0} /\ Limit(j) < MaxCount
        /\ MaxCount \in Nat
    BY <1>2, KeysOK
  <1>4. /\ \A k \in Keys : k # j => counter'[k] = counter[k]
        /\ counter'[j] = counter[j] \/ Ran(counter[j], counter'[j], Window(j))
        /\ CounterOK(counter[j], Window(j))
    BY <1>1, <1>2, CountEffect, CountersOK
  <1>5. /\ Of(j) \in SUBSET Attempt /\ IsFiniteSet(Of(j))
        /\ Admitted(j) \in SUBSET Attempt /\ IsFiniteSet(Admitted(j))
    BY <1>1, OfFinite
  <1>6. /\ BoundedBy(counter[j], Admitted(j), Window(j), Limit(j))
        /\ j \notin old => SpentBy(counter[j], Of(j), Window(j), Limit(j))
    BY <1>1, <1>2 DEF Bounded, Spent
  <1>7. /\ \A k \in Keys : k # j => Of(k)' = Of(k)
        /\ \A k \in Keys : Admitted(k)' = Admitted(k)
        /\ Of(j) \subseteq Of(j)'
        /\ \/ Failed' = Failed
           \/ \E x : x \notin Failed /\ Failed' = Failed \cup {x}
        /\ \/ \E x : x \notin Of(j) /\ x \in Of(j)' /\ x.age = 0
           \/ \E X \in SUBSET Of(j)' : Limit(j) <= Cardinality(X) /\ \A x \in X : x.age = 0
    <2>1. CASE noted' = noted /\ Attempts(p, c, how) \subseteq noted
      <3> DEFINE X == Attempts(p, c, how)
      <3>1. \A k : Of(k)' = Of(k) /\ Admitted(k)' = Admitted(k) /\ Failed' = Failed
        BY <2>1, SameAttempts
      <3>2. X \in SUBSET Of(j) /\ Limit(j) <= Cardinality(X) /\ \A s \in X : s.age = 0
        BY <1>0, <1>1, <2>1, AttemptsNoted
      <3> HIDE DEF X, j
      <3>3. QED BY <3>1, <3>2
    <2>2. CASE \E x \in Attempts(p, c, how) : x \notin noted /\ noted' = noted \cup {x}
      <3>1. PICK x \in Attempts(p, c, how) : x \notin noted /\ noted' = noted \cup {x}
        BY <2>2
      <3>2. /\ \A k \in Keys : k # j => Of(k)' = Of(k) /\ Admitted(k)' = Admitted(k)
            /\ Of(j)' = Of(j) \cup {x} /\ Admitted(j)' = Admitted(j)
            /\ Failed' = Failed \cup {x} /\ x \notin Of(j) /\ x \notin Failed
        BY <1>0, <3>1, NewAttempt
      <3>3. x.age = 0 BY DEF Attempts
      <3> HIDE DEF j
      <3>4. x \notin Of(j) /\ x \in Of(j)' /\ x.age = 0 BY <3>2, <3>3
      <3>5. QED BY <3>2, <3>4
    <2>3. QED BY <1>0, <2>1, <2>2, NoteEffect
  <1>8. FailedBounded'
    <2>1. Cardinality(Failed) <= faults BY <1>1 DEF FailedBounded
    <2>2. Failed \in SUBSET noted BY DEF Failed
    <2>3. IsFiniteSet(Failed) /\ Cardinality(Failed) \in Nat BY <1>1, <2>2, CountType
    <2>4. \A x : x \notin Failed => Cardinality(Failed \cup {x}) = Cardinality(Failed) + 1
      BY <2>3, FS_AddElement
    <2>5. CASE Failed' = Failed
      <3>1. Cardinality(Failed') <= faults' BY <1>1, <2>1, <2>3, <2>5
      <3>2. QED BY <3>1 DEF FailedBounded
    <2>6. CASE \E x : x \notin Failed /\ Failed' = Failed \cup {x}
      <3>1. PICK x : x \notin Failed /\ Failed' = Failed \cup {x} BY <2>6
      <3>2. Cardinality(Failed') = Cardinality(Failed) + 1 BY <2>4, <3>1
      <3>3. Cardinality(Failed') <= faults' BY <1>1, <2>1, <2>3, <3>2
      <3>4. QED BY <3>3 DEF FailedBounded
    <2>7. QED BY <1>7, <2>5, <2>6
  <1>9. ASSUME NEW k \in Keys, k # j
        PROVE  Bounded(k)' /\ Spent(k)'
    <2>1. counter'[k] = counter[k] /\ Of(k)' = Of(k) /\ Admitted(k)' = Admitted(k)
      BY <1>4, <1>7, <1>9
    <2>2. Bounded(k) /\ Spent(k) BY <1>1
    <2>3. QED BY <1>1, <2>1, <2>2 DEF Bounded, Spent, Window, Limit
  <1>10. IsFiniteSet(Of(j)')
    <2>1. IsFiniteSet(noted') BY DEF Typed
    <2>2. Of(j)' \in SUBSET noted' BY DEF Of
    <2>3. QED BY <2>1, <2>2, CountAtMost
  <1> HIDE DEF j
  <1>11. BoundedBy(counter'[j], Admitted(j), Window(j), Limit(j))
    BY <1>3, <1>4, <1>5, <1>6, CountKeepsBounded
  <1>12. j \notin old => SpentBy(counter'[j], Of(j)', Window(j), Limit(j))
    <2>1. CASE Ran(counter[j], counter'[j], Window(j)) /\ j \notin old
      BY <1>3, <1>4, <1>5, <1>6, <1>7, <1>10, <2>1, CountKeepsSpent
    <2>2. CASE counter'[j] = counter[j] /\ j \notin old
      <3> DEFINE e == Window(j) - counter[j].ttl
      <3>1. Upto(Of(j), e) \in SUBSET Upto(Of(j)', e) /\ Upto(Of(j)', e) \in SUBSET Of(j)'
        BY <1>7 DEF Upto
      <3> HIDE DEF e
      <3>2. IsFiniteSet(Upto(Of(j)', e)) BY <1>10, <3>1, CountAtMost
      <3>3. /\ Cardinality(Upto(Of(j), e)) <= Cardinality(Upto(Of(j)', e))
            /\ Cardinality(Upto(Of(j), e)) \in Nat /\ Cardinality(Upto(Of(j)', e)) \in Nat
        BY <3>1, <3>2, CountAtMost
      <3>4. counter[j].count \in Nat BY <1>4 DEF CounterOK
      <3>5. QED BY <1>3, <1>6, <2>2, <3>3, <3>4 DEF SpentBy, e
    <2>3. QED BY <1>4, <2>1, <2>2
  <1>13. Bounded(j)' /\ Spent(j)'
    <2>1. Admitted(j)' = Admitted(j) BY <1>2, <1>7
    <2>2. QED BY <1>1, <1>11, <1>12, <2>1 DEF Bounded, Spent, Window, Limit
  <1>14. QED BY <1>8, <1>9, <1>13

\* A request that is denied finds attempts on its key on which the count has been
\* spent, as many as the limit.
LEMMA DenyFindsSpent ==
  ASSUME IInv, NEW p \in Paths, NEW c \in Clients, Deny(p, c), Key(p, c) \notin old
  PROVE  LET j == Key(p, c) IN
         \E X \in SUBSET Of(j) : /\ Limit(j) <= Cardinality(X)
                                 /\ X = Upto(Of(j), Window(j) - counter'[j].ttl)
  <1> DEFINE j == Key(p, c)
  <1>1. /\ Typed /\ TypeOK /\ \A k \in Keys : Spent(k)
        /\ ~Within(p, c) /\ Count(p, c)
    BY DEF IInv, Typed, Deny
  <1>2. j \in Keys /\ Limit(j) = RuleOf(p).limit BY KeyOf DEF Limit
  <1>3. /\ Window(j) \in Nat \ {0} /\ Limit(j) \in Nat \ {0} /\ Limit(j) < MaxCount
        /\ MaxCount \in Nat
    BY <1>2, KeysOK
  <1>4. /\ counter'[j] = Counted(p, j) /\ CounterOK(counter[j], Window(j))
        /\ Ran(counter[j], counter'[j], Window(j))
    BY <1>1, <1>2, CountEffect, CountersOK
  <1>5. ~(counter'[j].count <= Limit(j)) BY <1>1, <1>2, <1>4 DEF Within, Allowed
  <1>6. SpentBy(counter[j], Of(j), Window(j), Limit(j)) BY <1>1, <1>2 DEF Spent
  <1>7. IsFiniteSet(Of(j)) BY <1>1, OfFinite
  <1> HIDE DEF j
  <1>8. /\ counter[j].count \in 0..MaxCount /\ counter[j].ttl \in {-1} \cup Nat /\ NoTTL = -1
        /\ counter[j].count = 0 <=> counter[j].ttl = 0
        /\ counter[j].ttl # NoTTL
    BY <1>4, <1>6 DEF CounterOK, NoTTL, SpentBy
  <1>9. counter[j].count >= Limit(j) /\ counter[j].ttl > 0
        /\ counter'[j].ttl = counter[j].ttl
    BY <1>3, <1>4, <1>5, <1>8 DEF Ran
  <1> DEFINE X == Upto(Of(j), Window(j) - counter[j].ttl)
  <1>10. X \in SUBSET Of(j) BY DEF Upto
  <1>11. Cardinality(X) \in Nat BY <1>7, <1>10, CountAtMost
  <1>12. counter[j].count <= Cardinality(X) \/ Limit(j) <= Cardinality(X)
    BY <1>6, <1>9 DEF SpentBy
  <1> HIDE DEF X
  <1>13. Limit(j) <= Cardinality(X) BY <1>3, <1>8, <1>9, <1>11, <1>12
  <1>14. QED BY <1>9, <1>10, <1>13 DEF X, j

\* A request that is denied.
LEMMA DenyKeeps ==
  ASSUME IInv, Typed', NEW p \in Paths, NEW c \in Clients, Deny(p, c)
  PROVE  FailedBounded' /\ \A k \in Keys : Bounded(k)' /\ Spent(k)'
  <1> DEFINE j == Key(p, c)
  <1>1. /\ Typed /\ TypeOK /\ FailedBounded /\ \A k \in Keys : Bounded(k) /\ Spent(k)
        /\ Count(p, c) /\ faults' = faults /\ old' = old /\ noted' = noted
    BY DEF IInv, Typed, Deny
  <1>2. j \in Keys BY KeyOf
  <1>3. /\ Window(j) \in Nat \ {0} /\ Limit(j) \in Nat \ {0} /\ Limit(j) < MaxCount
        /\ MaxCount \in Nat
    BY <1>2, KeysOK
  <1>4. /\ \A k \in Keys : k # j => counter'[k] = counter[k]
        /\ CounterOK(counter[j], Window(j)) /\ Ran(counter[j], counter'[j], Window(j))
    BY <1>1, <1>2, CountEffect, CountersOK
  <1>5. Admitted(j) \in SUBSET Attempt /\ IsFiniteSet(Admitted(j)) BY <1>1, OfFinite
  <1>6. \A k : Of(k)' = Of(k) /\ Admitted(k)' = Admitted(k) /\ Failed' = Failed
    BY <1>1, SameAttempts
  <1>7. FailedBounded'
    <2>1. Failed' = Failed /\ faults' = faults BY <1>1, <1>6
    <2>2. Cardinality(Failed) <= faults BY <1>1 DEF FailedBounded
    <2>3. Cardinality(Failed') <= faults' BY <2>1, <2>2
    <2>4. QED BY <2>3 DEF FailedBounded
  <1>8. ASSUME NEW k \in Keys, k # j
        PROVE  Bounded(k)' /\ Spent(k)'
    <2>1. counter'[k] = counter[k] /\ Of(k)' = Of(k) /\ Admitted(k)' = Admitted(k)
      BY <1>4, <1>6, <1>8
    <2>2. Bounded(k) /\ Spent(k) BY <1>1
    <2>3. QED BY <1>1, <2>1, <2>2 DEF Bounded, Spent, Window, Limit
  <1>9. j \notin old => /\ Limit(j) <= Cardinality(Upto(Of(j), Window(j) - counter'[j].ttl))
    BY DenyFindsSpent
  <1> HIDE DEF j
  <1>10. BoundedBy(counter[j], Admitted(j), Window(j), Limit(j))
    BY <1>1, <1>2 DEF Bounded
  <1>11. BoundedBy(counter'[j], Admitted(j), Window(j), Limit(j))
    BY <1>3, <1>4, <1>5, <1>10, CountKeepsBounded
  <1>12. counter'[j].ttl # NoTTL BY <1>3, <1>4 DEF Ran, NoTTL, CounterOK
  <1>13. j \notin old => SpentBy(counter'[j], Of(j), Window(j), Limit(j))
    BY <1>9, <1>12 DEF SpentBy
  <1>14. Bounded(j)' /\ Spent(j)'
    <2>1. Of(j)' = Of(j) /\ Admitted(j)' = Admitted(j) BY <1>6
    <2>2. QED BY <1>1, <1>11, <1>13, <2>1 DEF Bounded, Spent, Window, Limit
  <1>15. QED BY <1>7, <1>8, <1>14

\* A unit of time.
LEMMA TickKeeps ==
  ASSUME IInv, Typed', Tick
  PROVE  FailedBounded' /\ \A k \in Keys : Bounded(k)' /\ Spent(k)'
  <1>1. /\ Typed /\ TypeOK /\ FailedBounded /\ \A k \in Keys : Bounded(k) /\ Spent(k)
        /\ faults' = faults /\ counter' = [k \in Keys |-> Aged(counter[k])]
        /\ old' = {k \in old : counter'[k] # NoKey}
        /\ noted' = {Later(s) : s \in {s \in noted : Remembered(s)}}
        /\ noted \subseteq Attempt /\ IsFiniteSet(noted) /\ faults \in Nat
    BY DEF IInv, Typed, TypeOK, Tick
  <1>2. IsFiniteSet(noted') /\ \A s \in noted' : s.age < RuleOf(s.path).window
    BY DEF Typed, TypeOK
  <1>3. ASSUME NEW s \in noted
        PROVE  /\ Later(s).path = s.path /\ Later(s).client = s.client
               /\ Later(s).how = s.how /\ Later(s).age = s.age + 1
    BY <1>1 DEF Later, Attempt
  <1>4. \A t \in noted' : \E s \in noted : t = Later(s) /\ Remembered(s) BY <1>1
  <1>5. FailedBounded'
    <2>1. Failed' \subseteq {Later(s) : s \in Failed} BY <1>3, <1>4 DEF Failed
    <2>2. Failed \in SUBSET noted BY DEF Failed
    <2>3. IsFiniteSet(Failed) /\ Cardinality(Failed) \in Nat /\ Failed \in SUBSET Attempt
      BY <1>1, <2>2, CountType
    <2>4. IsFiniteSet(Failed') /\ Cardinality(Failed') <= Cardinality(Failed)
      BY <2>1, <2>3, CountLater
    <2>5. Cardinality(Failed') \in Nat BY <2>4, FS_CardinalityType
    <2>6. Cardinality(Failed) <= faults BY <1>1 DEF FailedBounded
    <2>7. Cardinality(Failed') <= faults' BY <1>1, <2>3, <2>4, <2>5, <2>6
    <2>8. QED BY <2>7 DEF FailedBounded
  <1>6. ASSUME NEW k \in Keys
        PROVE  Bounded(k)' /\ Spent(k)'
    <2>1. /\ Window(k) \in Nat \ {0} /\ Limit(k) \in Nat \ {0} /\ MaxCount \in Nat
          /\ CounterOK(counter[k], Window(k)) /\ counter'[k] = Aged(counter[k])
      BY <1>1, KeysOK, CountersOK
    <2>2. /\ Of(k) \in SUBSET Attempt /\ IsFiniteSet(Of(k))
          /\ Admitted(k) \in SUBSET Attempt /\ IsFiniteSet(Admitted(k))
      BY <1>1, OfFinite
    <2>3. /\ Of(k)' = {s \in noted' : Key(s.path, s.client) = k}
          /\ Admitted(k)' = {s \in noted' : Key(s.path, s.client) = k /\ s.how = "allowed"}
      BY DEF Of, Admitted, Key, Subject
    <2>4. Admitted(k)' \subseteq {Later(s) : s \in Admitted(k)}
      BY <1>3, <1>4, <2>3 DEF Of, Admitted
    <2>5. \A s \in Of(k) : RuleOf(s.path).window = Window(k) /\ s \in noted
      BY <1>1 DEF Of, Window, Key
    <2>6. \A s \in Of(k)' : RuleOf(s.path).window = Window(k) BY <2>3 DEF Window, Key
    <2>7. \A s \in Admitted(k)' : s.age < Window(k)
      <3>1. Admitted(k)' \subseteq Of(k)' /\ Of(k)' \subseteq noted' BY <2>3
      <3>2. QED BY <1>2, <2>6, <3>1
    <2>8. \A s \in Of(k) : s.age + 1 < Window(k) => Later(s) \in Of(k)'
      <3>1. ASSUME NEW s \in Of(k), s.age + 1 < Window(k)
            PROVE  Later(s) \in Of(k)'
        <4>1. Remembered(s) /\ s \in noted BY <2>5, <3>1 DEF Remembered
        <4>2. Later(s) \in noted' BY <1>1, <4>1
        <4>3. Key(Later(s).path, Later(s).client) = k BY <1>3, <4>1 DEF Of
        <4>4. QED BY <2>3, <4>2, <4>3
      <3>2. QED BY <3>1
    <2>9. IsFiniteSet(Of(k)')
      <3>1. Of(k)' \in SUBSET noted' BY <2>3
      <3>2. QED BY <1>2, <3>1, CountAtMost
    <2>10. /\ BoundedBy(counter[k], Admitted(k), Window(k), Limit(k))
           /\ k \notin old => SpentBy(counter[k], Of(k), Window(k), Limit(k))
      BY <1>1 DEF Bounded, Spent
    <2>11. BoundedBy(Aged(counter[k]), Admitted(k)', Window(k), Limit(k))
      BY <2>1, <2>2, <2>4, <2>7, <2>10, TickKeepsBounded
    <2>12. k \notin old' => SpentBy(Aged(counter[k]), Of(k)', Window(k), Limit(k))
      <3>1. k \notin old' => k \notin old \/ Aged(counter[k]) = NoKey BY <1>1, <2>1
      <3>2. QED BY <2>1, <2>2, <2>8, <2>9, <2>10, <3>1, TickKeepsSpent
    <2>13. QED BY <2>1, <2>11, <2>12 DEF Bounded, Spent, Window, Limit
  <1>7. QED BY <1>5, <1>6

LEMMA IInvNext == IInv /\ [Next]_vars => IInv'
  <1> SUFFICES ASSUME IInv, [Next]_vars PROVE IInv' OBVIOUS
  <1>1. Typed' BY TypedNext DEF IInv
  <1>2. SUFFICES FailedBounded' /\ \A k \in Keys : Bounded(k)' /\ Spent(k)'
    BY <1>1 DEF IInv, Keys, Key, Subject
  <1>3. CASE UNCHANGED vars
    <2>1. noted' = noted /\ counter' = counter /\ faults' = faults /\ old' = old
      BY <1>3 DEF vars
    <2>2. \A k : Of(k)' = Of(k) /\ Admitted(k)' = Admitted(k) /\ Failed' = Failed
      BY <2>1, SameAttempts
    <2>3. FailedBounded'
      <3>1. Cardinality(Failed) <= faults BY DEF IInv, FailedBounded
      <3>2. Cardinality(Failed') <= faults' BY <2>1, <2>2, <3>1
      <3>3. QED BY <3>2 DEF FailedBounded
    <2>4. ASSUME NEW k \in Keys
          PROVE  Bounded(k)' /\ Spent(k)'
      <3>1. Bounded(k) /\ Spent(k) BY DEF IInv
      <3>2. Of(k)' = Of(k) /\ Admitted(k)' = Admitted(k) BY <2>2
      <3>3. QED BY <2>1, <3>1, <3>2 DEF Bounded, Spent, Window, Limit
    <2>5. QED BY <2>3, <2>4
  <1>4. CASE Tick BY <1>1, <1>4, TickKeeps
  <1>5. ASSUME NEW p \in Paths, NEW c \in Clients,
               Admit(p, c) \/ Deny(p, c) \/ Resend(p, c) \/ FailOpen(p, c)
        PROVE  <1>2!1
    <2>1. CASE Admit(p, c) BY <1>1, <2>1, AdmitKeeps
    <2>2. CASE Deny(p, c) BY <1>1, <2>2, DenyKeeps
    <2>3. CASE Resend(p, c) \/ FailOpen(p, c) BY <1>1, <2>3, FaultKeeps
    <2>4. QED BY <1>5, <2>1, <2>2, <2>3
  <1>6. QED BY <1>3, <1>4, <1>5 DEF Next
-----------------------------------------------------------------------------
(* What follows.                                                           *)

\* However requests, time and failed commands interleave, and whatever a rule's
\* window and limit, no more than twice the limit less one of the requests of a
\* session or an address have been let through during the last window of a path,
\* but for one for each failed attempt.
THEOREM AdmissionsLimited == Spec => []AdmissionsBounded
  <1>1. IInv => AdmissionsBounded
    <2> SUFFICES ASSUME IInv, NEW p \in Paths, NEW c \in Clients
                 PROVE  Cardinality(RecentOf(p, c)) <= 2 * RuleOf(p).limit - 1 + faults
      BY DEF AdmissionsBounded
    <2> DEFINE j == Key(p, c)
    <2>1. /\ Typed /\ TypeOK /\ FailedBounded /\ faults \in Nat
          /\ \A k \in Keys : Bounded(k)
      BY DEF IInv, Typed, TypeOK
    <2>2. j \in Keys /\ Limit(j) = RuleOf(p).limit /\ Limit(j) \in Nat \ {0}
      BY KeyOf, KeysOK DEF Limit
    <2>3. RecentOf(p, c) \in SUBSET Of(j) BY <2>1, SharedIs
    <2>4. CounterOK(counter[j], Window(j)) BY <2>1, <2>2, CountersOK
    <2>5. BoundedBy(counter[j], Admitted(j), Window(j), Limit(j))
      BY <2>1, <2>2 DEF Bounded
    <2>6. /\ IsFiniteSet(Of(j)) /\ Cardinality(Of(j)) \in Nat
          /\ IsFiniteSet(Admitted(j)) /\ Admitted(j) \in SUBSET Attempt
      BY <2>1, OfFinite
    <2>7. /\ IsFiniteSet(Failed) /\ Cardinality(Failed) \in Nat
          /\ Cardinality(Failed) <= faults
      <3>1. Failed \in SUBSET noted BY DEF Failed
      <3>2. QED BY <2>1, <3>1, CountType DEF FailedBounded
    <2>8. Of(j) \in SUBSET (Admitted(j) \cup Failed) BY DEF Of, Admitted, Failed
    <2> HIDE DEF j
    <2>9. Cardinality(Admitted(j)) \in Nat /\ Cardinality(Admitted(j)) <= 2 * Limit(j) - 1
      <3> DEFINE A == Admitted(j)
                 e == Window(j) - counter[j].ttl
      <3>1. Cardinality(A) \in Nat BY <2>6, FS_CardinalityType
      <3>2. counter[j].ttl \in {-1} \cup Nat /\ NoTTL = -1 BY <2>4 DEF CounterOK, NoTTL
      <3>3. CASE counter[j].ttl = NoTTL
        <4>1. A = {} BY <2>5, <3>3 DEF BoundedBy
        <4>2. Cardinality(A) = 0 BY <4>1, FS_EmptySet
        <4>3. QED BY <2>2, <4>2
      <3>4. CASE counter[j].ttl = 0
        <4>1. Cardinality(A) < Limit(j) BY <2>5, <3>2, <3>4 DEF BoundedBy
        <4>2. QED BY <2>2, <3>1, <4>1
      <3>5. CASE counter[j].ttl > 0
        <4>1. Cardinality(Upto(A, e)) <= Limit(j) /\ Cardinality(Beyond(A, e)) < Limit(j)
          BY <2>5, <3>2, <3>5 DEF BoundedBy
        <4>2. Upto(A, e) \in SUBSET A /\ Beyond(A, e) \in SUBSET A
          BY DEF Upto, Beyond
        <4>3. /\ IsFiniteSet(Upto(A, e)) /\ Cardinality(Upto(A, e)) \in Nat
              /\ IsFiniteSet(Beyond(A, e)) /\ Cardinality(Beyond(A, e)) \in Nat
          BY <2>6, <4>2, CountAtMost
        <4>4. A \in SUBSET (Upto(A, e) \cup Beyond(A, e))
          <5>1. \A s \in A : s.age \in Nat BY <2>6 DEF Attempt
          <5>2. e \in Int
            <6>1. j \in Keys /\ Window(j) \in Nat BY <2>2, KeysOK
            <6>2. QED BY <3>2, <6>1
          <5> HIDE DEF e
          <5>3. QED BY <5>1, <5>2 DEF Upto, Beyond
        <4> HIDE DEF e, A
        <4>5. Cardinality(A) <= Cardinality(Upto(A, e)) + Cardinality(Beyond(A, e))
          BY <4>3, <4>4, CountBoth
        <4>6. QED BY <2>2, <3>1, <4>1, <4>3, <4>5 DEF A
      <3>6. QED BY <3>2, <3>3, <3>4, <3>5
    <2>10. Cardinality(Of(j)) <= Cardinality(Admitted(j)) + Cardinality(Failed)
      BY <2>6, <2>7, <2>8, CountBoth
    <2>11. /\ Cardinality(RecentOf(p, c)) \in Nat
           /\ Cardinality(RecentOf(p, c)) <= Cardinality(Of(j))
      BY <2>3, <2>6, CountAtMost
    <2>12. QED BY <2>1, <2>2, <2>6, <2>7, <2>9, <2>10, <2>11
  <1>2. QED BY <1>1, IInvInit, IInvNext, PTL DEF Spec

\* A request is denied only for attempts of its own session or address on its
\* own path: as many as the limit, each of which has let a request through during
\* the last window or has counted there and was sent again, unless the counter
\* was there before the program started.
THEOREM DeniedForOwn == Spec => DeniedForOwnRequests
  <1> DEFINE Own == \A p \in Paths, c \in Clients :
                      Deny(p, c) => \/ Cardinality(AttemptsOf(p, c)) >= RuleOf(p).limit
                                    \/ Key(p, c) \in old
  <1>1. IInv /\ [Next]_vars => [Own]_vars
    <2> SUFFICES ASSUME IInv, NEW p \in Paths, NEW c \in Clients, Deny(p, c),
                        Key(p, c) \notin old
                 PROVE  Cardinality(AttemptsOf(p, c)) >= RuleOf(p).limit
      OBVIOUS
    <2> DEFINE j == Key(p, c)
    <2>1. Typed /\ j \in Keys /\ Limit(j) = RuleOf(p).limit /\ Limit(j) \in Nat
      BY KeyOf, KeysOK DEF IInv, Limit
    <2>2. AttemptsOf(p, c) = Of(j) BY <2>1, SharedIs
    <2>3. PICK X \in SUBSET Of(j) : Limit(j) <= Cardinality(X) BY DenyFindsSpent
    <2>4. IsFiniteSet(Of(j)) BY <2>1, OfFinite
    <2>5. /\ Cardinality(X) \in Nat /\ Cardinality(Of(j)) \in Nat
          /\ Cardinality(X) <= Cardinality(Of(j))
      BY <2>4, CountAtMost
    <2> HIDE DEF j
    <2>6. QED BY <2>1, <2>2, <2>3, <2>5
  <1>2. QED BY <1>1, IInvInit, IInvNext, PTL DEF Spec, DeniedForOwnRequests
-----------------------------------------------------------------------------
(* The windows of the counters.                                            *)

\* A counter that the script has counted on has an end.
AskedExpires == \A k \in asked : counter[k].ttl > 0

\* The script counts on: the counter that had an end keeps it, every other one
\* that it has run on gets one.
LEMMA CountKeepsWindows ==
  ASSUME TypeOK, AskedExpires, NEW p \in Paths, NEW c \in Clients, Count(p, c)
  PROVE  /\ AskedExpires'
         /\ \A k \in asked : counter'[k].ttl <= counter[k].ttl
  <1> DEFINE j == Key(p, c)
  <1>1. j \in Keys /\ asked' = asked \cup {j} /\ asked \subseteq Keys
    BY KeyOf DEF Count, TypeOK
  <1>2. /\ \A k \in Keys : k # j => counter'[k] = counter[k]
        /\ Ran(counter[j], counter'[j], Window(j))
    BY CountEffect
  <1> HIDE DEF j
  <1>3. /\ CounterOK(counter[j], Window(j)) /\ Window(j) \in Nat \ {0}
        /\ \A k \in Keys : CounterOK(counter[k], Window(k))
    BY <1>1, CountersOK, KeysOK
  <1>4. counter[j].ttl \in {-1} \cup Nat BY <1>3 DEF CounterOK, NoTTL
  <1>5. /\ counter'[j].ttl > 0
        /\ counter[j].ttl > 0 => counter'[j].ttl = counter[j].ttl
    BY <1>2, <1>3, <1>4 DEF Ran
  <1>6. ASSUME NEW k \in asked' PROVE counter'[k].ttl > 0
    BY <1>1, <1>2, <1>5, <1>6 DEF AskedExpires
  <1>7. ASSUME NEW k \in asked PROVE counter'[k].ttl <= counter[k].ttl
    <2>1. CASE k = j BY <1>4, <1>5, <1>7, <2>1 DEF AskedExpires
    <2>2. CASE k # j
      <3>1. counter'[k] = counter[k] /\ counter[k].ttl \in {-1} \cup Nat
        BY <1>1, <1>2, <1>3, <1>7, <2>2 DEF CounterOK, NoTTL
      <3>2. QED BY <3>1
    <2>3. QED BY <2>1, <2>2
  <1>8. QED BY <1>6, <1>7 DEF AskedExpires

LEMMA WindowsNext ==
  TypeOK /\ AskedExpires /\ [Next]_vars =>
    /\ AskedExpires'
    /\ \A k \in asked : counter[k].ttl > 0 /\ counter'[k].ttl <= counter[k].ttl
  <1> SUFFICES ASSUME TypeOK, AskedExpires, [Next]_vars
               PROVE  /\ AskedExpires'
                      /\ \A k \in asked : counter'[k].ttl <= counter[k].ttl
    BY DEF AskedExpires
  <1>1. asked \subseteq Keys /\ \A k \in Keys : counter[k].ttl \in {-1} \cup Nat
    BY CountersOK DEF TypeOK, CounterOK, NoTTL
  <1>2. CASE UNCHANGED <<counter, asked>>
    BY <1>1, <1>2 DEF AskedExpires
  <1>3. ASSUME NEW p \in Paths, NEW c \in Clients, Count(p, c)
        PROVE  /\ AskedExpires'
               /\ \A k \in asked : counter'[k].ttl <= counter[k].ttl
    BY <1>3, CountKeepsWindows
  <1>4. CASE Tick
    <2>1. /\ counter' = [k \in Keys |-> Aged(counter[k])]
          /\ asked' = {k \in asked : counter'[k] # NoKey}
      BY <1>4 DEF Tick
    <2>2. ASSUME NEW k \in asked
          PROVE  /\ counter'[k].ttl <= counter[k].ttl
                 /\ counter'[k] # NoKey => counter'[k].ttl > 0
      <3>1. counter[k].ttl \in Nat /\ counter[k].ttl > 0 /\ counter'[k] = Aged(counter[k])
        BY <1>1, <2>1, <2>2 DEF AskedExpires
      <3>2. CASE counter[k].ttl = 1
        <4>1. counter'[k] = NoKey BY <3>1, <3>2 DEF Aged
        <4>2. QED BY <3>2, <4>1 DEF NoKey
      <3>3. CASE counter[k].ttl # 1
        <4>1. counter[k] \in [count : 0..MaxCount, ttl : {NoTTL} \cup Nat]
          BY <1>1 DEF TypeOK
        <4>2. counter'[k].ttl = counter[k].ttl - 1
          BY <3>1, <3>3, <4>1 DEF Aged, Older
        <4>3. QED BY <3>1, <3>3, <4>2
      <3>4. QED BY <3>2, <3>3
    <2>3. QED BY <2>1, <2>2 DEF AskedExpires
  <1>5. QED BY <1>2, <1>3, <1>4 DEF Next, Admit, Deny, Resend, FailOpen, vars

\* No request puts off the end of the window in which it is denied.
THEOREM WindowsEnd == Spec => WindowsRunOut
  <1>1. Init => AskedExpires BY DEF Init, AskedExpires
  <1>2. Typed => TypeOK BY DEF Typed
  <1>3. QED
    BY <1>1, <1>2, TypedInit, TypedNext, WindowsNext, PTL DEF Spec, WindowsRunOut
=============================================================================

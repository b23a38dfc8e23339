---------------------- MODULE RegisterProtectionProofs ----------------------
(***************************************************************************)
(* Proofs about RegisterProtection: how many users an address registers     *)
(* before its block ends, for every number of concurrent requests and every *)
(* duration of the block.                                                  *)
(***************************************************************************)
EXTENDS RegisterProtection, FiniteSetTheorems, TLAPS

N == Cardinality(Workers)

\* A worker that serves a request has the request's address.
Typed == TypeOK /\ \A w \in Workers : pc[w] # "idle" => client[w] \in IPs

\* The requests of an address that have passed the check, and those that have
\* registered a user and are about to block the address.
At(label, ip) == {w \in Workers : pc[w] = label /\ client[w] = ip}
Past(ip) == At("handle", ip)
Setting(ip) == At("block", ip)

\* Without a block every registration belongs to a request that is about to
\* block the address; under a block only those past the check can still add one.
Counted(ip) ==
  /\ block[ip] = 0 => made[ip] <= Cardinality(Setting(ip)) + faults
  /\ block[ip] # 0 => made[ip] + Cardinality(Past(ip)) <= N + faults
RegistrationsCounted == \A ip \in IPs : Counted(ip)

IInv == Typed /\ RegistrationsCounted
-----------------------------------------------------------------------------
(* Types.                                                                  *)

LEMMA TypedInit == Init => Typed
  BY RegisterAssumption DEF Init, Typed, TypeOK, Labels

LEMMA TypedNext == Typed /\ [Next]_vars => Typed'
  <1> USE RegisterAssumption
  <1> SUFFICES ASSUME Typed, [Next]_vars PROVE Typed'
    OBVIOUS
  <1>1. CASE Tick BY <1>1 DEF Typed, TypeOK, Tick, Older
  <1>2. ASSUME NEW w \in Workers, Begin(w) PROVE Typed'
    BY <1>2 DEF Typed, TypeOK, Begin, Labels
  <1>3. ASSUME NEW w \in Workers, Check(w) PROVE Typed'
    BY <1>3 DEF Typed, TypeOK, Check, Goto, Answer, Fault, Labels
  <1>4. ASSUME NEW w \in Workers, Succeed(w) PROVE Typed'
    BY <1>4 DEF Typed, TypeOK, Succeed, Registers, Goto, Labels
  <1>5. ASSUME NEW w \in Workers, Fail(w) PROVE Typed'
    BY <1>5 DEF Typed, TypeOK, Fail, Registers, Answer, Fault, Labels
  <1>6. ASSUME NEW w \in Workers, SetBlock(w) PROVE Typed'
    BY <1>6 DEF Typed, TypeOK, SetBlock, Blocked, Answer, Fault, Labels
  <1>7. CASE UNCHANGED vars BY <1>7 DEF Typed, TypeOK, vars
  <1>8. QED BY <1>1, <1>2, <1>3, <1>4, <1>5, <1>6, <1>7 DEF Next

\* Every block has a time to live, every command finds the address it is for.
THEOREM TypeCorrect == Spec => []TypeOK
  <1>1. Typed => TypeOK BY DEF Typed
  <1>2. QED BY <1>1, TypedInit, TypedNext, PTL DEF Spec
-----------------------------------------------------------------------------
(* Counting requests.                                                      *)

LEMMA CountType ==
  ASSUME NEW S \in SUBSET Workers
  PROVE  /\ IsFiniteSet(S) /\ Cardinality(S) \in Nat
         /\ N \in Nat /\ Cardinality(S) <= N
  BY WorkersAssumption, FS_Subset, FS_CardinalityType DEF N

\* One request goes from one set to another, and no other comes or leaves.
LEMMA CountEnter ==
  ASSUME NEW S \in SUBSET Workers, NEW w \in Workers
  PROVE  Cardinality(S \cup {w}) = IF w \in S THEN Cardinality(S) ELSE Cardinality(S) + 1
  <1>1. IsFiniteSet(S) BY CountType
  <1>2. QED BY <1>1, FS_AddElement

LEMMA CountLeave ==
  ASSUME NEW S \in SUBSET Workers, NEW w \in Workers
  PROVE  Cardinality(S \ {w}) = IF w \in S THEN Cardinality(S) - 1 ELSE Cardinality(S)
  <1>1. IsFiniteSet(S) BY CountType
  <1>2. QED BY <1>1, FS_RemoveElement

LEMMA CountDisjoint ==
  ASSUME NEW S \in SUBSET Workers, NEW T \in SUBSET Workers, S \cap T = {}
  PROVE  Cardinality(S) + Cardinality(T) <= N
  <1>1. Cardinality(S \cup T) = Cardinality(S) + Cardinality(T)
    BY CountType, FS_Union, FS_EmptySet
  <1>2. S \cup T \in SUBSET Workers OBVIOUS
  <1>3. QED BY <1>1, <1>2, CountType

LEMMA CountTypes ==
  ASSUME Typed, NEW ip \in IPs
  PROVE  /\ block[ip] \in Nat /\ made[ip] \in Nat /\ faults \in Nat /\ N \in Nat
         /\ Past(ip) \in SUBSET Workers /\ Setting(ip) \in SUBSET Workers
         /\ Cardinality(Past(ip)) \in Nat /\ Cardinality(Setting(ip)) \in Nat
         /\ Cardinality(Past(ip)) + Cardinality(Setting(ip)) <= N
  <1>1. block[ip] \in Nat /\ made[ip] \in Nat /\ faults \in Nat
    BY RegisterAssumption DEF Typed, TypeOK
  <1>2. /\ Past(ip) \in SUBSET Workers /\ Setting(ip) \in SUBSET Workers
        /\ Past(ip) \cap Setting(ip) = {}
    BY DEF Past, Setting, At
  <1>3. QED BY <1>1, <1>2, CountType, CountDisjoint
-----------------------------------------------------------------------------
(* Registrations of an address.                                            *)

LEMMA CountedNext == Typed /\ RegistrationsCounted /\ [Next]_vars => RegistrationsCounted'
  <1> SUFFICES ASSUME Typed, RegistrationsCounted, [Next]_vars, NEW ip \in IPs
               PROVE  Counted(ip)'
    BY DEF RegistrationsCounted
  <1> DEFINE P == Past(ip)
             S == Setting(ip)
  <1>0. Typed' /\ Counted(ip) BY TypedNext DEF RegistrationsCounted
  <1>1. CASE Tick
    <2>1. P' = P /\ S' = S /\ faults' = faults
      BY <1>1 DEF Tick, Past, Setting, At
    <2>2. /\ block'[ip] = IF block[ip] = 0 THEN 0 ELSE block[ip] - 1
          /\ made'[ip] = IF block[ip] = 1 THEN 0 ELSE made[ip]
      BY <1>1, CountTypes DEF Tick, Older
    <2>3. QED BY <1>0, <2>1, <2>2, CountTypes DEF Counted
  <1>2. ASSUME NEW w \in Workers, Begin(w) \/ Fail(w) PROVE Counted(ip)'
    <2>1. S' = S /\ P' \in SUBSET P /\ UNCHANGED block
      BY <1>2 DEF Begin, Fail, Answer, Past, Setting, At, Typed, TypeOK
    <2>2. Cardinality(P') \in Nat /\ Cardinality(P') <= Cardinality(P)
      BY <2>1, CountTypes, CountType, FS_Subset
    \* A registration that is not answered takes up a fault.
    <2>3. \/ made' = made /\ faults' = faults
          \/ made'[ip] \in {made[ip], made[ip] + 1} /\ faults' = faults + 1
      BY <1>2 DEF Begin, Fail, Registers, Fault, Typed, TypeOK
    <2>4. QED BY <1>0, <2>1, <2>2, <2>3, CountTypes DEF Counted
  <1>3. ASSUME NEW w \in Workers, Check(w) PROVE Counted(ip)'
    <2>1. S' = S /\ UNCHANGED <<block, made>>
      BY <1>3 DEF Check, Goto, Answer, Setting, At, Typed, TypeOK
    <2>2. P' = P \/ P' = P \cup {w}
      BY <1>3 DEF Check, Goto, Answer, Past, At, Typed, TypeOK
    <2>3. faults' = faults + 1 \/ (faults' = faults /\ (P' = P \/ block[ip] = 0))
      BY <1>3 DEF Check, Goto, Answer, Fault, Past, At, Typed, TypeOK
    <2>4. /\ Cardinality(P') \in Nat /\ Cardinality(P') <= Cardinality(P) + 1
      BY <2>2, CountTypes, CountEnter
    <2>5. QED BY <1>0, <2>1, <2>2, <2>3, <2>4, CountTypes DEF Counted
  <1>4. ASSUME NEW w \in Workers, Succeed(w) PROVE Counted(ip)'
    <2>1. UNCHANGED <<block, faults>> BY <1>4 DEF Succeed
    <2>2. CASE client[w] # ip
      <3>1. P' = P /\ S' = S /\ made'[ip] = made[ip]
        BY <1>4, <2>2 DEF Succeed, Registers, Goto, Past, Setting, At, Typed, TypeOK
      <3>2. QED BY <1>0, <2>1, <3>1 DEF Counted
    <2>3. CASE client[w] = ip
      <3>1. w \in P /\ P' = P \ {w} /\ w \notin S /\ S' = S \cup {w}
        BY <1>4, <2>3 DEF Succeed, Goto, Past, Setting, At, Typed, TypeOK
      <3>2. /\ Cardinality(P') = Cardinality(P) - 1
            /\ Cardinality(S') = Cardinality(S) + 1
        BY <3>1, CountTypes, CountEnter, CountLeave
      <3>3. made'[ip] \in {made[ip], made[ip] + 1}
        BY <1>4, <2>3 DEF Succeed, Registers, Typed, TypeOK
      <3>4. QED BY <1>0, <2>1, <3>2, <3>3, CountTypes DEF Counted
    <2>4. QED BY <2>2, <2>3
  <1>5. ASSUME NEW w \in Workers, SetBlock(w) PROVE Counted(ip)'
    <2>1. P' = P /\ UNCHANGED made /\ faults' \in {faults, faults + 1}
      BY <1>5 DEF SetBlock, Answer, Fault, Past, At, Typed, TypeOK
    <2>2. CASE client[w] # ip
      <3>1. S' = S /\ block'[ip] = block[ip]
        BY <1>5, <2>2 DEF SetBlock, Blocked, Answer, Setting, At, Typed, TypeOK
      <3>2. QED BY <1>0, <2>1, <3>1, CountTypes DEF Counted
    <2>3. CASE client[w] = ip
      <3>1. w \in S /\ S' = S \ {w}
        BY <1>5, <2>3 DEF SetBlock, Answer, Setting, At, Typed, TypeOK
      <3>2. Cardinality(S') = Cardinality(S) - 1
        BY <3>1, CountTypes, CountLeave
      <3>3. \/ block'[ip] = BlockTime /\ faults' = faults
            \/ block'[ip] = block[ip] /\ faults' = faults + 1
        BY <1>5, <2>3 DEF SetBlock, Blocked, Fault, Typed, TypeOK
      <3>4. QED BY <1>0, <2>1, <3>2, <3>3, CountTypes, RegisterAssumption DEF Counted
    <2>4. QED BY <2>2, <2>3
  <1>6. CASE UNCHANGED vars
    BY <1>0, <1>6 DEF vars, Counted, Past, Setting, At
  <1>7. QED BY <1>1, <1>2, <1>3, <1>4, <1>5, <1>6 DEF Next

\* Until its block ends an address registers one user with every request that
\* was under way together and one for every command or commit that failed.
THEOREM RegistrationsLimited == Spec => []RegistrationsBounded
  <1>1. Init => RegistrationsCounted
    <2> SUFFICES ASSUME Init, NEW ip \in IPs PROVE Counted(ip)
      BY DEF RegistrationsCounted
    <2>1. block[ip] = 0 /\ made[ip] = 0 /\ faults = 0 BY DEF Init
    <2>2. Cardinality(Setting(ip)) \in Nat BY TypedInit, CountTypes
    <2>3. QED BY <2>1, <2>2 DEF Counted
  <1>2. Typed /\ RegistrationsCounted => RegistrationsBounded
    <2> SUFFICES ASSUME Typed, RegistrationsCounted, NEW ip \in IPs
                 PROVE  made[ip] <= N + faults
      BY DEF RegistrationsBounded, N
    <2>1. Counted(ip) BY DEF RegistrationsCounted
    <2>2. QED BY <2>1, CountTypes DEF Counted
  <1>3. QED BY <1>1, <1>2, TypedInit, TypedNext, CountedNext, PTL DEF Spec
=============================================================================

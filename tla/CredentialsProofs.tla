------------------------- MODULE CredentialsProofs -------------------------
(***************************************************************************)
(* Theorems about the second factor and the reset code, for every number   *)
(* of workers, PINs, tries, challenges and codes.                          *)
(*                                                                         *)
(* The inductive invariant, IInv, has one part per question: which numbers *)
(* a request has with it (Typed), which codes and challenges are new       *)
(* (CodesOK, ChallengesOK), how many requests are past the check of the    *)
(* counter or of the budget (LockOK, BudgetOK), which request for a code   *)
(* runs alone (CleanOK, MailedOK), and that no reset runs beside a         *)
(* deletion (LeftOK).                                                      *)
(***************************************************************************)
EXTENDS Credentials, FiniteSetTheorems, TLAPS

-----------------------------------------------------------------------------
(* Types.  TypeOK needs to know which number a request has with it.        *)

Good(q) == q \in ReqType /\ q.op \in kinds \cup {"none"} /\ Fits(q)

Reads(q, m, n) ==
  /\ q.pc \in {"store", "consume"} => q.read \in 1..m
  /\ q.op = "refresh" => q.sig \in 1..m
  /\ q.pc \in {"cool", "code", "budget", "redeem", "password"} => q.read \in 1..n

Numbers ==
  /\ row.challenge \in 0..challenges /\ used \subseteq 1..challenges
  /\ code \in 0..codes /\ redeemed \subseteq 1..codes

RowOK ==
  row \in [here : BOOLEAN, fp : BOOLEAN, pinOn : BOOLEAN, pin : Pins \cup {None},
           pkey : BOOLEAN, challenge : 0..MaxChallenges, counter : Nat]

Others ==
  /\ code \in 0..MaxCodes /\ attempts \in -1..(MaxCodeAttempts + 1) /\ cooldown \in BOOLEAN
  /\ ttl \in {"code", "older", "none"}
  /\ challenges \in 0..MaxChallenges /\ codes \in 0..MaxCodes /\ guesses \in Nat
  /\ used \subseteq 1..MaxChallenges /\ redeemed \subseteq 1..MaxCodes
  /\ mailed \in 0..MaxCodes /\ stray \in BOOLEAN

Typed == TypeOK /\ Numbers /\ \A r \in Workers : Reads(w[r], challenges, codes)

\* The other requests keep all they have, but that they were alone.
Kept(s) == w'[s] = w[s] \/ w'[s] = [w[s] EXCEPT !.clean = FALSE]
Apart(r) == \A s \in Workers : s # r => Kept(s)

\* The request at r goes on as q.
Turned(r, q) ==
  /\ w'[r] = q /\ Apart(r) /\ w' \in [Workers -> ReqType] /\ kinds' = kinds
  /\ \A s \in Workers : Good(w'[s]) /\ Reads(w'[s], challenges', codes')

Growing == kinds' = kinds /\ challenges' \in Nat /\ challenges' >= challenges
           /\ codes' \in Nat /\ codes' >= codes

LEMMA Counted ==
  Typed => challenges \in Nat /\ codes \in Nat /\ None = 0 /\ None \in Nat
           /\ MaxChallenges \in Nat /\ MaxCodes \in Nat /\ MaxCodeAttempts \in Nat
           /\ challenges <= MaxChallenges /\ codes <= MaxCodes
           /\ row.challenge \in Nat /\ row.counter \in Nat /\ code \in Nat
           /\ used \subseteq Nat /\ redeemed \subseteq Nat
BY CredentialsAssumption DEF Typed, TypeOK, None

LEMMA IdleFits ==
  Good(Idle) /\ Idle.pc = "idle" /\ Idle.op = "none" /\ \A m, n : Reads(Idle, m, n)
<1>1. Idle \in ReqType BY CredentialsAssumption DEF ReqType, Idle, None, AllKinds
<1>2. Fits(Idle) BY DEF Idle, Fits
<1> QED BY <1>1, <1>2 DEF Good, Reads, Idle

LEMMA WorkerOf ==
  ASSUME Typed, NEW r \in Workers
  PROVE  Good(w[r]) /\ Reads(w[r], challenges, codes) /\ w[r] \in ReqType
BY DEF Typed, TypeOK, Good

\* What a request that keeps all it has still fits.
LEMMA KeptFits ==
  ASSUME Typed, NEW s \in Workers, Growing, Kept(s)
  PROVE  Good(w'[s]) /\ Reads(w'[s], challenges', codes') /\ w'[s] \in ReqType
         /\ w'[s].pc = w[s].pc /\ w'[s].op = w[s].op /\ w'[s].read = w[s].read
         /\ w'[s].sig = w[s].sig /\ w'[s].born = w[s].born
<1>1. Good(w[s]) /\ Reads(w[s], challenges, codes) /\ w[s] \in ReqType BY WorkerOf
<1>2. /\ w'[s].pc = w[s].pc /\ w'[s].op = w[s].op /\ w'[s].read = w[s].read
      /\ w'[s].sig = w[s].sig /\ w'[s].born = w[s].born /\ w'[s] \in ReqType
  BY <1>1 DEF Kept, ReqType
<1>3. Reads(w'[s], challenges', codes') BY <1>1, <1>2, Counted DEF Reads, Growing
<1>4. Good(w'[s]) BY <1>1, <1>2 DEF Good, Fits
<1> QED BY <1>2, <1>3, <1>4

LEMMA Replaced ==
  ASSUME Typed, NEW r \in Workers, NEW q, Growing, w' = [w EXCEPT ![r] = q],
         Good(q), Reads(q, challenges', codes')
  PROVE  Turned(r, q)
<1>1. w \in [Workers -> ReqType] BY DEF Typed, TypeOK
<1>2. w'[r] = q /\ \A s \in Workers : s # r => w'[s] = w[s] BY <1>1
<1>3. w' \in [Workers -> ReqType] BY <1>1 DEF Good
<1>4. Apart(r) BY <1>2 DEF Apart, Kept
<1>5. \A s \in Workers : Good(w'[s]) /\ Reads(w'[s], challenges', codes')
  BY <1>2, <1>4, KeptFits DEF Apart
<1> QED BY <1>2, <1>3, <1>4, <1>5 DEF Turned, Growing

LEMMA Ended == ASSUME Typed, NEW r \in Workers, Growing, End(r) PROVE Turned(r, Idle)
BY IdleFits, Replaced DEF End

LEMMA Started ==
  ASSUME Typed, NEW r \in Workers, NEW q, Growing, Start(r, q),
         Good(q), Reads(q, challenges', codes')
  PROVE  Turned(r, q)
<1>1. w \in [Workers -> ReqType] BY DEF Typed, TypeOK
<1>2. w'[r] = q /\ Apart(r) BY DEF Start, Apart, Kept
<1>3. \A s \in Workers : Good(w'[s]) /\ Reads(w'[s], challenges', codes')
  BY <1>2, KeptFits DEF Apart
<1>4. w' \in [Workers -> ReqType] BY <1>3 DEF Start, Good
<1> QED BY <1>2, <1>3, <1>4 DEF Turned, Growing

LEMMA LoginTypes ==
  ASSUME Typed, NEW r \in Workers, Login(r)
  PROVE  Typed' /\ Turned(r, [Idle EXCEPT !.op = "login", !.pc = "zero"])
<1> DEFINE q == [Idle EXCEPT !.op = "login", !.pc = "zero"]
<1>1. Growing BY Counted DEF Login, Growing, Typed, redisKeys, notes
<1>2. Good(w[r]) /\ Reads(w[r], challenges, codes) /\ w[r] \in ReqType BY WorkerOf
<1>3. q \in ReqType BY IdleFits DEF Good, ReqType, AllKinds
<1>4. Good(q) BY <1>3 DEF Login, Good, Idle, Fits, Start
<1>5. Reads(q, challenges', codes') BY <1>1, Counted DEF Login, Reads, Idle, Growing
<1>6. Turned(r, q) BY <1>1, <1>4, <1>5, Started DEF Login
<1>7. Numbers'
  BY <1>2, Counted DEF Login, Numbers, Reads, Good, Fits, Typed, TypeOK, redisKeys, notes
<1>8. RowOK' BY <1>2, Counted DEF Login, RowOK, Reads, Fits, Good, Typed, TypeOK
<1>9. Others'
  BY <1>2, <1>7, Counted DEF Login, Others, Numbers, Reads, Fits, Good, Typed, TypeOK,
      redisKeys, notes
<1>10. TypeOK' BY <1>6, <1>8, <1>9 DEF Turned, Good, RowOK, Others, Typed, TypeOK
<1> QED BY <1>6, <1>7, <1>10 DEF Turned, Typed

LEMMA ResetPinCounterTypes ==
  ASSUME Typed, NEW r \in Workers, ResetPinCounter(r)
  PROVE  Typed' /\ Turned(r, Idle)
<1> DEFINE q == Idle
<1>1. Growing BY Counted DEF ResetPinCounter, Growing, Typed, redisKeys
<1>2. Good(w[r]) /\ Reads(w[r], challenges, codes) /\ w[r] \in ReqType BY WorkerOf
<1>3. Turned(r, q) BY <1>1, Ended DEF ResetPinCounter
<1>4. Numbers'
  BY <1>2, Counted DEF ResetPinCounter, Numbers, Reads, Good, Fits, Typed, TypeOK, redisKeys,
      notes
<1>5. RowOK' BY <1>2, Counted DEF ResetPinCounter, RowOK, Reads, Fits, Good, Typed, TypeOK
<1>6. Others'
  BY <1>2, <1>4, Counted DEF ResetPinCounter, Others, Numbers, Reads, Fits, Good, Typed, TypeOK,
      redisKeys, notes
<1>7. TypeOK' BY <1>3, <1>5, <1>6 DEF Turned, Good, RowOK, Others, Typed, TypeOK
<1> QED BY <1>3, <1>4, <1>7 DEF Turned, Typed

LEMMA RefreshTypes ==
  ASSUME Typed, NEW r \in Workers, NEW pin \in Pins \cup {None}, NEW sig \in 1..challenges,
  Refresh(r, pin, sig)
  PROVE  Typed' /\ Turned(r, [Idle EXCEPT !.op = "refresh", !.pc = "key", !.pin = pin,
  !.sig = sig])
<1> DEFINE q == [Idle EXCEPT !.op = "refresh", !.pc = "key", !.pin = pin, !.sig = sig]
<1>1. Growing BY Counted DEF Refresh, Growing, Typed, redisKeys, notes
<1>2. Good(w[r]) /\ Reads(w[r], challenges, codes) /\ w[r] \in ReqType BY WorkerOf
<1>3. sig \in 0..MaxChallenges /\ used \in SUBSET Nat BY Counted
<1>4. q \in ReqType BY <1>3, IdleFits DEF Good, ReqType, AllKinds
<1>5. Good(q) BY <1>4 DEF Refresh, Good, Idle, Fits, Start
<1>6. Reads(q, challenges', codes') BY <1>1, Counted DEF Refresh, Reads, Idle, Growing
<1>7. Turned(r, q) BY <1>1, <1>5, <1>6, Started DEF Refresh
<1>8. Numbers'
  BY <1>2, Counted DEF Refresh, Numbers, Reads, Good, Fits, Typed, TypeOK, redisKeys, notes
<1>9. RowOK' BY <1>2, Counted DEF Refresh, RowOK, Reads, Fits, Good, Typed, TypeOK
<1>10. Others'
  BY <1>2, <1>8, Counted DEF Refresh, Others, Numbers, Reads, Fits, Good, Typed, TypeOK,
      redisKeys, notes
<1>11. TypeOK' BY <1>7, <1>9, <1>10 DEF Turned, Good, RowOK, Others, Typed, TypeOK
<1> QED BY <1>7, <1>8, <1>11 DEF Turned, Typed

LEMMA ReadChallengeTypes ==
  ASSUME Typed, NEW r \in Workers, ReadChallenge(r)
  PROVE  Typed' /\ Turned(r, IF row.here /\ row.pkey /\ row.challenge # None
              THEN [w[r] EXCEPT !.pc = "consume", !.read = row.challenge, !.born = used] ELSE Idle)
<1> DEFINE q == IF row.here /\ row.pkey /\ row.challenge # None
              THEN [w[r] EXCEPT !.pc = "consume", !.read = row.challenge, !.born = used] ELSE Idle
<1>1. Growing BY Counted DEF ReadChallenge, Growing, Typed, redisKeys
<1>2. Good(w[r]) /\ Reads(w[r], challenges, codes) /\ w[r] \in ReqType BY WorkerOf
<1>3. q \in ReqType BY <1>2, IdleFits, Counted DEF Good, ReqType
<1>4. Good(q) BY <1>2, <1>3, IdleFits DEF ReadChallenge, Good, ReqType, Fits
<1>5. Reads(q, challenges', codes')
  BY <1>1, <1>2, IdleFits, Counted DEF ReadChallenge, Good, ReqType, Reads, Fits, Growing,
      Typed, TypeOK, Numbers
<1>6. w' = [w EXCEPT ![r] = q] BY DEF ReadChallenge, End, Typed, TypeOK
<1>7. Turned(r, q) BY <1>1, <1>4, <1>5, <1>6, Replaced
<1>8. Numbers'
  BY <1>2, Counted DEF ReadChallenge, Numbers, Reads, Good, Fits, Typed, TypeOK, redisKeys,
      notes
<1>9. RowOK' BY <1>2, Counted DEF ReadChallenge, RowOK, Reads, Fits, Good, Typed, TypeOK
<1>10. Others'
  BY <1>2, <1>8, Counted DEF ReadChallenge, Others, Numbers, Reads, Fits, Good, Typed, TypeOK,
      redisKeys, notes
<1>11. TypeOK' BY <1>7, <1>9, <1>10 DEF Turned, Good, RowOK, Others, Typed, TypeOK
<1> QED BY <1>7, <1>8, <1>11 DEF Turned, Typed

LEMMA ConsumeChallengeTypes ==
  ASSUME Typed, NEW r \in Workers, ConsumeChallenge(r)
  PROVE  Typed' /\ Turned(r, IF w[r].sig = w[r].read
              THEN [w[r] EXCEPT !.pc = IF w[r].pin = None THEN "rotate" ELSE "pin"] ELSE Idle)
<1> DEFINE q == IF w[r].sig = w[r].read
              THEN [w[r] EXCEPT !.pc = IF w[r].pin = None THEN "rotate" ELSE "pin"] ELSE Idle
<1>1. Growing BY Counted DEF ConsumeChallenge, Growing, Typed, redisKeys
<1>2. Good(w[r]) /\ Reads(w[r], challenges, codes) /\ w[r] \in ReqType BY WorkerOf
<1>3. q \in ReqType BY <1>2, IdleFits, Counted DEF Good, ReqType
<1>4. Good(q) BY <1>2, <1>3, IdleFits DEF ConsumeChallenge, Good, ReqType, Fits
<1>5. Reads(q, challenges', codes')
  BY <1>1, <1>2, IdleFits, Counted DEF ConsumeChallenge, Good, ReqType, Reads, Fits, Growing,
      Typed, TypeOK, Numbers
<1>6. w' = [w EXCEPT ![r] = q] BY DEF ConsumeChallenge, Goto, End, Typed, TypeOK
<1>7. Turned(r, q) BY <1>1, <1>4, <1>5, <1>6, Replaced
<1>8. Numbers'
  BY <1>2, Counted DEF ConsumeChallenge, Numbers, Reads, Good, Fits, Typed, TypeOK, redisKeys,
      resetNotes
<1>9. RowOK' BY <1>2, Counted DEF ConsumeChallenge, RowOK, Reads, Fits, Good, Typed, TypeOK
<1>10. Others'
  BY <1>2, <1>8, Counted DEF ConsumeChallenge, Others, Numbers, Reads, Fits, Good, Typed,
      TypeOK, redisKeys, resetNotes
<1>11. TypeOK' BY <1>7, <1>9, <1>10 DEF Turned, Good, RowOK, Others, Typed, TypeOK
<1> QED BY <1>7, <1>8, <1>11 DEF Turned, Typed

LEMMA CheckPinTypes ==
  ASSUME Typed, NEW r \in Workers, CheckPin(r)
  PROVE  Typed' /\ Turned(r,
  IF ~row.here \/ row.counter >= MaxPinTries \/ row.pin = None THEN Idle
              ELSE [w[r] EXCEPT !.pc = IF row.pin # w[r].pin THEN "bump" ELSE "clear"])
<1> DEFINE q == IF ~row.here \/ row.counter >= MaxPinTries \/ row.pin = None THEN Idle
              ELSE [w[r] EXCEPT !.pc = IF row.pin # w[r].pin THEN "bump" ELSE "clear"]
<1>1. Growing BY Counted DEF CheckPin, Growing, Typed, redisKeys
<1>2. Good(w[r]) /\ Reads(w[r], challenges, codes) /\ w[r] \in ReqType BY WorkerOf
<1>3. q \in ReqType BY <1>2, IdleFits, Counted DEF Good, ReqType
<1>4. Good(q) BY <1>2, <1>3, IdleFits DEF CheckPin, Good, ReqType, Fits
<1>5. Reads(q, challenges', codes')
  BY <1>1, <1>2, IdleFits, Counted DEF CheckPin, Good, ReqType, Reads, Fits, Growing, Typed,
      TypeOK, Numbers
<1>6. w' = [w EXCEPT ![r] = q] BY DEF CheckPin, Goto, End, Typed, TypeOK
<1>7. Turned(r, q) BY <1>1, <1>4, <1>5, <1>6, Replaced
<1>8. w[r].sig \in 1..challenges BY <1>2 DEF Reads, Fits, Good, CheckPin
<1>9. Numbers' BY <1>8 DEF CheckPin, Numbers, Typed, notes, redisKeys
<1>10. RowOK' BY <1>2, Counted DEF CheckPin, RowOK, Reads, Fits, Good, Typed, TypeOK
<1>11. Others'
  BY <1>2, <1>9, Counted DEF CheckPin, Others, Numbers, Reads, Fits, Good, Typed, TypeOK,
      redisKeys, notes
<1>12. TypeOK' BY <1>7, <1>10, <1>11 DEF Turned, Good, RowOK, Others, Typed, TypeOK
<1> QED BY <1>7, <1>9, <1>12 DEF Turned, Typed

LEMMA CountWrongPinTypes ==
  ASSUME Typed, NEW r \in Workers, CountWrongPin(r)
  PROVE  Typed' /\ Turned(r, Idle)
<1> DEFINE q == Idle
<1>1. Growing BY Counted DEF CountWrongPin, Growing, Typed, redisKeys
<1>2. Good(w[r]) /\ Reads(w[r], challenges, codes) /\ w[r] \in ReqType BY WorkerOf
<1>3. Turned(r, q) BY <1>1, Ended DEF CountWrongPin
<1>4. w[r].sig \in 1..challenges BY <1>2 DEF Reads, Fits, Good, CountWrongPin
<1>5. Numbers' BY <1>4 DEF CountWrongPin, Numbers, Typed, notes, redisKeys
<1>6. RowOK' BY <1>2, Counted DEF CountWrongPin, RowOK, Reads, Fits, Good, Typed, TypeOK
<1>7. Others'
  BY <1>2, <1>5, Counted DEF CountWrongPin, Others, Numbers, Reads, Fits, Good, Typed, TypeOK,
      redisKeys, notes
<1>8. TypeOK' BY <1>3, <1>6, <1>7 DEF Turned, Good, RowOK, Others, Typed, TypeOK
<1> QED BY <1>3, <1>5, <1>8 DEF Turned, Typed

LEMMA ClearPinCounterTypes ==
  ASSUME Typed, NEW r \in Workers, ClearPinCounter(r)
  PROVE  Typed' /\ Turned(r, [w[r] EXCEPT !.pc = "rotate"])
<1> DEFINE q == [w[r] EXCEPT !.pc = "rotate"]
<1>1. Growing BY Counted DEF ClearPinCounter, Growing, Typed, redisKeys
<1>2. Good(w[r]) /\ Reads(w[r], challenges, codes) /\ w[r] \in ReqType BY WorkerOf
<1>3. q \in ReqType BY <1>2, IdleFits, Counted DEF Good, ReqType
<1>4. Good(q) BY <1>2, <1>3, IdleFits DEF ClearPinCounter, Good, ReqType, Fits
<1>5. Reads(q, challenges', codes')
  BY <1>1, <1>2, IdleFits, Counted DEF ClearPinCounter, Good, ReqType, Reads, Fits, Growing,
      Typed, TypeOK, Numbers
<1>6. w' = [w EXCEPT ![r] = q] BY DEF ClearPinCounter, Goto, Typed, TypeOK
<1>7. Turned(r, q) BY <1>1, <1>4, <1>5, <1>6, Replaced
<1>8. Numbers'
  BY <1>2, Counted DEF ClearPinCounter, Numbers, Reads, Good, Fits, Typed, TypeOK, redisKeys,
      notes
<1>9. RowOK' BY <1>2, Counted DEF ClearPinCounter, RowOK, Reads, Fits, Good, Typed, TypeOK
<1>10. Others'
  BY <1>2, <1>8, Counted DEF ClearPinCounter, Others, Numbers, Reads, Fits, Good, Typed, TypeOK,
      redisKeys, notes
<1>11. TypeOK' BY <1>7, <1>9, <1>10 DEF Turned, Good, RowOK, Others, Typed, TypeOK
<1> QED BY <1>7, <1>8, <1>11 DEF Turned, Typed

LEMMA AcceptTypes ==
  ASSUME Typed, NEW r \in Workers, Accept(r)
  PROVE  Typed' /\ Turned(r, Idle)
<1> DEFINE q == Idle
<1>1. Growing BY Counted DEF Accept, Growing, Typed, redisKeys
<1>2. Good(w[r]) /\ Reads(w[r], challenges, codes) /\ w[r] \in ReqType BY WorkerOf
<1>3. Turned(r, q) BY <1>1, Ended DEF Accept
<1>4. w[r].sig \in 1..challenges BY <1>2 DEF Reads, Fits, Good, Accept
<1>5. Numbers' BY <1>4 DEF Accept, Numbers, Typed, notes, redisKeys
<1>6. RowOK' BY <1>2, Counted DEF Accept, RowOK, Reads, Fits, Good, Typed, TypeOK
<1>7. Others'
  BY <1>2, <1>5, Counted DEF Accept, Others, Numbers, Reads, Fits, Good, Typed, TypeOK,
      redisKeys, notes
<1>8. TypeOK' BY <1>3, <1>6, <1>7 DEF Turned, Good, RowOK, Others, Typed, TypeOK
<1> QED BY <1>3, <1>5, <1>8 DEF Turned, Typed

LEMMA ChallengeTypes ==
  ASSUME Typed, NEW r \in Workers, Challenge(r)
  PROVE  Typed' /\ Turned(r, [Idle EXCEPT !.op = "challenge", !.pc = "store",
  !.read = challenges + 1])
<1> DEFINE q == [Idle EXCEPT !.op = "challenge", !.pc = "store", !.read = challenges + 1]
<1>1. Growing BY Counted DEF Challenge, Growing, Typed, redisKeys, notes
<1>2. Good(w[r]) /\ Reads(w[r], challenges, codes) /\ w[r] \in ReqType BY WorkerOf
<1>3. challenges + 1 \in Nat BY Counted
<1>4. q \in ReqType BY <1>3, IdleFits DEF Good, ReqType, AllKinds
<1>5. Good(q) BY <1>4 DEF Challenge, Good, Idle, Fits, Start
<1>6. Reads(q, challenges', codes') BY <1>1, Counted DEF Challenge, Reads, Idle, Growing
<1>7. Turned(r, q) BY <1>1, <1>5, <1>6, Started DEF Challenge
<1>8. Numbers'
  BY <1>2, Counted DEF Challenge, Numbers, Reads, Good, Fits, Typed, TypeOK, redisKeys, notes
<1>9. RowOK' BY <1>2, Counted DEF Challenge, RowOK, Reads, Fits, Good, Typed, TypeOK
<1>10. Others'
  BY <1>2, <1>8, Counted DEF Challenge, Others, Numbers, Reads, Fits, Good, Typed, TypeOK,
      redisKeys, notes
<1>11. TypeOK' BY <1>7, <1>9, <1>10 DEF Turned, Good, RowOK, Others, Typed, TypeOK
<1> QED BY <1>7, <1>8, <1>11 DEF Turned, Typed

LEMMA StoreChallengeTypes ==
  ASSUME Typed, NEW r \in Workers, StoreChallenge(r)
  PROVE  Typed' /\ Turned(r, Idle)
<1> DEFINE q == Idle
<1>1. Growing BY Counted DEF StoreChallenge, Growing, Typed, redisKeys, notes
<1>2. Good(w[r]) /\ Reads(w[r], challenges, codes) /\ w[r] \in ReqType BY WorkerOf
<1>3. Turned(r, q) BY <1>1, Ended DEF StoreChallenge
<1>4. Numbers'
  BY <1>2, Counted DEF StoreChallenge, Numbers, Reads, Good, Fits, Typed, TypeOK, redisKeys, notes
<1>5. RowOK' BY <1>2, Counted DEF StoreChallenge, RowOK, Reads, Fits, Good, Typed, TypeOK
<1>6. Others'
  BY <1>2, <1>4, Counted DEF StoreChallenge, Others, Numbers, Reads, Fits, Good, Typed, TypeOK,
      redisKeys, notes
<1>7. TypeOK' BY <1>3, <1>5, <1>6 DEF Turned, Good, RowOK, Others, Typed, TypeOK
<1> QED BY <1>3, <1>4, <1>7 DEF Turned, Typed

LEMMA ResetPasswordTypes ==
  ASSUME Typed, NEW r \in Workers, ResetPassword(r)
  PROVE  Typed' /\ Turned(r, [Idle EXCEPT !.op = "reset", !.pc = "cool", !.read = codes + 1])
<1> DEFINE q == [Idle EXCEPT !.op = "reset", !.pc = "cool", !.read = codes + 1]
<1>1. Growing BY Counted DEF ResetPassword, Growing, Typed, redisKeys
<1>2. Good(w[r]) /\ Reads(w[r], challenges, codes) /\ w[r] \in ReqType BY WorkerOf
<1>3. codes + 1 \in Nat BY Counted
<1>4. q \in ReqType BY <1>3, IdleFits DEF Good, ReqType, AllKinds
<1>5. Good(q) BY <1>4 DEF ResetPassword, Good, Idle, Fits, Start
<1>6. Reads(q, challenges', codes') BY <1>1, Counted DEF ResetPassword, Reads, Idle, Growing
<1>7. Turned(r, q) BY <1>1, <1>5, <1>6, Started DEF ResetPassword
<1>8. Numbers'
  BY <1>2, Counted DEF ResetPassword, Numbers, Reads, Good, Fits, Typed, TypeOK, redisKeys
<1>9. RowOK' BY <1>2, Counted DEF ResetPassword, RowOK, Reads, Fits, Good, Typed, TypeOK
<1>10. Others'
  BY <1>2, <1>8, Counted DEF ResetPassword, Others, Numbers, Reads, Fits, Good, Typed, TypeOK,
      redisKeys
<1>11. TypeOK' BY <1>7, <1>9, <1>10 DEF Turned, Good, RowOK, Others, Typed, TypeOK
<1> QED BY <1>7, <1>8, <1>11 DEF Turned, Typed

LEMMA TakeCooldownTypes ==
  ASSUME Typed, NEW r \in Workers, TakeCooldown(r)
  PROVE  Typed' /\ Turned(r, IF cooldown THEN Idle ELSE [w[r] EXCEPT !.pc = "code"])
<1> DEFINE q == IF cooldown THEN Idle ELSE [w[r] EXCEPT !.pc = "code"]
<1>1. Growing BY Counted DEF TakeCooldown, Growing, Typed, notes
<1>2. Good(w[r]) /\ Reads(w[r], challenges, codes) /\ w[r] \in ReqType BY WorkerOf
<1>3. q \in ReqType BY <1>2, IdleFits, Counted DEF Good, ReqType
<1>4. Good(q) BY <1>2, <1>3, IdleFits DEF TakeCooldown, Good, ReqType, Fits
<1>5. Reads(q, challenges', codes')
  BY <1>1, <1>2, IdleFits, Counted DEF TakeCooldown, Good, ReqType, Reads, Fits, Growing, Typed,
      TypeOK, Numbers
<1>6. w' = [w EXCEPT ![r] = q] BY DEF TakeCooldown, Goto, End, Typed, TypeOK
<1>7. Turned(r, q) BY <1>1, <1>4, <1>5, <1>6, Replaced
<1>8. Numbers' BY <1>2, Counted DEF TakeCooldown, Numbers, Reads, Good, Fits, Typed, TypeOK, notes
<1>9. RowOK' BY <1>2, Counted DEF TakeCooldown, RowOK, Reads, Fits, Good, Typed, TypeOK
<1>10. Others'
  BY <1>2, <1>8, Counted DEF TakeCooldown, Others, Numbers, Reads, Fits, Good, Typed, TypeOK,
      notes
<1>11. TypeOK' BY <1>7, <1>9, <1>10 DEF Turned, Good, RowOK, Others, Typed, TypeOK
<1> QED BY <1>7, <1>8, <1>11 DEF Turned, Typed

LEMMA StoreCodeTypes ==
  ASSUME Typed, NEW r \in Workers, StoreCode(r)
  PROVE  Typed' /\ Turned(r, [w[r] EXCEPT !.pc = "budget",
                         !.clean = /\ Running("confirm") \cup Running("delete") = {}
                                   /\ Running("reset") = {r}])
<1> DEFINE x == /\ Running("confirm") \cup Running("delete") = {}
                 /\ Running("reset") = {r}
           q == [w[r] EXCEPT !.pc = "budget", !.clean = x]
<1>1. Growing BY Counted DEF StoreCode, Growing, Typed
<1>2. Good(w[r]) /\ Reads(w[r], challenges, codes) /\ w[r] \in ReqType BY WorkerOf
<1>3. w[r].pc = "code" BY DEF StoreCode
<1>4. w' = [w EXCEPT ![r] = q] BY DEF StoreCode, Typed, TypeOK
<1>5. x \in BOOLEAN OBVIOUS
<1> HIDE DEF x
<1>6. q \in ReqType BY <1>2, <1>5 DEF ReqType
<1>7. Good(q) BY <1>2, <1>6, <1>3 DEF Good, ReqType, Fits
<1>8. Reads(q, challenges', codes')
  BY <1>1, <1>2, <1>3, Counted DEF Good, ReqType, Reads, Fits, Growing
<1> USE DEF x
<1>9. Turned(r, q) BY <1>1, <1>7, <1>8, <1>4, Replaced
<1>10. Numbers' BY <1>2, Counted DEF StoreCode, Numbers, Reads, Good, Fits, Typed, TypeOK
<1>11. RowOK' BY <1>2, Counted DEF StoreCode, RowOK, Reads, Fits, Good, Typed, TypeOK
<1>12. Others'
  BY <1>2, <1>10, Counted DEF StoreCode, Others, Numbers, Reads, Fits, Good, Typed, TypeOK
<1>13. TypeOK' BY <1>9, <1>11, <1>12 DEF Turned, Good, RowOK, Others, Typed, TypeOK
<1> QED BY <1>9, <1>10, <1>13 DEF Turned, Typed

LEMMA StoreBudgetTypes ==
  ASSUME Typed, NEW r \in Workers, StoreBudget(r)
  PROVE  Typed' /\ Turned(r, Idle)
<1> DEFINE q == Idle
<1>1. Growing BY Counted DEF StoreBudget, Growing, Typed
<1>2. Good(w[r]) /\ Reads(w[r], challenges, codes) /\ w[r] \in ReqType BY WorkerOf
<1>3. Turned(r, q) BY <1>1, Ended DEF StoreBudget
<1>4. Numbers' BY <1>2, Counted DEF StoreBudget, Numbers, Reads, Good, Fits, Typed, TypeOK
<1>5. RowOK' BY <1>2, Counted DEF StoreBudget, RowOK, Reads, Fits, Good, Typed, TypeOK
<1>6. Others'
  BY <1>2, <1>4, Counted DEF StoreBudget, Others, Numbers, Reads, Fits, Good, Typed, TypeOK
<1>7. TypeOK' BY <1>3, <1>5, <1>6 DEF Turned, Good, RowOK, Others, Typed, TypeOK
<1> QED BY <1>3, <1>4, <1>7 DEF Turned, Typed

LEMMA ConfirmResetPasswordTypes ==
  ASSUME Typed, NEW r \in Workers, NEW guess \in 0..codes, ConfirmResetPassword(r, guess)
  PROVE  Typed' /\ Turned(r, [Idle EXCEPT !.op = "confirm", !.pc = "count", !.read = guess])
<1> DEFINE q == [Idle EXCEPT !.op = "confirm", !.pc = "count", !.read = guess]
<1>1. Growing BY Counted DEF ConfirmResetPassword, Growing, Typed, redisKeys
<1>2. Good(w[r]) /\ Reads(w[r], challenges, codes) /\ w[r] \in ReqType BY WorkerOf
<1>3. guess \in Nat /\ redeemed \in SUBSET Nat BY Counted
<1>4. q \in ReqType BY <1>3, IdleFits DEF Good, ReqType, AllKinds
<1>5. Good(q) BY <1>4 DEF ConfirmResetPassword, Good, Idle, Fits, Start
<1>6. Reads(q, challenges', codes')
  BY <1>1, Counted DEF ConfirmResetPassword, Reads, Idle, Growing
<1>7. Turned(r, q) BY <1>1, <1>5, <1>6, Started DEF ConfirmResetPassword
<1>8. Numbers'
  BY <1>2, Counted DEF ConfirmResetPassword, Numbers, Reads, Good, Fits, Typed, TypeOK, redisKeys
<1>9. RowOK' BY <1>2, Counted DEF ConfirmResetPassword, RowOK, Reads, Fits, Good, Typed, TypeOK
<1>10. Others'
  BY <1>2, <1>8, Counted DEF ConfirmResetPassword, Others, Numbers, Reads, Fits, Good, Typed,
      TypeOK, redisKeys
<1>11. TypeOK' BY <1>7, <1>9, <1>10 DEF Turned, Good, RowOK, Others, Typed, TypeOK
<1> QED BY <1>7, <1>8, <1>11 DEF Turned, Typed

LEMMA CountAttemptTypes ==
  ASSUME Typed, NEW r \in Workers, CountAttempt(r)
  PROVE  Typed' /\ Turned(r,
  [w[r] EXCEPT !.pc = IF (IF attempts = -1 THEN 0 ELSE attempts) + 1 > MaxCodeAttempts
                                THEN "burn" ELSE "get"])
<1> DEFINE q == [w[r] EXCEPT !.pc = IF (IF attempts = -1 THEN 0 ELSE attempts) + 1 > MaxCodeAttempts
                                THEN "burn" ELSE "get"]
<1>1. Growing BY Counted DEF CountAttempt, Growing, Typed
<1>2. Good(w[r]) /\ Reads(w[r], challenges, codes) /\ w[r] \in ReqType BY WorkerOf
<1>3. q \in ReqType BY <1>2, IdleFits, Counted DEF Good, ReqType
<1>4. Good(q) BY <1>2, <1>3, IdleFits DEF CountAttempt, Good, ReqType, Fits
<1>5. Reads(q, challenges', codes')
  BY <1>1, <1>2, IdleFits, Counted DEF CountAttempt, Good, ReqType, Reads, Fits, Growing, Typed,
      TypeOK, Numbers
<1>6. w' = [w EXCEPT ![r] = q] BY DEF CountAttempt, Goto, Typed, TypeOK
<1>7. Turned(r, q) BY <1>1, <1>4, <1>5, <1>6, Replaced
<1>8. Numbers' BY <1>2, Counted DEF CountAttempt, Numbers, Reads, Good, Fits, Typed, TypeOK
<1>9. RowOK' BY <1>2, Counted DEF CountAttempt, RowOK, Reads, Fits, Good, Typed, TypeOK
<1>10. Others'
  BY <1>2, <1>8, Counted DEF CountAttempt, Others, Numbers, Reads, Fits, Good, Typed, TypeOK, Min2
<1>11. TypeOK' BY <1>7, <1>9, <1>10 DEF Turned, Good, RowOK, Others, Typed, TypeOK
<1> QED BY <1>7, <1>8, <1>11 DEF Turned, Typed

LEMMA BurnCodeTypes ==
  ASSUME Typed, NEW r \in Workers, BurnCode(r)
  PROVE  Typed' /\ Turned(r, Idle)
<1> DEFINE q == Idle
<1>1. Growing BY Counted DEF BurnCode, Growing, Typed, notes
<1>2. Good(w[r]) /\ Reads(w[r], challenges, codes) /\ w[r] \in ReqType BY WorkerOf
<1>3. Turned(r, q) BY <1>1, Ended DEF BurnCode
<1>4. Numbers' BY <1>2, Counted DEF BurnCode, Numbers, Reads, Good, Fits, Typed, TypeOK, notes
<1>5. RowOK' BY <1>2, Counted DEF BurnCode, RowOK, Reads, Fits, Good, Typed, TypeOK
<1>6. Others'
  BY <1>2, <1>4, Counted DEF BurnCode, Others, Numbers, Reads, Fits, Good, Typed, TypeOK, notes
<1>7. TypeOK' BY <1>3, <1>5, <1>6 DEF Turned, Good, RowOK, Others, Typed, TypeOK
<1> QED BY <1>3, <1>4, <1>7 DEF Turned, Typed

LEMMA CompareCodeTypes ==
  ASSUME Typed, NEW r \in Workers, CompareCode(r)
  PROVE  Typed' /\ Turned(r,
              IF code # None /\ code = w[r].read
              THEN [w[r] EXCEPT !.pc = "redeem", !.born = redeemed] ELSE Idle)
<1> DEFINE q == IF code # None /\ code = w[r].read
              THEN [w[r] EXCEPT !.pc = "redeem", !.born = redeemed] ELSE Idle
<1>1. Growing BY Counted DEF CompareCode, Growing, Typed, redisKeys
<1>2. Good(w[r]) /\ Reads(w[r], challenges, codes) /\ w[r] \in ReqType BY WorkerOf
<1>3. q \in ReqType BY <1>2, IdleFits, Counted DEF Good, ReqType
<1>4. Good(q) BY <1>2, <1>3, IdleFits DEF CompareCode, Good, ReqType, Fits
<1>5. Reads(q, challenges', codes')
  BY <1>1, <1>2, IdleFits, Counted DEF CompareCode, Good, ReqType, Reads, Fits, Growing, Typed,
      TypeOK, Numbers
<1>6. w' = [w EXCEPT ![r] = q] BY DEF CompareCode, Goto, End, Typed, TypeOK
<1>7. Turned(r, q) BY <1>1, <1>4, <1>5, <1>6, Replaced
<1>8. Numbers'
  BY <1>2, Counted DEF CompareCode, Numbers, Reads, Good, Fits, Typed, TypeOK, redisKeys
<1>9. RowOK' BY <1>2, Counted DEF CompareCode, RowOK, Reads, Fits, Good, Typed, TypeOK
<1>10. Others'
  BY <1>2, <1>8, Counted DEF CompareCode, Others, Numbers, Reads, Fits, Good, Typed, TypeOK,
      redisKeys
<1>11. TypeOK' BY <1>7, <1>9, <1>10 DEF Turned, Good, RowOK, Others, Typed, TypeOK
<1> QED BY <1>7, <1>8, <1>11 DEF Turned, Typed

LEMMA RedeemCodeTypes ==
  ASSUME Typed, NEW r \in Workers, RedeemCode(r)
  PROVE  Typed' /\ Turned(r, [w[r] EXCEPT !.pc = "password"])
<1> DEFINE q == [w[r] EXCEPT !.pc = "password"]
<1>1. Growing BY Counted DEF RedeemCode, Growing, Typed
<1>2. Good(w[r]) /\ Reads(w[r], challenges, codes) /\ w[r] \in ReqType BY WorkerOf
<1>3. q \in ReqType BY <1>2, IdleFits, Counted DEF Good, ReqType
<1>4. Good(q) BY <1>2, <1>3, IdleFits DEF RedeemCode, Good, ReqType, Fits
<1>5. Reads(q, challenges', codes')
  BY <1>1, <1>2, IdleFits, Counted DEF RedeemCode, Good, ReqType, Reads, Fits, Growing, Typed,
      TypeOK, Numbers
<1>6. w' = [w EXCEPT ![r] = q] BY DEF RedeemCode, Goto, Typed, TypeOK
<1>7. Turned(r, q) BY <1>1, <1>4, <1>5, <1>6, Replaced
<1>8. Numbers'
  <2>1. w[r].read \in 1..codes BY <1>2 DEF RedeemCode, Reads
  <2>2. redeemed' = redeemed \cup {w[r].read} /\ code' = None /\ codes' = codes
        /\ row' = row /\ challenges' = challenges /\ used' = used
    BY DEF RedeemCode
  <2>3. redeemed' \subseteq 1..codes BY <2>1, <2>2 DEF Numbers, Typed
  <2>4. code' \in 0..codes BY <2>2, Counted DEF None
  <2> QED BY <2>2, <2>3, <2>4 DEF Numbers, Typed
<1>9. RowOK' BY <1>2, Counted DEF RedeemCode, RowOK, Reads, Fits, Good, Typed, TypeOK
<1>10. Others'
  BY <1>2, <1>8, Counted DEF RedeemCode, Others, Numbers, Reads, Fits, Good, Typed, TypeOK
<1>11. TypeOK' BY <1>7, <1>9, <1>10 DEF Turned, Good, RowOK, Others, Typed, TypeOK
<1> QED BY <1>7, <1>8, <1>11 DEF Turned, Typed

LEMMA ChangePasswordTypes ==
  ASSUME Typed, NEW r \in Workers, ChangePassword(r)
  PROVE  Typed' /\ Turned(r, Idle)
<1> DEFINE q == Idle
<1>1. Growing BY Counted DEF ChangePassword, Growing, Typed, redisKeys, notes
<1>2. Good(w[r]) /\ Reads(w[r], challenges, codes) /\ w[r] \in ReqType BY WorkerOf
<1>3. Turned(r, q) BY <1>1, Ended DEF ChangePassword
<1>4. Numbers'
  BY <1>2, Counted DEF ChangePassword, Numbers, Reads, Good, Fits, Typed, TypeOK, redisKeys, notes
<1>5. RowOK' BY <1>2, Counted DEF ChangePassword, RowOK, Reads, Fits, Good, Typed, TypeOK
<1>6. Others'
  BY <1>2, <1>4, Counted DEF ChangePassword, Others, Numbers, Reads, Fits, Good, Typed, TypeOK,
      redisKeys, notes
<1>7. TypeOK' BY <1>3, <1>5, <1>6 DEF Turned, Good, RowOK, Others, Typed, TypeOK
<1> QED BY <1>3, <1>4, <1>7 DEF Turned, Typed

LEMMA DeleteAccountTypes ==
  ASSUME Typed, NEW r \in Workers, DeleteAccount(r)
  PROVE  Typed' /\ Turned(r, [Idle EXCEPT !.op = "delete", !.pc = "keys"])
<1> DEFINE q == [Idle EXCEPT !.op = "delete", !.pc = "keys"]
<1>1. Growing BY Counted DEF DeleteAccount, Growing, Typed, redisKeys
<1>2. Good(w[r]) /\ Reads(w[r], challenges, codes) /\ w[r] \in ReqType BY WorkerOf
<1>3. q \in ReqType BY IdleFits DEF Good, ReqType, AllKinds
<1>4. Good(q) BY <1>3 DEF DeleteAccount, Good, Idle, Fits, Start
<1>5. Reads(q, challenges', codes') BY <1>1, Counted DEF DeleteAccount, Reads, Idle, Growing
<1>6. Turned(r, q) BY <1>1, <1>4, <1>5, Started DEF DeleteAccount
<1>7. Numbers'
  BY <1>2, Counted DEF DeleteAccount, Numbers, Reads, Good, Fits, Typed, TypeOK, redisKeys
<1>8. RowOK' BY <1>2, Counted DEF DeleteAccount, RowOK, Reads, Fits, Good, Typed, TypeOK
<1>9. Others'
  BY <1>2, <1>7, Counted DEF DeleteAccount, Others, Numbers, Reads, Fits, Good, Typed, TypeOK,
      redisKeys
<1>10. TypeOK' BY <1>6, <1>8, <1>9 DEF Turned, Good, RowOK, Others, Typed, TypeOK
<1> QED BY <1>6, <1>7, <1>10 DEF Turned, Typed

LEMMA DeleteResetCodesTypes ==
  ASSUME Typed, NEW r \in Workers, DeleteResetCodes(r)
  PROVE  Typed' /\ Turned(r, [w[r] EXCEPT !.pc = "row"])
<1> DEFINE q == [w[r] EXCEPT !.pc = "row"]
<1>1. Growing BY Counted DEF DeleteResetCodes, Growing, Typed
<1>2. Good(w[r]) /\ Reads(w[r], challenges, codes) /\ w[r] \in ReqType BY WorkerOf
<1>3. q \in ReqType BY <1>2, IdleFits, Counted DEF Good, ReqType
<1>4. Good(q) BY <1>2, <1>3, IdleFits DEF DeleteResetCodes, Good, ReqType, Fits
<1>5. Reads(q, challenges', codes')
  BY <1>1, <1>2, IdleFits, Counted DEF DeleteResetCodes, Good, ReqType, Reads, Fits, Growing,
      Typed, TypeOK, Numbers
<1>6. w' = [w EXCEPT ![r] = q] BY DEF DeleteResetCodes, Goto, Typed, TypeOK
<1>7. Turned(r, q) BY <1>1, <1>4, <1>5, <1>6, Replaced
<1>8. Numbers' BY <1>2, Counted DEF DeleteResetCodes, Numbers, Reads, Good, Fits, Typed, TypeOK
<1>9. RowOK' BY <1>2, Counted DEF DeleteResetCodes, RowOK, Reads, Fits, Good, Typed, TypeOK
<1>10. Others'
  <2>1. -1 \in -1..(MaxCodeAttempts + 1) /\ None \in 0..MaxCodes BY Counted
  <2> QED BY <2>1 DEF DeleteResetCodes, Others, Typed, TypeOK
<1>11. TypeOK' BY <1>7, <1>9, <1>10 DEF Turned, Good, RowOK, Others, Typed, TypeOK
<1> QED BY <1>7, <1>8, <1>11 DEF Turned, Typed

LEMMA DeleteRowTypes ==
  ASSUME Typed, NEW r \in Workers, DeleteRow(r)
  PROVE  Typed' /\ Turned(r, Idle)
<1> DEFINE q == Idle
<1>1. Growing BY Counted DEF DeleteRow, Growing, Typed, redisKeys, notes
<1>2. Good(w[r]) /\ Reads(w[r], challenges, codes) /\ w[r] \in ReqType BY WorkerOf
<1>3. Turned(r, q) BY <1>1, Ended DEF DeleteRow
<1>4. Numbers'
  BY <1>2, Counted DEF DeleteRow, Numbers, Reads, Good, Fits, Typed, TypeOK, redisKeys, notes
<1>5. RowOK'
  <2>1. None \in 0..MaxChallenges /\ 0 \in Nat /\ None \in Pins \cup {None} BY Counted
  <2> QED BY <2>1 DEF DeleteRow, RowOK, Typed, TypeOK
<1>6. Others'
  BY <1>2, <1>4, Counted DEF DeleteRow, Others, Numbers, Reads, Fits, Good, Typed, TypeOK,
      redisKeys, notes
<1>7. TypeOK' BY <1>3, <1>5, <1>6 DEF Turned, Good, RowOK, Others, Typed, TypeOK
<1> QED BY <1>3, <1>4, <1>7 DEF Turned, Typed

LEMMA StopTypes ==
  ASSUME Typed, NEW r \in Workers, Stop(r)
  PROVE  Typed' /\ Turned(r, Idle)
<1> DEFINE q == Idle
<1>1. Growing BY Counted DEF Stop, Growing, Typed, redisKeys
<1>2. Good(w[r]) /\ Reads(w[r], challenges, codes) /\ w[r] \in ReqType BY WorkerOf
<1>3. Turned(r, q) BY <1>1, Ended DEF Stop
<1>4. Numbers'
  BY <1>2, Counted DEF Stop, Numbers, Reads, Good, Fits, Typed, TypeOK, redisKeys, notes
<1>5. RowOK' BY <1>2, Counted DEF Stop, RowOK, Reads, Fits, Good, Typed, TypeOK
<1>6. Others'
  BY <1>2, <1>4, Counted DEF Stop, Others, Numbers, Reads, Fits, Good, Typed, TypeOK, redisKeys,
      notes
<1>7. TypeOK' BY <1>3, <1>5, <1>6 DEF Turned, Good, RowOK, Others, Typed, TypeOK
<1> QED BY <1>3, <1>4, <1>7 DEF Turned, Typed

\* A step that leaves the requests alone.
LEMMA SecureAuthTypes ==
  ASSUME Typed, NEW fp \in BOOLEAN, NEW pinOn \in BOOLEAN, NEW pkey \in BOOLEAN,
         NEW pin \in Pins \cup {None}, SecureAuth(fp, pinOn, pin, pkey)
  PROVE  Typed'
<1>1. Numbers' BY Counted DEF SecureAuth, Numbers, Typed, TypeOK, redisKeys, notes
<1>2. RowOK'
  <2> DEFINE key == IF ~fp /\ ~pinOn THEN FALSE ELSE pkey \/ row.pkey
             hash == IF ~pinOn THEN None ELSE IF pin # None THEN pin ELSE row.pin
             left == IF ~fp /\ ~pinOn THEN None ELSE row.challenge
  <2>1. row \in [here : BOOLEAN, fp : BOOLEAN, pinOn : BOOLEAN, pin : Pins \cup {None},
                 pkey : BOOLEAN, challenge : 0..MaxChallenges, counter : Nat]
    BY DEF Typed, TypeOK
  <2>2. key \in BOOLEAN BY <2>1
  <2>3. hash \in Pins \cup {None} BY <2>1
  <2>4. left \in 0..MaxChallenges BY <2>1, Counted
  <2>5. row' = [row EXCEPT !.fp = fp, !.pinOn = pinOn, !.pkey = key, !.pin = hash,
                           !.challenge = left]
    BY <2>1 DEF SecureAuth
  <2> QED BY <2>1, <2>2, <2>3, <2>4, <2>5 DEF RowOK
<1>3. TypeOK' BY <1>2 DEF SecureAuth, RowOK, Typed, TypeOK, redisKeys, notes
<1> QED BY <1>1, <1>3 DEF SecureAuth, Typed, TypeOK

LEMMA LogoutTypes == ASSUME Typed, Logout PROVE Typed'
<1>1. Numbers' BY Counted DEF Logout, Numbers, Typed, TypeOK, redisKeys, notes
<1>2. TypeOK' BY Counted DEF Logout, Typed, TypeOK, redisKeys, notes
<1> QED BY <1>1, <1>2 DEF Logout, Typed

LEMMA ExpireTypes == ASSUME Typed, Expire PROVE Typed'
<1>1. Numbers' BY Counted DEF Expire, Numbers, Typed, TypeOK
<1>2. Others'
  <2>1. /\ code' \in {code, None} /\ mailed' \in {mailed, None}
        /\ attempts' \in {attempts, -1} /\ cooldown' \in {cooldown, FALSE}
    BY DEF Expire
  <2>2. None \in 0..MaxCodes /\ -1 \in -1..(MaxCodeAttempts + 1) BY Counted
  <2> QED BY <2>1, <2>2 DEF Expire, Typed, TypeOK, Others
<1>3. TypeOK' BY <1>2 DEF Expire, Typed, TypeOK, Others
<1> QED BY <1>1, <1>3 DEF Expire, Typed

LEMMA StutterTypes == ASSUME Typed, UNCHANGED vars PROVE Typed'
BY DEF vars, notes, Typed, TypeOK, Numbers

LEMMA InitTypes == Init => Typed
<1> SUFFICES ASSUME Init PROVE Typed OBVIOUS
<1>1. Good(Idle) /\ \A m, n : Reads(Idle, m, n)
  BY IdleFits
<1>2. w = [r \in Workers |-> Idle] BY DEF Init
<1>3. w \in [Workers -> ReqType] /\ \A r \in Workers : w[r] = Idle BY <1>1, <1>2 DEF Good
<1>4. TypeOK
  <2>1. None \in 0..MaxChallenges /\ None \in 0..MaxCodes /\ 0 \in 0..MaxCodes
        /\ 0 \in 0..MaxChallenges /\ -1 \in -1..(MaxCodeAttempts + 1) /\ 0 \in Nat
    BY CredentialsAssumption DEF None
  <2> QED BY <2>1, <1>1, <1>3 DEF Init, TypeOK, Good
<1>5. Numbers BY DEF Init, Numbers, None
<1> QED BY <1>1, <1>3, <1>4, <1>5 DEF Typed

\* What the other requests keep, for the invariants.
Same(s) == /\ w'[s].pc = w[s].pc /\ w'[s].op = w[s].op /\ w'[s].read = w[s].read
           /\ w'[s].sig = w[s].sig /\ w'[s].born = w[s].born
           /\ w'[s].clean => w[s].clean

LEMMA TurnKeeps ==
  ASSUME Typed, NEW r \in Workers, NEW q, Turned(r, q), Typed'
  PROVE  /\ w'[r] = q /\ \A s \in Workers : s # r => Same(s)
         /\ Good(w[r]) /\ w[r] \in ReqType /\ Reads(w[r], challenges, codes)
         /\ Good(q) /\ q \in ReqType
<1>1. ASSUME NEW s \in Workers, s # r PROVE Same(s)
  <2>1. Kept(s) BY <1>1 DEF Turned, Apart
  <2>2. w[s] \in ReqType BY WorkerOf
  <2> QED BY <2>1, <2>2 DEF Kept, Same, ReqType
<1>2. w'[r] = q /\ Good(q) BY DEF Turned
<1> QED BY <1>1, <1>2, WorkerOf DEF Good

-----------------------------------------------------------------------------
(* A code is redeemed once.  A code that is stored, or about to be, is not *)
(* one redeemed; the codes about to be stored differ from each other and   *)
(* from those a confirmation has passed with.                              *)

Fresh(q) == q.pc \in {"cool", "code"}
CodePcs == {"cool", "code", "redeem", "password"}

FreshUnused ==
  \A r \in Workers : Fresh(w[r]) => w[r].read # code /\ w[r].read \notin redeemed
FreshApart ==
  \A r, s \in Workers :
    r # s /\ Fresh(w[r]) /\ (Fresh(w[s]) \/ PastCode(w[s])) => w[r].read # w[s].read
PassedNew == \A r \in Workers : PastCode(w[r]) => w[r].read \notin w[r].born
CodeUnused == code \notin redeemed

CodesOK == FreshUnused /\ FreshApart /\ PassedNew /\ CodeUnused

LEMMA CodesQuiet ==
  ASSUME Typed, CodesOK, code' \in {code, None}, redeemed' = redeemed,
         \A s \in Workers : Same(s) \/ w'[s].pc \notin CodePcs
  PROVE  CodesOK'
<1>1. \A s \in Workers : Fresh(w'[s]) => Fresh(w[s]) /\ w'[s].read = w[s].read
  BY DEF Fresh, Same, CodePcs
<1>2. \A s \in Workers : PastCode(w'[s]) => PastCode(w[s]) /\ w'[s].read = w[s].read
                                          /\ w'[s].born = w[s].born
  BY DEF PastCode, Same, CodePcs
<1>3. /\ \A s \in Workers : Fresh(w[s]) => w[s].read # None
      /\ \A s \in Workers : PastCode(w[s]) => w[s].read # None
  BY WorkerOf, Counted DEF Fresh, PastCode, Reads
<1>4. None \notin redeemed BY Counted DEF Typed, Numbers
<1>5. FreshUnused' BY <1>1, <1>3 DEF CodesOK, FreshUnused
<1>6. FreshApart' BY <1>1, <1>2 DEF CodesOK, FreshApart
<1>7. PassedNew' BY <1>2 DEF CodesOK, PassedNew
<1>8. CodeUnused' BY <1>4 DEF CodesOK, CodeUnused
<1> QED BY <1>5, <1>6, <1>7, <1>8 DEF CodesOK

LEMMA ResetPasswordCodes ==
  ASSUME Typed, CodesOK, NEW r \in Workers, ResetPassword(r)
  PROVE  CodesOK'
<1> DEFINE q == [Idle EXCEPT !.op = "reset", !.pc = "cool", !.read = codes + 1]
<1>1. Typed' /\ Turned(r, q) BY ResetPasswordTypes
<1>2. /\ w'[r] = q /\ \A s \in Workers : s # r => Same(s)
      /\ Good(w[r]) /\ w[r] \in ReqType /\ Reads(w[r], challenges, codes)
  BY <1>1, TurnKeeps
<1>3. \A s \in Workers : s # r => Fresh(w'[s]) = Fresh(w[s]) /\ PastCode(w'[s]) = PastCode(w[s])
  BY <1>2 DEF Fresh, PastCode, Same
<1>4. FreshUnused'
  BY <1>2, <1>3, Counted, WorkerOf
  DEF ResetPassword, Idle, Start, ReqType, CodesOK, FreshUnused, FreshApart,
      PassedNew, CodeUnused, Fresh, PastCode, Same, Reads, Typed, Numbers, redisKeys
<1>5. FreshApart'
  BY <1>2, <1>3, Counted, WorkerOf
  DEF ResetPassword, Idle, Start, ReqType, CodesOK, FreshUnused, FreshApart,
      PassedNew, CodeUnused, Fresh, PastCode, Same, Reads, Typed, Numbers, redisKeys
<1>6. PassedNew'
  BY <1>2, <1>3, Counted, WorkerOf
  DEF ResetPassword, Idle, Start, ReqType, CodesOK, FreshUnused, FreshApart,
      PassedNew, CodeUnused, Fresh, PastCode, Same, Reads, Typed, Numbers, redisKeys
<1>7. CodeUnused'
  BY <1>2, <1>3, Counted, WorkerOf
  DEF ResetPassword, Idle, Start, ReqType, CodesOK, FreshUnused, FreshApart,
      PassedNew, CodeUnused, Fresh, PastCode, Same, Reads, Typed, Numbers, redisKeys
<1> QED BY <1>4, <1>5, <1>6, <1>7 DEF CodesOK

LEMMA TakeCooldownCodes ==
  ASSUME Typed, CodesOK, NEW r \in Workers, TakeCooldown(r)
  PROVE  CodesOK'
<1> DEFINE q == IF cooldown THEN Idle ELSE [w[r] EXCEPT !.pc = "code"]
<1>1. Typed' /\ Turned(r, q) BY TakeCooldownTypes
<1>2. /\ w'[r] = q /\ \A s \in Workers : s # r => Same(s)
      /\ Good(w[r]) /\ w[r] \in ReqType /\ Reads(w[r], challenges, codes)
  BY <1>1, TurnKeeps
<1>3. \A s \in Workers : s # r => Fresh(w'[s]) = Fresh(w[s]) /\ PastCode(w'[s]) = PastCode(w[s])
  BY <1>2 DEF Fresh, PastCode, Same
<1>4. FreshUnused'
  BY <1>2, <1>3, Counted, WorkerOf
  DEF TakeCooldown, Idle, ReqType, CodesOK, FreshUnused, FreshApart,
      PassedNew, CodeUnused, Fresh, PastCode, Same, Reads, Typed, Numbers, notes
<1>5. FreshApart'
  BY <1>2, <1>3, Counted, WorkerOf
  DEF TakeCooldown, Idle, ReqType, CodesOK, FreshUnused, FreshApart,
      PassedNew, CodeUnused, Fresh, PastCode, Same, Reads, Typed, Numbers, notes
<1>6. PassedNew'
  BY <1>2, <1>3, Counted, WorkerOf
  DEF TakeCooldown, Idle, ReqType, CodesOK, FreshUnused, FreshApart,
      PassedNew, CodeUnused, Fresh, PastCode, Same, Reads, Typed, Numbers, notes
<1>7. CodeUnused'
  BY <1>2, <1>3, Counted, WorkerOf
  DEF TakeCooldown, Idle, ReqType, CodesOK, FreshUnused, FreshApart,
      PassedNew, CodeUnused, Fresh, PastCode, Same, Reads, Typed, Numbers, notes
<1> QED BY <1>4, <1>5, <1>6, <1>7 DEF CodesOK

LEMMA StoreCodeCodes ==
  ASSUME Typed, CodesOK, NEW r \in Workers, StoreCode(r)
  PROVE  CodesOK'
<1> DEFINE x == /\ Running("confirm") \cup Running("delete") = {}
                 /\ Running("reset") = {r}
           q == [w[r] EXCEPT !.pc = "budget", !.clean = x]
<1>1. Typed' /\ Turned(r, q) BY StoreCodeTypes
<1>2. /\ w'[r] = q /\ \A s \in Workers : s # r => Same(s)
      /\ Good(w[r]) /\ w[r] \in ReqType /\ Reads(w[r], challenges, codes)
  BY <1>1, TurnKeeps
<1>3. \A s \in Workers : s # r => Fresh(w'[s]) = Fresh(w[s]) /\ PastCode(w'[s]) = PastCode(w[s])
  BY <1>2 DEF Fresh, PastCode, Same
<1>4. w[r].pc = "code" /\ code' = w[r].read /\ redeemed' = redeemed /\ guesses' = 0
      /\ attempts' = attempts
  BY DEF StoreCode
<1> HIDE DEF x
<1>5. w'[r].pc = "budget" /\ w'[r].read = w[r].read BY <1>2 DEF ReqType
<1> HIDE DEF q
<1>6. FreshUnused'
  BY <1>2, <1>3, <1>4, <1>5, Counted, WorkerOf
  DEF Idle, ReqType, CodesOK, FreshUnused, FreshApart, PassedNew,
      CodeUnused, Fresh, PastCode, Same, Reads, Typed, Numbers, redisKeys, notes
<1>7. FreshApart'
  BY <1>2, <1>3, <1>4, <1>5, Counted, WorkerOf
  DEF Idle, ReqType, CodesOK, FreshUnused, FreshApart, PassedNew,
      CodeUnused, Fresh, PastCode, Same, Reads, Typed, Numbers, redisKeys, notes
<1>8. PassedNew'
  BY <1>2, <1>3, <1>4, <1>5, Counted, WorkerOf
  DEF Idle, ReqType, CodesOK, FreshUnused, FreshApart, PassedNew,
      CodeUnused, Fresh, PastCode, Same, Reads, Typed, Numbers, redisKeys, notes
<1>9. CodeUnused'
  BY <1>2, <1>3, <1>4, <1>5, Counted, WorkerOf
  DEF Idle, ReqType, CodesOK, FreshUnused, FreshApart, PassedNew,
      CodeUnused, Fresh, PastCode, Same, Reads, Typed, Numbers, redisKeys, notes
<1> QED BY <1>6, <1>7, <1>8, <1>9 DEF CodesOK

LEMMA CompareCodeCodes ==
  ASSUME Typed, CodesOK, NEW r \in Workers, CompareCode(r)
  PROVE  CodesOK'
<1> DEFINE q == IF code # None /\ code = w[r].read
              THEN [w[r] EXCEPT !.pc = "redeem", !.born = redeemed] ELSE Idle
<1>1. Typed' /\ Turned(r, q) BY CompareCodeTypes
<1>2. /\ w'[r] = q /\ \A s \in Workers : s # r => Same(s)
      /\ Good(w[r]) /\ w[r] \in ReqType /\ Reads(w[r], challenges, codes)
  BY <1>1, TurnKeeps
<1>3. code' = code /\ redeemed' = redeemed /\ w[r].pc = "get"
  BY DEF CompareCode, redisKeys
<1>4. CASE code # None /\ code = w[r].read
  <2>1. /\ w'[r].pc = "redeem" /\ w'[r].read = code /\ w'[r].born = redeemed
        /\ ~Fresh(w'[r]) /\ PastCode(w'[r])
    BY <1>2, <1>4 DEF ReqType, Fresh, PastCode
  <2>2. \A s \in Workers : s # r => /\ Fresh(w'[s]) = Fresh(w[s]) /\ PastCode(w'[s]) = PastCode(w[s])
                                    /\ w'[s].read = w[s].read /\ w'[s].born = w[s].born
    BY <1>2 DEF Fresh, PastCode, Same
  <2> HIDE DEF q
  <2>3. FreshUnused' BY <1>3, <2>1, <2>2 DEF CodesOK, FreshUnused
  <2>4. FreshApart' BY <2>1, <2>2 DEF CodesOK, FreshApart, FreshUnused
  <2>5. PassedNew' BY <2>1, <2>2 DEF CodesOK, PassedNew, CodeUnused
  <2>6. CodeUnused' BY <1>3 DEF CodesOK, CodeUnused
  <2> QED BY <2>3, <2>4, <2>5, <2>6 DEF CodesOK
<1>5. CASE ~(code # None /\ code = w[r].read)
  <2>1. w'[r].pc \notin CodePcs BY <1>2, <1>5, IdleFits DEF CodePcs
  <2> QED BY <2>1, <1>2, <1>3, CodesQuiet
<1> QED BY <1>4, <1>5

LEMMA RedeemCodeCodes ==
  ASSUME Typed, CodesOK, NEW r \in Workers, RedeemCode(r)
  PROVE  CodesOK'
<1> DEFINE q == [w[r] EXCEPT !.pc = "password"]
<1>1. Typed' /\ Turned(r, q) BY RedeemCodeTypes
<1>2. /\ w'[r] = q /\ \A s \in Workers : s # r => Same(s)
      /\ Good(w[r]) /\ w[r] \in ReqType /\ Reads(w[r], challenges, codes)
  BY <1>1, TurnKeeps
<1>3. \A s \in Workers : s # r => Fresh(w'[s]) = Fresh(w[s]) /\ PastCode(w'[s]) = PastCode(w[s])
  BY <1>2 DEF Fresh, PastCode, Same
<1>4. FreshUnused'
  BY <1>2, <1>3, Counted, WorkerOf
  DEF RedeemCode, Idle, ReqType, CodesOK, FreshUnused, FreshApart,
      PassedNew, CodeUnused, Fresh, PastCode, Same, Reads, Typed, Numbers
<1>5. FreshApart'
  BY <1>2, <1>3, Counted, WorkerOf
  DEF RedeemCode, Idle, ReqType, CodesOK, FreshUnused, FreshApart,
      PassedNew, CodeUnused, Fresh, PastCode, Same, Reads, Typed, Numbers
<1>6. PassedNew'
  BY <1>2, <1>3, Counted, WorkerOf
  DEF RedeemCode, Idle, ReqType, CodesOK, FreshUnused, FreshApart,
      PassedNew, CodeUnused, Fresh, PastCode, Same, Reads, Typed, Numbers
<1>7. CodeUnused'
  BY <1>2, <1>3, Counted, WorkerOf
  DEF RedeemCode, Idle, ReqType, CodesOK, FreshUnused, FreshApart,
      PassedNew, CodeUnused, Fresh, PastCode, Same, Reads, Typed, Numbers
<1> QED BY <1>4, <1>5, <1>6, <1>7 DEF CodesOK

-----------------------------------------------------------------------------
(* A challenge is spent once.  The pending challenge, and those about to   *)
(* be stored, are not spent; those about to be stored differ from each     *)
(* other and from those a refresh has read.                                *)

ChallengePcs == {"store", "consume", "pin", "bump", "clear", "rotate"}

NewUnused ==
  \A r \in Workers : w[r].pc = "store" => w[r].read # row.challenge /\ w[r].read \notin used
NewApart ==
  \A r, s \in Workers :
    r # s /\ w[r].pc = "store" /\ w[s].pc \in {"store", "consume"} => w[r].read # w[s].read
ReadNew == \A r \in Workers : w[r].pc = "consume" => w[r].read \notin w[r].born
SpentNew == \A r \in Workers : PastChallenge(w[r]) => w[r].sig \notin w[r].born
PendingUnused == row.challenge \notin used

ChallengesOK == NewUnused /\ NewApart /\ ReadNew /\ SpentNew /\ PendingUnused

\* A request past the challenge goes on, or nothing happens to the challenges.
Onward(s) == /\ PastChallenge(w[s]) /\ PastChallenge(w'[s])
             /\ w'[s].sig = w[s].sig /\ w'[s].born = w[s].born

LEMMA ChallengesQuiet ==
  ASSUME Typed, ChallengesOK, row'.challenge \in {row.challenge, None}, used' = used,
         \A s \in Workers : Same(s) \/ w'[s].pc \notin ChallengePcs \/ Onward(s)
  PROVE  ChallengesOK'
<1>1. \A s \in Workers : w'[s].pc \in {"store", "consume"} => Same(s)
  BY DEF ChallengePcs, Onward, PastChallenge
<1>2. \A s \in Workers : PastChallenge(w'[s]) =>
         PastChallenge(w[s]) /\ w'[s].sig = w[s].sig /\ w'[s].born = w[s].born
  BY DEF PastChallenge, Same, ChallengePcs, Onward
<1>3. \A s \in Workers : w[s].pc = "store" => w[s].read # None
  BY WorkerOf, Counted DEF Reads
<1>4. None \notin used BY Counted DEF Typed, Numbers
<1>5. NewUnused' BY <1>1, <1>3 DEF ChallengesOK, NewUnused, Same
<1>6. NewApart' BY <1>1 DEF ChallengesOK, NewApart, Same
<1>7. ReadNew' BY <1>1 DEF ChallengesOK, ReadNew, Same
<1>8. SpentNew' BY <1>2 DEF ChallengesOK, SpentNew
<1>9. PendingUnused' BY <1>4 DEF ChallengesOK, PendingUnused
<1> QED BY <1>5, <1>6, <1>7, <1>8, <1>9 DEF ChallengesOK

LEMMA ReadChallengeChallenges ==
  ASSUME Typed, ChallengesOK, NEW r \in Workers, ReadChallenge(r)
  PROVE  ChallengesOK'
<1> DEFINE q == IF row.here /\ row.pkey /\ row.challenge # None
              THEN [w[r] EXCEPT !.pc = "consume", !.read = row.challenge, !.born = used] ELSE Idle
<1>1. Typed' /\ Turned(r, q) BY ReadChallengeTypes
<1>2. /\ w'[r] = q /\ \A s \in Workers : s # r => Same(s)
      /\ Good(w[r]) /\ w[r] \in ReqType /\ Reads(w[r], challenges, codes)
  BY <1>1, TurnKeeps
<1>3. \A s \in Workers : s # r => PastChallenge(w'[s]) = PastChallenge(w[s])
  BY <1>2 DEF PastChallenge, Same
<1>4. NewUnused'
  BY <1>2, <1>3, Counted, WorkerOf
  DEF ReadChallenge, Idle, ReqType, ChallengesOK, NewUnused, NewApart, ReadNew,
      SpentNew, PendingUnused, PastChallenge, Same, Reads, Typed, TypeOK, Numbers, notes,
      redisKeys, Fits, Good
<1>5. NewApart'
  BY <1>2, <1>3, Counted, WorkerOf
  DEF ReadChallenge, Idle, ReqType, ChallengesOK, NewUnused, NewApart, ReadNew,
      SpentNew, PendingUnused, PastChallenge, Same, Reads, Typed, TypeOK, Numbers, notes,
      redisKeys, Fits, Good
<1>6. ReadNew'
  BY <1>2, <1>3, Counted, WorkerOf
  DEF ReadChallenge, Idle, ReqType, ChallengesOK, NewUnused, NewApart, ReadNew,
      SpentNew, PendingUnused, PastChallenge, Same, Reads, Typed, TypeOK, Numbers, notes,
      redisKeys, Fits, Good
<1>7. SpentNew'
  BY <1>2, <1>3, Counted, WorkerOf
  DEF ReadChallenge, Idle, ReqType, ChallengesOK, NewUnused, NewApart, ReadNew,
      SpentNew, PendingUnused, PastChallenge, Same, Reads, Typed, TypeOK, Numbers, notes,
      redisKeys, Fits, Good
<1>8. PendingUnused'
  BY <1>2, <1>3, Counted, WorkerOf
  DEF ReadChallenge, Idle, ReqType, ChallengesOK, NewUnused, NewApart, ReadNew,
      SpentNew, PendingUnused, PastChallenge, Same, Reads, Typed, TypeOK, Numbers, notes,
      redisKeys, Fits, Good
<1> QED BY <1>4, <1>5, <1>6, <1>7, <1>8 DEF ChallengesOK

LEMMA ConsumeChallengeChallenges ==
  ASSUME Typed, ChallengesOK, NEW r \in Workers, ConsumeChallenge(r)
  PROVE  ChallengesOK'
<1> DEFINE q == IF w[r].sig = w[r].read
              THEN [w[r] EXCEPT !.pc = IF w[r].pin = None THEN "rotate" ELSE "pin"] ELSE Idle
<1>1. Typed' /\ Turned(r, q) BY ConsumeChallengeTypes
<1>2. /\ w'[r] = q /\ \A s \in Workers : s # r => Same(s)
      /\ Good(w[r]) /\ w[r] \in ReqType /\ Reads(w[r], challenges, codes)
  BY <1>1, TurnKeeps
<1>3. \A s \in Workers : s # r => PastChallenge(w'[s]) = PastChallenge(w[s])
  BY <1>2 DEF PastChallenge, Same
<1>4. NewUnused'
  BY <1>2, <1>3, Counted, WorkerOf
  DEF ConsumeChallenge, Idle, ReqType, ChallengesOK, NewUnused, NewApart, ReadNew,
      SpentNew, PendingUnused, PastChallenge, Same, Reads, Typed, TypeOK, Numbers, resetNotes,
      redisKeys, Fits, Good
<1>5. NewApart'
  BY <1>2, <1>3, Counted, WorkerOf
  DEF ConsumeChallenge, Idle, ReqType, ChallengesOK, NewUnused, NewApart, ReadNew,
      SpentNew, PendingUnused, PastChallenge, Same, Reads, Typed, TypeOK, Numbers, resetNotes,
      redisKeys, Fits, Good
<1>6. ReadNew'
  BY <1>2, <1>3, Counted, WorkerOf
  DEF ConsumeChallenge, Idle, ReqType, ChallengesOK, NewUnused, NewApart, ReadNew,
      SpentNew, PendingUnused, PastChallenge, Same, Reads, Typed, TypeOK, Numbers, resetNotes,
      redisKeys, Fits, Good
<1>7. SpentNew'
  BY <1>2, <1>3, Counted, WorkerOf
  DEF ConsumeChallenge, Idle, ReqType, ChallengesOK, NewUnused, NewApart, ReadNew,
      SpentNew, PendingUnused, PastChallenge, Same, Reads, Typed, TypeOK, Numbers, resetNotes,
      redisKeys, Fits, Good
<1>8. PendingUnused'
  BY <1>2, <1>3, Counted, WorkerOf
  DEF ConsumeChallenge, Idle, ReqType, ChallengesOK, NewUnused, NewApart, ReadNew,
      SpentNew, PendingUnused, PastChallenge, Same, Reads, Typed, TypeOK, Numbers, resetNotes,
      redisKeys, Fits, Good
<1> QED BY <1>4, <1>5, <1>6, <1>7, <1>8 DEF ChallengesOK

LEMMA ChallengeChallenges ==
  ASSUME Typed, ChallengesOK, NEW r \in Workers, Challenge(r)
  PROVE  ChallengesOK'
<1> DEFINE q == [Idle EXCEPT !.op = "challenge", !.pc = "store", !.read = challenges + 1]
<1>1. Typed' /\ Turned(r, q) BY ChallengeTypes
<1>2. /\ w'[r] = q /\ \A s \in Workers : s # r => Same(s)
      /\ Good(w[r]) /\ w[r] \in ReqType /\ Reads(w[r], challenges, codes)
  BY <1>1, TurnKeeps
<1>3. \A s \in Workers : s # r => PastChallenge(w'[s]) = PastChallenge(w[s])
  BY <1>2 DEF PastChallenge, Same
<1>4. NewUnused'
  BY <1>2, <1>3, Counted, WorkerOf
  DEF Challenge, Idle, Start, ReqType, ChallengesOK, NewUnused, NewApart, ReadNew,
      SpentNew, PendingUnused, PastChallenge, Same, Reads, Typed, TypeOK, Numbers, redisKeys, notes,
      Fits, Good
<1>5. NewApart'
  BY <1>2, <1>3, Counted, WorkerOf
  DEF Challenge, Idle, Start, ReqType, ChallengesOK, NewUnused, NewApart, ReadNew,
      SpentNew, PendingUnused, PastChallenge, Same, Reads, Typed, TypeOK, Numbers, redisKeys, notes,
      Fits, Good
<1>6. ReadNew'
  BY <1>2, <1>3, Counted, WorkerOf
  DEF Challenge, Idle, Start, ReqType, ChallengesOK, NewUnused, NewApart, ReadNew,
      SpentNew, PendingUnused, PastChallenge, Same, Reads, Typed, TypeOK, Numbers, redisKeys, notes,
      Fits, Good
<1>7. SpentNew'
  BY <1>2, <1>3, Counted, WorkerOf
  DEF Challenge, Idle, Start, ReqType, ChallengesOK, NewUnused, NewApart, ReadNew,
      SpentNew, PendingUnused, PastChallenge, Same, Reads, Typed, TypeOK, Numbers, redisKeys, notes,
      Fits, Good
<1>8. PendingUnused'
  BY <1>2, <1>3, Counted, WorkerOf
  DEF Challenge, Idle, Start, ReqType, ChallengesOK, NewUnused, NewApart, ReadNew,
      SpentNew, PendingUnused, PastChallenge, Same, Reads, Typed, TypeOK, Numbers, redisKeys, notes,
      Fits, Good
<1> QED BY <1>4, <1>5, <1>6, <1>7, <1>8 DEF ChallengesOK

LEMMA StoreChallengeChallenges ==
  ASSUME Typed, ChallengesOK, NEW r \in Workers, StoreChallenge(r)
  PROVE  ChallengesOK'
<1> DEFINE q == Idle
<1>1. Typed' /\ Turned(r, q) BY StoreChallengeTypes
<1>2. /\ w'[r] = q /\ \A s \in Workers : s # r => Same(s)
      /\ Good(w[r]) /\ w[r] \in ReqType /\ Reads(w[r], challenges, codes)
  BY <1>1, TurnKeeps
<1>3. \A s \in Workers : s # r => PastChallenge(w'[s]) = PastChallenge(w[s])
  BY <1>2 DEF PastChallenge, Same
<1>4. NewUnused'
  BY <1>2, <1>3, Counted, WorkerOf
  DEF StoreChallenge, Idle, ReqType, ChallengesOK, NewUnused, NewApart, ReadNew,
      SpentNew, PendingUnused, PastChallenge, Same, Reads, Typed, TypeOK, Numbers, redisKeys, notes,
      Fits, Good
<1>5. NewApart'
  BY <1>2, <1>3, Counted, WorkerOf
  DEF StoreChallenge, Idle, ReqType, ChallengesOK, NewUnused, NewApart, ReadNew,
      SpentNew, PendingUnused, PastChallenge, Same, Reads, Typed, TypeOK, Numbers, redisKeys, notes,
      Fits, Good
<1>6. ReadNew'
  BY <1>2, <1>3, Counted, WorkerOf
  DEF StoreChallenge, Idle, ReqType, ChallengesOK, NewUnused, NewApart, ReadNew,
      SpentNew, PendingUnused, PastChallenge, Same, Reads, Typed, TypeOK, Numbers, redisKeys, notes,
      Fits, Good
<1>7. SpentNew'
  BY <1>2, <1>3, Counted, WorkerOf
  DEF StoreChallenge, Idle, ReqType, ChallengesOK, NewUnused, NewApart, ReadNew,
      SpentNew, PendingUnused, PastChallenge, Same, Reads, Typed, TypeOK, Numbers, redisKeys, notes,
      Fits, Good
<1>8. PendingUnused'
  BY <1>2, <1>3, Counted, WorkerOf
  DEF StoreChallenge, Idle, ReqType, ChallengesOK, NewUnused, NewApart, ReadNew,
      SpentNew, PendingUnused, PastChallenge, Same, Reads, Typed, TypeOK, Numbers, redisKeys, notes,
      Fits, Good
<1> QED BY <1>4, <1>5, <1>6, <1>7, <1>8 DEF ChallengesOK

-----------------------------------------------------------------------------
(* The lock holds.  A request past the check counts one more wrong PIN.    *)

Bumpers == {r \in Workers : w[r].pc = "bump"}
LockOK == row.counter + Cardinality(Bumpers) <= MaxPinTries + Cardinality(Workers) - 1

LEMMA SomeWorkers ==
  ASSUME NEW P \in SUBSET Workers
  PROVE  /\ IsFiniteSet(P) /\ Cardinality(P) \in Nat /\ Cardinality(Workers) \in Nat
         /\ Cardinality(P) <= Cardinality(Workers)
         /\ P # Workers => Cardinality(P) < Cardinality(Workers)
BY CredentialsAssumption, FS_Subset, FS_CardinalityType

LEMMA FewerWorkers ==
  ASSUME NEW P \in SUBSET Workers, NEW Q \in SUBSET P
  PROVE  Cardinality(Q) <= Cardinality(P)
BY SomeWorkers, FS_Subset

LEMMA OneLess ==
  ASSUME NEW P \in SUBSET Workers, NEW r \in P
  PROVE  Cardinality(P \ {r}) = Cardinality(P) - 1
BY SomeWorkers, FS_RemoveElement

LEMMA OneMore ==
  ASSUME NEW P \in SUBSET Workers, NEW r \in Workers
  PROVE  Cardinality(P \cup {r}) <= Cardinality(P) + 1
BY SomeWorkers, FS_AddElement

LEMMA LockQuiet ==
  ASSUME Typed, Typed', LockOK, row'.counter <= row.counter,
         \A s \in Workers : w'[s].pc = "bump" => w[s].pc = "bump"
  PROVE  LockOK'
<1>1. Bumpers \in SUBSET Workers /\ Bumpers' \in SUBSET Bumpers BY DEF Bumpers
<1>2. Cardinality(Bumpers') <= Cardinality(Bumpers) BY <1>1, FewerWorkers
<1>3. /\ Cardinality(Bumpers) \in Nat /\ Cardinality(Bumpers') \in Nat
      /\ Cardinality(Workers) \in Nat
  BY <1>1, SomeWorkers
<1>4. row.counter \in Nat /\ row'.counter \in Nat BY Counted DEF Typed, TypeOK
<1> QED BY <1>2, <1>3, <1>4, CredentialsAssumption DEF LockOK

LEMMA CheckPinLock ==
  ASSUME Typed, LockOK, NEW r \in Workers, CheckPin(r)
  PROVE  LockOK'
<1> DEFINE q == IF ~row.here \/ row.counter >= MaxPinTries \/ row.pin = None THEN Idle
              ELSE [w[r] EXCEPT !.pc = IF row.pin # w[r].pin THEN "bump" ELSE "clear"]
<1>1. Typed' /\ Turned(r, q) BY CheckPinTypes
<1>2. /\ w'[r] = q /\ \A s \in Workers : s # r => Same(s)
      /\ Good(w[r]) /\ w[r] \in ReqType
  BY <1>1, TurnKeeps
<1>3. row' = row BY DEF CheckPin
<1>4. CASE row.counter >= MaxPinTries
  <2>1. w'[r].pc = "idle" BY <1>2, <1>4, IdleFits
  <2> QED BY <1>1, <1>2, <1>3, <2>1, LockQuiet, Counted DEF Same
<1>5. CASE ~(row.counter >= MaxPinTries)
  <2>1. Bumpers' \in SUBSET Workers BY DEF Bumpers
  <2>2. /\ Cardinality(Bumpers') <= Cardinality(Workers) /\ Cardinality(Bumpers') \in Nat
        /\ Cardinality(Workers) \in Nat
    BY <2>1, SomeWorkers
  <2> QED BY <2>2, <1>3, <1>5, Counted, CredentialsAssumption DEF LockOK
<1> QED BY <1>4, <1>5

LEMMA CountWrongPinLock ==
  ASSUME Typed, LockOK, NEW r \in Workers, CountWrongPin(r)
  PROVE  LockOK'
<1>1. Typed' /\ Turned(r, Idle) BY CountWrongPinTypes
<1>2. w'[r] = Idle /\ \A s \in Workers : s # r => Same(s) BY <1>1, TurnKeeps
<1>3. Bumpers' = Bumpers \ {r} BY <1>2, IdleFits DEF Bumpers, Same
<1>4. r \in Bumpers /\ Bumpers \in SUBSET Workers BY DEF Bumpers, CountWrongPin
<1>5. Cardinality(Bumpers') = Cardinality(Bumpers) - 1 BY <1>3, <1>4, OneLess
<1>6. row'.counter \in {row.counter, row.counter + 1}
  BY DEF CountWrongPin, Typed, TypeOK
<1>7. Cardinality(Bumpers) \in Nat /\ Cardinality(Workers) \in Nat BY <1>4, SomeWorkers
<1> QED BY <1>5, <1>6, <1>7, Counted, CredentialsAssumption DEF LockOK

-----------------------------------------------------------------------------
(* The budget of a code.  While there is a code, what was compared and     *)
(* what is about to be was counted, but for those before the budget.       *)

Guessers == {r \in Workers : w[r].pc = "get"}
Taken == Min2(IF attempts = -1 THEN 0 ELSE attempts, MaxCodeAttempts)
\* The budget an expired counter may have given already.
Spare == IF ttl = "none" THEN MaxCodeAttempts ELSE 0
BudgetOK ==
  /\ guesses <= MaxCodeAttempts + Spare + Cardinality(Workers) - 1
  /\ code # None => guesses + Cardinality(Guessers) <= Taken + Spare + Cardinality(Workers) - 1

LEMMA GuessersCounted ==
  /\ Guessers \in SUBSET Workers /\ Cardinality(Guessers) \in Nat /\ Cardinality(Workers) \in Nat
  /\ Cardinality(Guessers) <= Cardinality(Workers)
<1>1. Guessers \in SUBSET Workers BY DEF Guessers
<1> QED BY <1>1, SomeWorkers

LEMMA TakenBounded ==
  Typed => Taken \in Nat /\ Taken <= MaxCodeAttempts /\ guesses \in Nat /\ MaxCodeAttempts >= 1
           /\ Spare \in {0, MaxCodeAttempts} /\ MaxCodeAttempts \in Nat
BY CredentialsAssumption DEF Typed, TypeOK, Taken, Spare, Min2

LEMMA BudgetQuiet ==
  ASSUME Typed, Typed', BudgetOK, guesses' = guesses, ttl' \in {ttl, "none"},
         code' = None \/ (code' = code /\ attempts' = attempts /\ ttl' = ttl),
         \A s \in Workers : w'[s].pc = "get" => w[s].pc = "get"
  PROVE  BudgetOK'
<1>1. Guessers' \in SUBSET Guessers BY DEF Guessers
<1>2. Cardinality(Guessers') <= Cardinality(Guessers) /\ Cardinality(Guessers') \in Nat
  BY <1>1, GuessersCounted, FewerWorkers, SomeWorkers
<1>3. attempts' = attempts => Taken' = Taken BY DEF Taken, Min2
<1>4. /\ ttl' = ttl => Spare' = Spare
      /\ Spare' \in Nat /\ Spare \in Nat /\ Spare' >= Spare
  BY TakenBounded DEF Spare
<1> QED BY <1>2, <1>3, <1>4, GuessersCounted, TakenBounded DEF BudgetOK

\* The attempts expire: what was counted may be counted again.
LEMMA BudgetExpired ==
  ASSUME Typed, Typed', BudgetOK, guesses' = guesses, w' = w, ttl # "none", ttl' = "none"
  PROVE  code' = code => BudgetOK'
<1>1. Guessers' = Guessers BY DEF Guessers
<1>2. Spare' = MaxCodeAttempts /\ Spare = 0 BY DEF Spare
<1>3. Taken' \in Nat BY TakenBounded, CredentialsAssumption DEF Typed, TypeOK, Taken, Min2
<1> QED BY <1>1, <1>2, <1>3, GuessersCounted, TakenBounded DEF BudgetOK

LEMMA BudgetAnew ==
  ASSUME Typed, Typed', guesses' = 0, NEW r \in Workers, w'[r].pc # "get"
  PROVE  BudgetOK'
<1>1. Guessers' \in SUBSET Workers /\ Guessers' # Workers BY DEF Guessers
<1>2. /\ Cardinality(Guessers') \in Nat /\ Cardinality(Workers) \in Nat
      /\ Cardinality(Guessers') < Cardinality(Workers)
  BY <1>1, SomeWorkers
<1>3. Taken' \in Nat BY TakenBounded, CredentialsAssumption DEF Typed, TypeOK, Taken, Min2
<1>4. Spare' \in Nat BY TakenBounded DEF Spare
<1> QED BY <1>2, <1>3, <1>4, TakenBounded, Counted DEF BudgetOK

LEMMA CountAttemptBudget ==
  ASSUME Typed, BudgetOK, NEW r \in Workers, CountAttempt(r)
  PROVE  BudgetOK'
<1> DEFINE n == (IF attempts = -1 THEN 0 ELSE attempts) + 1
           q == [w[r] EXCEPT !.pc = IF n > MaxCodeAttempts THEN "burn" ELSE "get"]
<1>1. Typed' /\ Turned(r, q) BY CountAttemptTypes
<1>2. w'[r] = q /\ (\A s \in Workers : s # r => Same(s)) /\ w[r] \in ReqType
  BY <1>1, TurnKeeps
<1>3. code' = code /\ guesses' = guesses /\ attempts' = Min2(n, MaxCodeAttempts + 1)
      /\ w[r].pc = "count" /\ Spare' = Spare
  BY DEF CountAttempt, Spare
<1>4. n \in Nat /\ n >= 1 /\ Taken = Min2(n - 1, MaxCodeAttempts)
      /\ Taken' = Min2(n, MaxCodeAttempts)
  BY <1>3, CredentialsAssumption DEF Typed, TypeOK, Taken, Min2
<1>5. CASE n > MaxCodeAttempts
  <2>1. w'[r].pc = "burn" BY <1>2, <1>5 DEF ReqType
  <2>2. Guessers' \in SUBSET Guessers BY <2>1, <1>2 DEF Guessers, Same
  <2>3. Cardinality(Guessers') <= Cardinality(Guessers) /\ Cardinality(Guessers') \in Nat
    BY <2>2, GuessersCounted, FewerWorkers, SomeWorkers
  <2>4. Taken' = Taken BY <1>4, <1>5, TakenBounded, CredentialsAssumption DEF Min2
  <2> QED BY <2>3, <2>4, <1>3, GuessersCounted, TakenBounded DEF BudgetOK
<1>6. CASE ~(n > MaxCodeAttempts)
  <2>1. w'[r].pc = "get" BY <1>2, <1>6 DEF ReqType
  <2>2. Guessers' = Guessers \cup {r} BY <2>1, <1>2 DEF Guessers, Same
  <2>3. Cardinality(Guessers') <= Cardinality(Guessers) + 1 /\ Cardinality(Guessers') \in Nat
    BY <2>2, GuessersCounted, OneMore, SomeWorkers
  <2>4. Taken' = Taken + 1 BY <1>4, <1>6, TakenBounded, CredentialsAssumption DEF Min2
  <2> QED BY <2>3, <2>4, <1>3, GuessersCounted, TakenBounded DEF BudgetOK
<1> QED BY <1>5, <1>6

LEMMA CompareCodeBudget ==
  ASSUME Typed, BudgetOK, NEW r \in Workers, CompareCode(r)
  PROVE  BudgetOK'
<1> DEFINE q == IF code # None /\ code = w[r].read
              THEN [w[r] EXCEPT !.pc = "redeem", !.born = redeemed] ELSE Idle
<1>1. Typed' /\ Turned(r, q) BY CompareCodeTypes
<1>2. w'[r] = q /\ (\A s \in Workers : s # r => Same(s)) /\ w[r] \in ReqType
  BY <1>1, TurnKeeps
<1>3. code' = code /\ attempts' = attempts /\ w[r].pc = "get"
      /\ guesses' = IF code = None THEN guesses ELSE guesses + 1
  BY DEF CompareCode, redisKeys
<1>4. w'[r].pc # "get" BY <1>2, IdleFits DEF ReqType
<1>5. Guessers' = Guessers \ {r} /\ r \in Guessers BY <1>2, <1>3, <1>4 DEF Guessers, Same
<1>6. Cardinality(Guessers') = Cardinality(Guessers) - 1
  BY <1>5, GuessersCounted, OneLess
<1>7. Taken' = Taken /\ Spare' = Spare BY <1>3 DEF CompareCode, redisKeys, Taken, Spare, Min2
<1>8. Cardinality(Guessers) - 1 >= 0
  BY <1>5, <1>6, GuessersCounted, SomeWorkers
<1>9. guesses' <= MaxCodeAttempts + Spare' + Cardinality(Workers) - 1
  BY <1>3, <1>7, <1>8, GuessersCounted, TakenBounded, Counted DEF BudgetOK
<1>10. code' # None => guesses' + Cardinality(Guessers') <= Taken' + Spare' + Cardinality(Workers) - 1
  BY <1>3, <1>6, <1>7, GuessersCounted, TakenBounded, Counted DEF BudgetOK
<1> QED BY <1>9, <1>10 DEF BudgetOK

-----------------------------------------------------------------------------
(* The mailed code works.  A request for a code is alone as long as it is  *)
(* marked so, and its code is the one stored.                              *)

CleanOK ==
  \A r \in Workers : w[r].clean =>
    /\ w[r].pc = "budget" /\ w[r].read = code
    /\ \A s \in Workers : w[s].op \notin {"confirm", "delete"} /\ (s # r => w[s].op # "reset")

MailedOK ==
  mailed # None => code = mailed /\ attempts \in 0..MaxCodeAttempts /\ ttl = "code"
                   /\ \A s \in Workers : w[s].pc # "burn"

LEMMA CleanQuiet ==
  ASSUME CleanOK, code' = code,
         \A s \in Workers : w'[s].clean => w[s].clean /\ w'[s].pc = w[s].pc
                                           /\ w'[s].read = w[s].read,
         \A s \in Workers : w'[s].op \in {"reset", "confirm", "delete"} => w'[s].op = w[s].op
  PROVE  CleanOK'
BY DEF CleanOK

LEMMA NoneClean == ASSUME \A s \in Workers : ~w'[s].clean PROVE CleanOK'
BY DEF CleanOK

LEMMA MailedQuiet ==
  ASSUME MailedOK,
         \/ mailed' = None
         \/ /\ mailed' = mailed /\ code' = code /\ attempts' = attempts /\ ttl' = ttl
            /\ \A s \in Workers : w'[s].pc = "burn" => w[s].pc = "burn"
  PROVE  MailedOK'
BY DEF MailedOK

-----------------------------------------------------------------------------
(* Nothing of a reset outlives the account.  While no reset nor            *)
(* confirmation runs beside a deletion, the keys are gone from its first   *)
(* command on.                                                             *)

Clear == code = None /\ attempts = -1 /\ cooldown = FALSE
LeftOK ==
  ~stray =>
    /\ \A r, s \in Workers : w[r].op = "delete" => w[s].op \notin {"reset", "confirm"}
    /\ \A r \in Workers : w[r].pc = "row" => Clear
    /\ ~row.here => Clear /\ \A s \in Workers : w[s].op \notin {"reset", "confirm"}

LEMMA LeftQuiet ==
  ASSUME LeftOK, stray' = stray, row'.here = row.here,
         Clear => Clear',
         \A s \in Workers : w'[s].op \in {"reset", "confirm", "delete"} => w'[s].op = w[s].op,
         \A s \in Workers : w'[s].pc = "row" => w[s].pc = "row"
  PROVE  LeftOK'
BY DEF LeftOK

\* A reset or a confirmation goes on: the account is there and stays.
LEMMA LeftApart ==
  ASSUME LeftOK, NEW r \in Workers, w[r].op \in {"reset", "confirm"}, Typed,
         stray' = stray, row'.here = row.here,
         \A s \in Workers : w'[s].op \in {"reset", "confirm", "delete"} => w'[s].op = w[s].op,
         \A s \in Workers : w'[s].pc = "row" => w[s].pc = "row"
  PROVE  LeftOK'
<1>1. \A s \in Workers : w[s].pc = "row" => w[s].op = "delete"
  BY WorkerOf DEF Good, Fits
<1> QED BY <1>1 DEF LeftOK

-----------------------------------------------------------------------------
(* The inductive invariant, action by action.                              *)

IInv == Typed /\ CodesOK /\ ChallengesOK /\ LockOK /\ BudgetOK /\ CleanOK /\ MailedOK /\ LeftOK

LEMMA LoginSteps ==
  ASSUME IInv, NEW r \in Workers, Login(r)
  PROVE  IInv'
<1> DEFINE q == [Idle EXCEPT !.op = "login", !.pc = "zero"]
<1>1. Typed' /\ Turned(r, q) BY LoginTypes DEF IInv
<1>2. /\ w'[r] = q /\ \A s \in Workers : s # r => Same(s)
      /\ Good(w[r]) /\ w[r] \in ReqType /\ Reads(w[r], challenges, codes)
  BY <1>1, TurnKeeps DEF IInv
<1>3. w'[r].pc = "zero" /\ w'[r].op = "login" /\ ~w'[r].clean BY <1>2 DEF Idle
<1> HIDE DEF q
<1>4. CodesOK'
  BY <1>1, <1>2, <1>3, CodesQuiet DEF Login, CodePcs, Same, IInv, redisKeys, notes
<1>5. ChallengesOK'
  BY <1>1, <1>2, <1>3, ChallengesQuiet DEF Login, ChallengePcs, Same, IInv, redisKeys, notes
<1>6. LockOK'
  <2>1. row'.counter <= row.counter BY Counted DEF Login, IInv, Typed, TypeOK
  <2> QED BY <2>1, <1>1, <1>2, <1>3, LockQuiet DEF Login, Same, IInv
<1>7. BudgetOK'
  BY <1>1, <1>2, <1>3, BudgetQuiet DEF Login, Same, IInv, redisKeys, notes
<1>8. CleanOK'
  BY <1>1, <1>2, <1>3, CleanQuiet DEF Login, CleanOK, Same, IInv, redisKeys, notes
<1>9. MailedOK'
  BY <1>1, <1>2, <1>3, MailedQuiet DEF Login, Same, IInv, redisKeys, notes
<1>10. LeftOK'
  <2>1. row'.here = row.here /\ stray' = stray /\ (Clear => Clear')
    BY DEF Login, Clear, IInv, Typed, TypeOK, redisKeys, notes
  <2> QED BY <2>1, <1>1, <1>2, <1>3, LeftQuiet DEF Same, IInv
<1> QED BY <1>1, <1>4, <1>5, <1>6, <1>7, <1>8, <1>9, <1>10 DEF IInv

LEMMA ResetPinCounterSteps ==
  ASSUME IInv, NEW r \in Workers, ResetPinCounter(r)
  PROVE  IInv'
<1> DEFINE q == Idle
<1>1. Typed' /\ Turned(r, q) BY ResetPinCounterTypes DEF IInv
<1>2. /\ w'[r] = q /\ \A s \in Workers : s # r => Same(s)
      /\ Good(w[r]) /\ w[r] \in ReqType /\ Reads(w[r], challenges, codes)
  BY <1>1, TurnKeeps DEF IInv
<1>3. w[r].pc = "zero" BY DEF ResetPinCounter
<1>4. /\ w'[r].pc \in {"idle"} /\ w'[r].op \in {w[r].op, "none"}
      /\ (w'[r].clean => w[r].clean /\ w'[r].pc # "idle")
  BY <1>2, IdleFits DEF ReqType, Idle
<1>5. ~w'[r].clean BY <1>3, <1>4 DEF CleanOK, IInv
<1> HIDE DEF q
<1>6. CodesOK'
  BY <1>1, <1>2, <1>3, <1>4, <1>5, CodesQuiet
      DEF ResetPinCounter, CodePcs, Same, IInv, redisKeys, notes
<1>7. ChallengesOK'
  BY <1>1, <1>2, <1>3, <1>4, <1>5, ChallengesQuiet
      DEF ResetPinCounter, ChallengePcs, Same, IInv, redisKeys, notes
<1>8. LockOK'
  <2>1. row'.counter <= row.counter BY Counted DEF ResetPinCounter, IInv, Typed, TypeOK
  <2> QED BY <2>1, <1>1, <1>2, <1>3, <1>4, <1>5, LockQuiet DEF ResetPinCounter, Same, IInv
<1>9. BudgetOK'
  BY <1>1, <1>2, <1>3, <1>4, <1>5, BudgetQuiet
      DEF ResetPinCounter, Same, IInv, redisKeys, notes
<1>10. CleanOK'
  BY <1>1, <1>2, <1>3, <1>4, <1>5, CleanQuiet
      DEF ResetPinCounter, CleanOK, Same, IInv, redisKeys, notes
<1>11. MailedOK'
  BY <1>1, <1>2, <1>3, <1>4, <1>5, MailedQuiet
      DEF ResetPinCounter, Same, IInv, redisKeys, notes
<1>12. LeftOK'
  <2>1. row'.here = row.here /\ stray' = stray /\ (Clear => Clear')
    BY DEF ResetPinCounter, Clear, IInv, Typed, TypeOK, redisKeys, notes
  <2> QED BY <2>1, <1>1, <1>2, <1>3, <1>4, <1>5, LeftQuiet DEF Same, IInv
<1> QED BY <1>1, <1>6, <1>7, <1>8, <1>9, <1>10, <1>11, <1>12 DEF IInv

LEMMA RefreshSteps ==
  ASSUME IInv, NEW r \in Workers, NEW pin \in Pins \cup {None}, NEW sig \in 1..challenges,
  Refresh(r, pin, sig)
  PROVE  IInv'
<1> DEFINE q == [Idle EXCEPT !.op = "refresh", !.pc = "key", !.pin = pin, !.sig = sig]
<1>1. Typed' /\ Turned(r, q) BY RefreshTypes DEF IInv
<1>2. /\ w'[r] = q /\ \A s \in Workers : s # r => Same(s)
      /\ Good(w[r]) /\ w[r] \in ReqType /\ Reads(w[r], challenges, codes)
  BY <1>1, TurnKeeps DEF IInv
<1>3. w'[r].pc = "key" /\ w'[r].op = "refresh" /\ ~w'[r].clean BY <1>2 DEF Idle
<1> HIDE DEF q
<1>4. CodesOK'
  BY <1>1, <1>2, <1>3, CodesQuiet DEF Refresh, CodePcs, Same, IInv, redisKeys, notes
<1>5. ChallengesOK'
  BY <1>1, <1>2, <1>3, ChallengesQuiet DEF Refresh, ChallengePcs, Same, IInv, redisKeys, notes
<1>6. LockOK'
  <2>1. row'.counter <= row.counter BY Counted DEF Refresh, IInv, Typed, TypeOK
  <2> QED BY <2>1, <1>1, <1>2, <1>3, LockQuiet DEF Refresh, Same, IInv
<1>7. BudgetOK'
  BY <1>1, <1>2, <1>3, BudgetQuiet DEF Refresh, Same, IInv, redisKeys, notes
<1>8. CleanOK'
  BY <1>1, <1>2, <1>3, CleanQuiet DEF Refresh, CleanOK, Same, IInv, redisKeys, notes
<1>9. MailedOK'
  BY <1>1, <1>2, <1>3, MailedQuiet DEF Refresh, Same, IInv, redisKeys, notes
<1>10. LeftOK'
  <2>1. row'.here = row.here /\ stray' = stray /\ (Clear => Clear')
    BY DEF Refresh, Clear, IInv, Typed, TypeOK, redisKeys, notes
  <2> QED BY <2>1, <1>1, <1>2, <1>3, LeftQuiet DEF Same, IInv
<1> QED BY <1>1, <1>4, <1>5, <1>6, <1>7, <1>8, <1>9, <1>10 DEF IInv

LEMMA ReadChallengeSteps ==
  ASSUME IInv, NEW r \in Workers, ReadChallenge(r)
  PROVE  IInv'
<1> DEFINE q == IF row.here /\ row.pkey /\ row.challenge # None
              THEN [w[r] EXCEPT !.pc = "consume", !.read = row.challenge, !.born = used] ELSE Idle
<1>1. Typed' /\ Turned(r, q) BY ReadChallengeTypes DEF IInv
<1>2. /\ w'[r] = q /\ \A s \in Workers : s # r => Same(s)
      /\ Good(w[r]) /\ w[r] \in ReqType /\ Reads(w[r], challenges, codes)
  BY <1>1, TurnKeeps DEF IInv
<1>3. w[r].pc = "key" BY DEF ReadChallenge
<1>4. /\ w'[r].pc \in {"consume", "idle"} /\ w'[r].op \in {w[r].op, "none"}
      /\ (w'[r].clean => w[r].clean /\ w'[r].pc # "idle")
  BY <1>2, IdleFits DEF ReqType, Idle
<1>5. ~w'[r].clean BY <1>3, <1>4 DEF CleanOK, IInv
<1> HIDE DEF q
<1>6. CodesOK'
  BY <1>1, <1>2, <1>3, <1>4, <1>5, CodesQuiet
      DEF ReadChallenge, CodePcs, Same, IInv, redisKeys, notes
<1>7. ChallengesOK' BY ReadChallengeChallenges DEF IInv
<1>8. LockOK'
  <2>1. row'.counter <= row.counter BY Counted DEF ReadChallenge, IInv, Typed, TypeOK
  <2> QED BY <2>1, <1>1, <1>2, <1>3, <1>4, <1>5, LockQuiet DEF ReadChallenge, Same, IInv
<1>9. BudgetOK'
  BY <1>1, <1>2, <1>3, <1>4, <1>5, BudgetQuiet
      DEF ReadChallenge, Same, IInv, redisKeys, notes
<1>10. CleanOK'
  BY <1>1, <1>2, <1>3, <1>4, <1>5, CleanQuiet
      DEF ReadChallenge, CleanOK, Same, IInv, redisKeys, notes
<1>11. MailedOK'
  BY <1>1, <1>2, <1>3, <1>4, <1>5, MailedQuiet
      DEF ReadChallenge, Same, IInv, redisKeys, notes
<1>12. LeftOK'
  <2>1. row'.here = row.here /\ stray' = stray /\ (Clear => Clear')
    BY DEF ReadChallenge, Clear, IInv, Typed, TypeOK, redisKeys, notes
  <2> QED BY <2>1, <1>1, <1>2, <1>3, <1>4, <1>5, LeftQuiet DEF Same, IInv
<1> QED BY <1>1, <1>6, <1>7, <1>8, <1>9, <1>10, <1>11, <1>12 DEF IInv

LEMMA ConsumeChallengeSteps ==
  ASSUME IInv, NEW r \in Workers, ConsumeChallenge(r)
  PROVE  IInv'
<1> DEFINE q == IF w[r].sig = w[r].read
              THEN [w[r] EXCEPT !.pc = IF w[r].pin = None THEN "rotate" ELSE "pin"] ELSE Idle
<1>1. Typed' /\ Turned(r, q) BY ConsumeChallengeTypes DEF IInv
<1>2. /\ w'[r] = q /\ \A s \in Workers : s # r => Same(s)
      /\ Good(w[r]) /\ w[r] \in ReqType /\ Reads(w[r], challenges, codes)
  BY <1>1, TurnKeeps DEF IInv
<1>3. w[r].pc = "consume" BY DEF ConsumeChallenge
<1>4. /\ w'[r].pc \in {"pin", "rotate", "idle"} /\ w'[r].op \in {w[r].op, "none"}
      /\ (w'[r].clean => w[r].clean /\ w'[r].pc # "idle")
  BY <1>2, IdleFits DEF ReqType, Idle
<1>5. ~w'[r].clean BY <1>3, <1>4 DEF CleanOK, IInv
<1> HIDE DEF q
<1>6. CodesOK'
  BY <1>1, <1>2, <1>3, <1>4, <1>5, CodesQuiet
      DEF ConsumeChallenge, CodePcs, Same, IInv, redisKeys, resetNotes
<1>7. ChallengesOK' BY ConsumeChallengeChallenges DEF IInv
<1>8. LockOK'
  <2>1. row'.counter <= row.counter BY Counted DEF ConsumeChallenge, IInv, Typed, TypeOK
  <2> QED BY <2>1, <1>1, <1>2, <1>3, <1>4, <1>5, LockQuiet DEF ConsumeChallenge, Same, IInv
<1>9. BudgetOK'
  BY <1>1, <1>2, <1>3, <1>4, <1>5, BudgetQuiet
      DEF ConsumeChallenge, Same, IInv, redisKeys, resetNotes
<1>10. CleanOK'
  BY <1>1, <1>2, <1>3, <1>4, <1>5, CleanQuiet
      DEF ConsumeChallenge, CleanOK, Same, IInv, redisKeys, resetNotes
<1>11. MailedOK'
  BY <1>1, <1>2, <1>3, <1>4, <1>5, MailedQuiet
      DEF ConsumeChallenge, Same, IInv, redisKeys, resetNotes
<1>12. LeftOK'
  <2>1. row'.here = row.here /\ stray' = stray /\ (Clear => Clear')
    BY DEF ConsumeChallenge, Clear, IInv, Typed, TypeOK, redisKeys, resetNotes
  <2> QED BY <2>1, <1>1, <1>2, <1>3, <1>4, <1>5, LeftQuiet DEF Same, IInv
<1> QED BY <1>1, <1>6, <1>7, <1>8, <1>9, <1>10, <1>11, <1>12 DEF IInv

LEMMA CheckPinSteps ==
  ASSUME IInv, NEW r \in Workers, CheckPin(r)
  PROVE  IInv'
<1> DEFINE q == IF ~row.here \/ row.counter >= MaxPinTries \/ row.pin = None THEN Idle
              ELSE [w[r] EXCEPT !.pc = IF row.pin # w[r].pin THEN "bump" ELSE "clear"]
<1>1. Typed' /\ Turned(r, q) BY CheckPinTypes DEF IInv
<1>2. /\ w'[r] = q /\ \A s \in Workers : s # r => Same(s)
      /\ Good(w[r]) /\ w[r] \in ReqType /\ Reads(w[r], challenges, codes)
  BY <1>1, TurnKeeps DEF IInv
<1>3. w[r].pc = "pin" BY DEF CheckPin
<1>4. /\ w'[r].pc \in {"bump", "clear", "idle"} /\ w'[r].op \in {w[r].op, "none"}
      /\ (w'[r].clean => w[r].clean /\ w'[r].pc # "idle")
  BY <1>2, IdleFits DEF ReqType, Idle
<1>5. ~w'[r].clean BY <1>3, <1>4 DEF CleanOK, IInv
<1> HIDE DEF q
<1>6. CodesOK'
  BY <1>1, <1>2, <1>3, <1>4, <1>5, CodesQuiet
      DEF CheckPin, CodePcs, Same, IInv, redisKeys, notes
<1>7. ChallengesOK'
  <2>1. w'[r].pc # "idle" => Onward(r)
    BY <1>2, <1>3, <1>4 DEF q, Onward, PastChallenge, ReqType, Idle
  <2>2. row'.challenge = row.challenge /\ used' = used
    BY DEF CheckPin, notes, IInv, Typed, TypeOK
  <2> QED BY <2>1, <2>2, <1>1, <1>2, ChallengesQuiet DEF ChallengePcs, IInv
<1>8. LockOK' BY CheckPinLock DEF IInv
<1>9. BudgetOK'
  BY <1>1, <1>2, <1>3, <1>4, <1>5, BudgetQuiet DEF CheckPin, Same, IInv, redisKeys, notes
<1>10. CleanOK'
  BY <1>1, <1>2, <1>3, <1>4, <1>5, CleanQuiet
      DEF CheckPin, CleanOK, Same, IInv, redisKeys, notes
<1>11. MailedOK'
  BY <1>1, <1>2, <1>3, <1>4, <1>5, MailedQuiet DEF CheckPin, Same, IInv, redisKeys, notes
<1>12. LeftOK'
  <2>1. row'.here = row.here /\ stray' = stray /\ (Clear => Clear')
    BY DEF CheckPin, Clear, IInv, Typed, TypeOK, redisKeys, notes
  <2> QED BY <2>1, <1>1, <1>2, <1>3, <1>4, <1>5, LeftQuiet DEF Same, IInv
<1> QED BY <1>1, <1>6, <1>7, <1>8, <1>9, <1>10, <1>11, <1>12 DEF IInv

LEMMA CountWrongPinSteps ==
  ASSUME IInv, NEW r \in Workers, CountWrongPin(r)
  PROVE  IInv'
<1> DEFINE q == Idle
<1>1. Typed' /\ Turned(r, q) BY CountWrongPinTypes DEF IInv
<1>2. /\ w'[r] = q /\ \A s \in Workers : s # r => Same(s)
      /\ Good(w[r]) /\ w[r] \in ReqType /\ Reads(w[r], challenges, codes)
  BY <1>1, TurnKeeps DEF IInv
<1>3. w[r].pc = "bump" BY DEF CountWrongPin
<1>4. /\ w'[r].pc \in {"idle"} /\ w'[r].op \in {w[r].op, "none"}
      /\ (w'[r].clean => w[r].clean /\ w'[r].pc # "idle")
  BY <1>2, IdleFits DEF ReqType, Idle
<1>5. ~w'[r].clean BY <1>3, <1>4 DEF CleanOK, IInv
<1> HIDE DEF q
<1>6. CodesOK'
  BY <1>1, <1>2, <1>3, <1>4, <1>5, CodesQuiet
      DEF CountWrongPin, CodePcs, Same, IInv, redisKeys, notes
<1>7. ChallengesOK'
  BY <1>1, <1>2, <1>3, <1>4, <1>5, ChallengesQuiet
      DEF CountWrongPin, ChallengePcs, Same, IInv, redisKeys, notes
<1>8. LockOK' BY CountWrongPinLock DEF IInv
<1>9. BudgetOK'
  BY <1>1, <1>2, <1>3, <1>4, <1>5, BudgetQuiet
      DEF CountWrongPin, Same, IInv, redisKeys, notes
<1>10. CleanOK'
  BY <1>1, <1>2, <1>3, <1>4, <1>5, CleanQuiet
      DEF CountWrongPin, CleanOK, Same, IInv, redisKeys, notes
<1>11. MailedOK'
  BY <1>1, <1>2, <1>3, <1>4, <1>5, MailedQuiet
      DEF CountWrongPin, Same, IInv, redisKeys, notes
<1>12. LeftOK'
  <2>1. row'.here = row.here /\ stray' = stray /\ (Clear => Clear')
    BY DEF CountWrongPin, Clear, IInv, Typed, TypeOK, redisKeys, notes
  <2> QED BY <2>1, <1>1, <1>2, <1>3, <1>4, <1>5, LeftQuiet DEF Same, IInv
<1> QED BY <1>1, <1>6, <1>7, <1>8, <1>9, <1>10, <1>11, <1>12 DEF IInv

LEMMA ClearPinCounterSteps ==
  ASSUME IInv, NEW r \in Workers, ClearPinCounter(r)
  PROVE  IInv'
<1> DEFINE q == [w[r] EXCEPT !.pc = "rotate"]
<1>1. Typed' /\ Turned(r, q) BY ClearPinCounterTypes DEF IInv
<1>2. /\ w'[r] = q /\ \A s \in Workers : s # r => Same(s)
      /\ Good(w[r]) /\ w[r] \in ReqType /\ Reads(w[r], challenges, codes)
  BY <1>1, TurnKeeps DEF IInv
<1>3. w[r].pc = "clear" BY DEF ClearPinCounter
<1>4. /\ w'[r].pc \in {"rotate"} /\ w'[r].op \in {w[r].op, "none"}
      /\ (w'[r].clean => w[r].clean /\ w'[r].pc # "idle")
  BY <1>2, IdleFits DEF ReqType, Idle
<1>5. ~w'[r].clean BY <1>3, <1>4 DEF CleanOK, IInv
<1> HIDE DEF q
<1>6. CodesOK'
  BY <1>1, <1>2, <1>3, <1>4, <1>5, CodesQuiet
      DEF ClearPinCounter, CodePcs, Same, IInv, redisKeys, notes
<1>7. ChallengesOK'
  <2>1. w'[r].pc # "idle" => Onward(r)
    BY <1>2, <1>3, <1>4 DEF q, Onward, PastChallenge, ReqType, Idle
  <2>2. row'.challenge = row.challenge /\ used' = used
    BY DEF ClearPinCounter, notes, IInv, Typed, TypeOK
  <2> QED BY <2>1, <2>2, <1>1, <1>2, ChallengesQuiet DEF ChallengePcs, IInv
<1>8. LockOK'
  <2>1. row'.counter <= row.counter BY Counted DEF ClearPinCounter, IInv, Typed, TypeOK
  <2> QED BY <2>1, <1>1, <1>2, <1>3, <1>4, <1>5, LockQuiet DEF ClearPinCounter, Same, IInv
<1>9. BudgetOK'
  BY <1>1, <1>2, <1>3, <1>4, <1>5, BudgetQuiet
      DEF ClearPinCounter, Same, IInv, redisKeys, notes
<1>10. CleanOK'
  BY <1>1, <1>2, <1>3, <1>4, <1>5, CleanQuiet
      DEF ClearPinCounter, CleanOK, Same, IInv, redisKeys, notes
<1>11. MailedOK'
  BY <1>1, <1>2, <1>3, <1>4, <1>5, MailedQuiet
      DEF ClearPinCounter, Same, IInv, redisKeys, notes
<1>12. LeftOK'
  <2>1. row'.here = row.here /\ stray' = stray /\ (Clear => Clear')
    BY DEF ClearPinCounter, Clear, IInv, Typed, TypeOK, redisKeys, notes
  <2> QED BY <2>1, <1>1, <1>2, <1>3, <1>4, <1>5, LeftQuiet DEF Same, IInv
<1> QED BY <1>1, <1>6, <1>7, <1>8, <1>9, <1>10, <1>11, <1>12 DEF IInv

LEMMA AcceptSteps ==
  ASSUME IInv, NEW r \in Workers, Accept(r)
  PROVE  IInv'
<1> DEFINE q == Idle
<1>1. Typed' /\ Turned(r, q) BY AcceptTypes DEF IInv
<1>2. /\ w'[r] = q /\ \A s \in Workers : s # r => Same(s)
      /\ Good(w[r]) /\ w[r] \in ReqType /\ Reads(w[r], challenges, codes)
  BY <1>1, TurnKeeps DEF IInv
<1>3. w[r].pc = "rotate" BY DEF Accept
<1>4. /\ w'[r].pc \in {"idle"} /\ w'[r].op \in {w[r].op, "none"}
      /\ (w'[r].clean => w[r].clean /\ w'[r].pc # "idle")
  BY <1>2, IdleFits DEF ReqType, Idle
<1>5. ~w'[r].clean BY <1>3, <1>4 DEF CleanOK, IInv
<1> HIDE DEF q
<1>6. CodesOK'
  BY <1>1, <1>2, <1>3, <1>4, <1>5, CodesQuiet
      DEF Accept, CodePcs, Same, IInv, redisKeys, notes
<1>7. ChallengesOK'
  BY <1>1, <1>2, <1>3, <1>4, <1>5, ChallengesQuiet
      DEF Accept, ChallengePcs, Same, IInv, redisKeys, notes
<1>8. LockOK'
  <2>1. row'.counter <= row.counter BY Counted DEF Accept, IInv, Typed, TypeOK
  <2> QED BY <2>1, <1>1, <1>2, <1>3, <1>4, <1>5, LockQuiet DEF Accept, Same, IInv
<1>9. BudgetOK'
  BY <1>1, <1>2, <1>3, <1>4, <1>5, BudgetQuiet DEF Accept, Same, IInv, redisKeys, notes
<1>10. CleanOK'
  BY <1>1, <1>2, <1>3, <1>4, <1>5, CleanQuiet
      DEF Accept, CleanOK, Same, IInv, redisKeys, notes
<1>11. MailedOK'
  BY <1>1, <1>2, <1>3, <1>4, <1>5, MailedQuiet DEF Accept, Same, IInv, redisKeys, notes
<1>12. LeftOK'
  <2>1. row'.here = row.here /\ stray' = stray /\ (Clear => Clear')
    BY DEF Accept, Clear, IInv, Typed, TypeOK, redisKeys, notes
  <2> QED BY <2>1, <1>1, <1>2, <1>3, <1>4, <1>5, LeftQuiet DEF Same, IInv
<1> QED BY <1>1, <1>6, <1>7, <1>8, <1>9, <1>10, <1>11, <1>12 DEF IInv

LEMMA ChallengeSteps ==
  ASSUME IInv, NEW r \in Workers, Challenge(r)
  PROVE  IInv'
<1> DEFINE q == [Idle EXCEPT !.op = "challenge", !.pc = "store", !.read = challenges + 1]
<1>1. Typed' /\ Turned(r, q) BY ChallengeTypes DEF IInv
<1>2. /\ w'[r] = q /\ \A s \in Workers : s # r => Same(s)
      /\ Good(w[r]) /\ w[r] \in ReqType /\ Reads(w[r], challenges, codes)
  BY <1>1, TurnKeeps DEF IInv
<1>3. w'[r].pc = "store" /\ w'[r].op = "challenge" /\ ~w'[r].clean BY <1>2 DEF Idle
<1> HIDE DEF q
<1>4. CodesOK'
  BY <1>1, <1>2, <1>3, CodesQuiet DEF Challenge, CodePcs, Same, IInv, redisKeys, notes
<1>5. ChallengesOK' BY ChallengeChallenges DEF IInv
<1>6. LockOK'
  <2>1. row'.counter <= row.counter BY Counted DEF Challenge, IInv, Typed, TypeOK
  <2> QED BY <2>1, <1>1, <1>2, <1>3, LockQuiet DEF Challenge, Same, IInv
<1>7. BudgetOK'
  BY <1>1, <1>2, <1>3, BudgetQuiet DEF Challenge, Same, IInv, redisKeys, notes
<1>8. CleanOK'
  BY <1>1, <1>2, <1>3, CleanQuiet DEF Challenge, CleanOK, Same, IInv, redisKeys, notes
<1>9. MailedOK'
  BY <1>1, <1>2, <1>3, MailedQuiet DEF Challenge, Same, IInv, redisKeys, notes
<1>10. LeftOK'
  <2>1. row'.here = row.here /\ stray' = stray /\ (Clear => Clear')
    BY DEF Challenge, Clear, IInv, Typed, TypeOK, redisKeys, notes
  <2> QED BY <2>1, <1>1, <1>2, <1>3, LeftQuiet DEF Same, IInv
<1> QED BY <1>1, <1>4, <1>5, <1>6, <1>7, <1>8, <1>9, <1>10 DEF IInv

LEMMA StoreChallengeSteps ==
  ASSUME IInv, NEW r \in Workers, StoreChallenge(r)
  PROVE  IInv'
<1> DEFINE q == Idle
<1>1. Typed' /\ Turned(r, q) BY StoreChallengeTypes DEF IInv
<1>2. /\ w'[r] = q /\ \A s \in Workers : s # r => Same(s)
      /\ Good(w[r]) /\ w[r] \in ReqType /\ Reads(w[r], challenges, codes)
  BY <1>1, TurnKeeps DEF IInv
<1>3. w[r].pc = "store" BY DEF StoreChallenge
<1>4. /\ w'[r].pc \in {"idle"} /\ w'[r].op \in {w[r].op, "none"}
      /\ (w'[r].clean => w[r].clean /\ w'[r].pc # "idle")
  BY <1>2, IdleFits DEF ReqType, Idle
<1>5. ~w'[r].clean BY <1>3, <1>4 DEF CleanOK, IInv
<1> HIDE DEF q
<1>6. CodesOK'
  BY <1>1, <1>2, <1>3, <1>4, <1>5, CodesQuiet
      DEF StoreChallenge, CodePcs, Same, IInv, redisKeys, notes
<1>7. ChallengesOK' BY StoreChallengeChallenges DEF IInv
<1>8. LockOK'
  <2>1. row'.counter <= row.counter BY Counted DEF StoreChallenge, IInv, Typed, TypeOK
  <2> QED BY <2>1, <1>1, <1>2, <1>3, <1>4, <1>5, LockQuiet DEF StoreChallenge, Same, IInv
<1>9. BudgetOK'
  BY <1>1, <1>2, <1>3, <1>4, <1>5, BudgetQuiet DEF StoreChallenge, Same, IInv, redisKeys, notes
<1>10. CleanOK'
  BY <1>1, <1>2, <1>3, <1>4, <1>5, CleanQuiet
      DEF StoreChallenge, CleanOK, Same, IInv, redisKeys, notes
<1>11. MailedOK'
  BY <1>1, <1>2, <1>3, <1>4, <1>5, MailedQuiet DEF StoreChallenge, Same, IInv, redisKeys, notes
<1>12. LeftOK'
  <2>1. row'.here = row.here /\ stray' = stray /\ (Clear => Clear')
    BY DEF StoreChallenge, Clear, IInv, Typed, TypeOK, redisKeys, notes
  <2> QED BY <2>1, <1>1, <1>2, <1>3, <1>4, <1>5, LeftQuiet DEF Same, IInv
<1> QED BY <1>1, <1>6, <1>7, <1>8, <1>9, <1>10, <1>11, <1>12 DEF IInv

LEMMA ResetPasswordSteps ==
  ASSUME IInv, NEW r \in Workers, ResetPassword(r)
  PROVE  IInv'
<1> DEFINE q == [Idle EXCEPT !.op = "reset", !.pc = "cool", !.read = codes + 1]
<1>1. Typed' /\ Turned(r, q) BY ResetPasswordTypes DEF IInv
<1>2. /\ w'[r] = q /\ \A s \in Workers : s # r => Same(s)
      /\ Good(w[r]) /\ w[r] \in ReqType /\ Reads(w[r], challenges, codes)
  BY <1>1, TurnKeeps DEF IInv
<1>3. w'[r].pc = "cool" /\ w'[r].op = "reset" /\ ~w'[r].clean BY <1>2 DEF Idle
<1> HIDE DEF q
<1>4. CodesOK' BY ResetPasswordCodes DEF IInv
<1>5. ChallengesOK'
  BY <1>1, <1>2, <1>3, ChallengesQuiet DEF ResetPassword, ChallengePcs, Same, IInv, redisKeys
<1>6. LockOK'
  <2>1. row'.counter <= row.counter BY Counted DEF ResetPassword, IInv, Typed, TypeOK
  <2> QED BY <2>1, <1>1, <1>2, <1>3, LockQuiet DEF ResetPassword, Same, IInv
<1>7. BudgetOK'
  BY <1>1, <1>2, <1>3, BudgetQuiet DEF ResetPassword, Same, IInv, redisKeys
<1>8. CleanOK'
  <2>1. \A s \in Workers : ~w'[s].clean
    BY <1>2, <1>3, WorkerOf DEF ResetPassword, Start, IInv, ReqType
  <2> QED BY <2>1, NoneClean
<1>9. MailedOK'
  BY <1>1, <1>2, <1>3, MailedQuiet DEF ResetPassword, Same, IInv, redisKeys
<1>10. LeftOK'
  <2>2. \A s \in Workers : w[s].pc = "row" => w[s].op = "delete"
    BY WorkerOf DEF IInv, Good, Fits
  <2>3. Clear' = Clear /\ row' = row /\ row.here BY DEF ResetPassword, Clear, redisKeys
  <2>4. ~stray' => ~stray /\ \A s \in Workers : w[s].op \notin {"delete"}
    BY DEF ResetPassword, Running
  <2> QED BY <2>2, <2>3, <2>4, <1>2, <1>3 DEF LeftOK, Same, IInv
<1> QED BY <1>1, <1>4, <1>5, <1>6, <1>7, <1>8, <1>9, <1>10 DEF IInv

LEMMA TakeCooldownSteps ==
  ASSUME IInv, NEW r \in Workers, TakeCooldown(r)
  PROVE  IInv'
<1> DEFINE q == IF cooldown THEN Idle ELSE [w[r] EXCEPT !.pc = "code"]
<1>1. Typed' /\ Turned(r, q) BY TakeCooldownTypes DEF IInv
<1>2. /\ w'[r] = q /\ \A s \in Workers : s # r => Same(s)
      /\ Good(w[r]) /\ w[r] \in ReqType /\ Reads(w[r], challenges, codes)
  BY <1>1, TurnKeeps DEF IInv
<1>3. w[r].pc = "cool" BY DEF TakeCooldown
<1>4. /\ w'[r].pc \in {"code", "idle"} /\ w'[r].op \in {w[r].op, "none"}
      /\ (w'[r].clean => w[r].clean /\ w'[r].pc # "idle")
  BY <1>2, IdleFits DEF ReqType, Idle
<1>5. ~w'[r].clean BY <1>3, <1>4 DEF CleanOK, IInv
<1> HIDE DEF q
<1>6. CodesOK' BY TakeCooldownCodes DEF IInv
<1>7. ChallengesOK'
  BY <1>1, <1>2, <1>3, <1>4, <1>5, ChallengesQuiet
      DEF TakeCooldown, ChallengePcs, Same, IInv, notes
<1>8. LockOK'
  <2>1. row'.counter <= row.counter BY Counted DEF TakeCooldown, IInv, Typed, TypeOK
  <2> QED BY <2>1, <1>1, <1>2, <1>3, <1>4, <1>5, LockQuiet DEF TakeCooldown, Same, IInv
<1>9. BudgetOK'
  BY <1>1, <1>2, <1>3, <1>4, <1>5, BudgetQuiet DEF TakeCooldown, Same, IInv, notes
<1>10. CleanOK'
  BY <1>1, <1>2, <1>3, <1>4, <1>5, CleanQuiet DEF TakeCooldown, CleanOK, Same, IInv, notes
<1>11. MailedOK'
  BY <1>1, <1>2, <1>3, <1>4, <1>5, MailedQuiet DEF TakeCooldown, Same, IInv, notes
<1>12. LeftOK'
  <2>1. w[r].op \in {"reset", "confirm"} BY <1>2 DEF TakeCooldown, Good, Fits
  <2> QED BY <2>1, <1>1, <1>2, <1>3, <1>4, <1>5, LeftApart DEF TakeCooldown, Same, IInv, notes
<1> QED BY <1>1, <1>6, <1>7, <1>8, <1>9, <1>10, <1>11, <1>12 DEF IInv

LEMMA StoreCodeSteps ==
  ASSUME IInv, NEW r \in Workers, StoreCode(r)
  PROVE  IInv'
<1> DEFINE x == /\ Running("confirm") \cup Running("delete") = {}
                 /\ Running("reset") = {r}
           q == [w[r] EXCEPT !.pc = "budget", !.clean = x]
<1>1. Typed' /\ Turned(r, q) BY StoreCodeTypes DEF IInv
<1>2. /\ w'[r] = q /\ \A s \in Workers : s # r => Same(s)
      /\ Good(w[r]) /\ w[r] \in ReqType /\ Reads(w[r], challenges, codes)
  BY <1>1, TurnKeeps DEF IInv
<1>3. /\ w[r].pc = "code" /\ code' = w[r].read /\ guesses' = 0 /\ mailed' = None
      /\ row' = row /\ used' = used /\ stray' = stray
      /\ (x => Running("confirm") \cup Running("delete") = {} /\ Running("reset") = {r})
  BY DEF StoreCode
<1> HIDE DEF x
<1>4. /\ w'[r].pc = "budget" /\ w'[r].read = w[r].read /\ w'[r].op = w[r].op
      /\ (w'[r].clean => x)
  BY <1>2 DEF ReqType
<1> HIDE DEF q
<1>5. CodesOK' BY StoreCodeCodes DEF IInv
<1>6. ChallengesOK'
  BY <1>1, <1>2, <1>3, <1>4, ChallengesQuiet DEF ChallengePcs, Same, IInv
<1>7. LockOK'
  <2>1. row'.counter <= row.counter BY <1>3, Counted DEF IInv, Typed, TypeOK
  <2> QED BY <2>1, <1>1, <1>2, <1>3, <1>4, LockQuiet DEF Same, IInv
<1>8. BudgetOK' BY <1>1, <1>2, <1>3, <1>4, BudgetAnew DEF Same, IInv
<1>9. CleanOK'
  <2>1. w[r].op = "reset" BY <1>2, <1>3 DEF Good, Fits
  <2>2. \A s \in Workers : s # r => ~w'[s].clean BY <2>1, <1>2 DEF CleanOK, Same, IInv
  <2>3. x => \A s \in Workers : w'[s].op \notin {"confirm",
      "delete"} /\ (s # r => w'[s].op # "reset")
    BY <1>2, <1>3, <1>4 DEF Running, Same
  <2> QED BY <2>2, <2>3, <1>3, <1>4 DEF CleanOK
<1>10. MailedOK'
  BY <1>1, <1>2, <1>3, <1>4, MailedQuiet DEF Same, IInv
<1>11. LeftOK'
  <2>1. w[r].op \in {"reset", "confirm"} BY <1>2, <1>3 DEF Good, Fits
  <2> QED BY <2>1, <1>1, <1>2, <1>3, <1>4, LeftApart DEF Same, IInv
<1> QED BY <1>1, <1>5, <1>6, <1>7, <1>8, <1>9, <1>10, <1>11 DEF IInv

LEMMA StoreBudgetSteps ==
  ASSUME IInv, NEW r \in Workers, StoreBudget(r)
  PROVE  IInv'
<1> DEFINE q == Idle
<1>1. Typed' /\ Turned(r, q) BY StoreBudgetTypes DEF IInv
<1>2. /\ w'[r] = q /\ \A s \in Workers : s # r => Same(s)
      /\ Good(w[r]) /\ w[r] \in ReqType /\ Reads(w[r], challenges, codes)
  BY <1>1, TurnKeeps DEF IInv
<1>3. w[r].pc = "budget" BY DEF StoreBudget
<1>4. /\ w'[r].pc \in {"idle"} /\ w'[r].op \in {w[r].op, "none"}
      /\ (w'[r].clean => w[r].clean /\ w'[r].pc # "idle")
  BY <1>2, IdleFits DEF ReqType, Idle
<1>5. ~w'[r].clean BY <1>3, <1>4 DEF CleanOK, IInv
<1> HIDE DEF q
<1>6. CodesOK'
  BY <1>1, <1>2, <1>3, <1>4, <1>5, CodesQuiet DEF StoreBudget, CodePcs, Same, IInv
<1>7. ChallengesOK'
  BY <1>1, <1>2, <1>3, <1>4, <1>5, ChallengesQuiet DEF StoreBudget, ChallengePcs, Same, IInv
<1>8. LockOK'
  <2>1. row'.counter <= row.counter BY Counted DEF StoreBudget, IInv, Typed, TypeOK
  <2> QED BY <2>1, <1>1, <1>2, <1>3, <1>4, <1>5, LockQuiet DEF StoreBudget, Same, IInv
<1>9. BudgetOK' BY <1>1, <1>2, <1>3, <1>4, <1>5, BudgetAnew DEF StoreBudget, Same, IInv
<1>10. CleanOK'
  BY <1>1, <1>2, <1>3, <1>4, <1>5, CleanQuiet DEF StoreBudget, CleanOK, Same, IInv
<1>11. MailedOK'
  <2>1. CASE w[r].clean
    <3>1. code = w[r].read /\ \A s \in Workers : w[s].op # "confirm" BY <2>1 DEF CleanOK, IInv
    <3>2. \A s \in Workers : w'[s].pc # "burn"
      BY <3>1, <1>2, <1>4, WorkerOf DEF Same, IInv, Good, Fits
    <3> QED BY <3>1, <3>2, <2>1, Counted DEF StoreBudget, MailedOK, IInv
  <2>2. CASE ~w[r].clean BY <2>2 DEF StoreBudget, MailedOK
  <2> QED BY <2>1, <2>2
<1>12. LeftOK'
  <2>1. w[r].op \in {"reset", "confirm"} BY <1>2 DEF StoreBudget, Good, Fits
  <2> QED BY <2>1, <1>1, <1>2, <1>3, <1>4, <1>5, LeftApart DEF StoreBudget, Same, IInv
<1> QED BY <1>1, <1>6, <1>7, <1>8, <1>9, <1>10, <1>11, <1>12 DEF IInv

LEMMA ConfirmResetPasswordSteps ==
  ASSUME IInv, NEW r \in Workers, NEW guess \in 0..codes, ConfirmResetPassword(r, guess)
  PROVE  IInv'
<1> DEFINE q == [Idle EXCEPT !.op = "confirm", !.pc = "count", !.read = guess]
<1>1. Typed' /\ Turned(r, q) BY ConfirmResetPasswordTypes DEF IInv
<1>2. /\ w'[r] = q /\ \A s \in Workers : s # r => Same(s)
      /\ Good(w[r]) /\ w[r] \in ReqType /\ Reads(w[r], challenges, codes)
  BY <1>1, TurnKeeps DEF IInv
<1>3. w'[r].pc = "count" /\ w'[r].op = "confirm" /\ ~w'[r].clean BY <1>2 DEF Idle
<1> HIDE DEF q
<1>4. CodesOK'
  BY <1>1, <1>2, <1>3, CodesQuiet DEF ConfirmResetPassword, CodePcs, Same, IInv, redisKeys
<1>5. ChallengesOK'
  BY <1>1, <1>2, <1>3, ChallengesQuiet DEF ConfirmResetPassword, ChallengePcs, Same, IInv,
      redisKeys
<1>6. LockOK'
  <2>1. row'.counter <= row.counter BY Counted DEF ConfirmResetPassword, IInv, Typed, TypeOK
  <2> QED BY <2>1, <1>1, <1>2, <1>3, LockQuiet DEF ConfirmResetPassword, Same, IInv
<1>7. BudgetOK'
  BY <1>1, <1>2, <1>3, BudgetQuiet DEF ConfirmResetPassword, Same, IInv, redisKeys
<1>8. CleanOK'
  <2>1. \A s \in Workers : ~w'[s].clean
    BY <1>2, <1>3, WorkerOf DEF ConfirmResetPassword, Start, IInv, ReqType
  <2> QED BY <2>1, NoneClean
<1>9. MailedOK'
  BY <1>1, <1>2, <1>3, MailedQuiet DEF ConfirmResetPassword, Same, IInv, redisKeys
<1>10. LeftOK'
  <2>2. \A s \in Workers : w[s].pc = "row" => w[s].op = "delete"
    BY WorkerOf DEF IInv, Good, Fits
  <2>3. Clear' = Clear /\ row' = row /\ row.here BY DEF ConfirmResetPassword, Clear, redisKeys
  <2>4. ~stray' => ~stray /\ \A s \in Workers : w[s].op \notin {"delete"}
    BY DEF ConfirmResetPassword, Running
  <2> QED BY <2>2, <2>3, <2>4, <1>2, <1>3 DEF LeftOK, Same, IInv
<1> QED BY <1>1, <1>4, <1>5, <1>6, <1>7, <1>8, <1>9, <1>10 DEF IInv

LEMMA CountAttemptSteps ==
  ASSUME IInv, NEW r \in Workers, CountAttempt(r)
  PROVE  IInv'
<1> DEFINE q == [w[r] EXCEPT !.pc = IF (IF attempts = -1 THEN 0 ELSE attempts) + 1 > MaxCodeAttempts
                                THEN "burn" ELSE "get"]
<1>1. Typed' /\ Turned(r, q) BY CountAttemptTypes DEF IInv
<1>2. /\ w'[r] = q /\ \A s \in Workers : s # r => Same(s)
      /\ Good(w[r]) /\ w[r] \in ReqType /\ Reads(w[r], challenges, codes)
  BY <1>1, TurnKeeps DEF IInv
<1>3. w[r].pc = "count" BY DEF CountAttempt
<1>4. /\ w'[r].pc \in {"burn", "get"} /\ w'[r].op \in {w[r].op, "none"}
      /\ (w'[r].clean => w[r].clean /\ w'[r].pc # "idle")
  BY <1>2, IdleFits DEF ReqType, Idle
<1>5. ~w'[r].clean BY <1>3, <1>4 DEF CleanOK, IInv
<1> HIDE DEF q
<1>6. CodesOK'
  BY <1>1, <1>2, <1>3, <1>4, <1>5, CodesQuiet DEF CountAttempt, CodePcs, Same, IInv, redisKeys
<1>7. ChallengesOK'
  BY <1>1, <1>2, <1>3, <1>4, <1>5, ChallengesQuiet DEF CountAttempt, ChallengePcs, Same, IInv
<1>8. LockOK'
  <2>1. row'.counter <= row.counter BY Counted DEF CountAttempt, IInv, Typed, TypeOK
  <2> QED BY <2>1, <1>1, <1>2, <1>3, <1>4, <1>5, LockQuiet DEF CountAttempt, Same, IInv
<1>9. BudgetOK' BY CountAttemptBudget DEF IInv
<1>10. CleanOK'
  BY <1>1, <1>2, <1>3, <1>4, <1>5, CleanQuiet DEF CountAttempt, CleanOK, Same, IInv
<1>11. MailedOK'
  <2> DEFINE n == (IF attempts = -1 THEN 0 ELSE attempts) + 1
  <2>1. CASE n > MaxCodeAttempts BY <2>1 DEF CountAttempt, MailedOK
  <2>2. CASE ~(n > MaxCodeAttempts)
    <3>1. w'[r].pc = "get" BY <1>2, <2>2 DEF ReqType, q
    <3>2. attempts' \in 0..MaxCodeAttempts
      BY <2>2, Counted DEF CountAttempt, Min2, IInv, Typed, TypeOK
    <3> QED BY <3>1, <3>2, <2>2, <1>2 DEF CountAttempt, MailedOK, IInv, Same
  <2> QED BY <2>1, <2>2
<1>12. LeftOK'
  <2>1. w[r].op \in {"reset", "confirm"} BY <1>2 DEF CountAttempt, Good, Fits
  <2> QED BY <2>1, <1>1, <1>2, <1>3, <1>4, <1>5, LeftApart DEF CountAttempt, Same, IInv
<1> QED BY <1>1, <1>6, <1>7, <1>8, <1>9, <1>10, <1>11, <1>12 DEF IInv

LEMMA BurnCodeSteps ==
  ASSUME IInv, NEW r \in Workers, BurnCode(r)
  PROVE  IInv'
<1> DEFINE q == Idle
<1>1. Typed' /\ Turned(r, q) BY BurnCodeTypes DEF IInv
<1>2. /\ w'[r] = q /\ \A s \in Workers : s # r => Same(s)
      /\ Good(w[r]) /\ w[r] \in ReqType /\ Reads(w[r], challenges, codes)
  BY <1>1, TurnKeeps DEF IInv
<1>3. w[r].pc = "burn" BY DEF BurnCode
<1>4. /\ w'[r].pc \in {"idle"} /\ w'[r].op \in {w[r].op, "none"}
      /\ (w'[r].clean => w[r].clean /\ w'[r].pc # "idle")
  BY <1>2, IdleFits DEF ReqType, Idle
<1>5. ~w'[r].clean BY <1>3, <1>4 DEF CleanOK, IInv
<1> HIDE DEF q
<1>6. CodesOK'
  BY <1>1, <1>2, <1>3, <1>4, <1>5, CodesQuiet DEF BurnCode, CodePcs, Same, IInv, notes
<1>7. ChallengesOK'
  BY <1>1, <1>2, <1>3, <1>4, <1>5, ChallengesQuiet DEF BurnCode, ChallengePcs, Same, IInv, notes
<1>8. LockOK'
  <2>1. row'.counter <= row.counter BY Counted DEF BurnCode, IInv, Typed, TypeOK
  <2> QED BY <2>1, <1>1, <1>2, <1>3, <1>4, <1>5, LockQuiet DEF BurnCode, Same, IInv
<1>9. BudgetOK'
  BY <1>1, <1>2, <1>3, <1>4, <1>5, BudgetQuiet DEF BurnCode, Same, IInv, notes
<1>10. CleanOK'
  <2>1. w[r].op \in {"confirm", "delete"} BY <1>2 DEF BurnCode, Good, Fits
  <2>2. \A s \in Workers : ~w'[s].clean BY <2>1, <1>2, <1>5 DEF CleanOK, Same, IInv
  <2> QED BY <2>2, NoneClean
<1>11. MailedOK' BY <1>3 DEF BurnCode, MailedOK, IInv, notes
<1>12. LeftOK'
  <2>1. w[r].op \in {"reset", "confirm"} BY <1>2 DEF BurnCode, Good, Fits
  <2> QED BY <2>1, <1>1, <1>2, <1>3, <1>4, <1>5, LeftApart DEF BurnCode, Same, IInv, notes
<1> QED BY <1>1, <1>6, <1>7, <1>8, <1>9, <1>10, <1>11, <1>12 DEF IInv

LEMMA CompareCodeSteps ==
  ASSUME IInv, NEW r \in Workers, CompareCode(r)
  PROVE  IInv'
<1> DEFINE q == IF code # None /\ code = w[r].read
              THEN [w[r] EXCEPT !.pc = "redeem", !.born = redeemed] ELSE Idle
<1>1. Typed' /\ Turned(r, q) BY CompareCodeTypes DEF IInv
<1>2. /\ w'[r] = q /\ \A s \in Workers : s # r => Same(s)
      /\ Good(w[r]) /\ w[r] \in ReqType /\ Reads(w[r], challenges, codes)
  BY <1>1, TurnKeeps DEF IInv
<1>3. w[r].pc = "get" BY DEF CompareCode
<1>4. /\ w'[r].pc \in {"redeem", "idle"} /\ w'[r].op \in {w[r].op, "none"}
      /\ (w'[r].clean => w[r].clean /\ w'[r].pc # "idle")
  BY <1>2, IdleFits DEF ReqType, Idle
<1>5. ~w'[r].clean BY <1>3, <1>4 DEF CleanOK, IInv
<1> HIDE DEF q
<1>6. CodesOK' BY CompareCodeCodes DEF IInv
<1>7. ChallengesOK'
  BY <1>1, <1>2, <1>3, <1>4, <1>5, ChallengesQuiet
      DEF CompareCode, ChallengePcs, Same, IInv, redisKeys
<1>8. LockOK'
  <2>1. row'.counter <= row.counter BY Counted DEF CompareCode, IInv, Typed, TypeOK
  <2> QED BY <2>1, <1>1, <1>2, <1>3, <1>4, <1>5, LockQuiet DEF CompareCode, Same, IInv
<1>9. BudgetOK' BY CompareCodeBudget DEF IInv
<1>10. CleanOK'
  BY <1>1, <1>2, <1>3, <1>4, <1>5, CleanQuiet DEF CompareCode, CleanOK, Same, IInv, redisKeys
<1>11. MailedOK'
  BY <1>1, <1>2, <1>3, <1>4, <1>5, MailedQuiet DEF CompareCode, Same, IInv, redisKeys
<1>12. LeftOK'
  <2>1. row'.here = row.here /\ stray' = stray /\ (Clear => Clear')
    BY DEF CompareCode, Clear, IInv, Typed, TypeOK, redisKeys
  <2> QED BY <2>1, <1>1, <1>2, <1>3, <1>4, <1>5, LeftQuiet DEF Same, IInv
<1> QED BY <1>1, <1>6, <1>7, <1>8, <1>9, <1>10, <1>11, <1>12 DEF IInv

LEMMA RedeemCodeSteps ==
  ASSUME IInv, NEW r \in Workers, RedeemCode(r)
  PROVE  IInv'
<1> DEFINE q == [w[r] EXCEPT !.pc = "password"]
<1>1. Typed' /\ Turned(r, q) BY RedeemCodeTypes DEF IInv
<1>2. /\ w'[r] = q /\ \A s \in Workers : s # r => Same(s)
      /\ Good(w[r]) /\ w[r] \in ReqType /\ Reads(w[r], challenges, codes)
  BY <1>1, TurnKeeps DEF IInv
<1>3. w[r].pc = "redeem" BY DEF RedeemCode
<1>4. /\ w'[r].pc \in {"password"} /\ w'[r].op \in {w[r].op, "none"}
      /\ (w'[r].clean => w[r].clean /\ w'[r].pc # "idle")
  BY <1>2, IdleFits DEF ReqType, Idle
<1>5. ~w'[r].clean BY <1>3, <1>4 DEF CleanOK, IInv
<1> HIDE DEF q
<1>6. CodesOK' BY RedeemCodeCodes DEF IInv
<1>7. ChallengesOK'
  BY <1>1, <1>2, <1>3, <1>4, <1>5, ChallengesQuiet DEF RedeemCode, ChallengePcs, Same, IInv
<1>8. LockOK'
  <2>1. row'.counter <= row.counter BY Counted DEF RedeemCode, IInv, Typed, TypeOK
  <2> QED BY <2>1, <1>1, <1>2, <1>3, <1>4, <1>5, LockQuiet DEF RedeemCode, Same, IInv
<1>9. BudgetOK'
  BY <1>1, <1>2, <1>3, <1>4, <1>5, BudgetQuiet DEF RedeemCode, Same, IInv
<1>10. CleanOK'
  <2>1. w[r].op \in {"confirm", "delete"} BY <1>2 DEF RedeemCode, Good, Fits
  <2>2. \A s \in Workers : ~w'[s].clean BY <2>1, <1>2, <1>5 DEF CleanOK, Same, IInv
  <2> QED BY <2>2, NoneClean
<1>11. MailedOK'
  BY <1>1, <1>2, <1>3, <1>4, <1>5, MailedQuiet DEF RedeemCode, Same, IInv
<1>12. LeftOK'
  <2>1. w[r].op \in {"reset", "confirm"} BY <1>2 DEF RedeemCode, Good, Fits
  <2> QED BY <2>1, <1>1, <1>2, <1>3, <1>4, <1>5, LeftApart DEF RedeemCode, Same, IInv
<1> QED BY <1>1, <1>6, <1>7, <1>8, <1>9, <1>10, <1>11, <1>12 DEF IInv

LEMMA ChangePasswordSteps ==
  ASSUME IInv, NEW r \in Workers, ChangePassword(r)
  PROVE  IInv'
<1> DEFINE q == Idle
<1>1. Typed' /\ Turned(r, q) BY ChangePasswordTypes DEF IInv
<1>2. /\ w'[r] = q /\ \A s \in Workers : s # r => Same(s)
      /\ Good(w[r]) /\ w[r] \in ReqType /\ Reads(w[r], challenges, codes)
  BY <1>1, TurnKeeps DEF IInv
<1>3. w[r].pc = "password" BY DEF ChangePassword
<1>4. /\ w'[r].pc \in {"idle"} /\ w'[r].op \in {w[r].op, "none"}
      /\ (w'[r].clean => w[r].clean /\ w'[r].pc # "idle")
  BY <1>2, IdleFits DEF ReqType, Idle
<1>5. ~w'[r].clean BY <1>3, <1>4 DEF CleanOK, IInv
<1> HIDE DEF q
<1>6. CodesOK'
  BY <1>1, <1>2, <1>3, <1>4, <1>5, CodesQuiet DEF ChangePassword, CodePcs, Same, IInv, redisKeys, notes
<1>7. ChallengesOK'
  BY <1>1, <1>2, <1>3, <1>4, <1>5, ChallengesQuiet
      DEF ChangePassword, ChallengePcs, Same, IInv, redisKeys, notes
<1>8. LockOK'
  <2>1. row'.counter <= row.counter BY Counted DEF ChangePassword, IInv, Typed, TypeOK
  <2> QED BY <2>1, <1>1, <1>2, <1>3, <1>4, <1>5, LockQuiet DEF ChangePassword, Same, IInv
<1>9. BudgetOK'
  BY <1>1, <1>2, <1>3, <1>4, <1>5, BudgetQuiet DEF ChangePassword, Same, IInv, redisKeys, notes
<1>10. CleanOK'
  BY <1>1, <1>2, <1>3, <1>4, <1>5, CleanQuiet DEF ChangePassword, CleanOK, Same, IInv, redisKeys, notes
<1>11. MailedOK'
  BY <1>1, <1>2, <1>3, <1>4, <1>5, MailedQuiet DEF ChangePassword, Same, IInv, redisKeys, notes
<1>12. LeftOK'
  <2>1. row'.here = row.here /\ stray' = stray /\ (Clear => Clear')
    BY DEF ChangePassword, Clear, IInv, Typed, TypeOK, redisKeys, notes
  <2> QED BY <2>1, <1>1, <1>2, <1>3, <1>4, <1>5, LeftQuiet DEF Same, IInv
<1> QED BY <1>1, <1>6, <1>7, <1>8, <1>9, <1>10, <1>11, <1>12 DEF IInv

LEMMA DeleteAccountSteps ==
  ASSUME IInv, NEW r \in Workers, DeleteAccount(r)
  PROVE  IInv'
<1> DEFINE q == [Idle EXCEPT !.op = "delete", !.pc = "keys"]
<1>1. Typed' /\ Turned(r, q) BY DeleteAccountTypes DEF IInv
<1>2. /\ w'[r] = q /\ \A s \in Workers : s # r => Same(s)
      /\ Good(w[r]) /\ w[r] \in ReqType /\ Reads(w[r], challenges, codes)
  BY <1>1, TurnKeeps DEF IInv
<1>3. w'[r].pc = "keys" /\ w'[r].op = "delete" /\ ~w'[r].clean BY <1>2 DEF Idle
<1> HIDE DEF q
<1>4. CodesOK'
  BY <1>1, <1>2, <1>3, CodesQuiet DEF DeleteAccount, CodePcs, Same, IInv, redisKeys
<1>5. ChallengesOK'
  BY <1>1, <1>2, <1>3, ChallengesQuiet DEF DeleteAccount, ChallengePcs, Same, IInv, redisKeys
<1>6. LockOK'
  <2>1. row'.counter <= row.counter BY Counted DEF DeleteAccount, IInv, Typed, TypeOK
  <2> QED BY <2>1, <1>1, <1>2, <1>3, LockQuiet DEF DeleteAccount, Same, IInv
<1>7. BudgetOK'
  BY <1>1, <1>2, <1>3, BudgetQuiet DEF DeleteAccount, Same, IInv, redisKeys
<1>8. CleanOK'
  <2>1. \A s \in Workers : ~w'[s].clean
    BY <1>2, <1>3, WorkerOf DEF DeleteAccount, Start, IInv, ReqType
  <2> QED BY <2>1, NoneClean
<1>9. MailedOK'
  BY <1>1, <1>2, <1>3, MailedQuiet DEF DeleteAccount, Same, IInv, redisKeys
<1>10. LeftOK'
  <2>2. \A s \in Workers : w[s].pc = "row" => w[s].op = "delete"
    BY WorkerOf DEF IInv, Good, Fits
  <2>3. Clear' = Clear /\ row' = row /\ row.here BY DEF DeleteAccount, Clear, redisKeys
  <2>4. ~stray' => ~stray /\ \A s \in Workers : w[s].op \notin {"reset", "confirm"}
    BY DEF DeleteAccount, Running
  <2> QED BY <2>2, <2>3, <2>4, <1>2, <1>3 DEF LeftOK, Same, IInv
<1> QED BY <1>1, <1>4, <1>5, <1>6, <1>7, <1>8, <1>9, <1>10 DEF IInv

LEMMA DeleteResetCodesSteps ==
  ASSUME IInv, NEW r \in Workers, DeleteResetCodes(r)
  PROVE  IInv'
<1> DEFINE q == [w[r] EXCEPT !.pc = "row"]
<1>1. Typed' /\ Turned(r, q) BY DeleteResetCodesTypes DEF IInv
<1>2. /\ w'[r] = q /\ \A s \in Workers : s # r => Same(s)
      /\ Good(w[r]) /\ w[r] \in ReqType /\ Reads(w[r], challenges, codes)
  BY <1>1, TurnKeeps DEF IInv
<1>3. w[r].pc = "keys" BY DEF DeleteResetCodes
<1>4. /\ w'[r].pc \in {"row"} /\ w'[r].op \in {w[r].op, "none"}
      /\ (w'[r].clean => w[r].clean /\ w'[r].pc # "idle")
  BY <1>2, IdleFits DEF ReqType, Idle
<1>5. ~w'[r].clean BY <1>3, <1>4 DEF CleanOK, IInv
<1> HIDE DEF q
<1>6. CodesOK'
  BY <1>1, <1>2, <1>3, <1>4, <1>5, CodesQuiet DEF DeleteResetCodes, CodePcs, Same, IInv
<1>7. ChallengesOK'
  BY <1>1, <1>2, <1>3, <1>4, <1>5, ChallengesQuiet DEF DeleteResetCodes, ChallengePcs, Same, IInv
<1>8. LockOK'
  <2>1. row'.counter <= row.counter BY Counted DEF DeleteResetCodes, IInv, Typed, TypeOK
  <2> QED BY <2>1, <1>1, <1>2, <1>3, <1>4, <1>5, LockQuiet DEF DeleteResetCodes, Same, IInv
<1>9. BudgetOK'
  BY <1>1, <1>2, <1>3, <1>4, <1>5, BudgetQuiet DEF DeleteResetCodes, Same, IInv
<1>10. CleanOK'
  <2>1. w[r].op \in {"confirm", "delete"} BY <1>2 DEF DeleteResetCodes, Good, Fits
  <2>2. \A s \in Workers : ~w'[s].clean BY <2>1, <1>2, <1>5 DEF CleanOK, Same, IInv
  <2> QED BY <2>2, NoneClean
<1>11. MailedOK'
  BY <1>1, <1>2, <1>3, <1>4, <1>5, MailedQuiet DEF DeleteResetCodes, Same, IInv
<1>12. LeftOK'
  <2>1. Clear' /\ w[r].op = "delete" BY <1>2 DEF DeleteResetCodes, Clear, Good, Fits
  <2> QED BY <2>1, <1>2, <1>4 DEF DeleteResetCodes, LeftOK, Same, IInv
<1> QED BY <1>1, <1>6, <1>7, <1>8, <1>9, <1>10, <1>11, <1>12 DEF IInv

LEMMA DeleteRowSteps ==
  ASSUME IInv, NEW r \in Workers, DeleteRow(r)
  PROVE  IInv'
<1> DEFINE q == Idle
<1>1. Typed' /\ Turned(r, q) BY DeleteRowTypes DEF IInv
<1>2. /\ w'[r] = q /\ \A s \in Workers : s # r => Same(s)
      /\ Good(w[r]) /\ w[r] \in ReqType /\ Reads(w[r], challenges, codes)
  BY <1>1, TurnKeeps DEF IInv
<1>3. w[r].pc = "row" BY DEF DeleteRow
<1>4. /\ w'[r].pc \in {"idle"} /\ w'[r].op \in {w[r].op, "none"}
      /\ (w'[r].clean => w[r].clean /\ w'[r].pc # "idle")
  BY <1>2, IdleFits DEF ReqType, Idle
<1>5. ~w'[r].clean BY <1>3, <1>4 DEF CleanOK, IInv
<1> HIDE DEF q
<1>6. CodesOK'
  BY <1>1, <1>2, <1>3, <1>4, <1>5, CodesQuiet DEF DeleteRow, CodePcs, Same, IInv, redisKeys, notes
<1>7. ChallengesOK'
  BY <1>1, <1>2, <1>3, <1>4, <1>5, ChallengesQuiet
      DEF DeleteRow, ChallengePcs, Same, IInv, redisKeys, notes
<1>8. LockOK'
  <2>1. row'.counter <= row.counter BY Counted DEF DeleteRow, IInv, Typed, TypeOK
  <2> QED BY <2>1, <1>1, <1>2, <1>3, <1>4, <1>5, LockQuiet DEF DeleteRow, Same, IInv
<1>9. BudgetOK'
  BY <1>1, <1>2, <1>3, <1>4, <1>5, BudgetQuiet DEF DeleteRow, Same, IInv, redisKeys, notes
<1>10. CleanOK'
  BY <1>1, <1>2, <1>3, <1>4, <1>5, CleanQuiet DEF DeleteRow, CleanOK, Same, IInv, redisKeys, notes
<1>11. MailedOK'
  BY <1>1, <1>2, <1>3, <1>4, <1>5, MailedQuiet DEF DeleteRow, Same, IInv, redisKeys, notes
<1>12. LeftOK'
  <2>1. w[r].op = "delete" /\ w'[r].op = "none"
    BY <1>1, <1>2, <1>4, WorkerOf DEF DeleteRow, Good, Fits, Turned
  <2>2. Clear' = Clear BY DEF DeleteRow, Clear, redisKeys
  <2> QED BY <2>1, <2>2, <1>2, <1>4 DEF DeleteRow, LeftOK, Same, IInv, notes
<1> QED BY <1>1, <1>6, <1>7, <1>8, <1>9, <1>10, <1>11, <1>12 DEF IInv

LEMMA StopSteps ==
  ASSUME IInv, NEW r \in Workers, Stop(r)
  PROVE  IInv'
<1> DEFINE q == Idle
<1>1. Typed' /\ Turned(r, q) BY StopTypes DEF IInv
<1>2. /\ w'[r] = q /\ \A s \in Workers : s # r => Same(s)
      /\ Good(w[r]) /\ w[r] \in ReqType /\ Reads(w[r], challenges, codes)
  BY <1>1, TurnKeeps DEF IInv
<1>3. w[r].pc # "idle" BY DEF Stop
<1>4. /\ w'[r].pc \in {"idle"} /\ w'[r].op \in {w[r].op, "none"}
      /\ (w'[r].clean => w[r].clean /\ w'[r].pc # "idle")
  BY <1>2, IdleFits DEF ReqType, Idle
<1>5. ~w'[r].clean BY <1>3, <1>4 DEF CleanOK, IInv
<1> HIDE DEF q
<1>6. CodesOK'
  BY <1>1, <1>2, <1>3, <1>4, <1>5, CodesQuiet DEF Stop, CodePcs, Same, IInv, redisKeys, notes
<1>7. ChallengesOK'
  BY <1>1, <1>2, <1>3, <1>4, <1>5, ChallengesQuiet
      DEF Stop, ChallengePcs, Same, IInv, redisKeys, notes
<1>8. LockOK'
  <2>1. row'.counter <= row.counter BY Counted DEF Stop, IInv, Typed, TypeOK
  <2> QED BY <2>1, <1>1, <1>2, <1>3, <1>4, <1>5, LockQuiet DEF Stop, Same, IInv
<1>9. BudgetOK'
  BY <1>1, <1>2, <1>3, <1>4, <1>5, BudgetQuiet DEF Stop, Same, IInv, redisKeys, notes
<1>10. CleanOK'
  BY <1>1, <1>2, <1>3, <1>4, <1>5, CleanQuiet DEF Stop, CleanOK, Same, IInv, redisKeys, notes
<1>11. MailedOK'
  BY <1>1, <1>2, <1>3, <1>4, <1>5, MailedQuiet DEF Stop, Same, IInv, redisKeys, notes
<1>12. LeftOK'
  <2>1. row'.here = row.here /\ stray' = stray /\ (Clear => Clear')
    BY DEF Stop, Clear, IInv, Typed, TypeOK, redisKeys, notes
  <2> QED BY <2>1, <1>1, <1>2, <1>3, <1>4, <1>5, LeftQuiet DEF Same, IInv
<1> QED BY <1>1, <1>6, <1>7, <1>8, <1>9, <1>10, <1>11, <1>12 DEF IInv

\* The steps that leave the requests alone.
Still == w' = w

LEMMA StillKeeps ==
  ASSUME IInv, Typed', Still, row'.challenge \in {row.challenge, None}, row'.here = row.here,
         row'.counter = row.counter, code' \in {code, None}, used' = used, redeemed' = redeemed,
         guesses' = guesses, stray' = stray,
         BudgetOK',
         code' = code \/ \A s \in Workers : w[s].pc # "budget",
         \/ mailed' = None
         \/ /\ mailed' = mailed /\ code' = code
            /\ (attempts' = attempts /\ ttl' = ttl) \/ mailed = None,
         Clear => Clear'
  PROVE  IInv'
<1>1. \A s \in Workers : w'[s] = w[s] /\ Same(s) BY DEF Still, Same
<1>2. CodesOK' BY <1>1, CodesQuiet DEF IInv
<1>3. ChallengesOK' BY <1>1, ChallengesQuiet DEF IInv
<1>4. LockOK' BY <1>1, LockQuiet, Counted DEF IInv
<1>5. CleanOK'
  <2>1. CASE code' = code BY <2>1, <1>1 DEF IInv, CleanOK
  <2>2. CASE \A s \in Workers : w[s].pc # "budget" BY <2>2, <1>1 DEF IInv, CleanOK
  <2> QED BY <2>1, <2>2
<1>6. MailedOK'
  <2>1. CASE mailed' = None BY <2>1 DEF MailedOK
  <2>2. CASE mailed' = mailed /\ code' = code /\ attempts' = attempts /\ ttl' = ttl
    BY <2>2, <1>1 DEF MailedOK, IInv
  <2>3. CASE mailed' = mailed /\ mailed = None BY <2>3 DEF MailedOK
  <2> QED BY <2>1, <2>2, <2>3
<1>7. LeftOK' BY <1>1, LeftQuiet DEF IInv
<1> QED BY <1>2, <1>3, <1>4, <1>5, <1>6, <1>7 DEF IInv

LEMMA SecureAuthSteps ==
  ASSUME IInv, NEW fp \in BOOLEAN, NEW pinOn \in BOOLEAN, NEW pkey \in BOOLEAN,
         NEW pin \in Pins \cup {None}, SecureAuth(fp, pinOn, pin, pkey)
  PROVE  IInv'
<1>1. Typed' BY SecureAuthTypes DEF IInv
<1>2. /\ row'.challenge \in {row.challenge, None} /\ row'.here = row.here
      /\ row'.counter = row.counter
  BY DEF SecureAuth, IInv, Typed, TypeOK
<1>3. Clear => Clear' BY DEF SecureAuth, Clear, redisKeys
<1>4. BudgetOK' BY <1>1, BudgetQuiet DEF SecureAuth, IInv, redisKeys, notes
<1> QED BY <1>1, <1>2, <1>3, <1>4, StillKeeps DEF SecureAuth, Still, redisKeys, notes

LEMMA LogoutSteps == ASSUME IInv, Logout PROVE IInv'
<1>1. Typed' BY LogoutTypes DEF IInv
<1>2. /\ row'.challenge \in {row.challenge, None} /\ row'.here = row.here
      /\ row'.counter = row.counter
  BY DEF Logout, IInv, Typed, TypeOK
<1>3. Clear => Clear' BY DEF Logout, Clear, redisKeys
<1>4. BudgetOK' BY <1>1, BudgetQuiet DEF Logout, IInv, redisKeys, notes
<1> QED BY <1>1, <1>2, <1>3, <1>4, StillKeeps DEF Logout, Still, redisKeys, notes

LEMMA ExpireSteps == ASSUME IInv, Expire PROVE IInv'
<1>1. Typed' BY ExpireTypes DEF IInv
<1>2. Clear => Clear' BY DEF Expire, Clear
<1>3. w' = w /\ guesses' = guesses /\ row' = row /\ used' = used /\ redeemed' = redeemed
      /\ stray' = stray
  BY DEF Expire
<1>4. CASE attempts' = attempts /\ ttl' = ttl /\ code' \in {code, None}
  <2>1. BudgetOK' BY <1>1, <1>3, <1>4, BudgetQuiet DEF IInv
  <2> QED BY <1>1, <1>2, <1>3, <1>4, <2>1, StillKeeps DEF Expire, Still
<1>5. CASE /\ ttl = "older" \/ (ttl = "code" /\ code = None)
           /\ attempts' = -1 /\ ttl' = "none" /\ code' = code /\ mailed' = mailed
  <2>1. BudgetOK' BY <1>1, <1>3, <1>5, BudgetExpired DEF IInv
  <2>2. mailed = None BY <1>5 DEF IInv, MailedOK
  <2> QED BY <1>1, <1>2, <1>3, <1>5, <2>1, <2>2, StillKeeps DEF Still
<1> QED BY <1>4, <1>5 DEF Expire

LEMMA StutterSteps == ASSUME IInv, UNCHANGED vars PROVE IInv'
<1>1. Typed' BY StutterTypes DEF IInv
<1>2. Clear => Clear' BY DEF vars, Clear
<1>3. BudgetOK' BY <1>1, BudgetQuiet DEF vars, notes, IInv
<1> QED BY <1>1, <1>2, <1>3, StillKeeps DEF vars, Still, notes

-----------------------------------------------------------------------------
(* The theorems.                                                           *)

LEMMA InitHolds == Init => IInv
<1> SUFFICES ASSUME Init PROVE IInv OBVIOUS
<1>1. Typed BY InitTypes
<1>2. \A r \in Workers : w[r] = Idle BY DEF Init
<1>3. CodesOK
  BY <1>2, IdleFits DEF Init, CodesOK, FreshUnused, FreshApart, PassedNew,
                           CodeUnused, Fresh, PastCode
<1>4. ChallengesOK
  BY <1>2, IdleFits DEF Init, ChallengesOK, NewUnused, NewApart, ReadNew,
                           SpentNew, PendingUnused, PastChallenge
<1>5. Bumpers = {} /\ Guessers = {} BY <1>2, IdleFits DEF Bumpers, Guessers
<1>6. Cardinality({}) = 0 /\ Cardinality(Workers) \in Nat
  BY FS_EmptySet, FS_CardinalityType, CredentialsAssumption
<1>7. LockOK BY <1>5, <1>6, CredentialsAssumption DEF Init, LockOK
<1>8. BudgetOK BY <1>5, <1>6, CredentialsAssumption DEF Init, BudgetOK, Spare
<1>9. CleanOK BY <1>2 DEF CleanOK, Idle
<1>10. MailedOK BY DEF Init, MailedOK
<1>11. LeftOK BY <1>2, IdleFits DEF Init, LeftOK
<1> QED BY <1>1, <1>3, <1>4, <1>7, <1>8, <1>9, <1>10, <1>11 DEF IInv

LEMMA NextHolds == IInv /\ [Next]_vars => IInv'
<1> SUFFICES ASSUME IInv, [Next]_vars PROVE IInv' OBVIOUS
<1>1. ASSUME NEW r \in Workers, Arrival(r) PROVE IInv'
  BY <1>1, LoginSteps, ResetPasswordSteps, DeleteAccountSteps, ConfirmResetPasswordSteps,
     ChallengeSteps, RefreshSteps DEF Arrival
<1>2. ASSUME NEW r \in Workers, FactorStep(r) PROVE IInv'
  BY <1>2, ReadChallengeSteps, ConsumeChallengeSteps, CheckPinSteps, CountWrongPinSteps,
     ClearPinCounterSteps, AcceptSteps, StoreChallengeSteps, ResetPinCounterSteps DEF FactorStep
<1>3. ASSUME NEW r \in Workers, CodeStep(r) PROVE IInv'
  BY <1>3, TakeCooldownSteps, StoreCodeSteps, StoreBudgetSteps, CountAttemptSteps, BurnCodeSteps,
     CompareCodeSteps, RedeemCodeSteps, ChangePasswordSteps DEF CodeStep
<1>4. ASSUME NEW r \in Workers, DeletionStep(r) PROVE IInv'
  BY <1>4, DeleteResetCodesSteps, DeleteRowSteps DEF DeletionStep
<1>5. ASSUME NEW r \in Workers, Stop(r) PROVE IInv' BY <1>5, StopSteps
<1>6. ASSUME NEW fp \in BOOLEAN, NEW pinOn \in BOOLEAN, NEW pkey \in BOOLEAN,
             NEW pin \in Pins \cup {None}, SecureAuth(fp, pinOn, pin, pkey)
      PROVE  IInv'
  BY <1>6, SecureAuthSteps
<1>7. CASE Logout BY <1>7, LogoutSteps
<1>8. CASE Expire BY <1>8, ExpireSteps
<1>9. CASE UNCHANGED vars BY <1>9, StutterSteps
<1> QED BY <1>1, <1>2, <1>3, <1>4, <1>5, <1>6, <1>7, <1>8, <1>9 DEF Next

LEMMA Inductive == Spec => []IInv
BY InitHolds, NextHolds, PTL DEF Spec

LEMMA Implied ==
  IInv => /\ TypeOK /\ LockHolds /\ SpentChallengeRefused /\ CodeRedeemedOnce
          /\ GuessesBounded /\ MailedCodeWorks /\ NothingLeftBehind
<1> SUFFICES ASSUME IInv
             PROVE  /\ TypeOK /\ LockHolds /\ SpentChallengeRefused /\ CodeRedeemedOnce
                    /\ GuessesBounded /\ MailedCodeWorks /\ NothingLeftBehind
  OBVIOUS
<1>1. TypeOK BY DEF IInv, Typed
<1>2. LockHolds
  <2>1. Bumpers \in SUBSET Workers BY DEF Bumpers
  <2>2. Cardinality(Bumpers) \in Nat /\ Cardinality(Workers) \in Nat BY <2>1, SomeWorkers
  <2> QED BY <2>2, Counted, CredentialsAssumption DEF LockHolds, LockOK, IInv
<1>3. SpentChallengeRefused BY DEF SpentChallengeRefused, IInv, ChallengesOK, SpentNew, PastChallenge
<1>4. CodeRedeemedOnce BY DEF CodeRedeemedOnce, IInv, CodesOK, PassedNew, PastCode
<1>5. GuessesBounded
  BY TakenBounded, GuessersCounted DEF GuessesBounded, IInv, BudgetOK, Spare
<1>6. MailedCodeWorks BY DEF MailedCodeWorks, IInv, MailedOK
<1>7. NothingLeftBehind BY DEF NothingLeftBehind, IInv, LeftOK, Clear
<1> QED BY <1>1, <1>2, <1>3, <1>4, <1>5, <1>6, <1>7

\* The variables keep their types, and each request is at a step of its kind
\* (application/user.go over persistence/user.go).
THEOREM CredentialTypes == Spec => []TypeOK
BY Inductive, Implied, PTL

\* The PIN locks although its counter is read and written apart: with n
\* requests at a time, at most n - 1 wrong PINs over the limit are counted.
THEOREM PinLocks == Spec => []LockHolds
BY Inductive, Implied, PTL

\* A challenge that was consumed passes no refresh that reads it afterwards
\* (application/user.go, Refresh); two that read it before may both pass.
THEOREM ChallengeSpentOnce == Spec => []SpentChallengeRefused
BY Inductive, Implied, PTL

\* A code that was redeemed passes no confirmation that reads it afterwards
\* (ConsumeResetCode); two that read it before may both pass.
THEOREM CodeSpentOnce == Spec => []CodeRedeemedOnce
BY Inductive, Implied, PTL

\* A code meets at most its budget of guesses, and those counted before it; one
\* whose store stopped before the budget was written, at most a second budget.
THEOREM GuessBudget == Spec => []GuessesBounded
BY Inductive, Implied, PTL

\* The code in the mailbox works until it is used, guessed at too often,
\* replaced or expired.
THEOREM MailedCodeUsable == Spec => []MailedCodeWorks
BY Inductive, Implied, PTL

\* No key of a reset outlives the account it was for.
THEOREM ResetKeysGo == Spec => []NothingLeftBehind
BY Inductive, Implied, PTL

=============================================================================

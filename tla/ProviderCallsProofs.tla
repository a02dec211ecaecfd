-------------------------- MODULE ProviderCallsProofs --------------------------
(***************************************************************************)
(* Proofs about ProviderCalls, for any number of calls, attempts, clients, *)
(* thresholds and times, and with every fault.                             *)
(*                                                                         *)
(* What an open circuit lets through is bounded by what calls past the     *)
(* check still have before them: each attempt that is made is one fewer to *)
(* come. The call that opened the circuit has none left, and only a fault  *)
(* lets another pass the check of an open circuit.                         *)
(*                                                                         *)
(* An opening is earned because the failures a key counts are never older  *)
(* than the key, and the key ends with its window (EarnInv).               *)
(***************************************************************************)
EXTENDS ProviderCalls, FiniteSetTheorems, TLAPS

Fields == {"pc", "attempt", "client", "n"}

\* Past the check, with attempts to come.
Past == {"queue", "read", "sleep"}

\* The attempts that calls in state f may still make.
Pending(f) == {x \in Call \X (1 .. Attempts) :
                 f[x[1]].pc \in Past /\ f[x[1]].attempt < x[2]}

CallState(c) ==
  /\ DOMAIN call[c] = Fields /\ call[c].attempt \in 0 .. Attempts
  /\ call[c].pc \in {"check", "queue"} => call[c].attempt = 0
  /\ call[c].pc = "sleep" => call[c].attempt < Attempts

CallInv == DOMAIN call = Call /\ \A c \in Call : CallState(c)

ShieldInv ==
  /\ CallInv /\ passed \in Nat /\ faults \in Nat
  /\ open = 0 => passed = 0
  /\ open # 0 => passed + Cardinality(Pending(call)) <= Leak

LEMMA CallFacts ==
  /\ IsFiniteSet(Call) /\ Cardinality(Call) \in Nat /\ Cardinality(Call) - 1 \in Nat
  /\ Attempts \in Nat /\ Attempts >= 1 /\ Open \in Nat \ {0}
<1>1. IsFiniteSet(Call) /\ Call # {} /\ {Attempts, Open} \subseteq Nat \ {0}
  BY CallsAssumption
<1>2. Cardinality(Call) \in Nat /\ Cardinality(Call) # 0
  BY <1>1, FS_CardinalityType, FS_EmptySet
<1> QED
  BY <1>1, <1>2

-----------------------------------------------------------------------------
(* Counting.                                                               *)

LEMMA Products ==
  ASSUME NEW a \in Nat, NEW b \in Nat, NEW t \in Nat
  PROVE  /\ (a + b) * t = a * t + b * t
         /\ (a + (b + 1)) * t = (a + b) * t + t
         /\ a * t \in Nat
OBVIOUS

LEMMA LeakIs ==
  ASSUME faults \in Nat
  PROVE  Leak \in Nat /\ (Cardinality(Call) - 1) * Attempts <= Leak
<1>1. /\ (Cardinality(Call) - 1) * Attempts \in Nat /\ faults * Attempts \in Nat
      /\ Leak = (Cardinality(Call) - 1) * Attempts + faults * Attempts
  BY CallFacts, Products DEF Leak
<1> QED
  BY <1>1

LEMMA LeakGrows ==
  ASSUME faults \in Nat, faults' = faults + 1
  PROVE  Leak' = Leak + Attempts
BY CallFacts, Products DEF Leak

LEMMA AttemptsFinite ==
  IsFiniteSet(1 .. Attempts) /\ Cardinality(1 .. Attempts) = Attempts
<1>1. /\ IsFiniteSet(1 .. Attempts)
      /\ Cardinality(1 .. Attempts) = IF 1 > Attempts THEN 0 ELSE Attempts - 1 + 1
  <2>1. 1 \in Int /\ Attempts \in Int
    BY CallFacts
  <2> QED
    BY <2>1, FS_Interval, Zenon
<1>2. Attempts - 1 + 1 = Attempts /\ ~(1 > Attempts)
  BY CallFacts
<1> QED
  BY <1>1, <1>2, Zenon

\* The attempts of the calls in S.
LEMMA AttemptsOf ==
  ASSUME NEW S, IsFiniteSet(S)
  PROVE  /\ IsFiniteSet(S \X (1 .. Attempts))
         /\ Cardinality(S \X (1 .. Attempts)) = Cardinality(S) * Attempts
<1>1. /\ IsFiniteSet(S \X (1 .. Attempts))
      /\ Cardinality(S \X (1 .. Attempts)) = Cardinality(S) * Cardinality(1 .. Attempts)
  BY AttemptsFinite, FS_Product, Zenon
<1> QED
  BY <1>1, AttemptsFinite, Zenon

LEMMA PendingFinite ==
  ASSUME NEW P \in SUBSET (Call \X (1 .. Attempts)), NEW Q \in SUBSET P
  PROVE  /\ IsFiniteSet(P) /\ Cardinality(P) \in Nat
         /\ IsFiniteSet(Q) /\ Cardinality(Q) \in Nat
         /\ Cardinality(Q) <= Cardinality(P)
<1>1. IsFiniteSet(Call \X (1 .. Attempts))
  BY CallFacts, AttemptsOf
<1>2. IsFiniteSet(P)
  BY <1>1, FS_Subset
<1>3. IsFiniteSet(Q) /\ Cardinality(Q) <= Cardinality(P)
  BY <1>2, FS_Subset
<1> QED
  BY <1>2, <1>3, FS_CardinalityType

LEMMA PendingType ==
  ASSUME NEW f
  PROVE  /\ Pending(f) \in SUBSET (Call \X (1 .. Attempts))
         /\ IsFiniteSet(Pending(f)) /\ Cardinality(Pending(f)) \in Nat
<1>1. Pending(f) \in SUBSET (Call \X (1 .. Attempts))
  BY DEF Pending
<1> QED
  BY <1>1, PendingFinite

\* No call has more attempts to come in g than in f.
LEMMA PendingShrinks ==
  ASSUME NEW f, NEW g,
         \A c \in Call : g[c].pc \in Past =>
                           f[c].pc \in Past /\ g[c].attempt = f[c].attempt
  PROVE  Cardinality(Pending(g)) <= Cardinality(Pending(f))
<1>1. Pending(g) \in SUBSET Pending(f)
  BY DEF Pending
<1> QED
  BY <1>1, PendingType, PendingFinite

\* An attempt that is made is not to come any more.
LEMMA PendingSpent ==
  ASSUME NEW f, NEW g, NEW c \in Call, NEW n \in 1 .. Attempts,
         f[c].pc \in Past, f[c].attempt = n - 1, g[c].attempt = n,
         \A d \in Call \ {c} : g[d] = f[d]
  PROVE  Cardinality(Pending(g)) + 1 <= Cardinality(Pending(f))
<1>1. <<c, n>> \in Pending(f)
  <2>1. <<c, n>> \in Call \X (1 .. Attempts) /\ n - 1 < n
    OBVIOUS
  <2> QED
    BY <2>1 DEF Pending
<1>2. ASSUME NEW x \in Pending(g) PROVE x \in Pending(f) \ {<<c, n>>}
  <2>1. PICK d \in Call, k \in 1 .. Attempts : x = <<d, k>>
    BY DEF Pending
  <2>2. g[d].pc \in Past /\ g[d].attempt < k
    BY <2>1 DEF Pending
  <2>3. CASE d = c
    <3>1. n < k /\ f[c].attempt < k
      BY <2>2, <2>3
    <3> QED
      BY <2>1, <2>3, <3>1 DEF Pending
  <2>4. CASE d # c
    BY <2>1, <2>2, <2>4 DEF Pending
  <2> QED
    BY <2>3, <2>4
<1>3. Cardinality(Pending(f) \ {<<c, n>>}) = Cardinality(Pending(f)) - 1
  BY <1>1, PendingType, FS_RemoveElement
<1>4. /\ Pending(g) \in SUBSET (Pending(f) \ {<<c, n>>})
      /\ Pending(f) \ {<<c, n>>} \in SUBSET (Call \X (1 .. Attempts))
  BY <1>2, PendingType
<1>5. Cardinality(Pending(g)) <= Cardinality(Pending(f) \ {<<c, n>>})
  BY <1>4, PendingFinite
<1> QED
  BY <1>3, <1>5, PendingType

\* Only c gets attempts it did not have: all of them at most.
LEMMA PendingEntered ==
  ASSUME NEW f, NEW g, NEW c \in Call, \A d \in Call \ {c} : g[d] = f[d]
  PROVE  Cardinality(Pending(g)) <= Cardinality(Pending(f)) + Attempts
<1> DEFINE Own == {c} \X (1 .. Attempts)
<1>1. Pending(g) \in SUBSET (Pending(f) \cup Own)
  BY DEF Pending
<1>2. IsFiniteSet(Own) /\ Cardinality(Own) = Attempts
  <2>1. IsFiniteSet({c}) /\ Cardinality({c}) = 1
    BY FS_Singleton
  <2>2. IsFiniteSet(Own) /\ Cardinality(Own) = 1 * Attempts
    BY <2>1, AttemptsOf, Zenon
  <2> QED
    BY <2>2, CallFacts
<1>3. Pending(f) \cup Own \in SUBSET (Call \X (1 .. Attempts))
  BY PendingType
<1> HIDE DEF Own
<1>4. Cardinality(Pending(g)) <= Cardinality(Pending(f) \cup Own)
  BY <1>1, <1>3, PendingFinite
<1>5. Cardinality(Pending(f) \cup Own) = Cardinality(Pending(f)) + Cardinality(Own)
                                         - Cardinality(Pending(f) \cap Own)
  BY <1>2, PendingType, FS_Union
<1>6. /\ Cardinality(Pending(f) \cap Own) \in Nat
      /\ Cardinality(Pending(f) \cup Own) \in Nat
  <2>1. Pending(f) \cap Own \in SUBSET (Call \X (1 .. Attempts))
    BY PendingType
  <2> QED
    BY <2>1, <1>3, PendingFinite
<1> QED
  BY <1>2, <1>4, <1>5, <1>6, PendingType, CallFacts

\* A call that is not past the check has no attempts to come.
LEMMA PendingOthers ==
  ASSUME NEW f, NEW c \in Call, f[c].pc \notin Past
  PROVE  Cardinality(Pending(f)) <= (Cardinality(Call) - 1) * Attempts
<1> DEFINE Others == (Call \ {c}) \X (1 .. Attempts)
<1>1. Pending(f) \in SUBSET Others
  BY DEF Pending
<1>2. IsFiniteSet(Call \ {c}) /\ Cardinality(Call \ {c}) = Cardinality(Call) - 1
  BY CallFacts, FS_RemoveElement
<1>3. IsFiniteSet(Others) /\ Cardinality(Others) = (Cardinality(Call) - 1) * Attempts
  BY <1>2, AttemptsOf, Zenon
<1> HIDE DEF Others
<1>4. Cardinality(Pending(f)) <= Cardinality(Others)
  BY <1>1, <1>3, FS_Subset
<1> QED
  BY <1>3, <1>4

-----------------------------------------------------------------------------
(* The steps.                                                              *)

\* Call c moves alone.
Alone(c) == /\ DOMAIN call' = Call /\ \A d \in Call \ {c} : call'[d] = call[d]
            /\ DOMAIN call'[c] = Fields

\* c goes on with the attempt it has, or leaves.
GoesOn(c) ==
  /\ Alone(c) /\ call'[c].attempt \in 0 .. Attempts
  /\ call'[c].pc \in Past => call[c].pc \in Past /\ call'[c].attempt = call[c].attempt
  /\ call'[c].pc \notin {"check", "queue"}
  /\ call'[c].pc = "sleep" => call'[c].attempt < Attempts

LEMMA AloneKeeps ==
  ASSUME CallInv, NEW c \in Call, Alone(c), CallState(c)'
  PROVE  CallInv'
<1>1. ASSUME NEW d \in Call \ {c} PROVE CallState(d)'
  BY DEF CallInv, CallState, Alone
<1> QED
  BY <1>1 DEF CallInv, Alone

LEMMA GoesOnKeeps ==
  ASSUME CallInv, NEW c \in Call, GoesOn(c)
  PROVE  /\ CallInv'
         /\ \A d \in Call : call'[d].pc \in Past =>
                              call[d].pc \in Past /\ call'[d].attempt = call[d].attempt
<1>1. CallState(c)'
  BY DEF GoesOn, Alone, CallState
<1>2. CallInv'
  BY <1>1, AloneKeeps DEF GoesOn
<1> QED
  BY <1>2 DEF GoesOn, Alone

\* Faults only let more through.
Calm == passed' = passed /\ open' = open
Faulty == faults' = faults \/ Fault

LEMMA FaultyLeak ==
  ASSUME faults \in Nat, Faulty
  PROVE  faults' \in Nat /\ Leak' >= Leak /\ Leak' \in Nat /\ Leak \in Nat
<1>1. CASE faults' = faults
  BY <1>1, LeakIs DEF Leak
<1>2. CASE Fault
  <2>1. faults' = faults + 1 /\ Leak' = Leak + Attempts
    BY <1>2, LeakGrows DEF Fault
  <2> QED
    BY <2>1, LeakIs, CallFacts
<1> QED
  BY <1>1, <1>2 DEF Faulty

LEMMA CalmKeeps ==
  ASSUME ShieldInv, CallInv', Calm, Faulty,
         \A d \in Call : call'[d].pc \in Past =>
                           call[d].pc \in Past /\ call'[d].attempt = call[d].attempt
  PROVE  ShieldInv'
<1>1. Cardinality(Pending(call')) <= Cardinality(Pending(call))
  BY PendingShrinks
<1>2. Cardinality(Pending(call')) \in Nat /\ Cardinality(Pending(call)) \in Nat
  BY PendingType
<1>3. faults' \in Nat /\ Leak' >= Leak /\ Leak' \in Nat /\ Leak \in Nat
  BY FaultyLeak DEF ShieldInv
<1>4. passed \in Nat /\ passed' = passed /\ open' = open
  BY DEF ShieldInv, Calm
<1>5. open' # 0 => passed' + Cardinality(Pending(call')) <= Leak'
  <2>1. open # 0 => passed + Cardinality(Pending(call)) <= Leak
    BY DEF ShieldInv
  <2> HIDE DEF ShieldInv
  <2> QED
    BY <2>1, <1>1, <1>2, <1>3, <1>4
<1> QED
  BY <1>3, <1>4, <1>5 DEF ShieldInv

\* An exception or an answer ends the call.
LEMMA ReturnsGoesOn ==
  ASSUME CallInv, NEW c \in Call, Returns(c)
  PROVE  GoesOn(c) /\ call'[c].pc = "ended"
<1>1. call' = [call EXCEPT ![c] = Ended]
  BY DEF Returns
<1>2. call'[c] = Ended /\ DOMAIN call' = Call /\ \A d \in Call \ {c} : call'[d] = call[d]
  BY <1>1 DEF CallInv
<1>3. DOMAIN Ended = Fields /\ Ended.pc = "ended" /\ Ended.attempt = 0
  BY DEF Ended, Fields
<1> QED
  BY <1>2, <1>3, CallFacts DEF GoesOn, Alone, Past

\* The call goes to a place where it makes no attempt.
LEMMA GotoGoesOn ==
  ASSUME CallInv, NEW c \in Call, NEW pc, Goto(c, pc),
         pc \notin Past \cup {"check"}
  PROVE  GoesOn(c)
<1>1. call' = [call EXCEPT ![c].pc = pc]
  BY DEF Goto
<1>2. /\ DOMAIN call' = Call /\ \A d \in Call \ {c} : call'[d] = call[d]
      /\ DOMAIN call'[c] = Fields /\ call'[c].pc = pc
      /\ call'[c].attempt = call[c].attempt /\ call[c].attempt \in 0 .. Attempts
  BY <1>1 DEF CallInv, CallState, Fields
<1> QED
  BY <1>2 DEF GoesOn, Alone, Past

LEMMA RetryGoesOn ==
  ASSUME CallInv, NEW c \in Call, At(c, "read"), Retry(c) \/ NextClient(c)
  PROVE  GoesOn(c)
<1>1. /\ DOMAIN call' = Call /\ \A d \in Call \ {c} : call'[d] = call[d]
      /\ DOMAIN call'[c] = Fields /\ call'[c].attempt = call[c].attempt
      /\ \/ call'[c].pc = IF call[c].attempt = Attempts THEN "incr" ELSE "sleep"
         \/ call'[c].pc = "read"
  BY DEF Retry, Goto, NextClient, CallInv, CallState, Fields, At
<1>2. call[c].attempt \in 0 .. Attempts /\ call[c].pc = "read"
  BY DEF CallInv, CallState, At
<1> QED
  BY <1>1, <1>2, CallFacts DEF GoesOn, Alone, Past

LEMMA ProceedGoesOn ==
  ASSUME CallInv, NEW c \in Call, NEW n, NEW pc, Proceed(c, n, pc),
         pc \in {"expire", "set", "ended"}
  PROVE  GoesOn(c)
<1>1. CASE pc = "ended"
  BY <1>1, ReturnsGoesOn DEF Proceed, Raises
<1>2. CASE pc # "ended"
  <2>1. call' = [call EXCEPT ![c].pc = pc, ![c].n = n]
    BY <1>2 DEF Proceed
  <2>2. /\ DOMAIN call' = Call /\ \A d \in Call \ {c} : call'[d] = call[d]
        /\ DOMAIN call'[c] = Fields /\ call'[c].pc = pc
        /\ call'[c].attempt = call[c].attempt /\ call[c].attempt \in 0 .. Attempts
    BY <2>1 DEF CallInv, CallState, Fields
  <2> QED
    BY <2>2 DEF GoesOn, Alone, Past
<1> QED
  BY <1>1, <1>2

\* What a read ends with.
LEMMA ReadGoesOn ==
  ASSUME CallInv, NEW c \in Call, Read(c) \/ ReadClosed(c)
  PROVE  GoesOn(c) /\ Calm /\ Faulty
<1>1. At(c, "read")
  BY DEF Read, ReadClosed
<1>2. ASSUME Goto(c, "clear") \/ Goto(c, "incr") PROVE GoesOn(c)
  BY <1>2, GotoGoesOn DEF Past
<1>3. ASSUME Retry(c) \/ NextClient(c) PROVE GoesOn(c)
  BY <1>1, <1>3, RetryGoesOn
<1>4. ASSUME Raises(c) PROVE GoesOn(c)
  BY <1>4, ReturnsGoesOn DEF Raises
<1>5. GoesOn(c)
  BY <1>2, <1>3, <1>4 DEF Read, ReadClosed
<1>6. Calm /\ Faulty
  BY DEF Read, ReadClosed, Retry, NextClient, Calm, Faulty
<1> QED
  BY <1>5, <1>6

\* _clear_failures and _record_failure.
LEMMA RecordGoesOn ==
  ASSUME CallInv, NEW c \in Call,
         Clear(c) \/ Incr(c) \/ Expire(c) \/ RecordFails(c)
  PROVE  GoesOn(c) /\ Calm /\ Faulty
<1>1. CASE Clear(c)
  <2>1. Returns(c) /\ Calm /\ Faulty
    BY <1>1 DEF Clear, Calm, Faulty
  <2> QED
    BY <2>1, ReturnsGoesOn
<1>2. CASE Incr(c)
  <2>1. \E n, pc : Proceed(c, n, pc) /\ pc \in {"expire", "set", "ended"}
    <3> DEFINE n == Counted(failures.n)
               pc == CASE n = 1 -> "expire"
                       [] n > 1 /\ n >= Threshold -> "set"
                       [] OTHER -> "ended"
    <3>1. Proceed(c, n, pc)
      BY <1>2 DEF Incr
    <3>2. pc \in {"expire", "set", "ended"}
      OBVIOUS
    <3> QED
      BY <3>1, <3>2
  <2>2. Calm /\ Faulty
    BY <1>2 DEF Incr, Calm, Faulty
  <2> QED
    BY <2>1, <2>2, ProceedGoesOn
<1>3. CASE Expire(c)
  <2>1. \E n, pc : Proceed(c, n, pc) /\ pc \in {"expire", "set", "ended"}
    <3> DEFINE pc == IF call[c].n >= Threshold THEN "set" ELSE "ended"
    <3>1. Proceed(c, call[c].n, pc) /\ pc \in {"expire", "set", "ended"}
      BY <1>3 DEF Expire
    <3> QED
      BY <3>1
  <2>2. Calm /\ Faulty
    BY <1>3 DEF Expire, Calm, Faulty
  <2> QED
    BY <2>1, <2>2, ProceedGoesOn
<1>4. CASE RecordFails(c)
  <2>1. Returns(c) /\ Calm /\ Faulty
    BY <1>4 DEF RecordFails, Raises, Calm, Faulty
  <2> QED
    BY <2>1, ReturnsGoesOn
<1> QED
  BY <1>1, <1>2, <1>3, <1>4

\* The check: an open circuit turns the call away, unless asking it failed.
LEMMA CheckKeeps ==
  ASSUME ShieldInv, NEW c \in Call, Check(c)
  PROVE  ShieldInv'
<1>1. CallInv /\ Calm /\ faults \in Nat /\ passed \in Nat /\ call[c].attempt = 0
  BY DEF ShieldInv, CallInv, CallState, Check, At, Calm
<1>2. ASSUME Returns(c), faults' = faults PROVE ShieldInv'
  <2>1. GoesOn(c)
    BY <1>1, <1>2, ReturnsGoesOn
  <2> QED
    BY <1>1, <1>2, <2>1, GoesOnKeeps, CalmKeeps DEF Faulty
<1>3. ASSUME Goto(c, "queue"), (open = 0 /\ faults' = faults) \/ Fault
      PROVE  ShieldInv'
  <2>1. /\ Alone(c) /\ call'[c].pc = "queue" /\ call'[c].attempt = 0
    BY <1>1, <1>3 DEF Goto, CallInv, CallState, Fields, Alone
  <2>2. CallInv'
    <3>1. CallState(c)'
      BY <2>1, CallFacts DEF Alone, CallState
    <3> QED
      BY <1>1, <2>1, <3>1, AloneKeeps
  <2>3. CASE open = 0
    <3>1. open' = 0 /\ passed' = 0 /\ faults' \in Nat
      BY <1>1, <1>3, <2>3, FaultyLeak DEF Calm, ShieldInv, Faulty
    <3> QED
      BY <2>2, <3>1 DEF ShieldInv
  <2>4. CASE open # 0
    <3>1. faults' = faults + 1 /\ Leak' = Leak + Attempts /\ Leak \in Nat
      BY <1>1, <1>3, <2>4, LeakGrows, LeakIs DEF Fault
    <3>2. Cardinality(Pending(call')) <= Cardinality(Pending(call)) + Attempts
      BY <2>1, PendingEntered DEF Alone
    <3>3. Cardinality(Pending(call')) \in Nat /\ Cardinality(Pending(call)) \in Nat
      BY PendingType
    <3>4. passed + Cardinality(Pending(call)) <= Leak
      BY <2>4 DEF ShieldInv
    <3>5. passed' = passed /\ open' = open
      BY <1>1 DEF Calm
    <3>6. passed' + Cardinality(Pending(call')) <= Leak'
      BY <1>1, <3>1, <3>2, <3>3, <3>4, <3>5, CallFacts
    <3>7. faults' \in Nat
      BY <1>1, <3>1
    <3> QED
      BY <1>1, <2>2, <2>4, <3>5, <3>6, <3>7 DEF ShieldInv
  <2> QED
    BY <2>3, <2>4
<1>4. \/ Returns(c) /\ faults' = faults
      \/ Goto(c, "queue") /\ ((open = 0 /\ faults' = faults) \/ Fault)
  BY DEF Check, CircuitIsOpen, Raises
<1> QED
  BY <1>2, <1>3, <1>4

\* An attempt is one fewer to come, and at most one more that passed.
LEMMA AttemptKeeps ==
  ASSUME ShieldInv, NEW c \in Call, Enter(c) \/ Wake(c)
  PROVE  ShieldInv'
<1> DEFINE n == call[c].attempt + 1
<1>1. /\ CallInv /\ faults \in Nat /\ passed \in Nat
      /\ open = 0 => passed = 0
      /\ open # 0 => passed + Cardinality(Pending(call)) <= Leak
  BY DEF ShieldInv
<1>2. call[c].pc \in {"queue", "sleep"} /\ Attempt(c, n)
  BY <1>1, CallFacts DEF Enter, Wake, At, CallInv, CallState
<1>3. n \in 1 .. Attempts /\ call[c].attempt = n - 1
  BY <1>1, <1>2, CallFacts DEF CallInv, CallState
<1> HIDE DEF n
<1>4. /\ Alone(c) /\ call'[c].pc = "read" /\ call'[c].attempt = n
      /\ open' = open /\ faults' = faults /\ passed' \in {passed, passed + 1}
      /\ open = 0 => passed' = passed
  BY <1>1, <1>2 DEF Attempt, CallInv, CallState, Fields, Alone
<1>5. CallInv'
  <2>1. CallState(c)'
    BY <1>3, <1>4 DEF Alone, CallState
  <2> QED
    BY <1>1, <1>4, <2>1, AloneKeeps
<1>6. Cardinality(Pending(call')) + 1 <= Cardinality(Pending(call))
  BY <1>2, <1>3, <1>4, PendingSpent DEF Alone, Past
<1>7. Cardinality(Pending(call')) \in Nat /\ Cardinality(Pending(call)) \in Nat
  BY PendingType
<1>8. Leak' = Leak /\ Leak \in Nat
  BY <1>1, <1>4, LeakIs DEF Leak
<1>9. open # 0 => passed' + Cardinality(Pending(call')) <= Leak'
  BY <1>1, <1>4, <1>6, <1>7, <1>8
<1>10. passed' \in Nat
  BY <1>1, <1>4
<1> QED
  BY <1>1, <1>4, <1>5, <1>9, <1>10 DEF ShieldInv

\* The call that opens the circuit makes no attempt any more.
LEMMA SetKeeps ==
  ASSUME ShieldInv, NEW c \in Call, Set(c)
  PROVE  ShieldInv'
<1>1. /\ CallInv /\ faults \in Nat /\ passed \in Nat
      /\ open = 0 => passed = 0
      /\ open # 0 => passed + Cardinality(Pending(call)) <= Leak
  BY DEF ShieldInv
<1>2. /\ open' = Open /\ faults' = faults /\ passed' = passed /\ Returns(c)
  BY DEF Set, Raises
<1>3. GoesOn(c) /\ call'[c].pc = "ended"
  BY <1>1, <1>2, ReturnsGoesOn
<1>4. /\ CallInv'
      /\ Cardinality(Pending(call')) <= Cardinality(Pending(call))
  BY <1>1, <1>3, GoesOnKeeps, PendingShrinks
<1>5. Cardinality(Pending(call')) <= (Cardinality(Call) - 1) * Attempts
  BY <1>3, PendingOthers DEF Past
<1>6. Cardinality(Pending(call')) \in Nat /\ Cardinality(Pending(call)) \in Nat
  BY PendingType
<1>7. /\ Leak' = Leak /\ Leak \in Nat /\ (Cardinality(Call) - 1) * Attempts <= Leak
      /\ (Cardinality(Call) - 1) * Attempts \in Nat
  BY <1>1, <1>2, LeakIs, CallFacts, Products DEF Leak
<1>8. passed' + Cardinality(Pending(call')) <= Leak'
  <2>1. CASE open = 0
    <3> DEFINE others == (Cardinality(Call) - 1) * Attempts
    <3>1. others \in Nat /\ others <= Leak /\ Cardinality(Pending(call')) <= others
      BY <1>5, <1>7
    <3> HIDE DEF others
    <3> QED
      BY <2>1, <3>1, <1>1, <1>2, <1>6, <1>7
  <2>2. CASE open # 0
    BY <2>2, <1>1, <1>2, <1>4, <1>6, <1>7
  <2> QED
    BY <2>1, <2>2
<1>9. open' # 0
  BY <1>2, CallFacts
<1> QED
  BY <1>1, <1>2, <1>4, <1>8, <1>9 DEF ShieldInv

\* A run that starts or crashes has no call past the check.
LEMMA RunKeeps ==
  ASSUME ShieldInv, Start \/ Crash
  PROVE  ShieldInv'
<1> DEFINE first == [Ended EXCEPT !.pc = "check"]
<1>1. /\ call' = [c \in Call |-> first] \/ call' = [c \in Call |-> Ended]
      /\ Calm /\ Faulty
  BY DEF Start, Crash, Calm, Faulty
<1>2. /\ DOMAIN first = Fields /\ first.pc = "check" /\ first.attempt = 0
      /\ DOMAIN Ended = Fields /\ Ended.pc = "ended" /\ Ended.attempt = 0
  BY DEF Ended, Fields
<1> HIDE DEF first
<1>3. /\ DOMAIN call' = Call
      /\ \A c \in Call : /\ DOMAIN call'[c] = Fields /\ call'[c].attempt = 0
                         /\ call'[c].pc \in {"check", "ended"}
  BY <1>1, <1>2
<1>4. CallInv'
  BY <1>3, CallFacts DEF CallInv, CallState
<1>5. \A c \in Call : call'[c].pc \notin Past
  BY <1>3 DEF Past
<1> QED
  BY <1>1, <1>4, <1>5, CalmKeeps

\* The circuit closes by itself, and its count begins anew.
LEMMA TickKeeps ==
  ASSUME ShieldInv, Tick
  PROVE  ShieldInv'
<1>1. /\ UNCHANGED <<call, faults>>
      /\ open' = IF open \in {0, NoTtl} THEN open ELSE open - 1
      /\ passed' = IF open' = 0 THEN 0 ELSE passed
  BY DEF Tick
<1>2. CallInv' /\ Leak' = Leak /\ Pending(call') = Pending(call)
  BY <1>1 DEF ShieldInv, CallInv, CallState, Leak
<1>3. CASE open' = 0
  BY <1>1, <1>2, <1>3 DEF ShieldInv
<1>4. CASE open' # 0
  <2>1. open # 0 /\ passed' = passed
    BY <1>1, <1>4
  <2> QED
    BY <1>1, <1>2, <1>4, <2>1 DEF ShieldInv
<1> QED
  BY <1>3, <1>4

LEMMA ShieldInit == Init => ShieldInv
<1> SUFFICES ASSUME Init PROVE ShieldInv
  OBVIOUS
<1>1. DOMAIN Ended = Fields /\ Ended.pc = "ended" /\ Ended.attempt = 0
  BY DEF Ended, Fields
<1>2. CallInv
  BY <1>1, CallFacts DEF Init, CallInv, CallState
<1> QED
  BY <1>2 DEF Init, ShieldInv

LEMMA ShieldStep == ShieldInv /\ [Next]_vars => ShieldInv'
<1> SUFFICES ASSUME ShieldInv, [Next]_vars PROVE ShieldInv'
  OBVIOUS
<1>1. ASSUME UNCHANGED <<call, passed, open, faults>> PROVE ShieldInv'
  BY <1>1 DEF ShieldInv, CallInv, CallState, Leak
<1>2. CASE Close \/ Rest
  BY <1>1, <1>2 DEF Close, Rest
<1>3. ASSUME NEW c \in Call, GoesOn(c), Calm, Faulty PROVE ShieldInv'
  BY <1>3, GoesOnKeeps, CalmKeeps DEF ShieldInv
<1>4. ASSUME NEW c \in Call, Step(c) \/ RecordFails(c) PROVE ShieldInv'
  <2>1. CallInv
    BY DEF ShieldInv
  <2>2. CASE Read(c) \/ ReadClosed(c)
    BY <2>1, <2>2, <1>3, ReadGoesOn
  <2>3. CASE Clear(c) \/ Incr(c) \/ Expire(c) \/ RecordFails(c)
    BY <2>1, <2>3, <1>3, RecordGoesOn
  <2> QED
    BY <1>4, <2>2, <2>3, CheckKeeps, AttemptKeeps, SetKeeps DEF Step
<1>5. CASE UNCHANGED vars
  BY <1>1, <1>5 DEF vars
<1> QED
  BY <1>2, <1>4, <1>5, RunKeeps, TickKeeps DEF Next

\* An open circuit spares the provider: attempts are only made by calls that
\* had passed the check before it opened, and by one call more for each fault,
\* for any number of calls and attempts (providers/transport.py).
THEOREM OpenCircuitsShield == Spec => []CircuitShields
<1>1. ShieldInv => CircuitShields
  <2> SUFFICES ASSUME ShieldInv PROVE passed <= Leak
    BY DEF CircuitShields
  <2>1. passed \in Nat /\ Leak \in Nat /\ Cardinality(Pending(call)) \in Nat
    BY LeakIs, PendingType DEF ShieldInv
  <2>2. passed = 0 \/ passed + Cardinality(Pending(call)) <= Leak
    BY DEF ShieldInv
  <2> QED
    BY <2>1, <2>2
<1> QED
  BY <1>1, ShieldInit, ShieldStep, PTL DEF Spec
-----------------------------------------------------------------------------
(* What opens the circuit: the failures of the last m ticks.               *)

Counts == [Ages -> Nat]

Within(f, m) == UNION {{a} \X (1 .. f[a]) : a \in 0 .. m - 1}

LEMMA WindowFacts ==
  /\ Window \in Nat /\ Window >= 1 /\ Threshold \in Nat /\ Threshold >= 1
  /\ 0 \in Ages /\ Recorded = Within(recorded, Window)
<1>1. {Window, Threshold} \subseteq Nat \ {0}
  BY CallsAssumption
<1>2. 0 \in Ages
  BY <1>1 DEF Ages
<1> QED
  BY <1>1, <1>2 DEF Recorded, Within, Ages

LEMMA WithinIs ==
  ASSUME NEW f, NEW m
  PROVE  /\ \A x \in Within(f, m) : \E a \in 0 .. m - 1 : \E i \in 1 .. f[a] : x = <<a, i>>
         /\ \A a \in 0 .. m - 1 : \A i \in 1 .. f[a] : <<a, i>> \in Within(f, m)
BY DEF Within

LEMMA WithinFinite ==
  ASSUME NEW f \in Counts, NEW m \in 0 .. Window
  PROVE  IsFiniteSet(Within(f, m)) /\ Cardinality(Within(f, m)) \in Nat
<1>1. PICK A : A = 0 .. m - 1
  OBVIOUS
<1>2. m \in Nat /\ m <= Window
  BY WindowFacts
<1>3. IsFiniteSet(A)
  <2>1. 0 \in Int /\ m - 1 \in Int
    BY <1>2
  <2>2. IsFiniteSet(0 .. m - 1)
    BY <2>1, FS_Interval, Zenon
  <2> QED
    BY <1>1, <2>2
<1>4. \A a \in A : f[a] \in Nat
  <2>1. \A a \in A : a \in Ages
    BY <1>1, <1>2, WindowFacts DEF Ages
  <2> QED
    BY <2>1 DEF Counts
<1>5. PICK V : V = {{a} \X (1 .. f[a]) : a \in A}
  OBVIOUS
<1>6. [a \in A |-> {a} \X (1 .. f[a])] \in Surjection(A, V)
  BY <1>5 DEF Surjection
<1>7. IsFiniteSet(V)
  BY <1>3, <1>6, FS_Surjection
<1>8. ASSUME NEW W \in V PROVE IsFiniteSet(W)
  <2>1. PICK a \in A : W = {a} \X (1 .. f[a])
    BY <1>5
  <2>2. 1 \in Int /\ f[a] \in Int
    BY <1>4
  <2>3. IsFiniteSet(1 .. f[a])
    BY <2>2, FS_Interval, Zenon
  <2>4. IsFiniteSet({a})
    BY FS_Singleton
  <2> QED
    BY <2>1, <2>3, <2>4, FS_Product
<1>9. IsFiniteSet(UNION V)
  BY <1>7, <1>8, FS_UNION
<1>10. Within(f, m) = UNION V
  BY <1>1, <1>5 DEF Within
<1> QED
  BY <1>9, <1>10, FS_CardinalityType

LEMMA WithinMore ==
  ASSUME NEW f \in Counts, NEW m \in 0 .. Window, NEW k \in 0 .. Window, m <= k
  PROVE  Cardinality(Within(f, m)) <= Cardinality(Within(f, k))
<1>1. \A a \in 0 .. m - 1 : a \in 0 .. k - 1
  BY WindowFacts
<1>2. Within(f, m) \in SUBSET Within(f, k)
  BY <1>1, WithinIs
<1> QED
  BY <1>2, WithinFinite, FS_Subset

LEMMA WithinFirst ==
  ASSUME NEW f \in Counts
  PROVE  Cardinality(Within(f, 1)) = f[0] /\ f[0] \in Nat
<1>1. PICK n : n = f[0]
  OBVIOUS
<1>2. n \in Nat
  BY <1>1, WindowFacts DEF Counts
<1>3. IsFiniteSet(1 .. n) /\ Cardinality(1 .. n) = n
  <2>1. 1 \in Int /\ n \in Int
    BY <1>2
  <2>2. /\ IsFiniteSet(1 .. n)
        /\ Cardinality(1 .. n) = IF 1 > n THEN 0 ELSE n - 1 + 1
    BY <2>1, FS_Interval, Zenon
  <2>3. n = IF 1 > n THEN 0 ELSE n - 1 + 1
    BY <1>2
  <2> QED
    BY <2>2, <2>3
<1>4. PICK T : T = Within(f, 1)
  OBVIOUS
<1>5. PICK h : h = [i \in 1 .. n |-> <<0, i>>]
  OBVIOUS
<1>6. 0 .. 1 - 1 = {0}
  OBVIOUS
<1>7. h \in [1 .. n -> T]
  BY <1>1, <1>4, <1>5, <1>6, WithinIs
<1>8. ASSUME NEW x \in T PROVE \E i \in 1 .. n : h[i] = x
  BY <1>1, <1>4, <1>5, <1>6, WithinIs
<1>9. ASSUME NEW i \in 1 .. n, NEW k \in 1 .. n, h[i] = h[k] PROVE i = k
  BY <1>5, <1>9
<1>10. h \in Surjection(1 .. n, T) /\ h \in Injection(1 .. n, T)
  BY <1>7, <1>8, <1>9 DEF Surjection, Injection, IsInjective
<1>11. Cardinality(T) = Cardinality(1 .. n)
  BY <1>3, <1>10, FS_Surjection
<1> QED
  BY <1>1, <1>2, <1>3, <1>4, <1>11

\* A failure that is counted is one more in every window.
LEMMA WithinAdds ==
  ASSUME NEW f \in Counts, NEW g, g = [f EXCEPT ![0] = @ + 1], NEW m \in 1 .. Window
  PROVE  g \in Counts /\ Cardinality(Within(g, m)) = Cardinality(Within(f, m)) + 1
<1>1. PICK n : n = f[0]
  OBVIOUS
<1>2. n \in Nat /\ 0 \in 0 .. m - 1 /\ m \in 0 .. Window
  BY <1>1, WindowFacts DEF Counts
<1>3. g[0] = n + 1 /\ \A a \in 0 .. m - 1 : a # 0 => g[a] = f[a]
  <2>1. \A a \in 0 .. m - 1 : a \in Ages
    BY WindowFacts DEF Ages
  <2> QED
    BY <1>1, <1>2, <2>1 DEF Counts
<1>4. g \in Counts
  <2>1. g = [a \in Ages |-> IF a = 0 THEN n + 1 ELSE f[a]]
    BY <1>1 DEF Counts
  <2>2. \A a \in Ages : f[a] \in Nat
    BY DEF Counts
  <2>3. \A a \in Ages : (IF a = 0 THEN n + 1 ELSE f[a]) \in Nat
    BY <1>2, <2>2
  <2> QED
    BY <2>1, <2>3 DEF Counts
<1>5. PICK new : new = <<0, n + 1>>
  OBVIOUS
<1>6. new \in Within(g, m)
  <2>1. n + 1 \in 1 .. g[0]
    BY <1>2, <1>3
  <2> QED
    BY <1>2, <1>5, <2>1, WithinIs
<1>7. new \notin Within(f, m)
  <2> SUFFICES ASSUME new \in Within(f, m) PROVE FALSE
    OBVIOUS
  <2>1. PICK a \in 0 .. m - 1 : \E i \in 1 .. f[a] : new = <<a, i>>
    BY WithinIs
  <2>2. PICK i \in 1 .. f[a] : new = <<a, i>>
    BY <2>1
  <2>3. a = 0 /\ i = n + 1
    BY <1>5, <2>2
  <2> QED
    BY <1>1, <1>2, <2>2, <2>3
<1>8. ASSUME NEW x \in Within(f, m) PROVE x \in Within(g, m)
  <2>1. PICK a \in 0 .. m - 1 : \E i \in 1 .. f[a] : x = <<a, i>>
    BY WithinIs
  <2>2. PICK i \in 1 .. f[a] : x = <<a, i>>
    BY <2>1
  <2>3. i \in 1 .. g[a]
    BY <1>1, <1>2, <1>3
  <2> QED
    BY <2>2, <2>3, WithinIs
<1>9. ASSUME NEW x \in Within(g, m), x # new PROVE x \in Within(f, m)
  <2>0. \A y \in Within(g, m) : \E a \in 0 .. m - 1 : \E i \in 1 .. g[a] : y = <<a, i>>
    BY DEF Within
  <2>1. PICK a \in 0 .. m - 1 : \E i \in 1 .. g[a] : x = <<a, i>>
    BY <1>9, <2>0, Zenon
  <2>2. PICK i \in 1 .. g[a] : x = <<a, i>>
    BY <2>1
  <2>3. ASSUME a = 0 PROVE i # n + 1
    BY <1>5, <1>9, <2>2, <2>3
  <2>4. i \in 1 .. f[a]
    BY <1>1, <1>2, <1>3, <2>3
  <2> QED
    BY <2>2, <2>4, WithinIs
<1>10. Within(g, m) = Within(f, m) \cup {new}
  BY <1>6, <1>8, <1>9
<1>11. IsFiniteSet(Within(f, m)) /\ Cardinality(Within(f, m)) \in Nat
  BY <1>2, WithinFinite
<1>12. Cardinality(Within(f, m) \cup {new}) = Cardinality(Within(f, m)) + 1
  BY <1>7, <1>11, FS_AddElement
<1> QED
  BY <1>4, <1>10, <1>12

\* After a tick they are in a window that is longer by one.
LEMMA WithinAges ==
  ASSUME NEW f \in Counts, NEW g,
         g = [a \in Ages |-> IF a = 0 THEN 0 ELSE f[a - 1]], NEW m \in 0 .. Window - 1
  PROVE  /\ g \in Counts
         /\ Cardinality(Within(f, m)) <= Cardinality(Within(g, m + 1))
<1>1. m \in Nat /\ m + 1 \in 0 .. Window /\ m \in 0 .. Window
  BY WindowFacts
<1>2. g \in Counts
  <2>1. ASSUME NEW a \in Ages PROVE g[a] \in Nat
    <3>1. CASE a = 0
      BY <3>1
    <3>2. CASE a # 0
      <4>1. a - 1 \in Ages
        BY <3>2, WindowFacts DEF Ages
      <4> QED
        BY <3>2, <4>1 DEF Counts
    <3> QED
      BY <3>1, <3>2
  <2> QED
    BY <2>1 DEF Counts
<1>3. PICK S, T : S = Within(f, m) /\ T = Within(g, m + 1)
  OBVIOUS
<1>4. PICK h : h = [x \in S |-> <<x[1] + 1, x[2]>>]
  OBVIOUS
<1>5. ASSUME NEW x \in S
      PROVE  \E a \in 0 .. m - 1 : \E i \in 1 .. f[a] : x = <<a, i>>
  BY <1>3, WithinIs
<1>6. ASSUME NEW x \in S PROVE h[x] \in T
  <2>1. PICK a \in 0 .. m - 1 : \E i \in 1 .. f[a] : x = <<a, i>>
    BY <1>5
  <2>2. PICK i \in 1 .. f[a] : x = <<a, i>>
    BY <2>1
  <2>3. a + 1 \in 0 .. (m + 1) - 1 /\ a + 1 \in Ages /\ a + 1 # 0 /\ (a + 1) - 1 = a
    BY <1>1, WindowFacts DEF Ages
  <2>4. g[a + 1] = f[a]
    BY <2>3
  <2>5. <<a + 1, i>> \in Within(g, m + 1)
    BY <2>3, <2>4, WithinIs
  <2> QED
    BY <1>3, <1>4, <2>2, <2>5
<1>7. ASSUME NEW x \in S, NEW y \in S, h[x] = h[y] PROVE x = y
  <2>1. PICK a \in 0 .. m - 1 : \E i \in 1 .. f[a] : x = <<a, i>>
    BY <1>5
  <2>2. PICK i \in 1 .. f[a] : x = <<a, i>>
    BY <2>1
  <2>3. PICK b \in 0 .. m - 1 : \E k \in 1 .. f[b] : y = <<b, k>>
    BY <1>5
  <2>4. PICK k \in 1 .. f[b] : y = <<b, k>>
    BY <2>3
  <2>5. PICK c, d : c = a + 1 /\ d = b + 1
    OBVIOUS
  <2>6. h[x] = <<c, i>> /\ h[y] = <<d, k>>
    BY <1>4, <2>2, <2>4, <2>5
  <2>7. <<c, i>> = <<d, k>>
    BY <1>7, <2>6
  <2>8. c = d /\ i = k
    BY <2>7
  <2>9. a = b
    BY <1>1, <2>5, <2>8
  <2> QED
    BY <2>2, <2>4, <2>8, <2>9
<1>8. h \in Injection(S, T)
  BY <1>4, <1>6, <1>7 DEF Injection, IsInjective
<1>9. IsFiniteSet(T)
  BY <1>1, <1>2, <1>3, WithinFinite
<1> QED
  BY <1>2, <1>3, <1>8, <1>9, FS_Injection
-----------------------------------------------------------------------------
(* The circuit is opened by failures of the last window.                   *)

\* The failures a key counts are as old as it is, at most; one without TTL is
\* about to get it.
KeyEarned ==
  /\ failures.ttl # NoTtl =>
       failures.n <= Cardinality(Within(recorded, Window - failures.ttl + 1))
  /\ failures.ttl = NoTtl /\ failures.n # 0 => \E c \in Call : At(c, "expire")

\* Between INCR and EXPIRE, and between either and SET, no tick passes.
CallEarned(c) ==
  /\ At(c, "expire") => call[c].n = 1 /\ recorded[0] >= 1 /\ failures.n <= recorded[0]
  /\ At(c, "set") => Cardinality(Within(recorded, Window)) >= Threshold

EarnTypes ==
  /\ ShieldInv /\ open \in Nat /\ recorded \in Counts
  /\ DOMAIN failures = {"n", "ttl"} /\ failures.n \in Nat
  /\ failures.ttl \in (1 .. Window) \cup {NoTtl}
  /\ run = "resting" => \A c \in Call : At(c, "ended")

EarnInv ==
  /\ EarnTypes
  /\ faults = 0 => KeyEarned /\ \A c \in Call : CallEarned(c)

\* A call that has not ended moves, and nothing else of the job.
Moves(c) == Alone(c) /\ ~At(c, "ended") /\ run' \in {run, "raised"}

LEMMA StepMoves ==
  ASSUME CallInv, NEW c \in Call, Step(c) \/ RecordFails(c)
  PROVE  Moves(c)
<1>1. ~At(c, "ended")
  BY DEF Step, Check, Enter, Wake, Read, ReadClosed, Clear, Incr, Expire, Set,
         RecordFails, At
<1>2. CASE Check(c)
  <2>1. Returns(c) \/ Goto(c, "queue")
    BY <1>2 DEF Check, Raises
  <2>2. Alone(c)
    BY <2>1, ReturnsGoesOn DEF GoesOn, Goto, CallInv, CallState, Fields, Alone
  <2> QED
    BY <1>1, <1>2, <2>2 DEF Check, Raises, Moves
<1>3. CASE Enter(c) \/ Wake(c)
  BY <1>1, <1>3 DEF Enter, Wake, Attempt, CallInv, CallState, Fields, Alone, Moves, job
<1>4. CASE Read(c) \/ ReadClosed(c)
  <2>1. Alone(c)
    BY <1>4, ReadGoesOn DEF GoesOn
  <2>2. run' \in {run, "raised"}
    BY <1>4 DEF Read, ReadClosed, Retry, NextClient, Raises, job
  <2> QED
    BY <1>1, <2>1, <2>2 DEF Moves
<1>5. CASE Clear(c) \/ Incr(c) \/ Expire(c) \/ RecordFails(c)
  <2>1. Alone(c)
    BY <1>5, RecordGoesOn DEF GoesOn
  <2>2. run' \in {run, "raised"}
    BY <1>5 DEF Clear, Incr, Expire, RecordFails, Proceed, Raises, job
  <2> QED
    BY <1>1, <2>1, <2>2 DEF Moves
<1>6. CASE Set(c)
  <2>1. Returns(c) /\ run' = "raised"
    BY <1>6 DEF Set, Raises
  <2> QED
    BY <1>1, <2>1, ReturnsGoesOn DEF GoesOn, Moves
<1> QED
  BY <1>2, <1>3, <1>4, <1>5, <1>6 DEF Step

\* No call is there when the job rests.
LEMMA MovesTypes ==
  ASSUME EarnTypes, ShieldInv', NEW c \in Call, Moves(c), open' \in Nat,
         recorded' \in Counts, DOMAIN failures' = {"n", "ttl"}, failures'.n \in Nat,
         failures'.ttl \in (1 .. Window) \cup {NoTtl}
  PROVE  EarnTypes'
<1>1. run' # "resting"
  BY DEF EarnTypes, Moves
<1> QED
  BY <1>1 DEF EarnTypes

\* Steps that count no failure and give no TTL.
LEMMA QuietEarn ==
  ASSUME EarnInv, ShieldInv', NEW c \in Call, Moves(c), open' \in Nat,
         recorded' = recorded, failures' \in {failures, NoKey},
         faults' = 0 => faults = 0 /\ ~At(c, "expire"),
         call'[c].pc \notin {"expire", "set"}
  PROVE  EarnInv'
<1>1. NoKey.n = 0 /\ NoKey.ttl = NoTtl /\ DOMAIN NoKey = {"n", "ttl"}
  BY DEF NoKey
<1>2. EarnTypes'
  <2>1. DOMAIN failures' = {"n", "ttl"} /\ failures'.n \in Nat
        /\ failures'.ttl \in (1 .. Window) \cup {NoTtl}
    BY <1>1 DEF EarnInv, EarnTypes
  <2> QED
    BY <2>1, MovesTypes DEF EarnInv, EarnTypes
<1>3. ASSUME faults' = 0 PROVE KeyEarned'
  <2>1. KeyEarned /\ ~At(c, "expire")
    BY <1>3 DEF EarnInv
  <2>2. \A d \in Call : At(d, "expire") => At(d, "expire")'
    BY <2>1 DEF At, Moves, Alone
  <2>3. CASE failures' = failures
    BY <2>1, <2>2, <2>3 DEF KeyEarned
  <2>4. CASE failures' = NoKey
    BY <1>1, <2>4 DEF KeyEarned
  <2> QED
    BY <2>3, <2>4
<1>4. ASSUME faults' = 0, NEW d \in Call PROVE CallEarned(d)'
  <2>1. CASE d = c
    BY <2>1 DEF CallEarned, At
  <2>2. CASE d # c
    <3>1. call'[d] = call[d] /\ CallEarned(d)
      BY <1>4, <2>2 DEF Moves, Alone, EarnInv
    <3>2. failures'.n \in {failures.n, 0} /\ failures.n \in Nat
      BY <1>1 DEF EarnInv, EarnTypes
    <3>3. recorded[0] \in Nat
      BY WindowFacts DEF EarnInv, EarnTypes, Counts
    <3>4. failures.n <= recorded[0] => failures'.n <= recorded[0]
      BY <3>2, <3>3
    <3> QED
      BY <3>1, <3>4 DEF CallEarned, At
  <2> QED
    BY <2>1, <2>2
<1> QED
  BY <1>2, <1>3, <1>4 DEF EarnInv

\* EXPIRE comes in the tick of the INCR that created the key.
LEMMA ExpireEarn ==
  ASSUME EarnInv, ShieldInv', NEW c \in Call, Moves(c), Expire(c) PROVE EarnInv'
<1>1. /\ DOMAIN failures = {"n", "ttl"} /\ failures.n \in Nat
      /\ failures.ttl \in (1 .. Window) \cup {NoTtl}
      /\ recorded \in Counts /\ CallInv /\ recorded[0] \in Nat
  BY WindowFacts DEF EarnInv, EarnTypes, ShieldInv, Counts
<1>2. /\ failures' = IF failures.n = 0 THEN failures ELSE [failures EXCEPT !.ttl = Window]
      /\ UNCHANGED <<open, recorded, faults>> /\ At(c, "expire")
  BY DEF Expire
<1>3. /\ DOMAIN failures' = {"n", "ttl"} /\ failures'.n = failures.n
      /\ failures.n # 0 => failures'.ttl = Window
      /\ failures'.ttl \in (1 .. Window) \cup {NoTtl}
  <2>1. Window \in 1 .. Window
    BY WindowFacts
  <2> QED
    BY <1>1, <1>2, <2>1
<1>4. EarnTypes'
  <2>1. failures'.n \in Nat /\ recorded' \in Counts /\ open' \in Nat
    BY <1>1, <1>2, <1>3 DEF EarnInv, EarnTypes
  <2> QED
    BY <1>3, <2>1, MovesTypes DEF EarnInv
<1>5. call'[c].pc \in {"set", "ended"} /\ (call'[c].pc = "set" => call[c].n >= Threshold)
  <2>1. Proceed(c, call[c].n, IF call[c].n >= Threshold THEN "set" ELSE "ended")
    BY DEF Expire
  <2>2. CASE call[c].n >= Threshold
    <3>1. call' = [call EXCEPT ![c].pc = "set", ![c].n = call[c].n]
      BY <2>1, <2>2 DEF Proceed
    <3>2. call'[c].pc = "set"
      BY <1>1, <3>1 DEF CallInv, CallState, Fields
    <3> QED
      BY <2>2, <3>2
  <2>3. CASE ~(call[c].n >= Threshold)
    <3>1. Returns(c)
      BY <2>1, <2>3 DEF Proceed, Raises
    <3> QED
      BY <1>1, <3>1, ReturnsGoesOn
  <2> QED
    BY <2>2, <2>3
<1>6. ASSUME faults = 0
      PROVE  /\ call[c].n = 1 /\ recorded[0] >= 1 /\ failures.n <= recorded[0]
             /\ Cardinality(Within(recorded, 1)) = recorded[0]
             /\ Cardinality(Within(recorded, Window)) >= recorded[0]
  <2>1. call[c].n = 1 /\ recorded[0] >= 1 /\ failures.n <= recorded[0]
    BY <1>2, <1>6 DEF EarnInv, CallEarned
  <2>2. 1 \in 0 .. Window /\ Window \in 0 .. Window /\ 1 <= Window
    BY WindowFacts
  <2>3. Cardinality(Within(recorded, 1)) = recorded[0]
    BY <1>1, WithinFirst
  <2>4. Cardinality(Within(recorded, 1)) <= Cardinality(Within(recorded, Window))
    BY <1>1, <2>2, WithinMore
  <2>5. Cardinality(Within(recorded, Window)) \in Nat
    BY <1>1, <2>2, WithinFinite
  <2> QED
    BY <1>1, <2>1, <2>3, <2>4, <2>5
<1>7. ASSUME faults = 0 PROVE KeyEarned'
  <2>1. CASE failures.n = 0
    <3>1. failures' = failures
      BY <1>2, <2>1
    <3> QED
      BY <1>2, <1>7, <2>1, <3>1 DEF EarnInv, KeyEarned
  <2>2. CASE failures.n # 0
    <3>1. failures'.ttl = Window /\ Window # NoTtl /\ Window - Window + 1 = 1
      BY <1>3, <2>2, WindowFacts DEF NoTtl
    <3>2. failures'.n <= Cardinality(Within(recorded', 1))
      BY <1>2, <1>3, <1>6, <1>7
    <3> QED
      BY <3>1, <3>2 DEF KeyEarned
  <2> QED
    BY <2>1, <2>2
<1>8. ASSUME faults = 0, NEW d \in Call PROVE CallEarned(d)'
  <2>1. CASE d = c
    <3>1. ASSUME call'[c].pc = "set"
          PROVE  Cardinality(Within(recorded, Window)) >= Threshold
      <4>1. 1 >= Threshold /\ Cardinality(Within(recorded, Window)) \in Nat
        <5>1. Window \in 0 .. Window
          BY WindowFacts
        <5> QED
          BY <1>1, <1>5, <1>6, <1>8, <3>1, <5>1, WithinFinite
      <4>2. Cardinality(Within(recorded, Window)) >= recorded[0] /\ recorded[0] >= 1
        BY <1>6, <1>8
      <4> QED
        BY <1>1, <4>1, <4>2, WindowFacts
    <3> QED
      BY <1>2, <1>5, <2>1, <3>1 DEF CallEarned, At
  <2>2. CASE d # c
    <3>1. call'[d] = call[d] /\ CallEarned(d)
      BY <1>8, <2>2 DEF Moves, Alone, EarnInv
    <3> QED
      BY <1>2, <1>3, <3>1 DEF CallEarned, At
  <2> QED
    BY <2>1, <2>2
<1> QED
  BY <1>2, <1>4, <1>7, <1>8 DEF EarnInv
LEMMA CountedIs ==
  ASSUME NEW n \in Nat
  PROVE  Counted(n) \in Nat /\ Counted(n) <= n + 1 /\ (n = 0 => Counted(n) = 1)
BY WindowFacts DEF Counted

\* A failure is one more for the key and for the window.
LEMMA IncrEarn ==
  ASSUME EarnInv, ShieldInv', NEW c \in Call, Moves(c), Incr(c) PROVE EarnInv'
<1>1. /\ DOMAIN failures = {"n", "ttl"} /\ failures.n \in Nat
      /\ failures.ttl \in (1 .. Window) \cup {NoTtl}
      /\ recorded \in Counts /\ CallInv /\ recorded[0] \in Nat
  BY WindowFacts DEF EarnInv, EarnTypes, ShieldInv, Counts
<1>2. PICK n : n = Counted(failures.n)
  OBVIOUS
<1>3. n \in Nat /\ n <= failures.n + 1 /\ (failures.n = 0 => n = 1)
  BY <1>1, <1>2, CountedIs
<1>4. /\ failures' = [failures EXCEPT !.n = n]
      /\ recorded' = [recorded EXCEPT ![0] = @ + 1]
      /\ UNCHANGED <<open, faults>> /\ At(c, "incr")
  BY <1>2 DEF Incr
<1>5. DOMAIN failures' = {"n", "ttl"} /\ failures'.n = n /\ failures'.ttl = failures.ttl
  BY <1>1, <1>4
<1>6. /\ recorded' \in Counts /\ recorded'[0] = recorded[0] + 1
      /\ \A m \in 1 .. Window :
           Cardinality(Within(recorded', m)) = Cardinality(Within(recorded, m)) + 1
  <2>1. recorded'[0] = recorded[0] + 1
    BY <1>1, <1>4, WindowFacts DEF Counts
  <2>2. 1 \in 1 .. Window
    BY WindowFacts
  <2>3. \A m \in 1 .. Window :
          /\ recorded' \in Counts
          /\ Cardinality(Within(recorded', m)) = Cardinality(Within(recorded, m)) + 1
    BY <1>1, <1>4, WithinAdds
  <2> QED
    BY <2>1, <2>2, <2>3
<1>7. EarnTypes'
  <2>1. open' \in Nat
    BY <1>4 DEF EarnInv, EarnTypes
  <2> QED
    BY <1>1, <1>3, <1>5, <1>6, <2>1, MovesTypes DEF EarnInv
<1>8. /\ n = 1 => call'[c].pc = "expire" /\ call'[c].n = 1
      /\ n # 1 => call'[c].pc \in {"set", "ended"}
      /\ call'[c].pc = "set" => n > 1 /\ n >= Threshold
  <2>1. Proceed(c, n, CASE n = 1 -> "expire"
                        [] n > 1 /\ n >= Threshold -> "set"
                        [] OTHER -> "ended")
    BY <1>2 DEF Incr
  <2>2. ASSUME NEW pc, pc \in {"expire", "set"}, Proceed(c, n, pc)
        PROVE  call'[c].pc = pc /\ call'[c].n = n
    <3>1. call' = [call EXCEPT ![c].pc = pc, ![c].n = n]
      BY <2>2 DEF Proceed
    <3> QED
      BY <1>1, <3>1 DEF CallInv, CallState, Fields
  <2>3. ASSUME Proceed(c, n, "ended") PROVE call'[c].pc = "ended"
    BY <1>1, <2>3, ReturnsGoesOn DEF Proceed, Raises
  <2>4. CASE n = 1
    <3>1. Proceed(c, n, "expire")
      BY <2>1, <2>4
    <3> QED
      BY <2>2, <2>4, <3>1
  <2>5. CASE n # 1 /\ n > 1 /\ n >= Threshold
    <3>1. Proceed(c, n, "set")
      BY <2>1, <2>5
    <3> QED
      BY <2>2, <2>5, <3>1
  <2>6. CASE n # 1 /\ ~(n > 1 /\ n >= Threshold)
    <3>1. Proceed(c, n, "ended")
      BY <2>1, <2>6
    <3> QED
      BY <2>3, <2>6, <3>1
  <2> QED
    BY <2>4, <2>5, <2>6
<1>9. ASSUME faults = 0, failures.ttl # NoTtl
      PROVE  /\ Window - failures.ttl + 1 \in 1 .. Window
             /\ n <= Cardinality(Within(recorded', Window - failures.ttl + 1))
  <2>1. PICK m : m = Window - failures.ttl + 1
    OBVIOUS
  <2>2. m \in 1 .. Window /\ m \in 0 .. Window
    BY <1>1, <1>9, <2>1, WindowFacts
  <2>3. failures.n <= Cardinality(Within(recorded, m))
    BY <1>9, <2>1 DEF EarnInv, KeyEarned
  <2>4. Cardinality(Within(recorded, m)) \in Nat
    BY <1>1, <2>2, WithinFinite
  <2>5. Cardinality(Within(recorded', m)) = Cardinality(Within(recorded, m)) + 1
    BY <1>6, <2>2
  <2> QED
    BY <1>1, <1>3, <2>1, <2>2, <2>3, <2>4, <2>5
<1>10. ASSUME faults = 0, failures.ttl = NoTtl, failures.n # 0
       PROVE  /\ \E d \in Call \ {c} : At(d, "expire")
              /\ n <= recorded'[0]
  <2>1. PICK d \in Call : At(d, "expire")
    BY <1>10 DEF EarnInv, KeyEarned
  <2>2. d # c
    BY <1>4, <2>1 DEF At
  <2>3. failures.n <= recorded[0]
    BY <1>10, <2>1 DEF EarnInv, CallEarned
  <2> QED
    BY <1>1, <1>3, <1>6, <2>1, <2>2, <2>3
<1>11. ASSUME faults = 0 PROVE KeyEarned'
  <2>1. failures'.ttl # NoTtl =>
          failures'.n <= Cardinality(Within(recorded', Window - failures'.ttl + 1))
    BY <1>5, <1>9, <1>11
  <2>2. ASSUME failures'.ttl = NoTtl PROVE \E d \in Call : call'[d].pc = "expire"
    <3>1. CASE failures.n = 0
      BY <1>3, <1>8, <3>1
    <3>2. CASE failures.n # 0
      <4>1. PICK d \in Call \ {c} : At(d, "expire")
        BY <1>5, <1>10, <1>11, <2>2, <3>2
      <4> QED
        BY <4>1 DEF At, Moves, Alone
    <3> QED
      BY <3>1, <3>2
  <2> QED
    BY <2>1, <2>2 DEF KeyEarned, At
<1>12. ASSUME faults = 0, NEW d \in Call \ {c} PROVE CallEarned(d)'
  <2>1. call'[d] = call[d] /\ CallEarned(d)
    BY <1>12 DEF Moves, Alone, EarnInv
  <2>2. Window \in 1 .. Window /\ Window \in 0 .. Window
    BY WindowFacts
  <2>3. /\ Cardinality(Within(recorded', Window)) = Cardinality(Within(recorded, Window)) + 1
        /\ Cardinality(Within(recorded, Window)) \in Nat
    BY <1>1, <1>6, <2>2, WithinFinite
  <2>4. At(d, "set") => Cardinality(Within(recorded', Window)) >= Threshold
    BY <2>1, <2>3, WindowFacts DEF CallEarned
  <2>5. At(d, "expire") => /\ call[d].n = 1 /\ recorded'[0] >= 1 /\ failures'.n <= recorded'[0]
    BY <1>1, <1>3, <1>5, <1>6, <2>1 DEF CallEarned
  <2> QED
    BY <2>1, <2>4, <2>5 DEF CallEarned, At
<1>13. ASSUME faults = 0 PROVE CallEarned(c)'
  <2>1. ASSUME n = 1 PROVE recorded'[0] >= 1 /\ failures'.n <= recorded'[0]
    BY <1>1, <1>5, <1>6, <2>1
  <2>2. ASSUME n > 1, n >= Threshold
        PROVE  Cardinality(Within(recorded', Window)) >= Threshold
    <3>1. PICK most : most = Cardinality(Within(recorded', Window))
      OBVIOUS
    <3>2. /\ most \in Nat
          /\ \A m \in 1 .. Window : Cardinality(Within(recorded', m)) <= most
      <4>1. Window \in 0 .. Window /\ \A m \in 1 .. Window : m \in 0 .. Window /\ m <= Window
        BY WindowFacts
      <4> QED
        BY <1>6, <3>1, <4>1, WithinMore, WithinFinite
    <3>3. CASE failures.ttl # NoTtl
      <4>1. PICK m \in 1 .. Window : n <= Cardinality(Within(recorded', m))
        BY <1>9, <1>13, <3>3
      <4>2. m \in 0 .. Window
        BY WindowFacts
      <4>3. Cardinality(Within(recorded', m)) \in Nat
        BY <1>6, <4>2, WithinFinite
      <4>4. n <= most
        BY <1>3, <3>2, <4>1, <4>3
      <4> QED
        BY <1>3, <2>2, <3>1, <3>2, <4>4, WindowFacts
    <3>4. CASE failures.ttl = NoTtl
      <4>1. failures.n # 0
        BY <1>3, <2>2
      <4>2. n <= recorded'[0]
        BY <1>10, <1>13, <3>4, <4>1
      <4>3. Cardinality(Within(recorded', 1)) = recorded'[0] /\ recorded'[0] \in Nat
        BY <1>6, WithinFirst
      <4>4. 1 \in 1 .. Window
        BY WindowFacts
      <4>5. Cardinality(Within(recorded', 1)) <= most
        BY <3>2, <4>4
      <4>6. n <= most
        BY <1>3, <3>2, <4>2, <4>3, <4>5
      <4> QED
        BY <1>3, <2>2, <3>1, <3>2, <4>6, WindowFacts
    <3> QED
      BY <3>3, <3>4
  <2>3. call'[c].pc = "expire" => n = 1
    BY <1>8
  <2> QED
    BY <1>8, <2>1, <2>2, <2>3 DEF CallEarned, At
<1> QED
  BY <1>4, <1>7, <1>11, <1>12, <1>13 DEF EarnInv

\* A run starts when none is under way, and a crash is a fault.
LEMMA RunEarn ==
  ASSUME EarnInv, ShieldInv', Start \/ Close \/ Rest \/ Crash PROVE EarnInv'
<1>1. UNCHANGED <<failures, open, recorded>>
  BY DEF Start, Close, Rest, Crash
<1>2. DOMAIN Ended = {"pc", "attempt", "client", "n"} /\ Ended.pc = "ended"
  BY DEF Ended
<1>3. run' = "resting" => \A c \in Call : At(c, "ended")'
  BY <1>2 DEF EarnInv, EarnTypes, Start, Close, Rest, Crash, At
<1>4. EarnTypes'
  BY <1>1, <1>3 DEF EarnInv, EarnTypes
<1>5. faults \in Nat
  BY DEF EarnInv, EarnTypes, ShieldInv
<1>6. CASE Crash
  <2>1. faults' # 0
    BY <1>5, <1>6 DEF Crash, Fault
  <2> QED
    BY <1>4, <2>1 DEF EarnInv
<1>7. CASE Close \/ Rest
  <2>1. UNCHANGED <<call, faults>>
    BY <1>7 DEF Close, Rest
  <2>2. faults = 0 => KeyEarned' /\ \A c \in Call : CallEarned(c)'
    BY <1>1, <2>1 DEF EarnInv, KeyEarned, CallEarned, At
  <2> QED
    BY <1>4, <2>1, <2>2 DEF EarnInv
<1>8. CASE Start
  <2>1. /\ faults' = faults /\ \A c \in Call : At(c, "ended")
        /\ call' = [c \in Call |-> [Ended EXCEPT !.pc = "check"]]
    BY <1>8 DEF Start, EarnInv, EarnTypes
  <2>2. \A c \in Call : call'[c].pc = "check"
    BY <1>2, <2>1
  <2>3. \A c \in Call : CallEarned(c)'
    BY <2>2 DEF CallEarned, At
  <2>4. faults = 0 => KeyEarned'
    BY <1>1, <2>1 DEF EarnInv, KeyEarned, At
  <2> QED
    BY <1>4, <2>1, <2>3, <2>4 DEF EarnInv
<1> QED
  BY <1>6, <1>7, <1>8

\* A tick ages the failures and the key alike.
LEMMA TickEarn ==
  ASSUME EarnInv, ShieldInv', Tick PROVE EarnInv'
<1>1. /\ DOMAIN failures = {"n", "ttl"} /\ failures.n \in Nat
      /\ failures.ttl \in (1 .. Window) \cup {NoTtl}
      /\ recorded \in Counts /\ open \in Nat
  BY DEF EarnInv, EarnTypes
<1>2. /\ UNCHANGED <<run, call, faults>>
      /\ \A c \in Call : ~At(c, "expire") /\ ~At(c, "set")
      /\ recorded' = [a \in Ages |-> IF a = 0 THEN 0 ELSE recorded[a - 1]]
      /\ open' = IF open \in {0, NoTtl} THEN open ELSE open - 1
  BY DEF Tick, At
<1>3. \/ failures.ttl = NoTtl /\ failures' = failures
      \/ failures.ttl = 1 /\ failures' = NoKey
      \/ /\ failures.ttl \in 2 .. Window
         /\ failures' = [failures EXCEPT !.ttl = failures.ttl - 1]
  <2>1. failures' = CASE failures.ttl = NoTtl -> failures
                      [] failures.ttl = 1 -> NoKey
                      [] OTHER -> [failures EXCEPT !.ttl = @ - 1]
    BY DEF Tick
  <2>2. CASE failures.ttl = NoTtl
    <3>1. failures.ttl # 1
      BY <2>2 DEF NoTtl
    <3> QED
      BY <2>1, <2>2, <3>1
  <2>3. CASE failures.ttl = 1
    <3>1. failures.ttl # NoTtl
      BY <2>3 DEF NoTtl
    <3> QED
      BY <2>1, <2>3, <3>1
  <2>4. CASE failures.ttl # NoTtl /\ failures.ttl # 1
    <3>1. failures.ttl \in 2 .. Window
      BY <1>1, <2>4, WindowFacts
    <3> QED
      BY <2>1, <2>4, <3>1
  <2> QED
    BY <2>2, <2>3, <2>4
<1>4. NoKey.n = 0 /\ NoKey.ttl = NoTtl /\ DOMAIN NoKey = {"n", "ttl"}
  BY DEF NoKey
<1>5. /\ DOMAIN failures' = {"n", "ttl"} /\ failures'.n \in Nat
      /\ failures'.ttl \in (1 .. Window) \cup {NoTtl}
  <2>1. CASE failures.ttl = NoTtl /\ failures' = failures
    BY <1>1, <2>1
  <2>2. CASE failures' = NoKey
    BY <1>4, <2>2
  <2>3. CASE /\ failures.ttl \in 2 .. Window
             /\ failures' = [failures EXCEPT !.ttl = failures.ttl - 1]
    <3>1. failures.ttl - 1 \in 1 .. Window
      BY <2>3, WindowFacts
    <3> QED
      BY <1>1, <2>3, <3>1
  <2> QED
    BY <1>3, <2>1, <2>2, <2>3
<1>6. recorded' \in Counts
  <2>1. 0 \in 0 .. Window - 1
    BY WindowFacts
  <2> QED
    BY <1>1, <1>2, <2>1, WithinAges
<1>7. open' \in Nat
  BY <1>1, <1>2
<1>8. EarnTypes'
  <2>1. run' = "resting" => \A c \in Call : At(c, "ended")'
    BY <1>2 DEF EarnInv, EarnTypes, At
  <2> QED
    BY <1>5, <1>6, <1>7, <2>1 DEF EarnTypes
<1>9. \A c \in Call : CallEarned(c)'
  BY <1>2 DEF CallEarned, At
<1>10. ASSUME faults = 0 PROVE KeyEarned'
  <2>1. CASE failures.ttl = NoTtl /\ failures' = failures
    <3>1. failures.n = 0
      BY <1>2, <1>10, <2>1 DEF EarnInv, KeyEarned
    <3> QED
      BY <2>1, <3>1 DEF KeyEarned
  <2>2. CASE failures' = NoKey
    BY <1>4, <2>2 DEF KeyEarned
  <2>3. CASE /\ failures.ttl \in 2 .. Window
             /\ failures' = [failures EXCEPT !.ttl = failures.ttl - 1]
    <3>1. PICK m : m = Window - failures.ttl + 1
      OBVIOUS
    <3>2. failures.ttl # NoTtl
      BY <2>3, WindowFacts DEF NoTtl
    <3>3. failures.n <= Cardinality(Within(recorded, m))
      BY <1>10, <3>1, <3>2 DEF EarnInv, KeyEarned
    <3>4. /\ failures'.n = failures.n /\ failures'.ttl = failures.ttl - 1
          /\ Window - failures'.ttl + 1 = m + 1
      BY <1>1, <2>3, <3>1, WindowFacts
    <3>5. m \in 0 .. Window - 1 /\ m \in 0 .. Window /\ m + 1 \in 0 .. Window
      BY <2>3, <3>1, WindowFacts
    <3>6. Cardinality(Within(recorded, m)) <= Cardinality(Within(recorded', m + 1))
      BY <1>1, <1>2, <3>5, WithinAges
    <3>7. /\ Cardinality(Within(recorded, m)) \in Nat
          /\ Cardinality(Within(recorded', m + 1)) \in Nat
      BY <1>1, <1>6, <3>5, WithinFinite
    <3>8. failures'.n <= Cardinality(Within(recorded', Window - failures'.ttl + 1))
      BY <1>1, <3>3, <3>4, <3>6, <3>7
    <3>9. failures'.ttl # NoTtl
      BY <2>3, <3>4, WindowFacts DEF NoTtl
    <3> QED
      BY <3>8, <3>9 DEF KeyEarned
  <2> QED
    BY <1>3, <2>1, <2>2, <2>3
<1> QED
  BY <1>2, <1>8, <1>9, <1>10 DEF EarnInv
\* What a call does between its check and its count.
LEMMA QuietStep ==
  ASSUME EarnInv, ShieldInv', NEW c \in Call, Moves(c),
         \/ Check(c) \/ Enter(c) \/ Wake(c) \/ Read(c) \/ ReadClosed(c)
         \/ Clear(c) \/ Set(c) \/ RecordFails(c)
  PROVE  EarnInv'
<1>1. CallInv /\ faults \in Nat /\ open \in Nat
  BY DEF EarnInv, EarnTypes, ShieldInv
<1>2. ASSUME Fault PROVE faults' # 0
  BY <1>1, <1>2 DEF Fault
<1>3. ASSUME NEW pc, Goto(c, pc) PROVE call'[c].pc = pc
  BY <1>1, <1>3 DEF Goto, CallInv, CallState, Fields
<1>4. ASSUME Returns(c) PROVE call'[c].pc = "ended"
  BY <1>1, <1>4, ReturnsGoesOn
<1>5. CASE Check(c)
  <2>1. /\ UNCHANGED <<failures, open, recorded>> /\ ~At(c, "expire")
        /\ Returns(c) \/ Goto(c, "queue")
        /\ faults' = faults \/ Fault
    BY <1>5 DEF Check, CircuitIsOpen, Raises, At
  <2>2. call'[c].pc \notin {"expire", "set"}
    BY <1>3, <1>4, <2>1
  <2> QED
    BY <1>1, <1>2, <2>1, <2>2, QuietEarn
<1>6. CASE Enter(c) \/ Wake(c)
  <2>1. /\ UNCHANGED <<failures, open, recorded, faults>> /\ ~At(c, "expire")
        /\ call'[c].pc = "read"
    BY <1>1, <1>6 DEF Enter, Wake, Attempt, At, CallInv, CallState, Fields
  <2> QED
    BY <1>1, <2>1, QuietEarn
<1>7. CASE Read(c) \/ ReadClosed(c)
  <2>1. UNCHANGED <<failures, open, recorded, faults>> /\ At(c, "read")
    BY <1>7 DEF Read, ReadClosed, Retry, NextClient, Raises
  <2>2. ~At(c, "expire")
    BY <2>1 DEF At
  <2>3. ASSUME NextClient(c) PROVE call'[c].pc = "read"
    BY <1>1, <2>1, <2>3 DEF NextClient, At, CallInv, CallState, Fields
  <2>4. \/ NextClient(c) \/ Returns(c)
        \/ Goto(c, "clear") \/ Goto(c, "incr") \/ Goto(c, "sleep")
    BY <1>7 DEF Read, ReadClosed, Retry, Raises
  <2>5. call'[c].pc \notin {"expire", "set"}
    BY <1>3, <1>4, <2>3, <2>4
  <2> QED
    BY <1>1, <2>1, <2>2, <2>5, QuietEarn
<1>8. CASE Clear(c)
  <2>1. /\ failures' \in {failures, NoKey} /\ UNCHANGED <<open, recorded>>
        /\ ~At(c, "expire") /\ Returns(c) /\ (faults' = faults \/ Fault)
    BY <1>8 DEF Clear, At
  <2>2. call'[c].pc = "ended"
    BY <1>4, <2>1
  <2> QED
    BY <1>1, <1>2, <2>1, <2>2, QuietEarn
<1>9. CASE Set(c)
  <2>1. /\ UNCHANGED <<failures, recorded, faults>> /\ open' = Open
        /\ ~At(c, "expire") /\ Returns(c)
    BY <1>9 DEF Set, Raises, At
  <2>2. call'[c].pc = "ended" /\ open' \in Nat
    BY <1>4, <2>1, CallFacts
  <2> QED
    BY <1>1, <2>1, <2>2, QuietEarn
<1>10. CASE RecordFails(c)
  <2>1. UNCHANGED <<failures, open, recorded>> /\ Returns(c) /\ Fault
    BY <1>10 DEF RecordFails, Raises
  <2>2. call'[c].pc = "ended" /\ faults' # 0
    BY <1>2, <1>4, <2>1
  <2> QED
    BY <1>1, <2>1, <2>2, QuietEarn
<1> QED
  BY <1>5, <1>6, <1>7, <1>8, <1>9, <1>10

LEMMA EarnInit == Init => EarnInv
<1> SUFFICES ASSUME Init PROVE EarnInv
  OBVIOUS
<1>1. /\ NoKey.n = 0 /\ NoKey.ttl = NoTtl /\ DOMAIN NoKey = {"n", "ttl"}
      /\ Ended.pc = "ended"
  BY DEF NoKey, Ended
<1>2. /\ failures = NoKey /\ open = 0 /\ recorded \in Counts
      /\ \A c \in Call : call[c] = Ended
  BY DEF Init, Counts
<1>3. \A c \in Call : At(c, "ended") /\ CallEarned(c)
  BY <1>1, <1>2 DEF At, CallEarned
<1>4. KeyEarned
  BY <1>1, <1>2 DEF KeyEarned
<1> QED
  BY <1>1, <1>2, <1>3, <1>4, ShieldInit DEF EarnInv, EarnTypes

LEMMA EarnStep == EarnInv /\ [Next]_vars => EarnInv'
<1> SUFFICES ASSUME EarnInv, [Next]_vars PROVE EarnInv'
  OBVIOUS
<1>1. ShieldInv' /\ CallInv
  BY ShieldStep DEF EarnInv, EarnTypes, ShieldInv
<1>2. ASSUME NEW c \in Call, Step(c) \/ RecordFails(c) PROVE EarnInv'
  <2>1. Moves(c)
    BY <1>1, <1>2, StepMoves
  <2> QED
    BY <1>1, <1>2, <2>1, QuietStep, IncrEarn, ExpireEarn DEF Step
<1>3. CASE UNCHANGED vars
  <2>1. UNCHANGED <<run, call, failures, open, faults, recorded>>
    BY <1>3 DEF vars
  <2>2. EarnTypes'
    BY <1>1, <2>1 DEF EarnInv, EarnTypes, At
  <2>3. faults = 0 => KeyEarned' /\ \A c \in Call : CallEarned(c)'
    BY <2>1 DEF EarnInv, KeyEarned, CallEarned, At
  <2> QED
    BY <2>1, <2>2, <2>3 DEF EarnInv
<1> QED
  BY <1>1, <1>2, <1>3, RunEarn, TickEarn DEF Next

\* As long as no command of Valkey fails and no process crashes, the circuit
\* is only opened when as many failures as the threshold were counted within
\* the window, for any number of calls and any times (providers/transport.py).
THEOREM EveryOpeningEarned == Spec => OpeningsAreEarned
<1>1. ASSUME EarnInv, [Next]_vars, open' > open, faults = 0
      PROVE  Cardinality(Recorded) >= Threshold
  <2>1. open \in Nat /\ CallInv
    BY <1>1 DEF EarnInv, EarnTypes, ShieldInv
  <2>2. ~(open' = open) /\ ~(open' = open - 1)
    BY <1>1, <2>1
  <2>3. ~UNCHANGED vars /\ ~Start /\ ~Close /\ ~Rest /\ ~Crash /\ ~Tick
    BY <2>2 DEF vars, Start, Close, Rest, Crash, Tick
  <2>4. PICK c \in Call : Step(c) \/ RecordFails(c)
    BY <1>1, <2>3 DEF Next
  <2>5. Calm => open' = open
    BY DEF Calm
  <2>6. /\ ~Read(c) /\ ~ReadClosed(c)
        /\ ~Clear(c) /\ ~Incr(c) /\ ~Expire(c) /\ ~RecordFails(c)
    BY <2>1, <2>2, <2>5, ReadGoesOn, RecordGoesOn
  <2>7. ~Check(c) /\ ~Enter(c) /\ ~Wake(c)
    BY <2>2 DEF Check, Enter, Wake, Attempt
  <2>8. At(c, "set")
    BY <2>4, <2>6, <2>7 DEF Step, Set
  <2>9. Cardinality(Within(recorded, Window)) >= Threshold
    BY <1>1, <2>8 DEF EarnInv, CallEarned
  <2> QED
    BY <2>9, WindowFacts
<1>2. EarnInv /\ [Next]_vars
        => [open' > open /\ faults = 0 => Cardinality(Recorded) >= Threshold]_vars
  BY <1>1
<1> QED
  BY <1>2, EarnInit, EarnStep, PTL DEF Spec, OpeningsAreEarned
=============================================================================

------------------------ MODULE RequestPipelineProofs -------------------------
(***************************************************************************)
(* Proofs about the rate limiter, the writers' drain and the metrics' way  *)
(* through RequestPipeline, for any quota, sizes, number of requests,      *)
(* replicas and faults.                                                    *)
(*                                                                         *)
(* The key of a minute lives until the minute is over or it is evicted, so *)
(* that during the minute its count and a quota for each eviction bound    *)
(* what was admitted; a key that came late counts from one again, but what *)
(* it lets pass was late. Whatever is counted within the quota has its     *)
(* place among the verdicts, the requests whose answer was lost too.       *)
(*                                                                         *)
(* The drain rests on a count: what a replica has not ticked off is        *)
(* exactly its queue and its batch, until the timeout throws both away.    *)
(*                                                                         *)
(* The accounts: the rows of a transaction and those that follow are the   *)
(* totals of the batch (RowsInv), so that a step moves metrics from one    *)
(* place of a replica to another and the sum stays (WayMoves).             *)
(***************************************************************************)
EXTENDS RequestPipeline, FiniteSetTheorems, WellFoundedInduction, TLAPS

Verdicts == [admitted : Nat, rejected : Nat, late : Nat, unanswered : Nat,
             evicted : Nat]

LimitTypes == /\ minute \in Nat
              /\ counter \in [Minute -> [n : Nat, since : Nat]]
              /\ counting \in [Minute -> Nat]
              /\ verdicts \in [Minute -> Verdicts]

\* What may be admitted in minute k beyond the count of its key: a quota for
\* each time the key was evicted.
Extra(k) == Quota * verdicts[k].evicted

\* What the key of minute k knows of its requests.
KeyInv(k) ==
  /\ k > minute => counting[k] = 0 /\ counter[k].n = 0 /\ verdicts[k].admitted = 0
  /\ k = minute => /\ verdicts[k].admitted <= counter[k].n + Extra(k)
                   /\ counter[k].n > 0 => counter[k].since = minute
  /\ verdicts[k].admitted <= Quota + Extra(k)
  /\ Placed(k) >= Quota \/ Placed(k) >= counter[k].n
  /\ verdicts[k].rejected > 0 => Placed(k) >= Quota

LimitInv == LimitTypes /\ \A k \in Minute : KeyInv(k)

LEMMA MinutesAreNumbers == Minute \subseteq Nat /\ MaxMinute \in Nat /\ Quota \in Nat \ {0}
BY PipelineAssumption DEF Minute

\* Another eviction is another quota.
LEMMA OneMoreQuota ==
  \A n \in Nat : Quota * n \in Nat /\ Quota * (n + 1) = Quota * n + Quota
BY MinutesAreNumbers

LEMMA ExtraIsNat ==
  ASSUME LimitTypes PROVE \A k \in Minute : Extra(k) \in Nat
BY OneMoreQuota DEF LimitTypes, Verdicts, Extra

LEMMA LimitInit == Init => LimitInv
<1> SUFFICES ASSUME Init PROVE LimitInv
  OBVIOUS
<1>1. LimitTypes
  BY DEF Init, LimitTypes, None, Verdicts
<1>2. ASSUME NEW k \in Minute PROVE KeyInv(k)
  <2>1. /\ counting[k] = 0 /\ counter[k].n = 0
        /\ verdicts[k].admitted = 0 /\ verdicts[k].rejected = 0 /\ verdicts[k].late = 0
        /\ verdicts[k].unanswered = 0
    BY DEF Init, None
  <2>2. Extra(k) \in Nat
    BY <1>1, ExtraIsNat
  <2> QED
    BY <2>1, <2>2, MinutesAreNumbers DEF KeyInv, Placed
<1> QED
  BY <1>1, <1>2 DEF LimitInv

\* A request that arrives is of the minute that is.
LEMMA ArriveKeeps == LimitInv /\ ArriveLimited => LimitInv'
<1> SUFFICES ASSUME LimitInv, ArriveLimited PROVE LimitInv'
  OBVIOUS
<1>1. /\ UNCHANGED <<minute, counter, verdicts>>
      /\ counting' = [counting EXCEPT ![minute] = @ + 1]
  BY DEF ArriveLimited, Arrives
<1>2. LimitTypes'
  <2>1. counting' \in [Minute -> Nat]
    <3>1. counting \in [Minute -> Nat]
      BY DEF LimitInv, LimitTypes
    <3>2. minute \in Minute => counting[minute] + 1 \in Nat
      BY <3>1
    <3> QED
      BY <1>1, <3>1, <3>2
  <2> QED
    BY <1>1, <2>1 DEF LimitInv, LimitTypes
<1>3. ASSUME NEW k \in Minute PROVE KeyInv(k)'
  <2>1. k # minute => counting'[k] = counting[k]
    BY <1>1 DEF LimitInv, LimitTypes
  <2> QED
    BY <1>1, <2>1, MinutesAreNumbers DEF LimitInv, LimitTypes, KeyInv, Extra, Placed
<1> QED
  BY <1>2, <1>3 DEF LimitInv

\* One request less is waiting to be counted.
LEMMA AnsweredEffect ==
  ASSUME LimitTypes, NEW k \in Minute, Answered(k)
  PROVE  /\ counting[k] > 0
         /\ counting' \in [Minute -> Nat]
         /\ \A j \in Minute : counting[j] = 0 => counting'[j] = 0
<1>1. counting[k] > 0 /\ counting' = [counting EXCEPT ![k] = @ - 1]
  BY DEF Answered
<1>2. counting[k] - 1 \in Nat
  BY <1>1 DEF LimitTypes
<1>3. counting' \in [Minute -> Nat]
  BY <1>1, <1>2 DEF LimitTypes
<1>4. ASSUME NEW j \in Minute, counting[j] = 0 PROVE counting'[j] = 0
  BY <1>1, <1>4 DEF LimitTypes
<1> QED
  BY <1>1, <1>3, <1>4

\* The script raises the count of its key by one.
LEMMA WindowEffect ==
  ASSUME LimitTypes, NEW k \in Minute, FixedWindow(k)
  PROVE  /\ counter' \in [Minute -> [n : Nat, since : Nat]]
         /\ counter'[k].n = counter[k].n + 1
         /\ counter'[k].since = IF counter[k].n = 0 THEN minute ELSE counter[k].since
         /\ \A j \in Minute \ {k} : counter'[j] = counter[j]
<1> DEFINE n == counter[k].n + 1
           c == [n |-> n, since |-> IF n = 1 THEN minute ELSE counter[k].since]
<1>1. counter[k].n \in Nat /\ counter[k].since \in Nat /\ minute \in Nat
  BY DEF LimitTypes
<1>2. c \in [n : Nat, since : Nat]
  BY <1>1
<1>3. counter' = [counter EXCEPT ![k] = c]
  BY DEF FixedWindow
<1>4. counter'[k] = c /\ \A j \in Minute \ {k} : counter'[j] = counter[j]
  BY <1>3 DEF LimitTypes
<1>5. c.since = IF counter[k].n = 0 THEN minute ELSE counter[k].since
  BY <1>1
<1> QED
  BY <1>2, <1>3, <1>4, <1>5 DEF LimitTypes

\* An answer v more for minute k.
LEMMA VerdictEffect ==
  ASSUME LimitTypes, NEW k \in Minute,
         NEW v \in {"admitted", "rejected", "late", "unanswered", "evicted"},
         verdicts' = [verdicts EXCEPT ![k][v] = @ + 1]
  PROVE  /\ verdicts' \in [Minute -> Verdicts]
         /\ verdicts'[k] = [verdicts[k] EXCEPT ![v] = @ + 1]
         /\ \A j \in Minute \ {k} : verdicts'[j] = verdicts[j]
<1>1. verdicts[k] \in Verdicts
  BY DEF LimitTypes
<1>2. [verdicts[k] EXCEPT ![v] = @ + 1] \in Verdicts
  BY <1>1 DEF Verdicts
<1> QED
  BY <1>2 DEF LimitTypes

\* The key and the verdicts of one minute change.
LEMMA KeyMoves ==
  ASSUME LimitInv, NEW k \in Minute, LimitTypes', minute' = minute,
         \A j \in Minute : counting[j] = 0 => counting'[j] = 0,
         \A j \in Minute \ {k} : counter'[j] = counter[j] /\ verdicts'[j] = verdicts[j],
         KeyInv(k)'
  PROVE  LimitInv'
<1>1. ASSUME NEW j \in Minute \ {k} PROVE KeyInv(j)'
  BY <1>1 DEF LimitInv, KeyInv, Extra, Placed
<1> QED
  BY <1>1 DEF LimitInv

\* A request that is counted is not of a minute that has not come.
LEMMA CountedHasCome ==
  ASSUME LimitInv, NEW k \in Minute, counting[k] > 0 PROVE k <= minute
BY MinutesAreNumbers DEF LimitInv, LimitTypes, KeyInv

\* The numbers KeyInv(k) speaks of.
LEMMA KeyNumbers ==
  ASSUME LimitTypes, NEW k \in Minute
  PROVE  /\ counter[k].n \in Nat /\ counter[k].since \in Nat /\ minute \in Nat
         /\ verdicts[k].admitted \in Nat /\ verdicts[k].rejected \in Nat
         /\ verdicts[k].late \in Nat /\ verdicts[k].unanswered \in Nat
         /\ verdicts[k].evicted \in Nat /\ Extra(k) \in Nat
BY ExtraIsNat DEF LimitTypes, Verdicts

\* The script admits no more than the quota in its minute, and rejects only
\* when the count of the key, which is all that passed since, is above it.
LEMMA CountKeeps == ASSUME LimitInv, NEW k \in Minute, Count(k) PROVE LimitInv'
<1>1. LimitTypes /\ KeyInv(k) /\ FixedWindow(k) /\ minute' = minute
      /\ verdicts' = [verdicts EXCEPT ![k][Verdict(k)] = @ + 1]
  BY DEF Count, LimitInv
<1>2. PICK v \in {"admitted", "rejected", "late"} : v = Verdict(k)
  BY DEF Verdict
<1>3. /\ verdicts' \in [Minute -> Verdicts]
      /\ verdicts'[k] = [verdicts[k] EXCEPT ![v] = @ + 1]
      /\ \A j \in Minute \ {k} : verdicts'[j] = verdicts[j]
  BY <1>1, <1>2, VerdictEffect
<1>4. /\ counter' \in [Minute -> [n : Nat, since : Nat]]
      /\ counter'[k].n = counter[k].n + 1
      /\ counter'[k].since = IF counter[k].n = 0 THEN minute ELSE counter[k].since
      /\ \A j \in Minute \ {k} : counter'[j] = counter[j]
  BY <1>1, WindowEffect
<1>5. /\ counting[k] > 0
      /\ counting' \in [Minute -> Nat]
      /\ \A j \in Minute : counting[j] = 0 => counting'[j] = 0
  BY <1>1, AnsweredEffect DEF Count
<1>6. LimitTypes'
  BY <1>1, <1>3, <1>4, <1>5 DEF LimitTypes
<1>7. k <= minute
  BY <1>5, CountedHasCome
<1>8. /\ verdicts'[k].admitted = verdicts[k].admitted + IF v = "admitted" THEN 1 ELSE 0
      /\ verdicts'[k].rejected = verdicts[k].rejected + IF v = "rejected" THEN 1 ELSE 0
      /\ verdicts'[k].late = verdicts[k].late + IF v = "late" THEN 1 ELSE 0
      /\ verdicts'[k].unanswered = verdicts[k].unanswered
      /\ Extra(k)' = Extra(k)
  <2>1. verdicts[k] \in Verdicts
    BY <1>1 DEF LimitTypes
  <2> QED
    BY <1>2, <1>3, <2>1 DEF Verdicts, Extra
<1>9. v = IF counter[k].n + 1 > Quota THEN "rejected"
          ELSE IF minute > k THEN "late" ELSE "admitted"
  BY <1>2 DEF Verdict, OverQuota
<1>10. KeyInv(k)'
  BY <1>1, <1>4, <1>7, <1>8, <1>9, KeyNumbers, MinutesAreNumbers DEF KeyInv, Placed
<1> QED
  BY <1>1, <1>3, <1>4, <1>5, <1>6, <1>10, KeyMoves

\* A request that got no answer from the script took a place or changed nothing.
LEMMA CountFailsKeeps == ASSUME LimitInv, NEW k \in Minute, CountFails(k) PROVE LimitInv'
<1>1. /\ LimitTypes /\ KeyInv(k) /\ minute' = minute
      /\ counting[k] > 0
      /\ counting' \in [Minute -> Nat]
      /\ \A j \in Minute : counting[j] = 0 => counting'[j] = 0
  BY AnsweredEffect DEF CountFails, LimitInv
<1>2. CASE UNCHANGED <<counter, verdicts>>
  BY <1>1, <1>2 DEF LimitInv, LimitTypes, KeyInv, Extra, Placed
<1>3. CASE FixedWindow(k) /\ verdicts' = IF Verdict(k) = "rejected" THEN verdicts
                              ELSE [verdicts EXCEPT ![k].unanswered = @ + 1]
  <2>1. /\ counter' \in [Minute -> [n : Nat, since : Nat]]
        /\ counter'[k].n = counter[k].n + 1
        /\ counter'[k].since = IF counter[k].n = 0 THEN minute ELSE counter[k].since
        /\ \A j \in Minute \ {k} : counter'[j] = counter[j]
    BY <1>1, <1>3, WindowEffect
  <2>2. k <= minute
    BY <1>1, CountedHasCome
  <2>3. CASE Verdict(k) = "rejected"
    <3>1. verdicts' = verdicts /\ counter[k].n + 1 > Quota
      BY <1>3, <2>3 DEF Verdict, OverQuota
    <3>2. LimitTypes'
      BY <1>1, <2>1, <3>1 DEF LimitTypes
    <3>3. KeyInv(k)'
      BY <1>1, <2>1, <2>2, <3>1, KeyNumbers, MinutesAreNumbers DEF KeyInv, Placed, Extra
    <3> QED
      BY <1>1, <2>1, <3>1, <3>2, <3>3, KeyMoves
  <2>4. CASE Verdict(k) # "rejected"
    <3>1. /\ verdicts' = [verdicts EXCEPT ![k]["unanswered"] = @ + 1]
          /\ ~(counter[k].n + 1 > Quota)
      BY <1>3, <2>4 DEF Verdict, OverQuota
    <3>2. /\ verdicts' \in [Minute -> Verdicts]
          /\ verdicts'[k] = [verdicts[k] EXCEPT !["unanswered"] = @ + 1]
          /\ \A j \in Minute \ {k} : verdicts'[j] = verdicts[j]
      BY <1>1, <3>1, VerdictEffect
    <3>3. LimitTypes'
      BY <1>1, <2>1, <3>2 DEF LimitTypes
    <3>4. /\ verdicts'[k].admitted = verdicts[k].admitted
          /\ verdicts'[k].rejected = verdicts[k].rejected
          /\ verdicts'[k].late = verdicts[k].late
          /\ verdicts'[k].unanswered = verdicts[k].unanswered + 1
          /\ Extra(k)' = Extra(k)
      <4>1. verdicts[k] \in Verdicts
        BY <1>1 DEF LimitTypes
      <4> QED
        BY <3>2, <4>1 DEF Verdicts, Extra
    <3>5. KeyInv(k)'
      BY <1>1, <2>1, <2>2, <3>1, <3>4, KeyNumbers, MinutesAreNumbers DEF KeyInv, Placed
    <3> QED
      BY <1>1, <2>1, <3>2, <3>3, <3>5, KeyMoves
  <2> QED
    BY <2>3, <2>4
<1> QED
  BY <1>2, <1>3 DEF CountFails

\* An eviction takes the count and hands out another quota.
LEMMA EvictKeeps == ASSUME LimitInv, NEW k \in Minute, Evict(k) PROVE LimitInv'
<1>1. /\ LimitTypes /\ KeyInv(k) /\ UNCHANGED <<minute, counting>>
      /\ counter' = [counter EXCEPT ![k] = None]
      /\ verdicts' = [verdicts EXCEPT ![k]["evicted"] = @ + 1]
      /\ counter[k].n > 0
  BY DEF Evict, LimitInv
<1>2. /\ verdicts' \in [Minute -> Verdicts]
      /\ verdicts'[k] = [verdicts[k] EXCEPT !["evicted"] = @ + 1]
      /\ \A j \in Minute \ {k} : verdicts'[j] = verdicts[j]
  BY <1>1, VerdictEffect
<1>3. /\ counter' \in [Minute -> [n : Nat, since : Nat]]
      /\ counter'[k].n = 0
      /\ \A j \in Minute \ {k} : counter'[j] = counter[j]
  BY <1>1 DEF LimitTypes, None
<1>4. LimitTypes'
  BY <1>1, <1>2, <1>3 DEF LimitTypes
<1>5. /\ verdicts'[k].admitted = verdicts[k].admitted
      /\ verdicts'[k].rejected = verdicts[k].rejected
      /\ verdicts'[k].late = verdicts[k].late
      /\ verdicts'[k].unanswered = verdicts[k].unanswered
      /\ Extra(k)' = Extra(k) + Quota
  <2>1. verdicts[k] \in Verdicts
    BY <1>1 DEF LimitTypes
  <2>2. verdicts'[k].evicted = verdicts[k].evicted + 1 /\ verdicts[k].evicted \in Nat
    BY <1>2, <2>1 DEF Verdicts
  <2> QED
    BY <1>2, <2>1, <2>2, OneMoreQuota DEF Verdicts, Extra
<1>6. k <= minute
  BY <1>1, KeyNumbers, MinutesAreNumbers DEF KeyInv
<1>7. KeyInv(k)'
  BY <1>1, <1>3, <1>5, <1>6, KeyNumbers, MinutesAreNumbers DEF KeyInv, Placed
<1> QED
  BY <1>1, <1>2, <1>3, <1>4, <1>7, KeyMoves

\* Only the key of a minute that is over expires.
LEMMA ExpireKeeps == ASSUME LimitInv, NEW k \in Minute, Expire(k) PROVE LimitInv'
<1>1. /\ UNCHANGED <<minute, counting, verdicts>>
      /\ counter' = [counter EXCEPT ![k] = None]
      /\ counter[k].n > 0 /\ counter[k].since < minute
  BY DEF Expire
<1>2. LimitTypes'
  BY <1>1 DEF LimitInv, LimitTypes, None
<1>3. counter'[k].n = 0 /\ \A j \in Minute : j # k => counter'[j] = counter[j]
  BY <1>1 DEF LimitInv, LimitTypes, None
<1>4. minute \in Nat /\ counter[k].n \in Nat /\ counter[k].since \in Nat /\ verdicts[k] \in Verdicts
  BY DEF LimitInv, LimitTypes
<1>5. k < minute
  BY <1>1, <1>4, MinutesAreNumbers DEF LimitInv, KeyInv
<1>6. KeyInv(k)'
  BY <1>1, <1>3, <1>4, <1>5, MinutesAreNumbers DEF LimitInv, KeyInv, Extra, Placed, Verdicts
<1>7. ASSUME NEW j \in Minute, j # k PROVE KeyInv(j)'
  BY <1>1, <1>3, <1>7 DEF LimitInv, KeyInv, Extra, Placed
<1> QED
  BY <1>2, <1>6, <1>7 DEF LimitInv

\* A new minute has no key and no request yet.
LEMMA TickKeeps == ASSUME LimitInv, Tick PROVE LimitInv'
<1>1. minute' = minute + 1 /\ UNCHANGED <<counter, counting, verdicts>>
  BY DEF Tick, limits
<1>2. LimitTypes'
  BY <1>1 DEF LimitInv, LimitTypes
<1>3. ASSUME NEW k \in Minute PROVE KeyInv(k)'
  <2>1. minute \in Nat /\ k \in Nat
    BY MinutesAreNumbers DEF LimitInv, LimitTypes
  <2>2. LimitTypes /\ KeyInv(k) /\ Extra(k) \in Nat /\ Extra(k)' = Extra(k)
    BY <1>1, ExtraIsNat DEF LimitInv, Extra
  <2> QED
    BY <1>1, <2>1, <2>2, KeyNumbers DEF KeyInv, Placed
<1> QED
  BY <1>2, <1>3 DEF LimitInv

\* Everything else is not about the limiter.
LEMMA OtherwiseKeeps ==
  ASSUME LimitInv, UNCHANGED <<minute, counter, counting, verdicts>>
  PROVE  LimitInv'
BY DEF LimitInv, LimitTypes, KeyInv, Extra, Placed

LEMMA LimitStep == LimitInv /\ [Next]_vars => LimitInv'
<1> SUFFICES ASSUME LimitInv, [Next]_vars PROVE LimitInv'
  OBVIOUS
<1>1. CASE ArriveLimited
  BY <1>1, ArriveKeeps
<1>2. CASE ArriveFree
  BY <1>2, OtherwiseKeeps DEF ArriveFree, Arrives
<1>3. CASE Tick
  BY <1>3, TickKeeps
<1>4. ASSUME NEW k \in Minute, Count(k) \/ CountFails(k) \/ Expire(k) \/ Evict(k)
      PROVE  LimitInv'
  BY <1>4, CountKeeps, CountFailsKeeps, ExpireKeeps, EvictKeeps
<1>5. ASSUME NEW p \in Replica,
             \/ \E b \in Bucket : Finish(p, b)
             \/ Writer(p) \/ BatchFails(p) \/ BeginStop(p) \/ Joined(p) \/ JoinTimesOut(p)
      PROVE  LimitInv'
  <2>1. UNCHANGED <<minute, limits>>
    BY <1>5 DEF Finish, Writer, Get, Seal, Upsert, Commit, Deadlock, BatchFails, BeginStop,
                Joined, JoinTimesOut
  <2> QED
    BY <2>1, OtherwiseKeeps DEF limits
<1>6. CASE UNCHANGED vars
  BY <1>6, OtherwiseKeeps DEF vars, limits
<1> QED
  BY <1>1, <1>2, <1>3, <1>4, <1>5, <1>6 DEF Next

\* During its minute a key's count and the evictions bound what was admitted, a
\* count is of requests that took a place, and only minutes that are over
\* expire (_LUA_FIXED_WINDOW, with lost replies and volatile-lfu).
THEOREM LimitInvariant == Spec => []LimitInv
BY LimitInit, LimitStep, PTL DEF Spec

\* No more requests of a client than the quota pass in their minute, and the
\* quota once more for each eviction of the key, for any quota and number of
\* requests, on any replicas (RateLimiter.__call__).
THEOREM QuotaHolds == Spec => []QuotaPerMinute
<1>1. LimitInv => QuotaPerMinute
  <2> SUFFICES ASSUME LimitInv, NEW k \in Minute
               PROVE  verdicts[k].admitted <= Quota * (1 + verdicts[k].evicted)
    BY DEF QuotaPerMinute
  <2>1. verdicts[k].admitted <= Quota + Extra(k) /\ verdicts[k].evicted \in Nat
    BY KeyNumbers DEF LimitInv, KeyInv
  <2>2. Quota * (1 + verdicts[k].evicted) = Quota + Extra(k)
    BY <2>1, OneMoreQuota, MinutesAreNumbers DEF Extra
  <2> QED
    BY <2>1, <2>2
<1> QED
  BY <1>1, LimitInvariant, PTL

\* A request is only turned away when the quota of its minute was used, by
\* requests that passed in time or late or whose counting was not answered, even
\* when keys expire or are evicted (_LUA_FIXED_WINDOW).
THEOREM RejectionsAreEarned == Spec => []RejectedOverQuota
<1>1. LimitInv => RejectedOverQuota
  BY DEF LimitInv, KeyInv, RejectedOverQuota
<1> QED
  BY <1>1, LimitInvariant, PTL

-----------------------------------------------------------------------------
(* The drain: what a replica has not ticked off is what it still holds.    *)

Fields == {"pc", "batch", "rows", "held"}

\* unfinished counts the queue and the batch until the timeout throws both
\* away, and a writer that was stopped takes nothing more.
HeldInv(p) ==
  /\ queue[p] \in Seq(Bucket) /\ writer[p].batch \in Seq(Bucket)
  /\ DOMAIN writer[p] = Fields
  /\ stop[p] \in {"running", "joining", "joined", "timed out"}
  /\ stop[p] # "timed out" =>
       unfinished[p] = Len(queue[p]) + Len(writer[p].batch)
  /\ stop[p] = "joined" => unfinished[p] = 0
  /\ stop[p] \in {"joined", "timed out"} => writer[p].pc = "stopped"

DrainInv ==
  /\ DOMAIN queue = Replica /\ DOMAIN unfinished = Replica
  /\ DOMAIN writer = Replica /\ DOMAIN stop = Replica
  /\ \A p \in Replica : HeldInv(p)

LEMMA DrainInit == Init => DrainInv
<1> SUFFICES ASSUME Init PROVE DrainInv
  OBVIOUS
<1>1. ASSUME NEW p \in Replica PROVE HeldInv(p)
  <2>1. /\ queue[p] = <<>> /\ unfinished[p] = 0 /\ stop[p] = "running"
        /\ writer[p] = NoBatch
    BY DEF Init
  <2>2. NoBatch.batch = <<>> /\ DOMAIN NoBatch = Fields
    BY DEF NoBatch, Fields
  <2> QED
    BY <2>1, <2>2 DEF HeldInv
<1> QED
  BY <1>1 DEF Init, DrainInv

\* Only replica p's queue and writer move.
Apart(p) ==
  /\ DOMAIN queue' = Replica /\ DOMAIN unfinished' = Replica
  /\ DOMAIN writer' = Replica /\ DOMAIN stop' = Replica
  /\ \A o \in Replica \ {p} : /\ queue'[o] = queue[o] /\ writer'[o] = writer[o]
                              /\ unfinished'[o] = unfinished[o]
                              /\ stop'[o] = stop[o]

LEMMA DrainMoves ==
  ASSUME DrainInv, NEW p \in Replica, Apart(p), HeldInv(p)' PROVE DrainInv'
<1>1. ASSUME NEW o \in Replica \ {p} PROVE HeldInv(o)'
  BY DEF DrainInv, HeldInv, Apart
<1> QED
  BY <1>1 DEF DrainInv, Apart

LEMMA Counting ==
  ASSUME NEW a \in Nat, NEW b \in Nat
  PROVE  /\ a + b = 0 => a = 0 /\ b = 0
         /\ (a + b) + 1 = (a + 1) + b
         /\ a + b = (a - 1) + (b + 1)
         /\ (a + b) - b = a + 0
OBVIOUS

LEMMA DrainStays ==
  ASSUME DrainInv, UNCHANGED <<queue, unfinished, writer, stop>> PROVE DrainInv'
BY DEF DrainInv, HeldInv

\* A metric is put into the queue, or dropped.
LEMMA FinishDrain ==
  ASSUME DrainInv, NEW p \in Replica, NEW b \in Bucket, Finish(p, b)
  PROVE  DrainInv'
<1>1. HeldInv(p) /\ stop[p] = "running" /\ UNCHANGED <<writer, stop>>
  BY DEF DrainInv, Finish
<1>2. CASE /\ queue' = [queue EXCEPT ![p] = Append(@, b)]
           /\ unfinished' = [unfinished EXCEPT ![p] = @ + 1]
  <2>1. Apart(p)
    BY <1>1, <1>2 DEF DrainInv, Apart
  <2>2. /\ queue'[p] = Append(queue[p], b) /\ unfinished'[p] = unfinished[p] + 1
        /\ writer'[p] = writer[p] /\ stop'[p] = "running"
    BY <1>1, <1>2 DEF DrainInv
  <2>3. /\ queue[p] \in Seq(Bucket) /\ writer[p].batch \in Seq(Bucket)
        /\ unfinished[p] = Len(queue[p]) + Len(writer[p].batch)
    BY <1>1 DEF HeldInv
  <2>4. queue'[p] \in Seq(Bucket) /\ Len(queue'[p]) = Len(queue[p]) + 1
    BY <2>2, <2>3
  <2>5. Len(queue[p]) \in Nat /\ Len(writer[p].batch) \in Nat
    BY <2>3
  <2>6. unfinished[p] + 1 = (Len(queue[p]) + 1) + Len(writer[p].batch)
    <3>1. (Len(queue[p]) + Len(writer[p].batch)) + 1
            = (Len(queue[p]) + 1) + Len(writer[p].batch)
      BY <2>5, Counting
    <3> QED
      BY <2>3, <3>1, Zenon
  <2>7. HeldInv(p)'
    BY <1>1, <2>2, <2>3, <2>4, <2>6, Zenon DEF HeldInv
  <2> QED
    BY <2>1, <2>7, DrainMoves
<1>3. CASE UNCHANGED <<queue, unfinished>>
  BY <1>1, <1>3, DrainStays
<1> QED
  BY <1>2, <1>3 DEF Finish

\* What is taken from the queue is in the batch.
LEMMA GetDrain ==
  ASSUME DrainInv, NEW p \in Replica, Get(p) PROVE DrainInv'
<1>1. /\ HeldInv(p) /\ queue[p] # <<>> /\ UNCHANGED <<unfinished, stop>>
      /\ writer[p].pc \in {"get", "collect"}
  BY DEF DrainInv, Get
<1>2. /\ queue[p] \in Seq(Bucket) /\ writer[p].batch \in Seq(Bucket)
      /\ DOMAIN writer[p] = Fields /\ stop[p] \in {"running", "joining"}
      /\ unfinished[p] = Len(queue[p]) + Len(writer[p].batch)
  BY <1>1 DEF HeldInv
<1> DEFINE rest == Tail(queue[p])
           more == Append(writer[p].batch, Head(queue[p]))
<1>3. /\ rest \in Seq(Bucket) /\ Len(rest) = Len(queue[p]) - 1
      /\ more \in Seq(Bucket) /\ Len(more) = Len(writer[p].batch) + 1
  BY <1>1, <1>2
<1>4. /\ queue' = [queue EXCEPT ![p] = rest]
      /\ writer' = [writer EXCEPT ![p].pc = "collect", ![p].batch = more]
  BY DEF Get
<1>5. Len(queue[p]) \in Nat /\ Len(writer[p].batch) \in Nat
  BY <1>2
<1>6. unfinished[p] = Len(rest) + Len(more)
  <2>1. unfinished[p] = (Len(queue[p]) - 1) + (Len(writer[p].batch) + 1)
    BY <1>2, <1>5, Counting, Zenon
  <2> QED
    BY <2>1, <1>3, Zenon
<1> HIDE DEF rest, more
<1>7. Apart(p)
  BY <1>1, <1>4 DEF DrainInv, Apart
<1>8. queue'[p] = rest /\ unfinished'[p] = unfinished[p] /\ stop'[p] = stop[p]
  BY <1>1, <1>4 DEF DrainInv
<1>9. writer'[p].batch = more /\ DOMAIN writer'[p] = Fields
  BY <1>2, <1>4 DEF DrainInv, Fields
<1>10. HeldInv(p)'
  BY <1>2, <1>3, <1>6, <1>8, <1>9 DEF HeldInv
<1> QED
  BY <1>7, <1>10, DrainMoves

\* The steps of a write leave the batch as it is until it ends.
LEMMA WriteDrain ==
  ASSUME DrainInv, NEW p \in Replica, Seal(p) \/ Upsert(p) PROVE DrainInv'
<1>1. /\ HeldInv(p) /\ UNCHANGED <<queue, unfinished, stop>>
      /\ writer[p].pc \in {"collect", "write"}
  BY DEF DrainInv, Seal, Upsert, Writing
<1>2. DOMAIN writer[p] = Fields /\ stop[p] \in {"running", "joining"}
  BY <1>1 DEF HeldInv
<1>3. /\ writer'[p].batch = writer[p].batch /\ DOMAIN writer'[p] = Fields
      /\ DOMAIN writer' = Replica
      /\ \A o \in Replica \ {p} : writer'[o] = writer[o]
  BY <1>2 DEF DrainInv, Fields, Seal, Upsert
<1>4. Apart(p)
  BY <1>1, <1>3 DEF DrainInv, Apart
<1>5. HeldInv(p)'
  BY <1>1, <1>2, <1>3 DEF HeldInv
<1> QED
  BY <1>4, <1>5, DrainMoves

\* However a batch ends, each of its metrics is ticked off.
LEMMA EndDrain ==
  ASSUME DrainInv, NEW p \in Replica, Commit(p) \/ BatchFails(p) \/ Deadlock(p)
  PROVE  DrainInv'
<1>1. /\ HeldInv(p) /\ EndBatch(p) /\ UNCHANGED <<queue, stop>>
      /\ writer[p].pc = "write"
  BY DEF DrainInv, Commit, BatchFails, Deadlock, Blocks, Writing
<1>2. /\ queue[p] \in Seq(Bucket) /\ writer[p].batch \in Seq(Bucket)
      /\ stop[p] \in {"running", "joining"}
      /\ unfinished[p] = Len(queue[p]) + Len(writer[p].batch)
  BY <1>1 DEF HeldInv
<1>3. /\ writer' = [writer EXCEPT ![p] = NoBatch]
      /\ unfinished' = [unfinished EXCEPT ![p] = @ - Len(writer[p].batch)]
  BY <1>1 DEF EndBatch, TaskDone
<1>4. Apart(p)
  BY <1>1, <1>3 DEF DrainInv, Apart
<1>5. /\ queue'[p] = queue[p] /\ stop'[p] = stop[p] /\ writer'[p] = NoBatch
      /\ unfinished'[p] = unfinished[p] - Len(writer[p].batch)
  BY <1>1, <1>3 DEF DrainInv
<1>6. Len(queue[p]) \in Nat /\ Len(writer[p].batch) \in Nat
  BY <1>2
<1>7. NoBatch.batch = <<>> /\ DOMAIN NoBatch = Fields
  BY DEF NoBatch, Fields
<1>8. unfinished[p] - Len(writer[p].batch) = Len(queue[p]) + 0
  <2>1. (Len(queue[p]) + Len(writer[p].batch)) - Len(writer[p].batch)
          = Len(queue[p]) + 0
    BY <1>6, Counting
  <2> QED
    BY <1>2, <2>1, Zenon
<1>9. unfinished'[p] = Len(queue'[p]) + Len(writer'[p].batch)
  <2>1. Len(<<>>) = 0
    OBVIOUS
  <2> QED
    BY <1>5, <1>7, <1>8, <2>1, Zenon
<1>10. writer'[p].batch \in Seq(Bucket)
  BY <1>5, <1>7
<1>11. HeldInv(p)'
  BY <1>2, <1>5, <1>7, <1>9, <1>10 DEF HeldInv
<1> QED
  BY <1>4, <1>11, DrainMoves

\* The join starts, and returns when everything is ticked off.
LEMMA JoinDrain ==
  ASSUME DrainInv, NEW p \in Replica, BeginStop(p) \/ Joined(p) PROVE DrainInv'
<1>1. HeldInv(p) /\ UNCHANGED <<queue, unfinished>> /\ stop[p] \in {"running", "joining"}
  BY DEF DrainInv, BeginStop, Joined
<1>2. CASE BeginStop(p)
  <2>1. stop' = [stop EXCEPT ![p] = "joining"] /\ UNCHANGED writer
    BY <1>2 DEF BeginStop
  <2>2. Apart(p) /\ stop'[p] = "joining"
    BY <1>1, <2>1 DEF DrainInv, Apart
  <2>3. HeldInv(p)'
    BY <1>1, <2>1, <2>2 DEF HeldInv
  <2> QED
    BY <2>2, <2>3, DrainMoves
<1>3. CASE Joined(p)
  <2>1. /\ stop' = [stop EXCEPT ![p] = "joined"] /\ unfinished[p] = 0
        /\ writer' = [writer EXCEPT ![p].pc = "stopped"]
    BY <1>3 DEF Joined
  <2>2. Apart(p) /\ stop'[p] = "joined"
    BY <1>1, <2>1 DEF DrainInv, Apart
  <2>3. /\ writer'[p].pc = "stopped" /\ writer'[p].batch = writer[p].batch
        /\ DOMAIN writer'[p] = Fields
    BY <1>1, <2>1 DEF DrainInv, HeldInv, Fields
  <2>4. HeldInv(p)'
    BY <1>1, <2>1, <2>2, <2>3 DEF HeldInv
  <2> QED
    BY <2>2, <2>4, DrainMoves
<1> QED
  BY <1>2, <1>3

\* The timeout throws the queue and the batch away.
LEMMA CutDrain ==
  ASSUME DrainInv, NEW p \in Replica, JoinTimesOut(p) PROVE DrainInv'
<1> DEFINE cut == [NoBatch EXCEPT !.pc = "stopped"]
<1>1. /\ queue' = [queue EXCEPT ![p] = <<>>]
      /\ writer' = [writer EXCEPT ![p] = cut]
      /\ stop' = [stop EXCEPT ![p] = "timed out"] /\ UNCHANGED unfinished
  BY DEF JoinTimesOut
<1>2. cut.pc = "stopped" /\ cut.batch = <<>> /\ DOMAIN cut = Fields
  BY DEF NoBatch, Fields
<1> HIDE DEF cut
<1>3. Apart(p)
  BY <1>1 DEF DrainInv, Apart
<1>4. queue'[p] = <<>> /\ writer'[p] = cut /\ stop'[p] = "timed out"
  BY <1>1 DEF DrainInv
<1>5. queue'[p] \in Seq(Bucket) /\ writer'[p].batch \in Seq(Bucket)
  <2>1. <<>> \in Seq(Bucket)
    OBVIOUS
  <2> QED
    BY <1>2, <1>4, <2>1, Zenon
<1>6. HeldInv(p)'
  BY <1>2, <1>4, <1>5 DEF HeldInv
<1> QED
  BY <1>3, <1>6, DrainMoves

LEMMA DrainStep == DrainInv /\ [Next]_vars => DrainInv'
<1> SUFFICES ASSUME DrainInv, [Next]_vars PROVE DrainInv'
  OBVIOUS
<1>1. CASE ArriveLimited \/ ArriveFree \/ Tick
  BY <1>1, DrainStays DEF ArriveLimited, ArriveFree, Arrives, Tick, metrics
<1>2. CASE \E k \in Minute : Count(k) \/ CountFails(k) \/ Expire(k) \/ Evict(k)
  BY <1>2, DrainStays DEF Count, CountFails, Expire, Evict, metrics
<1>3. ASSUME NEW p \in Replica,
             \/ \E b \in Bucket : Finish(p, b)
             \/ Writer(p) \/ BatchFails(p)
             \/ BeginStop(p) \/ Joined(p) \/ JoinTimesOut(p)
      PROVE  DrainInv'
  BY <1>3, FinishDrain, GetDrain, WriteDrain, EndDrain, JoinDrain, CutDrain
     DEF Writer
<1>4. CASE UNCHANGED vars
  BY <1>4, DrainStays DEF vars, metrics
<1> QED
  BY <1>1, <1>2, <1>3, <1>4 DEF Next

LEMMA DrainInvariant == Spec => []DrainInv
BY DrainInit, DrainStep, PTL DEF Spec

\* A join that returned left neither queue nor batch behind: task_done is
\* called for every metric and only when its batch has ended
\* (core/analytics.py).
THEOREM JoinedIsWritten == Spec => []JoinedMeansWritten
<1>1. DrainInv => JoinedMeansWritten
  <2> SUFFICES ASSUME DrainInv, NEW p \in Replica, stop[p] = "joined"
               PROVE  queue[p] = <<>> /\ writer[p].batch = <<>>
    BY DEF JoinedMeansWritten
  <2>1. /\ queue[p] \in Seq(Bucket) /\ writer[p].batch \in Seq(Bucket)
        /\ Len(queue[p]) + Len(writer[p].batch) = 0
    BY DEF DrainInv, HeldInv
  <2>2. Len(queue[p]) \in Nat /\ Len(writer[p].batch) \in Nat
    BY <2>1
  <2>3. Len(queue[p]) = 0 /\ Len(writer[p].batch) = 0
    BY <2>1, <2>2, Counting, Zenon
  <2> QED
    BY <2>1, <2>3
<1> QED
  BY <1>1, DrainInvariant, PTL

-----------------------------------------------------------------------------
(* How often a bucket is in a sequence.                                    *)

LEMMA IntervalSize ==
  ASSUME NEW n \in Nat
  PROVE  IsFiniteSet(1 .. n) /\ Cardinality(1 .. n) = n
<1>1. /\ IsFiniteSet(1 .. n)
      /\ Cardinality(1 .. n) = IF 1 > n THEN 0 ELSE n - 1 + 1
  <2>1. 1 \in Int /\ n \in Int
    OBVIOUS
  <2> QED
    BY <2>1, FS_Interval, Zenon
<1> QED
  BY <1>1

\* Sets that a one-to-one function maps onto each other are of one size.
LEMMA SameSize ==
  ASSUME NEW S, NEW T, IsFiniteSet(S), NEW f \in [S -> T],
         \A x, y \in S : f[x] = f[y] => x = y,
         \A t \in T : \E x \in S : f[x] = t
  PROVE  IsFiniteSet(T) /\ Cardinality(T) = Cardinality(S)
<1>1. f \in Surjection(S, T) /\ f \in Injection(S, T)
  BY DEF Surjection, Injection, IsInjective
<1> QED
  BY <1>1, FS_Surjection

LEMMA DisjointSize ==
  ASSUME NEW S, NEW T, IsFiniteSet(S), IsFiniteSet(T), S \cap T = {}
  PROVE  /\ IsFiniteSet(S \cup T)
         /\ Cardinality(S \cup T) = Cardinality(S) + Cardinality(T)
<1>1. Cardinality(S \cap T) = 0
  BY FS_EmptySet
<1>2. /\ IsFiniteSet(S \cup T)
      /\ Cardinality(S \cup T) = Cardinality(S) + Cardinality(T) - Cardinality(S \cap T)
  BY FS_Union
<1>3. Cardinality(S) \in Nat /\ Cardinality(T) \in Nat
  BY FS_CardinalityType
<1> QED
  BY <1>1, <1>2, <1>3

LEMMA PositionsAre ==
  ASSUME NEW s \in Seq(Bucket), NEW b
  PROVE  /\ Positions(b, s) \in SUBSET (1 .. Len(s)) /\ IsFiniteSet(Positions(b, s))
         /\ Positions(b, s) \in SUBSET Nat /\ Times(b, s) \in Nat
<1>1. Positions(b, s) \in SUBSET (1 .. Len(s)) /\ Len(s) \in Nat
  BY DEF Positions
<1>2. IsFiniteSet(Positions(b, s))
  BY <1>1, IntervalSize, FS_Subset
<1> QED
  BY <1>1, <1>2, FS_CardinalityType DEF Times

LEMMA TimesNone == \A b : Times(b, <<>>) = 0
<1>1. \A b : Positions(b, <<>>) = {}
  BY DEF Positions
<1> QED
  BY <1>1, FS_EmptySet DEF Times

LEMMA TimesConcat ==
  ASSUME NEW s \in Seq(Bucket), NEW t \in Seq(Bucket), NEW b
  PROVE  Times(b, s \o t) = Times(b, s) + Times(b, t)
<1>1. PICK m, n : m = Len(s) /\ n = Len(t)
  OBVIOUS
<1>2. PICK P, Q : P = Positions(b, s) /\ Q = Positions(b, t)
  OBVIOUS
<1>3. /\ P \in SUBSET (1 .. m) /\ Q \in SUBSET (1 .. n)
      /\ IsFiniteSet(P) /\ IsFiniteSet(Q)
      /\ m \in Nat /\ n \in Nat
  BY <1>1, <1>2, PositionsAre
<1>4. PICK R : R = {i + m : i \in Q}
  OBVIOUS
<1>5. IsFiniteSet(R) /\ Cardinality(R) = Cardinality(Q)
  <2>1. PICK f : f = [i \in Q |-> i + m]
    OBVIOUS
  <2>2. \A i \in Q : i \in Nat
    BY <1>3
  <2>3. /\ f \in [Q -> R]
        /\ \A i, k \in Q : f[i] = f[k] => i = k
        /\ \A x \in R : \E i \in Q : f[i] = x
    BY <1>3, <1>4, <2>1, <2>2
  <2> QED
    BY <1>3, <2>3, SameSize
<1>6. P \cap R = {}
  <2>1. \A i \in P : i <= m
    BY <1>3
  <2>2. \A i \in Q : i + m > m
    BY <1>3
  <2> QED
    BY <1>3, <1>4, <2>1, <2>2
<1>7. Positions(b, s \o t) = P \cup R
  <2>1. /\ DOMAIN (s \o t) = 1 .. (m + n)
        /\ \A i \in 1 .. (m + n) : (s \o t)[i] = IF i <= m THEN s[i] ELSE t[i - m]
    BY <1>1
  <2>2. \A i : i \in P <=> i \in 1 .. m /\ s[i] = b
    BY <1>1, <1>2 DEF Positions
  <2>3. \A i : i \in Q <=> i \in 1 .. n /\ t[i] = b
    BY <1>1, <1>2 DEF Positions
  <2>4. ASSUME NEW i \in 1 .. (m + n), (s \o t)[i] = b PROVE i \in P \cup R
    <3>1. CASE i <= m
      BY <1>3, <2>1, <2>2, <2>4, <3>1
    <3>2. CASE ~(i <= m)
      <4>1. i - m \in 1 .. n /\ t[i - m] = b /\ (i - m) + m = i
        BY <1>3, <2>1, <2>4, <3>2
      <4>2. i - m \in Q
        BY <2>3, <4>1
      <4> QED
        BY <1>4, <4>1, <4>2
    <3> QED
      BY <3>1, <3>2
  <2>5. ASSUME NEW i \in P PROVE i \in 1 .. (m + n) /\ (s \o t)[i] = b
    <3>1. i \in 1 .. m /\ s[i] = b
      BY <2>2
    <3> QED
      BY <1>3, <2>1, <3>1
  <2>6. ASSUME NEW k \in Q PROVE k + m \in 1 .. (m + n) /\ (s \o t)[k + m] = b
    <3>1. k \in 1 .. n /\ t[k] = b
      BY <2>3
    <3>2. k + m \in 1 .. (m + n) /\ ~(k + m <= m) /\ (k + m) - m = k
      BY <1>3, <3>1
    <3> QED
      BY <2>1, <3>1, <3>2
  <2> QED
    BY <1>4, <2>1, <2>4, <2>5, <2>6 DEF Positions
<1> QED
  BY <1>2, <1>3, <1>5, <1>6, <1>7, DisjointSize DEF Times

\* Only the metric that comes or goes counts.
LEMMA TimesOne ==
  ASSUME NEW x \in Bucket, NEW b
  PROVE  Times(b, <<x>>) = IF x = b THEN 1 ELSE 0
<1>1. Positions(b, <<x>>) = IF x = b THEN {1} ELSE {}
  BY DEF Positions
<1> QED
  BY <1>1, FS_Singleton, FS_EmptySet DEF Times

LEMMA TimesAppend ==
  ASSUME NEW s \in Seq(Bucket), NEW x \in Bucket, NEW b
  PROVE  Times(b, Append(s, x)) = Times(b, s) + IF x = b THEN 1 ELSE 0
<1>1. Append(s, x) = s \o <<x>> /\ <<x>> \in Seq(Bucket)
  OBVIOUS
<1>2. Times(b, s \o <<x>>) = Times(b, s) + Times(b, <<x>>)
  BY <1>1, TimesConcat
<1> QED
  BY <1>1, <1>2, TimesOne

LEMMA TimesTail ==
  ASSUME NEW s \in Seq(Bucket), s # <<>>, NEW b
  PROVE  /\ Head(s) \in Bucket /\ Tail(s) \in Seq(Bucket)
         /\ Times(b, s) = (IF Head(s) = b THEN 1 ELSE 0) + Times(b, Tail(s))
<1>1. PICK x, t : x = Head(s) /\ t = Tail(s)
  OBVIOUS
<1>2. s = <<x>> \o t /\ <<x>> \in Seq(Bucket) /\ t \in Seq(Bucket) /\ x \in Bucket
  BY <1>1
<1>3. Times(b, <<x>> \o t) = Times(b, <<x>>) + Times(b, t)
  BY <1>2, TimesConcat
<1> QED
  BY <1>1, <1>2, <1>3, TimesOne

-----------------------------------------------------------------------------
(* The rows of a batch.                                                    *)

\* Among finitely many numbers one is the least.
LEMMA LeastIsThere ==
  ASSUME NEW S \in SUBSET Nat, IsFiniteSet(S), S # {}
  PROVE  \E s \in S : \A r \in S : s <= r
<1> DEFINE Under(s) == {r \in S : r < s}
           T == {Under(s) : s \in S}
<1>1. \A s \in S : Under(s) \in SUBSET S /\ IsFiniteSet(Under(s))
  BY FS_Subset
<1>2. T \subseteq FiniteSubsetsOf(S) /\ T # {}
  BY <1>1 DEF FiniteSubsetsOf
<1>3. PICK B \in T : \A C \in T : ~(<<C, B>> \in StrictSubsetOrdering(S))
  <2> HIDE DEF T
  <2> QED
    BY <1>2, FS_StrictSubsetOrderingWellFounded, WFMin
<1>4. PICK s \in S : B = Under(s)
  BY <1>3
<1>5. ASSUME NEW r \in S, r < s PROVE FALSE
  <2>1. r \in Nat /\ s \in Nat /\ S \subseteq Nat
    OBVIOUS
  <2>2. r \in Under(s) /\ r \notin Under(r)
    BY <2>1, <1>5
  <2>3. \A y \in Under(r) : y \in Under(s)
    BY <2>1, <1>5
  <2>4. <<Under(r), Under(s)>> \in StrictSubsetOrdering(S)
    BY <2>2, <2>3 DEF StrictSubsetOrdering
  <2> QED
    BY <2>4, <1>3, <1>4
<1> QED
  BY <1>5

\* A row for each bucket of the batch, with all its metrics.
Totals(batch) ==
  {[bucket |-> batch[i], count |-> Times(batch[i], batch)] : i \in 1 .. Len(batch)}

\* The numbers of a finite set are counted off in their order.
RankIn(S, i) == Cardinality({k \in S : k <= i})

LEMMA RanksAre ==
  ASSUME NEW S \in SUBSET Nat, IsFiniteSet(S), NEW n, n = Cardinality(S)
  PROVE  /\ n \in Nat
         /\ \A r \in 1 .. n : \E i \in S : RankIn(S, i) = r
         /\ \A i \in S : RankIn(S, i) \in 1 .. n
         /\ \A i, l \in S : RankIn(S, i) = RankIn(S, l) => i = l
<1> DEFINE Upto(i) == {k \in S : k <= i}
<1>1. n \in Nat /\ IsFiniteSet(1 .. n) /\ Cardinality(1 .. n) = n
  BY FS_CardinalityType, IntervalSize
<1>2. ASSUME NEW i \in S
      PROVE  IsFiniteSet(Upto(i)) /\ Cardinality(Upto(i)) \in 1 .. n
  <2>1. Upto(i) \in SUBSET S /\ i \in Upto(i)
    OBVIOUS
  <2>2. IsFiniteSet(Upto(i)) /\ Cardinality(Upto(i)) <= n
    BY <2>1, FS_Subset
  <2>3. Cardinality(Upto(i)) \in Nat /\ Cardinality(Upto(i)) # 0
    BY <2>1, <2>2, FS_CardinalityType, FS_EmptySet
  <2> HIDE DEF Upto
  <2> QED
    BY <1>1, <2>2, <2>3
<1>3. ASSUME NEW i \in S, NEW l \in S, i < l
      PROVE  Cardinality(Upto(i)) # Cardinality(Upto(l))
  <2>1. i \in Nat /\ l \in Nat /\ \A k \in S : k \in Nat
    OBVIOUS
  <2>2. l \in Upto(l) /\ l \notin Upto(i)
    BY <2>1, <1>3
  <2>3. ASSUME NEW k \in Upto(i) PROVE k \in Upto(l)
    BY <2>1, <1>3
  <2> HIDE DEF Upto
  <2>4. Upto(i) # Upto(l)
    BY <2>2
  <2> QED
    BY <1>2, <2>3, <2>4, FS_Subset
<1> HIDE DEF Upto
<1>4. \A i, l \in S : Cardinality(Upto(i)) = Cardinality(Upto(l)) => i = l
  <2>1. \A i, l \in S : i < l \/ l < i \/ i = l
    OBVIOUS
  <2> QED
    BY <1>3, <2>1
<1>5. \A r \in 1 .. n : \E i \in S : Cardinality(Upto(i)) = r
  <2>1. PICK T : T = 1 .. n
    OBVIOUS
  <2>2. PICK F : F = [i \in S |-> Cardinality(Upto(i))]
    OBVIOUS
  <2>3. F \in [S -> T] /\ \A i, l \in S : F[i] = F[l] => i = l
    BY <1>2, <1>4, <2>1, <2>2
  <2>4. F \in Injection(S, T)
    BY <2>3 DEF Injection, IsInjective
  <2>5. F \in Surjection(S, T)
    BY <1>1, <2>1, <2>4, FS_Injection
  <2> QED
    BY <2>1, <2>2, <2>5 DEF Surjection
<1> QED
  BY <1>1, <1>2, <1>4, <1>5 DEF Upto, RankIn

\* _aggregate makes those rows, and no other.
LEMMA AggregateIs ==
  ASSUME NEW batch \in Seq(Bucket)
  PROVE  /\ Aggregate(batch) \in Seq(Totals(batch))
         /\ \A w \in Totals(batch) :
              \E r \in 1 .. Len(Aggregate(batch)) : Aggregate(batch)[r] = w
<1>0. DOMAIN batch = 1 .. Len(batch) /\ Len(batch) \in Nat
  OBVIOUS
<1> DEFINE S == {i \in DOMAIN batch : \A k \in 1 .. i - 1 : batch[k] # batch[i]}
           Rank(i) == RankIn(S, i)
           At(r) == CHOOSE i \in S : Rank(i) = r
           Of(i) == [bucket |-> batch[i], count |-> Times(batch[i], batch)]
<1>1. Aggregate(batch) = [r \in 1 .. Cardinality(S) |-> Of(At(r))]
  BY DEF Aggregate, RankIn
<1>2. S \in SUBSET (1 .. Len(batch)) /\ S \in SUBSET Nat /\ IsFiniteSet(S)
  <2>1. S \in SUBSET (1 .. Len(batch))
    BY <1>0
  <2>2. S \in SUBSET Nat
    BY <1>0, <2>1
  <2>3. IsFiniteSet(S)
    <3> HIDE DEF S
    <3> QED
      BY <1>0, <2>1, IntervalSize, FS_Subset
  <2> QED
    BY <2>1, <2>2, <2>3
<1>3. PICK n : n = Cardinality(S)
  OBVIOUS
<1>4. /\ n \in Nat
      /\ \A r \in 1 .. n : \E i \in S : Rank(i) = r
      /\ \A i \in S : Rank(i) \in 1 .. n
      /\ \A i, l \in S : Rank(i) = Rank(l) => i = l
  <2>1. PICK U : U = S
    OBVIOUS
  <2> HIDE DEF S
  <2>2. U \in SUBSET Nat /\ IsFiniteSet(U) /\ n = Cardinality(U)
    BY <1>2, <1>3, <2>1
  <2>3. /\ n \in Nat
        /\ \A r \in 1 .. n : \E i \in U : RankIn(U, i) = r
        /\ \A i \in U : RankIn(U, i) \in 1 .. n
        /\ \A i, l \in U : RankIn(U, i) = RankIn(U, l) => i = l
    BY <2>2, RanksAre
  <2> QED
    BY <2>1, <2>3
<1>5. \A i \in 1 .. Len(batch) : \E l \in S : batch[l] = batch[i]
  <2>1. ASSUME NEW i \in 1 .. Len(batch) PROVE \E l \in S : batch[l] = batch[i]
    <3>1. PICK P : P = Positions(batch[i], batch)
      OBVIOUS
    <3>2. P \in SUBSET Nat /\ IsFiniteSet(P) /\ i \in P
      BY <1>0, <3>1, PositionsAre DEF Positions
    <3>3. PICK l \in P : \A k \in P : l <= k
      BY <3>2, LeastIsThere
    <3>4. l \in 1 .. Len(batch) /\ batch[l] = batch[i]
      BY <1>0, <3>1 DEF Positions
    <3>5. ASSUME NEW k \in 1 .. l - 1, batch[k] = batch[l] PROVE FALSE
      <4>1. k \in 1 .. Len(batch) /\ ~(l <= k)
        BY <1>0, <3>4
      <4>2. k \in P
        BY <1>0, <3>1, <3>4, <3>5, <4>1 DEF Positions
      <4> QED
        BY <3>3, <4>1, <4>2
    <3> QED
      BY <1>0, <3>4, <3>5
  <2> QED
    BY <2>1
<1> HIDE DEF S, Rank
<1>6. \A r \in 1 .. n : At(r) \in S /\ Rank(At(r)) = r
  BY <1>4
<1>7. \A i \in S : At(Rank(i)) = i
  BY <1>4, <1>6
<1> HIDE DEF At
<1>8. \A i \in 1 .. Len(batch) : Of(i) \in Totals(batch)
  BY DEF Totals
<1>9. PICK g : g = Aggregate(batch)
  OBVIOUS
<1>10. g = [r \in 1 .. n |-> Of(At(r))]
  BY <1>1, <1>3, <1>9
<1>11. g \in [1 .. n -> Totals(batch)]
  <2>1. \A r \in 1 .. n : Of(At(r)) \in Totals(batch)
    BY <1>2, <1>6, <1>8
  <2> HIDE DEF Of
  <2> QED
    BY <1>10, <2>1
<1>12. g \in Seq(Totals(batch)) /\ Len(g) = n
  BY <1>4, <1>11
<1>13. ASSUME NEW w \in Totals(batch) PROVE \E r \in 1 .. n : g[r] = w
  <2>1. PICK i \in 1 .. Len(batch) : w = Of(i)
    BY DEF Totals
  <2>2. PICK l \in S : batch[l] = batch[i]
    BY <1>5
  <2>3. Of(l) = Of(i)
    BY <2>2
  <2>4. Rank(l) \in 1 .. n /\ g[Rank(l)] = Of(l)
    <3>1. Rank(l) \in 1 .. n /\ At(Rank(l)) = l
      BY <1>4, <1>7
    <3> HIDE DEF Of
    <3> QED
      BY <1>10, <3>1
  <2> QED
    BY <2>1, <2>3, <2>4
<1> QED
  BY <1>9, <1>12, <1>13

-----------------------------------------------------------------------------
(* Where every metric is.                                                  *)

\* A tag keeps the size of a set.
LEMMA TagSize ==
  ASSUME NEW S, IsFiniteSet(S), NEW tag
  PROVE  IsFiniteSet({tag} \X S) /\ Cardinality({tag} \X S) = Cardinality(S)
<1>1. PICK T : T = {tag} \X S
  OBVIOUS
<1>2. PICK f : f = [x \in S |-> <<tag, x>>]
  OBVIOUS
<1>3. f \in [S -> T]
  BY <1>1, <1>2
<1>4. ASSUME NEW x \in S, NEW y \in S, f[x] = f[y] PROVE x = y
  BY <1>2, <1>4
<1>5. ASSUME NEW t \in T PROVE \E x \in S : f[x] = t
  BY <1>1, <1>2
<1>6. IsFiniteSet(T) /\ Cardinality(T) = Cardinality(S)
  BY <1>3, <1>4, <1>5, SameSize
<1> QED
  BY <1>1, <1>6

\* What one member of a disjoint union has is added to what the others have.
Tagged(R, F) == UNION {{o} \X F[o] : o \in R}

LEMMA UnionSplit ==
  ASSUME NEW R, IsFiniteSet(R), NEW p \in R, NEW F, NEW G,
         \A o \in R : IsFiniteSet(F[o]), IsFiniteSet(G[p]),
         \A o \in R \ {p} : G[o] = F[o]
  PROVE  \E n \in Nat :
           /\ Cardinality(Tagged(R, F)) = n + Cardinality(F[p])
           /\ Cardinality(Tagged(R, G)) = n + Cardinality(G[p])
<1>1. PICK U : U = UNION {{o} \X F[o] : o \in R \ {p}}
  OBVIOUS
<1>2. IsFiniteSet(U)
  <2>1. PICK V : V = {{o} \X F[o] : o \in R \ {p}}
    OBVIOUS
  <2>2. IsFiniteSet(R \ {p})
    BY FS_RemoveElement
  <2>3. [o \in R \ {p} |-> {o} \X F[o]] \in Surjection(R \ {p}, V)
    BY <2>1 DEF Surjection
  <2>4. IsFiniteSet(V)
    BY <2>2, <2>3, FS_Surjection
  <2>5. ASSUME NEW W \in V PROVE IsFiniteSet(W)
    <3>1. PICK o \in R \ {p} : W = {o} \X F[o]
      BY <2>1
    <3>2. IsFiniteSet({o}) /\ IsFiniteSet(F[o])
      BY FS_Singleton
    <3> QED
      BY <3>1, <3>2, FS_Product
  <2>6. IsFiniteSet(UNION V)
    BY <2>4, <2>5, FS_UNION
  <2> QED
    BY <1>1, <2>1, <2>6
<1>4. ASSUME NEW S, IsFiniteSet(S)
      PROVE  Cardinality(U \cup ({p} \X S)) = Cardinality(U) + Cardinality(S)
  <2>1. PICK T : T = {p} \X S
    OBVIOUS
  <2>2. U \cap T = {}
    BY <1>1, <2>1
  <2>3. IsFiniteSet(T) /\ Cardinality(T) = Cardinality(S)
    BY <1>4, <2>1, TagSize
  <2>4. Cardinality(U \cup T) = Cardinality(U) + Cardinality(T)
    BY <1>2, <2>2, <2>3, DisjointSize
  <2> QED
    BY <2>1, <2>3, <2>4
<1>5. Tagged(R, F) = U \cup ({p} \X F[p])
  BY <1>1 DEF Tagged
<1>6. Tagged(R, G) = U \cup ({p} \X G[p])
  <2>1. \A o \in R \ {p} : {o} \X G[o] = {o} \X F[o]
    OBVIOUS
  <2> QED
    BY <1>1, <2>1 DEF Tagged
<1>7. Cardinality(U) \in Nat
  BY <1>2, FS_CardinalityType
<1> QED
  BY <1>4, <1>5, <1>6, <1>7

Both(b, q, u) == ({"queue"} \X Positions(b, q)) \cup ({"batch"} \X Positions(b, u))

LEMMA PendingIs ==
  ASSUME NEW q \in Seq(Bucket), NEW u \in Seq(Bucket), NEW b
  PROVE  /\ IsFiniteSet(Both(b, q, u))
         /\ Cardinality(Both(b, q, u)) = Times(b, q) + Times(b, u)
<1>0. PICK N : N = Both(b, q, u)
  OBVIOUS
<1>2. PICK P, Q : P = Positions(b, q) /\ Q = Positions(b, u)
  OBVIOUS
<1>3. IsFiniteSet(P) /\ IsFiniteSet(Q)
  BY <1>2, PositionsAre
<1>4. PICK S, T : S = {"queue"} \X P /\ T = {"batch"} \X Q
  OBVIOUS
<1>5. /\ IsFiniteSet(S) /\ Cardinality(S) = Cardinality(P)
      /\ IsFiniteSet(T) /\ Cardinality(T) = Cardinality(Q)
  BY <1>3, <1>4, TagSize
<1>6. S \cap T = {}
  BY <1>4
<1>7. N = S \cup T
  BY <1>0, <1>2, <1>4 DEF Both
<1>8. IsFiniteSet(N) /\ Cardinality(N) = Cardinality(S) + Cardinality(T)
  <2>1. /\ IsFiniteSet(S \cup T)
        /\ Cardinality(S \cup T) = Cardinality(S) + Cardinality(T)
    BY ONLY <1>5, <1>6, DisjointSize
  <2> QED
    BY <2>1, <1>7
<1>9. Cardinality(P) = Times(b, q) /\ Cardinality(Q) = Times(b, u)
  BY <1>2 DEF Times
<1> QED
  BY <1>0, <1>5, <1>8, <1>9

\* What the other replicas have does not change in a step of p.
LEMMA WaySplit ==
  ASSUME DrainInv, DrainInv', NEW p \in Replica, NEW b,
         \A o \in Replica \ {p} : queue'[o] = queue[o] /\ writer'[o] = writer[o]
  PROVE  \E n \in Nat :
           /\ Cardinality(OnTheirWay(b)) = n + (Times(b, queue[p]) + Times(b, writer[p].batch))
           /\ Cardinality(OnTheirWay(b)') = n + (Times(b, queue'[p]) + Times(b, writer'[p].batch))
<1>1. PICK F : F = [o \in Replica |-> Pending(b, o)]
  OBVIOUS
<1>2. PICK G : G = [o \in Replica |-> Pending(b, o)']
  OBVIOUS
<1>3. ASSUME NEW o \in Replica
      PROVE  /\ queue[o] \in Seq(Bucket) /\ writer[o].batch \in Seq(Bucket)
             /\ queue'[o] \in Seq(Bucket) /\ writer'[o].batch \in Seq(Bucket)
  BY DEF DrainInv, HeldInv
<1>4. \A o \in Replica :
        /\ IsFiniteSet(F[o])
        /\ Cardinality(F[o]) = Times(b, queue[o]) + Times(b, writer[o].batch)
  <2>1. ASSUME NEW o \in Replica
        PROVE  /\ IsFiniteSet(F[o])
               /\ Cardinality(F[o]) = Times(b, queue[o]) + Times(b, writer[o].batch)
    <3>1. F[o] = Both(b, queue[o], writer[o].batch)
      BY <1>1 DEF Pending, Both
    <3> QED
      BY <1>3, <3>1, PendingIs
  <2> QED
    BY <2>1
<1>5. /\ IsFiniteSet(G[p])
      /\ Cardinality(G[p]) = Times(b, queue'[p]) + Times(b, writer'[p].batch)
  <2>1. G[p] = Both(b, queue'[p], writer'[p].batch)
    BY <1>2 DEF Pending, Both
  <2> QED
    BY <1>3, <2>1, PendingIs
<1>6. Cardinality(F[p]) = Times(b, queue[p]) + Times(b, writer[p].batch)
  BY <1>4
<1>7. \A o \in Replica \ {p} : G[o] = F[o]
  BY <1>1, <1>2 DEF Pending
<1>8. IsFiniteSet(Replica)
  BY PipelineAssumption
<1>9. PICK n \in Nat :
        /\ Cardinality(Tagged(Replica, F)) = n + Cardinality(F[p])
        /\ Cardinality(Tagged(Replica, G)) = n + Cardinality(G[p])
  <2>1. \A o \in Replica : IsFiniteSet(F[o])
    BY <1>4
  <2>2. IsFiniteSet(G[p])
    BY <1>5
  <2> QED
    BY <2>1, <2>2, <1>7, <1>8, UnionSplit
<1>10. OnTheirWay(b) = Tagged(Replica, F)
  BY <1>1 DEF OnTheirWay, Tagged
<1>11. OnTheirWay(b)' = Tagged(Replica, G)
  BY <1>2 DEF OnTheirWay, Tagged
<1> QED
  BY <1>5, <1>6, <1>9, <1>10, <1>11

\* The rows of a batch that is being written are those in the transaction and
\* those that follow.
RowsInv(p) ==
  /\ writer[p].pc \in {"get", "collect"} => writer[p].held = {}
  /\ writer[p].pc = "write" =>
       /\ writer[p].rows \in Seq(Totals(writer[p].batch))
       /\ Totals(writer[p].batch) =
            writer[p].held \cup {writer[p].rows[i] : i \in 1 .. Len(writer[p].rows)}

Counters == [Bucket -> Nat]

WayInv ==
  /\ DrainInv
  /\ bucket \in Counters /\ lost \in Counters /\ finished \in Counters
  /\ \A p \in Replica : RowsInv(p)
  /\ Accounted

\* Metrics of bucket b that replica p has.
Has(b, p) == Times(b, queue[p]) + Times(b, writer[p].batch)

LEMMA WayInit == Init => WayInv
<1> SUFFICES ASSUME Init PROVE WayInv
  OBVIOUS
<1>1. DrainInv
  BY DrainInit
<1>2. bucket \in Counters /\ lost \in Counters /\ finished \in Counters
  BY DEF Init, Counters
<1>3. \A p \in Replica : queue[p] = <<>> /\ writer[p] = NoBatch
  BY DEF Init
<1>4. NoBatch.batch = <<>> /\ NoBatch.held = {} /\ NoBatch.pc = "get"
  BY DEF NoBatch
<1>5. \A p \in Replica : RowsInv(p)
  BY <1>3, <1>4 DEF RowsInv
<1>6. ASSUME NEW b \in Bucket
      PROVE  finished[b] = bucket[b] + lost[b] + Cardinality(OnTheirWay(b))
  <2>1. Positions(b, <<>>) = {}
    BY DEF Positions
  <2>2. \A p \in Replica : Pending(b, p) = {}
    BY <1>3, <1>4, <2>1 DEF Pending
  <2>3. Cardinality(OnTheirWay(b)) = 0
    BY <2>2, FS_EmptySet DEF OnTheirWay
  <2>4. finished[b] = 0 /\ bucket[b] = 0 /\ lost[b] = 0
    BY DEF Init
  <2> QED
    BY <2>3, <2>4
<1> QED
  BY <1>1, <1>2, <1>5, <1>6 DEF WayInv, Accounted

LEMMA HasIsNat ==
  ASSUME DrainInv, NEW p \in Replica, NEW b
  PROVE  /\ Has(b, p) \in Nat /\ Times(b, queue[p]) \in Nat
         /\ Times(b, writer[p].batch) \in Nat
<1>1. queue[p] \in Seq(Bucket) /\ writer[p].batch \in Seq(Bucket)
  BY DEF DrainInv, HeldInv
<1>2. Times(b, queue[p]) \in Nat /\ Times(b, writer[p].batch) \in Nat
  BY <1>1, PositionsAre
<1> QED
  BY <1>2 DEF Has

LEMMA Balance ==
  ASSUME NEW f \in Nat, NEW u \in Nat, NEW l \in Nat, NEW c \in Nat,
         NEW f1 \in Nat, NEW u1 \in Nat, NEW l1 \in Nat, NEW c1,
         NEW n \in Nat, NEW h \in Nat, NEW h1 \in Nat,
         f = u + l + c, c = n + h, c1 = n + h1,
         f1 + (u + l + h) = f + (u1 + l1 + h1)
  PROVE  f1 = u1 + l1 + c1
OBVIOUS

\* A step of replica p loses nothing and counts nothing twice if it does
\* neither to what p has.
LEMMA WayMoves ==
  ASSUME WayInv, DrainInv', NEW p \in Replica,
         \A o \in Replica \ {p} : queue'[o] = queue[o] /\ writer'[o] = writer[o],
         RowsInv(p)', bucket' \in Counters, lost' \in Counters, finished' \in Counters,
         \A b \in Bucket : finished'[b] + (bucket[b] + lost[b] + Has(b, p))
                             = finished[b] + (bucket'[b] + lost'[b] + Has(b, p)')
  PROVE  WayInv'
<1>1. ASSUME NEW b \in Bucket
      PROVE  finished'[b] = bucket'[b] + lost'[b] + Cardinality(OnTheirWay(b)')
  <2>1. PICK n \in Nat :
           /\ Cardinality(OnTheirWay(b)) = n + Has(b, p)
           /\ Cardinality(OnTheirWay(b)') = n + Has(b, p)'
    BY WaySplit DEF WayInv, Has
  <2>2. /\ finished[b] \in Nat /\ bucket[b] \in Nat /\ lost[b] \in Nat
        /\ finished'[b] \in Nat /\ bucket'[b] \in Nat /\ lost'[b] \in Nat
    BY DEF WayInv, Counters
  <2>3. Has(b, p) \in Nat /\ Has(b, p)' \in Nat
    <3>1. queue'[p] \in Seq(Bucket) /\ writer'[p].batch \in Seq(Bucket)
      BY DEF DrainInv, HeldInv
    <3>2. Times(b, queue'[p]) \in Nat /\ Times(b, writer'[p].batch) \in Nat
      BY <3>1, PositionsAre
    <3> QED
      BY <3>2, HasIsNat DEF WayInv, Has
  <2>4. Cardinality(OnTheirWay(b)) \in Nat
    BY <2>1, <2>3
  <2>5. finished[b] = bucket[b] + lost[b] + Cardinality(OnTheirWay(b))
    BY DEF WayInv, Accounted
  <2>6. finished'[b] + (bucket[b] + lost[b] + Has(b, p))
          = finished[b] + (bucket'[b] + lost'[b] + Has(b, p)')
    OBVIOUS
  <2> QED
    BY <2>1, <2>2, <2>3, <2>4, <2>5, <2>6, Balance
<1>2. \A o \in Replica : RowsInv(o)'
  BY DEF WayInv, RowsInv
<1> QED
  BY <1>1, <1>2 DEF WayInv, Accounted

LEMMA WayStays ==
  ASSUME WayInv, DrainInv', UNCHANGED metrics PROVE WayInv'
<1>1. UNCHANGED <<queue, writer, bucket, lost, finished>>
  BY DEF metrics
<1>2. \A p \in Replica : RowsInv(p)'
  BY <1>1 DEF WayInv, RowsInv
<1>3. \A b \in Bucket : OnTheirWay(b)' = OnTheirWay(b)
  BY <1>1 DEF OnTheirWay, Pending
<1> QED
  BY <1>1, <1>2, <1>3 DEF WayInv, Accounted

LEMMA FinishWay ==
  ASSUME WayInv, DrainInv', NEW p \in Replica, NEW x \in Bucket, Finish(p, x)
  PROVE  WayInv'
<1>1. /\ UNCHANGED <<writer, bucket>> /\ DOMAIN queue = Replica
      /\ finished' = [finished EXCEPT ![x] = @ + 1]
  BY DEF Finish, WayInv, DrainInv
<1>2. RowsInv(p)' /\ bucket' \in Counters /\ finished' \in Counters
  BY <1>1 DEF WayInv, RowsInv, Counters
<1>3. queue[p] \in Seq(Bucket)
  BY DEF WayInv, DrainInv, HeldInv
<1>4. \A b \in Bucket : /\ finished[b] \in Nat /\ bucket[b] \in Nat /\ lost[b] \in Nat
                        /\ Times(b, queue[p]) \in Nat /\ Times(b, writer[p].batch) \in Nat
  BY HasIsNat DEF WayInv, Counters
<1>5. CASE queue' = [queue EXCEPT ![p] = Append(queue[p], x)] /\ lost' = lost
  <2>1. queue'[p] = Append(queue[p], x) /\ \A o \in Replica \ {p} : queue'[o] = queue[o]
    BY <1>1, <1>5
  <2>2. ASSUME NEW b \in Bucket
        PROVE  finished'[b] + (bucket[b] + lost[b] + Has(b, p))
                 = finished[b] + (bucket'[b] + lost'[b] + Has(b, p)')
    <3>1. Times(b, queue'[p]) = Times(b, queue[p]) + IF x = b THEN 1 ELSE 0
      BY <1>3, <2>1, TimesAppend
    <3>2. finished'[b] = finished[b] + IF x = b THEN 1 ELSE 0
      BY <1>1, <1>4 DEF WayInv, Counters
    <3>3. /\ bucket'[b] = bucket[b] /\ lost'[b] = lost[b]
          /\ Times(b, writer'[p].batch) = Times(b, writer[p].batch)
      BY <1>1, <1>5
    <3> QED
      BY <1>4, <3>1, <3>2, <3>3 DEF Has
  <2> QED
    BY <1>1, <1>2, <1>5, <2>1, <2>2, WayMoves DEF WayInv
<1>6. CASE UNCHANGED queue /\ lost' = [lost EXCEPT ![x] = @ + 1]
  <2>1. ASSUME NEW b \in Bucket
        PROVE  finished'[b] + (bucket[b] + lost[b] + Has(b, p))
                 = finished[b] + (bucket'[b] + lost'[b] + Has(b, p)')
    <3>1. lost'[b] = lost[b] + IF x = b THEN 1 ELSE 0
      BY <1>4, <1>6 DEF WayInv, Counters
    <3>2. finished'[b] = finished[b] + IF x = b THEN 1 ELSE 0
      BY <1>1, <1>4 DEF WayInv, Counters
    <3>3. bucket'[b] = bucket[b] /\ Has(b, p)' = Has(b, p) /\ Has(b, p) \in Nat
      BY <1>1, <1>6, HasIsNat DEF Has, WayInv
    <3> QED
      BY <1>4, <3>1, <3>2, <3>3
  <2>2. lost' \in Counters
    BY <1>4, <1>6 DEF WayInv, Counters
  <2> QED
    BY <1>1, <1>2, <1>6, <2>1, <2>2, WayMoves
<1> QED
  BY <1>1, <1>5, <1>6 DEF Finish

\* Steps of the writer and of the join that lose and count nothing.
LEMMA SameWay ==
  ASSUME WayInv, DrainInv', NEW p \in Replica,
         \A o \in Replica \ {p} : queue'[o] = queue[o] /\ writer'[o] = writer[o],
         RowsInv(p)', UNCHANGED <<bucket, lost, finished>>,
         \A b \in Bucket : Has(b, p)' = Has(b, p)
  PROVE  WayInv'
<1>1. bucket' \in Counters /\ lost' \in Counters /\ finished' \in Counters
  BY DEF WayInv
<1>2. \A b \in Bucket : finished'[b] + (bucket[b] + lost[b] + Has(b, p))
                          = finished[b] + (bucket'[b] + lost'[b] + Has(b, p)')
  OBVIOUS
<1> QED
  BY <1>1, <1>2, WayMoves

LEMMA GetWay ==
  ASSUME WayInv, DrainInv', NEW p \in Replica, Get(p) PROVE WayInv'
<1>1. /\ queue[p] \in Seq(Bucket) /\ writer[p].batch \in Seq(Bucket) /\ queue[p] # <<>>
      /\ DOMAIN queue = Replica /\ DOMAIN writer = Replica /\ DOMAIN writer[p] = Fields
      /\ writer[p].pc \in {"get", "collect"}
      /\ UNCHANGED <<bucket, lost, finished>>
  BY DEF WayInv, DrainInv, HeldInv, Get
<1>2. PICK more : more = Append(writer[p].batch, Head(queue[p]))
  OBVIOUS
<1>3. /\ queue' = [queue EXCEPT ![p] = Tail(queue[p])]
      /\ writer' = [writer EXCEPT ![p].pc = "collect", ![p].batch = more]
  BY <1>2 DEF Get
<1>4. /\ queue'[p] = Tail(queue[p])
      /\ \A o \in Replica \ {p} : queue'[o] = queue[o] /\ writer'[o] = writer[o]
  BY <1>1, <1>3
<1>5. writer'[p].pc = "collect" /\ writer'[p].batch = more /\ writer'[p].held = writer[p].held
  BY <1>1, <1>3 DEF Fields
<1>6. RowsInv(p)'
  BY <1>1, <1>5 DEF WayInv, RowsInv
<1>7. ASSUME NEW b \in Bucket PROVE Has(b, p)' = Has(b, p)
  <2>1. /\ Head(queue[p]) \in Bucket /\ Tail(queue[p]) \in Seq(Bucket)
        /\ Times(b, queue[p])
             = (IF Head(queue[p]) = b THEN 1 ELSE 0) + Times(b, Tail(queue[p]))
    BY <1>1, TimesTail
  <2>2. Times(b, more) = Times(b, writer[p].batch) + IF Head(queue[p]) = b THEN 1 ELSE 0
    BY <1>1, <1>2, <2>1, TimesAppend
  <2>3. Times(b, Tail(queue[p])) \in Nat /\ Times(b, writer[p].batch) \in Nat
    BY <1>1, <2>1, PositionsAre
  <2> QED
    BY <1>4, <1>5, <2>1, <2>2, <2>3 DEF Has
<1> QED
  BY <1>1, <1>4, <1>6, <1>7, SameWay

\* The rows that follow are those of the batch.
LEMMA SealWay ==
  ASSUME WayInv, DrainInv', NEW p \in Replica, Seal(p) PROVE WayInv'
<1>1. /\ writer[p].batch \in Seq(Bucket) /\ writer[p].held = {}
      /\ DOMAIN writer = Replica /\ DOMAIN writer[p] = Fields
      /\ UNCHANGED <<queue, bucket, lost, finished>>
  BY DEF WayInv, DrainInv, HeldInv, Seal, RowsInv
<1>2. PICK rows : rows = Aggregate(writer[p].batch)
  OBVIOUS
<1>3. writer' = [writer EXCEPT ![p].pc = "write", ![p].rows = rows]
  BY <1>2 DEF Seal
<1>4. /\ \A o \in Replica \ {p} : queue'[o] = queue[o] /\ writer'[o] = writer[o]
      /\ queue'[p] = queue[p]
  BY <1>1, <1>3
<1>5. /\ writer'[p].pc = "write" /\ writer'[p].rows = rows
      /\ writer'[p].batch = writer[p].batch /\ writer'[p].held = {}
  BY <1>1, <1>3 DEF Fields
<1>6. PICK T : T = Totals(writer[p].batch)
  OBVIOUS
<1>7. rows \in Seq(T) /\ \A w \in T : \E r \in 1 .. Len(rows) : rows[r] = w
  BY <1>1, <1>2, <1>6, AggregateIs
<1>8. T = {rows[i] : i \in 1 .. Len(rows)}
  BY <1>7
<1>9. Totals(writer'[p].batch) = T
  BY <1>5, <1>6
<1>10. RowsInv(p)'
  BY <1>5, <1>7, <1>8, <1>9 DEF RowsInv
<1>11. \A b \in Bucket : Has(b, p)' = Has(b, p)
  BY <1>4, <1>5 DEF Has
<1> QED
  BY <1>1, <1>4, <1>10, <1>11, SameWay

\* One more row is in the transaction and one less follows.
LEMMA UpsertWay ==
  ASSUME WayInv, DrainInv', NEW p \in Replica, Upsert(p) PROVE WayInv'
<1>1. /\ DOMAIN writer = Replica /\ DOMAIN writer[p] = Fields
      /\ writer[p].pc = "write" /\ writer[p].rows # <<>>
      /\ UNCHANGED <<queue, bucket, lost, finished>>
  BY DEF WayInv, DrainInv, HeldInv, Upsert, Writing
<1>2. PICK rows, held : rows = writer[p].rows /\ held = writer[p].held
  OBVIOUS
<1>3. PICK T : T = Totals(writer[p].batch)
  OBVIOUS
<1>4. rows \in Seq(T) /\ rows # <<>> /\ T = held \cup {rows[i] : i \in 1 .. Len(rows)}
  BY <1>1, <1>2, <1>3 DEF WayInv, RowsInv
<1>5. writer' = [writer EXCEPT ![p].held = held \cup {Head(rows)}, ![p].rows = Tail(rows)]
  BY <1>2 DEF Upsert
<1>6. /\ \A o \in Replica \ {p} : queue'[o] = queue[o] /\ writer'[o] = writer[o]
      /\ queue'[p] = queue[p]
  BY <1>1, <1>5
<1>7. /\ writer'[p].pc = "write" /\ writer'[p].rows = Tail(rows)
      /\ writer'[p].batch = writer[p].batch /\ writer'[p].held = held \cup {Head(rows)}
  BY <1>1, <1>5 DEF Fields
<1>8. PICK rest : rest = Tail(rows)
  OBVIOUS
<1>9. /\ rest \in Seq(T) /\ Len(rows) \in Nat /\ Len(rest) = Len(rows) - 1
      /\ Head(rows) = rows[1] /\ \A i \in 1 .. Len(rest) : rest[i] = rows[i + 1]
  BY <1>4, <1>8
<1>10. {rows[i] : i \in 1 .. Len(rows)} = {Head(rows)} \cup {rest[i] : i \in 1 .. Len(rest)}
  <2>1. ASSUME NEW i \in 1 .. Len(rows)
        PROVE  rows[i] \in {Head(rows)} \cup {rest[k] : k \in 1 .. Len(rest)}
    <3>1. CASE i = 1
      BY <1>9, <3>1
    <3>2. CASE i # 1
      <4>1. i - 1 \in 1 .. Len(rest) /\ (i - 1) + 1 = i
        BY <1>9, <3>2
      <4>2. rest[i - 1] = rows[i]
        BY <1>9, <4>1
      <4> QED
        BY <4>1, <4>2
    <3> QED
      BY <3>1, <3>2
  <2>2. ASSUME NEW i \in 1 .. Len(rest) PROVE i + 1 \in 1 .. Len(rows) /\ rest[i] = rows[i + 1]
    BY <1>9
  <2>3. 1 \in 1 .. Len(rows)
    BY <1>4, <1>9
  <2>4. ASSUME NEW w \in {Head(rows)} \cup {rest[k] : k \in 1 .. Len(rest)}
        PROVE  \E i \in 1 .. Len(rows) : rows[i] = w
    <3>1. CASE w = Head(rows)
      BY <1>9, <2>3, <3>1
    <3>2. CASE \E k \in 1 .. Len(rest) : w = rest[k]
      <4>1. PICK k \in 1 .. Len(rest) : w = rest[k]
        BY <3>2
      <4> QED
        BY <2>2, <4>1
    <3> QED
      BY <3>1, <3>2
  <2> QED
    BY <2>1, <2>4
<1>11. T = (held \cup {Head(rows)}) \cup {rest[i] : i \in 1 .. Len(rest)}
  BY <1>4, <1>10
<1>12. Totals(writer'[p].batch) = T
  BY <1>3, <1>7
<1>13. RowsInv(p)'
  BY <1>7, <1>8, <1>9, <1>11, <1>12 DEF RowsInv
<1>14. \A b \in Bucket : Has(b, p)' = Has(b, p)
  BY <1>6, <1>7 DEF Has
<1> QED
  BY <1>1, <1>6, <1>13, <1>14, SameWay
\* Once every row of a batch is in its transaction, the commit adds to each
\* bucket what the batch has of it.
LEMMA AddedIs ==
  ASSUME WayInv, NEW p \in Replica, writer[p].pc = "write", writer[p].rows = <<>>
  PROVE  /\ Added(p) \in Counters
         /\ \A b \in Bucket : Added(p)[b] = bucket[b] + Times(b, writer[p].batch)
<1>1. PICK batch, held : batch = writer[p].batch /\ held = writer[p].held
  OBVIOUS
<1>2. batch \in Seq(Bucket)
  BY <1>1 DEF WayInv, DrainInv, HeldInv
<1>3. held = Totals(batch)
  <2>1. {writer[p].rows[i] : i \in 1 .. Len(writer[p].rows)} = {}
    OBVIOUS
  <2> QED
    BY <1>1, <2>1 DEF WayInv, RowsInv
<1>4. ASSUME NEW r \in held
      PROVE  \E i \in 1 .. Len(batch) :
               r.bucket = batch[i] /\ r.count = Times(batch[i], batch)
  BY <1>3, <1>4 DEF Totals
<1>5. ASSUME NEW b \in Bucket
      PROVE  (IF b \in Held(p) THEN (CHOOSE r \in held : r.bucket = b).count ELSE 0)
               = Times(b, batch)
  <2>1. CASE b \in Held(p)
    <3>1. \E r \in held : r.bucket = b
      BY <1>1, <2>1 DEF Held
    <3>2. PICK r \in held : r.bucket = b /\ r = CHOOSE w \in held : w.bucket = b
      BY <3>1
    <3>3. r.count = Times(b, batch)
      BY <1>4, <3>2
    <3> QED
      BY <2>1, <3>2, <3>3
  <2>2. CASE b \notin Held(p)
    <3>1. ASSUME NEW i \in 1 .. Len(batch), batch[i] = b PROVE FALSE
      <4>1. PICK r : r = [bucket |-> batch[i], count |-> Times(batch[i], batch)]
        OBVIOUS
      <4>2. r \in held /\ r.bucket = b
        BY <1>3, <3>1, <4>1 DEF Totals
      <4> QED
        BY <1>1, <2>2, <4>2 DEF Held
    <3>2. Positions(b, batch) = {}
      BY <1>2, <3>1 DEF Positions
    <3> QED
      BY <2>2, <3>2, FS_EmptySet DEF Times
  <2> QED
    BY <2>1, <2>2
<1>6. ASSUME NEW b \in Bucket PROVE Added(p)[b] = bucket[b] + Times(b, batch)
  BY <1>1, <1>5 DEF Added
<1>7. ASSUME NEW b \in Bucket PROVE Added(p)[b] \in Nat
  <2>1. Times(b, batch) \in Nat
    BY <1>2, PositionsAre
  <2>2. bucket[b] \in Nat
    BY DEF WayInv, Counters
  <2> QED
    BY <1>6, <2>1, <2>2
<1>8. Added(p) \in Counters
  <2>1. PICK g : g = Added(p)
    OBVIOUS
  <2>2. g = [b \in Bucket |-> g[b]]
    BY <2>1 DEF Added
  <2> QED
    BY <1>7, <2>1, <2>2 DEF Counters
<1> QED
  BY <1>1, <1>6, <1>8

LEMMA MissedIs ==
  ASSUME WayInv, NEW p \in Replica, NEW metric \in Seq(Bucket)
  PROVE  /\ Missed(p, metric) \in Counters
         /\ \A b \in Bucket : Missed(p, metric)[b] = lost[b] + Times(b, metric)
<1>1. ASSUME NEW b \in Bucket PROVE lost[b] + Times(b, metric) \in Nat
  <2>1. Times(b, metric) \in Nat /\ lost[b] \in Nat
    BY PositionsAre DEF WayInv, Counters
  <2> QED
    BY <2>1
<1> QED
  BY <1>1 DEF Missed, Counters

\* What replica p gives up is counted or lost, once.
LEMMA GivesUp ==
  ASSUME WayInv, DrainInv', NEW p \in Replica,
         \A o \in Replica \ {p} : queue'[o] = queue[o] /\ writer'[o] = writer[o],
         RowsInv(p)', UNCHANGED finished, bucket' \in Counters, lost' \in Counters,
         \A b \in Bucket : bucket'[b] + lost'[b] + Has(b, p)' = bucket[b] + lost[b] + Has(b, p)
  PROVE  WayInv'
<1>1. finished' \in Counters
  BY DEF WayInv
<1>2. \A b \in Bucket : finished'[b] + (bucket[b] + lost[b] + Has(b, p))
                          = finished[b] + (bucket'[b] + lost'[b] + Has(b, p)')
  OBVIOUS
<1> QED
  BY <1>1, <1>2, WayMoves

\* A batch that ends is in the buckets or lost.
LEMMA EndWay ==
  ASSUME WayInv, DrainInv', NEW p \in Replica, Commit(p) \/ BatchFails(p) \/ Deadlock(p)
  PROVE  WayInv'
<1>1. /\ writer' = [writer EXCEPT ![p] = NoBatch] /\ DOMAIN writer = Replica
      /\ UNCHANGED <<queue, finished>> /\ writer[p].pc = "write"
      /\ writer[p].batch \in Seq(Bucket)
  BY DEF WayInv, DrainInv, HeldInv, Commit, BatchFails, Deadlock, EndBatch, Blocks, Writing
<1>2. \/ writer[p].rows = <<>> /\ bucket' = Added(p) /\ lost' = lost
      \/ bucket' = bucket /\ lost' = Missed(p, writer[p].batch)
  BY DEF Commit, BatchFails, Deadlock
<1>3. /\ writer'[p] = NoBatch
      /\ \A o \in Replica \ {p} : queue'[o] = queue[o] /\ writer'[o] = writer[o]
      /\ queue'[p] = queue[p]
  BY <1>1
<1>4. NoBatch.batch = <<>> /\ NoBatch.held = {} /\ NoBatch.pc = "get"
  BY DEF NoBatch
<1>5. RowsInv(p)'
  BY <1>3, <1>4 DEF RowsInv
<1>6. \A b \in Bucket :
        /\ bucket[b] \in Nat /\ lost[b] \in Nat /\ Times(b, queue[p]) \in Nat
        /\ Times(b, writer[p].batch) \in Nat
  BY HasIsNat DEF WayInv, Counters
<1>7. \A b \in Bucket : /\ Has(b, p) = Times(b, queue[p]) + Times(b, writer[p].batch)
                        /\ Has(b, p)' = Times(b, queue[p])
  <2>1. ASSUME NEW b \in Bucket PROVE Has(b, p)' = Times(b, queue[p])
    <3>1. Times(b, writer'[p].batch) = 0 /\ Times(b, queue'[p]) = Times(b, queue[p])
      BY <1>3, <1>4, TimesNone
    <3> QED
      BY <1>6, <3>1 DEF Has
  <2> QED
    BY <2>1 DEF Has
<1>8. CASE writer[p].rows = <<>> /\ bucket' = Added(p) /\ lost' = lost
  <2>1. bucket' \in Counters /\ lost' \in Counters
    BY <1>1, <1>8, AddedIs DEF WayInv
  <2>2. \A b \in Bucket : bucket'[b] = bucket[b] + Times(b, writer[p].batch)
    BY <1>1, <1>8, AddedIs
  <2>3. \A b \in Bucket :
          bucket'[b] + lost'[b] + Has(b, p)' = bucket[b] + lost[b] + Has(b, p)
    BY <1>6, <1>7, <1>8, <2>2
  <2> QED
    BY <1>1, <1>3, <1>5, <2>1, <2>3, GivesUp
<1>9. CASE bucket' = bucket /\ lost' = Missed(p, writer[p].batch)
  <2>1. bucket' \in Counters /\ lost' \in Counters
    BY <1>1, <1>9, MissedIs DEF WayInv
  <2>2. \A b \in Bucket : lost'[b] = lost[b] + Times(b, writer[p].batch)
    BY <1>1, <1>9, MissedIs
  <2>3. \A b \in Bucket :
          bucket'[b] + lost'[b] + Has(b, p)' = bucket[b] + lost[b] + Has(b, p)
    BY <1>6, <1>7, <1>9, <2>2
  <2> QED
    BY <1>1, <1>3, <1>5, <2>1, <2>3, GivesUp
<1> QED
  BY <1>2, <1>8, <1>9

LEMMA JoinWay ==
  ASSUME WayInv, DrainInv', NEW p \in Replica, BeginStop(p) \/ Joined(p) PROVE WayInv'
<1>1. /\ UNCHANGED <<queue, bucket, lost, finished>>
      /\ DOMAIN writer = Replica /\ DOMAIN writer[p] = Fields
  BY DEF WayInv, DrainInv, HeldInv, BeginStop, Joined
<1>2. UNCHANGED writer \/ writer' = [writer EXCEPT ![p].pc = "stopped"]
  BY DEF BeginStop, Joined
<1>3. /\ \A o \in Replica \ {p} : queue'[o] = queue[o] /\ writer'[o] = writer[o]
      /\ queue'[p] = queue[p] /\ writer'[p].batch = writer[p].batch
  BY <1>1, <1>2 DEF Fields
<1>4. RowsInv(p)'
  <2>1. CASE UNCHANGED writer
    BY <2>1 DEF WayInv, RowsInv
  <2>2. CASE writer' = [writer EXCEPT ![p].pc = "stopped"]
    <3>1. writer'[p].pc = "stopped"
      BY <1>1, <2>2 DEF Fields
    <3> QED
      BY <3>1 DEF RowsInv
  <2> QED
    BY <1>2, <2>1, <2>2
<1>5. \A b \in Bucket : Has(b, p)' = Has(b, p)
  BY <1>3 DEF Has
<1> QED
  BY <1>1, <1>3, <1>4, <1>5, SameWay

\* The timeout loses the queue, and the batch unless its commit got through.
LEMMA CutWay ==
  ASSUME WayInv, DrainInv', NEW p \in Replica, JoinTimesOut(p) PROVE WayInv'
<1> DEFINE cut == [NoBatch EXCEPT !.pc = "stopped"]
<1>1. /\ writer' = [writer EXCEPT ![p] = cut] /\ DOMAIN writer = Replica
      /\ queue' = [queue EXCEPT ![p] = <<>>] /\ DOMAIN queue = Replica
      /\ UNCHANGED finished
      /\ writer[p].batch \in Seq(Bucket) /\ queue[p] \in Seq(Bucket)
  BY DEF WayInv, DrainInv, HeldInv, JoinTimesOut
<1>2. \/ bucket' = bucket /\ lost' = Missed(p, writer[p].batch \o queue[p])
      \/ /\ writer[p].pc = "write" /\ writer[p].rows = <<>>
         /\ bucket' = Added(p) /\ lost' = Missed(p, queue[p])
  BY DEF JoinTimesOut
<1>3. cut.batch = <<>> /\ cut.pc = "stopped"
  BY DEF NoBatch
<1> HIDE DEF cut
<1>4. /\ writer'[p] = cut /\ queue'[p] = <<>>
      /\ \A o \in Replica \ {p} : queue'[o] = queue[o] /\ writer'[o] = writer[o]
  BY <1>1
<1>5. RowsInv(p)'
  BY <1>3, <1>4 DEF RowsInv
<1>6. \A b \in Bucket :
        /\ bucket[b] \in Nat /\ lost[b] \in Nat /\ Times(b, queue[p]) \in Nat
        /\ Times(b, writer[p].batch) \in Nat
  BY HasIsNat DEF WayInv, Counters
<1>7. \A b \in Bucket : /\ Has(b, p) = Times(b, queue[p]) + Times(b, writer[p].batch)
                        /\ Has(b, p)' = 0
  <2>1. ASSUME NEW b \in Bucket PROVE Has(b, p)' = 0
    <3>1. Times(b, writer'[p].batch) = 0 /\ Times(b, queue'[p]) = 0
      BY <1>3, <1>4, TimesNone
    <3> QED
      BY <3>1 DEF Has
  <2> QED
    BY <2>1 DEF Has
<1>8. CASE bucket' = bucket /\ lost' = Missed(p, writer[p].batch \o queue[p])
  <2>1. PICK metric : metric = writer[p].batch \o queue[p]
    OBVIOUS
  <2>2. metric \in Seq(Bucket)
    BY <1>1, <2>1
  <2>3. bucket' \in Counters /\ lost' \in Counters
    BY <1>8, <2>1, <2>2, MissedIs DEF WayInv
  <2>4. \A b \in Bucket : lost'[b] = lost[b] + Times(b, metric)
    BY <1>8, <2>1, <2>2, MissedIs
  <2>5. \A b \in Bucket : Times(b, metric) = Times(b, writer[p].batch) + Times(b, queue[p])
    BY <1>1, <2>1, TimesConcat
  <2>6. \A b \in Bucket :
          bucket'[b] + lost'[b] + Has(b, p)' = bucket[b] + lost[b] + Has(b, p)
    BY <1>6, <1>7, <1>8, <2>4, <2>5
  <2> QED
    BY <1>1, <1>4, <1>5, <2>3, <2>6, GivesUp
<1>9. CASE /\ writer[p].pc = "write" /\ writer[p].rows = <<>>
           /\ bucket' = Added(p) /\ lost' = Missed(p, queue[p])
  <2>1. bucket' \in Counters /\ lost' \in Counters
    BY <1>1, <1>9, AddedIs, MissedIs
  <2>2. \A b \in Bucket : /\ bucket'[b] = bucket[b] + Times(b, writer[p].batch)
                          /\ lost'[b] = lost[b] + Times(b, queue[p])
    BY <1>1, <1>9, AddedIs, MissedIs
  <2>3. \A b \in Bucket :
          bucket'[b] + lost'[b] + Has(b, p)' = bucket[b] + lost[b] + Has(b, p)
    BY <1>6, <1>7, <2>2
  <2> QED
    BY <1>1, <1>4, <1>5, <2>1, <2>3, GivesUp
<1> QED
  BY <1>2, <1>8, <1>9

LEMMA WayStep == WayInv /\ [Next]_vars => WayInv'
<1> SUFFICES ASSUME WayInv, [Next]_vars PROVE WayInv'
  OBVIOUS
<1>0. DrainInv'
  BY DrainStep DEF WayInv
<1>1. CASE ArriveLimited \/ ArriveFree \/ Tick
  BY <1>0, <1>1, WayStays DEF ArriveLimited, ArriveFree, Arrives, Tick
<1>2. CASE \E k \in Minute : Count(k) \/ CountFails(k) \/ Expire(k) \/ Evict(k)
  BY <1>0, <1>2, WayStays DEF Count, CountFails, Expire, Evict
<1>3. ASSUME NEW p \in Replica,
             \/ \E b \in Bucket : Finish(p, b)
             \/ Writer(p) \/ BatchFails(p)
             \/ BeginStop(p) \/ Joined(p) \/ JoinTimesOut(p)
      PROVE  WayInv'
  BY <1>0, <1>3, FinishWay, GetWay, SealWay, UpsertWay, EndWay, JoinWay, CutWay
     DEF Writer
<1>4. CASE UNCHANGED vars
  BY <1>0, <1>4, WayStays DEF vars
<1> QED
  BY <1>1, <1>2, <1>3, <1>4 DEF Next

\* Every request that ended is in exactly one place: the bucket it was
\* committed to, a queue or a batch, or among the lost.  No upsert of several
\* writers, failed batch, aborted deadlock or cut shutdown counts one twice or
\* forgets one (core/analytics.py).
THEOREM EveryRequestCounted == Spec => []Accounted
<1>1. WayInv => Accounted
  BY DEF WayInv
<1> QED
  BY <1>1, WayInit, WayStep, PTL DEF Spec

=============================================================================

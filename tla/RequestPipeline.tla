--------------------------- MODULE RequestPipeline ----------------------------
(***************************************************************************)
(* What every request of the API passes in addition to its handler:        *)
(* core/rate_limit.py counts it in Valkey per client and minute, and       *)
(* core/analytics.py puts a metric of its end in a bounded queue, whose    *)
(* writer adds batches of them to the buckets in PostgreSQL.  Each replica *)
(* has its queue and its writer; Valkey and the buckets are shared.        *)
(*                                                                         *)
(* Time is the number of the minute.  Requests of one client differ only   *)
(* in the window they read, so they are counted; a bucket is a minute, a   *)
(* route and a method, chosen when the request ends.  Operators named      *)
(* X_Slip... are plausible mistakes in X that nothing uses.                *)
(***************************************************************************)
EXTENDS Integers, Sequences, FiniteSets

CONSTANTS
  Replica,     \* processes of the API
  Bucket,      \* buckets of metrics
  Quota,       \* _QUOTAS of the requests' class
  QueueSize,   \* analytics_queue_size
  BatchSize,   \* analytics_batch_size
  Loads,       \* bound: requests there may be, without and with a limiter
  MaxMinute,   \* bound: the clock stops here
  MaxFaults    \* bound: exceptions of Valkey and the database, evictions

ASSUME PipelineAssumption ==
  /\ IsFiniteSet(Replica)
  /\ Loads \subseteq [free : Nat, limited : Nat]
  /\ {Quota, QueueSize, BatchSize} \subseteq Nat \ {0}
  /\ {MaxMinute, MaxFaults} \subseteq Nat

VARIABLES
  minute,     \* int(time.time() // 60)
  counter,    \* counter[k]: the key of minute k, its count and when it was created
  load,       \* load[kind]: requests of that kind still to come
  counting,   \* counting[k]: requests that read minute k and are not counted
  serving,    \* requests the limiter has answered, not ended yet
  queue,      \* queue[p]: metrics waiting, as buckets
  unfinished, \* unfinished[p]: metrics put and not yet task_done
  writer,     \* writer[p]: the writer task
  stop,       \* stop[p]: progress of stop_analytics_writer
  bucket,     \* bucket[b]: request_count of the committed row b
  faults,     \* faults so far
  verdicts,   \* history: verdicts[k][v] requests of minute k with answer v, and
              \* how often its key was evicted
  finished,   \* history: finished[b] requests ended
  lost        \* history: lost[b] metrics dropped, or of batches that failed

limits  == <<load, counter, counting, verdicts>>
metrics == <<queue, unfinished, writer, stop, bucket, finished, lost>>
vars    == <<minute, limits, serving, metrics, faults>>

Minute == 0 .. MaxMinute
None   == [n |-> 0, since |-> 0]
NoBatch == [pc |-> "get", batch |-> <<>>, rows |-> <<>>, held |-> {}]

Init == /\ minute = 0
        /\ counter = [k \in Minute |-> None]
        /\ load \in Loads /\ serving = 0
        /\ counting = [k \in Minute |-> 0]
        /\ verdicts = [k \in Minute |-> [admitted |-> 0, rejected |-> 0, late |-> 0,
                                        unanswered |-> 0, evicted |-> 0]]
        /\ queue = [p \in Replica |-> <<>>]
        /\ unfinished = [p \in Replica |-> 0]
        /\ writer = [p \in Replica |-> NoBatch]
        /\ stop = [p \in Replica |-> "running"]
        /\ bucket = [b \in Bucket |-> 0]
        /\ faults = 0
        /\ finished = [b \in Bucket |-> 0]
        /\ lost = [b \in Bucket |-> 0]

Fault == faults < MaxFaults /\ faults' = faults + 1

-----------------------------------------------------------------------------
(* The rate limiter.                                                       *)

Arrives(kind) ==
  /\ \E p \in Replica : stop[p] = "running"
  /\ load[kind] > 0
  /\ load' = [load EXCEPT ![kind] = @ - 1]
  /\ UNCHANGED <<minute, counter, verdicts, metrics, faults>>

\* The window is read from the clock before the script is sent.
ArriveLimited ==
  /\ Arrives("limited")
  /\ counting' = [counting EXCEPT ![minute] = @ + 1]
  /\ serving' = serving

\* Routes without a limiter: health, readiness, version, no route at all.
ArriveFree ==
  /\ Arrives("free")
  /\ serving' = serving + 1
  /\ counting' = counting

Answered(k) == /\ counting[k] > 0
               /\ counting' = [counting EXCEPT ![k] = @ - 1]
               /\ serving' = serving + 1

\* The last request of the quota is turned away.
OverQuota_SlipLast(n) == n >= Quota

\* One more than the quota passes.
OverQuota_SlipOne(n) == n > Quota + 1

OverQuota(n) == n > Quota

\* _LUA_FIXED_WINDOW, which runs alone: INCR, and EXPIRE for a new key.
FixedWindow(k) ==
  LET n == counter[k].n + 1
  IN  counter' = [counter EXCEPT
                    ![k] = [n |-> n, since |-> IF n = 1 THEN minute ELSE @.since]]

Verdict(k) == IF OverQuota(counter[k].n + 1) THEN "rejected"
              ELSE IF minute > k THEN "late" ELSE "admitted"

\* Rejected requests are answered 429.
Count(k) ==
  /\ Answered(k)
  /\ FixedWindow(k)
  /\ verdicts' = [verdicts EXCEPT ![k][Verdict(k)] = @ + 1]
  /\ UNCHANGED <<minute, load, metrics, faults>>

\* 503: the script did not run, or it did and its reply was lost.  Then the
\* request took a place of the quota without being served ("unanswered").
CountFails(k) ==
  /\ Answered(k)
  /\ Fault
  /\ \/ UNCHANGED <<counter, verdicts>>
     \/ /\ FixedWindow(k)
        /\ verdicts' = IF Verdict(k) = "rejected" THEN verdicts
                       ELSE [verdicts EXCEPT ![k].unanswered = @ + 1]
  /\ UNCHANGED <<minute, load, metrics>>

\* Valkey deletes a key a minute after its creation.
Expire(k) ==
  /\ counter[k].n > 0 /\ counter[k].since < minute
  /\ counter' = [counter EXCEPT ![k] = None]
  /\ UNCHANGED <<minute, load, counting, verdicts, serving, metrics, faults>>

\* Valkey runs with maxmemory-policy volatile-lfu, and the key has an expiry.
Evict(k) ==
  /\ counter[k].n > 0
  /\ Fault
  /\ counter' = [counter EXCEPT ![k] = None]
  /\ verdicts' = [verdicts EXCEPT ![k].evicted = @ + 1]
  /\ UNCHANGED <<minute, load, counting, serving, metrics>>

Tick ==
  /\ minute < MaxMinute
  /\ \A k \in Minute : counter[k].n > 0 => counter[k].since = minute
  /\ minute' = minute + 1
  /\ UNCHANGED <<limits, serving, metrics, faults>>

-----------------------------------------------------------------------------
(* Request analytics.                                                      *)

\* The middleware's finally: whatever the answer was, one metric, which is
\* dropped when the queue is full.
Finish(p, b) ==
  /\ serving > 0 /\ stop[p] = "running"
  /\ serving' = serving - 1
  /\ finished' = [finished EXCEPT ![b] = @ + 1]
  /\ IF Len(queue[p]) < QueueSize
       THEN /\ queue' = [queue EXCEPT ![p] = Append(@, b)]
            /\ unfinished' = [unfinished EXCEPT ![p] = @ + 1]
            /\ lost' = lost
       ELSE /\ lost' = [lost EXCEPT ![b] = @ + 1]
            /\ UNCHANGED <<queue, unfinished>>
  /\ UNCHANGED <<minute, limits, writer, stop, bucket, faults>>

\* task_done as soon as the metric is out of the queue.
Get_SlipDone(p) ==
  /\ writer[p].pc \in {"get", "collect"}
  /\ queue[p] # <<>> /\ Len(writer[p].batch) < BatchSize
  /\ queue' = [queue EXCEPT ![p] = Tail(@)]
  /\ unfinished' = [unfinished EXCEPT ![p] = @ - 1]
  /\ writer' = [writer EXCEPT ![p].pc = "collect",
                              ![p].batch = Append(@, Head(queue[p]))]
  /\ UNCHANGED <<minute, limits, serving, stop, bucket, faults, finished, lost>>

\* The first metric of a batch, or the next before the deadline.
Get(p) ==
  /\ writer[p].pc \in {"get", "collect"}
  /\ queue[p] # <<>> /\ Len(writer[p].batch) < BatchSize
  /\ queue' = [queue EXCEPT ![p] = Tail(@)]
  /\ writer' = [writer EXCEPT ![p].pc = "collect",
                              ![p].batch = Append(@, Head(queue[p]))]
  /\ UNCHANGED <<minute, limits, serving, unfinished, stop, bucket, faults, finished, lost>>

Positions(b, s) == {i \in DOMAIN s : s[i] = b}
Times(b, s)     == Cardinality(Positions(b, s))

\* A row per metric, which the upsert then counts as one request each.
Aggregate_SlipOne(batch) ==
  LET Firsts == {i \in DOMAIN batch : \A k \in 1 .. i - 1 : batch[k] # batch[i]}
      Rank(i) == Cardinality({k \in Firsts : k <= i})
  IN  [r \in 1 .. Cardinality(Firsts) |->
         LET i == CHOOSE i \in Firsts : Rank(i) = r
         IN  [bucket |-> batch[i], count |-> 1]]

\* One row per bucket, in the order of their first metrics.
Aggregate(batch) ==
  LET Firsts == {i \in DOMAIN batch : \A k \in 1 .. i - 1 : batch[k] # batch[i]}
      Rank(i) == Cardinality({k \in Firsts : k <= i})
  IN  [r \in 1 .. Cardinality(Firsts) |->
         LET i == CHOOSE i \in Firsts : Rank(i) = r
         IN  [bucket |-> batch[i], count |-> Times(batch[i], batch)]]

\* The batch is full, or analytics_flush_seconds are over.
Seal(p) ==
  /\ writer[p].pc = "collect"
  /\ writer' = [writer EXCEPT ![p].pc = "write", ![p].rows = Aggregate(writer[p].batch)]
  /\ UNCHANGED <<minute, limits, serving, queue, unfinished, stop, bucket, faults, finished, lost>>

Writing(p)   == writer[p].pc = "write" /\ writer[p].rows # <<>>
Held(p)      == {r.bucket : r \in writer[p].held}
Blocks(o, p) == o # p /\ Writing(p) /\ Head(writer[p].rows).bucket \in Held(o)

\* One row of the upsert, when no other writer's transaction holds it.
Upsert(p) ==
  /\ Writing(p)
  /\ \A o \in Replica : ~Blocks(o, p)
  /\ writer' = [writer EXCEPT ![p].held = @ \cup {Head(writer[p].rows)},
                              ![p].rows = Tail(@)]
  /\ UNCHANGED <<minute, limits, serving, queue, unfinished, stop, bucket, faults, finished, lost>>

Added(p) == [b \in Bucket |->
  bucket[b] + IF b \in Held(p) THEN (CHOOSE r \in writer[p].held : r.bucket = b).count ELSE 0]
Missed(p, metric) == [b \in Bucket |-> lost[b] + Times(b, metric)]

\* Once for the batch instead of once for each of its metrics.
TaskDone_SlipOnce(p) == unfinished' = [unfinished EXCEPT ![p] = @ - 1]

\* For every metric of the batch, in the finally of its write.
TaskDone(p) == unfinished' = [unfinished EXCEPT ![p] = @ - Len(writer[p].batch)]

EndBatch(p) == writer' = [writer EXCEPT ![p] = NoBatch] /\ TaskDone(p)

\* session.commit()
Commit(p) ==
  /\ writer[p].pc = "write" /\ writer[p].rows = <<>>
  /\ bucket' = Added(p)
  /\ EndBatch(p)
  /\ UNCHANGED <<minute, limits, serving, queue, stop, faults, finished, lost>>

\* An exception is logged and the batch forgotten; when only the answer to the
\* commit was lost it was written all the same.
BatchFails(p) ==
  /\ writer[p].pc = "write"
  /\ Fault
  /\ \/ lost' = Missed(p, writer[p].batch) /\ bucket' = bucket
     \/ writer[p].rows = <<>> /\ bucket' = Added(p) /\ lost' = lost
  /\ EndBatch(p)
  /\ UNCHANGED <<minute, limits, serving, queue, stop, finished>>

\* Two writers hold a row each and wait for the other's: PostgreSQL aborts one.
Deadlock(p) ==
  /\ \E o \in Replica : Blocks(o, p) /\ Blocks(p, o)
  /\ lost' = Missed(p, writer[p].batch)
  /\ EndBatch(p)
  /\ UNCHANGED <<minute, limits, serving, queue, stop, bucket, faults, finished>>

\* The lifespan of a replica ends when its requests have: the last replica's
\* when all have.
BeginStop(p) ==
  /\ stop[p] = "running"
  /\ \/ \E o \in Replica \ {p} : stop[o] = "running"
     \/ serving = 0 /\ \A k \in Minute : counting[k] = 0
  /\ stop' = [stop EXCEPT ![p] = "joining"]
  /\ UNCHANGED <<minute, limits, serving, queue, unfinished, writer, bucket, faults, finished, lost>>

\* queue.join() returns, and the writer is cancelled.
Joined(p) ==
  /\ stop[p] = "joining" /\ unfinished[p] = 0
  /\ stop' = [stop EXCEPT ![p] = "joined"]
  /\ writer' = [writer EXCEPT ![p].pc = "stopped"]
  /\ UNCHANGED <<minute, limits, serving, queue, unfinished, bucket, faults, finished, lost>>

\* The timeout ends first: what is queued or in a batch is lost, unless the
\* commit was already on its way.
JoinTimesOut(p) ==
  /\ stop[p] = "joining" /\ unfinished[p] > 0
  /\ stop' = [stop EXCEPT ![p] = "timed out"]
  /\ \/ bucket' = bucket /\ lost' = Missed(p, writer[p].batch \o queue[p])
     \/ /\ writer[p].pc = "write" /\ writer[p].rows = <<>>
        /\ bucket' = Added(p) /\ lost' = Missed(p, queue[p])
  /\ writer' = [writer EXCEPT ![p] = [NoBatch EXCEPT !.pc = "stopped"]]
  /\ queue' = [queue EXCEPT ![p] = <<>>]
  /\ UNCHANGED <<minute, limits, serving, unfinished, faults, finished>>

Writer(p)  == Get(p) \/ Seal(p) \/ Upsert(p) \/ Commit(p) \/ Deadlock(p)

Next == \/ ArriveLimited \/ ArriveFree \/ Tick
        \/ \E k \in Minute : Count(k) \/ CountFails(k) \/ Expire(k) \/ Evict(k)
        \/ \E p \in Replica : \/ \E b \in Bucket : Finish(p, b)
                              \/ Writer(p) \/ BatchFails(p)
                              \/ BeginStop(p) \/ Joined(p) \/ JoinTimesOut(p)

Spec == Init /\ [][Next]_vars

\* The event loop runs the writer and the join; statements end.
FairSpec == /\ Spec
            /\ \A p \in Replica : WF_vars(Writer(p)) /\ WF_vars(Joined(p))

-----------------------------------------------------------------------------
(* Properties.                                                             *)

\* No more requests of a client than the quota pass in a minute, on whatever
\* replicas, as long as the script runs in the minute it counts for, and the
\* quota once more for each time Valkey evicted the key.
QuotaPerMinute ==
  \A k \in Minute : verdicts[k].admitted <= Quota * (1 + verdicts[k].evicted)

\* The requests of minute k that took a place of its quota.
Placed(k) == verdicts[k].admitted + verdicts[k].late + verdicts[k].unanswered

\* 429 is only said when the quota of that minute was used, never because of
\* another minute's requests or of rejected ones.  A request that got 503 after
\* it was counted has used the quota too.
RejectedOverQuota ==
  \A k \in Minute : verdicts[k].rejected > 0 => Placed(k) >= Quota

\* The metrics of bucket b in the queue and in the batch of replica p.
Pending(b, p) == ({"queue"} \X Positions(b, queue[p]))
                 \cup ({"batch"} \X Positions(b, writer[p].batch))
OnTheirWay(b) == UNION {{p} \X Pending(b, p) : p \in Replica}

\* Every request that ended is in exactly one place: its bucket, a queue or
\* batch, or among the lost; nothing is counted twice when upserts of several
\* replicas meet, batches fail or a replica stops.
Accounted ==
  \A b \in Bucket :
    finished[b] = bucket[b] + lost[b] + Cardinality(OnTheirWay(b))

\* A shutdown that was not cut off by its timeout left no metric behind
\* (queue.join() and task_done).
JoinedMeansWritten ==
  \A p \in Replica : stop[p] = "joined" => queue[p] = <<>> /\ writer[p].batch = <<>>

\* The drain ends by itself: no metric keeps the join waiting, even when
\* writers block each other.
DrainEnds == \A p \in Replica : stop[p] = "joining" ~> stop[p] # "joining"
=============================================================================

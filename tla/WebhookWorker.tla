---------------------------- MODULE WebhookWorker -----------------------------
(***************************************************************************)
(* ingestion/worker.py: workers pull webhook messages from the JetStream   *)
(* consumer "webhook-workers", deliver each over HTTP with retries, and    *)
(* acknowledge it or move it to the dead-letter subject first.             *)
(*                                                                         *)
(* A batch is awaited with asyncio.gather: the first exception ends the    *)
(* wait, the other tasks of the batch go on beside the batches that        *)
(* follow.  JetStream delivers a message again when its ack wait, 30 s by  *)
(* default, runs out; one dispatch may take longer than that.  Operators   *)
(* named X_Slip... are plausible mistakes in X that nothing uses.          *)
(***************************************************************************)
EXTENDS Integers, FiniteSets

CONSTANTS
  Message,     \* messages of events.webhooks.outbound
  Kind,        \* Kind[m]: what its envelope and payload are
  Worker,      \* worker processes
  BatchSize,   \* settings.webhook_batch_size
  MaxAttempts, \* settings.webhook_max_attempts
  MaxSlots,    \* bound: deliveries of one message handled at the same time
  MaxFaults    \* bound: exceptions, lost acknowledgements and crashes

ASSUME WorkerAssumption ==
  /\ Kind \in [Message -> {"normal", "malformed", "large"}]
  /\ {BatchSize, MaxAttempts, MaxSlots} \subseteq Nat \ {0}
  /\ MaxFaults \in Nat

Slot == 1 .. MaxSlots

VARIABLES
  queue,     \* queue[m]: state of m in the consumer
  task,      \* task[m][s]: a running _handle_message for m, or Free
  active,    \* the webhook is active and subscribed to the event
  dead,      \* messages on events.webhooks.dlq
  posts,     \* history: POSTs attempted for m, counted to MaxAttempts + 1
  delivered, \* history: messages with a row of a successful attempt
  exhausted, \* history: messages with a full set of failed rows
  skipped,   \* history: messages whose webhook was found inactive
  faults     \* faults so far

vars == <<queue, task, active, dead, posts, delivered, exhausted, skipped, faults>>
history == <<posts, delivered, exhausted, skipped>>

NoWorker == "none"
Free == [pc |-> "free", worker |-> NoWorker, orphan |-> FALSE, attempt |-> 0,
         ok |-> FALSE]
Started(w) == [pc |-> "parse", worker |-> w, orphan |-> FALSE, attempt |-> 0,
               ok |-> FALSE]

Live(m, s) == task[m][s].pc # "free"

Init == /\ queue = [m \in Message |-> "queued"]
        /\ task = [m \in Message |-> [s \in Slot |-> Free]]
        /\ active = TRUE
        /\ dead = {}
        /\ posts = [m \in Message |-> 0]
        /\ delivered = {} /\ exhausted = {} /\ skipped = {}
        /\ faults = 0

Goto(m, s, pc) == task' = [task EXCEPT ![m][s].pc = pc]
End(m, s)      == task' = [task EXCEPT ![m][s] = Free]

-----------------------------------------------------------------------------
(* run_worker                                                              *)

Batch(w) == {m \in Message : \E s \in Slot :
               task[m][s].worker = w /\ ~task[m][s].orphan}

FreeSlots(m) == {s \in Slot : ~Live(m, s)}
FirstFree(m) == CHOOSE s \in FreeSlots(m) : \A t \in FreeSlots(m) : s <= t

\* subscription.fetch, and a task for every message of the batch.
Take(w) ==
  /\ \E S \in SUBSET {m \in Message : queue[m] = "queued" /\ FreeSlots(m) # {}} :
       /\ S # {} /\ Cardinality(S) <= BatchSize
       /\ queue' = [m \in Message |-> IF m \in S THEN "leased" ELSE queue[m]]
       /\ task' = [m \in Message |->
                     IF m \in S
                       THEN [task[m] EXCEPT ![FirstFree(m)] = Started(w)]
                       ELSE task[m]]
  /\ UNCHANGED <<active, dead, history, faults>>

\* Fetches without having awaited the batch before.
Fetch_SlipAwait(w) == Take(w)

\* The loop is back at the fetch: gather has returned or raised.
Fetch(w) == Batch(w) = {} /\ Take(w)

\* An exception leaves _handle_message.  If gather still waits for the task,
\* run_worker goes on to the next batch without the others.
Raise(m, s) ==
  LET w == task[m][s].worker IN
  /\ faults < MaxFaults
  /\ task[m][s].pc # "free"
  /\ task[m][s].pc = "parse" => Kind[m] = "malformed"     \* term() raises
  /\ faults' = faults + 1
  /\ task' = [n \in Message |-> [t \in Slot |->
                IF n = m /\ t = s THEN Free
                ELSE IF task[n][t].worker = w /\ ~task[m][s].orphan
                  THEN [task[n][t] EXCEPT !.orphan = TRUE]
                  ELSE task[n][t]]]
  \* A publication that timed out may have got through all the same.
  /\ dead' \in {dead} \cup IF task[m][s].pc = "dlq" THEN {dead \cup {m}} ELSE {}
  /\ UNCHANGED <<queue, active, history>>

-----------------------------------------------------------------------------
(* _handle_message                                                         *)

\* term() for an envelope that does not parse.
Parse(m, s) ==
  /\ task[m][s].pc = "parse"
  /\ IF Kind[m] = "malformed"
       THEN queue' = [queue EXCEPT ![m] = "termed"] /\ End(m, s)
       ELSE queue' = queue /\ Goto(m, s, "load")
  /\ UNCHANGED <<active, dead, history, faults>>

\* The webhook as it is now; deliveries that follow do not look again.
Load(m, s) ==
  /\ task[m][s].pc = "load"
  /\ IF active
       THEN /\ skipped' = skipped
            /\ IF Kind[m] = "large"
                 THEN Goto(m, s, "dlq")
                 ELSE task' = [task EXCEPT ![m][s].pc = "post",
                                           ![m][s].attempt = 1]
       ELSE skipped' = skipped \cup {m} /\ Goto(m, s, "ack")
  /\ UNCHANGED <<queue, active, dead, posts, delivered, exhausted, faults>>

\* _deliver_once up to the answer: a 2xx, or anything else, an HTTPError, a
\* URL or secret that is rejected.
Post(m, s) ==
  /\ task[m][s].pc = "post"
  /\ \E ok \in BOOLEAN :
       task' = [task EXCEPT ![m][s].pc = "record", ![m][s].ok = ok]
  /\ posts' = [posts EXCEPT ![m] = IF @ > MaxAttempts THEN @ ELSE @ + 1]
  /\ UNCHANGED <<queue, active, dead, delivered, exhausted, skipped, faults>>

\* The attempt after attempt n.
NextAttempt(n) == n + 1

\* range(1, max_attempts).
LastAttempt_SlipRange(n) == n = MaxAttempts - 1 \/ MaxAttempts = 1

LastAttempt(n) == n = MaxAttempts

\* The row of the attempt is written; a failed dispatch goes on at failed.
RecordThen(m, s, failed) ==
  /\ task[m][s].pc = "record"
  /\ IF task[m][s].ok
       THEN delivered' = delivered \cup {m} /\ Goto(m, s, "ack")
       ELSE /\ delivered' = delivered
            /\ IF LastAttempt(task[m][s].attempt)
                 THEN Goto(m, s, failed)
                 ELSE task' = [task EXCEPT ![m][s].pc = "post",
                                           ![m][s].attempt = NextAttempt(@)]
  /\ exhausted' = IF ~task[m][s].ok /\ task[m][s].attempt = MaxAttempts
                    THEN exhausted \cup {m} ELSE exhausted
  /\ UNCHANGED <<queue, active, dead, posts, skipped, faults>>

\* Acknowledges a failed dispatch and publishes no dead letter.
Record_SlipAckFirst(m, s) == RecordThen(m, s, "ack")

\* _record_delivery, and what _dispatch and _handle_message make of the result.
Record(m, s) == RecordThen(m, s, "dlq")

\* The dead letter is published and the message left alone.
PublishDeadLetter_SlipAck(m, s) ==
  /\ task[m][s].pc = "dlq"
  /\ dead' = dead \cup {m}
  /\ End(m, s)
  /\ UNCHANGED <<queue, active, history, faults>>

PublishDeadLetter(m, s) ==
  /\ task[m][s].pc = "dlq"
  /\ dead' = dead \cup {m}
  /\ Goto(m, s, "ack")
  /\ UNCHANGED <<queue, active, history, faults>>

\* Settled, whichever of its deliveries the acknowledgement answers.
Ack(m, s) ==
  /\ task[m][s].pc = "ack"
  /\ End(m, s)
  /\ \/ queue' = [queue EXCEPT ![m] = "acked"] /\ faults' = faults
     \/ /\ faults < MaxFaults             \* it never reaches the server
        /\ queue' = queue
        /\ faults' = faults + 1
  /\ UNCHANGED <<active, dead, history>>

-----------------------------------------------------------------------------
(* The environment.                                                        *)

\* JetStream offers a message again; the consumer sets no max_deliver.
AckWaitExpires(m) ==
  /\ queue[m] = "leased"
  /\ queue' = [queue EXCEPT ![m] = "queued"]
  /\ UNCHANGED <<task, active, dead, history, faults>>

\* The webhook's owner deletes, disables or enables it.
ToggleWebhook ==
  /\ active' = ~active
  /\ UNCHANGED <<queue, task, dead, history, faults>>

\* The process stops and starts again with nothing in memory.
Crash(w) ==
  /\ faults < MaxFaults
  /\ \E m \in Message, s \in Slot : task[m][s].worker = w
  /\ faults' = faults + 1
  /\ task' = [m \in Message |-> [s \in Slot |->
                IF task[m][s].worker = w THEN Free ELSE task[m][s]]]
  /\ UNCHANGED <<queue, active, dead, history>>

TaskStep(m, s) == \/ Parse(m, s) \/ Load(m, s) \/ Post(m, s) \/ Record(m, s)
                  \/ PublishDeadLetter(m, s) \/ Ack(m, s)

Settled(m) == queue[m] \in {"acked", "termed"}

Next == \/ \E w \in Worker : Fetch(w) \/ Crash(w)
        \/ \E m \in Message, s \in Slot : TaskStep(m, s) \/ Raise(m, s)
        \/ \E m \in Message : AckWaitExpires(m)
        \/ ToggleWebhook

Spec == Init /\ [][Next]_vars

\* Tasks run, every call they await has a timeout, the workers keep fetching,
\* the ack wait runs out.
Fairness == /\ \A w \in Worker : WF_vars(Fetch(w))
            /\ \A m \in Message : /\ WF_vars(AckWaitExpires(m))
                                  /\ \A s \in Slot : WF_vars(TaskStep(m, s))

FairSpec == Spec /\ Fairness

-----------------------------------------------------------------------------
(* Properties.                                                             *)

Tasks == [pc : {"free", "parse", "load", "post", "record", "dlq", "ack"},
          worker : Worker \cup {NoWorker}, orphan : BOOLEAN,
          attempt : 0 .. MaxAttempts, ok : BOOLEAN]

\* Messages, tasks and histories have the form the code gives them.
TypeOK ==
  /\ queue \in [Message -> {"queued", "leased", "acked", "termed"}]
  /\ task \in [Message -> [Slot -> Tasks]]
  /\ active \in BOOLEAN
  /\ posts \in [Message -> 0 .. MaxAttempts + 1]
  /\ dead \cup delivered \cup exhausted \cup skipped \subseteq Message
  /\ faults \in 0 .. MaxFaults

Accounted(m) == m \in delivered \cup dead \cup skipped
Undeliverable(m) == m \in exhausted \/ Kind[m] = "large"

\* Why an acknowledgement may be believed: each task of a message that is about
\* to acknowledge has its reason on record before, and so has one about to
\* publish a dead letter, whatever the other tasks of the message did
\* (_handle_message).
SettleInv ==
  \A m \in Message :
    /\ m \in dead => Undeliverable(m)
    /\ queue[m] = "acked" => Accounted(m)
    /\ \A s \in Slot : /\ task[m][s].pc = "ack" => Accounted(m)
                       /\ task[m][s].pc = "dlq" => Undeliverable(m)

\* A message is acknowledged only after a delivery of it was recorded as
\* successful, or it is on the dead-letter subject, or its webhook was found
\* inactive: whatever raised, crashed or was delivered twice on the way
\* (_handle_message).
AckImpliesSettled == \A m \in Message : queue[m] = "acked" => Accounted(m)

\* A dead letter has behind it one dispatch of which every attempt failed and
\* was recorded, or a payload too large to send (_dispatch).
DeadLettersAreExhausted == \A m \in dead : Undeliverable(m)

\* However often JetStream delivers a message again, no worker handles two
\* deliveries of it at the same time, until something raises: gather keeps the
\* worker's next fetch waiting for the whole batch (run_worker).
OneDeliveryAtATime ==
  faults = 0 => \A m \in Message : \A s, t \in Slot :
                   Live(m, s) /\ Live(m, t) /\ task[m][s].worker = task[m][t].worker
                     => s = t

\* At most webhook_max_attempts POSTs are made before a message is
\* dead-lettered, until something raises or crashes.
AttemptsBeforeDeadLetter ==
  faults = 0 => \A m \in Message : m \notin dead => posts[m] <= MaxAttempts

\* Every message is settled in the end: acknowledged or terminated.
EveryMessageSettles == \A m \in Message : <>[]Settled(m)
=============================================================================

------------------------- MODULE WebhookWorkerProofs --------------------------
(***************************************************************************)
(* Proofs about WebhookWorker: its type invariant, that nothing is         *)
(* acknowledged or dead-lettered without its reason, and that a worker has *)
(* one delivery of a message at a time until something raises, for any     *)
(* number of messages, workers, attempts, repeated deliveries and faults.  *)
(***************************************************************************)
EXTENDS WebhookWorker, TLAPS

\* The one bound that the types mention.
LEMMA AttemptsAreCounted == MaxAttempts \in Nat \ {0}
BY WorkerAssumption

\* q is a record that a task with record r may have at its next point pc.
Follows(q, r, pc) == /\ q \in Tasks /\ q.pc = pc
                     /\ q.worker = r.worker /\ q.orphan = r.orphan

\* The records a task goes through: only its point, its attempt and the result
\* of the attempt change, never whose task it is (Goto, Load, Post, Record).
LEMMA NextPoint ==
  ASSUME NEW r \in Tasks,
         NEW pc \in {"free", "parse", "load", "post", "record", "dlq", "ack"}
  PROVE  Follows([r EXCEPT !.pc = pc], r, pc)
BY DEF Tasks, Follows

LEMMA NextPost ==
  ASSUME NEW r \in Tasks, NEW n \in 0 .. MaxAttempts
  PROVE  Follows([r EXCEPT !.pc = "post", !.attempt = n], r, "post")
BY DEF Tasks, Follows

LEMMA NextRecord ==
  ASSUME NEW r \in Tasks, NEW ok \in BOOLEAN
  PROVE  Follows([r EXCEPT !.pc = "record", !.ok = ok], r, "record")
BY DEF Tasks, Follows

\* A step that replaces one task's record leaves the others alone (Goto and End).
LEMMA SetTask ==
  ASSUME TypeOK, NEW m \in Message, NEW s \in Slot, NEW r \in Tasks,
         task' = [task EXCEPT ![m][s] = r]
  PROVE  /\ task' \in [Message -> [Slot -> Tasks]]
         /\ \A n \in Message, t \in Slot :
              task'[n][t] = IF n = m /\ t = s THEN r ELSE task[n][t]
BY DEF TypeOK

\* Goto moves one task and keeps what else it knows.
LEMMA GotoTask ==
  ASSUME TypeOK, NEW m \in Message, NEW s \in Slot,
         NEW pc \in {"free", "parse", "load", "post", "record", "dlq", "ack"},
         Goto(m, s, pc)
  PROVE  /\ task' \in [Message -> [Slot -> Tasks]]
         /\ \A n \in Message, t \in Slot :
              /\ task'[n][t].pc = IF n = m /\ t = s THEN pc ELSE task[n][t].pc
              /\ task'[n][t].worker = task[n][t].worker
              /\ task'[n][t].orphan = task[n][t].orphan
<1> DEFINE r == [task[m][s] EXCEPT !.pc = pc]
<1>1. task[m][s] \in Tasks
  BY DEF TypeOK
<1>2. Follows(r, task[m][s], pc)
  BY <1>1, NextPoint
<1>3. task' = [task EXCEPT ![m][s] = r]
  BY DEF Goto
<1> HIDE DEF r
<1> QED
  BY <1>2, <1>3, SetTask DEF Follows

\* The record of a slot without a task is a task record.
LEMMA FreeTask == Free \in Tasks /\ Free.pc = "free"
BY AttemptsAreCounted DEF Free, Tasks

\* End frees one task.
LEMMA EndTask ==
  ASSUME TypeOK, NEW m \in Message, NEW s \in Slot, End(m, s)
  PROVE  /\ task' \in [Message -> [Slot -> Tasks]]
         /\ \A n \in Message, t \in Slot :
              task'[n][t].pc = IF n = m /\ t = s THEN "free" ELSE task[n][t].pc
<1>1. task' = [task EXCEPT ![m][s] = Free]
  BY DEF End
<1> QED
  BY <1>1, FreeTask, SetTask

-----------------------------------------------------------------------------
\* What each action does to the tasks: their records stay well-formed, and a
\* task is about to acknowledge or to publish a dead letter only if it was
\* before or if this step took it there.
NewTasks == task' \in [Message -> [Slot -> Tasks]]
Moves(m, s, pc) == \A n \in Message, t \in Slot :
                     task'[n][t].pc = IF n = m /\ t = s THEN pc ELSE task[n][t].pc
NoNewEnd == \A n \in Message, t \in Slot :
              task'[n][t].pc \in {"ack", "dlq"} => task'[n][t].pc = task[n][t].pc

\* A fetch starts tasks that have parsed nothing yet.
LEMMA FetchTasks ==
  ASSUME TypeOK, NEW w \in Worker, Fetch(w)
  PROVE  NewTasks /\ NoNewEnd
<1> DEFINE r == Started(w)
<1>1. r \in Tasks /\ r.pc = "parse"
  BY AttemptsAreCounted DEF Started, Tasks
<1>2. PICK S \in SUBSET Message :
        task' = [m \in Message |-> IF m \in S
                                     THEN [task[m] EXCEPT ![FirstFree(m)] = r]
                                     ELSE task[m]]
  BY DEF Fetch, Take
<1> HIDE DEF r
<1>3. ASSUME NEW n \in Message
      PROVE  /\ task'[n] \in [Slot -> Tasks]
             /\ \A t \in Slot : task'[n][t] \in {r, task[n][t]}
  <2>1. task[n] \in [Slot -> Tasks]
    BY DEF TypeOK
  <2>2. task'[n] = IF n \in S THEN [task[n] EXCEPT ![FirstFree(n)] = r]
                              ELSE task[n]
    BY <1>2
  <2> QED
    BY <1>1, <2>1, <2>2
<1>4. NewTasks
  BY <1>2, <1>3 DEF NewTasks
<1>5. NoNewEnd
  BY <1>1, <1>3 DEF NoNewEnd
<1> QED
  BY <1>4, <1>5

\* An exception frees its task and makes orphans of others.
LEMMA RaiseTasks ==
  ASSUME TypeOK, NEW m \in Message, NEW s \in Slot, Raise(m, s)
  PROVE  NewTasks /\ NoNewEnd
<1> DEFINE w == task[m][s].worker
<1>1. task' = [n \in Message |-> [t \in Slot |->
                IF n = m /\ t = s THEN Free
                ELSE IF task[n][t].worker = w /\ ~task[m][s].orphan
                  THEN [task[n][t] EXCEPT !.orphan = TRUE]
                  ELSE task[n][t]]]
  BY DEF Raise
<1>2. ASSUME NEW n \in Message, NEW t \in Slot
      PROVE  /\ task'[n][t] \in Tasks
             /\ task'[n][t].pc \in {"free", task[n][t].pc}
  <2>1. task[n][t] \in Tasks
    BY DEF TypeOK
  <2>2. /\ [task[n][t] EXCEPT !.orphan = TRUE] \in Tasks
        /\ [task[n][t] EXCEPT !.orphan = TRUE].pc = task[n][t].pc
    BY <2>1 DEF Tasks
  <2> QED
    BY <1>1, <2>1, <2>2, FreeTask
<1>3. NewTasks
  BY <1>1, <1>2 DEF NewTasks
<1> QED
  BY <1>2, <1>3 DEF NoNewEnd

\* A crash frees all tasks of its worker.
LEMMA CrashTasks ==
  ASSUME TypeOK, NEW w \in Worker, Crash(w)
  PROVE  NewTasks /\ NoNewEnd
<1>1. task' = [m \in Message |-> [s \in Slot |->
                IF task[m][s].worker = w THEN Free ELSE task[m][s]]]
  BY DEF Crash
<1>2. ASSUME NEW n \in Message, NEW t \in Slot
      PROVE  /\ task'[n][t] \in Tasks
             /\ task'[n][t].pc \in {"free", task[n][t].pc}
  BY <1>1, FreeTask DEF TypeOK
<1>3. NewTasks
  BY <1>1, <1>2 DEF NewTasks
<1> QED
  BY <1>2, <1>3 DEF NoNewEnd

-----------------------------------------------------------------------------
\* A step of a task moves that task only.
LEMMA StepMoves ==
  ASSUME TypeOK, NEW m \in Message, NEW s \in Slot
  PROVE  /\ Parse(m, s) => NewTasks /\ NoNewEnd
         /\ Load(m, s) => /\ NewTasks
                          /\ \E pc \in {"ack", "dlq", "post"} :
                               /\ Moves(m, s, pc)
                               /\ pc = "ack" => m \in skipped'
                               /\ pc = "dlq" => Kind[m] = "large"
         /\ Post(m, s) => NewTasks /\ NoNewEnd
         /\ Record(m, s) => /\ NewTasks
                            /\ \E pc \in {"ack", "dlq", "post"} :
                                 /\ Moves(m, s, pc)
                                 /\ pc = "ack" => m \in delivered'
                                 /\ pc = "dlq" => m \in exhausted'
         /\ PublishDeadLetter(m, s) => NewTasks /\ Moves(m, s, "ack")
         /\ Ack(m, s) => NewTasks /\ NoNewEnd
<1>t. task[m][s] \in Tasks
  BY DEF TypeOK
<1>m. MaxAttempts \in Nat \ {0}
  BY AttemptsAreCounted
<1>1. ASSUME Parse(m, s) PROVE NewTasks /\ NoNewEnd
  <2>1. CASE End(m, s)
    BY <2>1, EndTask DEF NewTasks, NoNewEnd
  <2>2. CASE Goto(m, s, "load")
    BY <2>2, GotoTask DEF NewTasks, NoNewEnd
  <2> QED
    BY <1>1, <2>1, <2>2 DEF Parse
<1>2. ASSUME Load(m, s)
      PROVE  /\ NewTasks
             /\ \E pc \in {"ack", "dlq", "post"} :
                  /\ Moves(m, s, pc)
                  /\ pc = "ack" => m \in skipped'
                  /\ pc = "dlq" => Kind[m] = "large"
  <2>1. CASE ~active
    <3>1. Goto(m, s, "ack") /\ m \in skipped'
      BY <1>2, <2>1 DEF Load
    <3> QED
      BY <3>1, GotoTask DEF NewTasks, Moves
  <2>2. CASE active /\ Kind[m] = "large"
    <3>1. Goto(m, s, "dlq")
      BY <1>2, <2>2 DEF Load
    <3> QED
      BY <3>1, <2>2, GotoTask DEF NewTasks, Moves
  <2>3. CASE active /\ Kind[m] # "large"
    <3> DEFINE r == [task[m][s] EXCEPT !.pc = "post", !.attempt = 1]
    <3>1. task' = [task EXCEPT ![m][s] = r]
      BY <1>2, <2>3 DEF Load, TypeOK
    <3>2. 1 \in 0 .. MaxAttempts
      BY <1>m
    <3>3. Follows(r, task[m][s], "post")
      BY <1>t, <3>2, NextPost
    <3> HIDE DEF r
    <3>4. NewTasks /\ Moves(m, s, "post")
      BY <3>1, <3>3, SetTask DEF NewTasks, Moves, Follows
    <3> QED
      BY <3>4
  <2> QED
    BY <2>1, <2>2, <2>3
<1>3. ASSUME Post(m, s) PROVE NewTasks /\ NoNewEnd
  <2>1. PICK ok \in BOOLEAN :
          task' = [task EXCEPT ![m][s].pc = "record", ![m][s].ok = ok]
    BY <1>3 DEF Post
  <2> DEFINE r == [task[m][s] EXCEPT !.pc = "record", !.ok = ok]
  <2>2. task' = [task EXCEPT ![m][s] = r]
    BY <2>1 DEF TypeOK
  <2>3. Follows(r, task[m][s], "record")
    BY <1>t, NextRecord
  <2> HIDE DEF r
  <2> QED
    BY <2>2, <2>3, SetTask DEF NewTasks, NoNewEnd, Follows
<1>4. ASSUME Record(m, s)
      PROVE  /\ NewTasks
             /\ \E pc \in {"ack", "dlq", "post"} :
                  /\ Moves(m, s, pc)
                  /\ pc = "ack" => m \in delivered'
                  /\ pc = "dlq" => m \in exhausted'
  <2>1. CASE task[m][s].ok
    <3>1. Goto(m, s, "ack") /\ m \in delivered'
      BY <1>4, <2>1 DEF Record, RecordThen
    <3> QED
      BY <3>1, GotoTask DEF NewTasks, Moves
  <2>2. CASE ~task[m][s].ok /\ LastAttempt(task[m][s].attempt)
    <3>1. Goto(m, s, "dlq") /\ m \in exhausted'
      BY <1>4, <2>2 DEF Record, RecordThen, LastAttempt
    <3> QED
      BY <3>1, GotoTask DEF NewTasks, Moves
  <2>3. CASE ~task[m][s].ok /\ ~LastAttempt(task[m][s].attempt)
    <3> DEFINE r == [task[m][s] EXCEPT !.pc = "post",
                                       !.attempt = NextAttempt(@)]
    <3>1. task' = [task EXCEPT ![m][s] = r]
      BY <1>4, <2>3 DEF Record, RecordThen, TypeOK
    <3>2. NextAttempt(task[m][s].attempt) \in 0 .. MaxAttempts
      BY <1>t, <1>m, <2>3 DEF Tasks, NextAttempt, LastAttempt
    <3>3. Follows(r, task[m][s], "post")
      BY <1>t, <3>2, NextPost
    <3> HIDE DEF r
    <3>4. NewTasks /\ Moves(m, s, "post")
      BY <3>1, <3>3, SetTask DEF NewTasks, Moves, Follows
    <3> QED
      BY <3>4
  <2> QED
    BY <2>1, <2>2, <2>3
<1>5. ASSUME PublishDeadLetter(m, s) PROVE NewTasks /\ Moves(m, s, "ack")
  <2>1. Goto(m, s, "ack")
    BY <1>5 DEF PublishDeadLetter
  <2> QED
    BY <2>1, GotoTask DEF NewTasks, Moves
<1>6. ASSUME Ack(m, s) PROVE NewTasks /\ NoNewEnd
  <2>1. End(m, s)
    BY <1>6 DEF Ack
  <2> QED
    BY <2>1, EndTask DEF NewTasks, NoNewEnd
<1> QED
  BY <1>1, <1>2, <1>3, <1>4, <1>5, <1>6

-----------------------------------------------------------------------------
\* All actions give the tasks well-formed records (the lemmas above), and the
\* rest of the state keeps its form.
LEMMA TypeStep == TypeOK /\ [Next]_vars => TypeOK'
<1> SUFFICES ASSUME TypeOK, [Next]_vars PROVE TypeOK'
  OBVIOUS
<1>m. MaxAttempts \in Nat \ {0}
  BY AttemptsAreCounted
<1>f. MaxFaults \in Nat
  BY WorkerAssumption
<1>1. ASSUME NEW w \in Worker, Fetch(w) PROVE TypeOK'
  <2>1. NewTasks
    BY <1>1, FetchTasks
  <2>2. queue' \in [Message -> {"queued", "leased", "acked", "termed"}]
    BY <1>1 DEF Fetch, Take, TypeOK
  <2> QED
    BY <1>1, <2>1, <2>2 DEF Fetch, Take, TypeOK, NewTasks, history
<1>2. ASSUME NEW w \in Worker, Crash(w) PROVE TypeOK'
  <2>1. NewTasks
    BY <1>2, CrashTasks
  <2>2. faults' \in 0 .. MaxFaults
    BY <1>2, <1>f DEF Crash, TypeOK
  <2> QED
    BY <1>2, <2>1, <2>2 DEF Crash, TypeOK, NewTasks, history
<1>3. ASSUME NEW m \in Message, NEW s \in Slot, Raise(m, s) PROVE TypeOK'
  <2>1. NewTasks
    BY <1>3, RaiseTasks
  <2>2. faults' \in 0 .. MaxFaults
    BY <1>3, <1>f DEF Raise, TypeOK
  <2>3. dead' \subseteq Message
    <3>1. dead' \in {dead, dead \cup {m}}
      BY <1>3 DEF Raise
    <3> QED
      BY <3>1 DEF TypeOK
  <2>4. UNCHANGED <<queue, active, history>>
    BY <1>3 DEF Raise
  <2> QED
    BY <2>1, <2>2, <2>3, <2>4 DEF TypeOK, NewTasks, history
<1>4. ASSUME NEW m \in Message, NEW s \in Slot, Parse(m, s) PROVE TypeOK'
  <2>1. NewTasks
    BY <1>4, StepMoves
  <2>2. queue' \in [Message -> {"queued", "leased", "acked", "termed"}]
    BY <1>4 DEF Parse, TypeOK
  <2> QED
    BY <1>4, <2>1, <2>2 DEF Parse, TypeOK, NewTasks, history
<1>5. ASSUME NEW m \in Message, NEW s \in Slot, Load(m, s) PROVE TypeOK'
  <2>1. NewTasks
    BY <1>5, StepMoves
  <2>2. skipped' \subseteq Message
    BY <1>5 DEF Load, TypeOK
  <2> QED
    BY <1>5, <2>1, <2>2 DEF Load, TypeOK, NewTasks
<1>6. ASSUME NEW m \in Message, NEW s \in Slot, Post(m, s) PROVE TypeOK'
  <2>1. NewTasks
    BY <1>6, StepMoves
  <2>2. posts' \in [Message -> 0 .. MaxAttempts + 1]
    BY <1>6, <1>m DEF Post, TypeOK
  <2> QED
    BY <1>6, <2>1, <2>2 DEF Post, TypeOK, NewTasks
<1>7. ASSUME NEW m \in Message, NEW s \in Slot, Record(m, s) PROVE TypeOK'
  <2>1. NewTasks
    BY <1>7, StepMoves
  <2>2. delivered' \subseteq Message /\ exhausted' \subseteq Message
    BY <1>7 DEF Record, RecordThen, TypeOK
  <2> QED
    BY <1>7, <2>1, <2>2 DEF Record, RecordThen, TypeOK, NewTasks
<1>8. ASSUME NEW m \in Message, NEW s \in Slot, PublishDeadLetter(m, s)
      PROVE  TypeOK'
  <2>1. NewTasks
    BY <1>8, StepMoves
  <2> QED
    BY <1>8, <2>1 DEF PublishDeadLetter, TypeOK, NewTasks, history
<1>9. ASSUME NEW m \in Message, NEW s \in Slot, Ack(m, s) PROVE TypeOK'
  <2>1. NewTasks
    BY <1>9, StepMoves
  <2>2. queue' \in [Message -> {"queued", "leased", "acked", "termed"}]
    BY <1>9 DEF Ack, TypeOK
  <2>3. faults' \in 0 .. MaxFaults
    BY <1>9, <1>f DEF Ack, TypeOK
  <2> QED
    BY <1>9, <2>1, <2>2, <2>3 DEF Ack, TypeOK, NewTasks, history
<1>10. ASSUME NEW m \in Message, AckWaitExpires(m) PROVE TypeOK'
  BY <1>10 DEF AckWaitExpires, TypeOK, history
<1>11. CASE ToggleWebhook
  BY <1>11 DEF ToggleWebhook, TypeOK, history
<1>12. CASE UNCHANGED vars
  BY <1>12 DEF vars, TypeOK
<1> QED
  BY <1>1, <1>2, <1>3, <1>4, <1>5, <1>6, <1>7, <1>8, <1>9, <1>10, <1>11, <1>12
     DEF Next, TaskStep

\* Messages, tasks and histories keep their form whatever is delivered again,
\* raises, is lost or crashes: in particular no attempt is numbered past
\* webhook_max_attempts (run_worker, _handle_message, _dispatch).
THEOREM WorkerTypeCorrect == Spec => []TypeOK
<1>1. Init => TypeOK
  <2> SUFFICES ASSUME Init PROVE TypeOK
    OBVIOUS
  <2>1. Free \in Tasks /\ MaxFaults \in Nat /\ MaxAttempts \in Nat
    BY FreeTask, WorkerAssumption
  <2>2. task \in [Message -> [Slot -> Tasks]]
    BY <2>1 DEF Init
  <2> QED
    BY <2>1, <2>2 DEF Init, TypeOK
<1> QED
  BY <1>1, TypeStep, PTL DEF Spec

-----------------------------------------------------------------------------
\* The record of why a message may be settled only grows.
LEMMA ReasonsStay ==
  ASSUME TypeOK, [Next]_vars
  PROVE  /\ dead \subseteq dead' /\ delivered \subseteq delivered'
         /\ exhausted \subseteq exhausted' /\ skipped \subseteq skipped'
<1>1. ASSUME NEW m \in Message, NEW s \in Slot, Raise(m, s)
      PROVE  /\ dead \subseteq dead' /\ delivered \subseteq delivered'
             /\ exhausted \subseteq exhausted' /\ skipped \subseteq skipped'
  <2>1. dead' \in {dead, dead \cup {m}} /\ UNCHANGED history
    BY <1>1 DEF Raise
  <2> QED
    BY <2>1 DEF history
<1>2. ASSUME NEW m \in Message, NEW s \in Slot, TaskStep(m, s)
      PROVE  /\ dead \subseteq dead' /\ delivered \subseteq delivered'
             /\ exhausted \subseteq exhausted' /\ skipped \subseteq skipped'
  BY <1>2 DEF TaskStep, Parse, Load, Post, Record, RecordThen,
              PublishDeadLetter, Ack, history
<1>3. ASSUME NEW w \in Worker, Fetch(w) \/ Crash(w)
      PROVE  UNCHANGED <<dead, history>>
  BY <1>3 DEF Fetch, Take, Crash, history
<1>4. ASSUME NEW m \in Message, AckWaitExpires(m)
      PROVE  UNCHANGED <<dead, history>>
  BY <1>4 DEF AckWaitExpires
<1>5. ToggleWebhook => UNCHANGED <<dead, history>>
  BY DEF ToggleWebhook
<1>6. CASE UNCHANGED vars
  BY <1>6 DEF vars
<1> QED
  BY <1>1, <1>2, <1>3, <1>4, <1>5, <1>6 DEF Next, history

\* Which messages a step dead-letters or acknowledges, and that the task that
\* did it was at that point.
LEMMA NewlySettled ==
  ASSUME TypeOK, [Next]_vars, NEW n \in Message
  PROVE  /\ n \in dead' \ dead => \E s \in Slot : task[n][s].pc = "dlq"
         /\ queue'[n] = "acked" /\ queue[n] # "acked"
              => \E s \in Slot : task[n][s].pc = "ack"
<1> DEFINE Goal == /\ n \in dead' \ dead => \E s \in Slot : task[n][s].pc = "dlq"
                   /\ queue'[n] = "acked" /\ queue[n] # "acked"
                        => \E s \in Slot : task[n][s].pc = "ack"
<1>1. ASSUME NEW m \in Message, NEW s \in Slot, Raise(m, s) PROVE Goal
  <2>1. queue' = queue
    BY <1>1 DEF Raise
  <2>2. dead' \in {dead} \cup IF task[m][s].pc = "dlq" THEN {dead \cup {m}}
                                                      ELSE {}
    BY <1>1 DEF Raise
  <2>3. CASE task[m][s].pc = "dlq"
    BY <2>1, <2>2, <2>3
  <2>4. CASE task[m][s].pc # "dlq"
    BY <2>1, <2>2, <2>4
  <2> QED
    BY <2>3, <2>4
<1>2. ASSUME NEW m \in Message, NEW s \in Slot, PublishDeadLetter(m, s)
      PROVE  Goal
  BY <1>2 DEF PublishDeadLetter
<1>3. ASSUME NEW m \in Message, NEW s \in Slot, Ack(m, s) PROVE Goal
  BY <1>3 DEF Ack, TypeOK
<1>4. ASSUME NEW m \in Message, NEW s \in Slot, Parse(m, s) PROVE Goal
  BY <1>4 DEF Parse, TypeOK
<1>5. ASSUME NEW m \in Message, NEW s \in Slot,
             Load(m, s) \/ Post(m, s) \/ Record(m, s)
      PROVE  Goal
  BY <1>5 DEF Load, Post, Record, RecordThen
<1>6. ASSUME NEW w \in Worker, Fetch(w) PROVE Goal
  BY <1>6 DEF Fetch, Take
<1>7. ASSUME NEW w \in Worker, Crash(w) PROVE Goal
  BY <1>7 DEF Crash
<1>8. ASSUME NEW m \in Message, AckWaitExpires(m) PROVE Goal
  BY <1>8 DEF AckWaitExpires, TypeOK
<1>9. ToggleWebhook \/ UNCHANGED vars => Goal
  BY DEF ToggleWebhook, vars
<1> HIDE DEF Goal
<1>10. Goal
  BY <1>1, <1>2, <1>3, <1>4, <1>5, <1>6, <1>7, <1>8, <1>9 DEF Next, TaskStep
<1> QED
  BY <1>10 DEF Goal

\* A task that a step takes to its acknowledgement or to its dead letter has
\* the reason on record in the new state.
LEMMA NewlyEnding ==
  ASSUME TypeOK, [Next]_vars, NEW n \in Message, NEW t \in Slot,
         task'[n][t].pc # task[n][t].pc
  PROVE  /\ task'[n][t].pc = "ack" => n \in delivered' \cup dead' \cup skipped'
         /\ task'[n][t].pc = "dlq" => n \in exhausted' \/ Kind[n] = "large"
<1> DEFINE Goal ==
      /\ task'[n][t].pc = "ack" => n \in delivered' \cup dead' \cup skipped'
      /\ task'[n][t].pc = "dlq" => n \in exhausted' \/ Kind[n] = "large"
<1>0. NoNewEnd => Goal
  BY DEF NoNewEnd
<1>1. ASSUME NEW m \in Message, NEW s \in Slot, Load(m, s) PROVE Goal
  <2>1. PICK pc \in {"ack", "dlq", "post"} :
          /\ Moves(m, s, pc)
          /\ pc = "ack" => m \in skipped'
          /\ pc = "dlq" => Kind[m] = "large"
    BY <1>1, StepMoves
  <2> QED
    BY <2>1 DEF Moves
<1>2. ASSUME NEW m \in Message, NEW s \in Slot, Record(m, s) PROVE Goal
  <2>1. PICK pc \in {"ack", "dlq", "post"} :
          /\ Moves(m, s, pc)
          /\ pc = "ack" => m \in delivered'
          /\ pc = "dlq" => m \in exhausted'
    BY <1>2, StepMoves
  <2> QED
    BY <2>1 DEF Moves
<1>3. ASSUME NEW m \in Message, NEW s \in Slot, PublishDeadLetter(m, s)
      PROVE  Goal
  <2>1. Moves(m, s, "ack") /\ m \in dead'
    BY <1>3, StepMoves DEF PublishDeadLetter
  <2> QED
    BY <2>1 DEF Moves
<1>4. ASSUME NEW m \in Message, NEW s \in Slot,
             Parse(m, s) \/ Post(m, s) \/ Ack(m, s) \/ Raise(m, s)
      PROVE  NoNewEnd
  BY <1>4, StepMoves, RaiseTasks
<1>5. ASSUME NEW w \in Worker, Fetch(w) \/ Crash(w) PROVE NoNewEnd
  BY <1>5, FetchTasks, CrashTasks
<1>6. ASSUME NEW m \in Message, AckWaitExpires(m) PROVE NoNewEnd
  BY <1>6 DEF AckWaitExpires, NoNewEnd
<1>7. ToggleWebhook \/ UNCHANGED vars => NoNewEnd
  BY DEF ToggleWebhook, vars, NoNewEnd
<1> HIDE DEF Goal
<1>8. Goal
  BY <1>0, <1>1, <1>2, <1>3, <1>4, <1>5, <1>6, <1>7 DEF Next, TaskStep
<1> QED
  BY <1>8 DEF Goal

LEMMA SettleStep == TypeOK /\ SettleInv /\ [Next]_vars => SettleInv'
<1> SUFFICES ASSUME TypeOK, SettleInv, [Next]_vars PROVE SettleInv'
  OBVIOUS
<1>1. ASSUME NEW n \in Message
      PROVE  /\ Accounted(n) => Accounted(n)'
             /\ Undeliverable(n) => Undeliverable(n)'
  BY ReasonsStay DEF Accounted, Undeliverable
<1>2. ASSUME NEW n \in Message, n \in dead' PROVE Undeliverable(n)'
  BY <1>1, <1>2, NewlySettled DEF SettleInv
<1>3. ASSUME NEW n \in Message, queue'[n] = "acked" PROVE Accounted(n)'
  BY <1>1, <1>3, NewlySettled DEF SettleInv
<1>4. ASSUME NEW n \in Message, NEW t \in Slot
      PROVE  /\ task'[n][t].pc = "ack" => Accounted(n)'
             /\ task'[n][t].pc = "dlq" => Undeliverable(n)'
  <2>1. CASE task'[n][t].pc = task[n][t].pc
    BY <1>1, <2>1 DEF SettleInv
  <2>2. CASE task'[n][t].pc # task[n][t].pc
    BY <2>2, NewlyEnding DEF Accounted, Undeliverable
  <2> QED
    BY <2>1, <2>2
<1> QED
  BY <1>2, <1>3, <1>4 DEF SettleInv

\* Each task about to acknowledge or to publish a dead letter has its reason on
\* record, for any number of messages, workers, deliveries and faults
\* (_handle_message).
THEOREM SettleInvariant == Spec => [](TypeOK /\ SettleInv)
<1>1. Init => SettleInv
  BY DEF Init, SettleInv, Free
<1> QED
  BY <1>1, SettleStep, WorkerTypeCorrect, PTL DEF Spec

\* Nothing is acknowledged that was not delivered, dead-lettered or unwanted
\* (_handle_message).
THEOREM AcksAreSettled == Spec => []AckImpliesSettled
<1>1. SettleInv => AckImpliesSettled
  BY DEF SettleInv, AckImpliesSettled
<1> QED
  BY <1>1, SettleInvariant, PTL

\* A dead letter has a dispatch with a full set of failed attempts behind it,
\* or a payload too large to send (_dispatch).
THEOREM DeadLettersExhausted == Spec => []DeadLettersAreExhausted
<1>1. TypeOK /\ SettleInv => DeadLettersAreExhausted
  BY DEF TypeOK, SettleInv, DeadLettersAreExhausted
<1> QED
  BY <1>1, SettleInvariant, PTL

-----------------------------------------------------------------------------
\* Until something raises, run_worker waits for its whole batch: no task is
\* left behind by gather, and a worker has one task per message.
BatchInv ==
  faults = 0 =>
    \A m \in Message, s \in Slot :
      /\ ~task[m][s].orphan
      /\ \A t \in Slot :
           Live(m, s) /\ Live(m, t) /\ task[m][s].worker = task[m][t].worker
             => s = t

\* A step of a task leaves every task with its worker and its batch, or ends it.
Keeps == \A n \in Message, t \in Slot :
           /\ task'[n][t].orphan => task[n][t].orphan
           /\ task'[n][t].pc # "free" =>
                Live(n, t) /\ task'[n][t].worker = task[n][t].worker

LEMMA KeepsGoto ==
  ASSUME TypeOK, NEW m \in Message, NEW s \in Slot, Live(m, s),
         NEW pc \in {"free", "parse", "load", "post", "record", "dlq", "ack"},
         Goto(m, s, pc)
  PROVE  Keeps
BY GotoTask DEF Keeps, Live

LEMMA KeepsEnd ==
  ASSUME TypeOK, NEW m \in Message, NEW s \in Slot, End(m, s)
  PROVE  Keeps
<1>1. task' = [task EXCEPT ![m][s] = Free]
  BY DEF End
<1>2. \A n \in Message, t \in Slot :
        task'[n][t] = IF n = m /\ t = s THEN Free ELSE task[n][t]
  BY <1>1, FreeTask, SetTask
<1>3. Free.pc = "free" /\ Free.orphan = FALSE
  BY DEF Free
<1> QED
  BY <1>2, <1>3 DEF Keeps, Live

LEMMA KeepsNext ==
  ASSUME TypeOK, NEW m \in Message, NEW s \in Slot, Live(m, s),
         NEW q, NEW pc, Follows(q, task[m][s], pc),
         task' = [task EXCEPT ![m][s] = q]
  PROVE  Keeps
<1>1. \A n \in Message, t \in Slot :
        task'[n][t] = IF n = m /\ t = s THEN q ELSE task[n][t]
  BY SetTask DEF Follows
<1> QED
  BY <1>1 DEF Keeps, Live, Follows

LEMMA StepKeeps ==
  ASSUME TypeOK, NEW m \in Message, NEW s \in Slot, TaskStep(m, s)
  PROVE  Keeps
<1>t. task[m][s] \in Tasks
  BY DEF TypeOK
<1>1. CASE Parse(m, s)
  <2>1. Live(m, s) /\ (End(m, s) \/ Goto(m, s, "load"))
    BY <1>1 DEF Parse, Live
  <2> QED
    BY <2>1, KeepsEnd, KeepsGoto
<1>2. CASE Load(m, s)
  <2> DEFINE q == [task[m][s] EXCEPT !.pc = "post", !.attempt = 1]
  <2>1. /\ Live(m, s)
        /\ \/ Goto(m, s, "ack") \/ Goto(m, s, "dlq")
           \/ task' = [task EXCEPT ![m][s] = q]
    BY <1>2 DEF Load, Live, TypeOK
  <2>2. Follows(q, task[m][s], "post")
    <3>1. 1 \in 0 .. MaxAttempts
      BY AttemptsAreCounted
    <3> QED
      BY <1>t, <3>1, NextPost
  <2> HIDE DEF q
  <2> QED
    BY <2>1, <2>2, KeepsGoto, KeepsNext
<1>3. CASE Post(m, s)
  <2>1. PICK ok \in BOOLEAN :
          task' = [task EXCEPT ![m][s].pc = "record", ![m][s].ok = ok]
    BY <1>3 DEF Post
  <2> DEFINE q == [task[m][s] EXCEPT !.pc = "record", !.ok = ok]
  <2>2. task' = [task EXCEPT ![m][s] = q]
    BY <2>1 DEF TypeOK
  <2>3. Live(m, s)
    BY <1>3 DEF Post, Live
  <2>4. Follows(q, task[m][s], "record")
    BY <1>t, NextRecord
  <2> HIDE DEF q
  <2> QED
    BY <2>2, <2>3, <2>4, KeepsNext
<1>4. CASE Record(m, s)
  <2>0. Live(m, s)
    BY <1>4 DEF Record, RecordThen, Live
  <2>1. CASE task[m][s].ok \/ LastAttempt(task[m][s].attempt)
    <3>1. Goto(m, s, "ack") \/ Goto(m, s, "dlq")
      BY <1>4, <2>1 DEF Record, RecordThen
    <3> QED
      BY <2>0, <3>1, KeepsGoto
  <2>2. CASE ~task[m][s].ok /\ ~LastAttempt(task[m][s].attempt)
    <3> DEFINE q == [task[m][s] EXCEPT !.pc = "post",
                                       !.attempt = NextAttempt(@)]
    <3>1. task' = [task EXCEPT ![m][s] = q]
      BY <1>4, <2>2 DEF Record, RecordThen, TypeOK
    <3>2. NextAttempt(task[m][s].attempt) \in 0 .. MaxAttempts
      BY <1>t, AttemptsAreCounted, <2>2 DEF Tasks, NextAttempt, LastAttempt
    <3>3. Follows(q, task[m][s], "post")
      BY <1>t, <3>2, NextPost
    <3> HIDE DEF q
    <3> QED
      BY <2>0, <3>1, <3>3, KeepsNext
  <2> QED
    BY <2>1, <2>2
<1>5. CASE PublishDeadLetter(m, s)
  <2>1. Live(m, s) /\ Goto(m, s, "ack")
    BY <1>5 DEF PublishDeadLetter, Live
  <2> QED
    BY <2>1, KeepsGoto
<1>6. CASE Ack(m, s)
  BY <1>6, KeepsEnd DEF Ack
<1> QED
  BY <1>1, <1>2, <1>3, <1>4, <1>5, <1>6 DEF TaskStep

\* A worker is back at its fetch only without a task of its own, and takes each
\* message once.
LEMMA BatchFetch ==
  ASSUME TypeOK, BatchInv, faults = 0, NEW w \in Worker, Fetch(w)
  PROVE  BatchInv'
<1> DEFINE r == Started(w)
<1>1. r.pc = "parse" /\ r.worker = w /\ r.orphan = FALSE
  BY DEF Started
<1>2. PICK S \in SUBSET Message :
        task' = [m \in Message |-> IF m \in S
                                     THEN [task[m] EXCEPT ![FirstFree(m)] = r]
                                     ELSE task[m]]
  BY DEF Fetch, Take
<1> HIDE DEF r
<1>3. ASSUME NEW m \in Message, NEW s \in Slot
      PROVE  /\ ~task[m][s].orphan
             /\ task[m][s].worker # w
  BY DEF Fetch, Batch, BatchInv
<1>4. ASSUME NEW m \in Message, NEW s \in Slot
      PROVE  task'[m][s] = IF m \in S /\ s = FirstFree(m) THEN r ELSE task[m][s]
  <2>1. task[m] \in [Slot -> Tasks]
    BY DEF TypeOK
  <2> QED
    BY <1>2, <2>1
<1>5. ASSUME NEW m \in Message, NEW s \in Slot PROVE ~task'[m][s].orphan
  BY <1>1, <1>3, <1>4
<1>6. ASSUME NEW m \in Message, NEW s \in Slot, NEW t \in Slot,
             task'[m][s].pc # "free", task'[m][t].pc # "free",
             task'[m][s].worker = task'[m][t].worker
      PROVE  s = t
  <2>1. CASE m \in S /\ s = FirstFree(m)
    BY <1>1, <1>3, <1>4, <1>6, <2>1
  <2>2. CASE m \in S /\ t = FirstFree(m)
    BY <1>1, <1>3, <1>4, <1>6, <2>2
  <2>3. CASE ~(m \in S /\ s = FirstFree(m)) /\ ~(m \in S /\ t = FirstFree(m))
    <3>1. task'[m][s] = task[m][s] /\ task'[m][t] = task[m][t]
      BY <1>4, <2>3
    <3> QED
      BY <1>6, <3>1 DEF BatchInv, Live
  <2> QED
    BY <2>1, <2>2, <2>3
<1> QED
  BY <1>5, <1>6 DEF BatchInv, Live

LEMMA BatchStep == TypeOK /\ BatchInv /\ [Next]_vars => BatchInv'
<1> SUFFICES ASSUME TypeOK, BatchInv, [Next]_vars PROVE BatchInv'
  OBVIOUS
<1>0. faults \in Nat
  BY WorkerAssumption DEF TypeOK
<1>k. ASSUME Keeps, faults' = 0 => faults = 0 PROVE BatchInv'
  BY <1>k DEF Keeps, BatchInv, Live
<1>1. ASSUME NEW w \in Worker, Fetch(w) PROVE BatchInv'
  <2>1. faults' = faults
    BY <1>1 DEF Fetch, Take
  <2>2. CASE faults = 0
    BY <1>1, <2>2, BatchFetch
  <2>3. CASE faults # 0
    BY <2>1, <2>3 DEF BatchInv
  <2> QED
    BY <2>2, <2>3
<1>2. ASSUME NEW w \in Worker, Crash(w) PROVE BatchInv'
  <2>1. faults' = faults + 1
    BY <1>2 DEF Crash
  <2> QED
    BY <1>0, <2>1 DEF BatchInv
<1>3. ASSUME NEW m \in Message, NEW s \in Slot, Raise(m, s) PROVE BatchInv'
  <2>1. faults' = faults + 1
    BY <1>3 DEF Raise
  <2> QED
    BY <1>0, <2>1 DEF BatchInv
<1>4. ASSUME NEW m \in Message, NEW s \in Slot, TaskStep(m, s) PROVE BatchInv'
  <2>1. Keeps
    BY <1>4, StepKeeps
  <2>2. faults' \in {faults, faults + 1}
    BY <1>4 DEF TaskStep, Parse, Load, Post, Record, RecordThen,
                PublishDeadLetter, Ack
  <2>3. faults' = 0 => faults = 0
    BY <1>0, <2>2
  <2> QED
    BY <1>k, <2>1, <2>3
<1>5. ASSUME NEW m \in Message, AckWaitExpires(m) PROVE BatchInv'
  BY <1>5 DEF AckWaitExpires, BatchInv, Live
<1>6. CASE ToggleWebhook
  BY <1>6 DEF ToggleWebhook, BatchInv, Live
<1>7. CASE UNCHANGED vars
  BY <1>7 DEF vars, BatchInv, Live
<1> QED
  BY <1>1, <1>2, <1>3, <1>4, <1>5, <1>6, <1>7 DEF Next

\* However often the ack wait runs out, no worker handles two deliveries of one
\* message at the same time, until something raises (gather in run_worker).
THEOREM DeliveriesOneAtATime == Spec => []OneDeliveryAtATime
<1>1. Init => BatchInv
  <2> SUFFICES ASSUME Init PROVE BatchInv
    OBVIOUS
  <2>1. \A m \in Message, s \in Slot : task[m][s] = Free
    BY DEF Init
  <2>2. Free.orphan = FALSE
    BY DEF Free
  <2> QED
    BY <2>1, <2>2, FreeTask DEF BatchInv, Live
<1>2. BatchInv => OneDeliveryAtATime
  BY DEF BatchInv, OneDeliveryAtATime
<1> QED
  BY <1>1, <1>2, BatchStep, WorkerTypeCorrect, PTL DEF Spec
=============================================================================

------------------------ MODULE IngestionJobsProofs --------------------------
(***************************************************************************)
(* Proofs about IngestionJobs, for any satellites, bodies, launches,       *)
(* webhooks, replies and faults.                                           *)
(*                                                                         *)
(* Events: a run that has committed and not yet published owes each        *)
(* webhook at most one message; counting the message owed as sent gives an *)
(* inductive invariant (Owes). Launches: what is to come among the rows    *)
(* and among the answer is the same set after every replacement, and time  *)
(* only removes from both. Health: each position of the launch job knows   *)
(* what the rows say of the sources it has tried (Told).                   *)
(*                                                                         *)
(* Statements: every list a job can make of a reply has the parents of a   *)
(* statement before it (InTurn), and what a run still has to write finds   *)
(* them among the rows, in its own transaction, or further up the list     *)
(* (Fits). The catalogue's columns are in the SET clause only of           *)
(* statements that fill them.                                              *)
(***************************************************************************)
EXTENDS IngestionJobs, FiniteSetTheorems, TLAPS

Fields == {"pc", "todo", "done", "hooks", "source", "offer"}

\* Runs are records with these fields.
RunShape == DOMAIN run = Job /\ \A j \in Job : DOMAIN run[j] = Fields

LEMMA LaunchesIsAJob == "launches" \in Job
BY DEF Job, Provider

\* The idle run, and what is said of it below.
LEMMA IdleRun ==
  /\ DOMAIN Idle = Fields
  /\ Idle.pc = "idle" /\ Idle.hooks = {} /\ Idle.offer = {}
BY DEF Idle, Fields

\* Goto moves one run and leaves what it carries.
LEMMA GotoEffect ==
  ASSUME RunShape, NEW j \in Job, NEW pc, Goto(j, pc)
  PROVE  /\ RunShape'
         /\ run'[j].pc = pc
         /\ run'[j].hooks = run[j].hooks /\ run'[j].offer = run[j].offer
         /\ run'[j].source = run[j].source
         /\ \A i \in Job : i # j => run'[i] = run[i]
<1>1. run' = [run EXCEPT ![j] = [run[j] EXCEPT !.pc = pc]]
  BY DEF Goto, RunShape
<1>2. run'[j] = [run[j] EXCEPT !.pc = pc] /\ DOMAIN run' = Job
      /\ \A i \in Job : i # j => run'[i] = run[i]
  BY <1>1 DEF RunShape
<1>3. DOMAIN run[j] = Fields
  BY DEF RunShape
<1>4. /\ DOMAIN [run[j] EXCEPT !.pc = pc] = Fields
      /\ [run[j] EXCEPT !.pc = pc].pc = pc
      /\ [run[j] EXCEPT !.pc = pc].hooks = run[j].hooks
      /\ [run[j] EXCEPT !.pc = pc].offer = run[j].offer
      /\ [run[j] EXCEPT !.pc = pc].source = run[j].source
  BY <1>3 DEF Fields
<1> QED
  BY <1>2, <1>4 DEF RunShape

\* The rest of the moves replace one run by a record.
LEMMA SetEffect ==
  ASSUME RunShape, NEW j \in Job, NEW r, DOMAIN r = Fields,
         run' = [run EXCEPT ![j] = r]
  PROVE  /\ RunShape'
         /\ run'[j] = r
         /\ \A i \in Job : i # j => run'[i] = run[i]
BY DEF RunShape

LEMMA EndEffect ==
  ASSUME RunShape, NEW j \in Job, End(j)
  PROVE  /\ RunShape'
         /\ run'[j] = Idle
         /\ \A i \in Job : i # j => run'[i] = run[i]
BY SetEffect, IdleRun DEF End
-----------------------------------------------------------------------------
(* Events.                                                                 *)

\* A committed change that h has not been told of and still may be.
Owes(j, h) == \/ run[j].pc \in {"praise", "announce"}
              \/ run[j].pc = "publish" /\ h \in run[j].hooks

SentInv ==
  /\ RunShape
  /\ commits \in [Job -> Nat] /\ sent \in [Job -> [Hook -> Nat]]
  /\ \A j \in Job, h \in Hook : /\ sent[j][h] <= commits[j]
                                /\ Owes(j, h) => sent[j][h] < commits[j]

\* Steps that neither commit nor publish, and owe nothing new.
LEMMA NothingOwed ==
  ASSUME SentInv, RunShape', UNCHANGED <<sent, commits>>,
         \A j \in Job, h \in Hook : Owes(j, h)' => Owes(j, h)
  PROVE  SentInv'
BY DEF SentInv

LEMMA SentInit == Init => SentInv
<1> SUFFICES ASSUME Init PROVE SentInv
  OBVIOUS
<1>1. RunShape
  BY IdleRun DEF Init, RunShape
<1>2. commits \in [Job -> Nat] /\ sent \in [Job -> [Hook -> Nat]]
  BY DEF Init
<1>3. \A j \in Job, h \in Hook : sent[j][h] = 0 /\ commits[j] = 0 /\ ~Owes(j, h)
  BY IdleRun DEF Init, Owes
<1> QED
  BY <1>1, <1>2, <1>3 DEF SentInv

\* A run ends or moves to where it owes nothing; the others stay.
LEMMA Settled ==
  ASSUME SentInv, NEW j \in Job, RunShape', UNCHANGED <<sent, commits>>,
         run'[j].pc \notin {"praise", "announce", "publish"},
         \A i \in Job : i # j => run'[i] = run[i]
  PROVE  SentInv'
<1>1. \A i \in Job, h \in Hook : Owes(i, h)' => Owes(i, h)
  BY DEF Owes
<1> QED
  BY <1>1, NothingOwed

LEMMA SentCommit ==
  ASSUME SentInv, NEW j \in Job, Commit(j)
  PROVE  SentInv'
<1>1. PICK pc \in {"idle", "announce"} :
        /\ RunShape' /\ run'[j].pc = pc
        /\ \A i \in Job : i # j => run'[i] = run[i]
  <2>1. CASE End(j)
    BY <2>1, EndEffect, IdleRun DEF SentInv
  <2>2. CASE Goto(j, "announce")
    BY <2>2, GotoEffect DEF SentInv
  <2> QED
    BY <2>1, <2>2 DEF Commit
<1>2. sent' = sent /\ commits' = [commits EXCEPT ![j] = @ + 1]
  BY DEF Commit
<1>3. commits' \in [Job -> Nat] /\ sent' \in [Job -> [Hook -> Nat]]
  BY <1>2 DEF SentInv
<1>4. ASSUME NEW i \in Job, NEW h \in Hook
      PROVE  sent'[i][h] <= commits'[i] /\ (Owes(i, h)' => sent'[i][h] < commits'[i])
  <2>1. sent[i][h] \in Nat /\ commits[i] \in Nat /\ sent[i][h] <= commits[i]
    BY DEF SentInv
  <2>2. CASE i = j
    <3>1. commits'[i] = commits[i] + 1
      BY <1>2, <2>2 DEF SentInv
    <3> QED
      BY <2>1, <3>1, <1>2
  <2>3. CASE i # j
    <3>1. commits'[i] = commits[i] /\ (Owes(i, h)' => Owes(i, h))
      BY <1>1, <1>2, <2>3 DEF SentInv, Owes
    <3> QED
      BY <3>1, <1>2 DEF SentInv
  <2> QED
    BY <2>2, <2>3
<1> QED
  BY <1>1, <1>3, <1>4 DEF SentInv

\* One message for h, which is not owed any more.
LEMMA SentOne ==
  ASSUME SentInv, NEW j \in Job, NEW h \in Hook, run[j].pc = "publish", h \in run[j].hooks,
         sent' = [sent EXCEPT ![j][h] = @ + 1], commits' = commits,
         RunShape', ~Owes(j, h)', \A g \in Hook : Owes(j, g)' => Owes(j, g),
         \A i \in Job : i # j => run'[i] = run[i]
  PROVE  SentInv'
<1>1. sent' = [sent EXCEPT ![j] = [sent[j] EXCEPT ![h] = sent[j][h] + 1]]
  BY DEF SentInv
<1>2. sent[j] \in [Hook -> Nat] /\ sent[j][h] \in Nat
  BY DEF SentInv
<1>3. [sent[j] EXCEPT ![h] = sent[j][h] + 1] \in [Hook -> Nat]
  BY <1>2
<1>4. sent' \in [Job -> [Hook -> Nat]] /\ commits' \in [Job -> Nat]
  BY <1>1, <1>3 DEF SentInv
<1>5. sent[j][h] < commits[j]
  BY DEF SentInv, Owes
<1>6. ASSUME NEW i \in Job, NEW g \in Hook
      PROVE  sent'[i][g] <= commits'[i] /\ (Owes(i, g)' => sent'[i][g] < commits'[i])
  <2>1. CASE i = j /\ g = h
    <3>1. sent'[i][g] = sent[j][h] + 1 /\ commits'[i] = commits[j] /\ commits[j] \in Nat
      BY <1>1, <1>2, <2>1 DEF SentInv
    <3> QED
      BY <3>1, <1>2, <1>5, <2>1
  <2>2. CASE ~(i = j /\ g = h)
    <3>1. sent'[i][g] = sent[i][g]
      BY <1>1, <1>2, <2>2 DEF SentInv
    <3>2. Owes(i, g)' => Owes(i, g)
      BY DEF Owes
    <3> QED
      BY <3>1, <3>2 DEF SentInv
  <2> QED
    BY <2>1, <2>2
<1> QED
  BY <1>4, <1>6 DEF SentInv

\* Each branch of a run's step, with what SentInv needs of it.
LEMMA SentSteps ==
  ASSUME SentInv, NEW j \in Job,
         Fetch(j) \/ Upsert(j) \/ Deadlock(j) \/ Announce(j) \/ Publish(j)
           \/ PublishFails(j) \/ DatabaseFails(j)
  PROVE  SentInv'
<1>1. CASE Fetch(j)
  <2>1. PICK r : DOMAIN r = Fields /\ r.pc \in {"idle", "write"} /\ run' = [run EXCEPT ![j] = r]
    <3>1. CASE End(j)
      BY <3>1, IdleRun DEF End
    <3>2. CASE \E w \in Writes(j) :
                 run' = [run EXCEPT ![j] = [Idle EXCEPT !.pc = "write", !.todo = w]]
      <4>1. \A w : /\ DOMAIN [Idle EXCEPT !.pc = "write", !.todo = w] = Fields
                   /\ [Idle EXCEPT !.pc = "write", !.todo = w].pc = "write"
        BY DEF Idle, Fields
      <4> QED
        BY <3>2, <4>1
    <3> QED
      BY <1>1, <3>1, <3>2 DEF Fetch
  <2>2. RunShape' /\ run'[j] = r /\ \A i \in Job : i # j => run'[i] = run[i]
    BY <2>1, SetEffect DEF SentInv
  <2>3. UNCHANGED <<sent, commits>>
    BY <1>1 DEF Fetch, history
  <2> QED
    BY <2>1, <2>2, <2>3, Settled
<1>2. CASE Upsert(j)
  <2> DEFINE r == [run[j] EXCEPT !.done = @ \cup {Head(run[j].todo)}, !.todo = Tail(@)]
  <2>1. run' = [run EXCEPT ![j] = r]
    BY <1>2 DEF Upsert, SentInv, RunShape
  <2>2. DOMAIN run[j] = Fields
    BY DEF SentInv, RunShape
  <2>3. DOMAIN r = Fields /\ r.pc = run[j].pc /\ r.hooks = run[j].hooks
    BY <2>2 DEF Fields
  <2> HIDE DEF r
  <2>4. RunShape' /\ run'[j] = r /\ \A i \in Job : i # j => run'[i] = run[i]
    BY <2>1, <2>3, SetEffect DEF SentInv
  <2>5. UNCHANGED <<sent, commits>>
    BY <1>2 DEF Upsert, history
  <2>6. \A i \in Job, h \in Hook : Owes(i, h)' => Owes(i, h)
    BY <2>3, <2>4 DEF Owes
  <2> QED
    BY <2>4, <2>5, <2>6, NothingOwed
<1>3. CASE Deadlock(j) \/ DatabaseFails(j)
  <2>1. End(j) /\ UNCHANGED <<sent, commits>>
    BY <1>3 DEF Deadlock, DatabaseFails, history
  <2> QED
    BY <2>1, EndEffect, IdleRun, Settled DEF SentInv
<1>4. CASE Announce(j)
  <2>1. run[j].pc = "announce" /\ UNCHANGED <<sent, commits>>
    BY <1>4 DEF Announce, history
  <2>2. PICK r : DOMAIN r = Fields /\ run' = [run EXCEPT ![j] = r]
    <3>1. DOMAIN [Idle EXCEPT !.pc = "publish", !.hooks = active] = Fields
      BY DEF Idle, Fields
    <3> QED
      BY <1>4, <3>1, IdleRun DEF Announce, End
  <2>3. RunShape' /\ \A i \in Job : i # j => run'[i] = run[i]
    BY <2>2, SetEffect DEF SentInv
  <2>4. \A i \in Job, h \in Hook : Owes(i, h)' => Owes(i, h)
    BY <2>1, <2>3 DEF Owes
  <2> QED
    BY <2>1, <2>3, <2>4, NothingOwed
<1>5. CASE Publish(j)
  <2>1. PICK h \in run[j].hooks :
          /\ sent' = [sent EXCEPT ![j][h] = @ + 1]
          /\ IF run[j].hooks = {h}
               THEN End(j) ELSE run' = [run EXCEPT ![j].hooks = @ \ {h}]
    BY <1>5 DEF Publish
  <2>2. run[j].pc = "publish" /\ commits' = commits
    BY <1>5 DEF Publish, history
  <2>3. CASE End(j)
    <3>1. RunShape' /\ run'[j] = Idle /\ \A i \in Job : i # j => run'[i] = run[i]
      BY <2>3, EndEffect DEF SentInv
    <3>2. \A g : ~Owes(j, g)'
      BY <3>1, IdleRun DEF Owes
    <3>3. CASE h \in Hook
      BY <2>1, <2>2, <3>1, <3>2, <3>3, SentOne
    <3>4. CASE h \notin Hook
      <4>1. sent' = sent
        BY <2>1, <3>4 DEF SentInv
      <4> QED
        BY <2>2, <3>1, <3>2, <4>1, Settled, IdleRun
    <3> QED
      BY <3>3, <3>4
  <2>4. CASE run' = [run EXCEPT ![j].hooks = @ \ {h}]
    <3> DEFINE r == [run[j] EXCEPT !.hooks = @ \ {h}]
    <3>1. run' = [run EXCEPT ![j] = r]
      BY <2>4
    <3>2. DOMAIN run[j] = Fields
      BY DEF SentInv, RunShape
    <3>3. DOMAIN r = Fields /\ r.pc = run[j].pc /\ r.hooks = run[j].hooks \ {h}
      BY <3>2 DEF Fields
    <3> HIDE DEF r
    <3>4. RunShape' /\ run'[j] = r /\ \A i \in Job : i # j => run'[i] = run[i]
      BY <3>1, <3>3, SetEffect DEF SentInv
    <3>5. ~Owes(j, h)' /\ \A g : Owes(j, g)' => Owes(j, g)
      BY <2>2, <3>3, <3>4 DEF Owes
    <3>6. CASE h \in Hook
      BY <2>1, <2>2, <3>4, <3>5, <3>6, SentOne
    <3>7. CASE h \notin Hook
      <4>1. sent' = sent
        BY <2>1, <3>7 DEF SentInv
      <4>2. \A i \in Job, g \in Hook : Owes(i, g)' => Owes(i, g)
        BY <3>4, <3>5 DEF Owes
      <4> QED
        BY <2>2, <3>4, <4>1, <4>2, NothingOwed
    <3> QED
      BY <3>6, <3>7
  <2> QED
    BY <2>1, <2>3, <2>4
<1>6. CASE PublishFails(j)
  <2>1. End(j) /\ commits' = commits /\ run[j].pc \in {"announce", "publish"}
    BY <1>6 DEF PublishFails, history
  <2>2. RunShape' /\ run'[j] = Idle /\ \A i \in Job : i # j => run'[i] = run[i]
    BY <2>1, EndEffect DEF SentInv
  <2>3. CASE sent' = sent
    BY <2>1, <2>2, <2>3, Settled, IdleRun
  <2>4. CASE run[j].pc = "publish" /\ \E h \in run[j].hooks : sent' = [sent EXCEPT ![j][h] = @ + 1]
    <3>1. PICK h \in run[j].hooks : sent' = [sent EXCEPT ![j][h] = @ + 1]
      BY <2>4
    <3>2. \A g : ~Owes(j, g)'
      BY <2>2, IdleRun DEF Owes
    <3>3. CASE h \in Hook
      BY <2>1, <2>2, <2>4, <3>1, <3>2, <3>3, SentOne
    <3>4. CASE h \notin Hook
      <4>1. sent' = sent
        BY <3>1, <3>4 DEF SentInv
      <4> QED
        BY <2>3, <4>1
    <3> QED
      BY <3>3, <3>4
  <2> QED
    BY <1>6, <2>3, <2>4 DEF PublishFails
<1> QED
  BY <1>1, <1>2, <1>3, <1>4, <1>5, <1>6

LEMMA SentLaunchSteps ==
  ASSUME SentInv, BeginLaunches \/ Answers \/ Replace \/ SourceFails \/ Blame \/ Praise
  PROVE  SentInv'
<1> DEFINE L == "launches"
<1>0. L \in Job
  BY LaunchesIsAJob
<1>1. CASE BeginLaunches \/ Answers \/ SourceFails \/ Blame
  <2>1. PICK r : /\ DOMAIN r = Fields /\ r.pc \notin {"praise", "announce", "publish"}
                 /\ run' = [run EXCEPT ![L] = r]
    <3>0. DOMAIN run[L] = Fields
      BY <1>0 DEF SentInv, RunShape
    <3>1. \A k : LET r == [Idle EXCEPT !.pc = "ask", !.source = k]
                 IN  DOMAIN r = Fields /\ r.pc = "ask"
      BY DEF Idle, Fields
    <3>2. \A o : LET r == [run[L] EXCEPT !.pc = "replace", !.offer = o]
                 IN  DOMAIN r = Fields /\ r.pc = "replace"
      BY <3>0 DEF Fields
    <3>3. LET r == [run[L] EXCEPT !.pc = "blame"] IN DOMAIN r = Fields /\ r.pc = "blame"
      BY <3>0 DEF Fields
    <3>4. CASE BeginLaunches
      BY <3>1, <3>4 DEF BeginLaunches
    <3>5. CASE Answers
      <4>1. \E o : run' = [run EXCEPT ![L] = [run[L] EXCEPT !.pc = "replace", !.offer = o]]
        BY <3>5 DEF Answers
      <4> QED
        BY <3>2, <4>1
    <3>6. CASE SourceFails
      <4>1. run' = [run EXCEPT ![L] = [run[L] EXCEPT !.pc = "blame"]]
        BY <3>6 DEF SourceFails, Goto
      <4> QED
        BY <3>3, <4>1
    <3>7. CASE Blame
      <4>1. \/ \E k : run' = [run EXCEPT ![L] = [Idle EXCEPT !.pc = "ask", !.source = k]]
            \/ End(L)
        BY <3>7 DEF Blame
      <4>2. CASE End(L)
        BY <4>2, IdleRun DEF End
      <4> QED
        BY <3>1, <4>1, <4>2
    <3> QED
      BY <1>1, <3>4, <3>5, <3>6, <3>7
  <2>2. RunShape' /\ run'[L] = r /\ \A i \in Job : i # L => run'[i] = run[i]
    BY <1>0, <2>1, SetEffect DEF SentInv
  <2>3. UNCHANGED <<sent, commits>>
    BY <1>1 DEF BeginLaunches, Answers, SourceFails, Blame, history
  <2> QED
    BY <1>0, <2>1, <2>2, <2>3, Settled
<1>2. CASE Replace
  <2>1. /\ Goto(L, "praise") /\ sent' = sent
        /\ commits' = [commits EXCEPT ![L] = @ + 1]
    BY <1>2 DEF Replace
  <2>2. RunShape' /\ \A i \in Job : i # L => run'[i] = run[i]
    BY <1>0, <2>1, GotoEffect DEF SentInv
  <2>3. commits' \in [Job -> Nat] /\ sent' \in [Job -> [Hook -> Nat]]
    <3>1. commits[L] + 1 \in Nat
      BY <1>0 DEF SentInv
    <3> QED
      BY <1>0, <2>1, <3>1 DEF SentInv
  <2>4. ASSUME NEW i \in Job, NEW h \in Hook
        PROVE  sent'[i][h] <= commits'[i] /\ (Owes(i, h)' => sent'[i][h] < commits'[i])
    <3>1. sent[i][h] \in Nat /\ commits[i] \in Nat /\ sent[i][h] <= commits[i]
      BY DEF SentInv
    <3>2. CASE i = L
      <4>1. commits'[i] = commits[i] + 1
        BY <2>1, <3>2 DEF SentInv
      <4> QED
        BY <2>1, <3>1, <4>1
    <3>3. CASE i # L
      <4>1. commits'[i] = commits[i] /\ (Owes(i, h)' => Owes(i, h))
        BY <2>1, <2>2, <3>3 DEF SentInv, Owes
      <4> QED
        BY <2>1, <4>1 DEF SentInv
    <3> QED
      BY <3>2, <3>3
  <2> QED
    BY <2>2, <2>3, <2>4 DEF SentInv
<1>3. CASE Praise
  <2>1. /\ run[L].pc = "praise" /\ UNCHANGED <<sent, commits>>
        /\ run' = [run EXCEPT ![L] = [Idle EXCEPT !.pc = "announce"]]
    BY <1>3 DEF Praise
  <2>2. DOMAIN [Idle EXCEPT !.pc = "announce"] = Fields
    BY DEF Idle, Fields
  <2>3. RunShape' /\ \A i \in Job : i # L => run'[i] = run[i]
    BY <1>0, <2>1, <2>2, SetEffect DEF SentInv
  <2>4. \A i \in Job, h \in Hook : Owes(i, h)' => Owes(i, h)
    BY <2>1, <2>3 DEF Owes
  <2> QED
    BY <2>1, <2>3, <2>4, NothingOwed
<1> QED
  BY <1>1, <1>2, <1>3

LEMMA SentNext == SentInv /\ [Next]_vars => SentInv'
<1> SUFFICES ASSUME SentInv, [Next]_vars PROVE SentInv'
  OBVIOUS
<1>1. CASE \E j \in Job : Fetch(j) \/ RunStep(j) \/ PublishFails(j) \/ DatabaseFails(j)
  BY <1>1, SentSteps, SentCommit DEF RunStep
<1>2. CASE BeginLaunches \/ LaunchStep
  BY <1>2, SentLaunchSteps DEF LaunchStep
<1>3. CASE Crash
  <2>1. run' = [j \in Job |-> Idle] /\ UNCHANGED <<sent, commits>>
    BY <1>3 DEF Crash, history
  <2>2. RunShape' /\ \A i \in Job, h \in Hook : ~Owes(i, h)'
    BY <2>1, IdleRun DEF RunShape, Owes
  <2> QED
    BY <2>1, <2>2, NothingOwed
<1>4. CASE Tick \/ (\E h \in Hook : Toggle(h)) \/ UNCHANGED vars
  <2>1. UNCHANGED <<run, sent, commits>>
    BY <1>4 DEF Tick, Toggle, vars, history
  <2>2. RunShape' /\ \A i \in Job, h \in Hook : Owes(i, h)' => Owes(i, h)
    BY <2>1 DEF SentInv, RunShape, Owes
  <2> QED
    BY <2>1, <2>2, NothingOwed
<1> QED
  BY <1>1, <1>2, <1>3, <1>4 DEF Next

\* No webhook hears of a change before it is committed, nor twice, whatever
\* fails, deadlocks or crashes (_publish_event after session.commit()).
THEOREM EventsAfterCommits == Spec => []EventsFollowCommits
<1>1. SentInv => EventsFollowCommits
  BY DEF SentInv, EventsFollowCommits
<1> QED
  BY <1>1, SentInit, SentNext, PTL DEF Spec

-----------------------------------------------------------------------------
(* Launches.                                                               *)

Timed(S) == \A r \in S : r.window \in Nat

LaunchInv ==
  /\ RunShape
  /\ now \in Nat
  /\ Timed(launch) /\ Timed(offered)
  /\ \A j \in Job : Timed(run[j].offer)
  /\ UpcomingIsLastAnswer

LEMMA LaunchInit == Init => LaunchInv
<1> SUFFICES ASSUME Init PROVE LaunchInv
  OBVIOUS
<1>1. RunShape /\ \A j \in Job : run[j].offer = {}
  BY IdleRun DEF Init, RunShape
<1>2. now = 0 /\ launch = {} /\ offered = {}
  BY DEF Init
<1> QED
  BY <1>1, <1>2 DEF LaunchInv, Timed, UpcomingIsLastAnswer, Upcoming

\* Steps that carry no new offer and leave the rows and the clock alone.
LEMMA OffersKept ==
  ASSUME LaunchInv, RunShape', UNCHANGED <<now, launch, offered>>,
         \A j \in Job : run'[j].offer \in {run[j].offer, {}}
  PROVE  LaunchInv'
<1>1. \A j \in Job : Timed(run'[j].offer)
  BY DEF LaunchInv, Timed
<1>2. UpcomingIsLastAnswer'
  BY DEF LaunchInv, UpcomingIsLastAnswer, Upcoming
<1> QED
  BY <1>1, <1>2 DEF LaunchInv, Timed

\* A run that is replaced by a record without an offer, or keeps its own.
LEMMA OneRunKept ==
  ASSUME LaunchInv, NEW j \in Job, NEW r, DOMAIN r = Fields,
         r.offer \in {run[j].offer, {}}, run' = [run EXCEPT ![j] = r],
         UNCHANGED <<now, launch, offered>>
  PROVE  LaunchInv'
<1>1. RunShape' /\ run'[j] = r /\ \A i \in Job : i # j => run'[i] = run[i]
  BY SetEffect DEF LaunchInv
<1>2. \A i \in Job : run'[i].offer \in {run[i].offer, {}}
  BY <1>1
<1> QED
  BY <1>1, <1>2, OffersKept

LEMMA LaunchRunSteps ==
  ASSUME LaunchInv, NEW j \in Job,
         Fetch(j) \/ RunStep(j) \/ PublishFails(j) \/ DatabaseFails(j)
  PROVE  LaunchInv'
<1>0. DOMAIN run[j] = Fields
  BY DEF LaunchInv, RunShape
<1>1. UNCHANGED <<now, launch, offered>>
  BY DEF Fetch, RunStep, Upsert, Deadlock, Commit, Announce, Publish, PublishFails,
         DatabaseFails, tables, history
<1>2. CASE End(j)
  BY <1>1, <1>2, IdleRun, OneRunKept DEF End
<1>3. CASE \E w : run' = [run EXCEPT ![j] = [Idle EXCEPT !.pc = "write", !.todo = w]]
  <2>1. \A w : LET r == [Idle EXCEPT !.pc = "write", !.todo = w]
               IN  DOMAIN r = Fields /\ r.offer = {}
    BY DEF Idle, Fields
  <2> QED
    BY <1>1, <1>3, <2>1, OneRunKept
<1>4. CASE \E d, t : run' = [run EXCEPT ![j] = [run[j] EXCEPT !.done = d, !.todo = t]]
  <2>1. PICK d, t : run' = [run EXCEPT ![j] = [run[j] EXCEPT !.done = d, !.todo = t]]
    BY <1>4
  <2> DEFINE r == [run[j] EXCEPT !.done = d, !.todo = t]
  <2>2. DOMAIN r = Fields /\ r.offer = run[j].offer /\ run' = [run EXCEPT ![j] = r]
    BY <1>0, <2>1 DEF Fields
  <2> HIDE DEF r
  <2> QED
    BY <1>1, <2>2, OneRunKept
<1>5. CASE Goto(j, "announce")
  <2>1. RunShape' /\ \A i \in Job : run'[i].offer = run[i].offer
    BY <1>5, GotoEffect DEF LaunchInv
  <2> QED
    BY <1>1, <2>1, OffersKept
<1>6. CASE run' = [run EXCEPT ![j] = [Idle EXCEPT !.pc = "publish", !.hooks = active]]
  <2>1. LET r == [Idle EXCEPT !.pc = "publish", !.hooks = active]
        IN  DOMAIN r = Fields /\ r.offer = {}
    BY DEF Idle, Fields
  <2> QED
    BY <1>1, <1>6, <2>1, OneRunKept
<1>7. CASE \E H : run' = [run EXCEPT ![j] = [run[j] EXCEPT !.hooks = H]]
  <2>1. \A H : LET r == [run[j] EXCEPT !.hooks = H]
               IN  DOMAIN r = Fields /\ r.offer = run[j].offer
    BY <1>0 DEF Fields
  <2> QED
    BY <1>1, <1>7, <2>1, OneRunKept
<1>8. ASSUME Upsert(j)
      PROVE  \E d, t : run' = [run EXCEPT ![j] = [run[j] EXCEPT !.done = d, !.todo = t]]
  BY <1>8 DEF Upsert, LaunchInv, RunShape
<1>9. ASSUME Publish(j)
      PROVE  End(j) \/ \E H : run' = [run EXCEPT ![j] = [run[j] EXCEPT !.hooks = H]]
  BY <1>9 DEF Publish
<1>10. ASSUME Fetch(j)
       PROVE  \/ End(j)
              \/ \E w : run' = [run EXCEPT ![j] = [Idle EXCEPT !.pc = "write", !.todo = w]]
  BY <1>10 DEF Fetch
<1>11. ASSUME Commit(j) PROVE End(j) \/ Goto(j, "announce")
  BY <1>11 DEF Commit
<1>12. ASSUME Announce(j)
       PROVE  \/ End(j)
              \/ run' = [run EXCEPT ![j] = [Idle EXCEPT !.pc = "publish", !.hooks = active]]
  BY <1>12 DEF Announce
<1>13. ASSUME Deadlock(j) \/ PublishFails(j) \/ DatabaseFails(j) PROVE End(j)
  BY <1>13 DEF Deadlock, PublishFails, DatabaseFails
<1> QED
  BY <1>2, <1>3, <1>4, <1>5, <1>6, <1>7, <1>8, <1>9, <1>10, <1>11, <1>12, <1>13 DEF RunStep

\* The answer becomes the rows to come, and nothing else is to come.
LEMMA LaunchReplace ==
  ASSUME LaunchInv, Replace
  PROVE  LaunchInv'
<1> DEFINE offer == run["launches"].offer
<1>1. /\ launch' = offer \cup {r \in launch : (\A s \in offer : r.id # s.id) /\ r.window < now}
      /\ offered' = offer /\ now' = now /\ Goto("launches", "praise")
  BY DEF Replace, Replaced
<1>2. Timed(offer) /\ Timed(launch) /\ now \in Nat
  BY LaunchesIsAJob DEF LaunchInv
<1>3. RunShape' /\ \A i \in Job : run'[i].offer = run[i].offer
  BY <1>1, LaunchesIsAJob, GotoEffect DEF LaunchInv
<1> HIDE DEF offer
<1>4. \A r \in launch' : r \in offer \/ r.window < now
  BY <1>1
<1>5. \A r \in launch' : r.window >= now => r \in offer
  BY <1>1, <1>2, <1>4 DEF Timed
<1>6. UpcomingIsLastAnswer'
  BY <1>1, <1>5 DEF UpcomingIsLastAnswer, Upcoming
<1>7. Timed(launch') /\ Timed(offered')
  BY <1>1, <1>2 DEF Timed
<1> QED
  BY <1>1, <1>2, <1>3, <1>6, <1>7 DEF LaunchInv, Timed

\* Time only takes rows away from what is to come, in both alike.
LEMMA LaunchTick ==
  ASSUME LaunchInv, Tick
  PROVE  LaunchInv'
<1>1. now' = now + 1 /\ UNCHANGED <<run, launch, offered>>
  BY DEF Tick, tables, history
<1>2. now \in Nat /\ Timed(launch) /\ Timed(offered) /\ Upcoming(launch) = Upcoming(offered)
  BY DEF LaunchInv, UpcomingIsLastAnswer
<1>3. \A r : r \in launch /\ r.window >= now <=> r \in offered /\ r.window >= now
  BY <1>2 DEF Upcoming
<1>4. \A r : r \in launch /\ r.window >= now + 1 <=> r \in offered /\ r.window >= now + 1
  BY <1>2, <1>3 DEF Timed
<1>5. UpcomingIsLastAnswer'
  BY <1>1, <1>4 DEF UpcomingIsLastAnswer, Upcoming
<1> QED
  BY <1>1, <1>2, <1>5 DEF LaunchInv, RunShape, Timed

\* An offer has the windows the reply gave its records.
LEMMA LaunchAnswers ==
  ASSUME LaunchInv, Answers
  PROVE  LaunchInv'
<1> DEFINE L == "launches"
<1>0. L \in Job /\ DOMAIN run[L] = Fields
  BY LaunchesIsAJob DEF LaunchInv, RunShape
<1>1. PICK S \in SUBSET Launch \ {{}} : \E at \in [S -> 0 .. MaxTime + 1] :
        run' = [run EXCEPT ![L].pc = "replace",
                           ![L].offer =
                             {IF run[L].source = 1 THEN SpaceDevs(l, at[l])
                                                   ELSE RocketLaunch(l, at[l]) : l \in S}]
  BY DEF Answers
<1>2. PICK at \in [S -> 0 .. MaxTime + 1] :
        run' = [run EXCEPT ![L].pc = "replace",
                           ![L].offer =
                             {IF run[L].source = 1 THEN SpaceDevs(l, at[l])
                                                   ELSE RocketLaunch(l, at[l]) : l \in S}]
  BY <1>1
<1> DEFINE offer == {IF run[L].source = 1 THEN SpaceDevs(l, at[l])
                                          ELSE RocketLaunch(l, at[l]) : l \in S}
           r == [run[L] EXCEPT !.pc = "replace", !.offer = offer]
<1>3. \A l \in S : at[l] \in Nat
  BY IngestionAssumption
<1>4. \A l \in S : SpaceDevs(l, at[l]).window = at[l] /\ RocketLaunch(l, at[l]).window = at[l]
  BY DEF SpaceDevs, RocketLaunch
<1>5. Timed(offer)
  BY <1>3, <1>4 DEF Timed
<1> HIDE DEF offer
<1>6. run' = [run EXCEPT ![L] = r]
  BY <1>0, <1>2 DEF LaunchInv, RunShape, offer
<1>7. DOMAIN r = Fields /\ r.offer = offer
  BY <1>0 DEF Fields
<1> HIDE DEF r, L
<1>8. RunShape' /\ run'[L] = r /\ \A i \in Job : i # L => run'[i] = run[i]
  BY <1>0, <1>6, <1>7, SetEffect DEF LaunchInv
<1>9. \A i \in Job : Timed(run'[i].offer)
  BY <1>5, <1>7, <1>8 DEF LaunchInv
<1>10. UNCHANGED <<now, launch, offered>>
  BY DEF Answers, tables, history
<1>11. UpcomingIsLastAnswer'
  BY <1>10 DEF LaunchInv, UpcomingIsLastAnswer, Upcoming
<1> QED
  BY <1>8, <1>9, <1>10, <1>11 DEF LaunchInv, Timed

\* The other steps of a launch run leave the rows alone.
LEMMA LaunchOthers ==
  ASSUME LaunchInv, BeginLaunches \/ SourceFails \/ Blame \/ Praise
  PROVE  LaunchInv'
<1> DEFINE L == "launches"
<1>0. L \in Job
  BY LaunchesIsAJob
<1>1. UNCHANGED <<now, launch, offered>>
  BY DEF BeginLaunches, SourceFails, Blame, Praise, tables, history
<1>2. \A k : LET r == [Idle EXCEPT !.pc = "ask", !.source = k]
             IN  DOMAIN r = Fields /\ r.offer = {}
  BY DEF Idle, Fields
<1>3. LET r == [Idle EXCEPT !.pc = "announce"] IN DOMAIN r = Fields /\ r.offer = {}
  BY DEF Idle, Fields
<1>4. CASE \E k : run' = [run EXCEPT ![L] = [Idle EXCEPT !.pc = "ask", !.source = k]]
  BY <1>0, <1>1, <1>2, <1>4, OneRunKept
<1>5. CASE run' = [run EXCEPT ![L] = [Idle EXCEPT !.pc = "announce"]]
  BY <1>0, <1>1, <1>3, <1>5, OneRunKept
<1>6. CASE End(L)
  BY <1>0, <1>1, <1>6, IdleRun, OneRunKept DEF End
<1>7. CASE Goto(L, "blame")
  <2>1. RunShape' /\ \A i \in Job : run'[i].offer = run[i].offer
    BY <1>0, <1>7, GotoEffect DEF LaunchInv
  <2> QED
    BY <1>1, <2>1, OffersKept
<1> QED
  BY <1>4, <1>5, <1>6, <1>7 DEF BeginLaunches, SourceFails, Blame, Praise

LEMMA LaunchNext == LaunchInv /\ [Next]_vars => LaunchInv'
<1> SUFFICES ASSUME LaunchInv, [Next]_vars PROVE LaunchInv'
  OBVIOUS
<1>1. CASE \E j \in Job : Fetch(j) \/ RunStep(j) \/ PublishFails(j) \/ DatabaseFails(j)
  BY <1>1, LaunchRunSteps
<1>2. CASE BeginLaunches \/ LaunchStep
  BY <1>2, LaunchAnswers, LaunchReplace, LaunchOthers DEF LaunchStep
<1>3. CASE Crash
  <2>1. run' = [j \in Job |-> Idle] /\ UNCHANGED <<now, launch, offered>>
    BY <1>3 DEF Crash, tables, history
  <2>2. RunShape' /\ \A i \in Job : run'[i].offer = {}
    BY <2>1, IdleRun DEF RunShape
  <2> QED
    BY <2>1, <2>2, OffersKept
<1>4. CASE Tick
  BY <1>4, LaunchTick
<1>5. CASE (\E h \in Hook : Toggle(h)) \/ UNCHANGED vars
  <2>1. UNCHANGED <<run, now, launch, offered>>
    BY <1>5 DEF Toggle, vars, tables, history
  <2>2. RunShape'
    BY <2>1 DEF LaunchInv, RunShape
  <2> QED
    BY <2>1, <2>2, OffersKept
<1> QED
  BY <1>1, <1>2, <1>3, <1>4, <1>5 DEF Next

\* The launches to come are always those of the answer committed last, with its
\* windows, whatever sources answered before (_replace_upcoming_launches).
THEOREM UpcomingFollowsAnswer == Spec => []UpcomingIsLastAnswer
<1>1. LaunchInv => UpcomingIsLastAnswer
  BY DEF LaunchInv
<1> QED
  BY <1>1, LaunchInit, LaunchNext, PTL DEF Spec

-----------------------------------------------------------------------------
(* Health of the launch sources.                                           *)

\* What the health rows tell at pc of a launch run that is at source k, as long
\* as none of them was lost.
Told(pc, k) ==
  /\ pc \in {"idle", "ask", "replace", "blame", "praise", "announce", "publish"}
  /\ tried.failed \subseteq Sources
  /\ \A f \in tried.failed : health[f] = "error" \/ (pc = "blame" /\ f = k)
  /\ tried.used # 0 => tried.used \in Sources /\ health[tried.used] = "active"
  /\ pc \in {"ask", "replace", "praise"} =>
       k \in Sources /\ tried.used = 0 /\ tried.failed = {l \in Sources : l < k}
  /\ pc = "blame" =>
       k \in Sources /\ tried.used = 0 /\ tried.failed = {l \in Sources : l <= k}
  /\ pc \in {"announce", "publish"} => tried.used # 0
  /\ pc = "idle" /\ tried.used = 0 /\ runs["launches"] > 0 => tried.failed = Sources

ToldInv ==
  /\ RunShape /\ faults \in Nat /\ runs \in [Job -> Nat]
  /\ DOMAIN health = 1 .. 2 /\ DOMAIN tried = {"failed", "used"}
  /\ faults = 0 => Told(run["launches"].pc, run["launches"].source)

LEMMA SourcesAre == Sources \subseteq {1, 2}
BY DEF Sources

\* Of the sources that are left one comes first.
LEMMA LeastOfSources ==
  ASSUME NEW S \in SUBSET {1, 2}, S # {}
  PROVE  Least(S) \in S /\ \A l \in S : Least(S) <= l
<1>1. \E k \in S : \A l \in S : k <= l
  <2>1. CASE 1 \in S
    BY <2>1
  <2>2. CASE 1 \notin S
    <3>1. S = {2}
      BY <2>2
    <3> QED
      BY <3>1
  <2> QED
    BY <2>1, <2>2
<1> QED
  BY <1>1 DEF Least

LEMMA ToldInit == Init => ToldInv
<1> SUFFICES ASSUME Init PROVE ToldInv
  OBVIOUS
<1>1. RunShape /\ run["launches"].pc = "idle"
  BY IdleRun, LaunchesIsAJob DEF Init, RunShape
<1>2. tried.failed = {} /\ tried.used = 0 /\ DOMAIN tried = {"failed", "used"}
  BY DEF Init
<1>3. runs \in [Job -> Nat] /\ runs["launches"] = 0 /\ DOMAIN health = 1 .. 2 /\ faults = 0
  BY LaunchesIsAJob DEF Init
<1> QED
  BY <1>1, <1>2, <1>3 DEF ToldInv, Told

\* Steps that no launch run takes, and faults.
LEMMA ToldStays ==
  ASSUME ToldInv, RunShape', faults' \in Nat,
         runs' \in [Job -> Nat], UNCHANGED <<health, tried, providers>>,
         faults' = 0 => /\ faults = 0 /\ runs'["launches"] = runs["launches"]
                        /\ run'["launches"] = run["launches"]
  PROVE  ToldInv'
<1>1. Sources' = Sources
  BY DEF Sources
<1> QED
  BY <1>1 DEF ToldInv, Told

LEMMA FaultTolls ==
  ASSUME faults \in Nat, Fault PROVE faults' \in Nat /\ faults' # 0
BY DEF Fault

\* The steps of a run leave the other runs alone.
LEMMA ShapeKept ==
  ASSUME RunShape, NEW j \in Job,
         Fetch(j) \/ RunStep(j) \/ PublishFails(j) \/ DatabaseFails(j)
  PROVE  RunShape' /\ \A i \in Job : i # j => run'[i] = run[i]
<1>0. DOMAIN run[j] = Fields
  BY DEF RunShape
<1>1. CASE End(j) \/ Goto(j, "announce")
  BY <1>0, <1>1, EndEffect, GotoEffect
<1>2. CASE \E r : DOMAIN r = Fields /\ run' = [run EXCEPT ![j] = r]
  BY <1>0, <1>2, SetEffect
<1>3. \A w, H : /\ DOMAIN [Idle EXCEPT !.pc = "write", !.todo = w] = Fields
                /\ DOMAIN [Idle EXCEPT !.pc = "publish", !.hooks = H] = Fields
                /\ DOMAIN [run[j] EXCEPT !.hooks = H] = Fields
                /\ DOMAIN [run[j] EXCEPT !.done = H, !.todo = w] = Fields
  BY <1>0 DEF Idle, Fields
<1>4. CASE Fetch(j)
  <2>1. CASE \E w : run' = [run EXCEPT ![j] = [Idle EXCEPT !.pc = "write", !.todo = w]]
    BY <2>1, <1>2, <1>3
  <2> QED
    BY <1>1, <1>4, <2>1 DEF Fetch
<1>5. CASE Upsert(j)
  <2>1. \E d, t : run' = [run EXCEPT ![j] = [run[j] EXCEPT !.done = d, !.todo = t]]
    BY <1>0, <1>5 DEF Upsert, RunShape
  <2> QED
    BY <2>1, <1>2, <1>3
<1>6. CASE Announce(j)
  <2>1. CASE run' = [run EXCEPT ![j] = [Idle EXCEPT !.pc = "publish", !.hooks = active]]
    BY <2>1, <1>2, <1>3
  <2> QED
    BY <1>1, <1>6, <2>1 DEF Announce
<1>7. CASE Publish(j)
  <2>1. CASE \E H : run' = [run EXCEPT ![j] = [run[j] EXCEPT !.hooks = H]]
    BY <2>1, <1>2, <1>3
  <2>2. End(j) \/ \E H : run' = [run EXCEPT ![j] = [run[j] EXCEPT !.hooks = H]]
    BY <1>7 DEF Publish
  <2> QED
    BY <1>1, <2>1, <2>2
<1>8. CASE Commit(j) \/ Deadlock(j) \/ PublishFails(j) \/ DatabaseFails(j)
  BY <1>1, <1>8 DEF Commit, Deadlock, PublishFails, DatabaseFails
<1> QED
  BY <1>4, <1>5, <1>6, <1>7, <1>8 DEF RunStep

\* The jobs of the other providers.
LEMMA ToldOthers ==
  ASSUME ToldInv, NEW j \in Job, j # "launches",
         Fetch(j) \/ RunStep(j) \/ PublishFails(j) \/ DatabaseFails(j)
  PROVE  ToldInv'
<1>1. RunShape' /\ \A i \in Job : i # j => run'[i] = run[i]
  BY ShapeKept DEF ToldInv
<1>2. UNCHANGED <<health, tried, providers>>
  BY DEF Fetch, RunStep, Upsert, Deadlock, Commit, Announce, Publish, PublishFails,
         DatabaseFails, history
<1>3. faults' = faults \/ Fault
  BY DEF Fetch, RunStep, Upsert, Deadlock, Commit, Announce, Publish, PublishFails,
         DatabaseFails
<1>4. runs' \in [Job -> Nat] /\ runs'["launches"] = runs["launches"]
  <2>1. runs' = runs \/ runs' = [runs EXCEPT ![j] = @ + 1]
    BY DEF Fetch, Begins, RunStep, Upsert, Deadlock, Commit, Announce, Publish,
           PublishFails, DatabaseFails
  <2> QED
    BY <2>1, LaunchesIsAJob DEF ToldInv
<1>5. run'["launches"] = run["launches"]
  BY <1>1, LaunchesIsAJob
<1>6. faults \in Nat
  BY DEF ToldInv
<1> QED
  BY <1>1, <1>2, <1>3, <1>4, <1>5, <1>6, FaultTolls, ToldStays

\* What a launch run does to its own record.
LEMMA ToldMoves ==
  ASSUME ToldInv, RunShape', runs' \in [Job -> Nat], UNCHANGED providers,
         DOMAIN health' = 1 .. 2, DOMAIN tried' = {"failed", "used"}, faults' \in Nat,
         faults' = 0 => Told(run["launches"].pc, run["launches"].source)'
  PROVE  ToldInv'
BY DEF ToldInv

\* Its end after the events, and events that are not its business.
LEMMA ToldEvents ==
  ASSUME ToldInv, LET L == "launches"
                  IN  Fetch(L) \/ RunStep(L) \/ PublishFails(L) \/ DatabaseFails(L)
  PROVE  ToldInv'
<1> DEFINE L == "launches"
<1>0. /\ L \in Job /\ RunShape /\ DOMAIN run[L] = Fields /\ faults \in Nat
      /\ runs \in [Job -> Nat]
  BY LaunchesIsAJob DEF ToldInv, RunShape
<1>1. CASE faults # 0 \/ PublishFails(L) \/ DatabaseFails(L)
  <2>1. RunShape'
    BY <1>0, ShapeKept
  <2>2. UNCHANGED <<health, tried, providers>> /\ runs' \in [Job -> Nat]
    BY <1>0 DEF Fetch, RunStep, Upsert, Deadlock, Commit, Announce, Publish,
                PublishFails, DatabaseFails, history
  <2>3. faults' \in Nat /\ faults' # 0
    BY <1>0, <1>1, FaultTolls DEF Fetch, RunStep, Upsert, Deadlock, Commit, Announce,
                                  Publish, PublishFails, DatabaseFails
  <2> QED
    BY <2>1, <2>2, <2>3, ToldStays
<1>2. CASE faults = 0 /\ (Fetch(L) \/ RunStep(L))
  <2>1. Told(run[L].pc, run[L].source)
    BY <1>2 DEF ToldInv
  <2>2. run[L].pc # "write"
    BY <2>1 DEF Told
  <2>3. Announce(L) \/ Publish(L)
    BY <1>2, <2>2 DEF Fetch, RunStep, Upsert, Deadlock, Commit, Blocks, Writing
  <2>4. run[L].pc \in {"announce", "publish"} /\ UNCHANGED <<health, tried, providers, runs, faults>>
    BY <2>3 DEF Announce, Publish, history
  <2>5. RunShape' /\ run'[L].pc \in {"idle", "publish"}
    <3> HIDE DEF L
    <3>1. CASE End(L)
      BY <1>0, <3>1, EndEffect, IdleRun
    <3>2. CASE run' = [run EXCEPT ![L] = [Idle EXCEPT !.pc = "publish", !.hooks = active]]
      <4>1. LET r == [Idle EXCEPT !.pc = "publish", !.hooks = active]
            IN  DOMAIN r = Fields /\ r.pc = "publish"
        BY DEF Idle, Fields
      <4> QED
        BY <1>0, <3>2, <4>1, SetEffect
    <3>3. ASSUME NEW h, run' = [run EXCEPT ![L].hooks = @ \ {h}], run[L].pc = "publish"
          PROVE  RunShape' /\ run'[L].pc = "publish"
      <4> DEFINE r == [run[L] EXCEPT !.hooks = @ \ {h}]
      <4>1. run' = [run EXCEPT ![L] = r]
        BY <1>0, <3>3 DEF RunShape
      <4>2. DOMAIN r = Fields /\ r.pc = "publish"
        BY <1>0, <3>3 DEF Fields
      <4> HIDE DEF r
      <4> QED
        BY <1>0, <4>1, <4>2, SetEffect
    <3> QED
      BY <2>3, <3>1, <3>2, <3>3 DEF Announce, Publish
  <2>6. tried.used # 0
    BY <2>1, <2>4 DEF Told
  <2>7. Told(run[L].pc, run[L].source)'
    BY <2>1, <2>4, <2>5, <2>6 DEF Told, Sources
  <2> QED
    BY <1>0, <2>4, <2>5, <2>7, ToldMoves DEF ToldInv
<1> QED
  BY <1>0, <1>1, <1>2

\* The first source is asked.
LEMMA ToldBegin ==
  ASSUME ToldInv, BeginLaunches
  PROVE  ToldInv'
<1>0. PICK k : k = Least(Sources)
  OBVIOUS
<1> DEFINE r == [Idle EXCEPT !.pc = "ask", !.source = k]
<1>1. /\ run' = [run EXCEPT !["launches"] = r]
      /\ tried' = [failed |-> {}, used |-> 0]
      /\ runs' = [runs EXCEPT !["launches"] = @ + 1]
      /\ UNCHANGED <<providers, health, faults>>
      /\ Provider["launches"] \cap providers # {}
  BY <1>0 DEF BeginLaunches, Begins
<1>2. DOMAIN r = Fields /\ r.pc = "ask" /\ r.source = k
  BY DEF Idle, Fields
<1>3. k \in Sources /\ \A l \in Sources : k <= l
  <2>1. Sources # {}
    BY <1>1 DEF Provider, Source, Sources
  <2> QED
    BY <2>1, <1>0, SourcesAre, LeastOfSources
<1> HIDE DEF r
<1>4. RunShape' /\ run'["launches"] = r
  BY <1>1, <1>2, LaunchesIsAJob, SetEffect DEF ToldInv
<1>5. /\ runs' \in [Job -> Nat] /\ DOMAIN health' = 1 .. 2
      /\ DOMAIN tried' = {"failed", "used"} /\ faults' \in Nat
  BY <1>1, LaunchesIsAJob DEF ToldInv
<1>6. Told("ask", k)'
  <2>1. Sources' = Sources /\ tried'.failed = {} /\ tried'.used = 0
    BY <1>1 DEF Sources
  <2>2. {l \in Sources : l < k} = {}
    <3>1. ASSUME NEW l \in Sources PROVE ~(l < k)
      <4>1. l \in {1, 2} /\ k \in {1, 2} /\ k <= l
        BY <1>3, SourcesAre
      <4> QED
        BY <4>1
    <3> QED
      BY <3>1
  <2> QED
    BY <1>3, <2>1, <2>2 DEF Told
<1> QED
  BY <1>1, <1>2, <1>4, <1>5, <1>6, ToldMoves

\* A source answers and its answer is committed, or it fails.
LEMMA ToldAsk ==
  ASSUME ToldInv, Answers \/ Replace \/ SourceFails
  PROVE  ToldInv'
<1> DEFINE L == "launches"
<1>0. L \in Job /\ RunShape /\ DOMAIN run[L] = Fields
  BY LaunchesIsAJob DEF ToldInv, RunShape
<1>1. /\ UNCHANGED <<providers, runs, health, faults>>
      /\ run[L].pc \in {"ask", "replace"}
  BY DEF Answers, Replace, SourceFails
<1>2. PICK k : k = run[L].source
  OBVIOUS
<1>3. Sources' = Sources
  BY <1>1 DEF Sources
<1>4. CASE Answers
  <2>1. PICK o : run' = [run EXCEPT ![L] = [run[L] EXCEPT !.pc = "replace", !.offer = o]]
    BY <1>0, <1>4 DEF Answers, RunShape
  <2> DEFINE r == [run[L] EXCEPT !.pc = "replace", !.offer = o]
  <2>2. DOMAIN r = Fields /\ r.pc = "replace" /\ r.source = k
    BY <1>0, <1>2 DEF Fields
  <2> HIDE DEF r, L
  <2>3. RunShape' /\ run'[L] = r
    BY <1>0, <2>1, <2>2, SetEffect DEF r
  <2>4. tried' = tried
    BY <1>4 DEF Answers, history
  <2>5. faults = 0 => Told("replace", k)'
    BY <1>1, <1>2, <1>3, <2>4 DEF ToldInv, Told, L
  <2>6. /\ runs' \in [Job -> Nat] /\ DOMAIN health' = 1 .. 2 /\ faults' \in Nat
        /\ DOMAIN tried' = {"failed", "used"}
    BY <1>1, <2>4 DEF ToldInv
  <2> QED
    BY <1>1, <2>2, <2>3, <2>5, <2>6, ToldMoves DEF L
<1>5. CASE Replace
  <2>1. Goto(L, "praise") /\ tried' = tried /\ run[L].pc = "replace"
    BY <1>5 DEF Replace
  <2> HIDE DEF L
  <2>2. RunShape' /\ run'[L].pc = "praise" /\ run'[L].source = k
    BY <1>0, <1>2, <2>1, GotoEffect
  <2>3. faults = 0 => Told("praise", k)'
    BY <1>1, <1>2, <1>3, <2>1 DEF ToldInv, Told, L
  <2>4. /\ runs' \in [Job -> Nat] /\ DOMAIN health' = 1 .. 2 /\ faults' \in Nat
        /\ DOMAIN tried' = {"failed", "used"}
    BY <1>1, <2>1 DEF ToldInv
  <2> QED
    BY <1>1, <2>2, <2>3, <2>4, ToldMoves DEF L
<1>6. CASE SourceFails
  <2>1. Goto(L, "blame") /\ tried' = [tried EXCEPT !.failed = @ \cup {k}]
    BY <1>2, <1>6 DEF SourceFails
  <2> HIDE DEF L
  <2>2. RunShape' /\ run'[L].pc = "blame" /\ run'[L].source = k
    BY <1>0, <1>2, <2>1, GotoEffect
  <2>3. /\ DOMAIN tried' = {"failed", "used"}
        /\ tried'.failed = tried.failed \cup {k} /\ tried'.used = tried.used
    BY <2>1 DEF ToldInv
  <2>4. ASSUME faults = 0 PROVE Told("blame", k)'
    <3>1. Told(run[L].pc, k)
      BY <1>2, <2>4 DEF ToldInv, L
    <3>2. k \in Sources /\ tried.used = 0 /\ tried.failed = {l \in Sources : l < k}
      BY <1>1, <3>1 DEF Told
    <3>3. {l \in Sources : l < k} \cup {k} = {l \in Sources : l <= k}
      <4>1. \A l \in Sources : l \in {1, 2} /\ k \in {1, 2}
        BY <3>2, SourcesAre
      <4>2. \A l \in Sources : l <= k <=> l < k \/ l = k
        BY <4>1
      <4> QED
        BY <3>2, <4>2
    <3>4. \A f \in tried.failed : health[f] = "error"
      BY <1>1, <3>1 DEF Told
    <3> QED
      BY <1>1, <1>3, <2>3, <3>2, <3>3, <3>4 DEF Told
  <2>5. runs' \in [Job -> Nat] /\ DOMAIN health' = 1 .. 2 /\ faults' \in Nat
    BY <1>1 DEF ToldInv
  <2> QED
    BY <1>1, <2>2, <2>3, <2>4, <2>5, ToldMoves DEF L
<1> QED
  BY <1>4, <1>5, <1>6

\* What TellHealth does unless it fails.
LEMMA TellEffect ==
  ASSUME ToldInv, NEW k \in Sources, NEW status, TellHealth(k, status)
  PROVE  /\ DOMAIN health' = 1 .. 2 /\ faults' \in Nat
         /\ faults' = 0 => /\ faults = 0 /\ health'[k] = status
                           /\ \A l \in Sources : l # k => health'[l] = health[l]
<1>1. /\ DOMAIN health = 1 .. 2 /\ faults \in Nat
      /\ \A l \in Sources : l \in 1 .. 2
  BY DEF ToldInv, Sources
<1>2. CASE health' = [health EXCEPT ![k] = status] /\ faults' = faults
  BY <1>1, <1>2
<1>3. CASE Fault /\ health' = health
  BY <1>1, <1>3, FaultTolls
<1> QED
  BY <1>2, <1>3 DEF TellHealth

\* The source that answered is told, and its events follow.
LEMMA ToldPraise ==
  ASSUME ToldInv, Praise
  PROVE  ToldInv'
<1> DEFINE L == "launches"
           r == [Idle EXCEPT !.pc = "announce"]
<1>1. PICK k : k = run[L].source
  OBVIOUS
<1>2. /\ run[L].pc = "praise" /\ TellHealth(k, "active") /\ UNCHANGED <<providers, runs>>
      /\ run' = [run EXCEPT ![L] = r] /\ tried' = [tried EXCEPT !.used = k]
  BY <1>1 DEF Praise
<1>3. DOMAIN r = Fields /\ r.pc = "announce" /\ L \in Job
  BY LaunchesIsAJob DEF Idle, Fields
<1> HIDE DEF L, r
<1>4. RunShape' /\ run'[L].pc = "announce"
  BY <1>2, <1>3, SetEffect DEF ToldInv
<1>5. /\ DOMAIN tried' = {"failed", "used"} /\ Sources' = Sources
      /\ tried'.failed = tried.failed /\ tried'.used = k
  BY <1>2 DEF ToldInv, Sources
<1>6. faults' \in Nat /\ faults \in Nat /\ runs' \in [Job -> Nat] /\ DOMAIN health' = 1 .. 2
  <2>1. CASE health' = [health EXCEPT ![k] = "active"] /\ faults' = faults
    BY <1>2, <2>1 DEF ToldInv
  <2>2. CASE Fault /\ health' = health
    BY <1>2, <2>2, FaultTolls DEF ToldInv
  <2> QED
    BY <1>2, <2>1, <2>2 DEF TellHealth
<1>7. PICK i : i = run'[L].source
  OBVIOUS
<1>8. ASSUME faults' = 0 PROVE Told("announce", i)'
  <2>1. faults = 0
    BY <1>2, <1>6, <1>8, FaultTolls DEF TellHealth
  <2>2. Told("praise", k)
    BY <1>1, <1>2, <2>1 DEF ToldInv, L
  <2>3. /\ k \in Sources /\ tried.failed = {l \in Sources : l < k}
        /\ \A f \in tried.failed : health[f] = "error"
    BY <2>2 DEF Told
  <2>4. \A l \in Sources : l \in {1, 2}
    BY SourcesAre
  <2>5. /\ health'[k] = "active"
        /\ \A l \in Sources : l # k => health'[l] = health[l]
    BY <1>2, <1>8, <2>3, TellEffect
  <2>6. \A f \in tried.failed : f \in Sources /\ f # k
    BY <2>3, <2>4
  <2>7. \A f \in tried'.failed : health'[f] = "error"
    BY <1>5, <2>3, <2>5, <2>6
  <2>8. k # 0
    BY <2>3, <2>4
  <2> QED
    BY <1>5, <2>3, <2>5, <2>6, <2>7, <2>8 DEF Told
<1> QED
  BY <1>2, <1>4, <1>5, <1>6, <1>7, <1>8, ToldMoves DEF L

\* The source that failed is told; the next is asked, or all have failed.
LEMMA ToldBlame ==
  ASSUME ToldInv, Blame
  PROVE  ToldInv'
<1> DEFINE L == "launches"
<1>0. L \in Job /\ RunShape
  BY LaunchesIsAJob DEF ToldInv
<1>1. PICK k : k = run[L].source
  OBVIOUS
<1>2. PICK n : n = Least(NextSources(k))
  OBVIOUS
<1> DEFINE r == [Idle EXCEPT !.pc = "ask", !.source = n]
<1>3. /\ run[L].pc = "blame" /\ TellHealth(k, "error")
      /\ UNCHANGED <<providers, runs, tried>>
      /\ IF NextSources(k) # {} THEN run' = [run EXCEPT ![L] = r] ELSE End(L)
  BY <1>1, <1>2 DEF Blame, history
<1>4. DOMAIN r = Fields /\ r.pc = "ask" /\ r.source = n
  BY DEF Idle, Fields
<1> HIDE DEF L, r
<1>5. /\ RunShape'
      /\ IF NextSources(k) # {} THEN run'[L].pc = "ask" /\ run'[L].source = n
                                ELSE run'[L].pc = "idle"
  <2>1. CASE NextSources(k) # {}
    BY <1>0, <1>3, <1>4, <2>1, SetEffect
  <2>2. CASE NextSources(k) = {}
    BY <1>0, <1>3, <2>2, EndEffect, IdleRun
  <2> QED
    BY <2>1, <2>2
<1>6. /\ faults' \in Nat /\ faults \in Nat /\ runs' \in [Job -> Nat]
      /\ DOMAIN health' = 1 .. 2 /\ DOMAIN tried' = {"failed", "used"}
  <2>1. CASE health' = [health EXCEPT ![k] = "error"] /\ faults' = faults
    BY <1>3, <2>1 DEF ToldInv
  <2>2. CASE Fault /\ health' = health
    BY <1>3, <2>2, FaultTolls DEF ToldInv
  <2> QED
    BY <1>3, <2>1, <2>2 DEF TellHealth
<1>7. PICK i : i = run'[L].source
  OBVIOUS
<1>8. PICK pc : pc = run'[L].pc
  OBVIOUS
<1>9. ASSUME faults' = 0 PROVE Told(pc, i)'
  <2>1. faults = 0
    BY <1>3, <1>6, <1>9, FaultTolls DEF TellHealth
  <2>2. Told("blame", k)
    BY <1>1, <1>3, <2>1 DEF ToldInv, L
  <2>3. /\ k \in Sources /\ tried.used = 0 /\ tried.failed = {l \in Sources : l <= k}
        /\ \A f \in tried.failed : f # k => health[f] = "error"
    BY <2>2 DEF Told
  <2>4. \A l \in Sources : l \in {1, 2}
    BY SourcesAre
  <2>5. /\ health'[k] = "error"
        /\ \A l \in Sources : l # k => health'[l] = health[l]
    BY <1>3, <1>9, <2>3, TellEffect
  <2>6. /\ tried' = tried /\ Sources' = Sources
        /\ \A f \in tried.failed : f \in Sources /\ health'[f] = "error"
    BY <1>3, <2>3, <2>5 DEF Sources
  <2>7. CASE NextSources(k) # {}
    <3>1. n \in Sources /\ n > k /\ \A l \in Sources : l > k => n <= l
      <4>1. NextSources(k) \in SUBSET {1, 2}
        BY <2>4 DEF NextSources
      <4>2. n \in NextSources(k) /\ \A l \in NextSources(k) : n <= l
        BY <1>2, <2>7, <4>1, LeastOfSources
      <4> QED
        BY <4>2 DEF NextSources
    <3>2. {l \in Sources : l <= k} = {l \in Sources : l < n}
      <4>1. ASSUME NEW l \in Sources PROVE l <= k <=> l < n
        <5>1. l \in {1, 2} /\ k \in {1, 2} /\ n \in {1, 2} /\ n > k /\ (l > k => n <= l)
          BY <2>3, <2>4, <3>1
        <5> QED
          BY <5>1
      <4> QED
        BY <4>1
    <3>3. pc = "ask" /\ i = n
      BY <1>5, <1>7, <1>8, <2>7
    <3> QED
      BY <2>3, <2>6, <3>1, <3>2, <3>3 DEF Told
  <2>8. CASE NextSources(k) = {}
    <3>1. {l \in Sources : l <= k} = Sources
      <4>1. ASSUME NEW l \in Sources PROVE l <= k
        <5>1. l \in {1, 2} /\ k \in {1, 2} /\ ~(l > k)
          BY <2>3, <2>4, <2>8 DEF NextSources
        <5> QED
          BY <5>1
      <4> QED
        BY <4>1
    <3>2. pc = "idle"
      BY <1>5, <1>8, <2>8
    <3> QED
      BY <2>3, <2>6, <3>1, <3>2 DEF Told
  <2> QED
    BY <2>7, <2>8
<1> QED
  BY <1>3, <1>5, <1>6, <1>7, <1>8, <1>9, ToldMoves DEF L

LEMMA ToldNext == ToldInv /\ [Next]_vars => ToldInv'
<1> SUFFICES ASSUME ToldInv, [Next]_vars PROVE ToldInv'
  OBVIOUS
<1>0. RunShape /\ faults \in Nat /\ runs \in [Job -> Nat]
  BY DEF ToldInv
<1>1. CASE \E j \in Job : Fetch(j) \/ RunStep(j) \/ PublishFails(j) \/ DatabaseFails(j)
  BY <1>1, ToldOthers, ToldEvents
<1>2. CASE BeginLaunches \/ LaunchStep
  BY <1>2, ToldBegin, ToldAsk, ToldPraise, ToldBlame DEF LaunchStep
<1>3. CASE Crash
  <2>1. /\ run' = [j \in Job |-> Idle] /\ Fault
        /\ UNCHANGED <<runs, health, tried, providers>>
    BY <1>3 DEF Crash, history
  <2>2. RunShape'
    BY <2>1, IdleRun DEF RunShape
  <2> QED
    BY <1>0, <2>1, <2>2, FaultTolls, ToldStays
<1>4. CASE Tick \/ (\E h \in Hook : Toggle(h)) \/ UNCHANGED vars
  <2>1. UNCHANGED <<run, runs, health, tried, providers, faults>>
    BY <1>4 DEF Tick, Toggle, vars, history
  <2>2. RunShape'
    BY <1>0, <2>1 DEF RunShape
  <2> QED
    BY <1>0, <2>1, <2>2, ToldStays
<1> QED
  BY <1>1, <1>2, <1>3, <1>4 DEF Next

\* After a launch run the health rows tell which sources failed and which one
\* answered, and a run that found no answer has asked every configured source,
\* as long as no report was lost (_ingest_launches).
THEOREM HealthOfLaunchSources == Spec => []LaunchHealthTold
<1>1. ToldInv => LaunchHealthTold
  <2> SUFFICES ASSUME ToldInv, faults = 0, run["launches"].pc = "idle"
               PROVE  /\ \A k \in tried.failed : health[k] = "error"
                      /\ tried.used # 0 => health[tried.used] = "active"
                      /\ tried.used = 0 /\ runs["launches"] > 0 => tried.failed = Sources
    BY DEF LaunchHealthTold
  <2>1. Told("idle", run["launches"].source)
    BY DEF ToldInv
  <2> QED
    BY <2>1 DEF Told
<1> QED
  BY <1>1, ToldInit, ToldNext, PTL DEF Spec

-----------------------------------------------------------------------------
(* Finite sets as sequences.                                               *)

LEMMA IntervalSize ==
  ASSUME NEW n \in Nat
  PROVE  IsFiniteSet(1 .. n) /\ Cardinality(1 .. n) = n
<1>1. /\ IsFiniteSet(1 .. n)
      /\ Cardinality(1 .. n) = IF 1 > n THEN 0 ELSE n - 1 + 1
  <2>1. 1 \in Int /\ n \in Int
    OBVIOUS
  <2> QED
    BY <2>1, FS_Interval, Zenon
<1> QED
  BY <1>1

\* An injection between sets of the same size reaches everything.
LEMMA SameSizeOnto ==
  ASSUME NEW S, NEW T, IsFiniteSet(S), IsFiniteSet(T), Cardinality(S) = Cardinality(T),
         NEW f \in [S -> T], \A x, y \in S : f[x] = f[y] => x = y
  PROVE  \A t \in T : \E x \in S : f[x] = t
<1>1. f \in Injection(S, T)
  BY DEF Injection, IsInjective
<1>2. f \in Surjection(S, T)
  BY <1>1, FS_Injection
<1> QED
  BY <1>2 DEF Surjection

\* The sequence that Ordered chooses is there, and has all of the set.
LEMMA OrderedIs ==
  ASSUME NEW S \in SUBSET Nat, IsFiniteSet(S), NEW n, n = Cardinality(S)
  PROVE  /\ n \in Nat /\ Ordered(S) \in [1 .. n -> S]
         /\ \A i, k \in 1 .. n : i < k => Ordered(S)[i] < Ordered(S)[k]
         /\ \A x \in S : \E i \in 1 .. n : Ordered(S)[i] = x
<1> DEFINE Below(x) == {y \in S : y < x}
           f == [x \in S |-> Cardinality(Below(x)) + 1]
           g == [i \in 1 .. n |-> CHOOSE x \in S : f[x] = i]
<1>1. n \in Nat /\ IsFiniteSet(1 .. n) /\ Cardinality(1 .. n) = n
  BY FS_CardinalityType, IntervalSize
<1>2. ASSUME NEW x \in S
      PROVE  /\ IsFiniteSet(Below(x)) /\ Cardinality(Below(x)) \in Nat
             /\ Cardinality(Below(x)) + 1 <= n
  <2>1. Below(x) \in SUBSET (S \ {x}) /\ Below(x) \in SUBSET S
    OBVIOUS
  <2>2. IsFiniteSet(S \ {x}) /\ Cardinality(S \ {x}) = n - 1
    BY FS_RemoveElement
  <2>3. IsFiniteSet(Below(x)) /\ Cardinality(Below(x)) <= n - 1
    BY <2>1, <2>2, FS_Subset
  <2>4. Cardinality(Below(x)) \in Nat
    BY <2>3, FS_CardinalityType
  <2> QED
    BY <2>3, <2>4, <1>1
<1>3. ASSUME NEW x \in S, NEW y \in S, x < y
      PROVE  Cardinality(Below(x)) < Cardinality(Below(y))
  <2>1. x \in Nat /\ y \in Nat /\ \A z \in S : z \in Nat
    OBVIOUS
  <2>2. Below(x) \cup {x} \in SUBSET Below(y) /\ x \notin Below(x)
    <3>1. ASSUME NEW z \in Below(x) \cup {x} PROVE z \in Below(y)
      BY <2>1, <1>3
    <3>2. x \notin Below(x)
      BY <2>1
    <3> QED
      BY <3>1, <3>2
  <2>3. Cardinality(Below(x) \cup {x}) = Cardinality(Below(x)) + 1
    BY <1>2, <2>2, FS_AddElement
  <2>4. Cardinality(Below(x) \cup {x}) <= Cardinality(Below(y))
    BY <1>2, <2>2, FS_Subset
  <2> HIDE DEF Below
  <2> QED
    BY <1>2, <2>3, <2>4
<1>4. f \in [S -> 1 .. n] /\ \A x \in S : f[x] = Cardinality(Below(x)) + 1
  BY <1>1, <1>2
<1>5. ASSUME NEW x \in S, NEW y \in S, x < y PROVE f[x] < f[y]
  <2> HIDE DEF f, Below
  <2> QED
    BY <1>2, <1>3, <1>4, <1>5
<1> HIDE DEF f, Below
<1>6. ASSUME NEW x \in S, NEW y \in S, f[x] = f[y] PROVE x = y
  <2>1. x \in Nat /\ y \in Nat /\ f[x] \in Nat /\ f[y] \in Nat
    BY <1>1, <1>4
  <2>2. ~(x < y) /\ ~(y < x)
    BY <1>5, <1>6, <2>1
  <2> QED
    BY <2>1, <2>2
<1>7. \A i \in 1 .. n : \E x \in S : f[x] = i
  <2>1. PICK T : T = 1 .. n
    OBVIOUS
  <2>2. PICK F : F = f
    OBVIOUS
  <2>3. /\ F \in [S -> T] /\ IsFiniteSet(T) /\ Cardinality(S) = Cardinality(T)
        /\ \A x, y \in S : F[x] = F[y] => x = y
    BY <2>1, <2>2, <1>1, <1>4, <1>6
  <2>4. \A t \in T : \E x \in S : F[x] = t
    <3>1. F \in Injection(S, T)
      BY <2>3 DEF Injection, IsInjective
    <3>2. F \in Surjection(S, T)
      BY <3>1, <2>3, FS_Injection
    <3> QED
      BY <3>2 DEF Surjection
  <2> QED
    BY <2>1, <2>2, <2>4
<1>8. g \in [1 .. n -> S] /\ \A i \in 1 .. n : f[g[i]] = i
  BY <1>7
<1> HIDE DEF g
<1>9. ASSUME NEW i \in 1 .. n, NEW k \in 1 .. n, i < k PROVE g[i] < g[k]
  <2>1. g[i] \in S /\ g[k] \in S /\ g[i] \in Nat /\ g[k] \in Nat
    BY <1>8
  <2>2. f[g[i]] = i /\ f[g[k]] = k
    BY <1>8
  <2>3. g[i] # g[k]
    BY <2>2, <1>9
  <2>4. ~(g[k] < g[i])
    <3>1. ASSUME g[k] < g[i] PROVE FALSE
      <4>1. k < i
        BY <2>1, <2>2, <3>1, <1>5
      <4> QED
        BY <4>1, <1>1, <1>9
    <3> QED
      BY <3>1
  <2> QED
    BY <2>1, <2>3, <2>4
<1>10. \E h \in [1 .. n -> S] : \A i, k \in DOMAIN h : i < k => h[i] < h[k]
  BY <1>8, <1>9
<1>11. /\ Ordered(S) \in [1 .. n -> S]
       /\ \A i, k \in DOMAIN Ordered(S) : i < k => Ordered(S)[i] < Ordered(S)[k]
  BY <1>10 DEF Ordered
<1>12. \A i, k \in 1 .. n : i < k => Ordered(S)[i] < Ordered(S)[k]
  BY <1>11
<1>13. \A x \in S : \E i \in 1 .. n : Ordered(S)[i] = x
  <2> DEFINE h == Ordered(S)
  <2>1. h \in [1 .. n -> S] /\ \A i, k \in 1 .. n : i < k => h[i] < h[k]
    BY <1>11, <1>12
  <2> HIDE DEF h
  <2>2. ASSUME NEW i \in 1 .. n, NEW k \in 1 .. n, h[i] = h[k] PROVE i = k
    <3>1. h[i] \in S /\ h[k] \in S
      BY <2>1
    <3>2. ~(i < k) /\ ~(k < i)
      <4>1. h[i] \in Nat /\ h[k] \in Nat /\ h[i] = h[k]
        BY <2>2, <3>1
      <4> QED
        BY <4>1, <2>1
    <3> QED
      BY <3>2
  <2>3. \A x \in S : \E i \in 1 .. n : h[i] = x
    BY <1>1, <2>1, <2>2, SameSizeOnto
  <2> QED
    BY <2>3 DEF h
<1> QED
  BY <1>1, <1>11, <1>12, <1>13

LEMMA ListedIs ==
  ASSUME NEW S, IsFiniteSet(S), NEW n, n = Cardinality(S)
  PROVE  /\ n \in Nat /\ Listed(S) \in [1 .. n -> S]
         /\ \A x \in S : \E i \in 1 .. n : Listed(S)[i] = x
<1>1. n \in Nat /\ ExistsBijection(1 .. n, S)
  BY FS_CardinalityType
<1>2. PICK f : f \in Surjection(1 .. n, S)
  BY <1>1 DEF ExistsBijection, Bijection
<1>3. f \in [1 .. n -> S] /\ {f[i] : i \in DOMAIN f} = S
  BY <1>2 DEF Surjection
<1>4. Listed(S) \in [1 .. n -> S] /\ {Listed(S)[i] : i \in DOMAIN Listed(S)} = S
  BY <1>3 DEF Listed
<1>5. \A x \in S : \E i \in DOMAIN Listed(S) : Listed(S)[i] = x
  BY <1>4
<1> QED
  BY <1>1, <1>4, <1>5

\* The greatest member of a finite set is the last of it in order, the least
\* the first.
LEMMA LeastAndNewest ==
  ASSUME NEW S \in SUBSET Nat, IsFiniteSet(S), S # {}
  PROVE  /\ Newest(S) \in S
         /\ \E i \in S : \A k \in S : i <= k
<1>1. PICK n : n = Cardinality(S)
  OBVIOUS
<1>2. PICK h : h = Ordered(S)
  OBVIOUS
<1>3. /\ n \in Nat /\ h \in [1 .. n -> S]
      /\ \A i, k \in 1 .. n : i < k => h[i] < h[k]
      /\ \A x \in S : \E i \in 1 .. n : h[i] = x
  BY <1>1, <1>2, OrderedIs
<1>4. n >= 1
  <2>1. PICK x : x \in S
    OBVIOUS
  <2>2. PICK i \in 1 .. n : h[i] = x
    BY <1>3, <2>1
  <2> QED
    BY <1>3, <2>2
<1>5. 1 \in 1 .. n /\ n \in 1 .. n /\ h[1] \in S /\ h[n] \in S
  BY <1>3, <1>4
<1>6. \A x \in S : h[1] <= x /\ x <= h[n]
  <2>1. ASSUME NEW x \in S PROVE h[1] <= x /\ x <= h[n]
    <3>1. PICK i \in 1 .. n : h[i] = x
      BY <1>3
    <3>2. /\ i = 1 \/ 1 < i
          /\ i = n \/ i < n
      BY <1>3
    <3>3. h[1] \in Nat /\ h[n] \in Nat /\ x \in Nat
      BY <1>5
    <3>4. /\ 1 < i => h[1] < x
          /\ i < n => x < h[n]
      BY <1>3, <1>5, <3>1
    <3> QED
      BY <3>1, <3>2, <3>3, <3>4
  <2> QED
    BY <2>1
<1>7. Newest(S) \in S
  <2>1. \E e \in S : \A f \in S : f <= e
    BY <1>5, <1>6
  <2> QED
    BY <2>1 DEF Newest
<1> QED
  BY <1>5, <1>6, <1>7

LEMMA NatSubsets ==
  /\ \A S \in SUBSET Sat : S \in SUBSET Nat /\ IsFiniteSet(S)
  /\ \A S \in SUBSET Minute : S \in SUBSET Nat /\ IsFiniteSet(S)
BY IngestionAssumption, FS_Subset DEF IngestionAssumption

-----------------------------------------------------------------------------
(* Statements.                                                             *)

Columns == {"name", "cospar", "catalog", "elements", "body", "approach", "storm", "wind"}

\* A statement that sets the catalog columns has values for them.
Statement ==
  {w \in [row : Row, parent : SUBSET Row, values : SUBSET Columns, update : SUBSET Columns] :
     "catalog" \in w.update => "catalog" \in w.values}

\* Statements that need no other row.
Roots == {w \in Statement : w.parent = {}}

\* Every parent is written by an earlier statement.
InTurn(s) == \A i \in 1 .. Len(s) : s[i].parent \subseteq {s[k].row : k \in 1 .. (i - 1)}

LEMMA Upserts ==
  /\ \A n \in Sat : SatcatWrite(n) \in Roots
  /\ \A n \in Sat, d \in {{}, {"cospar"}} : /\ OrbitalWrite(n, d) \in Roots
                                            /\ OrbitalWrite(n, d).row = <<"satellite", n>>
  /\ \A n \in Sat, e \in Epoch : /\ ElementWrite(n, e) \in Statement
                                 /\ ElementWrite(n, e).parent = {<<"satellite", n>>}
BY DEF Statement, Roots, Columns, Row, CatalogRow, SatcatWrite, OrbitalWrite, OrbitalColumns,
       ElementWrite, Write

LEMMA Observations ==
  \A e \in Minute : WindWrite(e) \in Roots /\ \A S : KpWrite(e, e \in S) \in Roots
BY DEF Statement, Roots, Columns, Row, CatalogRow, WindWrite, KpWrite, Write

LEMMA Approaches ==
  ASSUME NEW j \in {"jpl", "nasa"}, NEW d \in Body
  PROVE  /\ BodyWrite(j, d) \in Roots /\ BodyWrite(j, d).row = <<j, d>>
         /\ \A e \in Epoch : /\ ApproachWrite(j, d, e) \in Statement
                             /\ ApproachWrite(j, d, e).parent = {<<j, d>>}
BY DEF Statement, Roots, Columns, Row, CatalogRow, BodyWrite, ApproachWrite, Write

\* Roots alone are in turn, and so are roots and what needs them.
LEMMA RootsInTurn ==
  ASSUME NEW s \in Seq(Roots)
  PROVE  s \in Seq(Statement) /\ InTurn(s)
<1>1. \A i \in 1 .. Len(s) : s[i] \in Statement /\ s[i].parent = {}
  BY DEF Roots
<1>2. s \in Seq(Statement)
  BY <1>1
<1> QED
  BY <1>1, <1>2 DEF InTurn

LEMMA ParentsInTurn ==
  ASSUME NEW p \in Seq(Roots), NEW c \in Seq(Statement),
         \A i \in 1 .. Len(c) : c[i].parent \subseteq {p[k].row : k \in 1 .. Len(p)}
  PROVE  InOrder(p, c) \in Seq(Statement) /\ InTurn(InOrder(p, c))
<1>1. p \in Seq(Statement) /\ \A i \in 1 .. Len(p) : p[i] \in Statement /\ p[i].parent = {}
  BY RootsInTurn DEF Roots
<1>2. PICK s : s = p \o c
  OBVIOUS
<1>3. /\ s \in Seq(Statement) /\ Len(s) = Len(p) + Len(c)
      /\ \A i \in 1 .. Len(s) : s[i] = IF i <= Len(p) THEN p[i] ELSE c[i - Len(p)]
  BY <1>1, <1>2
<1>4. PICK m : m = Len(p)
  OBVIOUS
<1>5. m \in Nat /\ Len(c) \in Nat
  BY <1>4
<1>6. ASSUME NEW i \in 1 .. Len(s)
      PROVE  s[i].parent \subseteq {s[k].row : k \in 1 .. (i - 1)}
  <2>1. CASE i <= m
    BY <1>1, <1>3, <1>4, <1>5, <2>1
  <2>2. CASE m < i
    <3>1. i - m \in 1 .. Len(c) /\ s[i] = c[i - m] /\ 1 .. m \subseteq 1 .. (i - 1)
      BY <1>3, <1>4, <1>5, <2>2
    <3>2. \A k \in 1 .. m : k \in 1 .. (i - 1) /\ s[k] = p[k]
      BY <1>3, <1>4, <1>5, <2>2
    <3>3. s[i].parent \subseteq {p[k].row : k \in 1 .. m}
      BY <3>1, <1>4
    <3> QED
      BY <3>2, <3>3
  <2> QED
    BY <1>5, <2>1, <2>2
<1>7. InTurn(s)
  BY <1>6 DEF InTurn
<1>8. InOrder(p, c) = s
  BY <1>2 DEF InOrder
<1> QED
  BY <1>3, <1>7, <1>8, Zenon

LEMMA ListOf ==
  ASSUME NEW T, NEW m \in Nat, NEW s, DOMAIN s = 1 .. m, s = [k \in 1 .. m |-> s[k]],
         \A k \in 1 .. m : s[k] \in T
  PROVE  s \in Seq(T) /\ Len(s) = m
<1>1. s \in [1 .. m -> T]
  OBVIOUS
<1> QED
  BY <1>1

\* Statements made of the members of a set in their order.
LEMMA OrderedRoots ==
  ASSUME NEW S \in SUBSET Nat, IsFiniteSet(S), NEW s,
         DOMAIN s = DOMAIN Ordered(S),
         \A i \in DOMAIN s : Ordered(S)[i] \in S => s[i] \in Roots
  PROVE  s = [i \in DOMAIN s |-> s[i]] => s \in Seq(Roots)
<1>1. PICK n : n = Cardinality(S)
  OBVIOUS
<1>2. n \in Nat /\ Ordered(S) \in [1 .. n -> S]
  BY <1>1, OrderedIs
<1>3. DOMAIN s = 1 .. n /\ \A i \in 1 .. n : s[i] \in Roots
  BY <1>2
<1> QED
  BY <1>2, <1>3

LEMMA SatcatInTurn == \A s \in SatcatWrites : s \in Seq(Roots)
<1> SUFFICES ASSUME NEW S \in SUBSET Sat
             PROVE  Map(Ordered(S), SatcatWrite) \in Seq(Roots)
  BY DEF SatcatWrites
<1>1. S \in SUBSET Nat /\ IsFiniteSet(S)
  BY NatSubsets
<1>2. PICK s : s = Map(Ordered(S), SatcatWrite)
  OBVIOUS
<1>3. /\ DOMAIN s = DOMAIN Ordered(S) /\ s = [i \in DOMAIN s |-> s[i]]
      /\ \A i \in DOMAIN s : s[i] = SatcatWrite(Ordered(S)[i])
  BY <1>2 DEF Map
<1>4. \A i \in DOMAIN s : Ordered(S)[i] \in S => s[i] \in Roots
  BY <1>3, Upserts
<1> QED
  BY <1>1, <1>2, <1>3, <1>4, OrderedRoots

LEMMA WeatherInTurn == \A s \in WeatherWrites : s \in Seq(Roots)
<1> SUFFICES ASSUME NEW writes \in WeatherWrites PROVE writes \in Seq(Roots)
  OBVIOUS
<1>0. PICK k, w, storm \in SUBSET Minute : writes = Observed(k, w, storm)
  BY DEF WeatherWrites
<1>1. PICK K, W : K = PlanetaryK(k) /\ W = SolarWind(w)
  OBVIOUS
<1>2. K \in SUBSET Minute /\ W \in SUBSET Minute
  BY <1>1 DEF PlanetaryK, SolarWind, Recent
<1>3. K \in SUBSET Nat /\ IsFiniteSet(K) /\ W \in SUBSET Nat /\ IsFiniteSet(W)
  BY <1>2, NatSubsets
<1>4. PICK s : s = Map(Ordered(K), LAMBDA e : KpWrite(e, e \in storm))
  OBVIOUS
<1>5. PICK t : t = Map(Ordered(W), WindWrite)
  OBVIOUS
<1>6. s \in Seq(Roots)
  <2>1. /\ DOMAIN s = DOMAIN Ordered(K) /\ s = [i \in DOMAIN s |-> s[i]]
        /\ \A i \in DOMAIN s : s[i] = KpWrite(Ordered(K)[i], Ordered(K)[i] \in storm)
    BY <1>4 DEF Map
  <2>2. \A i \in DOMAIN s : Ordered(K)[i] \in K => s[i] \in Roots
    BY <1>2, <2>1, Observations
  <2> QED
    BY <1>3, <2>1, <2>2, OrderedRoots
<1>7. t \in Seq(Roots)
  <2>1. /\ DOMAIN t = DOMAIN Ordered(W) /\ t = [i \in DOMAIN t |-> t[i]]
        /\ \A i \in DOMAIN t : t[i] = WindWrite(Ordered(W)[i])
    BY <1>5 DEF Map
  <2>2. \A i \in DOMAIN t : Ordered(W)[i] \in W => t[i] \in Roots
    BY <1>2, <2>1, Observations
  <2> QED
    BY <1>3, <2>1, <2>2, OrderedRoots
<1>8. s \o t \in Seq(Roots)
  BY <1>6, <1>7
<1> QED
  BY <1>0, <1>1, <1>4, <1>5, <1>8 DEF Observed

\* The satellites of a catalog, each once, come before its element sets.
LEMMA OrbitalInTurn ==
  \A s \in OrbitalWrites : s \in Seq(Statement) /\ InTurn(s)
<1> SUFFICES ASSUME NEW n \in 1 .. MaxRecords,
                    NEW c \in [1 .. n -> [norad : Sat, designator : {{}, {"cospar"}},
                                          epoch : Epoch]]
             PROVE  LET s == InOrder(Satellites(c),
                                [i \in DOMAIN c |-> ElementWrite(c[i].norad, c[i].epoch)])
                    IN  s \in Seq(Statement) /\ InTurn(s)
  BY DEF OrbitalWrites, TleCatalogs
<1>0. n \in Nat /\ DOMAIN c = 1 .. n
  BY IngestionAssumption DEF IngestionAssumption
<1>1. \A i \in 1 .. n : /\ c[i].norad \in Sat /\ c[i].epoch \in Epoch
                        /\ c[i].designator \in {{}, {"cospar"}}
  OBVIOUS
<1> DEFINE At(m) == {i \in 1 .. n : c[i].norad = m}
           F == {i \in 1 .. n : \A k \in At(c[i].norad) : i <= k}
           Upserted(i) == OrbitalWrite(c[i].norad, c[Newest(At(c[i].norad))].designator)
<1>2. \A S \in SUBSET (1 .. n) : S \in SUBSET Nat /\ IsFiniteSet(S)
  <2>1. IsFiniteSet(1 .. n) /\ 1 .. n \subseteq Nat
    BY <1>0, IntervalSize
  <2> QED
    BY <2>1, FS_Subset
<1>3. ASSUME NEW i \in 1 .. n
      PROVE  /\ Newest(At(c[i].norad)) \in 1 .. n
             /\ \E l \in F : c[l].norad = c[i].norad
  <2>1. PICK A : A = At(c[i].norad)
    OBVIOUS
  <2>2. A \in SUBSET (1 .. n) /\ i \in A /\ \A k \in A : c[k].norad = c[i].norad
    BY <2>1
  <2>3. A \in SUBSET Nat /\ IsFiniteSet(A) /\ A # {}
    BY <2>2, <1>2
  <2>4. Newest(A) \in A /\ \E l \in A : \A k \in A : l <= k
    BY <2>3, LeastAndNewest
  <2>5. PICK l \in A : \A k \in A : l <= k
    BY <2>4
  <2>6. l \in F /\ c[l].norad = c[i].norad
    <3>1. l \in 1 .. n /\ c[l].norad = c[i].norad
      BY <2>2
    <3>2. At(c[l].norad) = A
      BY <2>1, <3>1
    <3> HIDE DEF At
    <3> QED
      BY <2>5, <3>1, <3>2
  <2> QED
    BY <2>1, <2>2, <2>4, <2>6
<1>4. Satellites(c) = Map(Ordered(F), Upserted)
  BY <1>0 DEF Satellites
<1>5. PICK m : m = Cardinality(F)
  OBVIOUS
<1>6. /\ m \in Nat /\ Ordered(F) \in [1 .. m -> F]
      /\ \A l \in F : \E k \in 1 .. m : Ordered(F)[k] = l
  <2>1. F \in SUBSET Nat /\ IsFiniteSet(F)
    BY <1>2
  <2> HIDE DEF F
  <2> QED
    BY <1>5, <2>1, OrderedIs
<1>7. PICK p : p = Satellites(c)
  OBVIOUS
<1>8. /\ DOMAIN p = 1 .. m /\ p = [k \in 1 .. m |-> p[k]]
      /\ \A k \in 1 .. m : p[k] = Upserted(Ordered(F)[k])
  <2>1. DOMAIN Ordered(F) = 1 .. m
    BY <1>6
  <2> HIDE DEF F, Upserted
  <2> QED
    BY <1>4, <1>7, <2>1 DEF Map
<1>9. \A l \in 1 .. n : /\ Upserted(l) \in Roots
                        /\ Upserted(l).row = <<"satellite", c[l].norad>>
  <2>1. ASSUME NEW l \in 1 .. n
        PROVE  Upserted(l) \in Roots /\ Upserted(l).row = <<"satellite", c[l].norad>>
    <3>1. PICK d : d = c[Newest(At(c[l].norad))].designator
      OBVIOUS
    <3>2. d \in {{}, {"cospar"}} /\ c[l].norad \in Sat
      BY <1>1, <1>3, <3>1
    <3>3. Upserted(l) = OrbitalWrite(c[l].norad, d)
      BY <3>1
    <3> QED
      BY <3>2, <3>3, Upserts
  <2> QED
    BY <2>1
<1>10. F \subseteq 1 .. n /\ \A k \in 1 .. m : Ordered(F)[k] \in 1 .. n
  BY <1>6
<1> HIDE DEF F, At, Upserted
<1>11. p \in Seq(Roots) /\ Len(p) = m
  <2>1. \A k \in 1 .. m : p[k] \in Roots
    BY <1>8, <1>9, <1>10
  <2> QED
    BY <1>6, <1>8, <2>1, ListOf
<1>12. PICK e : e = [i \in DOMAIN c |-> ElementWrite(c[i].norad, c[i].epoch)]
  OBVIOUS
<1>13. /\ e \in Seq(Statement) /\ Len(e) = n
       /\ \A i \in 1 .. n : e[i].parent = {<<"satellite", c[i].norad>>}
  <2>1. /\ DOMAIN e = 1 .. n /\ e = [i \in 1 .. n |-> e[i]]
        /\ \A i \in 1 .. n : e[i] = ElementWrite(c[i].norad, c[i].epoch)
    BY <1>0, <1>12
  <2>2. \A i \in 1 .. n : /\ e[i] \in Statement
                          /\ e[i].parent = {<<"satellite", c[i].norad>>}
    BY <1>1, <2>1, Upserts
  <2> QED
    BY <1>0, <2>1, <2>2, ListOf
<1>14. \A i \in 1 .. Len(e) : e[i].parent \subseteq {p[k].row : k \in 1 .. Len(p)}
  <2>1. ASSUME NEW i \in 1 .. n
        PROVE  e[i].parent \subseteq {p[k].row : k \in 1 .. m}
    <3>1. PICK l \in F : c[l].norad = c[i].norad
      BY <1>3
    <3>2. PICK k \in 1 .. m : Ordered(F)[k] = l
      BY <1>6
    <3>3. p[k].row = <<"satellite", c[i].norad>>
      BY <1>8, <1>9, <1>10, <3>1, <3>2
    <3> QED
      BY <1>13, <3>3
  <2> QED
    BY <1>11, <1>13, <2>1
<1> QED
  BY <1>7, <1>11, <1>12, <1>13, <1>14, ParentsInTurn

\* An object that has no rows of its own is written with its approaches.
LEMMA StoredInTurn ==
  ASSUME NEW j \in {"jpl", "nasa"}, NEW bodies \in SUBSET Body,
         NEW approaches \in SUBSET (Body \X Epoch)
  PROVE  Stored(j, bodies, approaches) \in Seq(Statement) /\ InTurn(Stored(j, bodies, approaches))
<1>1. PICK D : D = bodies \cup {a[1] : a \in approaches}
  OBVIOUS
<1>2. PICK B : B = {BodyWrite(j, d) : d \in D}
  OBVIOUS
<1>3. PICK A : A = {ApproachWrite(j, a[1], a[2]) : a \in approaches}
  OBVIOUS
<1>4. D \subseteq Body /\ \A a \in approaches : a[1] \in D /\ a[2] \in Epoch
  BY <1>1
<1>5. IsFiniteSet(B)
  <2>1. IsFiniteSet(D)
    BY <1>4, IngestionAssumption, FS_Subset DEF IngestionAssumption
  <2>2. [d \in D |-> BodyWrite(j, d)] \in Surjection(D, B)
    BY <1>2 DEF Surjection
  <2> QED
    BY <2>1, <2>2, FS_Surjection
<1>6. IsFiniteSet(A)
  <2>1. IsFiniteSet(Body \X Epoch)
    BY IngestionAssumption, FS_Product DEF IngestionAssumption
  <2>2. IsFiniteSet(approaches)
    BY <2>1, FS_Subset
  <2>3. [a \in approaches |-> ApproachWrite(j, a[1], a[2])] \in Surjection(approaches, A)
    BY <1>3 DEF Surjection
  <2> QED
    BY <2>2, <2>3, FS_Surjection
<1>7. PICK m, p : m = Cardinality(B) /\ p = Listed(B)
  OBVIOUS
<1>8. m \in Nat /\ p \in [1 .. m -> B] /\ \A w \in B : \E i \in 1 .. m : p[i] = w
  BY <1>5, <1>7, ListedIs
<1>9. PICK n, c : n = Cardinality(A) /\ c = Listed(A)
  OBVIOUS
<1>10. n \in Nat /\ c \in [1 .. n -> A]
  BY <1>6, <1>9, ListedIs
<1>11. p \in Seq(Roots) /\ Len(p) = m
  <2>1. B \subseteq Roots
    BY <1>2, <1>4, Approaches
  <2>2. DOMAIN p = 1 .. m /\ p = [k \in 1 .. m |-> p[k]] /\ \A k \in 1 .. m : p[k] \in Roots
    BY <1>8, <2>1
  <2> QED
    BY <1>8, <2>2, ListOf
<1>12. c \in Seq(Statement) /\ Len(c) = n
  <2>1. A \subseteq Statement
    BY <1>3, <1>4, Approaches
  <2>2. /\ DOMAIN c = 1 .. n /\ c = [k \in 1 .. n |-> c[k]]
        /\ \A k \in 1 .. n : c[k] \in Statement
    BY <1>10, <2>1
  <2> QED
    BY <1>10, <2>2, ListOf
<1>13. ASSUME NEW i \in 1 .. Len(c)
       PROVE  c[i].parent \subseteq {p[k].row : k \in 1 .. Len(p)}
  <2>1. c[i] \in A
    BY <1>10, <1>12
  <2>2. PICK a \in approaches : c[i] = ApproachWrite(j, a[1], a[2])
    BY <1>3, <2>1
  <2>3. c[i].parent = {<<j, a[1]>>}
    BY <1>4, <2>2, Approaches
  <2>4. BodyWrite(j, a[1]) \in B /\ BodyWrite(j, a[1]).row = <<j, a[1]>>
    BY <1>2, <1>4, Approaches
  <2>5. PICK k \in 1 .. m : p[k] = BodyWrite(j, a[1])
    BY <1>8, <2>4
  <2> QED
    BY <1>11, <2>3, <2>4, <2>5
<1>14. InOrder(p, c) \in Seq(Statement) /\ InTurn(InOrder(p, c))
  BY <1>11, <1>12, <1>13, ParentsInTurn
<1> QED
  BY <1>1, <1>2, <1>3, <1>7, <1>9, <1>14 DEF Stored

LEMMA WritesInTurn ==
  ASSUME NEW j \in Job, j # "launches", NEW s \in Writes(j)
  PROVE  s \in Seq(Statement) /\ InTurn(s)
<1>0. j \in {"satcat", "orbital", "weather", "jpl", "nasa"}
  BY DEF Job, Provider
<1>1. CASE j = "satcat"
  BY <1>1, SatcatInTurn, RootsInTurn DEF Writes
<1>2. CASE j = "weather"
  BY <1>2, WeatherInTurn, RootsInTurn DEF Writes
<1>3. CASE j = "orbital"
  BY <1>3, OrbitalInTurn DEF Writes
<1>4. CASE j = "jpl"
  <2>1. PICK A \in SUBSET (Body \X Epoch) : s = Stored("jpl", {}, A)
    BY <1>4 DEF Writes, JplWrites
  <2> QED
    BY <2>1, StoredInTurn
<1>5. CASE j = "nasa"
  <2>1. PICK B \in SUBSET Body, A \in SUBSET (Body \X Epoch) : s = Stored("nasa", B, A)
    BY <1>5 DEF Writes, NasaWrites
  <2> QED
    BY <2>1, StoredInTurn
<1> QED
  BY <1>0, <1>1, <1>2, <1>3, <1>4, <1>5

-----------------------------------------------------------------------------
(* Transactions.                                                           *)

\* What is still to be written by s finds its parents when its turn comes, with
\* done written before by the same transaction.
Fits(s, done) ==
  /\ s \in Seq(Statement) /\ done \subseteq Statement
  /\ \A i \in 1 .. Len(s) :
       s[i].parent \subseteq rows \cup {w.row : w \in done} \cup {s[k].row : k \in 1 .. (i - 1)}

WriteInv ==
  /\ RunShape
  /\ \A j \in Job : Fits(run[j].todo, run[j].done)
  /\ \A r \in Row : r \notin rows => filled[r] = {}

\* A run that keeps what it has to write and what it has written, or has neither.
Carried(j) ==
  \/ run'[j].todo = run[j].todo /\ run'[j].done = run[j].done
  \/ run'[j].todo = <<>> /\ run'[j].done = {}

LEMMA NothingFits == Fits(<<>>, {})
BY DEF Fits

LEMMA WriteInit == Init => WriteInv
<1> SUFFICES ASSUME Init PROVE WriteInv
  OBVIOUS
<1>1. Idle.todo = <<>> /\ Idle.done = {}
  BY DEF Idle
<1>2. RunShape /\ \A j \in Job : run[j].todo = <<>> /\ run[j].done = {}
  BY <1>1, IdleRun DEF Init, RunShape
<1>3. \A r \in Row : filled[r] = {}
  BY DEF Init
<1> QED
  BY <1>2, <1>3, NothingFits DEF WriteInv

\* Rows that are added take no parent away.
LEMMA MoreRows ==
  ASSUME NEW s, NEW done, Fits(s, done), rows \subseteq rows'
  PROVE  Fits(s, done)'
BY DEF Fits

LEMMA AllCarried ==
  ASSUME WriteInv, RunShape', rows \subseteq rows', \A j \in Job : Carried(j)
  PROVE  \A j \in Job : Fits(run[j].todo, run[j].done)'
<1> SUFFICES ASSUME NEW j \in Job PROVE Fits(run[j].todo, run[j].done)'
  OBVIOUS
<1>1. CASE run'[j].todo = run[j].todo /\ run'[j].done = run[j].done
  <2>1. PICK s, d : s = run[j].todo /\ d = run[j].done
    OBVIOUS
  <2>2. Fits(s, d)
    BY <2>1 DEF WriteInv
  <2>3. Fits(s, d)'
    BY <2>2, MoreRows
  <2> QED
    BY <1>1, <2>1, <2>3 DEF Fits
<1>2. CASE run'[j].todo = <<>> /\ run'[j].done = {}
  BY <1>2 DEF Fits
<1> QED
  BY <1>1, <1>2 DEF Carried

\* Everything but a fetch and a statement carries what was to be written.
LEMMA CarriedByRuns ==
  ASSUME RunShape, NEW j \in Job,
         \/ Deadlock(j) \/ Commit(j) \/ Announce(j) \/ Publish(j)
         \/ PublishFails(j) \/ DatabaseFails(j)
  PROVE  RunShape' /\ \A i \in Job : Carried(i)
<1>0. DOMAIN run[j] = Fields /\ Idle.todo = <<>> /\ Idle.done = {}
  BY DEF RunShape, Idle
<1>1. RunShape' /\ \A i \in Job : i # j => run'[i] = run[i]
  BY ShapeKept DEF RunStep
<1>2. Carried(j)
  <2>1. CASE End(j)
    BY <1>0, <2>1, EndEffect DEF Carried
  <2>2. CASE Goto(j, "announce")
    <3>1. run'[j] = [run[j] EXCEPT !.pc = "announce"]
      BY <2>2 DEF Goto, RunShape
    <3> QED
      BY <1>0, <3>1 DEF Carried, Fields
  <2>3. CASE run' = [run EXCEPT ![j] = [Idle EXCEPT !.pc = "publish", !.hooks = active]]
    <3>1. run'[j] = [Idle EXCEPT !.pc = "publish", !.hooks = active]
      BY <2>3 DEF RunShape
    <3> QED
      BY <3>1 DEF Carried, Idle
  <2>4. CASE \E H : run' = [run EXCEPT ![j] = [run[j] EXCEPT !.hooks = H]]
    <3>1. PICK H : run'[j] = [run[j] EXCEPT !.hooks = H]
      BY <2>4 DEF RunShape
    <3> QED
      BY <1>0, <3>1 DEF Carried, Fields
  <2>5. Commit(j) => End(j) \/ Goto(j, "announce")
    BY DEF Commit
  <2>6. Announce(j) =>
          \/ End(j)
          \/ run' = [run EXCEPT ![j] = [Idle EXCEPT !.pc = "publish", !.hooks = active]]
    BY DEF Announce
  <2>7. Publish(j) => End(j) \/ \E H : run' = [run EXCEPT ![j] = [run[j] EXCEPT !.hooks = H]]
    BY DEF Publish
  <2>8. Deadlock(j) \/ PublishFails(j) \/ DatabaseFails(j) => End(j)
    BY DEF Deadlock, PublishFails, DatabaseFails
  <2> QED
    BY <2>1, <2>2, <2>3, <2>4, <2>5, <2>6, <2>7, <2>8
<1> QED
  BY <1>1, <1>2 DEF Carried

LEMMA CarriedByLaunches ==
  ASSUME RunShape, BeginLaunches \/ LaunchStep
  PROVE  RunShape' /\ \A i \in Job : Carried(i)
<1> DEFINE j == "launches"
<1>0. DOMAIN run[j] = Fields /\ Idle.todo = <<>> /\ Idle.done = {} /\ j \in Job
  BY LaunchesIsAJob DEF RunShape, Idle
<1>1. CASE End(j)
  BY <1>0, <1>1, EndEffect DEF Carried
<1>2. CASE \E pc : Goto(j, pc)
  <2>1. PICK pc : Goto(j, pc)
    BY <1>2
  <2>2. RunShape' /\ \A i \in Job : i # j => run'[i] = run[i]
    BY <1>0, <2>1, GotoEffect
  <2>3. run'[j] = [run[j] EXCEPT !.pc = pc]
    BY <1>0, <2>1 DEF Goto, RunShape
  <2>4. Carried(j)
    BY <1>0, <2>3 DEF Carried, Fields
  <2> QED
    BY <2>2, <2>4 DEF Carried
<1>3. ASSUME NEW r, run' = [run EXCEPT ![j] = r], DOMAIN r = Fields,
             \/ r.todo = run[j].todo /\ r.done = run[j].done
             \/ r.todo = <<>> /\ r.done = {}
      PROVE  RunShape' /\ \A i \in Job : Carried(i)
  <2>1. RunShape' /\ run'[j] = r /\ \A i \in Job : i # j => run'[i] = run[i]
    BY <1>0, <1>3, SetEffect
  <2> QED
    BY <1>3, <2>1 DEF Carried
<1>4. ASSUME NEW pc, NEW k, run' = [run EXCEPT ![j] = [Idle EXCEPT !.pc = pc, !.source = k]]
      PROVE  RunShape' /\ \A i \in Job : Carried(i)
  <2>1. LET r == [Idle EXCEPT !.pc = pc, !.source = k]
        IN  DOMAIN r = Fields /\ r.todo = <<>> /\ r.done = {}
    BY DEF Idle, Fields
  <2> QED
    BY <1>3, <1>4, <2>1
<1>5. CASE BeginLaunches
  BY <1>4, <1>5 DEF BeginLaunches
<1>6. CASE Answers
  <2>1. PICK pc, o : run' = [run EXCEPT ![j] = [run[j] EXCEPT !.pc = pc, !.offer = o]]
    BY <1>0, <1>6 DEF Answers, RunShape
  <2>2. LET r == [run[j] EXCEPT !.pc = pc, !.offer = o]
        IN  DOMAIN r = Fields /\ r.todo = run[j].todo /\ r.done = run[j].done
    BY <1>0 DEF Fields
  <2> QED
    BY <1>3, <2>1, <2>2
<1>7. CASE Replace \/ SourceFails
  BY <1>2, <1>7 DEF Replace, SourceFails
<1>8. CASE Blame
  BY <1>1, <1>4, <1>8 DEF Blame
<1>9. CASE Praise
  <2>1. LET r == [Idle EXCEPT !.pc = "announce"]
        IN  DOMAIN r = Fields /\ r.todo = <<>> /\ r.done = {}
    BY DEF Idle, Fields
  <2>2. run' = [run EXCEPT ![j] = [Idle EXCEPT !.pc = "announce"]]
    BY <1>9 DEF Praise
  <2> QED
    BY <1>3, <2>1, <2>2
<1> QED
  BY <1>5, <1>6, <1>7, <1>8, <1>9 DEF LaunchStep

\* The transactions of the jobs after a step that leaves the rows alone.
LEMMA SameRows ==
  ASSUME WriteInv, RunShape', UNCHANGED <<rows, filled>>,
         \A j \in Job : Fits(run[j].todo, run[j].done)'
  PROVE  WriteInv'
BY DEF WriteInv

LEMMA WriteFetch ==
  ASSUME WriteInv, NEW j \in Job, Fetch(j)
  PROVE  WriteInv'
<1>1. RunShape' /\ \A i \in Job : i # j => run'[i] = run[i]
  BY ShapeKept DEF WriteInv
<1>2. UNCHANGED <<rows, filled>>
  BY DEF Fetch, tables
<1>3. CASE End(j)
  <2>1. \A i \in Job : Carried(i)
    BY <1>1, <1>3, EndEffect DEF Carried, WriteInv, Idle
  <2>2. \A i \in Job : Fits(run[i].todo, run[i].done)'
    BY <1>1, <1>2, <2>1, AllCarried
  <2> QED
    BY <1>1, <1>2, <2>2, SameRows
<1>4. ASSUME NEW s \in Writes(j),
             run' = [run EXCEPT ![j] = [Idle EXCEPT !.pc = "write", !.todo = s]]
      PROVE  WriteInv'
  <2>1. run'[j] = [Idle EXCEPT !.pc = "write", !.todo = s]
    BY <1>4 DEF WriteInv, RunShape
  <2>2. run'[j].todo = s /\ run'[j].done = {}
    BY <2>1 DEF Idle
  <2>3. j # "launches"
    BY DEF Fetch
  <2>4. s \in Seq(Statement) /\ InTurn(s)
    BY <1>4, <2>3, WritesInTurn
  <2>5. Fits(run[j].todo, run[j].done)'
    BY <2>2, <2>4 DEF Fits, InTurn
  <2>6. ASSUME NEW i \in Job, i # j PROVE Fits(run[i].todo, run[i].done)'
    BY <1>1, <1>2, <2>6 DEF WriteInv, Fits
  <2> QED
    BY <1>1, <1>2, <2>5, <2>6, SameRows
<1> QED
  BY <1>3, <1>4 DEF Fetch

\* The statement that was executed is a parent of those after it.
LEMMA WriteUpsert ==
  ASSUME WriteInv, NEW j \in Job, Upsert(j)
  PROVE  WriteInv'
<1>0. DOMAIN run[j] = Fields
  BY DEF WriteInv, RunShape
<1>1. RunShape' /\ \A i \in Job : i # j => run'[i] = run[i]
  BY ShapeKept DEF WriteInv, RunStep
<1>2. UNCHANGED <<rows, filled>>
  BY DEF Upsert, tables
<1>3. PICK s, d : s = run[j].todo /\ d = run[j].done
  OBVIOUS
<1>4. Fits(s, d) /\ s # <<>>
  BY <1>3 DEF WriteInv, Upsert, Writing
<1>5. s \in Seq(Statement) /\ d \subseteq Statement
  BY <1>4 DEF Fits
<1>6. PICK u, D : u = Tail(s) /\ D = d \cup {Head(s)}
  OBVIOUS
<1>7. run'[j].todo = u /\ run'[j].done = D
  <2>1. run'[j] = [run[j] EXCEPT !.done = D, !.todo = u]
    BY <1>3, <1>6 DEF Upsert, WriteInv, RunShape
  <2> QED
    BY <1>0, <2>1 DEF Fields
<1>8. /\ u \in Seq(Statement) /\ D \subseteq Statement
      /\ Len(s) \in Nat /\ Len(u) = Len(s) - 1
      /\ \A i \in 1 .. Len(u) : u[i] = s[i + 1]
      /\ s[1] \in D /\ d \subseteq D
  BY <1>4, <1>5, <1>6
<1>9. ASSUME NEW i \in 1 .. Len(u)
      PROVE  u[i].parent \subseteq
               rows \cup {w.row : w \in D} \cup {u[k].row : k \in 1 .. (i - 1)}
  <2>1. i \in Nat /\ i + 1 \in 1 .. Len(s) /\ u[i] = s[i + 1] /\ (i + 1) - 1 = i
    BY <1>8
  <2>2. s[i + 1].parent \subseteq
          rows \cup {w.row : w \in d} \cup {s[k].row : k \in 1 .. i}
    BY <1>4, <2>1 DEF Fits
  <2>3. ASSUME NEW k \in 1 .. i
        PROVE  s[k].row \in {w.row : w \in D} \cup {u[l].row : l \in 1 .. (i - 1)}
    <3>1. CASE k = 1
      BY <1>8, <3>1
    <3>2. CASE k # 1
      <4>1. k - 1 \in 1 .. (i - 1) /\ k - 1 \in 1 .. Len(u) /\ (k - 1) + 1 = k
        BY <1>8, <2>1, <3>2
      <4>2. u[k - 1] = s[k]
        BY <1>8, <4>1
      <4> QED
        BY <4>1, <4>2
    <3> QED
      BY <3>1, <3>2
  <2>4. ASSUME NEW x \in u[i].parent
        PROVE  x \in rows \cup {w.row : w \in D} \cup {u[k].row : k \in 1 .. (i - 1)}
    <3>1. x \in rows \cup {w.row : w \in d} \cup {s[k].row : k \in 1 .. i}
      BY <2>1, <2>2, <2>4
    <3>2. CASE x \in {s[k].row : k \in 1 .. i}
      BY <2>3, <3>2
    <3>3. CASE x \in rows \cup {w.row : w \in d}
      BY <1>8, <3>3
    <3> QED
      BY <3>1, <3>2, <3>3
  <2> QED
    BY <2>4
<1>10. Fits(run[j].todo, run[j].done)'
  BY <1>2, <1>7, <1>8, <1>9 DEF Fits
<1>11. ASSUME NEW i \in Job, i # j PROVE Fits(run[i].todo, run[i].done)'
  BY <1>1, <1>2, <1>11 DEF WriteInv, Fits
<1> QED
  BY <1>1, <1>2, <1>10, <1>11, SameRows

LEMMA WriteCommit ==
  ASSUME WriteInv, NEW j \in Job, Commit(j)
  PROVE  WriteInv'
<1>1. RunShape' /\ \A i \in Job : Carried(i)
  BY CarriedByRuns DEF WriteInv
<1>2. rows' = rows \cup Held(j)
  BY DEF Commit, Committed
<1>3. \A i \in Job : Fits(run[i].todo, run[i].done)'
  BY <1>1, <1>2, AllCarried
<1>4. ASSUME NEW r \in Row, r \notin rows' PROVE filled'[r] = {}
  BY <1>2, <1>4 DEF Commit, Committed, WriteInv
<1> QED
  BY <1>1, <1>3, <1>4 DEF WriteInv

LEMMA WriteNext == WriteInv /\ [Next]_vars => WriteInv'
<1> SUFFICES ASSUME WriteInv, [Next]_vars PROVE WriteInv'
  OBVIOUS
<1>0. RunShape
  BY DEF WriteInv
<1>1. ASSUME RunShape', \A j \in Job : Carried(j), UNCHANGED <<rows, filled>>
      PROVE  WriteInv'
  <2>1. \A j \in Job : Fits(run[j].todo, run[j].done)'
    BY <1>1, AllCarried
  <2> QED
    BY <1>1, <2>1, SameRows
<1>2. ASSUME NEW j \in Job, Fetch(j) \/ RunStep(j) \/ PublishFails(j) \/ DatabaseFails(j)
      PROVE  WriteInv'
  <2>1. CASE Fetch(j)
    BY <2>1, WriteFetch
  <2>2. CASE Upsert(j)
    BY <2>2, WriteUpsert
  <2>3. CASE Commit(j)
    BY <2>3, WriteCommit
  <2>4. CASE Deadlock(j) \/ Announce(j) \/ Publish(j) \/ PublishFails(j) \/ DatabaseFails(j)
    <3>1. RunShape' /\ \A i \in Job : Carried(i)
      BY <1>0, <2>4, CarriedByRuns
    <3>2. UNCHANGED <<rows, filled>>
      BY <2>4 DEF Deadlock, Announce, Publish, PublishFails, DatabaseFails, tables
    <3> QED
      BY <1>1, <3>1, <3>2
  <2> QED
    BY <1>2, <2>1, <2>2, <2>3, <2>4 DEF RunStep
<1>3. CASE BeginLaunches \/ LaunchStep
  <2>1. RunShape' /\ \A i \in Job : Carried(i)
    BY <1>0, <1>3, CarriedByLaunches
  <2>2. UNCHANGED <<rows, filled>>
    BY <1>3 DEF BeginLaunches, LaunchStep, Answers, Replace, SourceFails, Blame, Praise, tables
  <2> QED
    BY <1>1, <2>1, <2>2
<1>4. CASE Crash
  <2>1. run' = [j \in Job |-> Idle] /\ UNCHANGED <<rows, filled>>
    BY <1>4 DEF Crash, tables
  <2>2. RunShape' /\ \A j \in Job : Carried(j)
    BY <2>1, IdleRun DEF RunShape, Carried, Idle
  <2> QED
    BY <1>1, <2>1, <2>2
<1>5. CASE Tick \/ (\E h \in Hook : Toggle(h)) \/ UNCHANGED vars
  <2>1. UNCHANGED <<run, rows, filled>>
    BY <1>5 DEF Tick, Toggle, vars, tables
  <2>2. RunShape' /\ \A j \in Job : Carried(j)
    BY <1>0, <2>1 DEF RunShape, Carried
  <2> QED
    BY <1>1, <2>1, <2>2
<1> QED
  BY <1>2, <1>3, <1>4, <1>5 DEF Next

\* No statement that is next in a transaction lacks a row that its foreign key
\* needs, whatever the other transactions do (upsert order of the jobs).
THEOREM ParentsAlwaysFirst == Spec => []ParentsComeFirst
<1>1. WriteInv => ParentsComeFirst
  <2> SUFFICES ASSUME WriteInv, NEW j \in Job, Writing(j)
               PROVE  Head(run[j].todo).parent \subseteq rows \cup Held(j)
    BY DEF ParentsComeFirst
  <2>1. PICK s, d : s = run[j].todo /\ d = run[j].done
    OBVIOUS
  <2>2. Fits(s, d) /\ s # <<>>
    BY <2>1 DEF WriteInv, Writing
  <2>3. s \in Seq(Statement) /\ 1 \in 1 .. Len(s) /\ Head(s) = s[1]
    BY <2>2 DEF Fits
  <2>4. s[1].parent \subseteq rows \cup {w.row : w \in d} \cup {s[k].row : k \in 1 .. (1 - 1)}
    BY <2>2, <2>3 DEF Fits
  <2>5. 1 .. (1 - 1) = {}
    OBVIOUS
  <2> QED
    BY <2>1, <2>3, <2>4, <2>5 DEF Held
<1> QED
  BY <1>1, WriteInit, WriteNext, PTL DEF Spec

\* No step of any job takes away the catalog columns of a satellite: CelesTrak's
\* upsert leaves them out of its SET clause, SATCAT's always has a value.
THEOREM CatalogSurvives == Spec => CatalogKept
<1>1. ASSUME WriteInv, [Next]_vars, NEW n \in Sat, "catalog" \in filled[<<"satellite", n>>]
      PROVE  "catalog" \in filled'[<<"satellite", n>>]
  <2>1. PICK r : r = <<"satellite", n>>
    OBVIOUS
  <2>2. r \in Row /\ r \in rows
    BY <1>1, <2>1 DEF Row, CatalogRow, WriteInv
  <2>3. ASSUME NEW j \in Job, Commit(j) PROVE "catalog" \in filled'[r]
    <3>1. CASE r \notin Held(j)
      BY <1>1, <2>1, <2>2, <2>3, <3>1 DEF Commit, Committed
    <3>2. CASE r \in Held(j)
      <4>1. PICK w : w = CHOOSE v \in run[j].done : v.row = r
        OBVIOUS
      <4>2. w \in run[j].done
        BY <3>2, <4>1 DEF Held
      <4>3. w \in Statement
        <5>1. Fits(run[j].todo, run[j].done)
          BY <1>1 DEF WriteInv
        <5>2. run[j].done \subseteq Statement
          BY <5>1 DEF Fits
        <5> QED
          BY <4>2, <5>2
      <4>4. filled'[r] = Merged(filled[r], w)
        BY <2>2, <2>3, <3>2, <4>1 DEF Commit, Committed
      <4> QED
        BY <1>1, <2>1, <4>3, <4>4 DEF Merged, Statement
    <3> QED
      BY <3>1, <3>2
  <2>4. (\E j \in Job : Commit(j)) \/ UNCHANGED filled
    BY <1>1 DEF Next, Fetch, RunStep, Upsert, Deadlock, Announce, Publish, PublishFails,
                DatabaseFails, BeginLaunches, LaunchStep, Answers, Replace, SourceFails,
                Blame, Praise, Crash, Tick, Toggle, vars, tables
  <2> QED
    BY <1>1, <2>1, <2>3, <2>4
<1>2. WriteInv /\ [Next]_vars =>
        [\A n \in Sat : "catalog" \in filled[<<"satellite", n>>]
                          => "catalog" \in filled'[<<"satellite", n>>]]_vars
  BY <1>1
<1> QED
  BY <1>2, WriteInit, WriteNext, PTL DEF Spec, CatalogKept
=============================================================================

-------------------------- MODULE SchedulerJobProofs ---------------------------
(***************************************************************************)
(* Proofs about SchedulerJob, for any replicas, times, crashes and lost    *)
(* commands.                                                               *)
(*                                                                         *)
(* The slot's value tells nobody whose it is, so the argument is about     *)
(* time: while a replica holds the slot, what is left of the lease and     *)
(* what the run has used add up to the lease at least. Runs shorter than   *)
(* the lease therefore keep the slot taken, and nobody else begins one.    *)
(*                                                                         *)
(* Health and crashes: the report, too, is made while the slot is taken    *)
(* (AloneInv), so that the row is the last run's (ToldInv). A replica that *)
(* rests wakes at most a lease and a minimal wait after the slot is free   *)
(* (NapInv), which bounds how long an interrupted run stays unrepeated     *)
(* (WokenInv).                                                             *)
(***************************************************************************)
EXTENDS SchedulerJob, FiniteSetTheorems, TLAPS

Positions == Busy \cup {"acquire", "ttl", "down"}
Loop == [pc : Positions, sleep : Int, failures : Int, ran : Nat, delay : Int]

LoopTypes == /\ loop \in [Replica -> Loop]
             /\ slot \in Nat /\ quiet \in Nat /\ lost \in Nat /\ crashes \in Nat

\* From the slot to what replaces it.
Holding == Busy \ {"report"}

\* Who holds the slot has the rest of its lease, and is alone.
LeaseInv ==
  /\ \A r \in Replica : loop[r].pc \in Holding => slot + loop[r].ran >= Lease
  /\ \A p, r \in Replica : loop[p].pc \in Holding /\ loop[r].pc \in Holding => p = r

SlotInv ==
  /\ LoopTypes
  /\ quiet <= slot
  /\ \A r \in Replica : /\ loop[r].pc \in Busy => loop[r].ran <= JobLimit
                        /\ loop[r].pc = "acquire" => loop[r].ran = 0
  /\ JobLimit < Lease => LeaseInv

LEMMA Times ==
  /\ Lease \in Nat \ {0} /\ Interval \in Nat \ {0} /\ JobLimit \in Nat
  /\ FirstRetry \in Nat /\ MinWait \in Nat /\ MaxFailures \in Nat
BY SchedulerAssumption

LEMMA FreshLoop == Fresh \in Loop /\ Fresh.pc = "acquire" /\ Fresh.ran = 0
BY DEF Fresh, Loop, Positions

LEMMA SlotInit == Init => SlotInv
<1> SUFFICES ASSUME Init PROVE SlotInv
  OBVIOUS
<1>1. \A r \in Replica : loop[r] = Fresh /\ loop[r].pc \notin Busy
  BY FreshLoop DEF Init, Busy, JobSteps
<1> QED
  BY <1>1, FreshLoop DEF Init, SlotInv, LeaseInv, LoopTypes, Holding

-----------------------------------------------------------------------------
(* What the steps of a replica do to its loop.                             *)

Others(r) == \A p \in Replica : p # r => loop'[p] = loop[p]

LEMMA GotoEffect ==
  ASSUME LoopTypes, NEW r \in Replica, NEW pc \in Positions, loop' = Goto(r, pc)
  PROVE  /\ loop' \in [Replica -> Loop] /\ Others(r)
         /\ loop'[r].pc = pc /\ loop'[r].ran = loop[r].ran
BY DEF LoopTypes, Goto, Others, Loop

LEMMA SleepEffect ==
  ASSUME LoopTypes, NEW r \in Replica, NEW s \in Int, loop' = SleepFor(r, s)
  PROVE  /\ loop' \in [Replica -> Loop] /\ Others(r)
         /\ loop'[r].pc = "acquire" /\ loop'[r].ran = 0 /\ loop'[r].sleep = s
<1> DEFINE asleep == [loop EXCEPT ![r].pc = "acquire", ![r].sleep = s]
<1>1. asleep \in [Replica -> Loop]
      /\ asleep[r].pc = "acquire" /\ asleep[r].sleep = s
      /\ \A p \in Replica : p # r => asleep[p] = loop[p]
  BY DEF LoopTypes, Loop, Positions
<1> DEFINE rest == [asleep EXCEPT ![r].ran = 0]
<1>2. loop' = [rest EXCEPT ![r].delay = 0]
  BY DEF SleepFor
<1>3. rest \in [Replica -> Loop] /\ rest[r].pc = "acquire" /\ rest[r].ran = 0
      /\ rest[r].sleep = s
      /\ \A p \in Replica : p # r => rest[p] = loop[p]
  <2> HIDE DEF asleep
  <2> QED
    BY <1>1 DEF Loop
<1> HIDE DEF rest
<1> QED
  BY <1>2, <1>3 DEF Loop, Others

LEMMA FailsEffect ==
  ASSUME LoopTypes, NEW r \in Replica, Fails(r)
  PROVE  /\ loop' \in [Replica -> Loop] /\ Others(r)
         /\ loop'[r].pc = "failed" /\ loop'[r].ran = loop[r].ran
<1> DEFINE n == Smaller(loop[r].failures + 1, MaxFailures)
<1>1. n \in Int
  BY Times DEF LoopTypes, Loop, Smaller
<1>2. PICK d \in RetryDelays(n) :
        loop' = [loop EXCEPT ![r].pc = "failed", ![r].failures = n, ![r].delay = d]
  BY DEF Fails
<1>3. d \in Int
  BY DEF RetryDelays
<1> HIDE DEF n
<1> DEFINE rec == [loop[r] EXCEPT !.pc = "failed", !.failures = n, !.delay = d]
<1>4. loop' = [loop EXCEPT ![r] = rec]
  BY <1>2 DEF LoopTypes
<1>5. rec \in Loop /\ rec.pc = "failed" /\ rec.ran = loop[r].ran
  BY <1>1, <1>3 DEF LoopTypes, Loop, Positions, Busy
<1> HIDE DEF rec
<1> QED
  BY <1>4, <1>5 DEF LoopTypes, Others

\* A step of one replica that begins no run, and shortens the slot only when
\* it ends its own.
LEMMA Stays ==
  ASSUME SlotInv, NEW r \in Replica,
         loop' \in [Replica -> Loop], Others(r), slot' \in Nat,
         quiet' \in Nat, quiet' <= slot', lost' \in Nat, crashes' \in Nat,
         loop'[r].pc \in Busy => loop[r].pc \in Busy /\ loop'[r].ran = loop[r].ran,
         loop'[r].pc \in Holding => loop[r].pc \in Holding,
         loop'[r].pc = "acquire" => loop'[r].ran = 0,
         \/ slot' >= slot
         \/ loop[r].pc \in Holding /\ loop'[r].pc \notin Holding
  PROVE  SlotInv'
<1>1. LoopTypes'
  BY DEF LoopTypes
<1>2. \A p \in Replica : /\ loop[p].ran \in Nat /\ loop'[p].ran \in Nat
                         /\ slot \in Nat /\ Lease \in Nat
  BY <1>1, Times DEF SlotInv, LoopTypes, Loop
<1>3. ASSUME JobLimit < Lease PROVE LeaseInv'
  <2>1. \A p \in Replica : loop'[p].pc \in Holding =>
          /\ loop[p].pc \in Holding /\ loop'[p].ran = loop[p].ran
          /\ slot' >= slot
    BY <1>3 DEF SlotInv, LeaseInv, Others, Holding
  <2>2. \A p \in Replica : loop'[p].pc \in Holding => slot' + loop'[p].ran >= Lease
    BY <1>2, <1>3, <2>1 DEF SlotInv, LeaseInv
  <2>3. \A p, q \in Replica : loop'[p].pc \in Holding /\ loop'[q].pc \in Holding => p = q
    BY <1>3, <2>1 DEF SlotInv, LeaseInv
  <2> QED
    BY <2>2, <2>3 DEF LeaseInv
<1>4. \A p \in Replica : /\ loop'[p].pc \in Busy => loop'[p].ran <= JobLimit
                         /\ loop'[p].pc = "acquire" => loop'[p].ran = 0
  BY DEF SlotInv, Others
<1> QED
  BY <1>1, <1>3, <1>4 DEF SlotInv

-----------------------------------------------------------------------------
(* The steps.                                                              *)

\* Runs shorter than the lease keep the slot taken.
LEMMA AcquireKeeps ==
  ASSUME SlotInv, NEW r \in Replica, AcquireSlot(r)
  PROVE  SlotInv'
<1>1. /\ LoopTypes /\ loop[r].pc = "acquire" /\ loop[r].ran = 0
      /\ UNCHANGED <<quiet, crashes>>
  BY DEF SlotInv, AcquireSlot, history
<1>2. CASE Works /\ slot = 0 /\ slot' = Granted /\ loop' = Goto(r, "fetch")
  <2>1. /\ loop' \in [Replica -> Loop] /\ Others(r)
        /\ loop'[r].pc = "fetch" /\ loop'[r].ran = 0
    BY <1>1, <1>2, GotoEffect DEF Positions, Busy, JobSteps
  <2>2. slot' = Lease /\ slot' \in Nat /\ lost' \in Nat
    BY <1>1, <1>2, Times DEF Granted, Works, LoopTypes
  <2>3. LoopTypes' /\ quiet' <= slot'
    BY <1>1, <1>2, <2>1, <2>2 DEF SlotInv, LoopTypes
  <2>4. ASSUME JobLimit < Lease PROVE LeaseInv'
    <3>1. ASSUME NEW p \in Replica, loop[p].pc \in Holding PROVE FALSE
      <4>1. /\ slot + loop[p].ran >= Lease /\ loop[p].ran <= JobLimit
            /\ loop[p].ran \in Nat /\ slot = 0
        BY <1>2, <2>4, <3>1 DEF SlotInv, LeaseInv, LoopTypes, Loop, Holding
      <4> QED
        BY <2>4, <4>1, Times
    <3>2. \A p \in Replica : loop'[p].pc \in Holding => p = r
      BY <2>1, <3>1 DEF Others
    <3>3. \A p \in Replica : loop'[p].pc \in Holding => slot' + loop'[p].ran >= Lease
      BY <2>1, <2>2, <3>2, Times
    <3> QED
      BY <3>2, <3>3 DEF LeaseInv
  <2>5. \A p \in Replica : /\ loop'[p].pc \in Busy => loop'[p].ran <= JobLimit
                           /\ loop'[p].pc = "acquire" => loop'[p].ran = 0
    BY <2>1, Times DEF SlotInv, Others
  <2> QED
    BY <2>3, <2>4, <2>5 DEF SlotInv
<1>3. CASE Works /\ slot' = slot /\ loop' = Goto(r, "ttl")
  <2>1. /\ loop' \in [Replica -> Loop] /\ Others(r) /\ loop'[r].pc = "ttl"
    BY <1>1, <1>3, GotoEffect DEF Positions
  <2> QED
    BY <1>1, <1>3, <2>1, Stays DEF SlotInv, Works, LoopTypes, Busy, JobSteps, Holding
<1>4. CASE /\ Raises /\ slot' \in {slot, IF slot = 0 THEN Granted ELSE slot}
           /\ loop' = SleepFor(r, FirstRetry)
  <2>1. /\ loop' \in [Replica -> Loop] /\ Others(r)
        /\ loop'[r].pc = "acquire" /\ loop'[r].ran = 0
    BY <1>1, <1>4, Times, SleepEffect
  <2>2. slot' \in Nat /\ slot' >= slot
    BY <1>1, <1>4, Times DEF Granted, LoopTypes
  <2>3. quiet' <= slot'
    BY <1>1, <2>2 DEF SlotInv, LoopTypes
  <2> QED
    BY <1>1, <1>4, <2>1, <2>2, <2>3, Stays DEF Raises, LoopTypes, Busy, JobSteps, Holding
<1> QED
  BY <1>2, <1>3, <1>4 DEF AcquireSlot

\* A lost command or write is counted.
LEMMA LostIsCounted ==
  ASSUME LoopTypes, Works \/ Raises
  PROVE  lost' \in Nat
BY DEF LoopTypes, Works, Raises

LEMMA TTLKeeps ==
  ASSUME SlotInv, NEW r \in Replica, ReadTTL(r)
  PROVE  SlotInv'
<1>1. /\ LoopTypes /\ UNCHANGED <<slot, quiet, crashes>> /\ lost' \in Nat
  BY LostIsCounted DEF SlotInv, ReadTTL, history
<1>2. /\ loop' \in [Replica -> Loop] /\ Others(r)
      /\ loop'[r].pc = "acquire" /\ loop'[r].ran = 0
  <2>1. Larger(slot, MinWait) \in Int /\ FirstRetry \in Int
    BY <1>1, Times DEF LoopTypes, Larger
  <2> QED
    BY <1>1, <2>1, SleepEffect DEF ReadTTL
<1> QED
  BY <1>1, <1>2, Stays DEF SlotInv, LoopTypes, Busy, JobSteps, Holding

\* Steps within a run: the slot stays as it is.
LEMMA RunKeeps ==
  ASSUME SlotInv, NEW r \in Replica,
         JobFetches(r) \/ JobCommits(r) \/ ReportFailure(r) \/ PublishDegraded(r)
  PROVE  SlotInv'
<1>1. /\ LoopTypes /\ loop[r].pc \in Holding /\ loop[r].pc \in Busy
      /\ UNCHANGED <<slot, quiet, crashes>> /\ lost' \in Nat
  BY LostIsCounted
     DEF SlotInv, LoopTypes, JobFetches, JobCommits, ReportFailure, PublishDegraded,
         WriteHealth, history, Holding, Busy, JobSteps
<1>2. \/ Fails(r)
      \/ \E pc \in {"commit", "hold_interval", "publish", "hold_retry"} : loop' = Goto(r, pc)
  BY DEF JobFetches, JobCommits, ReportFailure, PublishDegraded
<1>3. /\ loop' \in [Replica -> Loop] /\ Others(r)
      /\ loop'[r].ran = loop[r].ran /\ loop'[r].pc \in Holding
  <2>1. CASE Fails(r)
    BY <1>1, <2>1, FailsEffect DEF Holding, Busy, JobSteps
  <2>2. ASSUME NEW pc \in {"commit", "hold_interval", "publish", "hold_retry"}, loop' = Goto(r, pc)
        PROVE  /\ loop' \in [Replica -> Loop] /\ Others(r)
               /\ loop'[r].ran = loop[r].ran /\ loop'[r].pc \in Holding
    BY <1>1, <2>2, GotoEffect DEF Positions, Holding, Busy, JobSteps
  <2> QED
    BY <1>2, <2>1, <2>2
<1>4. loop'[r].pc # "acquire"
  BY <1>3 DEF Holding, Busy, JobSteps
<1>5. /\ slot' \in Nat /\ slot' >= slot /\ crashes' \in Nat
      /\ quiet' \in Nat /\ quiet' <= slot'
  BY <1>1 DEF SlotInv, LoopTypes
<1> QED
  BY <1>1, <1>3, <1>4, <1>5, Stays

\* A replica's step moves its own loop only.
LEMMA OneMoves ==
  ASSUME LoopTypes, NEW r \in Replica, LoopStep(r) \/ Crash(r) \/ Restart(r)
  PROVE  Others(r)
<1>1. \/ \E pc : loop' = Goto(r, pc)
      \/ \E s : loop' = SleepFor(r, s)
      \/ Fails(r)
      \/ loop' = [Goto(r, "report") EXCEPT ![r].failures = 0]
      \/ \E state : loop' = [loop EXCEPT ![r] = state]
  BY DEF LoopStep, AcquireSlot, ReadTTL, JobFetches, JobCommits, ReportFailure, PublishDegraded,
         HoldRetry, HoldInterval, ReportSuccess, Crash, Restart
<1> QED
  BY <1>1 DEF LoopTypes, Others, Goto, SleepFor, Fails

\* The slot is overwritten, or the command was lost.
LEMMA SetSlotEffect ==
  ASSUME SlotInv, NEW seconds \in Int, SetSlot(seconds)
  PROVE  slot' \in Nat /\ quiet' \in Nat /\ quiet' <= slot' /\ lost' \in Nat
BY DEF SlotInv, LoopTypes, SetSlot, Hold, Larger, Works, Raises

\* The run is over, the slot another's.
LEMMA HoldKeeps ==
  ASSUME SlotInv, NEW r \in Replica, HoldRetry(r) \/ HoldInterval(r)
  PROVE  SlotInv'
<1>1. LoopTypes /\ loop[r].pc \in {"hold_retry", "hold_interval"} /\ crashes' = crashes
  BY DEF SlotInv, HoldRetry, HoldInterval
<1>2. loop[r].delay \in Int /\ Interval \in Int /\ loop[r].ran \in Nat
  BY <1>1, Times DEF LoopTypes, Loop
<1>3. /\ slot' \in Nat /\ quiet' \in Nat /\ quiet' <= slot'
      /\ lost' \in Nat /\ crashes' \in Nat
  BY <1>1, <1>2, SetSlotEffect DEF HoldRetry, HoldInterval, LoopTypes
<1>4. /\ loop' \in [Replica -> Loop] /\ Others(r)
      /\ \/ loop'[r].pc = "acquire" /\ loop'[r].ran = 0
         \/ loop'[r].pc = "report" /\ loop'[r].ran = loop[r].ran
  <2>1. CASE loop' = SleepFor(r, loop[r].delay)
    BY <1>1, <1>2, <2>1, SleepEffect
  <2>2. CASE loop' = [Goto(r, "report") EXCEPT ![r].failures = 0]
    <3> DEFINE done == Goto(r, "report")
    <3>1. /\ done \in [Replica -> Loop]
          /\ done[r].pc = "report" /\ done[r].ran = loop[r].ran
          /\ \A p \in Replica : p # r => done[p] = loop[p]
      BY <1>1 DEF LoopTypes, Goto, Loop, Positions, Busy
    <3> HIDE DEF done
    <3> QED
      BY <2>2, <3>1 DEF done, Others, Loop
  <2> QED
    BY <2>1, <2>2 DEF HoldRetry, HoldInterval
<1>5. /\ loop[r].pc \in Holding /\ loop[r].pc \in Busy
      /\ loop'[r].pc \notin Holding
      /\ loop'[r].pc \in Busy => loop'[r].ran = loop[r].ran
  BY <1>1, <1>4 DEF Holding, Busy, JobSteps
<1>6. loop'[r].pc = "acquire" => loop'[r].ran = 0
  BY <1>4
<1> QED
  BY <1>3, <1>4, <1>5, <1>6, Stays

\* A replica that reports its success, stops or starts.
LEMMA EndKeeps ==
  ASSUME SlotInv, NEW r \in Replica, ReportSuccess(r) \/ Crash(r) \/ Restart(r)
  PROVE  SlotInv'
<1>1. LoopTypes /\ UNCHANGED <<slot, quiet>>
  BY DEF SlotInv, ReportSuccess, Crash, Restart, history
<1>2. lost' \in Nat /\ crashes' \in Nat
  BY <1>1, LostIsCounted
     DEF LoopTypes, ReportSuccess, Crash, Restart, WriteHealth
<1>3. /\ loop' \in [Replica -> Loop] /\ Others(r)
      /\ loop'[r].pc \in {"acquire", "down"}
      /\ loop'[r].pc = "acquire" => loop'[r].ran = 0
  <2>1. CASE ReportSuccess(r)
    BY <1>1, <2>1, Times, SleepEffect DEF ReportSuccess
  <2>2. CASE Crash(r)
    BY <1>1, <2>2, FreshLoop DEF Crash, LoopTypes, Others, Loop, Positions
  <2>3. CASE Restart(r)
    BY <1>1, <2>3, FreshLoop DEF Restart, LoopTypes, Others
  <2> QED
    BY <2>1, <2>2, <2>3
<1>4. loop'[r].pc \notin Busy /\ loop'[r].pc \notin Holding
  BY <1>3 DEF Holding, Busy, JobSteps
<1>5. slot' \in Nat /\ slot' >= slot /\ quiet' \in Nat /\ quiet' <= slot'
  BY <1>1 DEF SlotInv, LoopTypes
<1> QED
  BY <1>2, <1>3, <1>4, <1>5, Stays

\* What a second does to the loops and the slot.
LEMMA TickEffect ==
  ASSUME LoopTypes, Tick
  PROVE  /\ LoopTypes'
         /\ slot' >= slot - 1 /\ slot' <= slot
         /\ quiet <= slot => quiet' <= slot'
         /\ \A r \in Replica : /\ loop'[r].pc = loop[r].pc
                               /\ loop[r].pc \in Busy =>
                                    /\ loop[r].ran < JobLimit
                                    /\ loop'[r].ran = loop[r].ran + 1
                               /\ loop[r].pc = "acquire" => loop'[r].ran = 0
<1>1. /\ slot' = Down(slot) /\ quiet' = Down(quiet)
      /\ UNCHANGED <<crashes, lost>>
  BY DEF Tick
<1>2. /\ slot' \in Nat /\ quiet' \in Nat /\ lost' \in Nat /\ crashes' \in Nat
      /\ slot' >= slot - 1 /\ slot' <= slot
      /\ quiet <= slot => quiet' <= slot'
  BY <1>1 DEF LoopTypes, Down
<1>3. ASSUME NEW r \in Replica
      PROVE  /\ loop'[r] \in Loop
             /\ loop'[r].pc = loop[r].pc
             /\ loop[r].pc \in Busy => /\ loop[r].ran < JobLimit
                                       /\ loop'[r].ran = loop[r].ran + 1
             /\ loop[r].pc = "acquire" => loop'[r].ran = 0
  <2> DEFINE awake == [loop[r] EXCEPT !.sleep = Down(@)]
  <2>1. Down(loop[r].sleep) \in Int /\ loop[r] \in Loop
    BY DEF LoopTypes, Loop, Down
  <2>2. awake \in Loop /\ awake.pc = loop[r].pc /\ awake.ran = loop[r].ran
    BY <2>1 DEF Loop
  <2>3. loop'[r] = [awake EXCEPT !.ran = IF loop[r].pc \in Busy \cup {"ttl"}
                                           THEN @ + 1 ELSE 0]
    BY DEF Tick
  <2>4. loop[r].pc \in Busy => loop[r].ran < JobLimit
    BY DEF Tick
  <2>5. loop[r].pc = "acquire" => loop[r].pc \notin Busy \cup {"ttl"}
    BY DEF Busy, JobSteps
  <2> HIDE DEF awake
  <2> QED
    BY <2>2, <2>3, <2>4, <2>5 DEF Loop
<1>4. loop' \in [Replica -> Loop]
  <2>1. DOMAIN loop' = Replica /\ loop' = [r \in Replica |-> loop'[r]]
    BY DEF Tick
  <2> QED
    BY <1>3, <2>1
<1> QED
  BY <1>2, <1>3, <1>4 DEF LoopTypes

LEMMA TickKeeps ==
  ASSUME SlotInv, Tick
  PROVE  SlotInv'
<1>1. /\ LoopTypes /\ LoopTypes'
      /\ slot' >= slot - 1 /\ quiet' <= slot'
      /\ \A r \in Replica : /\ loop'[r].pc = loop[r].pc
                            /\ loop[r].pc \in Busy => /\ loop[r].ran < JobLimit
                                                      /\ loop'[r].ran = loop[r].ran + 1
                            /\ loop[r].pc = "acquire" => loop'[r].ran = 0
  BY TickEffect DEF SlotInv
<1>2. \A r \in Replica : loop[r].ran \in Nat /\ slot \in Nat /\ slot' \in Nat
  BY <1>1 DEF LoopTypes, Loop
<1>3. \A r \in Replica : /\ loop'[r].pc \in Busy => loop'[r].ran <= JobLimit
                         /\ loop'[r].pc = "acquire" => loop'[r].ran = 0
  BY <1>1, <1>2, Times
<1>4. ASSUME JobLimit < Lease PROVE LeaseInv'
  <2>1. ASSUME NEW r \in Replica, loop'[r].pc \in Holding
        PROVE  slot' + loop'[r].ran >= Lease
    <3>1. loop[r].pc \in Busy /\ slot + loop[r].ran >= Lease
      BY <1>1, <1>4, <2>1 DEF SlotInv, LeaseInv, Holding
    <3> QED
      BY <1>1, <1>2, <3>1, Times
  <2>2. \A p, r \in Replica : loop'[p].pc \in Holding /\ loop'[r].pc \in Holding => p = r
    BY <1>1, <1>4 DEF SlotInv, LeaseInv
  <2> QED
    BY <2>1, <2>2 DEF LeaseInv
<1> QED
  BY <1>1, <1>3, <1>4 DEF SlotInv

LEMMA SlotStep == SlotInv /\ [Next]_vars => SlotInv'
<1> SUFFICES ASSUME SlotInv, [Next]_vars PROVE SlotInv'
  OBVIOUS
<1>1. ASSUME NEW r \in Replica, LoopStep(r) PROVE SlotInv'
  BY <1>1, AcquireKeeps, TTLKeeps, RunKeeps, HoldKeeps, EndKeeps DEF LoopStep
<1>2. CASE UNCHANGED vars
  BY <1>2 DEF vars, SlotInv, LeaseInv, LoopTypes
<1> QED
  BY <1>1, <1>2, TickKeeps, EndKeeps DEF Next

-----------------------------------------------------------------------------
(* Theorems.                                                               *)

\* The slot is never freed before the last executed hold asked, and holds the
\* rest of the lease of the only replica that runs the job.
THEOREM SlotInvariant == Spec => []SlotInv
BY SlotInit, SlotStep, PTL DEF Spec

\* One replica at a time runs a job whose runs are shorter than the lease
\* (_acquire_slot, _RUNNING_LEASE_SECONDS).
THEOREM OneRunner == ASSUME JobLimit < Lease PROVE Spec => []SingleRunner
<1>1. ASSUME SlotInv PROVE SingleRunner
  <2> DEFINE Runners == {r \in Replica : loop[r].pc \in JobSteps}
  <2>1. \A p, r \in Runners : p = r
    BY <1>1 DEF SlotInv, LeaseInv, Holding, Busy, JobSteps
  <2>2. CASE Runners = {}
    BY <2>2, FS_EmptySet DEF SingleRunner
  <2>3. CASE Runners # {}
    <3>1. PICK r \in Runners : TRUE
      BY <2>3
    <3>2. Runners = {r}
      BY <2>1, <3>1
    <3> QED
      BY <3>2, FS_Singleton DEF SingleRunner
  <2> QED
    BY <2>2, <2>3
<1> QED
  BY <1>1, SlotInvariant, PTL

\* No replica begins a run that the last finisher wanted later, whatever
\* leases ended, replicas crashed and commands were lost (_hold_slot).
THEOREM RunsArePaced == Spec => StartsArePaced
<1>1. SlotInv /\ [Next]_vars => [\A r \in Replica : StartsRun(r) => quiet = 0]_vars
  <2> SUFFICES ASSUME SlotInv, Next, NEW r \in Replica, StartsRun(r) PROVE quiet = 0
    BY DEF StartsRun
  <2>1. loop[r].pc = "acquire" /\ loop'[r].pc = "fetch" /\ LoopTypes
    BY DEF StartsRun, SlotInv
  <2>2. ~Tick
    BY <2>1, TickEffect
  <2>3. ASSUME NEW p \in Replica, LoopStep(p) \/ Crash(p) \/ Restart(p) PROVE p = r
    BY <2>1, <2>3, OneMoves DEF Others
  <2>4. AcquireSlot(r)
    <3>1. ~Crash(r) /\ ~Restart(r)
      BY <2>1, FreshLoop DEF Crash, Restart, LoopTypes, Loop
    <3>2. LoopStep(r)
      BY <2>2, <2>3, <3>1 DEF Next
    <3>3. ~ReadTTL(r) /\ ~JobFetches(r) /\ ~JobCommits(r) /\ ~ReportFailure(r)
          /\ ~PublishDegraded(r) /\ ~HoldRetry(r) /\ ~HoldInterval(r) /\ ~ReportSuccess(r)
      BY <2>1 DEF ReadTTL, JobFetches, JobCommits, ReportFailure, PublishDegraded, HoldRetry,
                  HoldInterval, ReportSuccess
    <3> QED
      BY <3>2, <3>3 DEF LoopStep
  <2>5. slot = 0
    <3>1. loop' # Goto(r, "ttl") /\ loop' # SleepFor(r, FirstRetry)
      BY <2>1, Times, GotoEffect, SleepEffect DEF Positions
    <3> QED
      BY <2>4, <3>1 DEF AcquireSlot
  <2> QED
    BY <2>5 DEF SlotInv, LoopTypes
<1> QED
  BY <1>1, SlotInvariant, PTL DEF Spec, StartsArePaced

-----------------------------------------------------------------------------
(* The health row, while nothing crashed and no command was lost.          *)

\* The report of a success ends within the interval, and so nobody runs
\* before it.
AloneInv ==
  /\ \A r \in Replica : loop[r].pc = "report" => slot + loop[r].ran >= Interval
  /\ \A p, r \in Replica : loop[p].pc \in Busy /\ loop[r].pc \in Busy => p = r

ToldInv ==
  /\ \A r \in Replica : /\ loop[r].pc = "report" => ~broken
                        /\ loop[r].pc \in {"publish", "hold_retry"} => health = "error"
                        /\ loop[r].pc = "hold_retry" => announced
                        /\ loop[r].pc \in {"commit", "hold_interval", "report"} => ~announced
  /\ (\A r \in Replica : loop[r].pc \notin Busy) =>
       (health = "error" <=> broken) /\ (announced <=> broken)

HealthInv == SlotInv /\ (crashes = 0 /\ lost = 0 => AloneInv /\ ToldInv)

LEMMA HealthInit == Init => HealthInv
<1> SUFFICES ASSUME Init PROVE HealthInv
  OBVIOUS
<1>1. \A r \in Replica : loop[r].pc = "acquire"
  BY FreshLoop DEF Init
<1> QED
  BY <1>1, SlotInit DEF Init, HealthInv, AloneInv, ToldInv, Busy, JobSteps

\* Crashes and losses are counted and never forgotten.
LEMMA NothingLost ==
  ASSUME HealthInv, [Next]_vars, crashes' = 0, lost' = 0
  PROVE  LoopTypes /\ crashes = 0 /\ lost = 0 /\ AloneInv /\ ToldInv
<1>1. LoopTypes
  BY DEF HealthInv, SlotInv
<1>2. crashes' = crashes \/ crashes' = crashes + 1
  BY DEF Next, LoopStep, AcquireSlot, ReadTTL, JobFetches, JobCommits,
      ReportFailure, PublishDegraded, HoldRetry, HoldInterval, ReportSuccess, Crash, Restart,
      Tick, vars
<1>3. lost' = lost \/ Works \/ Raises
  BY DEF Next, LoopStep, AcquireSlot, ReadTTL, JobFetches, JobCommits, WriteHealth, SetSlot,
      ReportFailure, PublishDegraded, HoldRetry, HoldInterval, ReportSuccess, Crash, Restart,
      Tick, vars
<1> QED
  BY <1>1, <1>2, <1>3 DEF HealthInv, LoopTypes, Works, Raises

\* A step of one replica that begins no run.
LEMMA StaysAlone ==
  ASSUME AloneInv, LoopTypes, NEW r \in Replica, Others(r), slot' \in Nat,
         loop'[r].pc \in Busy => loop[r].pc \in Busy,
         loop'[r].pc = "report" => slot' + loop'[r].ran >= Interval,
         slot' = slot \/ loop[r].pc \in Busy
  PROVE  AloneInv'
<1>1. ASSUME NEW p \in Replica, p # r, loop'[p].pc \in Busy
      PROVE  loop[p].pc \in Busy /\ loop'[p] = loop[p] /\ slot' = slot
  BY <1>1 DEF AloneInv, Others
<1>2. \A p \in Replica : loop'[p].pc = "report" => slot' + loop'[p].ran >= Interval
  BY <1>1 DEF AloneInv, Busy
<1>3. \A p, q \in Replica : loop'[p].pc \in Busy /\ loop'[q].pc \in Busy => p = q
  BY <1>1 DEF AloneInv
<1> QED
  BY <1>2, <1>3 DEF AloneInv

\* Nobody runs, nor reports, when the slot is free.
LEMMA FreeSlot ==
  ASSUME JobLimit < Lease, JobLimit < Interval, SlotInv, AloneInv, slot = 0,
         NEW r \in Replica
  PROVE  loop[r].pc \notin Busy
<1> SUFFICES ASSUME loop[r].pc \in Busy PROVE FALSE
  OBVIOUS
<1>1. loop[r].ran \in Nat /\ loop[r].ran <= JobLimit
  BY DEF SlotInv, LoopTypes, Loop
<1>2. CASE loop[r].pc = "report"
  BY <1>1, <1>2, Times DEF AloneInv
<1>3. CASE loop[r].pc # "report"
  BY <1>1, <1>3, Times DEF SlotInv, LeaseInv, Holding
<1> QED
  BY <1>2, <1>3

\* A replica between two runs moves.
LEMMA StillTold ==
  ASSUME LoopTypes, AloneInv, ToldInv, NEW r \in Replica, Others(r),
         loop[r].pc \notin Busy, loop'[r].pc \notin Busy, slot' = slot,
         UNCHANGED <<health, broken, announced>>
  PROVE  AloneInv' /\ ToldInv'
<1>1. loop'[r].pc \notin {"commit", "publish", "hold_retry", "hold_interval", "report"}
  BY DEF Busy, JobSteps
<1>2. AloneInv'
  BY <1>1, StaysAlone DEF LoopTypes
<1>3. (\A p \in Replica : loop'[p].pc \notin Busy) => (\A p \in Replica : loop[p].pc \notin Busy)
  BY DEF Others
<1>4. ToldInv'
  BY <1>1, <1>3 DEF ToldInv, Others
<1> QED
  BY <1>2, <1>4

LEMMA RunStartTold ==
  ASSUME JobLimit < Lease, JobLimit < Interval, SlotInv, AloneInv, ToldInv,
         NEW r \in Replica, AcquireSlot(r), lost' = lost
  PROVE  AloneInv' /\ ToldInv'
<1>1. LoopTypes /\ loop[r].pc = "acquire" /\ UNCHANGED <<health, broken, announced>>
  BY DEF SlotInv, AcquireSlot, history
<1>2. Others(r)
  BY <1>1, OneMoves DEF LoopStep
<1>3. ~Raises
  BY <1>1 DEF Raises, LoopTypes
<1>4. CASE slot = 0 /\ loop' = Goto(r, "fetch")
  <2>1. loop'[r].pc = "fetch"
    BY <1>1, <1>4, GotoEffect DEF Positions, Busy, JobSteps
  <2>2. \A p \in Replica : loop'[p].pc \in Busy => p = r
    BY <1>2, <1>4, FreeSlot DEF Others
  <2>3. AloneInv'
    BY <2>1, <2>2 DEF AloneInv, Busy
  <2>4. ToldInv'
    BY <2>1, <2>2 DEF ToldInv, Busy, JobSteps
  <2> QED
    BY <2>3, <2>4
<1>5. CASE slot' = slot /\ loop' = Goto(r, "ttl")
  <2>1. loop'[r].pc = "ttl"
    BY <1>1, <1>5, GotoEffect DEF Positions
  <2>2. loop'[r].pc \notin Busy /\ loop[r].pc \notin Busy
    BY <1>1, <2>1 DEF Busy, JobSteps
  <2> QED
    BY <1>1, <1>2, <1>5, <2>1, <2>2, StillTold
<1> QED
  BY <1>3, <1>4, <1>5 DEF AcquireSlot

\* Within the run of the only busy replica.
LEMMA RunTold ==
  ASSUME SlotInv, AloneInv, ToldInv, NEW r \in Replica,
         JobFetches(r) \/ JobCommits(r) \/ ReportFailure(r) \/ PublishDegraded(r), lost' = lost
  PROVE  AloneInv' /\ ToldInv'
<1>1. /\ LoopTypes /\ loop[r].pc \in Busy /\ UNCHANGED <<slot, broken>>
  BY DEF SlotInv, JobFetches, JobCommits, ReportFailure, PublishDegraded, Busy, JobSteps, history
<1>2. Others(r)
  BY <1>1, OneMoves DEF LoopStep
<1>3. /\ loop'[r].pc \in {"failed", "commit", "hold_interval", "publish", "hold_retry"}
      /\ loop'[r].pc \in {"publish", "hold_retry"} => health' = "error"
      /\ loop'[r].pc = "hold_retry" => announced'
      /\ loop'[r].pc \in {"commit", "hold_interval"} => ~announced'
  <2>1. CASE JobFetches(r) \/ JobCommits(r)
    <3>1. Fails(r) \/ \E pc \in {"commit", "hold_interval"} : loop' = Goto(r, pc)
      BY <2>1 DEF JobFetches, JobCommits
    <3>2. loop'[r].pc \in {"failed", "commit", "hold_interval"}
      BY <1>1, <3>1, FailsEffect, GotoEffect DEF Positions, Busy, JobSteps
    <3>3. JobFetches(r) => ~announced'
      BY DEF JobFetches
    <3>4. JobCommits(r) => loop[r].pc = "commit" /\ announced' = announced
      BY DEF JobCommits, history
    <3>5. ~announced'
      BY <2>1, <3>3, <3>4 DEF ToldInv
    <3> QED
      BY <3>2, <3>5
  <2>2. CASE ReportFailure(r)
    <3>1. ~Raises
      BY <1>1 DEF Raises, LoopTypes
    <3> QED
      BY <1>1, <2>2, <3>1, GotoEffect
         DEF ReportFailure, WriteHealth, Positions, Busy, JobSteps
  <2>3. CASE PublishDegraded(r)
    <3>1. ~Raises
      BY <1>1 DEF Raises, LoopTypes
    <3>2. loop[r].pc = "publish" /\ health' = health /\ announced' /\ loop' = Goto(r, "hold_retry")
      BY <2>3, <3>1 DEF PublishDegraded
    <3>3. loop'[r].pc = "hold_retry"
      BY <1>1, <3>2, GotoEffect DEF Positions, Busy, JobSteps
    <3> QED
      BY <3>2, <3>3 DEF ToldInv
  <2> QED
    BY <2>1, <2>2, <2>3
<1>4. loop'[r].pc \in Busy /\ loop'[r].pc # "report"
  BY <1>3 DEF Busy, JobSteps
<1>5. AloneInv'
  BY <1>1, <1>2, <1>4, StaysAlone DEF LoopTypes
<1>6. \A p \in Replica : p # r => loop'[p].pc \notin Busy
  BY <1>4, <1>5 DEF AloneInv
<1>7. ToldInv'
  BY <1>3, <1>4, <1>6 DEF ToldInv, Busy, JobSteps
<1> QED
  BY <1>5, <1>7

\* The run ends, and its slot and health are set in the order of the code.
LEMMA EndTold ==
  ASSUME SlotInv, AloneInv, ToldInv, NEW r \in Replica,
         HoldRetry(r) \/ HoldInterval(r) \/ ReportSuccess(r), lost' = lost
  PROVE  AloneInv' /\ ToldInv'
<1>1. /\ LoopTypes /\ loop[r].pc \in Busy
      /\ \A p \in Replica : p # r => loop[p].pc \notin Busy
  <2>1. LoopTypes /\ loop[r].pc \in Busy
    BY DEF SlotInv, HoldRetry, HoldInterval, ReportSuccess, Busy, JobSteps
  <2> QED
    BY <2>1 DEF AloneInv
<1>2. Others(r)
  BY <1>1, OneMoves DEF LoopStep
<1>3. ~Raises
  BY <1>1 DEF Raises, LoopTypes
<1>4. loop[r].delay \in Int /\ loop[r].ran \in Nat
  BY <1>1 DEF LoopTypes, Loop
<1>5. slot' \in Nat
  BY <1>1, <1>4, Times, SetSlotEffect
     DEF HoldRetry, HoldInterval, ReportSuccess, LoopTypes, history
<1>6. CASE HoldRetry(r) \/ ReportSuccess(r)
  <2>1. loop'[r].pc = "acquire"
    BY <1>1, <1>4, <1>6, Times, SleepEffect DEF HoldRetry, ReportSuccess
  <2>2. \A p \in Replica : loop'[p].pc \notin Busy
    BY <1>1, <1>2, <2>1 DEF Others, Busy, JobSteps
  <2>3. (health' = "error" <=> broken') /\ (announced' <=> broken')
    <3>1. CASE HoldRetry(r)
      BY <3>1 DEF HoldRetry, ToldInv
    <3>2. CASE ReportSuccess(r)
      BY <1>3, <3>2 DEF ReportSuccess, WriteHealth, ToldInv, history
    <3> QED
      BY <1>6, <3>1, <3>2
  <2>4. AloneInv'
    BY <2>2 DEF AloneInv, Busy
  <2>5. ToldInv'
    BY <2>2, <2>3 DEF ToldInv, Busy, JobSteps
  <2> QED
    BY <2>4, <2>5
<1>7. CASE HoldInterval(r)
  <2>1. slot' >= Interval /\ ~broken' /\ ~announced'
    <3>1. slot' >= Interval /\ ~broken'
      BY <1>3, <1>7, Times DEF HoldInterval, SetSlot, Hold, Larger
    <3>2. ~announced'
      BY <1>7 DEF HoldInterval, ToldInv
    <3> QED
      BY <3>1, <3>2
  <2>2. loop'[r].pc = "report" /\ loop'[r].ran = loop[r].ran
    BY <1>1, <1>7 DEF HoldInterval, Goto, LoopTypes, Loop
  <2>3. AloneInv'
    BY <1>1, <1>2, <1>4, <1>5, <2>1, <2>2, Times, StaysAlone
  <2>4. \A p \in Replica : p # r => loop'[p].pc \notin Busy
    BY <1>1, <1>2 DEF Others
  <2>5. ToldInv'
    BY <2>1, <2>2, <2>4 DEF ToldInv, Busy
  <2> QED
    BY <2>3, <2>5
<1> QED
  BY <1>6, <1>7

LEMMA TickTold ==
  ASSUME SlotInv, AloneInv, ToldInv, Tick
  PROVE  AloneInv' /\ ToldInv'
<1>1. /\ LoopTypes /\ LoopTypes' /\ slot' >= slot - 1
      /\ UNCHANGED <<health, broken, announced>>
      /\ \A r \in Replica : /\ loop'[r].pc = loop[r].pc
                            /\ loop[r].pc \in Busy => loop'[r].ran = loop[r].ran + 1
  BY TickEffect DEF SlotInv, Tick
<1>2. ASSUME NEW r \in Replica, loop'[r].pc = "report"
      PROVE  slot' + loop'[r].ran >= Interval
  <2>1. slot + loop[r].ran >= Interval /\ loop[r].pc \in Busy
    BY <1>1, <1>2 DEF AloneInv, Busy
  <2>2. loop[r].ran \in Nat /\ slot \in Nat /\ slot' \in Nat
    BY <1>1 DEF LoopTypes, Loop
  <2> QED
    BY <1>1, <2>1, <2>2, Times
<1> QED
  BY <1>1, <1>2 DEF AloneInv, ToldInv

LEMMA HealthStep ==
  ASSUME JobLimit < Lease, JobLimit < Interval, HealthInv, [Next]_vars
  PROVE  HealthInv'
<1>1. SlotInv'
  BY SlotStep DEF HealthInv
<1>2. ASSUME crashes' = 0, lost' = 0 PROVE AloneInv' /\ ToldInv'
  <2>1. SlotInv /\ LoopTypes /\ crashes = 0 /\ lost = 0 /\ AloneInv /\ ToldInv
    BY <1>2, NothingLost DEF HealthInv
  <2>2. ASSUME NEW r \in Replica, LoopStep(r) PROVE AloneInv' /\ ToldInv'
    <3>1. CASE ReadTTL(r)
      <4>1. Others(r)
        BY <2>1, <2>2, OneMoves
      <4>2. loop[r].pc = "ttl" /\ loop'[r].pc = "acquire"
            /\ UNCHANGED <<slot, health, broken, announced>>
        <5>1. Larger(slot, MinWait) \in Int
          BY <2>1, Times DEF Larger, LoopTypes
        <5> QED
          BY <2>1, <3>1, <5>1, Times, SleepEffect DEF ReadTTL, history
      <4> QED
        BY <2>1, <4>1, <4>2, StillTold DEF Busy, JobSteps
    <3> QED
      BY <1>2, <2>1, <2>2, <3>1, RunStartTold, RunTold, EndTold DEF LoopStep
  <2>3. ASSUME NEW r \in Replica, Crash(r) PROVE FALSE
    BY <1>2, <2>1, <2>3 DEF Crash
  <2>4. ASSUME NEW r \in Replica, Restart(r) PROVE AloneInv' /\ ToldInv'
    <3>1. Others(r)
      BY <2>1, <2>4, OneMoves
    <3>2. loop[r].pc = "down" /\ loop'[r].pc = "acquire"
          /\ UNCHANGED <<slot, health, broken, announced>>
      BY <2>1, <2>4, FreshLoop DEF Restart, LoopTypes, history
    <3> QED
      BY <2>1, <3>1, <3>2, StillTold DEF Busy, JobSteps
  <2>5. CASE UNCHANGED vars
    BY <2>1, <2>5 DEF vars, AloneInv, ToldInv
  <2> QED
    BY <2>1, <2>2, <2>3, <2>4, <2>5, TickTold DEF Next
<1> QED
  BY <1>1, <1>2 DEF HealthInv

\* Between two runs the health row shows the run that finished last, and
\* provider.degraded was published exactly if it failed, when runs and their
\* reports are shorter than the lease and the interval (the order of
\* _provider_health, _publish_event and _hold_slot in _run_guarded).
THEOREM HealthIsOfLastRun ==
  ASSUME JobLimit < Lease, JobLimit < Interval
  PROVE  Spec => []HealthShowsLastRun
<1>1. ASSUME HealthInv PROVE HealthShowsLastRun
  BY <1>1 DEF HealthInv, ToldInv, HealthShowsLastRun
<1>2. HealthInv /\ [Next]_vars => HealthInv'
  BY HealthStep
<1> QED
  BY <1>1, <1>2, HealthInit, PTL DEF Spec

-----------------------------------------------------------------------------
(* How soon the provider is asked again after a crash, when no command was *)
(* lost.  A replica that rests wakes up at most a lease and a minimal wait *)
(* after the slot is free, since the longest sleep is the one of who set   *)
(* the slot; after a crash within a run the slot is the rest of a lease.   *)

NapInv ==
  /\ \A r \in Replica :
       /\ loop[r].pc = "ttl" /\ loop[r].ran = 0 => slot > 0
       /\ loop[r].pc = "acquire" => loop[r].sleep <= slot + Lease + MinWait
  /\ \A h \in Replica : loop[h].pc \in Holding =>
       /\ slot <= Lease
       /\ \A r \in Replica :
            loop[r].pc = "acquire" => loop[r].sleep <= Lease + MinWait

\* Since an interrupted run nobody was busy but to ask the provider again; and
\* while nobody is, every replica that is up asks in time.
WokenInv ==
  overdue > 0 =>
    /\ \A r \in Replica : loop[r].pc \in Busy =>
         /\ loop[r].pc = "fetch"
         /\ overdue <= Lease + MinWait + 1 + loop[r].ran
    /\ (\A r \in Replica : loop[r].pc \notin Busy) =>
         /\ overdue <= Lease + MinWait + 1
         /\ slot > 0 => overdue + slot <= Lease + 1
         /\ \A r \in Replica :
              /\ loop[r].pc = "acquire" =>
                   overdue + loop[r].sleep <= Lease + MinWait + 1
              /\ loop[r].pc = "ttl" => overdue <= Lease + 1

PromptInv == SlotInv /\ overdue \in Nat /\ AloneInv /\ NapInv /\ WokenInv

CrashInv == /\ SlotInv /\ overdue \in Nat /\ cooldown = 0
            /\ lost = 0 => PromptInv

LEMMA CrashInit == Init => CrashInv
<1> SUFFICES ASSUME Init PROVE CrashInv
  OBVIOUS
<1>1. \A r \in Replica : loop[r].pc = "acquire" /\ loop[r].sleep = 0
  BY DEF Init, Fresh
<1> QED
  BY <1>1, SlotInit, Times
     DEF Init, CrashInv, PromptInv, AloneInv, NapInv, WokenInv, Busy, JobSteps, Holding

\* A step of replica r from one position to another.
Moves(r, from, to) == /\ Others(r) /\ loop[r].pc = from /\ loop'[r].pc = to

LEMMA AcquireMoves ==
  ASSUME SlotInv, NEW r \in Replica, AcquireSlot(r), lost' = lost
  PROVE  /\ overdue' = overdue /\ loop[r].sleep = 0
         /\ \/ /\ Moves(r, "acquire", "fetch")
               /\ slot = 0 /\ slot' = Lease /\ loop'[r].ran = 0
            \/ /\ Moves(r, "acquire", "ttl")
               /\ slot > 0 /\ slot' = slot
<1>1. /\ LoopTypes /\ loop[r].pc = "acquire" /\ loop[r].ran = 0 /\ loop[r].sleep = 0
      /\ overdue' = overdue
  BY DEF SlotInv, AcquireSlot, history
<1>2. Others(r) /\ ~Raises
  BY <1>1, OneMoves DEF LoopStep, Raises, LoopTypes
<1>3. CASE slot = 0 /\ slot' = Granted /\ loop' = Goto(r, "fetch")
  BY <1>1, <1>2, <1>3, GotoEffect DEF Moves, Granted, Positions, Busy, JobSteps
<1>4. CASE slot > 0 /\ slot' = slot /\ loop' = Goto(r, "ttl")
  BY <1>1, <1>2, <1>4, GotoEffect DEF Moves, Positions
<1> QED
  BY <1>2, <1>3, <1>4 DEF AcquireSlot

LEMMA TTLMoves ==
  ASSUME SlotInv, NEW r \in Replica, ReadTTL(r), lost' = lost
  PROVE  /\ Moves(r, "ttl", "acquire") /\ UNCHANGED <<slot, overdue>>
         /\ loop'[r].sleep = Larger(slot, MinWait)
<1>1. LoopTypes /\ loop[r].pc = "ttl" /\ UNCHANGED <<slot, overdue>>
  BY DEF SlotInv, ReadTTL, history
<1>2. Others(r) /\ ~Raises /\ Larger(slot, MinWait) \in Int
  BY <1>1, Times, OneMoves DEF LoopStep, Raises, LoopTypes, Larger
<1> QED
  BY <1>1, <1>2, SleepEffect DEF Moves, ReadTTL

\* Within a run: the fetch asks the provider, where no cooldown keeps it from it.
LEMMA RunMoves ==
  ASSUME SlotInv, cooldown = 0, NEW r \in Replica,
         JobFetches(r) \/ JobCommits(r) \/ ReportFailure(r) \/ PublishDegraded(r)
  PROVE  /\ Others(r) /\ loop'[r].ran = loop[r].ran /\ slot' = slot
         /\ loop[r].pc \in Holding /\ loop'[r].pc \in Holding
         /\ IF loop[r].pc = "fetch" THEN overdue' = 0 ELSE overdue' = overdue
<1>1. /\ LoopTypes /\ slot' = slot
      /\ loop[r].pc \in {"fetch", "commit", "failed", "publish"}
      /\ IF loop[r].pc = "fetch" THEN overdue' = 0 ELSE overdue' = overdue
  <2>1. LoopTypes
    BY DEF SlotInv
  <2>2. CASE JobFetches(r)
    BY <2>1, <2>2 DEF JobFetches, CooldownActive
  <2>3. CASE JobCommits(r) \/ ReportFailure(r) \/ PublishDegraded(r)
    BY <2>1, <2>3 DEF JobCommits, ReportFailure, PublishDegraded, history
  <2> QED
    BY <2>2, <2>3
<1>2. Others(r)
  BY <1>1, OneMoves DEF LoopStep
<1>3. \/ Fails(r)
      \/ \E pc \in {"commit", "hold_interval", "publish", "hold_retry"} : loop' = Goto(r, pc)
  BY DEF JobFetches, JobCommits, ReportFailure, PublishDegraded
<1>4. loop'[r].ran = loop[r].ran /\ loop'[r].pc \in Holding
  <2>1. CASE Fails(r)
    BY <1>1, <2>1, FailsEffect DEF Holding, Busy, JobSteps
  <2>2. ASSUME NEW pc \in {"commit", "hold_interval", "publish", "hold_retry"}, loop' = Goto(r, pc)
        PROVE  loop'[r].ran = loop[r].ran /\ loop'[r].pc \in Holding
    BY <1>1, <2>2, GotoEffect DEF Positions, Holding, Busy, JobSteps
  <2> QED
    BY <1>3, <2>1, <2>2
<1> QED
  BY <1>1, <1>2, <1>4 DEF Holding, Busy, JobSteps

LEMMA RetryMoves ==
  ASSUME SlotInv, NEW r \in Replica, HoldRetry(r), lost' = lost
  PROVE  /\ Moves(r, "hold_retry", "acquire") /\ overdue' = overdue
         /\ slot' \in Nat \ {0} /\ loop'[r].sleep <= slot'
<1>1. /\ LoopTypes /\ loop[r].pc = "hold_retry" /\ overdue' = overdue
      /\ loop[r].delay \in Int
  BY DEF SlotInv, LoopTypes, Loop, HoldRetry
<1>2. Others(r) /\ ~Raises
  BY <1>1, OneMoves DEF LoopStep, Raises, LoopTypes
<1>3. slot' = Larger(loop[r].delay, 1)
  BY <1>2 DEF HoldRetry, SetSlot, Hold
<1>4. loop'[r].pc = "acquire" /\ loop'[r].sleep = loop[r].delay
  BY <1>1, SleepEffect DEF HoldRetry
<1> QED
  BY <1>1, <1>2, <1>3, <1>4 DEF Moves, Larger

LEMMA IntervalMoves ==
  ASSUME SlotInv, NEW r \in Replica, HoldInterval(r), lost' = lost
  PROVE  /\ Moves(r, "hold_interval", "report") /\ overdue' = overdue
         /\ slot' \in Nat \ {0} /\ slot' >= Interval /\ loop'[r].ran = loop[r].ran
<1>1. /\ LoopTypes /\ loop[r].pc = "hold_interval" /\ overdue' = overdue
  BY DEF SlotInv, HoldInterval
<1>2. Others(r) /\ ~Raises
  BY <1>1, OneMoves DEF LoopStep, Raises, LoopTypes
<1>3. slot' = Larger(Interval, 1)
  BY <1>2 DEF HoldInterval, SetSlot, Hold
<1>4. loop'[r].pc = "report" /\ loop'[r].ran = loop[r].ran
  BY <1>1 DEF HoldInterval, Goto, LoopTypes, Loop
<1> QED
  BY <1>1, <1>2, <1>3, <1>4, Times DEF Moves, Larger

LEMMA SuccessMoves ==
  ASSUME SlotInv, NEW r \in Replica, ReportSuccess(r)
  PROVE  /\ Moves(r, "report", "acquire") /\ UNCHANGED <<slot, overdue>>
         /\ loop'[r].sleep = Interval
<1>1. LoopTypes /\ loop[r].pc = "report" /\ UNCHANGED <<slot, overdue>>
  BY DEF SlotInv, ReportSuccess, history
<1>2. Others(r) /\ Interval \in Int
  BY <1>1, Times, OneMoves DEF LoopStep
<1> QED
  BY <1>1, <1>2, SleepEffect DEF Moves, ReportSuccess

\* A crash leaves the keys as they are; the clock of the promise starts over
\* when it ends a run.
LEMMA CrashMoves ==
  ASSUME SlotInv, NEW r \in Replica, Crash(r)
  PROVE  /\ Moves(r, loop[r].pc, "down") /\ slot' = slot
         /\ overdue' = IF loop[r].pc \in JobSteps THEN 1 ELSE overdue
<1>1. LoopTypes
  BY DEF SlotInv
<1>2. loop'[r].pc = "down"
  BY <1>1, FreshLoop DEF Crash, LoopTypes, Loop
<1> QED
  BY <1>1, <1>2, OneMoves DEF Crash, Moves

LEMMA RestartMoves ==
  ASSUME SlotInv, NEW r \in Replica, Restart(r)
  PROVE  /\ Moves(r, "down", "acquire") /\ UNCHANGED <<slot, overdue>>
         /\ loop'[r].sleep = 0
<1>1. LoopTypes /\ Fresh.sleep = 0
  BY DEF SlotInv, Fresh
<1> QED
  BY <1>1, OneMoves, FreshLoop DEF Restart, Moves, LoopTypes, history

\* While a replica holds the slot it is alone, and the slot is not free.
LEMMA HolderAlone ==
  ASSUME JobLimit < Lease, PromptInv, NEW h \in Replica, loop[h].pc \in Holding
  PROVE  /\ slot > 0 /\ slot \in Nat /\ loop[h].ran \in Nat /\ loop[h].ran <= JobLimit
         /\ \A r \in Replica : loop[r].pc \in Busy => r = h
<1>1. /\ slot + loop[h].ran >= Lease /\ loop[h].ran <= JobLimit
      /\ slot \in Nat /\ loop[h].ran \in Nat /\ loop[h].pc \in Busy
  BY DEF PromptInv, SlotInv, LeaseInv, LoopTypes, Loop, Holding
<1> QED
  BY <1>1, Times DEF PromptInv, AloneInv

\* The sleeps and times that the invariants compare are numbers.
LEMMA PromptTypes ==
  ASSUME PromptInv
  PROVE  /\ slot \in Nat /\ overdue \in Nat
         /\ \A r \in Replica : loop[r].ran \in Nat /\ loop[r].sleep \in Int
BY DEF PromptInv, SlotInv, LoopTypes, Loop

\* A run begins: nobody else is busy, and nobody rests for long.
LEMMA StartPrompt ==
  ASSUME JobLimit < Lease, JobLimit < Interval, PromptInv, SlotInv',
         NEW r \in Replica, overdue' = overdue, loop[r].sleep = 0,
         Moves(r, "acquire", "fetch"),
         slot = 0, slot' = Lease, loop'[r].ran = 0
  PROVE  PromptInv'
<1>1. \A p \in Replica : loop[p].pc \notin Busy
  BY FreeSlot DEF PromptInv
<1>2. \A p \in Replica : p # r => loop'[p] = loop[p] /\ loop'[p].pc \notin Busy
  BY <1>1 DEF Moves, Others
<1>3. AloneInv'
  BY <1>2 DEF AloneInv, Moves, Busy
<1>4. NapInv'
  <2>1. ASSUME NEW p \in Replica, loop'[p].pc = "acquire"
        PROVE  loop'[p].sleep <= Lease + MinWait /\ loop'[p].sleep \in Int
    BY <1>2, <2>1, PromptTypes, Times DEF PromptInv, NapInv, Moves
  <2> QED
    BY <1>2, <2>1, Times DEF NapInv, Moves, Holding
<1>5. WokenInv'
  <2>1. overdue > 0 => overdue <= Lease + MinWait + 1
    BY <1>1 DEF PromptInv, WokenInv
  <2>2. \E p \in Replica : loop'[p].pc \in Busy
    BY DEF Moves, Busy, JobSteps
  <2> QED
    BY <1>2, <2>1, <2>2, PromptTypes, Times DEF WokenInv, Moves
<1> QED
  BY <1>3, <1>4, <1>5 DEF PromptInv

\* A replica comes to rest, or to the question how long to rest, or down, and
\* leaves the slot as it is.
LEMMA RestPrompt ==
  ASSUME JobLimit < Lease, PromptInv, SlotInv', NEW r \in Replica,
         NEW from, from \notin Busy, NEW to \in {"acquire", "ttl", "down"},
         Moves(r, from, to), UNCHANGED <<slot, overdue>>,
         to = "ttl" => slot > 0,
         to = "acquire" => \/ loop'[r].sleep = 0
                           \/ /\ loop'[r].sleep = Larger(slot, MinWait)
                              /\ from = "ttl"
  PROVE  PromptInv'
<1>0. /\ \A p \in Replica : p # r => loop'[p] = loop[p]
      /\ loop[r].pc = from /\ loop'[r].pc = to
      /\ to \notin Busy /\ to \notin Holding
      /\ \A p \in Replica : loop'[p].pc \in Busy => loop[p].pc \in Busy /\ p # r
      /\ \A p \in Replica : loop[p].pc \in Busy => loop'[p].pc \in Busy /\ p # r
  BY DEF Moves, Others, Busy, JobSteps, Holding
<1>1. AloneInv'
  BY <1>0 DEF PromptInv, AloneInv, Busy
<1>2. NapInv'
  <2>1. to = "acquire" => loop'[r].sleep <= slot + Lease + MinWait
    BY PromptTypes, Times DEF Larger
  <2>2. to = "acquire" /\ slot <= Lease => loop'[r].sleep <= Lease + MinWait
    BY PromptTypes, Times DEF Larger
  <2> QED
    BY <1>0, <2>1, <2>2 DEF PromptInv, NapInv, Holding
<1>3. WokenInv'
  <2>1. ASSUME overdue > 0, \A p \in Replica : loop'[p].pc \notin Busy
        PROVE  /\ overdue <= Lease + MinWait + 1
               /\ slot > 0 => overdue + slot <= Lease + 1
               /\ \A p \in Replica :
                    /\ loop'[p].pc = "acquire" =>
                         overdue + loop'[p].sleep <= Lease + MinWait + 1
                    /\ loop'[p].pc = "ttl" => overdue <= Lease + 1
    <3>1. \A p \in Replica : loop[p].pc \notin Busy
      BY <1>0, <2>1
    <3>2. /\ overdue <= Lease + MinWait + 1
          /\ slot > 0 => overdue + slot <= Lease + 1
          /\ \A p \in Replica :
               /\ loop[p].pc = "acquire" =>
                    overdue + loop[p].sleep <= Lease + MinWait + 1
               /\ loop[p].pc = "ttl" => overdue <= Lease + 1
      BY <2>1, <3>1 DEF PromptInv, WokenInv
    <3>3. to = "acquire" => overdue + loop'[r].sleep <= Lease + MinWait + 1
      BY <1>0, <3>2, PromptTypes, Times DEF Larger
    <3>4. to = "ttl" => overdue <= Lease + 1
      BY <3>2, PromptTypes, Times
    <3> QED
      BY <1>0, <3>2, <3>3, <3>4
  <2> QED
    BY <1>0, <2>1 DEF PromptInv, WokenInv
<1> QED
  BY <1>1, <1>2, <1>3 DEF PromptInv

\* Within a run: once the provider was asked nothing is overdue.
LEMMA RunPrompt ==
  ASSUME JobLimit < Lease, PromptInv, SlotInv', NEW r \in Replica,
         Others(r), loop'[r].ran = loop[r].ran, slot' = slot,
         loop[r].pc \in Holding, loop'[r].pc \in Holding,
         IF loop[r].pc = "fetch" THEN overdue' = 0 ELSE overdue' = overdue
  PROVE  PromptInv'
<1>0. /\ \A p \in Replica : p # r => loop'[p] = loop[p]
      /\ \A p \in Replica : loop[p].pc \in Busy => p = r
      /\ loop[r].pc \in Busy /\ loop'[r].pc \in Busy
      /\ loop'[r].pc \notin {"acquire", "ttl", "report"}
  BY HolderAlone DEF Others, Holding, Busy, JobSteps
<1>1. AloneInv'
  BY <1>0 DEF AloneInv, Busy
<1>2. NapInv'
  BY <1>0 DEF PromptInv, NapInv
<1>3. overdue' = 0
  BY <1>0, PromptTypes DEF PromptInv, WokenInv
<1> QED
  BY <1>1, <1>2, <1>3 DEF PromptInv, WokenInv

\* The only busy replica ends its run, or its report, or crashes.
LEMMA EndPrompt ==
  ASSUME JobLimit < Lease, JobLimit < Interval, PromptInv, SlotInv',
         NEW r \in Replica, loop[r].pc \in Busy, overdue' \in Nat,
         NEW to \in {"acquire", "report", "down"}, Moves(r, loop[r].pc, to),
         slot' \in Nat, slot' # slot => slot' > 0 /\ loop[r].pc \in Holding,
         to = "report" => /\ slot' >= Interval /\ loop'[r].ran = loop[r].ran
                          /\ loop[r].pc \in Holding,
         to = "acquire" => loop'[r].sleep <= slot' + Lease + MinWait,
         overdue' > 0 => /\ overdue' = 1 /\ slot' <= Lease /\ to = "down"
                         /\ loop[r].pc \in Holding
  PROVE  PromptInv'
<1>0. /\ \A p \in Replica : p # r => loop'[p] = loop[p] /\ loop[p].pc \notin Busy
      /\ loop'[r].pc = to /\ to \notin Holding /\ (to \in Busy => to = "report")
      /\ \A p \in Replica : p # r => loop'[p].pc \notin Busy
  BY DEF PromptInv, AloneInv, Moves, Others, Busy, JobSteps, Holding
<1>1. AloneInv'
  <2>1. to = "report" => slot' + loop'[r].ran >= Interval
    BY PromptTypes, Times
  <2> QED
    BY <1>0, <2>1 DEF AloneInv, Busy
<1>2. NapInv'
  <2>1. \A p \in Replica : loop'[p].pc \notin Holding
    BY <1>0 DEF Holding
  <2>2. ASSUME NEW p \in Replica, p # r, loop[p].pc = "acquire"
        PROVE  loop[p].sleep <= slot' + Lease + MinWait
    <3>1. CASE slot' = slot
      BY <2>2, <3>1 DEF PromptInv, NapInv
    <3>2. CASE loop[r].pc \in Holding
      <4>1. loop[p].sleep <= Lease + MinWait
        BY <2>2, <3>2 DEF PromptInv, NapInv
      <4> QED
        BY <4>1, PromptTypes, Times
    <3> QED
      BY <3>1, <3>2
  <2>3. \A p \in Replica : loop'[p].pc = "ttl" /\ loop'[p].ran = 0 => slot' > 0
    BY <1>0 DEF PromptInv, NapInv
  <2> QED
    BY <1>0, <2>1, <2>2, <2>3 DEF NapInv
<1>3. WokenInv'
  <2> SUFFICES ASSUME overdue' > 0 PROVE WokenInv'
    BY DEF WokenInv
  <2>1. ASSUME NEW p \in Replica, p # r, loop[p].pc = "acquire"
        PROVE  1 + loop[p].sleep <= Lease + MinWait + 1
    <3>1. loop[p].sleep <= Lease + MinWait
      BY <2>1 DEF PromptInv, NapInv
    <3> QED
      BY <3>1, PromptTypes, Times
  <2>2. overdue' = 1 /\ slot' <= Lease /\ to = "down"
    OBVIOUS
  <2>3. 1 <= Lease + MinWait + 1 /\ 1 <= Lease + 1 /\ 1 + slot' <= Lease + 1
    <3>1. \A n \in Nat : n <= Lease => 1 + n <= Lease + 1
      BY Times
    <3>2. 1 <= Lease + MinWait + 1 /\ 1 <= Lease + 1
      BY Times
    <3> QED
      BY <2>2, <3>1, <3>2
  <2>4. \A p \in Replica : /\ loop'[p].pc \notin Busy
                           /\ loop'[p].pc \in {"acquire", "ttl"} =>
                                p # r /\ loop'[p] = loop[p]
    BY <1>0, <2>2 DEF Busy, JobSteps
  <2> QED
    BY <2>1, <2>2, <2>3, <2>4 DEF WokenInv
<1> QED
  BY <1>1, <1>2, <1>3 DEF PromptInv

\* A second brings everyone nearer to the next request.
LEMMA TickPrompt ==
  ASSUME JobLimit < Lease, PromptInv, SlotInv', Tick
  PROVE  PromptInv'
<1>1. /\ LoopTypes /\ LoopTypes' /\ slot' = Down(slot)
      /\ \A r \in Replica : /\ loop'[r].pc = loop[r].pc
                            /\ loop[r].pc \in Busy => loop'[r].ran = loop[r].ran + 1
  BY TickEffect DEF PromptInv, SlotInv, Tick
<1>2. ASSUME NEW r \in Replica
      PROVE  /\ loop[r].pc = "acquire" => /\ loop[r].sleep > 0
                                          /\ loop'[r].sleep = loop[r].sleep - 1
             /\ loop[r].pc = "ttl" => loop[r].ran = 0 /\ loop'[r].ran = 1
  <2>1. loop[r] \in Loop
    BY <1>1 DEF LoopTypes
  <2>2. loop'[r] = [loop[r] EXCEPT !.sleep = Down(@),
                        !.ran = IF loop[r].pc \in Busy \cup {"ttl"}
                                  THEN @ + 1 ELSE 0]
    BY DEF Tick
  <2>3. loop'[r].sleep = Down(loop[r].sleep)
    BY <2>1, <2>2 DEF Loop
  <2>4. loop[r].pc = "ttl" => loop'[r].ran = loop[r].ran + 1
    BY <2>1, <2>2 DEF Loop
  <2>5. /\ loop[r].pc = "acquire" => loop[r].sleep > 0
        /\ loop[r].pc = "ttl" => loop[r].ran = 0
    BY DEF Tick
  <2> QED
    BY <2>1, <2>3, <2>4, <2>5 DEF Loop, Down
<1>3. /\ overdue' \in Nat /\ overdue' <= overdue + 1
      /\ overdue' > 0 => overdue > 0
      /\ (\A r \in Replica : loop[r].pc = "down") => overdue' = overdue
  <2>1. OverdueMax \in Nat /\ overdue \in Nat
    BY PromptTypes, Times DEF OverdueMax
  <2>2. /\ \/ overdue' = overdue
           \/ overdue > 0 /\ overdue' = Smaller(overdue + 1, OverdueMax)
        /\ (\A r \in Replica : loop[r].pc = "down") => overdue' = overdue
    BY DEF Tick
  <2> QED
    BY <2>1, <2>2 DEF Smaller
<1>4. slot' \in Nat /\ slot' <= slot /\ slot <= slot' + 1 /\ (slot' > 0 => slot' = slot - 1)
  BY <1>1 DEF LoopTypes, Down
<1>5. AloneInv'
  <2>1. ASSUME NEW r \in Replica, loop'[r].pc = "report"
        PROVE  slot' + loop'[r].ran >= Interval
    <3>1. slot + loop[r].ran >= Interval /\ loop'[r].ran = loop[r].ran + 1
      BY <1>1, <2>1 DEF PromptInv, AloneInv, Busy
    <3> QED
      BY <1>4, <3>1, PromptTypes, Times
  <2> QED
    BY <1>1, <2>1 DEF PromptInv, AloneInv
<1>6. NapInv'
  <2>1. ASSUME NEW r \in Replica, loop'[r].pc = "acquire"
        PROVE  /\ loop'[r].sleep <= slot' + Lease + MinWait
               /\ loop[r].sleep <= Lease + MinWait => loop'[r].sleep <= Lease + MinWait
    <3>1. /\ loop[r].sleep <= slot + Lease + MinWait
          /\ loop'[r].sleep = loop[r].sleep - 1
      BY <1>1, <1>2, <2>1 DEF PromptInv, NapInv
    <3> QED
      BY <1>4, <3>1, PromptTypes, Times
  <2>2. ASSUME NEW h \in Replica, loop'[h].pc \in Holding PROVE slot' <= Lease
    BY <1>1, <1>4, <2>2, PromptTypes, Times DEF PromptInv, NapInv
  <2> QED
    BY <1>1, <1>2, <2>1, <2>2 DEF PromptInv, NapInv
<1>7. WokenInv'
  <2> SUFFICES ASSUME overdue' > 0 PROVE WokenInv'
    BY DEF WokenInv
  <2>1. ASSUME NEW r \in Replica, loop'[r].pc \in Busy
        PROVE  /\ loop'[r].pc = "fetch"
               /\ overdue' <= Lease + MinWait + 1 + loop'[r].ran
    <3>1. /\ loop[r].pc = "fetch" /\ overdue <= Lease + MinWait + 1 + loop[r].ran
          /\ loop'[r].ran = loop[r].ran + 1
      BY <1>1, <1>3, <2>1 DEF PromptInv, WokenInv
    <3> QED
      BY <1>1, <1>3, <3>1, PromptTypes, Times
  <2>2. ASSUME \A r \in Replica : loop'[r].pc \notin Busy
        PROVE  /\ overdue' <= Lease + MinWait + 1
               /\ slot' > 0 => overdue' + slot' <= Lease + 1
               /\ \A r \in Replica :
                    /\ loop'[r].pc = "acquire" =>
                         overdue' + loop'[r].sleep <= Lease + MinWait + 1
                    /\ loop'[r].pc = "ttl" => overdue' <= Lease + 1
    <3>1. /\ overdue <= Lease + MinWait + 1
          /\ slot > 0 => overdue + slot <= Lease + 1
          /\ \A r \in Replica :
               /\ loop[r].pc = "acquire" =>
                    overdue + loop[r].sleep <= Lease + MinWait + 1
               /\ loop[r].pc = "ttl" => overdue <= Lease + 1
      BY <1>1, <1>3, <2>2 DEF PromptInv, WokenInv
    <3>2. slot' > 0 => overdue' + slot' <= Lease + 1
      BY <1>3, <1>4, <3>1, PromptTypes, Times
    <3>3. ASSUME NEW r \in Replica, loop[r].pc = "acquire"
          PROVE  /\ overdue' + loop'[r].sleep <= Lease + MinWait + 1
                 /\ overdue' <= Lease + MinWait + 1
      BY <1>2, <1>3, <3>1, <3>3, PromptTypes, Times
    <3>4. ASSUME NEW r \in Replica, loop[r].pc = "ttl"
          PROVE  overdue' <= Lease + 1 /\ overdue' <= Lease + MinWait + 1
      <4>1. slot > 0
        BY <1>2, <3>4 DEF PromptInv, NapInv
      <4> QED
        BY <1>3, <3>1, <4>1, PromptTypes, Times
    <3>5. overdue' <= Lease + MinWait + 1
      <4>1. CASE \E r \in Replica : loop[r].pc \in {"acquire", "ttl"}
        BY <3>3, <3>4, <4>1
      <4>2. CASE \A r \in Replica : loop[r].pc \notin {"acquire", "ttl"}
        <5>1. \A r \in Replica : loop[r].pc = "down"
          BY <1>1, <2>2, <4>2 DEF LoopTypes, Loop, Positions
        <5> QED
          BY <1>3, <3>1, <5>1
      <4> QED
        BY <4>1, <4>2
    <3> QED
      BY <1>1, <3>2, <3>3, <3>4, <3>5
  <2> QED
    BY <2>1, <2>2 DEF WokenInv
<1> QED
  BY <1>3, <1>5, <1>6, <1>7 DEF PromptInv

\* A replica crashes: within its run, or between two runs, or already reporting.
LEMMA CrashPrompt ==
  ASSUME JobLimit < Lease, JobLimit < Interval, PromptInv, SlotInv',
         NEW r \in Replica, Crash(r)
  PROVE  PromptInv'
<1>1. /\ Moves(r, loop[r].pc, "down") /\ slot' = slot
      /\ overdue' = IF loop[r].pc \in JobSteps THEN 1 ELSE overdue
  BY CrashMoves DEF PromptInv
<1>2. CASE loop[r].pc \notin Busy
  <2>1. overdue' = overdue
    BY <1>1, <1>2 DEF Busy
  <2> QED
    BY <1>1, <1>2, <2>1, RestPrompt
<1>3. CASE loop[r].pc \in Busy
  <2>1. overdue' \in Nat
    BY <1>1, PromptTypes
  <2>2. loop[r].pc \notin JobSteps => overdue = 0
    BY <1>3, PromptTypes DEF PromptInv, WokenInv, JobSteps
  <2>3. loop[r].pc \in JobSteps => loop[r].pc \in Holding /\ slot <= Lease
    BY DEF PromptInv, NapInv, Holding, Busy, JobSteps
  <2>4. overdue' > 0 => /\ overdue' = 1 /\ slot' <= Lease
                        /\ loop[r].pc \in Holding
    BY <1>1, <2>2, <2>3
  <2>5. slot' \in Nat
    BY <1>1, PromptTypes
  <2> QED
    BY <1>1, <1>3, <2>1, <2>4, <2>5, EndPrompt
<1> QED
  BY <1>2, <1>3

LEMMA PromptStep ==
  ASSUME JobLimit < Lease, JobLimit < Interval, cooldown = 0,
         PromptInv, [Next]_vars, lost' = lost
  PROVE  PromptInv'
<1>0. SlotInv /\ SlotInv'
  BY SlotStep DEF PromptInv
<1>1. ASSUME NEW r \in Replica, AcquireSlot(r) PROVE PromptInv'
  <2>1. /\ overdue' = overdue /\ loop[r].sleep = 0
        /\ \/ /\ Moves(r, "acquire", "fetch")
              /\ slot = 0 /\ slot' = Lease /\ loop'[r].ran = 0
           \/ Moves(r, "acquire", "ttl") /\ slot > 0 /\ slot' = slot
    BY <1>0, <1>1, AcquireMoves
  <2>2. "acquire" \notin Busy
    BY DEF Busy, JobSteps
  <2>3. CASE Moves(r, "acquire", "fetch") /\ slot = 0 /\ slot' = Lease
             /\ loop'[r].ran = 0
    BY <1>0, <2>1, <2>3, StartPrompt
  <2>4. CASE Moves(r, "acquire", "ttl") /\ slot > 0 /\ slot' = slot
    BY <1>0, <2>1, <2>2, <2>4, RestPrompt
  <2> QED
    BY <2>1, <2>3, <2>4
<1>2. ASSUME NEW r \in Replica, ReadTTL(r) PROVE PromptInv'
  <2>1. "ttl" \notin Busy
    BY DEF Busy, JobSteps
  <2> QED
    BY <1>0, <1>2, <2>1, TTLMoves, RestPrompt
<1>3. ASSUME NEW r \in Replica,
             JobFetches(r) \/ JobCommits(r) \/ ReportFailure(r) \/ PublishDegraded(r)
      PROVE  PromptInv'
  BY <1>0, <1>3, RunMoves, RunPrompt
<1>4. ASSUME NEW r \in Replica, HoldRetry(r) PROVE PromptInv'
  <2>1. /\ Moves(r, "hold_retry", "acquire") /\ overdue' = overdue
        /\ slot' \in Nat \ {0} /\ loop'[r].sleep <= slot'
    BY <1>0, <1>4, RetryMoves
  <2>2. /\ loop[r].pc = "hold_retry"
        /\ loop[r].pc \in Busy /\ loop[r].pc \in Holding
    BY <2>1 DEF Moves, Busy, JobSteps, Holding
  <2>3. overdue = 0
    BY <2>2, PromptTypes DEF PromptInv, WokenInv
  <2>4. loop'[r].sleep <= slot' + Lease + MinWait
    <3>1. loop'[r].sleep \in Int
      BY <1>0 DEF SlotInv, LoopTypes, Loop
    <3> QED
      BY <2>1, <3>1, Times
  <2>5. /\ overdue' = 0 /\ slot' > 0 /\ slot' \in Nat
        /\ Moves(r, loop[r].pc, "acquire")
    BY <2>1, <2>2, <2>3
  <2> QED
    BY <1>0, <2>2, <2>4, <2>5, EndPrompt
<1>5. ASSUME NEW r \in Replica, HoldInterval(r) PROVE PromptInv'
  <2>1. /\ Moves(r, "hold_interval", "report") /\ overdue' = overdue
        /\ slot' \in Nat \ {0} /\ slot' >= Interval /\ loop'[r].ran = loop[r].ran
    BY <1>0, <1>5, IntervalMoves
  <2>2. /\ loop[r].pc = "hold_interval"
        /\ loop[r].pc \in Busy /\ loop[r].pc \in Holding
    BY <2>1 DEF Moves, Busy, JobSteps, Holding
  <2>3. overdue = 0
    BY <2>2, PromptTypes DEF PromptInv, WokenInv
  <2>4. /\ overdue' = 0 /\ slot' > 0 /\ slot' \in Nat
        /\ Moves(r, loop[r].pc, "report")
    BY <2>1, <2>2, <2>3
  <2> QED
    BY <1>0, <2>1, <2>2, <2>4, EndPrompt
<1>6. ASSUME NEW r \in Replica, ReportSuccess(r) PROVE PromptInv'
  <2>1. /\ Moves(r, "report", "acquire") /\ UNCHANGED <<slot, overdue>>
        /\ loop'[r].sleep = Interval
    BY <1>0, <1>6, SuccessMoves
  <2>2. loop[r].pc = "report" /\ loop[r].pc \in Busy
    BY <2>1 DEF Moves, Busy
  <2>3. overdue = 0
    BY <2>2, PromptTypes DEF PromptInv, WokenInv
  <2>4. loop'[r].sleep <= slot' + Lease + MinWait
    <3>1. slot + loop[r].ran >= Interval /\ loop[r].ran <= JobLimit
      BY <2>2 DEF PromptInv, SlotInv, AloneInv
    <3> QED
      BY <2>1, <3>1, PromptTypes, Times
  <2>5. /\ overdue' = 0 /\ slot' = slot /\ slot' \in Nat
        /\ Moves(r, loop[r].pc, "acquire")
    BY <2>1, <2>2, <2>3, PromptTypes
  <2> QED
    BY <1>0, <2>2, <2>4, <2>5, EndPrompt
<1>7. ASSUME NEW r \in Replica, Restart(r) PROVE PromptInv'
  <2>1. "down" \notin Busy
    BY DEF Busy, JobSteps
  <2> QED
    BY <1>0, <1>7, <2>1, RestartMoves, RestPrompt
<1>8. CASE UNCHANGED vars
  BY <1>0, <1>8 DEF vars, PromptInv, AloneInv, NapInv, WokenInv
<1> QED
  BY <1>0, <1>1, <1>2, <1>3, <1>4, <1>5, <1>6, <1>7, <1>8, CrashPrompt, TickPrompt
     DEF Next, LoopStep

\* Losses are counted and never forgotten, and no cooldown begins.
LEMMA CrashCounts ==
  ASSUME Cooldown = 0, CrashInv, [Next]_vars
  PROVE  /\ overdue' \in Nat /\ cooldown' = 0
         /\ lost' = 0 => lost = 0 /\ lost' = lost
<1>0. lost \in Nat /\ overdue \in Nat /\ cooldown = 0
  BY DEF CrashInv, SlotInv, LoopTypes
<1>1. lost' = lost \/ Works \/ Raises
  BY DEF Next, LoopStep, AcquireSlot, ReadTTL, JobFetches, JobCommits, WriteHealth, SetSlot,
      ReportFailure, PublishDegraded, HoldRetry, HoldInterval, ReportSuccess, Crash, Restart,
      Tick, vars
<1>2. cooldown' \in {cooldown, Cooldown, Down(cooldown)}
  BY DEF Next, LoopStep, AcquireSlot, ReadTTL, JobFetches, JobCommits,
      ReportFailure, PublishDegraded, HoldRetry, HoldInterval, ReportSuccess, Crash, Restart,
      Tick, vars
<1>3. overdue' \in {overdue, 0, 1, Smaller(overdue + 1, OverdueMax)}
  BY DEF Next, LoopStep, AcquireSlot, ReadTTL, JobFetches, JobCommits, history,
      ReportFailure, PublishDegraded, HoldRetry, HoldInterval, ReportSuccess, Crash, Restart,
      Tick, vars
<1>4. OverdueMax \in Nat
  BY Times DEF OverdueMax
<1> QED
  BY <1>0, <1>1, <1>2, <1>3, <1>4 DEF Works, Raises, Down, Smaller

LEMMA CrashStep ==
  ASSUME Cooldown = 0, JobLimit < Lease, JobLimit < Interval, CrashInv, [Next]_vars
  PROVE  CrashInv'
<1>1. SlotInv'
  BY SlotStep DEF CrashInv
<1>2. ASSUME lost' = 0 PROVE PromptInv'
  BY <1>2, CrashCounts, PromptStep DEF CrashInv
<1> QED
  BY <1>1, <1>2, CrashCounts DEF CrashInv

\* After a crash within a run the provider is asked again within the lease, one
\* minimal wait and the length of a run, whichever replicas are up, crash again
\* or restart, when no command is lost, the job has no cooldown, and runs with
\* their reports are shorter than the lease and the interval
\* (_RUNNING_LEASE_SECONDS).
THEOREM CrashedRunsRetrySoon ==
  ASSUME Cooldown = 0, JobLimit < Lease, JobLimit < Interval
  PROVE  Spec => []CrashRetriesSoon
<1>1. ASSUME CrashInv PROVE CrashRetriesSoon
  <2> SUFFICES ASSUME lost = 0 PROVE overdue <= Lease + MinWait + JobLimit + 1
    BY DEF CrashRetriesSoon
  <2>1. PromptInv
    BY <1>1 DEF CrashInv
  <2>2. CASE \E r \in Replica : loop[r].pc \in Busy
    <3>1. PICK r \in Replica : loop[r].pc \in Busy
      BY <2>2
    <3>2. /\ loop[r].ran <= JobLimit
          /\ overdue > 0 => overdue <= Lease + MinWait + 1 + loop[r].ran
      BY <2>1, <3>1 DEF PromptInv, SlotInv, WokenInv
    <3> QED
      BY <2>1, <3>2, PromptTypes, Times
  <2>3. CASE \A r \in Replica : loop[r].pc \notin Busy
    <3>1. overdue > 0 => overdue <= Lease + MinWait + 1
      BY <2>1, <2>3 DEF PromptInv, WokenInv
    <3> QED
      BY <2>1, <3>1, PromptTypes, Times
  <2> QED
    BY <2>2, <2>3
<1>2. CrashInv /\ [Next]_vars => CrashInv'
  BY CrashStep
<1> QED
  BY <1>1, <1>2, CrashInit, PTL DEF Spec
=============================================================================

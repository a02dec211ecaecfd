----------------------------- MODULE SchedulerJob -----------------------------
(***************************************************************************)
(* ingestion/scheduler.py: the loop _run_guarded of one ingestion job in   *)
(* every scheduler replica.  The replicas share one Valkey key, the slot:  *)
(* SET NX takes it for the running lease, and whoever finished overwrites  *)
(* it with the time to the next run.  The key's value is "1" for everyone, *)
(* so a replica cannot tell its own lease from another's, and the lease is *)
(* not renewed while the job runs.                                         *)
(*                                                                         *)
(* Time is counted down: the slot, the cooldown and the sleeps hold the    *)
(* seconds they have left.  The job is a fetch from the provider and one   *)
(* database transaction; the event published after it swallows its own     *)
(* errors and ends the job in any case.  A failure is written to the       *)
(* health row and published as provider.degraded before the slot is set.   *)
(* Operators named X_Slip... are plausible mistakes in X that nothing uses.*)
(***************************************************************************)
EXTENDS Integers, FiniteSets

CONSTANTS
  Replica,     \* scheduler processes
  Lease,       \* _RUNNING_LEASE_SECONDS
  Interval,    \* interval_seconds of the job
  FirstRetry,  \* _FIRST_RETRY_SECONDS
  MinWait,     \* the 5 seconds of _acquire_slot
  Cooldown,    \* seconds the provider client refuses a second fetch, 0: never
  JobLimit,    \* bound: longest run, with its reports
  MaxFailures, \* failures past which the retry delay no longer grows
  MaxCrashes,  \* bound: crashes of replicas
  MaxLost      \* bound: commands, health writes and events that raise

ASSUME SchedulerAssumption ==
  /\ {Lease, Interval, FirstRetry, MinWait, MaxFailures} \subseteq Nat \ {0}
  /\ {Cooldown, JobLimit, MaxCrashes, MaxLost} \subseteq Nat
  /\ FirstRetry * 2 ^ (MaxFailures - 1) >= Interval

VARIABLES
  slot,      \* seconds left of scheduler:lock:<job>, 0: no such key
  cooldown,  \* seconds left of the provider client's cooldown key
  loop,      \* loop[r]: state of _run_guarded in r
  health,    \* status of the job's provider_health row
  crashes,   \* crashes so far
  lost,      \* commands, health writes and events that raised so far
  quiet,     \* history: seconds before which the last finisher wants no run
  broken,    \* history: whether the run that finished last failed
  announced, \* history: whether the last run was published as degraded
  overdue    \* history: 0, or 1 + seconds since the last interrupted run

vars == <<slot, cooldown, loop, health, crashes, lost, quiet, broken, announced, overdue>>
history == <<quiet, broken, announced, overdue>>

JobSteps == {"fetch", "commit"}
Busy     == JobSteps \cup {"failed", "publish", "hold_retry", "hold_interval", "report"}

Smaller(a, b) == IF a < b THEN a ELSE b
Larger(a, b)  == IF a > b THEN a ELSE b

\* pc, seconds left to sleep, consecutive_failures, seconds since the slot was
\* taken or its TTL asked for, delay before the retry.
Fresh == [pc |-> "acquire", sleep |-> 0, failures |-> 0, ran |-> 0, delay |-> 0]

Init == /\ slot = 0
        /\ cooldown = 0
        /\ loop = [r \in Replica |-> Fresh]
        /\ health = "unknown"
        /\ crashes = 0 /\ lost = 0
        /\ quiet = 0 /\ broken = FALSE /\ announced = FALSE /\ overdue = 0

\* _retry_delay: the base of the n-th retry and the delays jitter makes of it.
RetryBase(n)   == Smaller(FirstRetry * 2 ^ Smaller(n - 1, 10), Interval)
RetryDelays(n) == (4 * RetryBase(n)) \div 5 .. (6 * RetryBase(n)) \div 5

Goto(r, pc)  == [loop EXCEPT ![r].pc = pc]
SleepFor(r, s) == [loop EXCEPT ![r].pc = "acquire", ![r].sleep = s,
                               ![r].ran = 0, ![r].delay = 0]

\* A command or a write goes through, or raises.
Works == lost' = lost
Raises == lost < MaxLost /\ lost' = lost + 1

-----------------------------------------------------------------------------
(* _acquire_slot                                                           *)

\* The lease as long as the interval.
Granted_SlipLease == Interval

Granted == Lease

\* SET without NX.
AcquireSlot_SlipNX(r) ==
  /\ loop[r].pc = "acquire" /\ loop[r].sleep = 0
  /\ Works
  /\ slot' = Granted
  /\ loop' = Goto(r, "fetch")
  /\ UNCHANGED <<cooldown, health, crashes, history>>

\* SET NX EX, or the sleep after an exception of Valkey.
AcquireSlot(r) ==
  /\ loop[r].pc = "acquire" /\ loop[r].sleep = 0
  /\ \/ /\ Works /\ slot = 0
        /\ slot' = Granted
        /\ loop' = Goto(r, "fetch")
     \/ /\ Works /\ slot > 0
        /\ loop' = Goto(r, "ttl")
        /\ slot' = slot
     \/ /\ Raises                     \* executed or not
        /\ slot' \in {slot, IF slot = 0 THEN Granted ELSE slot}
        /\ loop' = SleepFor(r, FirstRetry)
  /\ UNCHANGED <<cooldown, health, crashes, history>>

\* return for continue: the loop ends when the slot is taken.
ReadTTL_SlipReturn(r) ==
  /\ loop[r].pc = "ttl"
  /\ loop' = Goto(r, "ended")
  /\ UNCHANGED <<slot, cooldown, health, crashes, lost, history>>

\* TTL is a second command: the key may be gone by now.
ReadTTL(r) ==
  /\ loop[r].pc = "ttl"
  /\ \/ Works /\ loop' = SleepFor(r, Larger(slot, MinWait))
     \/ Raises /\ loop' = SleepFor(r, FirstRetry)
  /\ UNCHANGED <<slot, cooldown, health, crashes, history>>

-----------------------------------------------------------------------------
(* The job.                                                                *)

\* The exception handler counts the failure and draws the delay.
Fails(r) ==
  LET n == Smaller(loop[r].failures + 1, MaxFailures)
  IN  \E d \in RetryDelays(n) :
        loop' = [loop EXCEPT ![r].pc = "failed", ![r].failures = n,
                             ![r].delay = d]

\* SpaceTrackClient.get_satcat: the day's download is spent.
CooldownActive == cooldown > 0

\* The request.  A cooldown left by an earlier fetch raises before anything
\* is sent; CelesTrak may answer that nothing changed, which ends the job.
JobFetches(r) ==
  /\ loop[r].pc = "fetch"
  /\ announced' = FALSE
  /\ IF CooldownActive
       THEN Fails(r) /\ UNCHANGED <<cooldown, overdue>>
       ELSE /\ overdue' = 0
            /\ \/ loop' = Goto(r, "commit") /\ cooldown' = Cooldown
               \/ loop' = Goto(r, "hold_interval") /\ cooldown' = Cooldown
               \/ Fails(r) /\ cooldown' = cooldown
  /\ UNCHANGED <<slot, health, crashes, lost, quiet, broken>>

\* The upserts of one transaction, then the event.
JobCommits(r) ==
  /\ loop[r].pc = "commit"
  /\ loop' = Goto(r, "hold_interval") \/ Fails(r)
  /\ UNCHANGED <<slot, cooldown, health, crashes, lost, history>>

-----------------------------------------------------------------------------
(* After the job.                                                          *)

\* _provider_health is best effort: its exception is swallowed.
WriteHealth(status) == \/ Works /\ health' = status
                       \/ Raises /\ health' = health

\* Without the write of the error.
ReportFailure_SlipHealth(r) ==
  /\ loop[r].pc = "failed"
  /\ loop' = Goto(r, "publish")
  /\ UNCHANGED <<slot, cooldown, health, crashes, lost, history>>

ReportFailure(r) ==
  /\ loop[r].pc = "failed"
  /\ WriteHealth("error")
  /\ loop' = Goto(r, "publish")
  /\ UNCHANGED <<slot, cooldown, crashes, history>>

\* _publish_event swallows its exception; some webhooks' messages may be out.
PublishDegraded(r) ==
  /\ loop[r].pc = "publish"
  /\ \/ Works /\ announced' = TRUE
     \/ Raises /\ announced' \in {announced, TRUE}
  /\ loop' = Goto(r, "hold_retry")
  /\ UNCHANGED <<slot, cooldown, health, crashes, quiet, broken, overdue>>

\* SET with NX, which leaves the running lease alone.
Hold_SlipNX(seconds) == IF slot = 0 THEN seconds ELSE slot

Hold(seconds) == Larger(seconds, 1)

\* _hold_slot: an unconditional SET EX, whoever holds the slot by now.  Its
\* exception is swallowed, and the command may have been executed all the same.
SetSlot(seconds) ==
  \/ /\ Works \/ Raises
     /\ slot' = Hold(seconds) /\ quiet' = Larger(seconds, 1)
  \/ Raises /\ UNCHANGED <<slot, quiet>>

HoldRetry(r) ==
  /\ loop[r].pc = "hold_retry"
  /\ SetSlot(loop[r].delay)
  /\ loop' = SleepFor(r, loop[r].delay)
  /\ broken' = TRUE
  /\ UNCHANGED <<cooldown, health, crashes, announced, overdue>>

HoldInterval(r) ==
  /\ loop[r].pc = "hold_interval"
  /\ SetSlot(Interval)
  /\ loop' = [Goto(r, "report") EXCEPT ![r].failures = 0]
  /\ broken' = FALSE
  /\ UNCHANGED <<cooldown, health, crashes, announced, overdue>>

ReportSuccess(r) ==
  /\ loop[r].pc = "report"
  /\ WriteHealth("active")
  /\ loop' = SleepFor(r, Interval)
  /\ UNCHANGED <<slot, cooldown, crashes, history>>

-----------------------------------------------------------------------------
(* The environment.                                                        *)

\* The process stops anywhere in the loop; the keys stay.
Crash(r) ==
  /\ crashes < MaxCrashes
  /\ loop[r].pc # "down"
  /\ loop' = [loop EXCEPT ![r] = [Fresh EXCEPT !.pc = "down"]]
  /\ crashes' = crashes + 1
  /\ overdue' = IF loop[r].pc \in JobSteps THEN 1 ELSE overdue
  /\ UNCHANGED <<slot, cooldown, health, lost, quiet, broken, announced>>

\* The orchestrator starts it again; consecutive_failures was in memory.
Restart(r) ==
  /\ loop[r].pc = "down"
  /\ loop' = [loop EXCEPT ![r] = Fresh]
  /\ UNCHANGED <<slot, cooldown, health, crashes, lost, history>>

Down(n) == IF n > 0 THEN n - 1 ELSE 0

\* The bound up to which overdue is counted; it is past any promise.
OverdueMax == Lease + MinWait + JobLimit + 2

\* A second passes.  Replicas act as soon as their sleep is over; the TTL
\* command takes at most a second.
Tick ==
  /\ \A r \in Replica : /\ loop[r].pc = "acquire" => loop[r].sleep > 0
                        /\ loop[r].pc = "ttl" => loop[r].ran = 0
                        /\ loop[r].pc \in Busy => loop[r].ran < JobLimit
  /\ slot' = Down(slot)
  /\ cooldown' = Down(cooldown)
  /\ quiet' = Down(quiet)
  /\ overdue' = IF overdue > 0 /\ \E r \in Replica : loop[r].pc # "down"
                  THEN Smaller(overdue + 1, OverdueMax) ELSE overdue
  /\ loop' = [r \in Replica |->
                [loop[r] EXCEPT !.sleep = Down(@),
                                !.ran = IF loop[r].pc \in Busy \cup {"ttl"}
                                          THEN @ + 1 ELSE 0]]
  /\ UNCHANGED <<health, crashes, lost, broken, announced>>

LoopStep(r) ==
  \/ AcquireSlot(r) \/ ReadTTL(r) \/ JobFetches(r) \/ JobCommits(r)
  \/ ReportFailure(r) \/ PublishDegraded(r) \/ HoldRetry(r) \/ HoldInterval(r)
  \/ ReportSuccess(r)

Next == Tick \/ \E r \in Replica : LoopStep(r) \/ Crash(r) \/ Restart(r)

Spec == Init /\ [][Next]_vars

\* The event loop goes on, awaited calls return (HTTP reads and SQL statements
\* have timeouts), the orchestrator restarts what stopped, time passes.
Fairness == /\ WF_vars(Tick)
            /\ \A r \in Replica : WF_vars(LoopStep(r)) /\ WF_vars(Restart(r))

FairSpec == Spec /\ Fairness

-----------------------------------------------------------------------------
(* Properties.                                                             *)

StartsRun(r) == loop[r].pc = "acquire" /\ loop'[r].pc = "fetch"

\* Only one replica runs the job (_acquire_slot).  It holds while no run
\* outlives the lease.
SingleRunner == Cardinality({r \in Replica : loop[r].pc \in JobSteps}) <= 1

\* Nobody starts the job earlier than the last _hold_slot that Valkey executed
\* asked for: the interval after a success, the replica's delay after a failure.
StartsArePaced == [][\A r \in Replica : StartsRun(r) => quiet = 0]_vars

\* After a run is interrupted by a crash the provider is asked again within
\* the lease, one minimal wait, the length of a run with its reports (JobLimit)
\* and a second, not after the interval, while any replica is up and no command
\* was lost (_RUNNING_LEASE_SECONDS).
CrashRetriesSoon == lost = 0 => overdue <= Lease + MinWait + JobLimit + 1

\* When no run and no report is under way, the provider's health is that of
\* the run that finished last, whichever replica it ran in, and its event was
\* published exactly if it failed, until a crash or a lost command, write or
\* event leaves a report out (the order of reports and slot in _run_guarded).
HealthShowsLastRun ==
  /\ crashes = 0 /\ lost = 0
  /\ \A r \in Replica : loop[r].pc \notin Busy
  => /\ broken => health = "error"
     /\ health = "error" => broken
     /\ announced <=> broken

\* The job is run again and again, whatever crashed or failed before.
JobRunsForever == []<><<\E r \in Replica : StartsRun(r)>>_vars
=============================================================================

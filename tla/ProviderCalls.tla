---------------------------- MODULE ProviderCalls -----------------------------
(***************************************************************************)
(* providers/transport.py as one ingestion job uses it: a run of the job   *)
(* makes its calls side by side (asyncio.gather in ingestion/scheduler.py),*)
(* each with three attempts, and closes the transport as soon as one       *)
(* raises.  Failures are counted in Valkey under a key that lives for a    *)
(* window, and enough of them open a circuit that turns later calls away.  *)
(*                                                                         *)
(* A tick is the shortest pause between two runs (60 s less the jitter of  *)
(* SchedulerJob, 48 s).  TTLs are counted down, so that no time is         *)
(* absolute, and the pauses are only assumed to last a tick at least.      *)
(* Operators named X_Slip... are plausible mistakes in X that nothing      *)
(* uses.                                                                   *)
(***************************************************************************)
EXTENDS Integers, FiniteSets

CONSTANTS
  Call,        \* the calls of one run
  Concurrency, \* concurrency of the transport
  Clients,     \* 2 with a proxy to try first, otherwise 1
  Attempts,    \* range(3)
  Threshold,   \* _CIRCUIT_FAILURE_THRESHOLD
  Window,      \* _CIRCUIT_FAILURE_WINDOW_SECONDS, in ticks
  Open,        \* _CIRCUIT_OPEN_SECONDS, in ticks
  MaxFaults    \* bound: exceptions of Valkey, and crashes

ASSUME CallsAssumption ==
  /\ IsFiniteSet(Call) /\ Call # {}
  /\ {Concurrency, Clients, Attempts, Threshold, Window, Open} \subseteq Nat \ {0}
  /\ Window <= Open /\ MaxFaults \in Nat

VARIABLES
  run,      \* the job: "resting", "gathering" or, after an exception, "raised"
  rested,   \* the pause before the next run is over
  closed,   \* client.close() has run
  call,     \* call[c]: where get_bytes is, its attempt, client and INCR's reply
  failures, \* the key of failures: its value and TTL
  open,     \* TTL of the key of the circuit, 0: no such key
  faults,   \* faults so far
  recorded, \* history: recorded[a] failures counted a ticks ago
  passed    \* history: attempts begun since the circuit opened

vars == <<run, rested, closed, call, failures, open, faults, recorded, passed>>
job  == <<run, rested, closed>>

NoTtl  == -1
NoKey  == [n |-> 0, ttl |-> NoTtl]
Ended  == [pc |-> "ended", attempt |-> 0, client |-> 0, n |-> 0]
Ages   == 0 .. Window - 1

Init == /\ run = "resting" /\ rested = TRUE /\ closed = FALSE
        /\ call = [c \in Call |-> Ended]
        /\ failures = NoKey /\ open = 0 /\ faults = 0
        /\ recorded = [a \in Ages |-> 0] /\ passed = 0

At(c, pc)  == call[c].pc = pc
Goto(c, pc) == call' = [call EXCEPT ![c].pc = pc]
Fault      == faults < MaxFaults /\ faults' = faults + 1

Returns(c) == call' = [call EXCEPT ![c] = Ended]
\* gather passes the first exception on, whatever the other calls do.
Raises(c)  == Returns(c) /\ run' = "raised"

-----------------------------------------------------------------------------
(* The job's run.                                                          *)

Start ==
  /\ run = "resting" /\ rested
  /\ run' = "gathering" /\ rested' = FALSE /\ closed' = FALSE
  /\ call' = [c \in Call |-> [Ended EXCEPT !.pc = "check"]]
  /\ UNCHANGED <<failures, open, faults, recorded, passed>>

\* finally: client.close(), while other calls may be under way.
Close ==
  /\ run = "raised" /\ ~closed
  /\ closed' = TRUE
  /\ UNCHANGED <<run, rested, call, failures, open, faults, recorded, passed>>

Rest ==
  /\ run = "gathering" \/ closed
  /\ run # "resting" /\ \A c \in Call : At(c, "ended")
  /\ run' = "resting" /\ closed' = TRUE
  /\ UNCHANGED <<rested, call, failures, open, faults, recorded, passed>>

Crash ==
  /\ run # "resting" /\ Fault
  /\ run' = "resting" /\ rested' = FALSE /\ closed' = TRUE
  /\ call' = [c \in Call |-> Ended]
  /\ UNCHANGED <<failures, open, recorded, passed>>

\* The commands of one _record_failure follow each other within a tick.
Tick ==
  /\ \A c \in Call : call[c].pc \notin {"expire", "set"}
  /\ rested' = (run = "resting")
  /\ failures' = CASE failures.ttl = NoTtl -> failures
                   [] failures.ttl = 1 -> NoKey
                   [] OTHER -> [failures EXCEPT !.ttl = @ - 1]
  /\ open' = IF open \in {0, NoTtl} THEN open ELSE open - 1
  /\ recorded' = [a \in Ages |-> IF a = 0 THEN 0 ELSE recorded[a - 1]]
  /\ passed' = IF open' = 0 THEN 0 ELSE passed
  /\ UNCHANGED <<run, closed, call, faults>>

-----------------------------------------------------------------------------
(* get_bytes.                                                              *)

\* Whether the key exists; when Valkey fails the circuit counts as closed.
CircuitIsOpen(says) == \/ says = (open # 0) /\ faults' = faults
                       \/ ~says /\ Fault

\* The circuit is checked once, before the wait for the semaphore.
Check(c) ==
  /\ At(c, "check")
  /\ \/ CircuitIsOpen(TRUE) /\ Raises(c)
     \/ CircuitIsOpen(FALSE) /\ Goto(c, "queue") /\ run' = run
  /\ UNCHANGED <<rested, closed, failures, open, recorded, passed>>

Holders == {c \in Call : call[c].pc \notin {"ended", "check", "queue"}}

\* How many attempts an open circuit may let through; one more is counted.
Leak == (Cardinality(Call) - 1 + faults) * Attempts

\* A read is begun with the first client.
Attempt(c, n) ==
  /\ call' = [call EXCEPT ![c].pc = "read", ![c].attempt = n, ![c].client = 1]
  /\ passed' = IF open # 0 /\ ~closed /\ passed <= Leak THEN passed + 1 ELSE passed
  /\ UNCHANGED <<job, failures, open, faults, recorded>>

Enter(c) ==
  /\ At(c, "queue") /\ Cardinality(Holders) < Concurrency
  /\ Attempt(c, 1)

Wake(c) ==
  /\ At(c, "sleep")
  /\ Attempt(c, call[c].attempt + 1)

\* No limit on the attempts.
Retry_SlipForever(c) ==
  /\ call' = [call EXCEPT ![c].pc = "sleep", ![c].attempt = 1]
  /\ UNCHANGED <<job, failures, open, faults, recorded, passed>>

\* Time-outs, broken connections and statuses from 500 on: again after a
\* pause, and recorded after the last attempt.
Retry(c) ==
  /\ Goto(c, IF call[c].attempt = Attempts THEN "incr" ELSE "sleep")
  /\ UNCHANGED <<job, failures, open, faults, recorded, passed>>

\* The connection was not made: the next client, if there is one.
NextClient(c) ==
  /\ call[c].client < Clients
  /\ call' = [call EXCEPT ![c].client = @ + 1]
  /\ UNCHANGED <<job, failures, open, faults, recorded, passed>>

\* What the provider's reply, or its absence, does to the call.
Read(c) ==
  /\ At(c, "read") /\ ~closed
  /\ \/ /\ \/ Goto(c, "clear")
           \/ Goto(c, "incr")           \* 429, and the other 4xx: no retry
        /\ UNCHANGED <<job, failures, open, faults, recorded, passed>>
     \/ NextClient(c)
     \/ Retry(c)
     \/ /\ Raises(c)                    \* too large: neither retried nor recorded
        /\ UNCHANGED <<rested, closed, failures, open, faults, recorded, passed>>

\* A closed client raises RuntimeError, which get_bytes does not record; for a
\* read that was under way the connection breaks.
ReadClosed(c) ==
  /\ At(c, "read") /\ closed
  /\ \/ Retry(c)
     \/ /\ Raises(c)
        /\ UNCHANGED <<rested, closed, failures, open, faults, recorded, passed>>

-----------------------------------------------------------------------------
(* _clear_failures and _record_failure; their exceptions are swallowed.    *)

Clear(c) ==
  /\ At(c, "clear")
  /\ Returns(c)
  /\ \/ failures' = NoKey /\ faults' = faults
     \/ failures' = failures /\ Fault
  /\ UNCHANGED <<job, open, recorded, passed>>

\* What follows a command of _record_failure that returned n.
Proceed(c, n, pc) ==
  IF pc = "ended"
    THEN Raises(c)
    ELSE call' = [call EXCEPT ![c].pc = pc, ![c].n = n] /\ run' = run

\* Bound: above the threshold all counts are alike.
Counted(n) == IF n = Threshold THEN n ELSE n + 1

\* Every failure would start the window again.
Incr_SlipWindow(c) ==
  LET n == Counted(failures.n)
  IN  /\ At(c, "incr")
      /\ failures' = [failures EXCEPT !.n = n]
      /\ recorded' = [recorded EXCEPT ![0] = @ + 1]
      /\ Proceed(c, n, "expire")
      /\ UNCHANGED <<rested, closed, open, faults, passed>>

\* EXPIRE follows the INCR that created the key.
Incr(c) ==
  LET n == Counted(failures.n)
  IN  /\ At(c, "incr")
      /\ failures' = [failures EXCEPT !.n = n]
      /\ recorded' = [recorded EXCEPT ![0] = @ + 1]
      /\ Proceed(c, n, CASE n = 1 -> "expire"
                         [] n > 1 /\ n >= Threshold -> "set"
                         [] OTHER -> "ended")
      /\ UNCHANGED <<rested, closed, open, faults, passed>>

Expire(c) ==
  /\ At(c, "expire")
  /\ failures' = IF failures.n = 0 THEN failures ELSE [failures EXCEPT !.ttl = Window]
  /\ Proceed(c, call[c].n, IF call[c].n >= Threshold THEN "set" ELSE "ended")
  /\ UNCHANGED <<rested, closed, open, faults, recorded, passed>>

\* SET without EX.
Set_SlipEx(c) ==
  /\ At(c, "set")
  /\ open' = NoTtl
  /\ Raises(c)
  /\ UNCHANGED <<rested, closed, failures, faults, recorded, passed>>

Set(c) ==
  /\ At(c, "set")
  /\ open' = Open
  /\ Raises(c)
  /\ UNCHANGED <<rested, closed, failures, faults, recorded, passed>>

\* The rest of _record_failure is skipped.
RecordFails(c) ==
  /\ call[c].pc \in {"incr", "expire", "set"} /\ Fault
  /\ Raises(c)
  /\ UNCHANGED <<rested, closed, failures, open, recorded, passed>>

Step(c) == \/ Check(c) \/ Enter(c) \/ Wake(c) \/ Read(c) \/ ReadClosed(c)
           \/ Clear(c) \/ Incr(c) \/ Expire(c) \/ Set(c)

Next == \/ Start \/ Close \/ Rest \/ Crash \/ Tick
        \/ \E c \in Call : Step(c) \/ RecordFails(c)

Spec == Init /\ [][Next]_vars

\* Time passes, and the event loop runs every call and the job.
FairSpec == /\ Spec
            /\ WF_vars(Tick) /\ WF_vars(Close) /\ WF_vars(Rest)
            /\ \A c \in Call : WF_vars(Step(c))

-----------------------------------------------------------------------------
(* Properties.                                                             *)

\* The failures of the last window.
Recorded == UNION {{a} \X (1 .. recorded[a]) : a \in Ages}

\* "a 10-minute circuit after five failures in five minutes": as long as no
\* command of Valkey failed and no process crashed between INCR and EXPIRE,
\* the circuit is opened by failures of the last window only, however calls,
\* successes and expirations interleave.
OpeningsAreEarned ==
  [][open' > open /\ faults = 0 => Cardinality(Recorded) >= Threshold]_vars

\* An open circuit spares the provider: only calls that had passed the check
\* before, and calls that could not reach Valkey, make attempts.
CircuitShields == passed <= Leak

\* The circuit cannot hold itself open: a job that goes on failing reaches the
\* provider again.
CircuitCloses == open # 0 ~> open = 0
=============================================================================

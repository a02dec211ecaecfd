------------------------------ MODULE CacheLayer ------------------------------
(***************************************************************************)
(* core/cache_layer.py: the read-through cache that every API process      *)
(* keeps in Valkey.  A call of cached() runs a script that answers from    *)
(* the entry or takes the entry's lock under the call's own token; the     *)
(* lock's owner computes the value from the database and stores it with a  *)
(* script that checks the token.  The lock is a lease of Lease seconds     *)
(* that nobody renews, and the computation may take longer.                *)
(*                                                                         *)
(* One action is one command executed by Valkey or one turn of the event   *)
(* loop.  A call and its uuid4 token are the same thing: a member of Call. *)
(* The content of an entry is the version of the database it was computed  *)
(* from.  All processes and Valkey read one clock, in whole seconds.       *)
(*                                                                         *)
(* An operator named X_Slip... is a plausible mistake in X.  Nothing uses  *)
(* it: it is there to put in X's place and see the properties fail.        *)
(***************************************************************************)
EXTENDS Integers, Sequences, FiniteSets

CONSTANTS
  Key,            \* cache keys
  Call,           \* calls of cached(); each is made once, as each token is
  NoCall,         \* owner of a lock nobody holds
  Process,        \* API processes
  KeyOf,          \* KeyOf[c]: key that c asks for
  ProcessOf,      \* ProcessOf[c]: process that c runs in
  TTL, Stale,     \* arguments ttl and stale of cached()
  Lease,          \* EX of the lock, 15 in the scripts
  ComputeTimeout, \* settings.cache_compute_timeout_seconds
  WaitTimeout,    \* settings.cache_wait_timeout_seconds
  RefreshLimit,   \* settings.cache_background_refresh_limit
  Faults,         \* what may go wrong: a subset of FaultKinds
  MaxDelay,       \* bound: seconds a command waits for Valkey
  MaxTime,        \* bound: the clock stops here
  LastStart,      \* bound: no call starts later
  MaxVersion      \* bound: database versions per key

FaultKinds == {"evict", "invalidate", "stop", "valkey"}

ASSUME CallAssumption ==
  /\ NoCall \notin Call
  /\ KeyOf \in [Call -> Key]
  /\ ProcessOf \in [Call -> Process]
  /\ Faults \subseteq FaultKinds

\* cached() raises ValueError unless ttl > 0 and stale >= ttl.
ASSUME TimeAssumption ==
  /\ {TTL, Stale, Lease, ComputeTimeout, WaitTimeout} \subseteq Nat \ {0}
  /\ {RefreshLimit, MaxDelay, MaxTime, LastStart, MaxVersion} \subseteq Nat
  /\ TTL <= Stale

VARIABLES
  now,        \* the clock
  data,       \* data[k]: the hash cache:v1:k with its expiry
  lock,       \* lock[k]: the string cache:v1:lock:k with its expiry
  superseded, \* superseded[k][v]: when version v of k stopped being current
  floor,      \* history: newest version stored or invalidated so far
  call,       \* call[c]: progress of cached() or of its background task
  reply       \* reply[c]: what the caller got

vars == <<now, data, lock, superseded, floor, call, reply>>

NoData  == [version |-> 0, stored_at |-> 0, expires |-> 0]
NoLock  == [owner |-> NoCall, expires |-> 0]
NoReply == [path |-> "none", version |-> 0]

Current(k) == Len(superseded[k]) + 1

\* since: the time.time() taken before the pending command, or the moment
\* the pending wait or computation began.
Idle == [pc |-> "idle", since |-> 0, version |-> 0, background |-> FALSE,
         asked |-> 0]

Pending == {"read", "wait", "compute", "store", "unlock"}

Limit == [pc \in Pending |-> CASE pc = "wait"    -> WaitTimeout
                               [] pc = "compute" -> ComputeTimeout
                               [] OTHER          -> MaxDelay]

Init == /\ now = 0
        /\ data = [k \in Key |-> NoData]
        /\ lock = [k \in Key |-> NoLock]
        /\ superseded = [k \in Key |-> <<>>]
        /\ floor = [k \in Key |-> 0]
        /\ call = [c \in Call |-> Idle]
        /\ reply = [c \in Call |-> NoReply]

-----------------------------------------------------------------------------
(* Steps of a call.                                                        *)

Goto(c, pc) == [call[c] EXCEPT !.pc = pc, !.since = now]
Ended(c)    == [Idle EXCEPT !.pc = "end", !.asked = call[c].asked]
Answer(c, path, v) == [reply EXCEPT ![c] = [path |-> path, version |-> v]]

\* The task of c ends; a caller that still waits gets path and v.
Finish(c, path, v) ==
  /\ call' = [call EXCEPT ![c] = Ended(c)]
  /\ reply' = IF call[c].background THEN reply ELSE Answer(c, path, v)

BackgroundTasks(p) ==
  {d \in Call : ProcessOf[d] = p /\ call[d].background}

Start(c) ==
  /\ call[c].pc = "idle"
  /\ now <= LastStart
  /\ call' = [call EXCEPT ![c] = [Idle EXCEPT !.pc = "read", !.since = now,
                                              !.asked = Current(KeyOf[c])]]
  /\ UNCHANGED <<now, data, lock, superseded, floor, reply>>

\* The lock is set without NX.
ReadState_SlipNX(k, t) ==
  IF data[k] = NoData \/ t - data[k].stored_at > Stale THEN "miss_leader"
  ELSE IF t - data[k].stored_at <= TTL THEN "fresh" ELSE "revalidate"

\* A stale entry is only served by who takes the lock.
ReadState_SlipStale(k, t) ==
  LET age == t - data[k].stored_at
      free == lock[k] = NoLock
  IN  CASE data[k] # NoData /\ age <= TTL           -> "fresh"
        [] data[k] # NoData /\ age > TTL /\ age <= Stale /\ free ->
             "revalidate"
        [] OTHER -> IF free THEN "miss_leader" ELSE "miss_wait"

\* What the script _READ_LUA returns to a caller that read the clock at t.
ReadState(k, t) ==
  LET age == t - data[k].stored_at
      free == lock[k] = NoLock
  IN  CASE data[k] # NoData /\ age <= TTL   -> "fresh"
        [] data[k] # NoData /\ age > TTL /\ age <= Stale ->
             IF free THEN "revalidate" ELSE "stale"
        [] OTHER -> IF free THEN "miss_leader" ELSE "miss_wait"

\* The lock is set without EX.
Grant_SlipEX(c) ==
  [lock EXCEPT ![KeyOf[c]] = [owner |-> c, expires |-> MaxTime + 1]]

Grant(c) == [lock EXCEPT ![KeyOf[c]] = [owner |-> c, expires |-> now + Lease]]

\* > for >= in the test of the limit.
ScheduleRefresh_SlipLimit(c) ==
  LET full == Cardinality(BackgroundTasks(ProcessOf[c])) > RefreshLimit
  IN  [Goto(c, IF full THEN "unlock" ELSE "compute") EXCEPT !.background = TRUE]

\* _schedule_refresh: past the limit the task only gives the lock back.
ScheduleRefresh(c) ==
  LET full == Cardinality(BackgroundTasks(ProcessOf[c])) >= RefreshLimit
  IN  [Goto(c, IF full THEN "unlock" ELSE "compute") EXCEPT !.background = TRUE]

Read(c) ==
  LET k == KeyOf[c]
      state == ReadState(k, call[c].since)
  IN
  /\ call[c].pc = "read"
  /\ lock' = IF state \in {"revalidate", "miss_leader"} THEN Grant(c) ELSE lock
  /\ \/ /\ state \in {"fresh", "stale"}
        /\ Finish(c, state, data[k].version)
     \/ /\ state = "revalidate"
        /\ call' = [call EXCEPT ![c] = ScheduleRefresh(c)]
        /\ reply' = Answer(c, "stale", data[k].version)
     \/ /\ state = "miss_leader"
        /\ call' = [call EXCEPT ![c] = Goto(c, "compute")]
        /\ reply' = reply
     \/ /\ state = "miss_wait"
        /\ call' = [call EXCEPT ![c] = Goto(c, "wait")]
        /\ reply' = reply
     \/ /\ "valkey" \in Faults        \* the script ran, its reply was lost
        /\ Finish(c, "error", 0)
  /\ UNCHANGED <<now, data, superseded, floor>>

\* A poll of the waiting loop finds a value: whatever its age.
WaitHit(c) ==
  /\ call[c].pc = "wait"
  /\ data[KeyOf[c]] # NoData
  /\ Finish(c, "waited", data[KeyOf[c]].version)
  /\ UNCHANGED <<now, data, lock, superseded, floor>>

\* The deadline is never reached while nothing is stored.
WaitGivesUp_SlipDeadline(c) == WaitHit(c)

\* CacheBusyError.
WaitGivesUp(c) ==
  /\ call[c].pc = "wait"
  /\ now - call[c].since >= WaitTimeout
  /\ Finish(c, "busy", 0)
  /\ UNCHANGED <<now, data, lock, superseded, floor>>

\* compute() takes its snapshot of the database.
QueryDatabase(c) ==
  /\ call[c].pc = "compute"
  /\ call[c].version = 0
  /\ call' = [call EXCEPT ![c].version = Current(KeyOf[c])]
  /\ UNCHANGED <<now, data, lock, superseded, floor, reply>>

ComputeReturns(c) ==
  /\ call[c].pc = "compute"
  /\ call[c].version # 0
  /\ call' = [call EXCEPT ![c] = Goto(c, "store")]
  /\ UNCHANGED <<now, data, lock, superseded, floor, reply>>

\* compute() raises, or its value is larger than cache_max_value_bytes.
ComputeFails(c) ==
  /\ call[c].pc = "compute"
  /\ call' = [call EXCEPT ![c] = Goto(c, "unlock")]
  /\ UNCHANGED <<now, data, lock, superseded, floor, reply>>

ComputeTimesOut(c) ==
  /\ now - call[c].since >= ComputeTimeout
  /\ ComputeFails(c)

\* Some lock exists, whoever owns it.
Owns_SlipToken(c) == lock[KeyOf[c]] # NoLock

\* The token check of _STORE_LUA and _UNLOCK_LUA.
Owns(c) == lock[KeyOf[c]].owner = c

\* Under the token check, the value is written and the lock deleted.
StoreUntil(c, expires) ==
  LET k == KeyOf[c] IN
  IF Owns(c)
    THEN /\ data' = [data EXCEPT ![k] =
                       [version   |-> call[c].version,
                        stored_at |-> call[c].since,
                        expires   |-> expires]]
         /\ lock' = [lock EXCEPT ![k] = NoLock]
         /\ floor' = [floor EXCEPT ![k] = call[c].version]
    ELSE UNCHANGED <<data, lock, floor>>

\* HSET without EXPIRE.
StoreScript_SlipExpire(c) == StoreUntil(c, MaxTime + Stale)

\* _STORE_LUA.  Its result is ignored: a refused value is still returned.
StoreScript(c) == StoreUntil(c, now + Stale)

Store(c) ==
  /\ call[c].pc = "store"
  /\ StoreScript(c)
  /\ \/ Finish(c, "computed", call[c].version)
     \/ /\ "valkey" \in Faults        \* the script ran, its reply was lost
        /\ call' = [call EXCEPT ![c] = Goto(c, "unlock")]
        /\ reply' = reply
  /\ UNCHANGED <<now, superseded>>

\* _UNLOCK_LUA, after which the exception goes on to the caller.
Unlock(c) ==
  /\ call[c].pc = "unlock"
  /\ lock' = IF Owns(c) THEN [lock EXCEPT ![KeyOf[c]] = NoLock] ELSE lock
  /\ Finish(c, "error", 0)
  /\ UNCHANGED <<now, data, superseded, floor>>

\* A command raises without having been executed.
ValkeyFails(c) ==
  /\ "valkey" \in Faults
  /\ \/ /\ call[c].pc \in {"read", "wait", "unlock"}
        /\ Finish(c, "error", 0)
     \/ /\ call[c].pc = "store"
        /\ call' = [call EXCEPT ![c] = Goto(c, "unlock")]
        /\ reply' = reply
  /\ UNCHANGED <<now, data, lock, superseded, floor>>

-----------------------------------------------------------------------------
(* Steps of the environment.                                               *)

\* A process stops.  Its tasks are cancelled or killed: CancelledError is no
\* Exception, so no lock is given back.
Stop(p) ==
  LET running == {c \in Call : ProcessOf[c] = p /\ call[c].pc \in Pending}
  IN
  /\ "stop" \in Faults
  /\ running # {}
  /\ call' = [c \in Call |-> IF c \in running THEN Ended(c) ELSE call[c]]
  /\ UNCHANGED <<now, data, lock, superseded, floor, reply>>

\* The scheduler commits new rows.
Publish(k) ==
  /\ Current(k) < MaxVersion
  /\ superseded' = [superseded EXCEPT ![k] = Append(@, now)]
  /\ UNCHANGED <<now, data, lock, floor, call, reply>>

\* invalidate()
Invalidate(k) ==
  /\ "invalidate" \in Faults
  /\ data' = [data EXCEPT ![k] = NoData]
  /\ lock' = [lock EXCEPT ![k] = NoLock]
  /\ floor' = [floor EXCEPT ![k] = Current(k)]
  /\ UNCHANGED <<now, superseded, call, reply>>

\* Valkey runs with maxmemory-policy volatile-lfu: every key here has an
\* expiry, so each may be evicted.
Evict(k) ==
  /\ "evict" \in Faults
  /\ \/ /\ data' = [data EXCEPT ![k] = NoData]
        /\ lock' = lock
     \/ /\ lock' = [lock EXCEPT ![k] = NoLock]
        /\ data' = data
  /\ UNCHANGED <<now, superseded, floor, call, reply>>

\* A second passes; Valkey drops what has expired.  Timers are prompt and
\* commands take at most MaxDelay seconds.
Tick ==
  /\ now < MaxTime
  /\ \A c \in Call : call[c].pc \in Pending =>
                       now - call[c].since < Limit[call[c].pc]
  /\ now' = now + 1
  /\ data' = [k \in Key |-> IF data[k].expires <= now' THEN NoData ELSE data[k]]
  /\ lock' = [k \in Key |-> IF lock[k].expires <= now' THEN NoLock ELSE lock[k]]
  /\ UNCHANGED <<superseded, floor, call, reply>>

CallStep(c) ==
  \/ Start(c) \/ Read(c) \/ WaitHit(c) \/ WaitGivesUp(c)
  \/ QueryDatabase(c) \/ ComputeReturns(c) \/ ComputeFails(c)
  \/ ComputeTimesOut(c) \/ Store(c) \/ Unlock(c) \/ ValkeyFails(c)

Next == \/ Tick
        \/ \E c \in Call : CallStep(c)
        \/ \E p \in Process : Stop(p)
        \/ \E k \in Key : Publish(k) \/ Invalidate(k) \/ Evict(k)

Spec == Init /\ [][Next]_vars

\* The event loop runs every ready task, its timers fire, Valkey answers
\* every command, and time passes.  Nothing makes compute() return.
Fairness == /\ WF_vars(Tick)
            /\ \A c \in Call : /\ WF_vars(Read(c)) /\ WF_vars(WaitGivesUp(c))
                               /\ WF_vars(ComputeTimesOut(c))
                               /\ WF_vars(Store(c)) /\ WF_vars(Unlock(c))

FairSpec == Spec /\ Fairness

-----------------------------------------------------------------------------
(* What cache_layer.py must guarantee.                                     *)

Replied(c) == reply'[c] # reply[c]
Computing(k) == {c \in Call : KeyOf[c] = k /\ call[c].pc = "compute"}

\* The state of every entry, lock, task and answer has the form the scripts
\* and cached() give it.
TypeOK ==
  /\ now \in Nat
  /\ data \in [Key -> [version : Nat, stored_at : Nat, expires : Nat]]
  /\ lock \in [Key -> [owner : Call \cup {NoCall}, expires : Nat]]
  /\ superseded \in [Key -> Seq(Nat)]
  /\ floor \in [Key -> Nat]
  /\ call \in [Call -> [pc : Pending \cup {"idle", "end"}, since : Nat,
                        version : Nat, background : BOOLEAN, asked : Nat]]
  /\ reply \in [Call -> [path : {"none", "fresh", "stale", "waited",
                                 "computed", "busy", "error"},
                         version : Nat]]

\* Why stores never go back.  A snapshot is taken only after its lock was
\* granted, and while a call owns the lock nobody else can raise the floor: so
\* an owner's snapshot is never below the floor (_READ_LUA grants the lock,
\* _STORE_LUA checks it).
SnapshotInv ==
  /\ \A k \in Key : /\ floor[k] <= Current(k)
                    /\ lock[k].owner \in Call => KeyOf[lock[k].owner] = k
  /\ \A c \in Call :
       /\ call[c].version <= Current(KeyOf[c])
       /\ call[c].pc \in {"idle", "read", "wait"} => call[c].version = 0
       /\ call[c].pc = "store" => call[c].version # 0
       /\ Owns(c) /\ call[c].version # 0 => call[c].version >= floor[KeyOf[c]]

\* A computation that outlived its lease, or was overtaken by invalidate(),
\* never overwrites what a later one stored: a version that enters an entry
\* is at least as new as every version stored before and as the database was
\* at the last invalidation (the token check of _STORE_LUA).
StoresNeverGoBack ==
  [][\A k \in Key : data'[k] # data[k] /\ data'[k] # NoData
                      => data'[k].version >= floor[k]]_vars

\* Whatever the cache answers was the database's content less than
\* Stale + Lease seconds before: the entry's expiry starts at the store, the
\* snapshot is at most one lease older (EXPIRE of _STORE_LUA, EX of the lock).
CacheAnswersBounded ==
  [][\A c \in Call :
       Replied(c) /\ reply'[c].path \in {"fresh", "stale", "waited"} =>
         LET k == KeyOf[c]
             v == reply'[c].version
         IN  \/ v = Current(k)
             \/ superseded[k][v] + Stale + Lease > now]_vars

\* What a caller gets that waited for another caller's fill was written after
\* it began to wait, or is a leftover that became too stale to serve less than
\* MaxDelay seconds ago.  There are such leftovers because an entry is dated
\* before its script runs and kept Stale seconds after; the polling loop of
\* cached() looks at no age.
WaitersGetTheFill ==
  [][\A c \in Call :
       Replied(c) /\ reply'[c].path = "waited" =>
         LET entry == data[KeyOf[c]]
             late  == now - (entry.stored_at + Stale)
         IN  \/ entry.expires - Stale >= call[c].since
             \/ 0 < late /\ late < MaxDelay]_vars

\* A lock goes only by its owner's own step, by expiry, eviction or
\* invalidate(): a late _UNLOCK_LUA or _STORE_LUA leaves the next owner's lock alone.
HolderKeepsLock ==
  [][\A k \in Key :
       lock[k] # NoLock /\ lock'[k] # lock[k] =>
         \/ now' >= lock[k].expires
         \/ call'[lock[k].owner] # call[lock[k].owner]
         \/ Invalidate(k) \/ Evict(k)]_vars

\* At most one computation per key runs at a time, over all processes (the
\* single-flight lock); it needs ComputeTimeout < Lease and a lock that
\* nothing but its owner removes.
SingleFlight == \A k \in Key : Cardinality(Computing(k)) <= 1

\* _schedule_refresh never has more than cache_background_refresh_limit
\* computations going in one process, for all its keys together.
RefreshesLimited ==
  \A p \in Process :
    Cardinality({c \in BackgroundTasks(p) : call[c].pc = "compute"})
      <= RefreshLimit

\* Every call of cached() and every refresh task ends: a value, CacheBusyError
\* or another exception (the waiting deadline, the wait_for of compute()).
EveryCallEnds == \A c \in Call : call[c].pc = "read" ~> call[c].pc = "end"

\* A lock whose owner was cancelled, died or lost its connection does not
\* block the key for ever (EX of the lock).
LockComesFree == \A k \in Key, c \in Call :
                   lock[k].owner = c ~> lock[k].owner # c

Contract == INSTANCE CacheContract
              WITH source  <- [k \in Key |-> Current(k)],
                   content <- [k \in Key |-> data[k].version],
                   asked   <- [c \in Call |-> call[c].asked],
                   answer  <- [c \in Call |-> reply[c].version]

\* The locks, leases and tokens implement the contract of the cache.
ImplementsContract == Contract!CSpec
=============================================================================

--------------------------- MODULE CacheLayerProofs ---------------------------
(***************************************************************************)
(* Theorems about CacheLayer for every set of keys, calls and processes    *)
(* and every value of the times and limits.                                *)
(*                                                                         *)
(* The tokens: an owner that has taken its snapshot took it after the lock *)
(* was granted, so that it is no older than the floor, the newest value    *)
(* stored or last invalidated (SnapshotInv). The refinement of             *)
(* CacheContract rests on that and on what each call knows at each of its  *)
(* awaits (ProgressInv).                                                   *)
(*                                                                         *)
(* The clock: an owner stores before its lease ends (AgeInv); a            *)
(* computation that is shorter than the lease still holds it (FlightInv);  *)
(* a waiting caller finds what was stored after it began to wait, or what  *)
(* is too stale but not dropped yet (WaitInv). The refresh limit is a      *)
(* count of the tasks that compute (RefreshInv).                           *)
(***************************************************************************)
EXTENDS CacheLayer, FiniteSetTheorems, TLAPS

CallRecord == [pc : Pending \cup {"idle", "end"}, since : Nat, version : Nat,
               background : BOOLEAN, asked : Nat]

\* The records that end a call or take it to its next await.
LEMMA NextRecords ==
  ASSUME TypeOK, NEW c \in Call
  PROVE  /\ Ended(c) \in CallRecord
         /\ \A pc \in Pending : Goto(c, pc) \in CallRecord
         /\ ScheduleRefresh(c) \in CallRecord
<1>1. call[c] \in CallRecord /\ now \in Nat
  <2>1. now \in Nat /\ call \in [Call -> CallRecord]
    BY DEF TypeOK, CallRecord
  <2>q. QED
    BY <2>1
<1>2. Ended(c) \in CallRecord
  BY <1>1 DEF CallRecord, Ended, Idle
<1>3. ASSUME NEW pc \in Pending PROVE Goto(c, pc) \in CallRecord
  BY <1>1 DEF Goto, CallRecord
<1>4. ScheduleRefresh(c) \in CallRecord
  <2>1. PICK pc \in Pending :
          ScheduleRefresh(c) = [Goto(c, pc) EXCEPT !.background = TRUE]
    BY DEF ScheduleRefresh, Pending
  <2>q. QED
    BY <1>3, <2>1 DEF CallRecord
<1>q. QED
  BY <1>2, <1>3, <1>4

LEMMA NextFields ==
  ASSUME TypeOK, NEW c \in Call
  PROVE  /\ Ended(c).pc = "end" /\ Ended(c).version = 0
         /\ \A pc : Goto(c, pc).pc = pc /\ Goto(c, pc).version = call[c].version
<1>1. Ended(c).pc = "end" /\ Ended(c).version = 0
  BY DEF Ended, Idle
<1>2. \A pc : Goto(c, pc).pc = pc /\ Goto(c, pc).version = call[c].version
  BY DEF TypeOK, Goto
<1>q. QED
  BY <1>1, <1>2

\* A step that puts r in the place of c's record leaves the other calls alone.
LEMMA SetCall ==
  ASSUME TypeOK, NEW c \in Call, NEW r, call' = [call EXCEPT ![c] = r]
  PROVE  call'[c] = r /\ \A d \in Call \ {c} : call'[d] = call[d]
BY DEF TypeOK

\* Every state of the specification has the form TypeOK describes.
LEMMA TypeStep == TypeOK /\ [Next]_vars => TypeOK'
<1> SUFFICES ASSUME TypeOK, [Next]_vars PROVE TypeOK'
  OBVIOUS
<1> USE CallAssumption DEF TypeOK
<1> DEFINE DataType  == [Key -> [version : Nat, stored_at : Nat, expires : Nat]]
           LockType  == [Key -> [owner : Call \cup {NoCall}, expires : Nat]]
           CallType  == [Call -> CallRecord]
           ReplyType == [Call -> [path : {"none", "fresh", "stale", "waited",
                                          "computed", "busy", "error"},
                                  version : Nat]]
<1>0. /\ \A k \in Key : Current(k) \in Nat
      /\ call \in CallType
      /\ Lease \in Nat /\ Stale \in Nat
  <2>1. \A k \in Key : Current(k) \in Nat
    BY DEF Current
  <2>2. call \in CallType
    BY DEF CallRecord
  <2>3. Lease \in Nat /\ Stale \in Nat
    BY TimeAssumption
  <2>q. QED
    BY <2>1, <2>2, <2>3
<1>1. \A c \in Call : /\ Ended(c) \in CallRecord
                      /\ \A pc \in Pending : Goto(c, pc) \in CallRecord
  <2> HIDE DEF TypeOK
  <2>q. QED
    BY NextRecords
<1>2. ASSUME NEW c \in Call PROVE ScheduleRefresh(c) \in CallRecord
  <2> HIDE DEF TypeOK
  <2>q. QED
    BY NextRecords
<1>3. ASSUME NEW c \in Call, NEW r \in CallRecord, call' = [call EXCEPT ![c] = r]
      PROVE  call' \in CallType
  BY <1>0, <1>3
<1>4. ASSUME NEW c \in Call, NEW v \in Nat,
             NEW path \in {"fresh", "stale", "waited", "computed", "busy", "error"},
             Finish(c, path, v)
      PROVE  call' \in CallType /\ reply' \in ReplyType
  <2>1. reply' \in {reply, Answer(c, path, v)} /\ Answer(c, path, v) \in ReplyType
    BY <1>4 DEF Finish, Answer
  <2>q. QED
    BY <1>0, <1>1, <1>4, <2>1 DEF Finish
<1>5. ASSUME call' \in CallType PROVE
        call' \in [Call -> [pc : Pending \cup {"idle", "end"}, since : Nat,
                            version : Nat, background : BOOLEAN, asked : Nat]]
  BY <1>5 DEF CallRecord
<1>6. ASSUME Tick PROVE TypeOK'
  BY <1>6 DEF Tick, NoData, NoLock
<1>7. ASSUME NEW c \in Call, CallStep(c) PROVE TypeOK'
  <2>0. /\ KeyOf[c] \in Key /\ data[KeyOf[c]].version \in Nat
        /\ call[c].version \in Nat /\ call[c].since \in Nat
        /\ now + Lease \in Nat /\ now + Stale \in Nat
    BY <1>0
  <2>1. CASE Start(c)
    BY <2>1, <1>0 DEF Start, Idle, Pending
  <2>2. CASE Read(c)
    <3>1. UNCHANGED <<now, data, superseded, floor>> /\ lock' \in {lock, Grant(c)}
      BY <2>2 DEF Read
    <3>2. Grant(c) \in LockType
      BY <2>0 DEF Grant
    <3>3. call' \in CallType /\ reply' \in ReplyType
      <4>1. CASE \E path \in {"fresh", "stale"} : Finish(c, path, data[KeyOf[c]].version)
        <5>1. CASE Finish(c, "fresh", data[KeyOf[c]].version)
          BY <5>1, <1>4, <2>0
        <5>2. CASE Finish(c, "stale", data[KeyOf[c]].version)
          BY <5>2, <1>4, <2>0
        <5>q. QED
          BY <4>1, <5>1, <5>2
      <4>2. CASE /\ call' = [call EXCEPT ![c] = ScheduleRefresh(c)]
                 /\ reply' = Answer(c, "stale", data[KeyOf[c]].version)
        <5>1. call' \in CallType
          BY <4>2, <1>2, <1>3
        <5>2. reply' \in ReplyType
          BY <4>2, <2>0 DEF Answer
        <5>q. QED
          BY <5>1, <5>2
      <4>3. CASE /\ \E pc \in Pending : call' = [call EXCEPT ![c] = Goto(c, pc)]
                 /\ reply' = reply
        BY <4>3, <1>1, <1>3
      <4>4. CASE Finish(c, "error", 0)
        BY <4>4, <1>4
      <4> HIDE DEF TypeOK, CallType, ReplyType
      <4>q. QED
        BY <2>2, <4>1, <4>2, <4>3, <4>4 DEF Read, Pending
    <3>q. QED
      BY <3>1, <3>2, <3>3, <1>5
  <2>3. CASE WaitHit(c)
    <3>1. /\ Finish(c, "waited", data[KeyOf[c]].version)
          /\ UNCHANGED <<now, data, lock, superseded, floor>>
      BY <2>3 DEF WaitHit
    <3>2. call' \in CallType /\ reply' \in ReplyType
      BY <1>4, <2>0, <3>1
    <3>q. QED
      BY <1>5, <3>1, <3>2
  <2>4. CASE WaitGivesUp(c)
    BY <2>4, <1>4, <1>5 DEF WaitGivesUp
  <2>5. CASE QueryDatabase(c)
    <3> DEFINE r == [call[c] EXCEPT !.version = Current(KeyOf[c])]
    <3>1. /\ call' = [call EXCEPT ![c] = r]
          /\ UNCHANGED <<now, data, lock, superseded, floor, reply>>
      BY <2>5 DEF QueryDatabase
    <3>2. call[c] \in CallRecord /\ Current(KeyOf[c]) \in Nat
      BY <1>0, <2>0
    <3>3. r \in CallRecord
      BY <3>2 DEF CallRecord
    <3>4. call' \in CallType
      BY <1>3, <3>1, <3>3
    <3>q. QED
      BY <1>5, <3>1, <3>4
  <2>6. CASE ComputeReturns(c)
    BY <2>6, <1>1, <1>3, <1>5 DEF ComputeReturns, Pending
  <2>7. CASE ComputeFails(c) \/ ComputeTimesOut(c)
    BY <2>7, <1>1, <1>3, <1>5 DEF ComputeFails, ComputeTimesOut, Pending
  <2>8. CASE Store(c)
    <3>1. /\ UNCHANGED <<now, superseded>>
          /\ data' \in DataType /\ lock' \in LockType /\ floor' \in [Key -> Nat]
      <4>1. CASE Owns(c)
        <5>1. [version |-> call[c].version, stored_at |-> call[c].since,
               expires |-> now + Stale]
                \in [version : Nat, stored_at : Nat, expires : Nat]
          BY <2>0
        <5>2. data' \in DataType
          BY <2>8, <2>0, <4>1, <5>1 DEF Store, StoreScript, StoreUntil
        <5>3. /\ lock' = [lock EXCEPT ![KeyOf[c]] = NoLock]
              /\ floor' = [floor EXCEPT ![KeyOf[c]] = call[c].version]
          BY <2>8, <4>1 DEF Store, StoreScript, StoreUntil
        <5>4. UNCHANGED <<now, superseded>>
          BY <2>8 DEF Store
        <5>q. QED
          BY <2>0, <5>2, <5>3, <5>4 DEF NoLock
      <4>2. CASE ~Owns(c)
        BY <2>8, <4>2 DEF Store, StoreScript, StoreUntil
      <4>q. QED
        BY <4>1, <4>2
    <3>2. CASE Finish(c, "computed", call[c].version)
      BY <3>1, <3>2, <1>4, <1>5, <2>0
    <3>3. CASE call' = [call EXCEPT ![c] = Goto(c, "unlock")] /\ reply' = reply
      BY <3>1, <3>3, <1>1, <1>3, <1>5 DEF Pending
    <3>q. QED
      BY <2>8, <3>2, <3>3 DEF Store
  <2>9. CASE Unlock(c)
    <3>1. UNCHANGED <<now, data, superseded, floor>> /\ lock' \in LockType
      BY <2>9, <2>0 DEF Unlock, NoLock
    <3>q. QED
      BY <2>9, <3>1, <1>4, <1>5 DEF Unlock
  <2>10. CASE ValkeyFails(c)
    <3>1. CASE Finish(c, "error", 0)
      BY <2>10, <3>1, <1>4, <1>5 DEF ValkeyFails
    <3>2. CASE call' = [call EXCEPT ![c] = Goto(c, "unlock")] /\ reply' = reply
      BY <2>10, <3>2, <1>1, <1>3, <1>5 DEF ValkeyFails, Pending
    <3>q. QED
      BY <2>10, <3>1, <3>2 DEF ValkeyFails
  <2>q. QED
    BY <1>7, <2>1, <2>2, <2>3, <2>4, <2>5, <2>6, <2>7, <2>8, <2>9, <2>10
       DEF CallStep
<1>8. ASSUME NEW p \in Process, Stop(p) PROVE TypeOK'
  <2>1. call' \in CallType
    BY <1>8, <1>0, <1>1 DEF Stop
  <2>q. QED
    BY <1>8, <2>1, <1>5 DEF Stop
<1>9. ASSUME NEW k \in Key, Publish(k) PROVE TypeOK'
  BY <1>9 DEF Publish
<1>10. ASSUME NEW k \in Key, Invalidate(k) \/ Evict(k) PROVE TypeOK'
  <2>1. NoLock \in [owner : Call \cup {NoCall}, expires : Nat]
    BY DEF NoLock
  <2>2. NoData \in [version : Nat, stored_at : Nat, expires : Nat]
    BY DEF NoData
  <2>3. CASE Invalidate(k)
    BY <2>1, <2>2, <2>3, <1>0 DEF Invalidate
  <2>4. CASE Evict(k)
    <3>1. data' \in DataType
      BY <2>2, <2>4 DEF Evict
    <3>2. lock' \in LockType
      BY <2>1, <2>4 DEF Evict
    <3>q. QED
      BY <2>4, <3>1, <3>2 DEF Evict
  <2>q. QED
    BY <1>10, <2>3, <2>4
<1>11. CASE UNCHANGED vars
  BY <1>11 DEF vars
<1>q. QED
  BY <1>6, <1>7, <1>8, <1>9, <1>10, <1>11 DEF Next

\* Type correctness of the cache: entries, locks, calls and answers.
THEOREM CacheTypeCorrect == Spec => []TypeOK
<1>1. Init => TypeOK
  BY CallAssumption DEF Init, TypeOK, NoData, NoLock, NoReply, Idle, Pending
<1>q. QED
  BY <1>1, TypeStep, PTL DEF Spec

-----------------------------------------------------------------------------
(* What enters an entry.                                                   *)

\* Versions only grow: Publish appends, nothing else touches superseded.
LEMMA CurrentGrows ==
  ASSUME TypeOK, [Next]_vars
  PROVE  \A k \in Key : Current(k) \in Nat /\ Current(k)' \in Nat
                        /\ Current(k) <= Current(k)'
<1>1. CASE UNCHANGED superseded
  BY <1>1 DEF Current, TypeOK
<1>2. CASE \E k \in Key : Publish(k)
  BY <1>2 DEF Publish, Current, TypeOK
<1>q. QED
  BY <1>1, <1>2
     DEF Next, vars, Tick, CallStep, Start, Read, WaitHit, WaitGivesUp,
         QueryDatabase, ComputeReturns, ComputeFails, ComputeTimesOut, Store,
         Unlock, ValkeyFails, Stop, Invalidate, Evict

\* Each step keeps SnapshotInv.
LEMMA SnapshotStep == TypeOK /\ SnapshotInv /\ [Next]_vars => SnapshotInv'
<1> SUFFICES ASSUME TypeOK, SnapshotInv, [Next]_vars PROVE SnapshotInv'
  OBVIOUS
<1>0. /\ \A c \in Call : KeyOf[c] \in Key /\ c # NoCall
      /\ \A k \in Key : Current(k) \in Nat /\ Current(k)' \in Nat
                        /\ Current(k) <= Current(k)' /\ floor[k] \in Nat
      /\ \A c \in Call : call[c].version \in Nat
      /\ NoLock.owner = NoCall
  BY CallAssumption, CurrentGrows DEF TypeOK, NoLock
\* Steps that grant no lock, take no snapshot and leave the floor alone.
<1>1. ASSUME UNCHANGED floor,
             \A k \in Key : lock'[k].owner \in {lock[k].owner, NoCall},
             \A c \in Call : /\ call'[c].version \in {0, call[c].version}
                             /\ call'[c].pc \in {"idle", "read", "wait"} =>
                                  call'[c].version = 0
                             /\ call'[c].pc = "store" => call'[c].version # 0
      PROVE  SnapshotInv'
  BY <1>0, <1>1, CallAssumption DEF SnapshotInv, Owns
<1>2. ASSUME NEW c \in Call, Read(c) PROVE SnapshotInv'
  <2>1. /\ lock' \in {lock, Grant(c)} /\ UNCHANGED <<floor, superseded>>
        /\ call[c].version = 0
    BY <1>2 DEF Read, SnapshotInv
  <2>2. \E r \in {Ended(c), ScheduleRefresh(c), Goto(c, "compute"), Goto(c, "wait")} :
           call' = [call EXCEPT ![c] = r]
    BY <1>2 DEF Read, Finish
  <2>3. \A r \in {Ended(c), ScheduleRefresh(c), Goto(c, "compute"), Goto(c, "wait")} :
           r.version = 0 /\ r.pc # "store"
    <3>1. \A r \in {Ended(c), Goto(c, "compute"), Goto(c, "wait")} :
             r.version = 0 /\ r.pc # "store"
      BY <2>1, NextFields
    <3>2. ScheduleRefresh(c).version = 0 /\ ScheduleRefresh(c).pc # "store"
      BY <2>1 DEF ScheduleRefresh, Goto, TypeOK
    <3>q. QED
      BY <3>1, <3>2
  <2>4. /\ call'[c].version = 0 /\ call'[c].pc # "store"
        /\ \A d \in Call \ {c} : call'[d] = call[d]
    BY <2>2, <2>3, SetCall
  <2>5. \A k \in Key : \/ lock'[k] = lock[k]
                       \/ k = KeyOf[c] /\ lock'[k].owner = c
    <3>1. \A k \in Key : Grant(c)[k] = IF k = KeyOf[c]
                            THEN [owner |-> c, expires |-> now + Lease]
                            ELSE lock[k]
      BY <1>0 DEF Grant, TypeOK
    <3>2. CASE lock' = Grant(c)
      BY <3>1, <3>2
    <3>q. QED
      BY <2>1, <3>2
  <2>6. \A k \in Key : /\ floor'[k] <= Current(k)'
                       /\ lock'[k].owner \in Call => KeyOf[lock'[k].owner] = k
    BY <1>0, <2>1, <2>5 DEF SnapshotInv, Current
  <2>7. ASSUME NEW d \in Call PROVE
          /\ call'[d].version <= Current(KeyOf[d])'
          /\ call'[d].pc \in {"idle", "read", "wait"} => call'[d].version = 0
          /\ call'[d].pc = "store" => call'[d].version # 0
          /\ Owns(d)' /\ call'[d].version # 0 =>
               call'[d].version >= floor'[KeyOf[d]]
    <3>1. CASE d = c
      BY <1>0, <2>4, <3>1
    <3>2. CASE d # c
      <4>1. Owns(d)' => Owns(d)
        BY <1>0, <2>5, <3>2 DEF Owns
      <4>q. QED
        BY <1>0, <2>1, <2>4, <3>2, <4>1 DEF SnapshotInv, Current
    <3>q. QED
      BY <3>1, <3>2
  <2>q. QED
    BY <2>6, <2>7 DEF SnapshotInv
<1>3. ASSUME NEW c \in Call, QueryDatabase(c) PROVE SnapshotInv'
  <2>1. /\ UNCHANGED <<lock, floor, superseded>>
        /\ call[c].pc = "compute"
        /\ call'[c] = [call[c] EXCEPT !.version = Current(KeyOf[c])]
        /\ \A d \in Call \ {c} : call'[d] = call[d]
    BY <1>3 DEF QueryDatabase, TypeOK
  <2>2. call'[c].version = Current(KeyOf[c]) /\ call'[c].pc = "compute"
    BY <2>1 DEF TypeOK
  <2>3. /\ \A k \in Key : Current(k)' = Current(k)
        /\ \A d \in Call : Owns(d)' <=> Owns(d)
    BY <2>1 DEF Current, Owns
  <2>4. ASSUME NEW d \in Call PROVE
          /\ call'[d].version <= Current(KeyOf[d])'
          /\ call'[d].pc \in {"idle", "read", "wait"} => call'[d].version = 0
          /\ call'[d].pc = "store" => call'[d].version # 0
          /\ Owns(d)' /\ call'[d].version # 0 =>
               call'[d].version >= floor'[KeyOf[d]]
    <3>1. CASE d = c
      <4>1. /\ KeyOf[c] \in Key /\ floor[KeyOf[c]] <= Current(KeyOf[c])
            /\ floor[KeyOf[c]] \in Nat /\ Current(KeyOf[c]) \in Nat
        BY <1>0 DEF SnapshotInv
      <4>2. /\ call'[d].version = Current(KeyOf[d]) /\ call'[d].pc = "compute"
            /\ Current(KeyOf[d])' = Current(KeyOf[d])
            /\ floor'[KeyOf[d]] = floor[KeyOf[d]]
        BY <2>1, <2>2, <2>3, <3>1, <4>1
      <4>q. QED
        BY <3>1, <4>1, <4>2
    <3>2. CASE d # c
      BY <1>0, <2>1, <2>3, <3>2 DEF SnapshotInv
    <3>q. QED
      BY <3>1, <3>2
  <2>q. QED
    BY <1>0, <2>1, <2>3, <2>4 DEF SnapshotInv
\* Only the owner raises the floor, to its own snapshot, and it leaves.
<1>4. ASSUME NEW c \in Call, Store(c) PROVE SnapshotInv'
  <2>1. /\ UNCHANGED superseded /\ StoreScript(c) /\ call[c].pc = "store"
        /\ \E r \in {Ended(c), Goto(c, "unlock")} : call' = [call EXCEPT ![c] = r]
    BY <1>4 DEF Store, Finish
  <2>2. /\ call'[c].version \in {0, call[c].version}
        /\ call'[c].pc \in {"end", "unlock"}
        /\ \A d \in Call \ {c} : call'[d] = call[d]
    <3>1. PICK r \in {Ended(c), Goto(c, "unlock")} : call' = [call EXCEPT ![c] = r]
      BY <2>1
    <3>2. call'[c] = r /\ \A d \in Call \ {c} : call'[d] = call[d]
      BY <3>1, SetCall
    <3>q. QED
      BY <3>1, <3>2, NextFields
  <2>3. CASE Owns(c)
    <3>1. /\ lock' = [lock EXCEPT ![KeyOf[c]] = NoLock]
          /\ floor' = [floor EXCEPT ![KeyOf[c]] = call[c].version]
      BY <2>1, <2>3 DEF StoreScript, StoreUntil
    <3>2. /\ lock'[KeyOf[c]].owner = NoCall
          /\ floor'[KeyOf[c]] = call[c].version
          /\ \A k \in Key \ {KeyOf[c]} : lock'[k] = lock[k] /\ floor'[k] = floor[k]
          /\ \A k \in Key : Current(k)' = Current(k)
      BY <1>0, <2>1, <3>1 DEF TypeOK, Current
    <3>3. \A k \in Key : /\ floor'[k] <= Current(k)'
                         /\ lock'[k].owner \in Call => KeyOf[lock'[k].owner] = k
      BY <1>0, <3>2 DEF SnapshotInv
    <3>4. ASSUME NEW d \in Call PROVE
            /\ call'[d].version <= Current(KeyOf[d])'
            /\ call'[d].pc \in {"idle", "read", "wait"} => call'[d].version = 0
            /\ call'[d].pc = "store" => call'[d].version # 0
      BY <1>0, <2>2, <3>2 DEF SnapshotInv
    <3>5. ASSUME NEW d \in Call, Owns(d)', call'[d].version # 0
          PROVE  call'[d].version >= floor'[KeyOf[d]]
      <4>1. KeyOf[d] # KeyOf[c] /\ d # c
        BY <1>0, <3>2, <3>5 DEF Owns
      <4>q. QED
        BY <1>0, <2>2, <3>2, <3>5, <4>1 DEF SnapshotInv, Owns
    <3>q. QED
      BY <3>3, <3>4, <3>5 DEF SnapshotInv
  <2>4. CASE ~Owns(c)
    BY <1>1, <2>1, <2>2, <2>4 DEF StoreScript, StoreUntil, SnapshotInv
  <2>q. QED
    BY <2>3, <2>4
<1>5. ASSUME NEW k \in Key, Invalidate(k) PROVE SnapshotInv'
  <2>1. /\ UNCHANGED <<call, superseded>>
        /\ lock' = [lock EXCEPT ![k] = NoLock]
        /\ floor' = [floor EXCEPT ![k] = Current(k)]
    BY <1>5 DEF Invalidate
  <2>2. lock'[k].owner = NoCall
    BY <2>1 DEF NoLock, TypeOK
  <2>q. QED
    BY <1>0, <2>1, <2>2, CallAssumption DEF SnapshotInv, Owns, Current, TypeOK
<1>6. ASSUME NEW c \in Call, Start(c) PROVE SnapshotInv'
  <2>1. UNCHANGED <<lock, floor>> /\ \A d \in Call \ {c} : call'[d] = call[d]
    BY <1>6 DEF Start, TypeOK
  <2>2. call'[c].version = 0 /\ call'[c].pc = "read"
    BY <1>6 DEF Start, Idle, TypeOK
  <2>q. QED
    BY <1>0, <1>1, <2>1, <2>2 DEF SnapshotInv, TypeOK
<1>7. ASSUME NEW c \in Call,
             \/ WaitHit(c) \/ WaitGivesUp(c) \/ ComputeReturns(c)
             \/ ComputeFails(c) \/ ComputeTimesOut(c) \/ Unlock(c)
             \/ ValkeyFails(c)
      PROVE  SnapshotInv'
  <2>1. /\ UNCHANGED floor
        /\ lock' \in {lock, [lock EXCEPT ![KeyOf[c]] = NoLock]}
    BY <1>7 DEF WaitHit, WaitGivesUp, ComputeReturns, ComputeFails,
                ComputeTimesOut, Unlock, ValkeyFails
  <2>2. \/ call' = [call EXCEPT ![c] = Ended(c)]
        \/ call' = [call EXCEPT ![c] = Goto(c, "unlock")]
        \/ call[c].version # 0 /\ call' = [call EXCEPT ![c] = Goto(c, "store")]
    BY <1>7 DEF WaitHit, WaitGivesUp, ComputeReturns, ComputeFails,
                ComputeTimesOut, Unlock, ValkeyFails, Finish
  <2>3. /\ call'[c].version \in {0, call[c].version}
        /\ call'[c].pc \in {"end", "unlock", "store"}
        /\ call'[c].pc = "store" => call'[c].version # 0
        /\ \A d \in Call \ {c} : call'[d] = call[d]
    <3>1. CASE call' = [call EXCEPT ![c] = Ended(c)]
      BY <3>1 DEF Ended, Idle, TypeOK
    <3>2. CASE call' = [call EXCEPT ![c] = Goto(c, "unlock")]
      BY <3>2 DEF Goto, TypeOK
    <3>3. CASE call[c].version # 0 /\ call' = [call EXCEPT ![c] = Goto(c, "store")]
      BY <3>3 DEF Goto, TypeOK
    <3>q. QED
      BY <2>2, <3>1, <3>2, <3>3
  <2>4. \A k \in Key : lock'[k].owner \in {lock[k].owner, NoCall}
    BY <1>0, <2>1 DEF TypeOK
  <2>q. QED
    BY <1>0, <1>1, <2>1, <2>3, <2>4 DEF SnapshotInv, TypeOK
<1>8. ASSUME NEW p \in Process, Stop(p) PROVE SnapshotInv'
  <2>1. /\ UNCHANGED <<floor, lock>>
        /\ \A c \in Call : call'[c] \in {call[c], Ended(c)}
    BY <1>8 DEF Stop
  <2>2. \A c \in Call : Ended(c).version = 0 /\ Ended(c).pc = "end"
    BY DEF Ended, Idle
  <2>q. QED
    BY <1>1, <2>1, <2>2 DEF SnapshotInv, TypeOK
<1>9. CASE Tick \/ (\E k \in Key : Publish(k) \/ Evict(k)) \/ UNCHANGED vars
  <2>1. UNCHANGED <<floor, call>>
    BY <1>9 DEF Tick, Publish, Evict, vars
  <2>2. \A k \in Key : lock'[k] \in {lock[k], NoLock}
    BY <1>9 DEF Tick, Publish, Evict, vars, TypeOK
  <2>q. QED
    BY <1>0, <1>1, <2>1, <2>2 DEF SnapshotInv
<1>q. QED
  BY <1>2, <1>3, <1>4, <1>5, <1>6, <1>7, <1>8, <1>9 DEF Next, CallStep

\* SnapshotInv is an invariant of the cache.
THEOREM SnapshotInvariant == Spec => [](TypeOK /\ SnapshotInv)
<1>1. Init => SnapshotInv
  <2> SUFFICES ASSUME Init PROVE SnapshotInv
    OBVIOUS
  <2>1. \A k \in Key : Current(k) = 1 /\ floor[k] = 0 /\ lock[k].owner = NoCall
    BY DEF Init, NoLock, Current
  <2>2. \A c \in Call : call[c].version = 0 /\ call[c].pc = "idle"
    BY DEF Init, Idle
  <2>q. QED
    BY <2>1, <2>2, CallAssumption DEF SnapshotInv, Owns
<1>q. QED
  BY <1>1, CacheTypeCorrect, SnapshotStep, PTL DEF Spec

\* Late computations never overwrite newer content: only Store changes an
\* entry to a value, and its call owns the lock.
THEOREM StoresMonotone == Spec => StoresNeverGoBack
<1>1. TypeOK /\ SnapshotInv /\ [Next]_vars =>
        [\A k \in Key : data'[k] # data[k] /\ data'[k] # NoData
                          => data'[k].version >= floor[k]]_vars
  <2> SUFFICES ASSUME TypeOK, SnapshotInv, Next, NEW k \in Key,
                      data'[k] # data[k], data'[k] # NoData
               PROVE  data'[k].version >= floor[k]
    OBVIOUS
  <2>1. ASSUME NEW c \in Call, Store(c) PROVE data'[k].version >= floor[k]
    <3>1. /\ Owns(c) /\ k = KeyOf[c] /\ call[c].pc = "store"
          /\ data'[k].version = call[c].version
      <4>1. Owns(c) /\ call[c].pc = "store"
        BY <2>1 DEF Store, StoreScript, StoreUntil
      <4>2. data' = [data EXCEPT ![KeyOf[c]] =
                       [version   |-> call[c].version,
                        stored_at |-> call[c].since,
                        expires   |-> now + Stale]]
        BY <2>1, <4>1 DEF Store, StoreScript, StoreUntil
      <4>q. QED
        BY <4>1, <4>2 DEF TypeOK
    <3>q. QED
      BY <3>1 DEF SnapshotInv
  <2>2. ASSUME UNCHANGED data PROVE FALSE
    BY <2>2
  <2>3. ASSUME NEW j \in Key, Invalidate(j) \/ Evict(j) PROVE FALSE
    BY <2>3 DEF Invalidate, Evict, TypeOK
  <2>4. ASSUME Tick PROVE FALSE
    BY <2>4 DEF Tick
  <2>q. QED
    BY <2>1, <2>2, <2>3, <2>4
       DEF Next, CallStep, Start, Read, WaitHit, WaitGivesUp, QueryDatabase,
           ComputeReturns, ComputeFails, ComputeTimesOut, Unlock, ValkeyFails,
           Stop, Publish
<1>q. QED
  BY <1>1, SnapshotInvariant, PTL DEF Spec, StoresNeverGoBack

-----------------------------------------------------------------------------
(* Locks.                                                                  *)

\* A late store or unlock leaves the next owner's lock alone: only a free lock
\* is granted, and the scripts delete a lock for its owner's token only.
THEOREM LocksAreKept == Spec => HolderKeepsLock
<1>1. TypeOK /\ [Next]_vars =>
        [\A k \in Key :
           lock[k] # NoLock /\ lock'[k] # lock[k] =>
             \/ now' >= lock[k].expires
             \/ call'[lock[k].owner] # call[lock[k].owner]
             \/ Invalidate(k) \/ Evict(k)]_vars
  <2> SUFFICES ASSUME TypeOK, Next, NEW k \in Key,
                      lock[k] # NoLock, lock'[k] # lock[k]
               PROVE  \/ now' >= lock[k].expires
                      \/ call'[lock[k].owner] # call[lock[k].owner]
                      \/ Invalidate(k) \/ Evict(k)
    OBVIOUS
  <2>0. now \in Nat /\ lock[k].expires \in Nat /\ \A c \in Call : KeyOf[c] \in Key
    BY CallAssumption DEF TypeOK
  <2>1. ASSUME NEW c \in Call, Store(c) \/ Unlock(c)
        PROVE  call'[lock[k].owner] # call[lock[k].owner]
    <3>1. /\ call[c].pc \in {"store", "unlock"} /\ Owns(c)
          /\ lock' = [lock EXCEPT ![KeyOf[c]] = NoLock]
      BY <2>1 DEF Store, StoreScript, StoreUntil, Unlock
    <3>2. k = KeyOf[c] /\ lock[k].owner = c
      BY <3>1 DEF Owns, TypeOK
    <3>3. \E r \in {Ended(c), Goto(c, "unlock")} : call' = [call EXCEPT ![c] = r]
      BY <2>1 DEF Store, Unlock, Finish
    <3>4. call[c].pc = "store" \/ call' = [call EXCEPT ![c] = Ended(c)]
      BY <2>1 DEF Store, Unlock, Finish
    <3>5. call'[c].pc # call[c].pc
      <4>1. CASE call' = [call EXCEPT ![c] = Ended(c)]
        <5>1. call'[c] = Ended(c) /\ Ended(c).pc = "end"
          BY <4>1 DEF Ended, Idle, TypeOK
        <5>q. QED
          BY <3>1, <5>1
      <4>2. CASE call[c].pc = "store" /\ call' = [call EXCEPT ![c] = Goto(c, "unlock")]
        <5>1. call'[c] = Goto(c, "unlock") /\ Goto(c, "unlock").pc = "unlock"
          BY <4>2 DEF Goto, TypeOK
        <5>q. QED
          BY <4>2, <5>1
      <4>q. QED
        BY <3>3, <3>4, <4>1, <4>2
    <3>q. QED
      BY <3>2, <3>5
  <2>2. ASSUME NEW c \in Call, Read(c) PROVE FALSE
    <3>1. lock[KeyOf[c]] = NoLock /\ lock' = Grant(c)
      BY <2>2 DEF Read, ReadState
    <3>q. QED
      BY <3>1 DEF Grant, TypeOK
  <2>3. CASE Tick
    BY <2>0, <2>3 DEF Tick
  <2>4. ASSUME NEW j \in Key, Invalidate(j) \/ Evict(j)
        PROVE  Invalidate(k) \/ Evict(k)
    <3>1. j = k
      BY <2>4 DEF Invalidate, Evict, TypeOK
    <3>q. QED
      BY <2>4, <3>1
  <2>5. ASSUME UNCHANGED lock PROVE FALSE
    BY <2>5
  <2>q. QED
    BY <2>1, <2>2, <2>3, <2>4, <2>5
       DEF Next, CallStep, Start, WaitHit, WaitGivesUp, QueryDatabase,
           ComputeReturns, ComputeFails, ComputeTimesOut, ValkeyFails, Stop,
           Publish
<1>q. QED
  BY <1>1, CacheTypeCorrect, PTL DEF Spec, HolderKeepsLock

-----------------------------------------------------------------------------
(* The contract.                                                           *)

\* What a call brings along: the version that was current when it was made,
\* a snapshot no older than that, and a caller not answered yet unless the
\* call goes on in the background.
Progress(c) ==
  /\ call[c].pc = "idle" => call[c].asked = 0
  /\ call[c].pc \in Pending => call[c].asked # 0
  /\ call[c].asked <= Current(KeyOf[c])
  /\ call[c].version # 0 => call[c].asked <= call[c].version
  /\ call[c].pc \in {"idle", "read", "wait"} => ~call[c].background
  /\ call[c].pc # "end" /\ ~call[c].background => reply[c].version = 0

ProgressInv == /\ \A c \in Call : Progress(c)
               /\ \A k \in Key : data[k] # NoData => data[k].version # 0

ContractInv == TypeOK /\ SnapshotInv /\ ProgressInv

\* A step of a call concerns its own record and answer, and no version.
LEMMA OwnRecord ==
  ASSUME TypeOK, NEW c \in Call, CallStep(c)
  PROVE  /\ UNCHANGED superseded
         /\ \A d \in Call \ {c} : call'[d] = call[d] /\ reply'[d] = reply[d]
<1>1. UNCHANGED superseded
  BY DEF CallStep, Start, Read, WaitHit, WaitGivesUp, QueryDatabase,
         ComputeReturns, ComputeFails, ComputeTimesOut, Store, Unlock, ValkeyFails
<1>2. \A d \in Call \ {c} : call'[d] = call[d]
  BY DEF CallStep, Start, Read, WaitHit, WaitGivesUp, QueryDatabase,
         ComputeReturns, ComputeFails, ComputeTimesOut, Store, Unlock,
         ValkeyFails, Finish, TypeOK
<1>3. \A d \in Call \ {c} : reply'[d] = reply[d]
  BY DEF CallStep, Start, Read, WaitHit, WaitGivesUp, QueryDatabase,
         ComputeReturns, ComputeFails, ComputeTimesOut, Store, Unlock,
         ValkeyFails, Finish, Answer, TypeOK
<1>q. QED
  BY <1>1, <1>2, <1>3

\* Each step of c keeps what c brings along.
LEMMA ProgressOfCall ==
  ASSUME TypeOK, SnapshotInv, NEW c \in Call, Progress(c), CallStep(c)
  PROVE  Progress(c)'
<1>0. /\ KeyOf[c] \in Key /\ Current(KeyOf[c]) \in Nat \ {0}
      /\ Current(KeyOf[c])' = Current(KeyOf[c])
      /\ call[c].version \in Nat /\ call[c].asked \in Nat
  <2>1. UNCHANGED superseded
    BY OwnRecord
  <2>q. QED
    BY <2>1, CallAssumption DEF TypeOK, Current
<1>1. ASSUME call'[c] = Ended(c) PROVE Progress(c)'
  BY <1>0, <1>1 DEF Progress, Ended, Idle, Pending
<1>2. ASSUME NEW pc \in {"wait", "compute", "store", "unlock"},
             call[c].pc \in Pending, pc = "wait" => call[c].pc = "read",
             call'[c] = Goto(c, pc), reply' = reply
      PROVE  Progress(c)'
  <2>1. /\ call'[c].pc = pc /\ call'[c].version = call[c].version
        /\ call'[c].asked = call[c].asked
        /\ call'[c].background = call[c].background
    BY <1>2 DEF Goto, TypeOK
  <2>q. QED
    BY <1>0, <1>2, <2>1 DEF Progress, Pending
<1>3. CASE Start(c)
  <2>1. /\ call'[c].pc = "read" /\ call'[c].asked = Current(KeyOf[c])
        /\ call'[c].version = 0 /\ ~call'[c].background
        /\ reply' = reply /\ call[c].pc = "idle"
    BY <1>3 DEF Start, Idle, TypeOK
  <2>q. QED
    BY <1>0, <2>1 DEF Progress, Pending
<1>4. CASE Read(c)
  <2>1. CASE call' = [call EXCEPT ![c] = ScheduleRefresh(c)]
    <3>1. /\ call'[c].pc \in {"compute", "unlock"} /\ call'[c].background
          /\ call'[c].asked = call[c].asked /\ call'[c].version = call[c].version
          /\ call[c].pc = "read"
      BY <1>4, <2>1 DEF Read, ScheduleRefresh, Goto, TypeOK
    <3>q. QED
      BY <1>0, <3>1 DEF Progress, Pending
  <2>2. CASE \/ call' = [call EXCEPT ![c] = Goto(c, "compute")] /\ reply' = reply
             \/ call' = [call EXCEPT ![c] = Goto(c, "wait")] /\ reply' = reply
    BY <1>2, <1>4, <2>2 DEF Read, Pending, TypeOK
  <2>3. CASE call' = [call EXCEPT ![c] = Ended(c)]
    BY <1>1, <2>3 DEF TypeOK
  <2>q. QED
    BY <1>4, <2>1, <2>2, <2>3 DEF Read, Finish
<1>5. CASE QueryDatabase(c)
  <2>1. /\ call[c].pc = "compute" /\ call'[c].pc = "compute" /\ reply' = reply
        /\ call'[c].version = Current(KeyOf[c])
        /\ call'[c].asked = call[c].asked
        /\ call'[c].background = call[c].background
    BY <1>5 DEF QueryDatabase, TypeOK
  <2>q. QED
    BY <1>0, <2>1 DEF Progress, Pending
<1>6. CASE \/ WaitHit(c) \/ WaitGivesUp(c) \/ ComputeReturns(c)
           \/ ComputeFails(c) \/ ComputeTimesOut(c) \/ Store(c)
           \/ Unlock(c) \/ ValkeyFails(c)
  <2>1. \/ call'[c] = Ended(c)
        \/ \E pc \in {"store", "unlock"} :
             call'[c] = Goto(c, pc) /\ reply' = reply /\ call[c].pc \in Pending
    BY <1>6 DEF WaitHit, WaitGivesUp, ComputeReturns, ComputeFails,
                ComputeTimesOut, Store, Unlock, ValkeyFails, Finish, TypeOK,
                Pending
  <2>q. QED
    BY <1>1, <1>2, <2>1
<1>q. QED
  BY <1>3, <1>4, <1>5, <1>6 DEF CallStep

\* Each step keeps ProgressInv.
LEMMA ProgressStep == ContractInv /\ [Next]_vars => ProgressInv'
<1> SUFFICES ASSUME TypeOK, SnapshotInv, ProgressInv, [Next]_vars
             PROVE  ProgressInv'
  BY DEF ContractInv
<1>1. ASSUME NEW c \in Call PROVE Progress(c)'
  <2>0. /\ KeyOf[c] \in Key /\ Progress(c)
        /\ Current(KeyOf[c]) \in Nat /\ Current(KeyOf[c])' \in Nat
        /\ Current(KeyOf[c]) <= Current(KeyOf[c])'
        /\ call[c].asked \in Nat /\ call[c].version \in Nat
    BY CallAssumption, CurrentGrows DEF ProgressInv, TypeOK
  <2>1. ASSUME call'[c] = call[c], reply'[c] = reply[c] PROVE Progress(c)'
    BY <2>0, <2>1 DEF Progress
  <2>2. ASSUME NEW d \in Call, CallStep(d) PROVE Progress(c)'
    BY <2>0, <2>1, <2>2, OwnRecord, ProgressOfCall
  <2>3. ASSUME NEW p \in Process, Stop(p) PROVE Progress(c)'
    <3>1. reply' = reply /\ call'[c] \in {call[c], Ended(c)}
      BY <2>3 DEF Stop
    <3>2. CASE call'[c] = Ended(c)
      BY <2>0, <3>2 DEF Progress, Ended, Idle, Pending
    <3>q. QED
      BY <2>1, <3>1, <3>2
  <2>4. CASE Tick \/ (\E k \in Key : Publish(k) \/ Invalidate(k) \/ Evict(k))
             \/ UNCHANGED vars
    BY <2>1, <2>4 DEF Tick, Publish, Invalidate, Evict, vars
  <2>q. QED
    BY <2>2, <2>3, <2>4 DEF Next
<1>2. ASSUME NEW k \in Key, data'[k] # NoData PROVE data'[k].version # 0
  <2>1. CASE data'[k] = data[k]
    BY <1>2, <2>1 DEF ProgressInv
  <2>2. ASSUME NEW c \in Call, Store(c), data'[k] # data[k]
        PROVE  data'[k].version # 0
    <3>1. /\ call[c].version # 0
          /\ data' = [data EXCEPT ![KeyOf[c]] =
                        [version   |-> call[c].version,
                         stored_at |-> call[c].since,
                         expires   |-> now + Stale]]
      BY <2>2 DEF Store, StoreScript, StoreUntil, SnapshotInv
    <3>q. QED
      BY <2>2, <3>1 DEF TypeOK
  <2>3. ASSUME ~ \E c \in Call : Store(c) PROVE data'[k] \in {data[k], NoData}
    BY <2>3 DEF Next, CallStep, Start, Read, WaitHit, WaitGivesUp,
         QueryDatabase, ComputeReturns, ComputeFails, ComputeTimesOut, Unlock,
         ValkeyFails, Stop, Publish, Invalidate, Evict, Tick, vars, TypeOK
  <2>q. QED
    BY <1>2, <2>1, <2>2, <2>3
<1>q. QED
  BY <1>1, <1>2 DEF ProgressInv

\* ProgressInv is an invariant of the cache.
LEMMA ProgressInvariant == Spec => []ContractInv
<1>1. Init => ProgressInv
  <2> SUFFICES ASSUME Init PROVE ProgressInv
    OBVIOUS
  <2>1. \A c \in Call : /\ call[c] = Idle /\ reply[c].version = 0
                        /\ Current(KeyOf[c]) = 1
    BY CallAssumption DEF Init, NoReply, Current
  <2>q. QED
    BY <2>1 DEF Init, ProgressInv, Progress, Idle, Pending
<1>q. QED
  BY <1>1, SnapshotInvariant, ProgressStep, PTL DEF Spec, ContractInv

\* What an answer, a snapshot or a stored version is in the contract.
LEMMA AbstractCall ==
  ASSUME ContractInv, NEW c \in Call, CallStep(c)
  PROVE  Contract!CNext \/ UNCHANGED Contract!cvars
<1> DEFINE source  == [k \in Key |-> Current(k)]
           content == [k \in Key |-> data[k].version]
           asked   == [d \in Call |-> call[d].asked]
           answer  == [d \in Call |-> reply[d].version]
<1>0. /\ KeyOf[c] \in Key /\ Progress(c) /\ TypeOK /\ SnapshotInv
      /\ \A k \in Key : data[k] # NoData => data[k].version # 0
      /\ UNCHANGED superseded
      /\ \A d \in Call \ {c} : call'[d] = call[d] /\ reply'[d] = reply[d]
  BY CallAssumption, OwnRecord DEF ContractInv, ProgressInv
<1>1. source' = source
  BY <1>0 DEF Current
<1>2. ASSUME call'[c].asked = call[c].asked PROVE asked' = asked
  BY <1>0, <1>2
<1>3. ASSUME reply'[c].version = reply[c].version PROVE answer' = answer
  BY <1>0, <1>3
<1>4. ASSUME NEW v, reply'[c].version = v
      PROVE  answer' = [answer EXCEPT ![c] = v]
  BY <1>0, <1>4
<1>5. ASSUME UNCHANGED data PROVE content' = content
  BY <1>5
<1>6. \A r \in {Ended(c), ScheduleRefresh(c)} \cup {Goto(c, pc) : pc \in Pending} :
        r.asked = call[c].asked
  <2>1. Ended(c).asked = call[c].asked
    BY DEF Ended, Idle
  <2>2. \A pc : Goto(c, pc).asked = call[c].asked
    BY <1>0 DEF Goto, TypeOK
  <2>3. ScheduleRefresh(c).asked = call[c].asked
    BY <1>0 DEF ScheduleRefresh, Goto, TypeOK
  <2>q. QED
    BY <2>1, <2>2, <2>3
<1>7. ASSUME NEW path, NEW v, Finish(c, path, v), call[c].pc # "end"
      PROVE  /\ call'[c].asked = call[c].asked
             /\ \/ reply' = reply
                \/ reply'[c].version = v /\ reply[c].version = 0
  BY <1>0, <1>6, <1>7 DEF Finish, Answer, Progress, TypeOK
\* Steps that show nothing.
<1>8. ASSUME UNCHANGED <<data, floor>>, call'[c].asked = call[c].asked,
             reply'[c].version = reply[c].version
      PROVE  UNCHANGED Contract!cvars
  BY <1>1, <1>2, <1>3, <1>5, <1>8 DEF Contract!cvars
<1>9. ASSUME UNCHANGED <<data, floor>>, NEW path,
             Finish(c, path, 0), call[c].pc # "end"
      PROVE  UNCHANGED Contract!cvars
  BY <1>7, <1>8, <1>9
\* Answers from the cache.
<1>10. ASSUME UNCHANGED <<data, floor>>, data[KeyOf[c]] # NoData,
              call'[c].asked = call[c].asked, reply[c].version = 0,
              reply'[c].version = data[KeyOf[c]].version
       PROVE  Contract!CNext
  <2>1. Contract!Serve(c)
    BY <1>0, <1>1, <1>2, <1>4, <1>5, <1>10 DEF Contract!Serve
  <2>q. QED
    BY <2>1 DEF Contract!CNext
<1>11. CASE Start(c)
  <2>1. /\ UNCHANGED <<data, floor, reply>> /\ call[c].asked = 0
        /\ call'[c].asked = Current(KeyOf[c])
    BY <1>0, <1>11 DEF Start, Idle, Progress, TypeOK
  <2>2. asked' = [asked EXCEPT ![c] = source[KeyOf[c]]]
    BY <1>0, <2>1
  <2>3. Contract!Ask(c)
    BY <1>1, <1>5, <2>1, <2>2 DEF Contract!Ask
  <2>q. QED
    BY <2>3 DEF Contract!CNext
<1>12. CASE Read(c)
  <2>0. /\ UNCHANGED <<data, floor>> /\ call[c].pc = "read"
        /\ ~call[c].background /\ reply[c].version = 0
    BY <1>0, <1>12 DEF Read, Progress
  <2>1. CASE /\ ReadState(KeyOf[c], call[c].since) \in {"fresh", "stale"}
             /\ Finish(c, ReadState(KeyOf[c], call[c].since), data[KeyOf[c]].version)
    <3>1. data[KeyOf[c]] # NoData
      BY <2>1 DEF ReadState
    <3>2. reply'[c].version = data[KeyOf[c]].version
      BY <1>0, <2>0, <2>1 DEF Finish, Answer, TypeOK
    <3>q. QED
      BY <1>7, <1>10, <2>0, <2>1, <3>1, <3>2
  <2>2. CASE /\ ReadState(KeyOf[c], call[c].since) = "revalidate"
             /\ call' = [call EXCEPT ![c] = ScheduleRefresh(c)]
             /\ reply' = Answer(c, "stale", data[KeyOf[c]].version)
    <3>1. data[KeyOf[c]] # NoData
      BY <2>2 DEF ReadState
    <3>2. /\ reply'[c].version = data[KeyOf[c]].version
          /\ call'[c].asked = call[c].asked
      BY <1>0, <1>6, <2>2 DEF Answer, TypeOK
    <3>q. QED
      BY <1>10, <2>0, <3>1, <3>2
  <2>3. CASE \E pc \in {"compute", "wait"} :
               call' = [call EXCEPT ![c] = Goto(c, pc)] /\ reply' = reply
    <3>1. call'[c].asked = call[c].asked
      BY <1>0, <1>6, <2>3 DEF TypeOK, Pending
    <3>q. QED
      BY <1>8, <2>0, <2>3, <3>1
  <2>4. CASE Finish(c, "error", 0)
    BY <1>9, <2>0, <2>4
  <2>q. QED
    BY <1>12, <2>1, <2>2, <2>3, <2>4 DEF Read
<1>13. CASE WaitHit(c)
  <2>1. /\ UNCHANGED <<data, floor>> /\ data[KeyOf[c]] # NoData
        /\ reply[c].version = 0 /\ ~call[c].background
        /\ Finish(c, "waited", data[KeyOf[c]].version) /\ call[c].pc # "end"
    BY <1>0, <1>13 DEF WaitHit, Progress
  <2>2. reply'[c].version = data[KeyOf[c]].version
    BY <1>0, <2>1 DEF Finish, Answer, TypeOK
  <2>q. QED
    BY <1>7, <1>10, <2>1, <2>2
<1>14. CASE QueryDatabase(c)
  <2>1. UNCHANGED <<data, floor, reply>> /\ call'[c].asked = call[c].asked
    BY <1>0, <1>14 DEF QueryDatabase, TypeOK
  <2>q. QED
    BY <1>8, <2>1
<1>15. CASE ComputeReturns(c) \/ ComputeFails(c) \/ ComputeTimesOut(c)
  <2>1. /\ UNCHANGED <<data, floor, reply>>
        /\ \E pc \in {"store", "unlock"} : call' = [call EXCEPT ![c] = Goto(c, pc)]
    BY <1>15 DEF ComputeReturns, ComputeFails, ComputeTimesOut
  <2>2. call'[c].asked = call[c].asked
    BY <1>0, <1>6, <2>1 DEF TypeOK, Pending
  <2>q. QED
    BY <1>8, <2>1, <2>2
<1>16. CASE WaitGivesUp(c) \/ Unlock(c)
  <2>1. /\ UNCHANGED <<data, floor>> /\ call[c].pc # "end"
        /\ \E path \in {"busy", "error"} : Finish(c, path, 0)
    BY <1>16 DEF WaitGivesUp, Unlock
  <2>q. QED
    BY <1>9, <2>1
<1>17. CASE ValkeyFails(c)
  <2>1. CASE Finish(c, "error", 0)
    BY <1>9, <1>17, <2>1 DEF ValkeyFails
  <2>2. CASE call' = [call EXCEPT ![c] = Goto(c, "unlock")] /\ reply' = reply
    <3>1. call'[c].asked = call[c].asked
      BY <1>0, <1>6, <2>2 DEF TypeOK, Pending
    <3>q. QED
      BY <1>8, <1>17, <2>2, <3>1 DEF ValkeyFails
  <2>q. QED
    BY <1>17, <2>1, <2>2 DEF ValkeyFails
\* The value is installed if the lock is still the caller's.
<1>18. CASE Store(c)
  <2>v. PICK v : v = call[c].version
    OBVIOUS
  <2>0. /\ call[c].pc = "store" /\ StoreScript(c)
        /\ v \in Nat \ {0} /\ call[c].asked \in Nat \ {0}
        /\ call[c].asked <= v /\ v <= Current(KeyOf[c])
        /\ Current(KeyOf[c]) \in Nat
        /\ Owns(c) => v >= floor[KeyOf[c]]
    BY <2>v, <1>0, <1>18 DEF Store, Progress, SnapshotInv, Pending, Current, TypeOK
  <2>1. v \in asked[c] .. source[KeyOf[c]] /\ asked[c] # 0
    BY <1>0, <2>0
  <2>2. Contract!Install(c, v)
    <3>1. CASE Owns(c)
      <4>1. /\ data' = [data EXCEPT ![KeyOf[c]] = [version   |-> v,
                                                  stored_at |-> call[c].since,
                                                  expires   |-> now + Stale]]
            /\ floor' = [floor EXCEPT ![KeyOf[c]] = v]
        BY <2>v, <2>0, <3>1 DEF StoreScript, StoreUntil
      <4>2. content' = [content EXCEPT ![KeyOf[c]] = v]
        <5>1. \A k \in Key : data'[k].version =
                               IF k = KeyOf[c] THEN v ELSE data[k].version
          BY <1>0, <4>1 DEF TypeOK
        <5>q. QED
          BY <1>0, <5>1
      <4>q. QED
        BY <2>0, <3>1, <4>1, <4>2 DEF Contract!Install
    <3>2. CASE ~Owns(c)
      BY <1>5, <2>0, <3>2 DEF StoreScript, StoreUntil, Contract!Install
    <3>q. QED
      BY <3>1, <3>2
  <2>3. /\ call'[c].asked = call[c].asked
        /\ \/ reply' = reply
           \/ reply'[c].version = v /\ reply[c].version = 0
    <3>1. CASE Finish(c, "computed", v)
      BY <1>7, <2>0, <3>1
    <3>2. CASE call' = [call EXCEPT ![c] = Goto(c, "unlock")] /\ reply' = reply
      BY <1>0, <1>6, <3>2 DEF TypeOK, Pending
    <3>q. QED
      BY <2>v, <1>18, <3>1, <3>2 DEF Store
  <2>4. \/ answer' = answer
        \/ answer[c] = 0 /\ answer' = [answer EXCEPT ![c] = v]
    BY <1>3, <1>4, <2>3
  <2>5. Contract!Compute(c)
    <3>1. UNCHANGED <<source, asked>>
      BY <1>1, <1>2, <2>3
    <3>2. \E w \in asked[c] .. source[KeyOf[c]] :
            /\ asked[c] # 0
            /\ Contract!Install(c, w)
            /\ \/ answer' = answer
               \/ answer[c] = 0 /\ answer' = [answer EXCEPT ![c] = w]
            /\ UNCHANGED <<source, asked>>
      <4> HIDE DEF source, asked, answer
      <4>q. QED
        BY <2>1, <2>2, <2>4, <3>1
    <3>q. QED
      BY <3>2 DEF Contract!Compute
  <2>q. QED
    BY <2>5 DEF Contract!CNext
<1>q. QED
  BY <1>11, <1>12, <1>13, <1>14, <1>15, <1>16, <1>17, <1>18 DEF CallStep

\* Locks, leases and tokens keep the promise of the cache, with every fault:
\* each step of the cache is one of the contract or none.
THEOREM CacheKeepsContract == Spec => ImplementsContract
<1>1. Init => Contract!CInit
  <2> SUFFICES ASSUME Init PROVE Contract!CInit
    OBVIOUS
  <2>1. \A k \in Key : Current(k) = 1 /\ data[k].version = 0
    BY DEF Init, Current, NoData
  <2>2. \A c \in Call : call[c].asked = 0 /\ reply[c].version = 0
    BY DEF Init, Idle, NoReply
  <2>q. QED
    BY <2>1, <2>2 DEF Init, Contract!CInit
<1>2. ContractInv /\ [Next]_vars => [Contract!CNext]_(Contract!cvars)
  <2> SUFFICES ASSUME ContractInv, [Next]_vars
               PROVE  Contract!CNext \/ UNCHANGED Contract!cvars
    OBVIOUS
  <2>0. TypeOK
    BY DEF ContractInv
  <2>1. CASE \E c \in Call : CallStep(c)
    BY <2>1, AbstractCall
  <2>2. ASSUME NEW p \in Process, Stop(p) PROVE UNCHANGED Contract!cvars
    <3>1. /\ UNCHANGED <<data, superseded, floor, reply>>
          /\ \A c \in Call : call'[c] \in {call[c], Ended(c)}
      BY <2>2 DEF Stop
    <3>2. \A c \in Call : call'[c].asked = call[c].asked
      BY <3>1 DEF Ended, Idle
    <3>q. QED
      BY <3>1, <3>2 DEF Contract!cvars, Current
  <2>3. ASSUME NEW k \in Key, Publish(k) PROVE Contract!CNext
    <3>1. /\ UNCHANGED <<data, floor, call, reply>>
          /\ superseded' = [superseded EXCEPT ![k] = Append(@, now)]
      BY <2>3 DEF Publish
    <3>2. \A j \in Key : Current(j)' = IF j = k THEN Current(j) + 1 ELSE Current(j)
      BY <2>0, <3>1 DEF TypeOK, Current
    <3>3. Contract!Supersede(k)
      BY <3>1, <3>2 DEF Contract!Supersede
    <3>q. QED
      BY <3>3 DEF Contract!CNext
  <2>4. ASSUME NEW k \in Key, Invalidate(k) PROVE Contract!CNext
    <3>1. /\ UNCHANGED <<superseded, call, reply>>
          /\ \A j \in Key : data'[j] = IF j = k THEN NoData ELSE data[j]
          /\ floor' = [floor EXCEPT ![k] = Current(k)]
      BY <2>0, <2>4 DEF Invalidate, TypeOK
    <3>2. [j \in Key |-> data[j].version]' =
            [[j \in Key |-> data[j].version] EXCEPT ![k] = 0]
      <4>1. \A j \in Key : data'[j].version =
                             IF j = k THEN 0 ELSE data[j].version
        BY <3>1 DEF NoData
      <4>q. QED
        BY <4>1
    <3>3. UNCHANGED <<[j \in Key |-> Current(j)], [c \in Call |-> call[c].asked],
                      [c \in Call |-> reply[c].version]>>
      BY <3>1 DEF Current
    <3>4. floor' = [floor EXCEPT ![k] = [j \in Key |-> Current(j)][k]]
      BY <3>1
    <3>5. Contract!Discard(k)
      BY <3>2, <3>3, <3>4, Zenon DEF Contract!Discard
    <3>q. QED
      BY <3>5 DEF Contract!CNext
  <2>5. CASE Tick \/ \E k \in Key : Evict(k)
    <3>1. /\ UNCHANGED <<superseded, floor, call, reply>>
          /\ \A k \in Key : data'[k] \in {data[k], NoData}
      BY <2>0, <2>5 DEF Tick, Evict, TypeOK
    <3> DEFINE K == {k \in Key : data'[k] = NoData}
    <3>2. [k \in Key |-> data[k].version]' =
            [k \in Key |-> IF k \in K THEN 0
                           ELSE [j \in Key |-> data[j].version][k]]
      BY <3>1 DEF NoData
    <3>3. Contract!Forget
      BY <3>1, <3>2 DEF Contract!Forget, Current
    <3>q. QED
      BY <3>3 DEF Contract!CNext
  <2>6. CASE UNCHANGED vars
    BY <2>6 DEF vars, Contract!cvars, Current
  <2>q. QED
    BY <2>1, <2>2, <2>3, <2>4, <2>5, <2>6 DEF Next
<1>q. QED
  BY <1>1, <1>2, ProgressInvariant, PTL DEF Spec, ImplementsContract, Contract!CSpec

-----------------------------------------------------------------------------
(* Single flight.                                                          *)

\* A computation has its lock, taken when it began, and wait_for ends it
\* within ComputeTimeout.
FlightInv ==
  \A c \in Call : call[c].pc = "compute" =>
    /\ Owns(c)
    /\ lock[KeyOf[c]].expires = call[c].since + Lease
    /\ now <= call[c].since + ComputeTimeout

\* Each step keeps FlightInv while computations end before their leases and
\* only owners remove locks.
LEMMA FlightStep ==
  ASSUME ComputeTimeout < Lease, "evict" \notin Faults, "invalidate" \notin Faults,
         TypeOK, FlightInv, [Next]_vars
  PROVE  FlightInv'
<1>0. /\ now \in Nat /\ Lease \in Nat \ {0} /\ ComputeTimeout \in Nat \ {0}
      /\ \A c \in Call : KeyOf[c] \in Key /\ c # NoCall /\ call[c].since \in Nat
      /\ NoLock.owner = NoCall
  BY CallAssumption, TimeAssumption DEF TypeOK, NoLock
\* Steps that start no computation and take no owner's lock.
<1>1. ASSUME UNCHANGED now,
             \A d \in Call : call'[d].pc = "compute" =>
               /\ call[d].pc = "compute" /\ call'[d].since = call[d].since
               /\ lock'[KeyOf[d]] = lock[KeyOf[d]]
      PROVE  FlightInv'
  BY <1>1 DEF FlightInv, Owns
<1>2. ASSUME NEW c \in Call, Read(c) PROVE FlightInv'
  <2>0. /\ UNCHANGED now /\ call[c].pc = "read"
        /\ \A d \in Call \ {c} : call'[d] = call[d]
    BY <1>2 DEF Read, Finish, TypeOK
  <2>1. CASE UNCHANGED lock /\ call'[c].pc # "compute"
    BY <1>1, <2>0, <2>1
  <2>2. CASE /\ lock[KeyOf[c]] = NoLock /\ lock' = Grant(c)
             /\ call'[c].pc = "compute" => call'[c].since = now
    <3>1. /\ lock'[KeyOf[c]] = [owner |-> c, expires |-> now + Lease]
          /\ \A k \in Key \ {KeyOf[c]} : lock'[k] = lock[k]
      BY <1>0, <2>2 DEF Grant, TypeOK
    <3>2. ASSUME NEW d \in Call, d # c, call[d].pc = "compute"
          PROVE  KeyOf[d] # KeyOf[c]
      BY <1>0, <2>2, <3>2 DEF FlightInv, Owns
    <3>3. ASSUME NEW d \in Call, call'[d].pc = "compute"
          PROVE  /\ Owns(d)'
                 /\ lock'[KeyOf[d]].expires = call'[d].since + Lease
                 /\ now' <= call'[d].since + ComputeTimeout
      <4>1. CASE d = c
        BY <1>0, <2>0, <2>2, <3>1, <3>3, <4>1 DEF Owns
      <4>2. CASE d # c
        BY <1>0, <2>0, <3>1, <3>2, <3>3, <4>2 DEF Owns, FlightInv
      <4>q. QED
        BY <4>1, <4>2
    <3>q. QED
      BY <3>3 DEF FlightInv
  <2>3. /\ Ended(c).pc = "end"
        /\ \A pc : Goto(c, pc).pc = pc /\ Goto(c, pc).since = now
        /\ ScheduleRefresh(c).since = now
    BY DEF Ended, Idle, Goto, ScheduleRefresh, TypeOK
  <2>4. CASE ReadState(KeyOf[c], call[c].since) \in {"revalidate", "miss_leader"}
    <3>1. lock[KeyOf[c]] = NoLock /\ lock' = Grant(c)
      BY <1>2, <2>4 DEF Read, ReadState
    <3>2. call'[c].pc = "compute" => call'[c].since = now
      BY <1>2, <2>3, <2>4 DEF Read, Finish, TypeOK
    <3>q. QED
      BY <2>2, <3>1, <3>2
  <2>5. CASE ReadState(KeyOf[c], call[c].since) \notin {"revalidate", "miss_leader"}
    <3>1. UNCHANGED lock
      BY <1>2, <2>5 DEF Read
    <3>2. call'[c].pc # "compute"
      BY <1>2, <2>3, <2>5 DEF Read, Finish, TypeOK
    <3>q. QED
      BY <2>1, <3>1, <3>2
  <2>q. QED
    BY <2>4, <2>5
<1>3. ASSUME NEW c \in Call, Store(c) \/ Unlock(c) PROVE FlightInv'
  <2>1. /\ UNCHANGED now /\ call[c].pc \in {"store", "unlock"}
        /\ \/ lock' = lock
           \/ Owns(c) /\ lock' = [lock EXCEPT ![KeyOf[c]] = NoLock]
    <3>1. CASE Store(c)
      BY <3>1 DEF Store, StoreScript, StoreUntil
    <3>2. CASE Unlock(c)
      BY <3>2 DEF Unlock
    <3>q. QED
      BY <1>3, <3>1, <3>2
  <2>2. /\ call'[c].pc # "compute"
        /\ \A d \in Call \ {c} : call'[d] = call[d]
    <3>1. PICK r \in {Ended(c), Goto(c, "unlock")} : call' = [call EXCEPT ![c] = r]
      BY <1>3 DEF Store, Unlock, Finish
    <3>2. call'[c] = r /\ \A d \in Call \ {c} : call'[d] = call[d]
      BY <3>1, SetCall
    <3>q. QED
      BY <3>1, <3>2, NextFields
  <2>3. ASSUME NEW d \in Call, call'[d].pc = "compute"
        PROVE  /\ call[d].pc = "compute" /\ call'[d].since = call[d].since
               /\ lock'[KeyOf[d]] = lock[KeyOf[d]]
    <3>1. d # c /\ call'[d] = call[d]
      BY <2>2, <2>3
    <3>2. CASE Owns(c) /\ lock' = [lock EXCEPT ![KeyOf[c]] = NoLock]
      <4>1. KeyOf[d] # KeyOf[c]
        BY <2>3, <3>1, <3>2 DEF FlightInv, Owns
      <4>q. QED
        BY <1>0, <2>3, <3>1, <3>2, <4>1 DEF TypeOK
    <3>q. QED
      BY <2>1, <2>3, <3>1, <3>2
  <2>q. QED
    BY <1>1, <2>1, <2>3
<1>4. ASSUME NEW c \in Call,
             \/ Start(c) \/ WaitHit(c) \/ WaitGivesUp(c) \/ QueryDatabase(c)
             \/ ComputeReturns(c) \/ ComputeFails(c) \/ ComputeTimesOut(c)
             \/ ValkeyFails(c)
      PROVE  FlightInv'
  <2>1. UNCHANGED <<now, lock>> /\ \A d \in Call \ {c} : call'[d] = call[d]
    BY <1>4 DEF Start, WaitHit, WaitGivesUp, QueryDatabase, ComputeReturns,
                ComputeFails, ComputeTimesOut, ValkeyFails, Finish, TypeOK
  <2>2. call'[c].pc = "compute" => call[c].pc = "compute"
                                   /\ call'[c].since = call[c].since
    <3>1. CASE Start(c)
      BY <3>1 DEF Start, Idle, TypeOK
    <3>2. CASE QueryDatabase(c)
      BY <3>2 DEF QueryDatabase, TypeOK
    <3>3. CASE ~Start(c) /\ ~QueryDatabase(c)
      <4>1. PICK r \in {Ended(c), Goto(c, "store"), Goto(c, "unlock")} :
               call' = [call EXCEPT ![c] = r]
        BY <1>4, <3>3 DEF WaitHit, WaitGivesUp, ComputeReturns, ComputeFails,
                  ComputeTimesOut, ValkeyFails, Finish
      <4>2. call'[c] = r
        BY <4>1, SetCall
      <4>q. QED
        BY <4>1, <4>2, NextFields
    <3>q. QED
      BY <3>1, <3>2, <3>3
  <2>q. QED
    BY <1>1, <2>1, <2>2
<1>5. ASSUME NEW p \in Process, Stop(p) PROVE FlightInv'
  <2>1. /\ UNCHANGED <<now, lock>>
        /\ \A c \in Call : call'[c] \in {call[c], Ended(c)} /\ Ended(c).pc = "end"
    BY <1>5 DEF Stop, Ended, Idle
  <2>q. QED
    BY <1>1, <2>1
<1>6. CASE (\E k \in Key : Publish(k) \/ Invalidate(k) \/ Evict(k)) \/ UNCHANGED vars
  BY <1>1, <1>6 DEF Publish, Invalidate, Evict, vars
<1>7. CASE Tick
  <2>1. ASSUME NEW c \in Call, call[c].pc = "compute"
        PROVE  /\ now + 1 <= call[c].since + ComputeTimeout
               /\ lock[KeyOf[c]].expires > now + 1
    <3>1. now - call[c].since < ComputeTimeout
      BY <1>7, <2>1 DEF Tick, Limit, Pending
    <3>q. QED
      BY <1>0, <2>1, <3>1 DEF FlightInv
  <2>2. /\ now' = now + 1 /\ call' = call
        /\ \A c \in Call : call[c].pc = "compute" => lock'[KeyOf[c]] = lock[KeyOf[c]]
    BY <1>0, <1>7, <2>1 DEF Tick, TypeOK
  <2>q. QED
    BY <2>1, <2>2 DEF FlightInv, Owns
<1>q. QED
  BY <1>2, <1>3, <1>4, <1>5, <1>6, <1>7 DEF Next, CallStep

\* One computation per key at a time, over all processes, with stops, lost
\* commands and any delay: the lock is its owner's until wait_for has ended
\* the computation.
THEOREM OneComputation ==
  ASSUME ComputeTimeout < Lease, "evict" \notin Faults, "invalidate" \notin Faults
  PROVE  Spec => []SingleFlight
<1>1. Init => FlightInv
  BY DEF Init, FlightInv, Idle
<1>2. TypeOK /\ FlightInv /\ [Next]_vars => FlightInv'
  BY FlightStep
<1>3. FlightInv => SingleFlight
  <2> SUFFICES ASSUME FlightInv, NEW k \in Key PROVE Cardinality(Computing(k)) <= 1
    BY DEF SingleFlight
  <2>1. \A c, d \in Computing(k) : c = d
    BY DEF Computing, FlightInv, Owns
  <2>2. CASE Computing(k) = {}
    BY <2>2, FS_EmptySet
  <2>3. ASSUME NEW c, Computing(k) = {c} PROVE Cardinality(Computing(k)) <= 1
    <3>1. Cardinality({c}) = 1
      BY FS_Singleton
    <3>q. QED
      BY <2>3, <3>1
  <2>4. Computing(k) # {} => \E c : Computing(k) = {c}
    BY <2>1
  <2>q. QED
    BY <2>2, <2>3, <2>4
<1>q. QED
  BY <1>1, <1>2, <1>3, CacheTypeCorrect, PTL DEF Spec

-----------------------------------------------------------------------------
(* The age of answers.                                                     *)

\* Version v of k was not superseded before t.
CurrentAt(k, v, t) == /\ v \in 1 .. Current(k)
                      /\ v # Current(k) => superseded[k][v] >= t

\* Locks and entries are not past their expiry, which was set a lease or a
\* stale time ahead; an owner's snapshot is younger than its lock, and an entry
\* was stored while its writer's lock lasted.
AgeInv ==
  /\ \A k \in Key : lock[k] # NoLock => lock[k].expires \in now + 1 .. now + Lease
  /\ \A k \in Key : data[k] # NoData =>
       /\ data[k].expires \in now + 1 .. now + Stale
       /\ CurrentAt(k, data[k].version, data[k].expires - Stale - Lease + 1)
  /\ \A c \in Call : Owns(c) /\ call[c].version # 0 =>
       CurrentAt(KeyOf[c], call[c].version, lock[KeyOf[c]].expires - Lease)

\* What was current at a time that has come stays so.
LEMMA CurrentAtStays ==
  ASSUME TypeOK, [Next]_vars, NEW k \in Key, NEW v, NEW t \in Int, t <= now,
         CurrentAt(k, v, t)
  PROVE  CurrentAt(k, v, t)'
<1>0. superseded[k] \in Seq(Nat) /\ now \in Nat
  BY DEF TypeOK
<1>1. CASE superseded'[k] = superseded[k]
  BY <1>1 DEF CurrentAt, Current
<1>2. CASE superseded'[k] = Append(superseded[k], now)
  <2>1. /\ Current(k)' = Current(k) + 1 /\ Current(k) \in Nat
        /\ superseded'[k][Current(k)] = now
        /\ \A i \in 1 .. Len(superseded[k]) : superseded'[k][i] = superseded[k][i]
    BY <1>0, <1>2 DEF Current
  <2>2. v \in 1 .. Current(k) /\ v \in 1 .. Current(k)'
    BY <2>1 DEF CurrentAt
  <2>3. CASE v = Current(k)
    BY <1>0, <2>1, <2>2, <2>3 DEF CurrentAt
  <2>4. CASE v # Current(k)
    <3>1. v \in 1 .. Len(superseded[k]) /\ superseded[k][v] >= t
      BY <1>0, <2>2, <2>4 DEF CurrentAt, Current
    <3>q. QED
      BY <2>1, <2>2, <3>1 DEF CurrentAt
  <2>q. QED
    BY <2>3, <2>4
<1>3. superseded'[k] = superseded[k] \/ superseded'[k] = Append(superseded[k], now)
  BY DEF Next, vars, Tick, CallStep, Start, Read, WaitHit, WaitGivesUp,
         QueryDatabase, ComputeReturns, ComputeFails, ComputeTimesOut, Store,
         Unlock, ValkeyFails, Stop, Publish, Invalidate, Evict, TypeOK
<1>q. QED
  BY <1>1, <1>2, <1>3

\* Each step keeps AgeInv.
LEMMA AgeStep ==
  ASSUME TypeOK, SnapshotInv, AgeInv, [Next]_vars
  PROVE  AgeInv'
<1>0. /\ now \in Nat /\ Lease \in Nat \ {0} /\ Stale \in Nat \ {0}
      /\ \A c \in Call : /\ KeyOf[c] \in Key /\ c # NoCall
                         /\ call[c].version \in Nat
      /\ \A k \in Key : /\ lock[k].expires \in Nat /\ data[k].expires \in Nat
                        /\ data[k].version \in Nat /\ Current(k) \in Nat \ {0}
      /\ NoLock.owner = NoCall
  <2>1. \A k \in Key : Current(k) \in Nat \ {0}
    BY DEF TypeOK, Current
  <2>2. now \in Nat /\ Lease \in Nat \ {0} /\ Stale \in Nat \ {0}
    BY TimeAssumption DEF TypeOK
  <2>3. /\ \A c \in Call : /\ KeyOf[c] \in Key /\ c # NoCall
                           /\ call[c].version \in Nat
        /\ \A k \in Key : /\ lock[k].expires \in Nat /\ data[k].expires \in Nat
                          /\ data[k].version \in Nat
    BY CallAssumption DEF TypeOK
  <2>q. QED
    BY <2>1, <2>2, <2>3 DEF NoLock
\* What was there before and still is.
<1>1. ASSUME NEW k \in Key, lock'[k] # NoLock, lock'[k] = lock[k], now' = now
      PROVE  lock'[k].expires \in now' + 1 .. now' + Lease
  BY <1>1 DEF AgeInv
<1>2. ASSUME NEW k \in Key, data'[k] # NoData, data'[k] = data[k]
      PROVE  CurrentAt(k, data[k].version, data[k].expires - Stale - Lease + 1)'
  <2> DEFINE v == data[k].version
             t == data[k].expires - Stale - Lease + 1
  <2>1. PICK w, u \in Int : w = v /\ u = t
    BY <1>0
  <2>2. CurrentAt(k, w, u) /\ u <= now
    BY <1>0, <1>2, <2>1 DEF AgeInv
  <2>3. CurrentAt(k, w, u)'
    BY <2>2, CurrentAtStays
  <2>4. w = v' /\ u = t'
    BY <1>2, <2>1
  <2>q. QED
    BY <2>3, <2>4 DEF CurrentAt
<1>3. ASSUME NEW c \in Call, Owns(c), call[c].version # 0,
             lock'[KeyOf[c]] = lock[KeyOf[c]], call'[c].version = call[c].version
      PROVE  CurrentAt(KeyOf[c], call[c].version, lock[KeyOf[c]].expires - Lease)'
  <2> DEFINE v == call[c].version
             t == lock[KeyOf[c]].expires - Lease
  <2>1. PICK w, u \in Int : w = v /\ u = t
    BY <1>0
  <2>2. CurrentAt(KeyOf[c], w, u) /\ u <= now
    <3>1. lock[KeyOf[c]] # NoLock
      BY <1>0, <1>3 DEF Owns
    <3>q. QED
      BY <1>0, <1>3, <2>1, <3>1 DEF AgeInv
  <2>3. CurrentAt(KeyOf[c], w, u)'
    BY <1>0, <2>2, CurrentAtStays
  <2>4. w = v' /\ u = t'
    BY <1>3, <2>1
  <2>q. QED
    BY <2>3, <2>4 DEF CurrentAt
\* Steps that only take away.
<1>4. ASSUME now' = now,
             \A k \in Key : data'[k] \in {data[k], NoData},
             \A k \in Key : lock'[k] \in {lock[k], NoLock},
             \A c \in Call : call'[c].version \in {0, call[c].version}
      PROVE  AgeInv'
  <2>1. ASSUME NEW k \in Key, data'[k] # NoData
        PROVE  data'[k].expires \in now' + 1 .. now' + Stale
    BY <1>4, <2>1 DEF AgeInv
  <2>2. ASSUME NEW c \in Call, Owns(c)', call'[c].version # 0
        PROVE  /\ Owns(c) /\ call'[c].version = call[c].version
               /\ lock'[KeyOf[c]] = lock[KeyOf[c]]
    BY <1>0, <1>4, <2>2 DEF Owns
  <2>q. QED
    BY <1>1, <1>2, <1>3, <1>4, <2>1, <2>2 DEF AgeInv
<1>5. ASSUME NEW c \in Call, Read(c) PROVE AgeInv'
  <2>1. /\ lock' \in {lock, Grant(c)} /\ UNCHANGED <<now, data>>
        /\ call[c].version = 0 /\ call[c].pc = "read"
    BY <1>5 DEF Read, SnapshotInv
  <2>2. \E r \in {Ended(c), ScheduleRefresh(c), Goto(c, "compute"), Goto(c, "wait")} :
           call' = [call EXCEPT ![c] = r]
    BY <1>5 DEF Read, Finish
  <2>3. \A r \in {Ended(c), ScheduleRefresh(c), Goto(c, "compute"), Goto(c, "wait")} :
           r.version = 0
    BY <2>1 DEF Ended, ScheduleRefresh, Goto, Idle, TypeOK
  <2>4. call'[c].version = 0 /\ \A d \in Call \ {c} : call'[d] = call[d]
    BY <2>2, <2>3 DEF TypeOK
  <2>5. CASE lock' = lock
    BY <1>4, <2>1, <2>4, <2>5
  <2>6. CASE lock' = Grant(c)
    <3>1. /\ lock'[KeyOf[c]] = [owner |-> c, expires |-> now + Lease]
          /\ \A k \in Key \ {KeyOf[c]} : lock'[k] = lock[k]
      BY <1>0, <2>6 DEF Grant, TypeOK
    <3>2. ASSUME NEW k \in Key, lock'[k] # NoLock
          PROVE  lock'[k].expires \in now' + 1 .. now' + Lease
      BY <1>0, <1>1, <2>1, <3>1, <3>2
    <3>3. ASSUME NEW d \in Call, Owns(d)', call'[d].version # 0
          PROVE  /\ Owns(d) /\ call'[d].version = call[d].version
                 /\ lock'[KeyOf[d]] = lock[KeyOf[d]]
      BY <1>0, <2>4, <3>1, <3>3 DEF Owns
    <3>4. \A k \in Key : data'[k] # NoData => data'[k].expires \in now' + 1 .. now' + Stale
      BY <2>1 DEF AgeInv
    <3>q. QED
      BY <1>2, <1>3, <2>1, <3>2, <3>3, <3>4 DEF AgeInv
  <2>q. QED
    BY <2>1, <2>5, <2>6
<1>6. ASSUME NEW c \in Call, QueryDatabase(c) PROVE AgeInv'
  <2>1. /\ UNCHANGED <<now, data, lock, superseded>>
        /\ call'[c].version = Current(KeyOf[c])
        /\ \A d \in Call \ {c} : call'[d] = call[d]
    BY <1>6 DEF QueryDatabase, TypeOK
  <2>2. ASSUME NEW d \in Call, Owns(d)', call'[d].version # 0
        PROVE  CurrentAt(KeyOf[d], call[d].version, lock[KeyOf[d]].expires - Lease)'
    <3>1. CASE d = c
      BY <1>0, <2>1, <3>1 DEF CurrentAt, Current
    <3>2. CASE d # c
      BY <1>3, <2>1, <2>2, <3>2 DEF Owns
    <3>q. QED
      BY <3>1, <3>2
  <2>3. /\ \A k \in Key : lock'[k] # NoLock => lock'[k].expires \in now' + 1 .. now' + Lease
        /\ \A k \in Key : data'[k] # NoData => data'[k].expires \in now' + 1 .. now' + Stale
    BY <2>1 DEF AgeInv
  <2>q. QED
    BY <1>2, <2>1, <2>2, <2>3 DEF AgeInv
<1>7. ASSUME NEW c \in Call, Store(c) PROVE AgeInv'
  <2>1. /\ StoreScript(c) /\ UNCHANGED <<now, superseded>> /\ call[c].version # 0
        /\ \E r \in {Ended(c), Goto(c, "unlock")} : call' = [call EXCEPT ![c] = r]
    BY <1>7 DEF Store, Finish, SnapshotInv
  <2>2. \A d \in Call : call'[d].version \in {0, call[d].version}
    <3>1. /\ call'[c] \in {Ended(c), Goto(c, "unlock")}
          /\ \A d \in Call \ {c} : call'[d] = call[d]
      BY <2>1 DEF TypeOK
    <3>2. Ended(c).version = 0 /\ Goto(c, "unlock").version = call[c].version
      BY DEF Ended, Goto, Idle, TypeOK
    <3>q. QED
      BY <3>1, <3>2
  <2>3. CASE Owns(c)
    <3>1. /\ data' = [data EXCEPT ![KeyOf[c]] = [version   |-> call[c].version,
                                                stored_at |-> call[c].since,
                                                expires   |-> now + Stale]]
          /\ lock' = [lock EXCEPT ![KeyOf[c]] = NoLock]
      BY <2>1, <2>3 DEF StoreScript, StoreUntil
    <3>2. /\ data'[KeyOf[c]].version = call[c].version
          /\ data'[KeyOf[c]].expires = now + Stale
          /\ \A k \in Key \ {KeyOf[c]} : data'[k] = data[k]
          /\ \A k \in Key : lock'[k] \in {lock[k], NoLock}
      BY <1>0, <3>1 DEF TypeOK
    <3>3. CurrentAt(KeyOf[c], call[c].version, lock[KeyOf[c]].expires - Lease)
      BY <2>1, <2>3 DEF AgeInv
    <3>4. lock[KeyOf[c]].expires >= now + 1
      BY <1>0, <2>3 DEF AgeInv, Owns
    <3>5. CurrentAt(KeyOf[c], data[KeyOf[c]].version,
                    data[KeyOf[c]].expires - Stale - Lease + 1)'
      <4>1. superseded[KeyOf[c]] \in Seq(Nat)
        BY <1>0 DEF TypeOK
      <4>2. call[c].version # Current(KeyOf[c]) =>
              superseded[KeyOf[c]][call[c].version] \in Nat
        <5> SUFFICES ASSUME NEW k, NEW v, k = KeyOf[c], v = call[c].version,
                            v # Current(k)
                     PROVE  superseded[k][v] \in Nat
          OBVIOUS
        <5>1. v \in 1 .. Current(k)
          BY <3>3 DEF CurrentAt
        <5>q. QED
          BY <4>1, <5>1 DEF Current
      <4>q. QED
        BY <1>0, <2>1, <3>2, <3>3, <3>4, <4>2 DEF CurrentAt, Current
    <3>6. ASSUME NEW k \in Key, data'[k] # NoData
          PROVE  /\ data'[k].expires \in now' + 1 .. now' + Stale
                 /\ CurrentAt(k, data[k].version,
                              data[k].expires - Stale - Lease + 1)'
      <4>1. CASE k = KeyOf[c]
        BY <1>0, <2>1, <3>2, <3>5, <4>1
      <4>2. CASE k # KeyOf[c]
        BY <1>2, <2>1, <3>2, <3>6, <4>2 DEF AgeInv
      <4>q. QED
        BY <4>1, <4>2
    <3>7. ASSUME NEW d \in Call, Owns(d)', call'[d].version # 0
          PROVE  /\ Owns(d) /\ call'[d].version = call[d].version
                 /\ lock'[KeyOf[d]] = lock[KeyOf[d]]
      BY <1>0, <2>2, <3>2, <3>7 DEF Owns
    <3>q. QED
      BY <1>1, <1>3, <2>1, <3>2, <3>6, <3>7 DEF AgeInv
  <2>4. CASE ~Owns(c)
    BY <1>4, <2>1, <2>2, <2>4 DEF StoreScript, StoreUntil
  <2>q. QED
    BY <2>3, <2>4
<1>8. ASSUME NEW c \in Call,
             \/ Start(c) \/ WaitHit(c) \/ WaitGivesUp(c) \/ ComputeReturns(c)
             \/ ComputeFails(c) \/ ComputeTimesOut(c) \/ Unlock(c)
             \/ ValkeyFails(c)
      PROVE  AgeInv'
  <2>1. /\ UNCHANGED <<now, data>>
        /\ lock' \in {lock, [lock EXCEPT ![KeyOf[c]] = NoLock]}
    BY <1>8 DEF Start, WaitHit, WaitGivesUp, ComputeReturns, ComputeFails,
                ComputeTimesOut, Unlock, ValkeyFails
  <2>2. \A d \in Call \ {c} : call'[d] = call[d]
    BY <1>8 DEF Start, WaitHit, WaitGivesUp, ComputeReturns, ComputeFails,
                ComputeTimesOut, Unlock, ValkeyFails, Finish, TypeOK
  <2>3. call'[c].version \in {0, call[c].version}
    <3>1. Ended(c).version = 0
      BY DEF Ended, Idle
    <3>2. \A pc : Goto(c, pc).version = call[c].version
      BY DEF Goto, TypeOK
    <3>3. CASE Start(c)
      BY <3>3 DEF Start, Idle, TypeOK
    <3>4. CASE ~Start(c)
      <4>1. \/ call' = [call EXCEPT ![c] = Ended(c)]
            \/ \E pc \in {"store", "unlock"} : call' = [call EXCEPT ![c] = Goto(c, pc)]
        BY <1>8, <3>4 DEF WaitHit, WaitGivesUp, ComputeReturns, ComputeFails,
                    ComputeTimesOut, Unlock, ValkeyFails, Finish
      <4>2. call'[c] = Ended(c) \/ \E pc \in {"store", "unlock"} : call'[c] = Goto(c, pc)
        BY <4>1 DEF TypeOK
      <4>q. QED
        BY <3>1, <3>2, <4>2
    <3>q. QED
      BY <3>3, <3>4
  <2>4. \A k \in Key : lock'[k] \in {lock[k], NoLock}
    BY <2>1 DEF TypeOK
  <2>q. QED
    BY <1>4, <2>1, <2>2, <2>3, <2>4
<1>9. ASSUME NEW p \in Process, Stop(p) PROVE AgeInv'
  <2>1. /\ UNCHANGED <<now, data, lock>>
        /\ \A c \in Call : call'[c] \in {call[c], Ended(c)} /\ Ended(c).version = 0
    BY <1>9 DEF Stop, Ended, Idle
  <2>q. QED
    BY <1>4, <2>1
<1>10. CASE (\E k \in Key : Publish(k) \/ Invalidate(k) \/ Evict(k)) \/ UNCHANGED vars
  <2>1. /\ UNCHANGED <<now, call>>
        /\ \A k \in Key : data'[k] \in {data[k], NoData} /\ lock'[k] \in {lock[k], NoLock}
    BY <1>10 DEF Publish, Invalidate, Evict, vars, TypeOK
  <2>q. QED
    BY <1>4, <2>1
<1>11. CASE Tick
  <2>1. /\ now' = now + 1 /\ UNCHANGED <<call, superseded>>
        /\ \A k \in Key : /\ data'[k] = IF data[k].expires <= now + 1
                                          THEN NoData ELSE data[k]
                          /\ lock'[k] = IF lock[k].expires <= now + 1
                                          THEN NoLock ELSE lock[k]
    BY <1>11 DEF Tick, TypeOK
  <2>2. ASSUME NEW k \in Key
        PROVE  /\ lock'[k] # NoLock => lock'[k].expires \in now' + 1 .. now' + Lease
               /\ data'[k] # NoData => data'[k].expires \in now' + 1 .. now' + Stale
               /\ data'[k] # NoData => data'[k] = data[k]
    BY <1>0, <2>1 DEF AgeInv
  <2>3. ASSUME NEW c \in Call, Owns(c)', call'[c].version # 0
        PROVE  /\ Owns(c) /\ call'[c].version = call[c].version
               /\ lock'[KeyOf[c]] = lock[KeyOf[c]]
    BY <1>0, <2>1, <2>3 DEF Owns
  <2>q. QED
    BY <1>2, <1>3, <2>1, <2>2, <2>3 DEF AgeInv
<1>q. QED
  BY <1>5, <1>6, <1>7, <1>8, <1>9, <1>10, <1>11 DEF Next, CallStep

\* Whatever the cache answers was in the database less than a stale time and a
\* lease ago, with every fault, any delay and any computation time.
THEOREM AnswersAreBounded == Spec => CacheAnswersBounded
<1>1. Init => AgeInv
  <2> SUFFICES ASSUME Init PROVE AgeInv
    OBVIOUS
  <2>1. /\ \A k \in Key : lock[k] = NoLock /\ data[k] = NoData
        /\ \A c \in Call : call[c].version = 0
    BY DEF Init, Idle
  <2>q. QED
    BY <2>1 DEF AgeInv
<1>2. TypeOK /\ AgeInv /\ [Next]_vars =>
        [\A c \in Call :
           Replied(c) /\ reply'[c].path \in {"fresh", "stale", "waited"} =>
             LET k == KeyOf[c]
                 v == reply'[c].version
             IN  \/ v = Current(k)
                 \/ superseded[k][v] + Stale + Lease > now]_vars
  <2> SUFFICES ASSUME TypeOK, AgeInv, Next, NEW c \in Call, Replied(c),
                      reply'[c].path \in {"fresh", "stale", "waited"}
               PROVE  LET k == KeyOf[c]
                          v == reply'[c].version
                      IN  \/ v = Current(k)
                          \/ superseded[k][v] + Stale + Lease > now
    OBVIOUS
  <2>0. PICK d \in Call : Read(d) \/ WaitHit(d)
    <3>1. reply' # reply
      BY DEF Replied
    <3>2. ASSUME NEW d \in Call, NEW path \in {"busy", "error", "computed"}, NEW v,
                 Finish(d, path, v)
          PROVE  FALSE
      <4>1. reply' = [reply EXCEPT ![d] = [path |-> path, version |-> v]]
        BY <3>1, <3>2 DEF Finish, Answer
      <4>q. QED
        BY <4>1 DEF Replied, TypeOK
    <3>3. ASSUME NEW d \in Call, Store(d) \/ Unlock(d) \/ WaitGivesUp(d) \/ ValkeyFails(d)
          PROVE  FALSE
      BY <3>1, <3>2, <3>3 DEF Store, Unlock, WaitGivesUp, ValkeyFails
    <3>q. QED
      BY <3>1, <3>3 DEF Next, CallStep, Start, QueryDatabase, ComputeReturns,
           ComputeFails, ComputeTimesOut, Stop, Publish, Invalidate, Evict, Tick
  <2>1. d = c
    <3>1. CASE reply' = reply
      BY <3>1 DEF Replied
    <3>2. CASE \E path, v : reply' = Answer(d, path, v)
      BY <3>2 DEF Replied, Answer, TypeOK
    <3>q. QED
      BY <2>0, <3>1, <3>2 DEF Read, WaitHit, Finish
  <2>2. /\ data[KeyOf[c]] # NoData
        /\ reply'[c].version = data[KeyOf[c]].version
    <3>1. ASSUME NEW path, NEW v, reply' = Answer(c, path, v)
          PROVE  reply'[c].version = v /\ reply'[c].path = path
      BY <3>1 DEF Answer, TypeOK
    <3>2. reply' # reply
      BY DEF Replied
    <3>3. CASE WaitHit(c)
      BY <3>1, <3>2, <3>3 DEF WaitHit, Finish
    <3>4. CASE Read(c)
      <4>1. /\ ReadState(KeyOf[c], call[c].since) \in {"fresh", "stale", "revalidate"}
            /\ \E path : reply' = Answer(c, path, data[KeyOf[c]].version)
        <5>1. ~Finish(c, "error", 0)
          BY <3>1, <3>2 DEF Finish
        <5>q. QED
          BY <3>2, <3>4, <5>1 DEF Read, Finish
      <4>q. QED
        BY <3>1, <4>1 DEF ReadState
    <3>q. QED
      BY <2>0, <2>1, <3>3, <3>4
  <2>3. /\ KeyOf[c] \in Key /\ now \in Nat /\ Stale \in Nat /\ Lease \in Nat
        /\ data[KeyOf[c]].expires \in Nat /\ superseded[KeyOf[c]] \in Seq(Nat)
    BY CallAssumption, TimeAssumption DEF TypeOK
  <2>4. /\ data[KeyOf[c]].expires >= now + 1
        /\ CurrentAt(KeyOf[c], data[KeyOf[c]].version,
                     data[KeyOf[c]].expires - Stale - Lease + 1)
    BY <2>2, <2>3 DEF AgeInv
  <2>5. ASSUME data[KeyOf[c]].version # Current(KeyOf[c])
        PROVE  superseded[KeyOf[c]][data[KeyOf[c]].version] + Stale + Lease > now
    <3>1. PICK k, v : k = KeyOf[c] /\ v = data[KeyOf[c]].version
      BY <2>3
    <3>2. v \in 1 .. Current(k) /\ v # Current(k)
      BY <2>4, <2>5, <3>1 DEF CurrentAt
    <3>3. superseded[k][v] \in Nat
      BY <2>3, <3>1, <3>2 DEF Current
    <3>4. superseded[k][v] >= data[k].expires - Stale - Lease + 1
      BY <2>4, <2>5, <3>1 DEF CurrentAt
    <3>5. PICK x \in Nat, e \in Nat : x = superseded[k][v] /\ e = data[k].expires
      BY <2>3, <3>1, <3>3
    <3>6. x >= e - Stale - Lease + 1 /\ e >= now + 1
      BY <2>4, <3>1, <3>4, <3>5
    <3>7. x + Stale + Lease > now
      BY <2>3, <3>6
    <3>q. QED
      BY <3>1, <3>5, <3>7
  <2>q. QED
    BY <2>2, <2>5
<1>3. TypeOK /\ SnapshotInv /\ AgeInv /\ [Next]_vars => AgeInv'
  BY AgeStep
<1>q. QED
  BY <1>1, <1>2, <1>3, SnapshotInvariant, PTL DEF Spec, CacheAnswersBounded

-----------------------------------------------------------------------------
(* The background refreshes of a process.                                  *)

Refreshes(p) == {c \in BackgroundTasks(p) : call[c].pc = "compute"}

\* A call that reads has no background task yet, and the tasks that are counted
\* against the limit are finitely many.
RefreshInv ==
  /\ \A c \in Call : call[c].pc = "read" => ~call[c].background
  /\ \A p \in Process : /\ IsFiniteSet(BackgroundTasks(p))
                        /\ Cardinality(Refreshes(p)) <= RefreshLimit

\* What becomes of the background flag.
LEMMA BackgroundField ==
  ASSUME TypeOK, NEW c \in Call
  PROVE  /\ Ended(c).background = FALSE
         /\ \A pc : Goto(c, pc).background = call[c].background
<1>1. Ended(c).background = FALSE
  BY DEF Ended, Idle
<1>2. \A pc : Goto(c, pc).background = call[c].background
  BY DEF TypeOK, Goto
<1>q. QED
  BY <1>1, <1>2

\* Steps after which no other task refreshes than before.
LEMMA NoNewRefresh ==
  ASSUME RefreshInv,
         \A c \in Call :
           /\ call'[c].background => call[c].background
           /\ call'[c].background /\ call'[c].pc = "compute" => call[c].pc = "compute"
           /\ call'[c].pc = "read" => ~call'[c].background
  PROVE  RefreshInv'
<1>1. ASSUME NEW p \in Process
      PROVE  /\ IsFiniteSet(BackgroundTasks(p)')
             /\ Cardinality(Refreshes(p)') <= RefreshLimit
  <2>1. BackgroundTasks(p)' \subseteq BackgroundTasks(p)
    BY DEF BackgroundTasks
  <2>2. Refreshes(p)' \subseteq Refreshes(p) /\ Refreshes(p) \subseteq BackgroundTasks(p)
    BY DEF Refreshes, BackgroundTasks
  <2>3. IsFiniteSet(BackgroundTasks(p)) /\ Cardinality(Refreshes(p)) <= RefreshLimit
    BY DEF RefreshInv
  <2>4. IsFiniteSet(BackgroundTasks(p)') /\ IsFiniteSet(Refreshes(p))
    BY <2>1, <2>2, <2>3, FS_Subset
  <2>5. /\ IsFiniteSet(Refreshes(p)')
        /\ Cardinality(Refreshes(p)') <= Cardinality(Refreshes(p))
    BY <2>2, <2>4, FS_Subset
  <2>6. Cardinality(Refreshes(p)') \in Nat /\ Cardinality(Refreshes(p)) \in Nat
    BY <2>4, <2>5, FS_CardinalityType
  <2>7. Cardinality(Refreshes(p)') <= RefreshLimit
    BY <2>3, <2>5, <2>6, TimeAssumption
  <2>q. QED
    BY <2>4, <2>7
<1>q. QED
  BY <1>1 DEF RefreshInv

\* The test of the limit: a refresh begins beside fewer than RefreshLimit tasks.
LEMMA RefreshScheduled ==
  ASSUME TypeOK, RefreshInv, NEW c \in Call, call[c].pc = "read",
         call' = [call EXCEPT ![c] = ScheduleRefresh(c)]
  PROVE  RefreshInv'
<1> DEFINE q    == ProcessOf[c]
           full == Cardinality(BackgroundTasks(q)) >= RefreshLimit
<1>1. /\ \A d \in Call \ {c} : call'[d] = call[d]
      /\ call'[c].background = TRUE
      /\ call'[c].pc = IF full THEN "unlock" ELSE "compute"
  <2>1. call'[c] = ScheduleRefresh(c) /\ \A d \in Call \ {c} : call'[d] = call[d]
    BY SetCall
  <2>2. ScheduleRefresh(c) =
          [Goto(c, IF full THEN "unlock" ELSE "compute") EXCEPT !.background = TRUE]
    BY DEF ScheduleRefresh
  <2>3. \A pc \in Pending :
          /\ [Goto(c, pc) EXCEPT !.background = TRUE].background = TRUE
          /\ [Goto(c, pc) EXCEPT !.background = TRUE].pc = pc
    BY NextRecords, NextFields DEF CallRecord
  <2>4. (IF full THEN "unlock" ELSE "compute") \in Pending
    BY DEF Pending
  <2> HIDE DEF full
  <2>q. QED
    BY <2>1, <2>2, <2>3, <2>4
<1>2. ASSUME NEW p \in Process
      PROVE  /\ IsFiniteSet(BackgroundTasks(p)')
             /\ Cardinality(Refreshes(p)') <= RefreshLimit
  <2>0. /\ IsFiniteSet(BackgroundTasks(p)) /\ Cardinality(Refreshes(p)) <= RefreshLimit
        /\ Refreshes(p) \subseteq BackgroundTasks(p) /\ c \notin BackgroundTasks(p)
    BY DEF RefreshInv, Refreshes, BackgroundTasks
  <2>1. IsFiniteSet(BackgroundTasks(p)')
    <3>1. BackgroundTasks(p)' \subseteq BackgroundTasks(p) \cup {c}
      BY <1>1 DEF BackgroundTasks
    <3>q. QED
      BY <2>0, <3>1, FS_AddElement, FS_Subset
  <2>2. /\ IsFiniteSet(Refreshes(p))
        /\ Cardinality(Refreshes(p)) <= Cardinality(BackgroundTasks(p))
        /\ Cardinality(Refreshes(p)) \in Nat /\ Cardinality(BackgroundTasks(p)) \in Nat
    BY <2>0, FS_Subset, FS_CardinalityType
  <2>3. CASE p = q /\ ~full
    <3>1. Refreshes(p)' = Refreshes(p) \cup {c} /\ c \notin Refreshes(p)
      BY <1>1, <2>0, <2>3 DEF Refreshes, BackgroundTasks
    <3>2. Cardinality(Refreshes(p)') = Cardinality(Refreshes(p)) + 1
      BY <2>2, <3>1, FS_AddElement
    <3>q. QED
      BY <2>1, <2>2, <2>3, <3>2, TimeAssumption
  <2>4. CASE ~(p = q /\ ~full)
    <3>1. Refreshes(p)' = Refreshes(p)
      <4>1. ~(ProcessOf[c] = p /\ call'[c].background /\ call'[c].pc = "compute")
        BY <1>1, <2>4
      <4>q. QED
        BY <1>1, <2>0, <4>1 DEF Refreshes, BackgroundTasks
    <3>q. QED
      BY <2>0, <2>1, <3>1
  <2>q. QED
    BY <2>3, <2>4
<1>3. \A d \in Call : call'[d].pc = "read" => ~call'[d].background
  BY <1>1 DEF RefreshInv
<1>q. QED
  BY <1>2, <1>3 DEF RefreshInv

LEMMA RefreshStep == TypeOK /\ RefreshInv /\ [Next]_vars => RefreshInv'
<1> SUFFICES ASSUME TypeOK, RefreshInv, [Next]_vars PROVE RefreshInv'
  OBVIOUS
<1>1. ASSUME NEW c \in Call, NEW r, call' = [call EXCEPT ![c] = r],
             r.background => call[c].background,
             r.background /\ r.pc = "compute" => call[c].pc = "compute",
             r.pc = "read" => ~r.background
      PROVE  RefreshInv'
  <2>1. call'[c] = r /\ \A d \in Call \ {c} : call'[d] = call[d]
    BY <1>1, SetCall
  <2>q. QED
    BY <1>1, <2>1, NoNewRefresh DEF RefreshInv
<1>2. ASSUME NEW c \in Call, Read(c) PROVE RefreshInv'
  <2>1. call[c].pc = "read" /\ ~call[c].background
    BY <1>2 DEF Read, RefreshInv
  <2>2. CASE call' = [call EXCEPT ![c] = ScheduleRefresh(c)]
    BY <2>1, <2>2, RefreshScheduled
  <2>3. ASSUME NEW pc \in {"compute", "wait"}, call' = [call EXCEPT ![c] = Goto(c, pc)]
        PROVE  RefreshInv'
    <3>1. Goto(c, pc).pc = pc /\ ~Goto(c, pc).background
      BY <2>1, NextFields, BackgroundField
    <3>q. QED
      BY <1>1, <2>3, <3>1
  <2>4. CASE call' = [call EXCEPT ![c] = Ended(c)]
    BY <1>1, <2>4, BackgroundField
  <2>q. QED
    BY <1>2, <2>2, <2>3, <2>4 DEF Read, Finish
<1>3. ASSUME NEW c \in Call, Start(c) PROVE RefreshInv'
  <2> DEFINE r == [Idle EXCEPT !.pc = "read", !.since = now,
                               !.asked = Current(KeyOf[c])]
  <2>1. call' = [call EXCEPT ![c] = r]
    BY <1>3 DEF Start
  <2>2. r.background = FALSE
    BY DEF Idle
  <2> HIDE DEF r
  <2>q. QED
    BY <1>1, <2>1, <2>2
<1>4. ASSUME NEW c \in Call, QueryDatabase(c) PROVE RefreshInv'
  <2> DEFINE r == [call[c] EXCEPT !.version = Current(KeyOf[c])]
  <2>1. call' = [call EXCEPT ![c] = r] /\ call[c].pc = "compute"
    BY <1>4 DEF QueryDatabase
  <2>2. r.background = call[c].background /\ r.pc = call[c].pc
    BY DEF TypeOK
  <2> HIDE DEF r
  <2>q. QED
    BY <1>1, <2>1, <2>2
<1>5. ASSUME NEW c \in Call,
             \/ WaitHit(c) \/ WaitGivesUp(c) \/ ComputeReturns(c) \/ ComputeFails(c)
             \/ ComputeTimesOut(c) \/ Store(c) \/ Unlock(c) \/ ValkeyFails(c)
      PROVE  RefreshInv'
  <2>1. \/ call' = [call EXCEPT ![c] = Ended(c)]
        \/ \E pc \in {"unlock", "store"} : call' = [call EXCEPT ![c] = Goto(c, pc)]
    BY <1>5 DEF WaitHit, WaitGivesUp, ComputeReturns, ComputeFails,
                ComputeTimesOut, Store, Unlock, ValkeyFails, Finish
  <2>2. CASE call' = [call EXCEPT ![c] = Ended(c)]
    BY <1>1, <2>2, BackgroundField
  <2>3. ASSUME NEW pc \in {"unlock", "store"}, call' = [call EXCEPT ![c] = Goto(c, pc)]
        PROVE  RefreshInv'
    <3>1. Goto(c, pc).pc = pc /\ Goto(c, pc).background = call[c].background
      BY NextFields, BackgroundField
    <3>q. QED
      BY <1>1, <2>3, <3>1
  <2>q. QED
    BY <2>1, <2>2, <2>3
<1>6. ASSUME NEW p \in Process, Stop(p) PROVE RefreshInv'
  <2>1. \A c \in Call : call'[c] \in {call[c], Ended(c)}
    BY <1>6 DEF Stop
  <2>2. \A c \in Call : ~Ended(c).background
    BY BackgroundField
  <2>q. QED
    BY <2>1, <2>2, NoNewRefresh DEF RefreshInv
<1>7. CASE UNCHANGED call
  BY <1>7, NoNewRefresh DEF RefreshInv
<1>8. Tick \/ (\E k \in Key : Publish(k) \/ Invalidate(k) \/ Evict(k)) \/ UNCHANGED vars
        => UNCHANGED call
  BY DEF Tick, Publish, Invalidate, Evict, vars
<1>q. QED
  BY <1>2, <1>3, <1>4, <1>5, <1>6, <1>7, <1>8 DEF Next, CallStep

\* No process computes more than cache_background_refresh_limit refreshes at
\* once, for all its keys together, whatever stops, is evicted or invalidated
\* (_schedule_refresh).
THEOREM RefreshesAreLimited == Spec => []RefreshesLimited
<1>1. Init => RefreshInv
  <2> SUFFICES ASSUME Init PROVE RefreshInv
    OBVIOUS
  <2>1. \A c \in Call : call[c].background = FALSE
    BY DEF Init, Idle
  <2>2. \A p \in Process : BackgroundTasks(p) = {} /\ Refreshes(p) = {}
    BY <2>1 DEF BackgroundTasks, Refreshes
  <2>3. IsFiniteSet({}) /\ Cardinality({}) = 0 /\ 0 <= RefreshLimit
    BY FS_EmptySet, TimeAssumption
  <2>q. QED
    BY <2>1, <2>2, <2>3 DEF RefreshInv
<1>2. RefreshInv => RefreshesLimited
  BY DEF RefreshInv, Refreshes, RefreshesLimited
<1>q. QED
  BY <1>1, <1>2, RefreshStep, CacheTypeCorrect, PTL DEF Spec
-----------------------------------------------------------------------------
(* What a waiting caller finds.                                            *)

\* An entry that may be there while a caller waits that began to at since:
\* written later, or too stale by then.
Awaited(entry, since) ==
  entry # NoData =>
    entry.expires - Stale >= since \/ entry.stored_at + Stale < since

\* An entry is kept until Stale seconds after its script ran, at most MaxDelay
\* seconds after its date: so a caller only waits when there is none, or in the
\* short time in which a stale one is not yet dropped.
WaitInv ==
  /\ \A k \in Key : data[k] # NoData =>
       /\ data[k].expires <= data[k].stored_at + Stale + MaxDelay
       /\ now < data[k].expires
  /\ \A c \in Call :
       /\ call[c].pc \in {"read", "store"} =>
            call[c].since <= now /\ now <= call[c].since + MaxDelay
       /\ call[c].pc = "wait" =>
            call[c].since <= now /\ Awaited(data[KeyOf[c]], call[c].since)

LEMMA SinceField ==
  ASSUME TypeOK, NEW c \in Call
  PROVE  \A pc : Goto(c, pc).since = now
BY DEF TypeOK, Goto

\* Steps that store nothing, and let a call wait only where it may.
LEMMA NothingStored ==
  ASSUME WaitInv, now \in Nat, MaxDelay \in Nat, now' = now,
         \A k \in Key : data'[k] \in {data[k], NoData}, KeyOf \in [Call -> Key],
         \A c \in Call :
           \/ call'[c] = call[c]
           \/ /\ call'[c].pc \in {"read", "store", "wait"} => call'[c].since = now
              /\ call'[c].pc = "wait" => Awaited(data[KeyOf[c]], now)
  PROVE  WaitInv'
<1>1. ASSUME NEW k \in Key, data'[k] # NoData
      PROVE  /\ data'[k].expires <= data'[k].stored_at + Stale + MaxDelay
             /\ now' < data'[k].expires
  <2>1. data'[k] = data[k] /\ data[k] # NoData
    BY <1>1
  <2>q. QED
    BY <2>1 DEF WaitInv
<1>2. ASSUME NEW c \in Call, call'[c].pc \in {"read", "store"}
      PROVE  call'[c].since <= now' /\ now' <= call'[c].since + MaxDelay
  <2>1. CASE call'[c] = call[c]
    BY <1>2, <2>1 DEF WaitInv
  <2>2. CASE call'[c].since = now
    BY <2>2
  <2>q. QED
    BY <1>2, <2>1, <2>2
<1>3. ASSUME NEW c \in Call, call'[c].pc = "wait"
      PROVE  call'[c].since <= now' /\ Awaited(data'[KeyOf[c]], call'[c].since)
  <2>1. data'[KeyOf[c]] \in {data[KeyOf[c]], NoData}
    OBVIOUS
  <2>2. call'[c].since <= now' /\ Awaited(data[KeyOf[c]], call'[c].since)
    <3>1. CASE call'[c] = call[c]
      BY <1>3, <3>1 DEF WaitInv
    <3>2. CASE call'[c].since = now /\ Awaited(data[KeyOf[c]], now)
      BY <3>2
    <3>q. QED
      BY <1>3, <3>1, <3>2
  <2>q. QED
    BY <2>1, <2>2 DEF Awaited
<1>q. QED
  BY <1>1, <1>2, <1>3 DEF WaitInv

\* The reader waits when the script finds no entry, or a too stale one.
LEMMA ReadWaits ==
  ASSUME TypeOK, WaitInv, NEW c \in Call, Read(c) PROVE WaitInv'
<1>0. /\ now \in Nat /\ TTL \in Nat /\ Stale \in Nat /\ TTL <= Stale
      /\ MaxDelay \in Nat /\ KeyOf \in [Call -> Key] /\ call[c].since \in Nat
      /\ KeyOf[c] \in Key /\ data[KeyOf[c]].stored_at \in Nat
  BY CallAssumption, TimeAssumption DEF TypeOK
<1>1. PICK k, t : k = KeyOf[c] /\ t = call[c].since
  OBVIOUS
<1>2. t <= now /\ UNCHANGED <<now, data>>
  BY <1>1 DEF Read, WaitInv
<1>3. ASSUME ReadState(k, t) = "miss_wait" PROVE Awaited(data[k], now)
  <2> SUFFICES ASSUME data[k] # NoData PROVE data[k].stored_at + Stale < now
    BY DEF Awaited
  <2>1. ~(t - data[k].stored_at <= Stale)
    <3> SUFFICES ASSUME t - data[k].stored_at <= Stale PROVE FALSE
      OBVIOUS
    <3>1. t - data[k].stored_at <= TTL \/ t - data[k].stored_at > TTL
      BY <1>0, <1>1
    <3>2. ReadState(k, t) \in {"fresh", "revalidate", "stale"}
      BY <3>1 DEF ReadState
    <3>q. QED
      BY <1>3, <3>2
  <2>q. QED
    BY <1>0, <1>1, <1>2, <2>1
<1>4. ASSUME NEW r, call' = [call EXCEPT ![c] = r], r.pc \notin {"read", "store"},
             r.pc = "wait" => r.since = now /\ Awaited(data[k], now)
      PROVE  WaitInv'
  <2>1. call'[c] = r /\ \A d \in Call \ {c} : call'[d] = call[d]
    BY <1>4, SetCall
  <2>2. \A d \in Call :
          \/ call'[d] = call[d]
          \/ /\ call'[d].pc \in {"read", "store", "wait"} => call'[d].since = now
             /\ call'[d].pc = "wait" => Awaited(data[KeyOf[d]], now)
    BY <1>0, <1>1, <1>4, <2>1
  <2>q. QED
    BY <1>0, <1>2, <2>2, NothingStored
<1>5. CASE call' = [call EXCEPT ![c] = ScheduleRefresh(c)]
  <2>1. PICK pc \in {"unlock", "compute"} :
          ScheduleRefresh(c) = [Goto(c, pc) EXCEPT !.background = TRUE]
    BY DEF ScheduleRefresh
  <2>2. ScheduleRefresh(c).pc = pc
    <3>1. Goto(c, pc) \in CallRecord /\ Goto(c, pc).pc = pc
      BY NextRecords, NextFields DEF Pending
    <3>q. QED
      BY <2>1, <3>1 DEF CallRecord
  <2>q. QED
    BY <1>4, <1>5, <2>2
<1>6. ASSUME NEW pc \in {"compute", "wait"}, call' = [call EXCEPT ![c] = Goto(c, pc)],
             pc = "wait" => ReadState(k, t) = "miss_wait"
      PROVE  WaitInv'
  <2>1. Goto(c, pc).pc = pc /\ Goto(c, pc).since = now
    BY NextFields, SinceField
  <2>q. QED
    BY <1>3, <1>4, <1>6, <2>1
<1>7. CASE call' = [call EXCEPT ![c] = Ended(c)]
  BY <1>4, <1>7, NextFields
<1>8. \/ call' = [call EXCEPT ![c] = ScheduleRefresh(c)]
      \/ call' = [call EXCEPT ![c] = Goto(c, "compute")]
      \/ call' = [call EXCEPT ![c] = Goto(c, "wait")] /\ ReadState(k, t) = "miss_wait"
      \/ call' = [call EXCEPT ![c] = Ended(c)]
  BY <1>1 DEF Read, Finish
<1>q. QED
  BY <1>5, <1>6, <1>7, <1>8

\* What is stored expires Stale seconds from now, which is no sooner than any
\* waiting caller began to wait.
LEMMA StoreWaits ==
  ASSUME TypeOK, WaitInv, NEW c \in Call, Store(c) PROVE WaitInv'
<1>0. /\ now \in Nat /\ Stale \in Nat \ {0} /\ MaxDelay \in Nat
      /\ KeyOf \in [Call -> Key] /\ KeyOf[c] \in Key /\ DOMAIN data = Key
      /\ call[c].since \in Nat
  BY CallAssumption, TimeAssumption DEF TypeOK
<1>1. now <= call[c].since + MaxDelay /\ now' = now
  BY DEF Store, WaitInv
<1>2. PICK r : call' = [call EXCEPT ![c] = r] /\ r.pc \in {"end", "unlock"}
  BY NextFields DEF Store, Finish
<1>3. call'[c] = r /\ \A d \in Call \ {c} : call'[d] = call[d]
  BY <1>2, SetCall
<1>4. CASE data' = data
  <2>1. \A d \in Call :
          \/ call'[d] = call[d]
          \/ /\ call'[d].pc \in {"read", "store", "wait"} => call'[d].since = now
             /\ call'[d].pc = "wait" => Awaited(data[KeyOf[d]], now)
    BY <1>2, <1>3
  <2>q. QED
    BY <1>0, <1>1, <1>4, <2>1, NothingStored
<1>5. ASSUME NEW e, data' = [data EXCEPT ![KeyOf[c]] = e],
             e.stored_at = call[c].since, e.expires = now + Stale
      PROVE  WaitInv'
  <2>1. data'[KeyOf[c]] = e /\ \A k \in Key \ {KeyOf[c]} : data'[k] = data[k]
    BY <1>0, <1>5
  <2>2. ASSUME NEW k \in Key, data'[k] # NoData
        PROVE  /\ data'[k].expires <= data'[k].stored_at + Stale + MaxDelay
               /\ now' < data'[k].expires
    <3>1. CASE k = KeyOf[c]
      <4>1. data'[k] = e
        BY <2>1, <3>1
      <4>q. QED
        BY <1>0, <1>1, <1>5, <4>1
    <3>2. CASE k # KeyOf[c]
      BY <1>1, <2>1, <2>2, <3>2 DEF WaitInv
    <3>q. QED
      BY <3>1, <3>2
  <2>3. ASSUME NEW d \in Call, call'[d].pc \in {"read", "store"}
        PROVE  call'[d].since <= now' /\ now' <= call'[d].since + MaxDelay
    BY <1>1, <1>2, <1>3, <2>3 DEF WaitInv
  <2>4. ASSUME NEW d \in Call, call'[d].pc = "wait"
        PROVE  call'[d].since <= now' /\ Awaited(data'[KeyOf[d]], call'[d].since)
    <3>1. call'[d] = call[d] /\ KeyOf[d] \in Key
      BY <1>0, <1>2, <1>3, <2>4
    <3>2. /\ call[d].since <= now /\ call[d].since \in Nat
          /\ Awaited(data[KeyOf[d]], call[d].since)
      BY <2>4, <3>1 DEF WaitInv, TypeOK
    <3>3. CASE KeyOf[d] = KeyOf[c]
      <4>1. data'[KeyOf[d]] = e /\ e.expires - Stale >= call[d].since
        BY <1>0, <1>5, <2>1, <3>2, <3>3
      <4>q. QED
        BY <1>1, <3>1, <3>2, <4>1 DEF Awaited
    <3>4. CASE KeyOf[d] # KeyOf[c]
      BY <1>1, <2>1, <3>1, <3>2, <3>4
    <3>q. QED
      BY <3>3, <3>4
  <2>q. QED
    BY <2>2, <2>3, <2>4 DEF WaitInv
<1>6. \/ data' = data
      \/ data' = [data EXCEPT ![KeyOf[c]] =
                    [version |-> call[c].version, stored_at |-> call[c].since,
                     expires |-> now + Stale]]
  BY DEF Store, StoreScript, StoreUntil
<1>q. QED
  BY <1>4, <1>5, <1>6

LEMMA WaitStep == TypeOK /\ WaitInv /\ [Next]_vars => WaitInv'
<1> SUFFICES ASSUME TypeOK, WaitInv, [Next]_vars PROVE WaitInv'
  OBVIOUS
<1>0. /\ now \in Nat /\ MaxDelay \in Nat
      /\ KeyOf \in [Call -> Key] /\ DOMAIN data = Key
  BY CallAssumption, TimeAssumption DEF TypeOK
<1>1. ASSUME NEW c \in Call, NEW r, call' = [call EXCEPT ![c] = r], UNCHANGED <<now, data>>,
             r = call[c] \/ (r.pc # "wait" /\ (r.pc \in {"read", "store"} => r.since = now))
      PROVE  WaitInv'
  <2>1. call'[c] = r /\ \A d \in Call \ {c} : call'[d] = call[d]
    BY <1>1, SetCall
  <2>2. \A d \in Call :
          \/ call'[d] = call[d]
          \/ /\ call'[d].pc \in {"read", "store", "wait"} => call'[d].since = now
             /\ call'[d].pc = "wait" => Awaited(data[KeyOf[d]], now)
    BY <1>1, <2>1
  <2>q. QED
    BY <1>0, <1>1, <2>2, NothingStored
<1>2. ASSUME NEW c \in Call, Start(c) PROVE WaitInv'
  <2> DEFINE r == [Idle EXCEPT !.pc = "read", !.since = now,
                               !.asked = Current(KeyOf[c])]
  <2>1. call' = [call EXCEPT ![c] = r] /\ UNCHANGED <<now, data>>
    BY <1>2 DEF Start
  <2>2. r.pc = "read" /\ r.since = now
    BY DEF Idle
  <2> HIDE DEF r
  <2>q. QED
    BY <1>1, <2>1, <2>2
<1>3. ASSUME NEW c \in Call, QueryDatabase(c) PROVE WaitInv'
  <2> DEFINE r == [call[c] EXCEPT !.version = Current(KeyOf[c])]
  <2>1. call' = [call EXCEPT ![c] = r] /\ call[c].pc = "compute" /\ UNCHANGED <<now, data>>
    BY <1>3 DEF QueryDatabase
  <2>2. r.pc = "compute"
    BY <2>1 DEF TypeOK
  <2> HIDE DEF r
  <2>q. QED
    BY <1>1, <2>1, <2>2
<1>4. ASSUME NEW c \in Call,
             \/ WaitHit(c) \/ WaitGivesUp(c) \/ ComputeReturns(c) \/ ComputeFails(c)
             \/ ComputeTimesOut(c) \/ Unlock(c) \/ ValkeyFails(c)
      PROVE  WaitInv'
  <2>1. /\ UNCHANGED <<now, data>>
        /\ \/ call' = [call EXCEPT ![c] = Ended(c)]
           \/ \E pc \in {"unlock", "store"} : call' = [call EXCEPT ![c] = Goto(c, pc)]
    BY <1>4 DEF WaitHit, WaitGivesUp, ComputeReturns, ComputeFails,
                ComputeTimesOut, Unlock, ValkeyFails, Finish
  <2>2. CASE call' = [call EXCEPT ![c] = Ended(c)]
    BY <1>1, <2>1, <2>2, NextFields
  <2>3. ASSUME NEW pc \in {"unlock", "store"}, call' = [call EXCEPT ![c] = Goto(c, pc)]
        PROVE  WaitInv'
    <3>1. Goto(c, pc).pc = pc /\ Goto(c, pc).since = now
      BY NextFields, SinceField
    <3>q. QED
      BY <1>1, <2>1, <2>3, <3>1
  <2>q. QED
    BY <2>1, <2>2, <2>3
<1>5. ASSUME NEW p \in Process, Stop(p) PROVE WaitInv'
  <2>1. UNCHANGED <<now, data>> /\ \A c \in Call : call'[c] \in {call[c], Ended(c)}
    BY <1>5 DEF Stop
  <2>2. \A c \in Call : Ended(c).pc = "end"
    BY NextFields
  <2>3. \A c \in Call :
          \/ call'[c] = call[c]
          \/ /\ call'[c].pc \in {"read", "store", "wait"} => call'[c].since = now
             /\ call'[c].pc = "wait" => Awaited(data[KeyOf[c]], now)
    BY <2>1, <2>2
  <2>q. QED
    BY <1>0, <2>1, <2>3, NothingStored
<1>6. CASE \/ UNCHANGED vars
           \/ \E k \in Key : Publish(k) \/ Invalidate(k) \/ Evict(k)
  <2>1. UNCHANGED <<now, call>> /\ \A k \in Key : data'[k] \in {data[k], NoData}
    BY <1>0, <1>6 DEF vars, Publish, Invalidate, Evict
  <2>q. QED
    BY <1>0, <2>1, NothingStored
<1>7. CASE Tick
  <2>1. /\ call' = call /\ now' = now + 1
        /\ \A k \in Key :
             data'[k] = IF data[k].expires <= now' THEN NoData ELSE data[k]
    BY <1>7 DEF Tick
  <2>2. ASSUME NEW c \in Call, call[c].pc \in {"read", "store"}
        PROVE  call'[c].since <= now' /\ now' <= call'[c].since + MaxDelay
    <3>1. now - call[c].since < MaxDelay /\ call[c].since <= now /\ call[c].since \in Nat
      BY <1>7, <2>2 DEF Tick, Limit, Pending, WaitInv, TypeOK
    <3>q. QED
      BY <1>0, <2>1, <3>1
  <2>3. ASSUME NEW k \in Key, data'[k] # NoData
        PROVE  /\ data'[k] = data[k]
               /\ data'[k].expires <= data'[k].stored_at + Stale + MaxDelay
               /\ now' < data'[k].expires
    <3>1. data'[k] = data[k] /\ ~(data[k].expires <= now') /\ data[k].expires \in Nat
      BY <2>1, <2>3 DEF TypeOK
    <3>q. QED
      BY <1>0, <2>1, <2>3, <3>1 DEF WaitInv
  <2>4. ASSUME NEW c \in Call, call'[c].pc = "wait"
        PROVE  call'[c].since <= now' /\ Awaited(data'[KeyOf[c]], call'[c].since)
    <3>1. /\ call[c].since <= now /\ call[c].since \in Nat /\ KeyOf[c] \in Key
          /\ Awaited(data[KeyOf[c]], call[c].since)
      BY <1>0, <2>1, <2>4 DEF WaitInv, TypeOK
    <3>2. data'[KeyOf[c]] = NoData \/ data'[KeyOf[c]] = data[KeyOf[c]]
      BY <2>3, <3>1
    <3>q. QED
      BY <1>0, <2>1, <3>1, <3>2 DEF Awaited
  <2>q. QED
    BY <2>1, <2>2, <2>3, <2>4 DEF WaitInv
<1>q. QED
  BY <1>2, <1>3, <1>4, <1>5, <1>6, <1>7, ReadWaits, StoreWaits DEF Next, CallStep

\* With every fault, any delay and any number of calls, a caller that waits
\* for another caller's fill gets what was written after it began to wait, or a
\* leftover that became too stale less than MaxDelay seconds ago (the polling
\* loop of cached(), which looks at no age).
THEOREM WaitersAreServedAnew == Spec => WaitersGetTheFill
<1>1. Init => WaitInv
  BY DEF Init, Idle, WaitInv
<1>2. TypeOK /\ WaitInv /\ [Next]_vars =>
        [\A c \in Call :
           Replied(c) /\ reply'[c].path = "waited" =>
             LET entry == data[KeyOf[c]]
                 late  == now - (entry.stored_at + Stale)
             IN  \/ entry.expires - Stale >= call[c].since
                 \/ 0 < late /\ late < MaxDelay]_vars
  <2> SUFFICES ASSUME TypeOK, WaitInv, Next, NEW c \in Call, Replied(c),
                      reply'[c].path = "waited"
               PROVE  \/ data[KeyOf[c]].expires - Stale >= call[c].since
                      \/ /\ 0 < now - (data[KeyOf[c]].stored_at + Stale)
                         /\ now - (data[KeyOf[c]].stored_at + Stale) < MaxDelay
    OBVIOUS
  <2>1. ASSUME NEW d \in Call, NEW path, NEW v,
               reply' = Answer(d, path, v)
        PROVE  d = c /\ path = "waited"
    BY <2>1 DEF Replied, Answer, TypeOK
  <2>2. ASSUME NEW d \in Call, NEW path, path # "waited", NEW v, Finish(d, path, v)
        PROVE  FALSE
    <3>1. reply' # reply
      BY DEF Replied
    <3>2. reply' = Answer(d, path, v)
      BY <2>2, <3>1 DEF Finish
    <3>q. QED
      BY <2>1, <2>2, <3>2
  <2>3. reply' # reply
    BY DEF Replied
  <2>4. ASSUME NEW d \in Call, Read(d) PROVE FALSE
    <3>1. \/ Finish(d, "fresh", data[KeyOf[d]].version)
          \/ Finish(d, "stale", data[KeyOf[d]].version)
          \/ reply' = Answer(d, "stale", data[KeyOf[d]].version)
          \/ Finish(d, "error", 0)
      BY <2>3, <2>4 DEF Read
    <3>q. QED
      BY <2>1, <2>2, <3>1
  <2>5. ASSUME NEW d \in Call, Store(d) \/ Unlock(d) \/ WaitGivesUp(d) \/ ValkeyFails(d)
        PROVE  FALSE
    <3>1. \/ Finish(d, "computed", call[d].version)
          \/ Finish(d, "error", 0) \/ Finish(d, "busy", 0)
      BY <2>3, <2>5 DEF Store, Unlock, WaitGivesUp, ValkeyFails
    <3>q. QED
      BY <2>2, <3>1
  <2>6. PICK d \in Call : WaitHit(d)
    BY <2>3, <2>4, <2>5 DEF Next, CallStep, Start, QueryDatabase, ComputeReturns,
       ComputeFails, ComputeTimesOut, Stop, Publish, Invalidate, Evict, Tick
  <2>7. d = c
    <3>1. reply' = Answer(d, "waited", data[KeyOf[d]].version)
      BY <2>3, <2>6 DEF WaitHit, Finish
    <3>q. QED
      BY <2>1, <3>1
  <2>8. /\ call[c].pc = "wait" /\ KeyOf[c] \in Key /\ data[KeyOf[c]] # NoData
        /\ now \in Nat /\ Stale \in Nat /\ MaxDelay \in Nat /\ call[c].since \in Nat
        /\ data[KeyOf[c]].stored_at \in Nat /\ data[KeyOf[c]].expires \in Nat
    BY <2>6, <2>7, CallAssumption, TimeAssumption DEF WaitHit, TypeOK
  <2>9. /\ data[KeyOf[c]].expires <= data[KeyOf[c]].stored_at + Stale + MaxDelay
        /\ now < data[KeyOf[c]].expires
        /\ call[c].since <= now /\ Awaited(data[KeyOf[c]], call[c].since)
    BY <2>8 DEF WaitInv
  <2>q. QED
    BY <2>8, <2>9 DEF Awaited
<1>3. TypeOK /\ WaitInv /\ [Next]_vars => WaitInv'
  BY WaitStep
<1>q. QED
  BY <1>1, <1>2, <1>3, CacheTypeCorrect, PTL DEF Spec, WaitersGetTheFill
=============================================================================

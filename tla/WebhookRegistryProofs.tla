------------------------ MODULE WebhookRegistryProofs -------------------------
(***************************************************************************)
(* Proofs about WebhookRegistry, for any requests, keys, limit and faults. *)
(*                                                                         *)
(* A creation owns its key from the SET NX that succeeded until the except *)
(* clause gives it back, or for ever once its webhook is there.  An owned  *)
(* key is in Valkey, so that nobody else gets it, and only its owner takes *)
(* it out.                                                                 *)
(***************************************************************************)
EXTENDS WebhookRegistry, FiniteSetTheorems, TLAPS

Positions == {"count", "claim", "insert", "release", "meta", "end"}
Answers   == {"none", "limit", "conflict", "error", "created"}
Requests  == [pc : Positions, answer : Answers]
Values    == {"none", "on", "off"}

\* The variables have the form the handlers give them.
RegistryTypes ==
  /\ row \in [Create -> Values]
  /\ create \in [Create -> Requests]
  /\ update \in [Update -> [pc : {"load", "write", "end"}, seen : Values]]

Owns(q) == \/ create[q].pc \in {"insert", "release"}
           \/ row[q] # "none" /\ q \notin unsure

\* Where a creation is tells whether its row is there.
RowInv ==
  /\ \A q \in Create :
       /\ create[q].pc \in {"count", "claim", "insert"} => row[q] = "none"
       /\ create[q].pc = "release" => row[q] = "none" \/ q \in unsure
       /\ create[q].pc = "meta" => row[q] # "none"
  /\ \A u \in Update : update[u].pc = "write" => row[Target[u]] # "none"

KeyInv == \A p, q \in Create :
            Owns(q) => /\ KeyOf[q] \in held
                       /\ Owns(p) /\ KeyOf[p] = KeyOf[q] => p = q

\* A key in Valkey that is not left behind has a request or a webhook.
FreedInv == \A i \in held \ loose : \E q \in Create :
              /\ KeyOf[q] = i
              /\ create[q].pc \in {"insert", "release", "meta"} \/ row[q] # "none"

RegistryInv == RegistryTypes /\ RowInv /\ KeyInv /\ FreedInv

LEMMA RegistryInit == Init => RegistryInv
BY RegistryAssumption
   DEF Init, RegistryInv, RegistryTypes, RowInv, KeyInv, FreedInv, Owns,
       Positions, Answers, Requests, Values

-----------------------------------------------------------------------------
(* Steps of a creation.                                                    *)

\* Goto moves one request.
LEMMA GotoEffect ==
  ASSUME create \in [Create -> Requests], NEW q \in Create, NEW pc \in Positions,
         Goto(q, pc)
  PROVE  /\ create' \in [Create -> Requests]
         /\ create'[q].pc = pc
         /\ \A p \in Create : p # q => create'[p] = create[p]
BY DEF Goto, Requests

\* Answer ends one request.
LEMMA AnswerEffect ==
  ASSUME create \in [Create -> Requests], NEW q \in Create, NEW answer \in Answers,
         Answer(q, answer)
  PROVE  /\ create' \in [Create -> Requests]
         /\ create'[q].pc = "end"
         /\ \A p \in Create : p # q => create'[p] = create[p]
BY DEF Answer, Requests, Positions

\* A step that writes no row and no key, and leaves no key behind but its own.
LEMMA Moves ==
  ASSUME RegistryInv, NEW q \in Create, UNCHANGED <<row, held, update, unsure>>,
         create' \in [Create -> Requests],
         \A p \in Create : p # q => create'[p] = create[p],
         create'[q].pc = "insert" => create[q].pc = "insert",
         create'[q].pc = "release" => create[q].pc \in {"insert", "release"},
         create'[q].pc = "meta" => row[q] # "none",
         create'[q].pc \in {"count", "claim"} => row[q] = "none",
         \/ /\ loose' = loose
            /\ create[q].pc \in {"insert", "release"} => create'[q].pc \in {"insert", "release"}
         \/ loose' = loose \cup {KeyOf[q]}
  PROVE  RegistryInv'
<1>1. RegistryTypes'
  BY DEF RegistryInv, RegistryTypes
<1>2. RowInv'
  BY DEF RegistryInv, RowInv
<1>3. \A p \in Create : Owns(p)' => Owns(p)
  BY DEF Owns
<1>4. KeyInv'
  BY <1>3 DEF RegistryInv, KeyInv
<1>5. FreedInv'
  <2> SUFFICES ASSUME NEW i \in held \ loose'
               PROVE  \E p \in Create :
                        /\ KeyOf[p] = i
                        /\ create'[p].pc \in {"insert", "release", "meta"} \/ row[p] # "none"
    BY DEF FreedInv
  <2>1. i \in held \ loose
    OBVIOUS
  <2>2. PICK p \in Create :
          /\ KeyOf[p] = i
          /\ create[p].pc \in {"insert", "release", "meta"} \/ row[p] # "none"
    BY <2>1 DEF RegistryInv, FreedInv
  <2>3. create[p].pc = "meta" => row[p] # "none"
    BY DEF RegistryInv, RowInv
  <2> QED
    BY <2>2, <2>3
<1> QED
  BY <1>1, <1>2, <1>4, <1>5 DEF RegistryInv

LEMMA CountKeeps ==
  ASSUME RegistryInv, NEW q \in Create, CountActive(q)
  PROVE  RegistryInv'
<1>1. create \in [Create -> Requests] /\ row[q] = "none"
  BY DEF RegistryInv, RegistryTypes, RowInv, CountActive
<1>2. CASE Answer(q, "limit")
  BY <1>1, <1>2, AnswerEffect, Moves DEF CountActive, history, Answers
<1>3. CASE Goto(q, "claim")
  BY <1>1, <1>3, GotoEffect, Moves DEF CountActive, history, Positions
<1> QED
  BY <1>2, <1>3 DEF CountActive

LEMMA ClaimKeeps ==
  ASSUME RegistryInv, NEW q \in Create, Claim(q)
  PROVE  RegistryInv'
<1>1. create \in [Create -> Requests] /\ row[q] = "none" /\ create[q].pc = "claim"
      /\ UNCHANGED <<row, update, unsure>>
  BY DEF RegistryInv, RegistryTypes, RowInv, Claim
<1>2. CASE /\ KeyOf[q] \notin held
           /\ held' = held \cup {KeyOf[q]}
           /\ Goto(q, "insert")
           /\ loose' = loose
  <2>1. /\ create' \in [Create -> Requests] /\ create'[q].pc = "insert"
        /\ \A p \in Create : p # q => create'[p] = create[p]
    BY <1>1, <1>2, GotoEffect DEF Positions
  <2>2. \A p \in Create : Owns(p)' => p = q \/ Owns(p)
    BY <1>1, <2>1 DEF Owns
  <2>3. \A p \in Create : Owns(p) => KeyOf[p] # KeyOf[q]
    BY <1>2 DEF RegistryInv, KeyInv
  <2>4. RegistryTypes' /\ RowInv'
    BY <1>1, <2>1 DEF RegistryInv, RegistryTypes, RowInv
  <2>5. KeyInv'
    BY <1>2, <2>2, <2>3 DEF RegistryInv, KeyInv
  <2>6. FreedInv'
    BY <1>1, <1>2, <2>1 DEF RegistryInv, FreedInv
  <2> QED
    BY <2>4, <2>5, <2>6 DEF RegistryInv
<1>3. CASE held' = held /\ Answer(q, "conflict") /\ loose' = loose
  BY <1>1, <1>3, AnswerEffect, Moves DEF Answers
<1>4. CASE /\ held' \in {held, held \cup {KeyOf[q]}}
           /\ loose' = loose \cup (held' \ held)
           /\ Answer(q, "error")
  <2>1. /\ create' \in [Create -> Requests] /\ create'[q].pc = "end"
        /\ \A p \in Create : p # q => create'[p] = create[p]
    BY <1>1, <1>4, AnswerEffect DEF Answers
  <2>2. \A p \in Create : Owns(p)' => Owns(p)
    BY <1>1, <2>1 DEF Owns
  <2>3. RegistryTypes' /\ RowInv'
    BY <1>1, <2>1 DEF RegistryInv, RegistryTypes, RowInv
  <2>4. KeyInv'
    BY <1>4, <2>2 DEF RegistryInv, KeyInv
  <2>5. FreedInv'
    BY <1>1, <1>4, <2>1 DEF RegistryInv, FreedInv
  <2> QED
    BY <2>3, <2>4, <2>5 DEF RegistryInv
<1> QED
  BY <1>2, <1>3, <1>4 DEF Claim

LEMMA CommitKeeps ==
  ASSUME RegistryInv, NEW q \in Create, Commit(q)
  PROVE  RegistryInv'
<1>1. /\ create \in [Create -> Requests] /\ row \in [Create -> Values]
      /\ row[q] = "none" /\ create[q].pc = "insert" /\ Owns(q)
      /\ UNCHANGED <<held, update, loose>>
  BY DEF RegistryInv, RegistryTypes, RowInv, Commit, Owns
<1>2. CASE row' = row /\ Goto(q, "release") /\ unsure' = unsure
  BY <1>1, <1>2, GotoEffect, Moves DEF Positions
<1>3. ASSUME row' = [row EXCEPT ![q] = "on"],
             \/ Goto(q, "meta") /\ unsure' = unsure
             \/ Goto(q, "release") /\ unsure' = unsure \cup {q}
      PROVE  RegistryInv'
  <2>1. /\ create' \in [Create -> Requests]
        /\ create'[q].pc \in {"meta", "release"}
        /\ create'[q].pc = "release" => q \in unsure'
        /\ \A p \in Create : p # q => create'[p] = create[p]
    BY <1>1, <1>3, GotoEffect DEF Positions
  <2>2. row' \in [Create -> Values] /\ row'[q] = "on"
        /\ \A p \in Create : p # q => row'[p] = row[p]
    BY <1>1, <1>3 DEF Values
  <2>3. \A p \in Create : Owns(p)' => Owns(p)
    BY <1>1, <1>3, <2>1, <2>2 DEF Owns
  <2>4. RegistryTypes'
    BY <1>1, <2>1, <2>2 DEF RegistryInv, RegistryTypes
  <2>5. RowInv'
    <3>1. \A u \in Update : update[u].pc = "write" => row'[Target[u]] # "none"
      BY <2>2, RegistryAssumption DEF RegistryInv, RowInv
    <3>2. ASSUME NEW p \in Create
          PROVE  /\ create'[p].pc \in {"count", "claim", "insert"} => row'[p] = "none"
                 /\ create'[p].pc = "release" => row'[p] = "none" \/ p \in unsure'
                 /\ create'[p].pc = "meta" => row'[p] # "none"
      <4>1. CASE p = q
        BY <4>1, <2>1, <2>2
      <4>2. CASE p # q
        BY <4>2, <1>3, <2>1, <2>2 DEF RegistryInv, RowInv
      <4> QED
        BY <4>1, <4>2
    <3> QED
      BY <1>1, <3>1, <3>2 DEF RowInv
  <2>6. KeyInv'
    BY <1>1, <2>3 DEF RegistryInv, KeyInv
  <2>7. FreedInv'
    BY <1>1, <2>1, <2>2 DEF RegistryInv, FreedInv
  <2> QED
    BY <2>4, <2>5, <2>6, <2>7 DEF RegistryInv
<1> QED
  BY <1>2, <1>3 DEF Commit

LEMMA ReleaseKeeps ==
  ASSUME RegistryInv, NEW q \in Create, Release(q)
  PROVE  RegistryInv'
<1>1. /\ create \in [Create -> Requests] /\ create[q].pc = "release"
      /\ row[q] = "none" \/ q \in unsure
      /\ UNCHANGED <<row, update, unsure>>
  BY DEF RegistryInv, RegistryTypes, RowInv, Release
<1>2. /\ create' \in [Create -> Requests] /\ create'[q].pc = "end"
      /\ \A p \in Create : p # q => create'[p] = create[p]
  BY <1>1, AnswerEffect DEF Release, Answers
<1>3. CASE held' = held /\ loose' = loose \cup {KeyOf[q]}
  BY <1>1, <1>2, <1>3, Moves
<1>4. CASE held' = held \ {KeyOf[q]} /\ loose' = loose
  <2>1. \A p \in Create : Owns(p)' => Owns(p) /\ p # q
    BY <1>1, <1>2 DEF Owns
  <2>2. Owns(q)
    BY <1>1 DEF Owns
  <2>3. RegistryTypes' /\ RowInv'
    BY <1>1, <1>2 DEF RegistryInv, RegistryTypes, RowInv
  <2>4. KeyInv'
    BY <1>4, <2>1, <2>2 DEF RegistryInv, KeyInv
  <2>5. FreedInv'
    BY <1>1, <1>2, <1>4 DEF RegistryInv, FreedInv
  <2> QED
    BY <2>3, <2>4, <2>5 DEF RegistryInv
<1> QED
  BY <1>3, <1>4 DEF Release

\* The other ends of a creation.
LEMMA EndsKeep ==
  ASSUME RegistryInv, NEW q \in Create, EncryptFails(q) \/ BuildMeta(q) \/ Cancel(q)
  PROVE  RegistryInv'
<1>1. create \in [Create -> Requests]
  BY DEF RegistryInv, RegistryTypes
<1>2. /\ create' \in [Create -> Requests] /\ create'[q].pc = "end"
      /\ \A p \in Create : p # q => create'[p] = create[p]
  BY <1>1, AnswerEffect DEF EncryptFails, BuildMeta, Cancel, Answers
<1>3. /\ UNCHANGED <<row, held, update, unsure>>
      /\ \/ loose' = loose /\ create[q].pc \notin {"insert", "release"}
         \/ loose' = loose \cup {KeyOf[q]}
  BY DEF EncryptFails, BuildMeta, Cancel, history
<1> QED
  BY <1>2, <1>3, Moves

-----------------------------------------------------------------------------
(* Steps of an update.                                                     *)

LEMMA LoadKeeps ==
  ASSUME RegistryInv, NEW u \in Update, Load(u)
  PROVE  RegistryInv'
<1>1. /\ UNCHANGED <<row, held, create, loose, unsure>>
      /\ update' = [update EXCEPT ![u] =
           [pc |-> IF row[Target[u]] = "none" THEN "end" ELSE "write",
            seen |-> row[Target[u]]]]
  BY DEF Load, history
<1>2. row[Target[u]] \in Values
  BY RegistryAssumption DEF RegistryInv, RegistryTypes
<1>3. RegistryTypes'
  BY <1>1, <1>2 DEF RegistryInv, RegistryTypes
<1>4. RowInv'
  BY <1>1 DEF RegistryInv, RegistryTypes, RowInv
<1>5. KeyInv' /\ FreedInv'
  BY <1>1 DEF RegistryInv, KeyInv, FreedInv, Owns
<1> QED
  BY <1>3, <1>4, <1>5 DEF RegistryInv

\* A commit changes the value of a row that is there.
LEMMA WriteEffect ==
  ASSUME RegistryInv, NEW u \in Update, Write(u)
  PROVE  /\ Target[u] \in Create /\ row[Target[u]] # "none"
         /\ UNCHANGED <<held, create, loose, unsure>>
         /\ update' = [update EXCEPT ![u].pc = "end"]
         /\ row' = row \/ row' = [row EXCEPT ![Target[u]] = Written(u)]
         /\ \/ Written(u) = row[Target[u]]
            \/ Written(u) = Sets[u] /\ Sets[u] \in {"on", "off"}
BY RegistryAssumption DEF RegistryInv, RowInv, Write, Written, history

LEMMA WriteKeeps ==
  ASSUME RegistryInv, NEW u \in Update, Write(u)
  PROVE  RegistryInv'
<1>1. row' \in [Create -> Values] /\ \A q \in Create : row'[q] = "none" <=> row[q] = "none"
  BY WriteEffect DEF RegistryInv, RegistryTypes, Values
<1>2. UNCHANGED <<held, create, loose, unsure>> /\ update' = [update EXCEPT ![u].pc = "end"]
  BY WriteEffect
<1>3. RegistryTypes'
  BY <1>1, <1>2 DEF RegistryInv, RegistryTypes
<1>4. RowInv'
  BY <1>1, <1>2, RegistryAssumption DEF RegistryInv, RegistryTypes, RowInv
<1>5. \A q \in Create : Owns(q)' <=> Owns(q)
  BY <1>1, <1>2 DEF Owns
<1>6. KeyInv' /\ FreedInv'
  BY <1>1, <1>2, <1>5 DEF RegistryInv, KeyInv, FreedInv
<1> QED
  BY <1>3, <1>4, <1>6 DEF RegistryInv

LEMMA RegistryStep == RegistryInv /\ [Next]_vars => RegistryInv'
<1> SUFFICES ASSUME RegistryInv, [Next]_vars PROVE RegistryInv'
  OBVIOUS
<1>1. ASSUME NEW q \in Create, CreateStep(q) PROVE RegistryInv'
  BY <1>1, CountKeeps, ClaimKeeps, CommitKeeps, ReleaseKeeps, EndsKeep DEF CreateStep
<1>2. ASSUME NEW u \in Update, Load(u) \/ Write(u) PROVE RegistryInv'
  BY <1>2, LoadKeeps, WriteKeeps
<1>3. CASE UNCHANGED vars
  BY <1>3 DEF vars, history, RegistryInv, RegistryTypes, RowInv, KeyInv, FreedInv, Owns
<1> QED
  BY <1>1, <1>2, <1>3 DEF Next

-----------------------------------------------------------------------------
(* Theorems.                                                               *)

\* Keys have one owner, rows are where their creations are, and keys without
\* an owner were left behind (create_webhook with all its failures).
THEOREM RegistryInvariant == Spec => []RegistryInv
BY RegistryInit, RegistryStep, PTL DEF Spec

\* Two requests with one Idempotency-Key never make two webhooks, unless a
\* commit was reported as failed (SET NX and the except clause of create_webhook).
THEOREM OneWebhook == Spec => []OneWebhookPerKey
<1>1. ASSUME RegistryInv PROVE OneWebhookPerKey
  <2> SUFFICES ASSUME NEW i \in IdemKey PROVE Cardinality(Made(i) \ unsure) <= 1
    BY DEF OneWebhookPerKey
  <2>1. \A p, q \in Made(i) \ unsure : p = q
    BY <1>1 DEF RegistryInv, KeyInv, Owns, Made
  <2>2. CASE Made(i) \ unsure = {}
    BY <2>2, FS_EmptySet
  <2>3. CASE Made(i) \ unsure # {}
    <3>1. PICK q \in Made(i) \ unsure : TRUE
      BY <2>3
    <3>2. Made(i) \ unsure = {q}
      BY <2>1, <3>1
    <3> QED
      BY <3>2, FS_Singleton
  <2> QED
    BY <2>2, <2>3
<1> QED
  BY RegistryInvariant, <1>1, PTL

\* A key whose request failed and told so is free again (the except clause of
\* create_webhook).
THEOREM FailedKeysAreFreed == Spec => []KeysAreFreed
<1>1. ASSUME RegistryInv PROVE KeysAreFreed
  BY <1>1 DEF RegistryInv, FreedInv, KeysAreFreed, InFlight, Made
<1> QED
  BY RegistryInvariant, <1>1, PTL

\* Only an update that sets active brings a disabled webhook back, whatever
\* other updates had read before (update_webhook, delete_webhook).
THEOREM DeletedStaysDeleted == Spec => NoResurrection
<1> DEFINE Resurrects(q) == row[q] = "off" /\ row'[q] = "on"
           Meant(q) == \E u \in Update : Target[u] = q /\ Sets[u] = "on" /\ Write(u)
<1>1. ASSUME RegistryInv, [Next]_vars, NEW q \in Create, Resurrects(q) PROVE Meant(q)
  <2>1. row' # row
    BY <1>1
  <2>2. ASSUME NEW p \in Create, CreateStep(p) PROVE FALSE
    <3>1. Commit(p)
      BY <2>1, <2>2 DEF CreateStep, CountActive, Claim, EncryptFails, Release, BuildMeta, Cancel
    <3>2. row[p] = "none" /\ row' = [row EXCEPT ![p] = "on"] /\ row \in [Create -> Values]
      BY <1>1, <2>1, <3>1 DEF RegistryInv, RegistryTypes, RowInv, Commit
    <3> QED
      BY <1>1, <3>2
  <2>3. PICK u \in Update : Write(u)
    BY <1>1, <2>1, <2>2 DEF Next, Load, vars
  <2>4. /\ Target[u] = q /\ row[q] = "off" /\ row'[q] = Written(u)
        /\ Written(u) = row[q] \/ Written(u) = Sets[u]
    BY <1>1, <2>1, <2>3, WriteEffect DEF RegistryInv, RegistryTypes
  <2> QED
    BY <1>1, <2>3, <2>4
<1>2. RegistryInv /\ [Next]_vars => [\A q \in Create : Resurrects(q) => Meant(q)]_vars
  BY <1>1
<1> QED
  BY <1>2, RegistryInvariant, PTL DEF Spec, NoResurrection
=============================================================================

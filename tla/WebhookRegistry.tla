---------------------------- MODULE WebhookRegistry ----------------------------
(***************************************************************************)
(* api/routers/webhooks.py: the requests by which one owner (one IP        *)
(* fingerprint) creates, updates and deletes webhooks.  A creation counts  *)
(* the active rows, claims its Idempotency-Key in Valkey and inserts the   *)
(* row, each in a command of its own; an update reads the row, may resolve *)
(* a name, and commits what it changed.  Requests run in any number of API *)
(* processes at the same time.                                             *)
(*                                                                         *)
(* The webhook made by a creation is named by that creation.  Operators    *)
(* named X_Slip... are plausible mistakes in X that nothing uses.          *)
(***************************************************************************)
EXTENDS Integers, FiniteSets

CONSTANTS
  Create,   \* requests POST /webhooks
  Update,   \* requests PATCH and DELETE /webhooks/{webhook_id}
  IdemKey,  \* values of the header Idempotency-Key
  KeyOf,    \* KeyOf[q]: the one that q carries
  Target,   \* Target[u]: the webhook that u names
  Sets,     \* Sets[u]: what u sets active to; "keep" for a PATCH without it
  Limit,    \* settings.webhook_max_per_ip
  Faults    \* what may go wrong: a subset of FaultKinds

\* A failed commit, one whose outcome is unknown, commands of Valkey that
\* raise, exceptions of encrypt_webhook_secret and of build_meta, requests that
\* are cancelled.
FaultKinds == {"commit", "unknown", "valkey", "encrypt", "meta", "stop"}

ASSUME RegistryAssumption ==
  /\ KeyOf \in [Create -> IdemKey]
  /\ Target \in [Update -> Create]
  /\ Sets \in [Update -> {"on", "off", "keep"}]
  /\ Limit \in Nat \ {0}
  /\ Faults \subseteq FaultKinds

VARIABLES
  row,     \* row[q]: the webhook made by q: "none", or "on" or "off" (active)
  held,    \* the idempotency keys that are in Valkey
  create,  \* create[q]: progress and answer of q
  update,  \* update[u]: progress of u and the value of active it has read
  loose,   \* history: keys left by a request that was cancelled or could not
           \* encrypt, or by a lost command
  unsure   \* history: creations that lost the reply to their commit

vars == <<row, held, create, update, loose, unsure>>
history == <<loose, unsure>>

Active == {q \in Create : row[q] = "on"}
Made(i) == {q \in Create : KeyOf[q] = i /\ row[q] # "none"}

Init == /\ row = [q \in Create |-> "none"]
        /\ held = {}
        /\ create = [q \in Create |-> [pc |-> "count", answer |-> "none"]]
        /\ update = [u \in Update |-> [pc |-> "load", seen |-> "none"]]
        /\ loose = {} /\ unsure = {}

Goto(q, pc)       == create' = [create EXCEPT ![q].pc = pc]
Answer(q, answer) == create' = [create EXCEPT ![q] = [pc |-> "end",
                                                      answer |-> answer]]

-----------------------------------------------------------------------------
(* create_webhook                                                          *)

CountActive(q) ==
  /\ create[q].pc = "count"
  /\ IF Cardinality(Active) >= Limit THEN Answer(q, "limit") ELSE Goto(q, "claim")
  /\ UNCHANGED <<row, held, update, history>>

\* SET without NX.
Claim_SlipNX(q) ==
  /\ create[q].pc = "claim"
  /\ held' = held \cup {KeyOf[q]}
  /\ Goto(q, "insert")
  /\ UNCHANGED <<row, update, history>>

\* SET NX EX 86400.  A day is longer than any behaviour modelled here.
Claim(q) ==
  /\ create[q].pc = "claim"
  /\ \/ /\ KeyOf[q] \notin held
        /\ held' = held \cup {KeyOf[q]}
        /\ Goto(q, "insert")
        /\ loose' = loose
     \/ /\ KeyOf[q] \in held
        /\ held' = held
        /\ Answer(q, "conflict")
        /\ loose' = loose
     \/ /\ "valkey" \in Faults              \* raised, executed or not
        /\ held' \in {held, held \cup {KeyOf[q]}}
        /\ loose' = loose \cup (held' \ held)
        /\ Answer(q, "error")
  /\ UNCHANGED <<row, update, unsure>>

\* The key for secrets is not configured: raised outside the try statement.
EncryptFails(q) ==
  /\ "encrypt" \in Faults
  /\ create[q].pc = "insert"
  /\ Answer(q, "error")
  /\ loose' = loose \cup {KeyOf[q]}
  /\ UNCHANGED <<row, held, update, unsure>>

\* The insert and its commit.
Commit(q) ==
  /\ create[q].pc = "insert"
  /\ \/ /\ row' = [row EXCEPT ![q] = "on"]
        /\ Goto(q, "meta")
        /\ unsure' = unsure
     \/ /\ "commit" \in Faults
        /\ row' = row
        /\ Goto(q, "release")
        /\ unsure' = unsure
     \/ /\ "unknown" \in Faults             \* committed, but the reply is lost
        /\ row' = [row EXCEPT ![q] = "on"]
        /\ Goto(q, "release")
        /\ unsure' = unsure \cup {q}
  /\ UNCHANGED <<held, update, loose>>

\* The handler only rolls back.
Release_SlipDelete(q) ==
  /\ create[q].pc = "release"
  /\ Answer(q, "error")
  /\ UNCHANGED <<row, held, update, history>>

\* rollback, DEL of the key, raise.
Release(q) ==
  /\ create[q].pc = "release"
  /\ Answer(q, "error")
  /\ \/ held' = held \ {KeyOf[q]} /\ loose' = loose
     \/ /\ "valkey" \in Faults              \* DEL raised and did nothing
        /\ held' = held
        /\ loose' = loose \cup {KeyOf[q]}
  /\ UNCHANGED <<row, update, unsure>>

\* build_meta reads the cache, which may be busy; then the answer, the only
\* one that ever carries the signing secret.
BuildMeta(q) ==
  /\ create[q].pc = "meta"
  /\ \/ Answer(q, "created")
     \/ "meta" \in Faults /\ Answer(q, "error")
  /\ UNCHANGED <<row, held, update, history>>

\* CancelledError is no Exception: the key stays.
Cancel(q) ==
  /\ "stop" \in Faults
  /\ create[q].pc # "end"
  /\ Answer(q, "error")
  /\ loose' = IF create[q].pc \in {"insert", "release"}
                THEN loose \cup {KeyOf[q]} ELSE loose
  /\ UNCHANGED <<row, held, update, unsure>>

-----------------------------------------------------------------------------
(* update_webhook and delete_webhook                                       *)

\* _owner_statement: the row, or 404.  A webhook once made is never removed.
Load(u) ==
  /\ update[u].pc = "load"
  /\ LET seen == row[Target[u]] IN
     update' = [update EXCEPT ![u] =
                  [pc |-> IF seen = "none" THEN "end" ELSE "write", seen |-> seen]]
  /\ UNCHANGED <<row, held, create, history>>

\* Every column is written as it was read.
Written_SlipStale(u) == IF Sets[u] = "keep" THEN update[u].seen ELSE Sets[u]

\* What the commit leaves in active: the session emits an UPDATE only of a
\* column whose value differs from the one it read.
Written(u) == IF Sets[u] \in {"keep", update[u].seen} THEN row[Target[u]]
                                                      ELSE Sets[u]

\* The session's commit, or an exception before it.
Write(u) ==
  /\ update[u].pc = "write"
  /\ row' \in {[row EXCEPT ![Target[u]] = Written(u)]}
              \cup IF "commit" \in Faults THEN {row} ELSE {}
  /\ update' = [update EXCEPT ![u].pc = "end"]
  /\ UNCHANGED <<held, create, history>>

CreateStep(q) == \/ CountActive(q) \/ Claim(q) \/ EncryptFails(q) \/ Commit(q)
                 \/ Release(q) \/ BuildMeta(q) \/ Cancel(q)

Next == \/ \E q \in Create : CreateStep(q)
        \/ \E u \in Update : Load(u) \/ Write(u)

Spec == Init /\ [][Next]_vars

-----------------------------------------------------------------------------
(* Properties.                                                             *)

InFlight(i) == {q \in Create : KeyOf[q] = i
                                 /\ create[q].pc \in {"insert", "release", "meta"}}

\* Requests with the same Idempotency-Key make one webhook at most, however
\* they overlap, fail and are sent again, but for those whose commit was
\* reported as failed and had got through (SET NX of create_webhook).
OneWebhookPerKey ==
  \A i \in IdemKey : Cardinality(Made(i) \ unsure) <= 1

\* A request whose commit failed frees its key, so that the client can try again:
\* a key is taken only while a request uses it or when there is a webhook under
\* it, unless it was left behind by a cancellation, a lost command or a failed
\* encryption, which the except clause of create_webhook does not see.
KeysAreFreed ==
  \A i \in held \ loose : InFlight(i) # {} \/ Made(i) # {}

\* A webhook that was deleted or disabled becomes active again only by an
\* update that says so, never by one that read the row before and changes
\* something else (the commits of update_webhook).
NoResurrection ==
  [][\A q \in Create :
       row[q] = "off" /\ row'[q] = "on" =>
         \E u \in Update : Target[u] = q /\ Sets[u] = "on" /\ Write(u)]_vars

\* The owner never has more than webhook_max_per_ip active webhooks.
ActiveWithinLimit == Cardinality(Active) <= Limit
=============================================================================

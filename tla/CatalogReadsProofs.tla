-------------------------- MODULE CatalogReadsProofs --------------------------
(***************************************************************************)
(* Proofs about CatalogReads, for any satellites, providers, page size,    *)
(* stale times, lease and changes of the tables.                           *)
(*                                                                         *)
(* The walk: whatever was stored before the oldest page the client could   *)
(* be given, and is not past the cursor, has been seen.  A page adds the   *)
(* first numbers after the cursor, so that nothing is left out between the *)
(* old cursor and the new one, and a short page leaves nothing after it.   *)
(*                                                                         *)
(* The list of TLEs: of every satellite with a row there is a newest one,  *)
(* and only one, so that the rows are as many as the first satellites,     *)
(* which are all there are or exactly the limit.  How far they may be      *)
(* behind follows from the age told, unless that is the 0 of a caller that *)
(* waited: then from the time a value is kept.                             *)
(***************************************************************************)
EXTENDS CatalogReads, FiniteSetTheorems, WellFoundedInduction, TLAPS

LEMMA SatFacts ==
  /\ IsFiniteSet(Sat) /\ Sat \subseteq Nat \ {0} /\ IsFiniteSet(Source)
  /\ Limit \in Nat \ {0} /\ MaxTime \in Nat
BY ReadsAssumption

LEMMA ReachFacts ==
  /\ Reach("page") \in Nat \ {0} /\ Reach("health") \in Nat /\ Reach("tle") \in Nat
  /\ Stale["tle"] \in Nat /\ Lease \in Nat \ {0}
  /\ MaxDelay \in Nat /\ MaxAge \in Nat
BY ReadsAssumption DEF Kind, Reach

-----------------------------------------------------------------------------
(* Sets of numbers.                                                        *)

\* Among finitely many numbers one is the least.
LEMMA LeastIsThere ==
  ASSUME NEW S \in SUBSET Nat, IsFiniteSet(S), S # {}
  PROVE  \E s \in S : \A r \in S : s <= r
<1> DEFINE Below(s) == {r \in S : r < s}
           T == {Below(s) : s \in S}
<1>1. \A s \in S : Below(s) \in SUBSET S /\ IsFiniteSet(Below(s))
  BY FS_Subset
<1>2. T \subseteq FiniteSubsetsOf(S) /\ T # {}
  BY <1>1 DEF FiniteSubsetsOf
<1>3. PICK B \in T : \A C \in T : ~(<<C, B>> \in StrictSubsetOrdering(S))
  <2> HIDE DEF T
  <2> QED
    BY <1>2, FS_StrictSubsetOrderingWellFounded, WFMin
<1>4. PICK s \in S : B = Below(s)
  BY <1>3
<1>5. ASSUME NEW r \in S, r < s PROVE FALSE
  <2>1. r \in Nat /\ s \in Nat /\ S \subseteq Nat
    OBVIOUS
  <2>2. Below(r) \subseteq Below(s) /\ r \in Below(s) /\ r \notin Below(r)
    <3>1. r \in Below(s) /\ r \notin Below(r)
      BY <2>1, <1>5
    <3>2. ASSUME NEW y \in Below(r) PROVE y \in Below(s)
      BY <2>1, <1>5
    <3> QED
      BY <3>1, <3>2
  <2>3. <<Below(r), Below(s)>> \in StrictSubsetOrdering(S)
    BY <2>2 DEF StrictSubsetOrdering
  <2> QED
    BY <2>3, <1>3, <1>4
<1> QED
  BY <1>5

\* And one is the greatest.
LEMMA GreatestIsThere ==
  ASSUME NEW S \in SUBSET Nat, IsFiniteSet(S), S # {}
  PROVE  \E s \in S : \A r \in S : r <= s
<1> DEFINE Above(s) == {r \in S : s < r}
           T == {Above(s) : s \in S}
<1>1. \A s \in S : Above(s) \in SUBSET S /\ IsFiniteSet(Above(s))
  BY FS_Subset
<1>2. T \subseteq FiniteSubsetsOf(S) /\ T # {}
  BY <1>1 DEF FiniteSubsetsOf
<1>3. PICK B \in T : \A C \in T : ~(<<C, B>> \in StrictSubsetOrdering(S))
  <2> HIDE DEF T
  <2> QED
    BY <1>2, FS_StrictSubsetOrderingWellFounded, WFMin
<1>4. PICK s \in S : B = Above(s)
  BY <1>3
<1>5. ASSUME NEW r \in S, s < r PROVE FALSE
  <2>1. r \in Nat /\ s \in Nat /\ S \subseteq Nat
    OBVIOUS
  <2>2. Above(r) \subseteq Above(s) /\ r \in Above(s) /\ r \notin Above(r)
    <3>1. r \in Above(s) /\ r \notin Above(r)
      BY <2>1, <1>5
    <3>2. ASSUME NEW y \in Above(r) PROVE y \in Above(s)
      BY <2>1, <1>5
    <3> QED
      BY <3>1, <3>2
  <2>3. <<Above(r), Above(s)>> \in StrictSubsetOrdering(S)
    BY <2>2 DEF StrictSubsetOrdering
  <2> QED
    BY <2>3, <1>3, <1>4
<1> QED
  BY <1>5

\* The first of S have nothing of S between them.
LEMMA FirstIsPrefix ==
  ASSUME NEW S \in SUBSET Nat, IsFiniteSet(S),
         NEW s \in S, NEW r \in First(S), s <= r
  PROVE  s \in First(S)
<1> DEFINE Below(x) == {y \in S : y < x}
<1>1. r \in S /\ Cardinality(Below(r)) < Limit
  BY DEF First
<1>2. IsFiniteSet(Below(r)) /\ Below(s) \in SUBSET Below(r)
  <2>1. r \in Nat /\ s \in Nat /\ \A y \in S : y \in Nat /\ (y < s => y < r)
    BY <1>1
  <2>2. Below(r) \in SUBSET S /\ Below(s) \in SUBSET Below(r)
    BY <2>1
  <2> QED
    BY <2>2, FS_Subset
<1>3. Cardinality(Below(s)) <= Cardinality(Below(r))
  BY <1>2, FS_Subset
<1>4. Cardinality(Below(s)) \in Nat /\ Cardinality(Below(r)) \in Nat
  BY <1>2, FS_Subset, FS_CardinalityType
<1>5. Cardinality(Below(s)) < Limit
  BY <1>1, <1>3, <1>4, SatFacts
<1> QED
  BY <1>5 DEF First

\* When fewer than the limit come first, they are all there is.
LEMMA ShortIsAll ==
  ASSUME NEW S \in SUBSET Nat, IsFiniteSet(S), Cardinality(First(S)) < Limit
  PROVE  First(S) = S
<1> DEFINE Left == S \ First(S)
           Below(x) == {y \in S : y < x}
<1>1. First(S) \in SUBSET S
  BY DEF First
<1>2. SUFFICES ASSUME Left # {} PROVE FALSE
  BY <1>1
<1>3. IsFiniteSet(Left) /\ Left \in SUBSET Nat
  BY FS_Subset
<1>4. PICK s \in Left : \A r \in Left : s <= r
  <2> HIDE DEF Left
  <2> QED
    BY <1>2, <1>3, LeastIsThere
<1>5. Below(s) \in SUBSET First(S)
  <2>1. \A y \in S : y < s => y \notin Left
    BY <1>3, <1>4
  <2> QED
    BY <2>1
<1>6. IsFiniteSet(First(S)) /\ IsFiniteSet(Below(s))
  BY <1>1, FS_Subset
<1>7. Cardinality(Below(s)) <= Cardinality(First(S))
  BY <1>5, <1>6, FS_Subset
<1>8. Cardinality(Below(s)) \in Nat /\ Cardinality(First(S)) \in Nat
  BY <1>6, FS_CardinalityType
<1>9. Cardinality(Below(s)) < Limit
  BY <1>7, <1>8, SatFacts
<1> QED
  BY <1>4, <1>9 DEF First
-----------------------------------------------------------------------------
(* The walk.                                                               *)

\* Stored before the oldest page the client could be given.
Due(s) == known[s] <= walk.since - Reach("page")

WalkTypes ==
  /\ now \in Nat /\ known \in [Sat -> Nat]
  /\ DOMAIN walk = {"pc", "cursor", "since", "seen", "read"}
  /\ walk.pc \in {"start", "walking", "done"}
  /\ walk.cursor \in Nat /\ walk.since \in Nat /\ walk.since <= now
  /\ walk.seen \in SUBSET Sat /\ walk.read = Cardinality(walk.seen)

WalkInv ==
  /\ WalkTypes
  /\ walk.pc = "start" => walk = Start
  /\ walk.pc # "done" => \A s \in walk.seen : s <= walk.cursor
  /\ walk.pc = "walking" => \A s \in Sat : Due(s) /\ s <= walk.cursor => s \in walk.seen
  /\ walk.pc = "done" => \A s \in Sat : Due(s) => s \in walk.seen

LEMMA WalkInit == Init => WalkInv
<1> SUFFICES ASSUME Init PROVE WalkInv
  OBVIOUS
<1>1. known \in [Sat -> Nat]
  BY SatFacts DEF Init, Never
<1>2. Cardinality({}) = 0
  BY FS_EmptySet
<1> QED
  BY <1>1, <1>2 DEF Init, Start, WalkInv, WalkTypes

\* The page, as GetPage makes it.
LEMMA PageEffect ==
  ASSUME WalkInv, GetPage
  PROVE  \E t \in Moments("page") :
           LET rows == SatellitePage(walk.cursor, t)
           IN  walk' = [pc     |-> IF Cardinality(rows) < Limit THEN "done" ELSE "walking",
                        cursor |-> IF rows = {} THEN 0
                                   ELSE CHOOSE s \in rows : \A r \in rows : r <= s,
                        since  |-> IF walk.pc = "start" THEN now ELSE walk.since,
                        seen   |-> walk.seen \cup rows,
                        read   |-> walk.read + Cardinality(rows)]
BY DEF GetPage

LEMMA WalkPage ==
  ASSUME WalkInv, GetPage
  PROVE  WalkInv'
<1>1. PICK t \in Moments("page") :
        LET rows == SatellitePage(walk.cursor, t)
        IN  walk' = [pc     |-> IF Cardinality(rows) < Limit THEN "done" ELSE "walking",
                     cursor |-> IF rows = {} THEN 0
                                ELSE CHOOSE s \in rows : \A r \in rows : r <= s,
                     since  |-> IF walk.pc = "start" THEN now ELSE walk.since,
                     seen   |-> walk.seen \cup rows,
                     read   |-> walk.read + Cardinality(rows)]
  BY PageEffect
<1> DEFINE S == {s \in Sat : known[s] <= t /\ s > walk.cursor}
           rows == First(S)
           last == IF rows = {} THEN 0 ELSE CHOOSE s \in rows : \A r \in rows : r <= s
<1>2. /\ walk'.pc = IF Cardinality(rows) < Limit THEN "done" ELSE "walking"
      /\ walk'.cursor = last
      /\ walk'.since = IF walk.pc = "start" THEN now ELSE walk.since
      /\ walk'.seen = walk.seen \cup rows
      /\ walk'.read = walk.read + Cardinality(rows)
      /\ DOMAIN walk' = {"pc", "cursor", "since", "seen", "read"}
  BY <1>1 DEF SatellitePage
<1>3. now' = now /\ known' = known /\ walk.pc # "done"
  BY DEF GetPage, tables
<1>4. /\ now \in Nat /\ known \in [Sat -> Nat]
      /\ walk.cursor \in Nat /\ walk.since \in Nat /\ walk.since <= now
      /\ walk.seen \in SUBSET Sat /\ walk.read = Cardinality(walk.seen)
      /\ walk.pc \in {"start", "walking", "done"}
  BY DEF WalkInv, WalkTypes
<1>5. S \in SUBSET Sat /\ S \in SUBSET Nat /\ IsFiniteSet(S)
  BY SatFacts, FS_Subset
<1>6. rows \in SUBSET S /\ IsFiniteSet(rows) /\ Cardinality(rows) \in Nat
  BY <1>5, FS_Subset, FS_CardinalityType DEF First
<1>7. \A s \in rows : s > walk.cursor
  BY <1>6
<1>8. t \in Nat /\ t <= now /\ now - t <= Reach("page") /\ Reach("page") \in Nat
  BY <1>4, ReachFacts DEF Moments
<1> HIDE DEF rows
<1>9. last \in Nat /\ \A s \in rows : last \in rows /\ s <= last
  <2>1. CASE rows = {}
    BY <2>1
  <2>2. CASE rows # {}
    <3>1. rows \in SUBSET Nat
      BY <1>5, <1>6
    <3>2. \E s \in rows : \A r \in rows : r <= s
      BY <2>2, <3>1, <1>6, GreatestIsThere
    <3> QED
      BY <2>2, <3>1, <3>2
  <2> QED
    BY <2>1, <2>2
<1> HIDE DEF last
<1>10. walk'.since \in Nat /\ walk'.since <= now
  BY <1>2, <1>4
\* What is due was stored when the page was computed, and is after the cursor
\* or was seen.
<1>11. ASSUME NEW s \in Sat, Due(s)' PROVE s \in S \/ s \in walk.seen
  <2>1. known[s] <= walk'.since - Reach("page") /\ known[s] \in Nat /\ s \in Nat
    BY <1>3, <1>4, <1>11, SatFacts DEF Due
  <2>2. known[s] <= t
    BY <2>1, <1>4, <1>8, <1>10
  <2>3. CASE walk.pc = "start"
    <3>1. walk.cursor = 0
      BY <2>3 DEF WalkInv, Start
    <3> QED
      BY <2>2, <3>1, SatFacts
  <2>4. CASE walk.pc = "walking"
    <3>1. Due(s)
      BY <1>2, <2>1, <2>4 DEF Due
    <3>2. s <= walk.cursor => s \in walk.seen
      BY <2>4, <3>1 DEF WalkInv
    <3> QED
      BY <2>1, <2>2, <3>2, <1>4
  <2> QED
    BY <1>3, <1>4, <2>3, <2>4
<1>12. WalkTypes'
  <2>1. walk.seen \cap rows = {}
    <3>1. \A s \in walk.seen : s <= walk.cursor
      BY <1>3 DEF WalkInv
    <3>2. \A s \in rows : s \in Nat /\ s > walk.cursor
      BY <1>5, <1>6, <1>7
    <3>3. ~\E s \in rows : s <= walk.cursor
      BY <3>2, <1>4
    <3> QED
      BY <3>1, <3>3
  <2>2. IsFiniteSet(walk.seen) /\ Cardinality(walk.seen) \in Nat
    BY <1>4, SatFacts, FS_Subset, FS_CardinalityType
  <2>3. Cardinality(walk.seen \cup rows) = Cardinality(walk.seen) + Cardinality(rows)
    <3>1. Cardinality(walk.seen \cap rows) = 0
      BY <2>1, FS_EmptySet
    <3>2. Cardinality(walk.seen \cup rows) = Cardinality(walk.seen)
            + Cardinality(rows) - Cardinality(walk.seen \cap rows)
      BY <2>2, <1>6, FS_Union
    <3> QED
      BY <3>1, <3>2, <2>2, <1>6
  <2>4. walk'.read = Cardinality(walk'.seen) /\ walk'.seen \in SUBSET Sat
    BY <2>3, <1>2, <1>4, <1>5, <1>6
  <2> QED
    BY <2>4, <1>2, <1>3, <1>4, <1>9, <1>10 DEF WalkTypes
<1>13. CASE Cardinality(rows) < Limit
  <2>1. rows = S
    BY <1>5, <1>13, ShortIsAll DEF rows
  <2>2. walk'.pc = "done"
    BY <1>2, <1>13
  <2>3. \A s \in Sat : Due(s)' => s \in walk'.seen
    BY <2>1, <1>2, <1>11
  <2> QED
    BY <2>2, <2>3, <1>12 DEF WalkInv
<1>14. CASE ~(Cardinality(rows) < Limit)
  <2>1. walk'.pc = "walking"
    BY <1>2, <1>14
  <2>2. last \in rows
    <3>1. rows # {}
      BY <1>14, SatFacts, FS_EmptySet
    <3> QED
      BY <3>1, <1>9
  <2>3. ASSUME NEW s \in walk'.seen PROVE s <= last
    <3>1. CASE s \in rows
      BY <3>1, <1>9
    <3>2. CASE s \in walk.seen
      <4>1. s <= walk.cursor /\ s \in Nat
        BY <3>2, <1>3, <1>4, SatFacts DEF WalkInv
      <4> QED
        BY <4>1, <2>2, <1>4, <1>7, <1>9
    <3> QED
      BY <3>1, <3>2, <1>2
  <2>4. ASSUME NEW s \in Sat, Due(s)', s <= last PROVE s \in walk'.seen
    <3>1. CASE s \in S
      BY <3>1, <2>2, <2>4, <1>2, <1>5, FirstIsPrefix DEF rows
    <3> QED
      BY <3>1, <2>4, <1>2, <1>11
  <2> QED
    BY <2>1, <2>3, <2>4, <1>2, <1>12 DEF WalkInv
<1> QED
  BY <1>13, <1>14

\* A satellite that is stored now is not due.
LEMMA WalkAdd ==
  ASSUME WalkInv, NEW s \in Sat, AddSatellite(s)
  PROVE  WalkInv'
<1>1. /\ known' = [known EXCEPT ![s] = now]
      /\ now' = now /\ walk' = walk
  BY DEF AddSatellite, Quiet
<1>2. /\ now \in Nat /\ known \in [Sat -> Nat]
      /\ walk.since \in Nat /\ walk.since <= now
  BY DEF WalkInv, WalkTypes
<1>3. ASSUME NEW r \in Sat, Due(r)' PROVE Due(r)
  <2>1. r # s
    BY <1>1, <1>2, <1>3, ReachFacts DEF Due
  <2> QED
    BY <2>1, <1>1, <1>2, <1>3 DEF Due
<1>4. known' \in [Sat -> Nat]
  BY <1>1, <1>2
<1> QED
  BY <1>1, <1>3, <1>4 DEF WalkInv, WalkTypes, Start

\* The clock goes on, and nothing else that the walk knows changes.
LEMMA WalkStays ==
  ASSUME WalkInv, UNCHANGED <<known, walk>>, now' \in Nat, now' >= now
  PROVE  WalkInv'
BY DEF WalkInv, WalkTypes, Due, Start

LEMMA WalkStep == WalkInv /\ [Next]_vars => WalkInv'
<1> SUFFICES ASSUME WalkInv, [Next]_vars PROVE WalkInv'
  OBVIOUS
<1> USE DEF Quiet, tables
<1>0. now \in Nat
  BY DEF WalkInv, WalkTypes
<1>1. CASE Tick
  BY <1>0, <1>1, WalkStays DEF Tick
<1>2. CASE GetPage
  BY <1>2, WalkPage
<1>3. ASSUME NEW s \in Sat, AddSatellite(s) PROVE WalkInv'
  BY <1>3, WalkAdd
<1>4. ASSUME NEW s \in Sat, GetSatellite(s) \/ GetLatest(s) PROVE WalkInv'
  <2>1. UNCHANGED <<now, known, walk>>
    BY <1>4 DEF GetSatellite, GetLatest
  <2> QED
    BY <2>1, <1>0, WalkStays
<1>5. ASSUME NEW s \in Sat, NEW e, AddElement(s, e) PROVE WalkInv'
  BY <1>0, <1>5, WalkStays DEF AddElement
<1>6. ASSUME NEW p \in Source, TellHealth(p) PROVE WalkInv'
  BY <1>0, <1>6, WalkStays DEF TellHealth
<1>7. ASSUME NEW f \in Filters, GetTle(f) PROVE WalkInv'
  <2>1. UNCHANGED <<now, known, walk>>
    BY <1>7 DEF GetTle
  <2> QED
    BY <2>1, <1>0, WalkStays
<1>8. CASE UNCHANGED vars
  BY <1>0, <1>8, WalkStays DEF vars
<1> QED
  BY <1>1, <1>2, <1>3, <1>4, <1>5, <1>6, <1>7, <1>8 DEF Next

\* A client that walks through all pages sees no satellite twice and misses
\* none that was there before, for any catalogue, page size, stale time
\* and lease (the cursor of get_satellites).
THEOREM WalksAreComplete == Spec => []WalkFindsAll
<1>1. WalkInv => WalkFindsAll
  BY DEF WalkInv, WalkTypes, WalkFindsAll, Due
<1> QED
  BY <1>1, WalkInit, WalkStep, PTL DEF Spec
-----------------------------------------------------------------------------
(* The meta data.                                                          *)

\* When nobody's health changed since the oldest health that may be cached,
\* the health that is read is the one that is.
LEMMA SteadyIsActive ==
  ASSUME now \in Nat, health \in [Source -> [active : BOOLEAN, since : Nat]],
         configured \in SUBSET Source, \A p \in configured : Steady(p),
         NEW h, NEW u \in Moments("health"), Healthy(h, u)
  PROVE  h = Active
<1>1. u \in Nat /\ u >= now - Reach("health")
  BY ReachFacts DEF Moments
<1>2. ASSUME NEW p \in configured PROVE p \in h <=> health[p].active
  <2>1. health[p].since \in Nat /\ health[p].since <= now - Reach("health")
    BY DEF Steady
  <2>2. health[p].since <= u
    BY <1>1, <2>1, ReachFacts
  <2> QED
    BY <2>2 DEF Healthy
<1>3. h \subseteq configured
  BY DEF Healthy
<1> QED
  BY <1>2, <1>3 DEF Active

HealthTypes == /\ now \in Nat /\ configured \in SUBSET Source
               /\ health \in [Source -> [active : BOOLEAN, since : Nat]]

MetaInv == HealthTypes /\ OutageTold

LEMMA RespondTells ==
  ASSUME HealthTypes, NEW kind, NEW arg, NEW rows, NEW by, NEW age,
         Respond(kind, arg, rows, by, age),
         UNCHANGED <<now, configured, health>>
  PROVE  OutageTold'
<1>1. PICK h \in SUBSET configured, u \in Moments("health") :
        /\ Healthy(h, u)
        /\ answer' = [code |-> 200, kind |-> kind, arg |-> arg, rows |-> rows, by |-> by,
                      age |-> age, partial |-> Cardinality(h) < Cardinality(configured),
                      resilience |-> Resilience(h)]
  BY DEF Respond
<1>2. /\ answer'.partial = (Cardinality(h) < Cardinality(configured))
      /\ answer'.resilience = Resilience(h)
  BY <1>1
<1>3. SUFFICES ASSUME \A p \in configured : Steady(p)
               PROVE  /\ answer'.partial <=> Active # configured
                      /\ answer'.resilience = "high" <=> Cardinality(Active) >= 2
                      /\ answer'.resilience = "medium" => Active # {} /\ answer'.partial
  BY DEF OutageTold, Steady, Active
<1>4. h = Active
  BY <1>1, <1>3, SteadyIsActive DEF HealthTypes
<1>5. /\ IsFiniteSet(configured) /\ IsFiniteSet(h)
      /\ Cardinality(h) <= Cardinality(configured)
      /\ Cardinality(h) = Cardinality(configured) => h = configured
  <2>1. IsFiniteSet(configured)
    BY SatFacts, FS_Subset DEF HealthTypes
  <2> QED
    BY <2>1, FS_Subset
<1>6. Cardinality(h) \in Nat /\ Cardinality(configured) \in Nat
  BY <1>5, FS_CardinalityType
<1>7. h = {} => Cardinality(h) = 0
  BY FS_EmptySet
<1>8. answer'.partial <=> h # configured
  <2>1. Cardinality(h) < Cardinality(configured) <=> h # configured
    BY <1>5, <1>6
  <2>2. answer'.partial <=> Cardinality(h) < Cardinality(configured)
    BY <1>2, Zenon
  <2> QED
    BY <2>1, <2>2, Zenon
<1>9. Resilience(h) = "high" <=> Cardinality(h) >= 2
  BY <1>5, <1>6 DEF Resilience
<1>10. Resilience(h) = "medium" => Cardinality(configured) >= 2 /\ Cardinality(h) = 1
  BY DEF Resilience
<1> QED
  BY <1>2, <1>4, <1>5, <1>6, <1>7, <1>8, <1>9, <1>10

\* Steps that answer nothing, or an error.
LEMMA SilentTells == answer'.code # 200 => OutageTold'
BY DEF OutageTold

LEMMA MetaInit == Init => MetaInv
BY DEF Init, MetaInv, HealthTypes, OutageTold, NoAnswer

LEMMA MetaStep == MetaInv /\ [Next]_vars => MetaInv'
<1> SUFFICES ASSUME MetaInv, [Next]_vars PROVE MetaInv'
  OBVIOUS
<1>1. HealthTypes
  BY DEF MetaInv
<1>2. NoAnswer.code # 200 /\ \A k : [code |-> 404, kind |-> k].code # 200
  BY DEF NoAnswer
<1>3. CASE Tick
  BY <1>1, <1>2, <1>3, SilentTells DEF Tick, Quiet, tables, HealthTypes, MetaInv
<1>4. ASSUME NEW s \in Sat, NEW e, AddSatellite(s) \/ AddElement(s, e) PROVE MetaInv'
  BY <1>1, <1>2, <1>4, SilentTells DEF AddSatellite, AddElement, Quiet, HealthTypes, MetaInv
<1>5. ASSUME NEW p \in Source, TellHealth(p) PROVE MetaInv'
  <2>1. health' \in [Source -> [active : BOOLEAN, since : Nat]]
    <3>1. health' = [health EXCEPT ![p] = [active |-> ~health[p].active, since |-> now]]
      BY <1>5 DEF TellHealth
    <3>2. [active |-> ~health[p].active, since |-> now] \in [active : BOOLEAN, since : Nat]
      BY <1>1 DEF HealthTypes
    <3> QED
      BY <3>1, <3>2, <1>1 DEF HealthTypes
  <2> QED
    BY <2>1, <1>1, <1>2, <1>5, SilentTells DEF TellHealth, Quiet, HealthTypes, MetaInv
<1>6. ASSUME NEW s \in Sat, GetSatellite(s) PROVE MetaInv'
  <2>1. UNCHANGED <<now, configured, health>>
    BY <1>6 DEF GetSatellite, tables
  <2>2. NotFound \/ Respond("satellite", {s}, {s}, "cached", 0)
    BY <1>6 DEF GetSatellite
  <2> QED
    BY <2>1, <2>2, <1>1, <1>2, RespondTells, SilentTells DEF NotFound, HealthTypes, MetaInv
<1>7. ASSUME NEW s \in Sat, GetLatest(s) PROVE MetaInv'
  <2>1. UNCHANGED <<now, configured, health>>
    BY <1>7 DEF GetLatest, tables
  <2>2. NotFound \/ \E e, age : Respond("latest", {s}, e, "cached", age)
    BY <1>7 DEF GetLatest
  <2> QED
    BY <2>1, <2>2, <1>1, <1>2, RespondTells, SilentTells DEF NotFound, HealthTypes, MetaInv
<1>8. CASE GetPage
  <2>1. UNCHANGED <<now, configured, health>>
    BY <1>8 DEF GetPage, tables
  <2>2. \E rows : Respond("page", {walk.cursor}, rows, "cached", 0)
    BY <1>8 DEF GetPage
  <2> QED
    BY <2>1, <2>2, <1>1, RespondTells DEF HealthTypes, MetaInv
<1>9. ASSUME NEW f \in Filters, GetTle(f) PROVE MetaInv'
  <2>1. UNCHANGED <<now, configured, health>>
    BY <1>9 DEF GetTle, tables
  <2>2. \E rows, by, age : Respond("tle", f, rows, by, age)
    BY <1>9 DEF GetTle
  <2> QED
    BY <2>1, <2>2, <1>1, RespondTells DEF HealthTypes, MetaInv
<1>10. CASE UNCHANGED vars
  <2>1. UNCHANGED <<now, configured, health, answer>>
    BY <1>10 DEF vars, tables
  <2>2. Active' = Active /\ HealthTypes'
    BY <2>1, <1>1 DEF Active, HealthTypes
  <2>3. (\A p \in configured : Steady(p))' <=> \A p \in configured : Steady(p)
    BY <2>1 DEF Steady
  <2>4. OutageTold'
    BY <2>1, <2>2, <2>3 DEF MetaInv, OutageTold
  <2> QED
    BY <2>2, <2>4 DEF MetaInv
<1> QED
  BY <1>3, <1>4, <1>5, <1>6, <1>7, <1>8, <1>9, <1>10 DEF Next

\* An outage is told: once no provider's health has changed for as long as
\* health may be cached, every response counts exactly those that are active,
\* for any providers (build_meta).
THEOREM OutagesAreTold == Spec => []OutageTold
<1>1. MetaInv => OutageTold
  BY DEF MetaInv
<1> QED
  BY <1>1, MetaInit, MetaStep, PTL DEF Spec

-----------------------------------------------------------------------------
(* The list of TLEs.                                                       *)

ElementsInv ==
  /\ now \in Nat
  /\ \A e \in elements : /\ e.sat \in Sat /\ e.epoch \in 0 .. now
                         /\ e.since \in 0 .. now
  /\ \A d, e \in elements : d.sat = e.sat /\ d.epoch = e.epoch => d = e

\* A full page, and some left over.
LEMMA FirstIsFull ==
  ASSUME NEW S \in SUBSET Nat, IsFiniteSet(S), NEW x \in S, x \notin First(S)
  PROVE  Cardinality(First(S)) = Limit /\ \A r \in First(S) : r < x
<1> DEFINE F == First(S)
           Left == S \ F
           Below(y) == {r \in S : r < y}
<1>1. F \in SUBSET S /\ IsFiniteSet(F) /\ Cardinality(F) \in Nat
  BY FS_Subset, FS_CardinalityType DEF First
<1>2. ASSUME NEW r \in F, NEW y \in Left PROVE r < y
  <2>1. r \in Nat /\ y \in Nat /\ r \in S /\ y \in S /\ ~(y <= r)
    BY FirstIsPrefix, <1>1
  <2> QED
    BY <2>1
<1>3. PICK m \in Left : \A r \in Left : m <= r
  <2>1. Left \in SUBSET Nat /\ Left # {} /\ IsFiniteSet(Left)
    BY FS_Subset
  <2> HIDE DEF Left
  <2> QED
    BY <2>1, LeastIsThere
<1>4. Below(m) = F
  <2>1. m \in S /\ m \in Nat /\ \A r \in S : r \in Nat
    OBVIOUS
  <2>2. ASSUME NEW r \in S, r < m PROVE r \in F
    <3>1. ~(m <= r)
      BY <2>1, <2>2
    <3> QED
      BY <3>1, <1>3
  <2>3. ASSUME NEW r \in F PROVE r \in Below(m)
    BY <1>1, <1>2
  <2> QED
    BY <2>2, <2>3
<1>5. Cardinality(F) >= Limit
  <2>1. ~(Cardinality(Below(m)) < Limit)
    BY DEF First
  <2> QED
    BY <2>1, <1>1, <1>4, SatFacts
<1>6. PICK g \in F : \A r \in F : r <= g
  <2> HIDE DEF F
  <2>1. F # {}
    BY <1>5, SatFacts, FS_EmptySet
  <2>2. F \in SUBSET Nat
    BY <1>1
  <2> QED
    BY <2>1, <2>2, <1>1, GreatestIsThere
<1>7. F \ {g} = Below(g)
  <2>1. g \in S /\ g \in Nat /\ \A r \in S : r \in Nat
    BY <1>1
  <2>2. ASSUME NEW r \in F \ {g} PROVE r \in Below(g)
    <3>1. r <= g /\ r # g /\ r \in S
      BY <1>1, <1>6
    <3> QED
      BY <2>1, <3>1
  <2>3. ASSUME NEW r \in Below(g) PROVE r \in F \ {g}
    <3>1. r \in S /\ r <= g /\ r # g
      BY <2>1
    <3> QED
      BY <3>1, <1>6, FirstIsPrefix
  <2> QED
    BY <2>2, <2>3
<1>8. Cardinality(F) <= Limit
  <2>1. Cardinality(Below(g)) < Limit
    BY DEF First
  <2>2. Cardinality(F \ {g}) = Cardinality(F) - 1
    BY <1>1, FS_RemoveElement
  <2> HIDE DEF F, Below
  <2> QED
    BY <2>1, <2>2, <1>1, <1>7, SatFacts
<1>9. Cardinality(F) = Limit
  <2> HIDE DEF F
  <2> QED
    BY <1>1, <1>5, <1>8, SatFacts
<1> QED
  BY <1>2, <1>9

\* The rows young enough, and their satellites.
Young(f, t) == {e \in elements : /\ e.since <= t /\ e.epoch > t - MaxAge
                                 /\ f = {} \/ e.sat \in f}
Sats(f, t)  == {d.sat : d \in Young(f, t)}

LEMMA TleSetsAre ==
  ASSUME NEW f, NEW t
  PROVE  TleSets(f, t) = {e \in Newest(Young(f, t)) : e.sat \in First(Sats(f, t))}
BY DEF TleSets, Young, Sats

LEMMA SatsAreSats ==
  ASSUME ElementsInv, NEW f, NEW t
  PROVE  Sats(f, t) \in SUBSET Nat /\ IsFiniteSet(Sats(f, t))
<1>1. Sats(f, t) \in SUBSET Sat
  BY DEF Sats, Young, ElementsInv
<1> QED
  BY <1>1, SatFacts, FS_Subset

\* Every satellite with a row has a newest one.
LEMMA NewestIsThere ==
  ASSUME ElementsInv, NEW E \in SUBSET elements, NEW e \in E
  PROVE  \E d \in Newest(E) : d.sat = e.sat /\ d.epoch >= e.epoch
<1> DEFINE Mine == {d \in E : d.sat = e.sat}
           Epochs == {d.epoch : d \in Mine}
<1>1. Epochs \in SUBSET (0 .. now) /\ e.epoch \in Epochs
  BY DEF ElementsInv
<1>2. IsFiniteSet(Epochs) /\ Epochs \in SUBSET Nat /\ Epochs # {}
  <2>1. IsFiniteSet(0 .. now) /\ 0 .. now \in SUBSET Nat
    BY FS_Interval DEF ElementsInv
  <2> HIDE DEF Epochs
  <2>2. IsFiniteSet(Epochs)
    BY <1>1, <2>1, FS_Subset
  <2> QED
    BY <1>1, <2>1, <2>2
<1>3. PICK n \in Epochs : \A m \in Epochs : m <= n
  <2> HIDE DEF Epochs
  <2> QED
    BY <1>2, GreatestIsThere
<1>4. PICK d \in Mine : d.epoch = n
  BY <1>3
<1>5. d \in Newest(E)
  <2>1. ASSUME NEW c \in E, c.sat = d.sat PROVE c.epoch <= d.epoch
    <3>1. c.epoch \in Epochs
      BY <1>4, <2>1
    <3> QED
      BY <1>3, <1>4, <3>1
  <2> QED
    BY <1>4, <2>1 DEF Newest
<1>6. e.epoch <= n
  BY <1>1, <1>3
<1>7. n \in Nat /\ e.epoch \in Nat
  BY <1>1, <1>2
<1> QED
  BY <1>4, <1>5, <1>6, <1>7

\* One row of each satellite, so that the rows are as many as their satellites.
LEMMA RowsAreOne ==
  ASSUME ElementsInv, NEW f, NEW t,
         NEW d \in TleSets(f, t), NEW e \in TleSets(f, t), d.sat = e.sat
  PROVE  d = e
<1>1. d \in Newest(Young(f, t)) /\ e \in Newest(Young(f, t))
  BY TleSetsAre
<1>2. d.epoch <= e.epoch /\ e.epoch <= d.epoch /\ d \in elements /\ e \in elements
  BY <1>1 DEF Newest, Young
<1>3. d.epoch \in Nat /\ e.epoch \in Nat
  BY <1>2 DEF ElementsInv
<1> QED
  BY <1>2, <1>3 DEF ElementsInv

LEMMA RowsOfFirst ==
  ASSUME ElementsInv, NEW f, NEW t, NEW e \in Young(f, t), e.sat \in First(Sats(f, t))
  PROVE  \E d \in TleSets(f, t) : d.sat = e.sat /\ d.epoch >= e.epoch
<1>1. Young(f, t) \in SUBSET elements
  BY DEF Young
<1>2. PICK d \in Newest(Young(f, t)) : d.sat = e.sat /\ d.epoch >= e.epoch
  BY <1>1, NewestIsThere
<1> QED
  BY <1>2, TleSetsAre

LEMMA RowsAreAsMany ==
  ASSUME ElementsInv, NEW f, NEW t
  PROVE  Cardinality(TleSets(f, t)) = Cardinality(First(Sats(f, t)))
<1> DEFINE F == First(Sats(f, t))
           R == TleSets(f, t)
           g == [s \in F |-> CHOOSE d \in R : d.sat = s]
<1>1. \A s \in F : \E d \in R : d.sat = s
  <2> TAKE s \in F
  <2>1. PICK e \in Young(f, t) : e.sat = s
    BY DEF First, Sats
  <2> QED
    BY <2>1, RowsOfFirst
<1>2. \A d \in R : d.sat \in F
  BY TleSetsAre
<1>3. \A d, e \in R : d.sat = e.sat => d = e
  BY RowsAreOne
<1>4. IsFiniteSet(F)
  <2>1. F \in SUBSET Sats(f, t)
    BY DEF First
  <2> QED
    BY <2>1, SatsAreSats, FS_Subset
<1> HIDE DEF F, R
<1>5. g \in [F -> R] /\ \A s \in F : g[s].sat = s
  BY <1>1
<1>6. g \in Bijection(F, R)
  <2>1. \A a, b \in F : g[a] = g[b] => a = b
    BY <1>5
  <2>2. \A d \in R : g[d.sat] = d
    BY <1>2, <1>3, <1>5
  <2> HIDE DEF g
  <2>3. g \in Injection(F, R)
    BY <2>1, <1>5 DEF Injection, IsInjective
  <2>4. g \in Surjection(F, R)
    BY <2>2, <1>2, <1>5 DEF Surjection
  <2> QED
    BY <2>3, <2>4 DEF Bijection
<1>7. ExistsBijection(F, R)
  BY <1>6 DEF ExistsBijection
<1>8. Cardinality(R) = Cardinality(F)
  BY <1>4, <1>7, FS_Bijection
<1> QED
  BY <1>8 DEF F, R

\* The rows as GetTle takes them, told with their moment t.
LEMMA TleFacts ==
  ASSUME ElementsInv, NEW f, NEW t \in 0 .. now, TleSets(f, t) # {} \/ t = now,
         NEW M, M = {e \in elements : e.epoch > now - MaxAge /\ (f = {} \/ e.sat \in f)}
  PROVE  /\ TleSets(f, t) = {} => M = {}
         /\ \A e \in TleSets(f, t) : e.epoch > t - MaxAge
         /\ \A e \in M : e.since <= t =>
              \/ \E d \in TleSets(f, t) : d.sat = e.sat /\ d.epoch >= e.epoch
              \/ Cardinality({d \in TleSets(f, t) : d.sat < e.sat}) = Limit
<1>1. now \in Nat /\ t \in Nat /\ t <= now /\ MaxAge \in Nat
  BY ReadsAssumption DEF ElementsInv
<1>2. ASSUME NEW e \in M, e.since <= t PROVE e \in Young(f, t)
  <2>1. e \in elements /\ e.epoch > now - MaxAge /\ e.epoch \in Nat
    BY DEF ElementsInv
  <2>2. e.epoch > t - MaxAge
    BY <2>1, <1>1
  <2> QED
    BY <2>1, <2>2, <1>2 DEF Young
<1>3. \A e \in TleSets(f, t) : e.epoch > t - MaxAge /\ e.sat \in First(Sats(f, t))
  BY TleSetsAre DEF Newest, Young
<1>4. ASSUME NEW e \in M, e.since <= t
      PROVE  \/ \E d \in TleSets(f, t) : d.sat = e.sat /\ d.epoch >= e.epoch
             \/ Cardinality({d \in TleSets(f, t) : d.sat < e.sat}) = Limit
  <2>1. e \in Young(f, t) /\ e.sat \in Sats(f, t)
    BY <1>2, <1>4 DEF Sats
  <2>2. CASE e.sat \in First(Sats(f, t))
    BY <2>1, <2>2, RowsOfFirst
  <2>3. CASE e.sat \notin First(Sats(f, t))
    <3>1. /\ Cardinality(First(Sats(f, t))) = Limit
          /\ \A r \in First(Sats(f, t)) : r < e.sat
      BY <2>1, <2>3, SatsAreSats, FirstIsFull
    <3>2. {d \in TleSets(f, t) : d.sat < e.sat} = TleSets(f, t)
      BY <3>1, <1>3
    <3> QED
      BY <3>1, <3>2, RowsAreAsMany
  <2> QED
    BY <2>2, <2>3
<1>5. ASSUME TleSets(f, t) = {}, NEW e \in M PROVE FALSE
  <2>1. e.since <= t
    BY <1>5 DEF ElementsInv
  <2>2. TleSets(f, t) # {}
    <3>1. e \in Young(f, t) /\ Sats(f, t) # {}
      BY <1>2, <2>1 DEF Sats
    <3>2. PICK s \in Sats(f, t) : \A r \in Sats(f, t) : s <= r
      BY <3>1, SatsAreSats, LeastIsThere
    <3>3. s \in First(Sats(f, t))
      <4>1. {r \in Sats(f, t) : r < s} = {}
        <5>1. \A r \in Sats(f, t) : r \in Nat /\ s \in Nat /\ s <= r
          BY <3>2, SatsAreSats
        <5> QED
          BY <5>1
      <4>2. Cardinality({}) < Limit
        BY FS_EmptySet, SatFacts
      <4> QED
        BY <4>1, <4>2 DEF First
    <3>4. PICK d \in Young(f, t) : d.sat = s
      BY DEF Sats
    <3> QED
      BY <3>3, <3>4, RowsOfFirst
  <2> QED
    BY <1>5, <2>2
<1> QED
  BY <1>3, <1>4, <1>5

\* The moment of a cached list is not before Behind, and not after the age told.
LEMMA BehindTheMoment ==
  ASSUME ElementsInv, NEW t \in Moments("tle"), NEW age \in Ages("tle", t),
         answer'.by = "cached", answer'.age = age
  PROVE  age \in Int /\ Behind' \in Int /\ now - Behind' <= t /\ t <= now - age
<1>1. now \in Nat /\ t \in Nat /\ t <= now /\ now - t <= Reach("tle")
  BY DEF Moments, ElementsInv
<1>2. age \in Int /\ (age = 0 \/ now - t - age \in 0 .. Lease - 1 + MaxDelay)
  BY ReachFacts DEF Ages
<1>3. t <= now - age
  BY <1>1, <1>2, ReachFacts
<1>4. CASE age = 0 \/ age + MaxDelay >= Stale["tle"]
  <2>1. Behind' = Reach("tle")
    BY <1>4 DEF Behind
  <2> QED
    BY <2>1, <1>1, <1>2, <1>3, ReachFacts
<1>5. CASE ~(age = 0 \/ age + MaxDelay >= Stale["tle"])
  <2>1. Behind' = age + MaxDelay + Lease - 1
    BY <1>5 DEF Behind
  <2> QED
    BY <2>1, <1>1, <1>2, <1>3, <1>5, ReachFacts
<1> QED
  BY <1>4, <1>5

\* The answer, told of a moment that is not before Behind.
LEMMA TleTells ==
  ASSUME ElementsInv, UNCHANGED <<now, elements>>,
         NEW f, NEW t \in 0 .. now, TleSets(f, t) # {} \/ t = now,
         NEW by, NEW age \in Int, Respond("tle", f, TleSets(f, t), by, age),
         NEW b \in Int, Behind' = b, now - b <= t, t <= now - age
  PROVE  TlesAreAsTold'
<1> DEFINE R == TleSets(f, t)
           M == {e \in elements : e.epoch > now - MaxAge /\ (f = {} \/ e.sat \in f)}
<1>1. /\ R = {} => M = {}
      /\ \A e \in R : e.epoch > t - MaxAge
      /\ \A e \in M : e.since <= t => \/ \E d \in R : d.sat = e.sat /\ d.epoch >= e.epoch
                                      \/ Cardinality({d \in R : d.sat < e.sat}) = Limit
  BY TleFacts
<1>2. \A d, e \in R : d.sat = e.sat => d = e
  BY RowsAreOne
<1>3. answer'.arg = f /\ answer'.rows = R /\ answer'.age = age
  BY DEF Respond
<1>4. now \in Nat /\ t \in Nat /\ now' = now
  BY DEF ElementsInv
<1>5. \A e \in R : e.since <= now' - age /\ e.epoch > now' - b - MaxAge
  <2> TAKE e \in R
  <2>1. e \in elements /\ e.since <= t /\ e.epoch > t - MaxAge
    BY TleSetsAre DEF Newest, Young
  <2>2. e.since \in Nat /\ e.epoch \in Nat
    BY <2>1, <1>4 DEF ElementsInv
  <2> QED
    BY <2>1, <2>2, <1>4, ReachFacts
<1>6. ASSUME NEW e \in M, e.since <= now' - b PROVE e.since <= t
  <2>1. e.since \in Nat
    BY <1>4 DEF ElementsInv
  <2> QED
    BY <2>1, <1>4, <1>6
<1>7. M = {e \in elements' : /\ e.epoch > now' - MaxAge
                             /\ answer'.arg = {} \/ e.sat \in answer'.arg}
  BY <1>3
<1>8. /\ answer'.rows = {} => M = {}
      /\ \A d, e \in answer'.rows : d.sat = e.sat => d = e
      /\ \A e \in answer'.rows : /\ e.since <= now' - answer'.age
                                 /\ e.epoch > now' - Behind' - MaxAge
      /\ \A e \in M : e.since <= now' - Behind' =>
           \/ \E d \in answer'.rows : d.sat = e.sat /\ d.epoch >= e.epoch
           \/ Cardinality({d \in answer'.rows : d.sat < e.sat}) = Limit
  <2> HIDE DEF R, M
  <2> QED
    BY <1>1, <1>2, <1>3, <1>5, <1>6
<1> HIDE DEF M
<1> QED
  BY <1>7, <1>8 DEF TlesAreAsTold

LEMMA ElementsStep == ElementsInv /\ [Next]_vars => ElementsInv'
<1> SUFFICES ASSUME ElementsInv, [Next]_vars PROVE ElementsInv'
  OBVIOUS
<1>1. CASE UNCHANGED <<now, elements>>
  BY <1>1 DEF ElementsInv
<1>2. CASE Tick
  BY <1>2 DEF Tick, tables, ElementsInv
<1>3. ASSUME NEW s \in Sat, NEW age \in 0 .. now, AddElement(s, now - age)
      PROVE  ElementsInv'
  <2> DEFINE new == [sat |-> s, epoch |-> now - age, since |-> now]
  <2>1. /\ elements' = elements \cup {new} /\ now' = now /\ now \in Nat
        /\ \A e \in elements : ~(e.sat = s /\ e.epoch = now - age)
    BY <1>3 DEF AddElement, ElementsInv
  <2>2. now - age \in 0 .. now /\ now \in 0 .. now
    BY <2>1
  <2>3. new.sat = s /\ new.epoch = now - age /\ new.since = now
    OBVIOUS
  <2> HIDE DEF new
  <2> QED
    BY <2>1, <2>2, <2>3 DEF ElementsInv
<1>4. \/ UNCHANGED <<now, elements>> \/ Tick
      \/ \E s \in Sat : \E age \in 0 .. now : AddElement(s, now - age)
  BY DEF Next, vars, tables, GetPage, AddSatellite, GetSatellite, GetLatest,
         TellHealth, GetTle
<1> QED
  BY <1>1, <1>2, <1>3, <1>4

\* The step that answers with TLEs, and those that answer something else.
LEMMA TleStep ==
  ElementsInv /\ TlesAreAsTold /\ [Next]_vars => TlesAreAsTold'
<1> SUFFICES ASSUME ElementsInv, TlesAreAsTold, [Next]_vars PROVE TlesAreAsTold'
  OBVIOUS
<1>1. CASE answer'.code # 200 \/ answer'.kind # "tle"
  BY <1>1 DEF TlesAreAsTold
<1>2. ASSUME NEW f \in Filters, GetTle(f) PROVE TlesAreAsTold'
  <2>1. PICK t \in Moments("tle") :
          IF TleSets(f, t) = {} THEN Respond("tle", f, TleSets(f, now), "miss", 0)
          ELSE \E age \in Ages("tle", t) : Respond("tle", f, TleSets(f, t), "cached", age)
    BY <1>2 DEF GetTle
  <2>2. /\ now \in Nat /\ t \in 0 .. now /\ now \in 0 .. now
        /\ UNCHANGED <<now, elements>>
    BY <1>2 DEF Moments, GetTle, tables, ElementsInv
  <2>3. CASE TleSets(f, t) = {}
    <3>1. Respond("tle", f, TleSets(f, now), "miss", 0)
      BY <2>1, <2>3
    <3>2. Behind' = 0
      BY <3>1 DEF Respond, Behind
    <3> QED
      BY <3>1, <3>2, <2>2, TleTells
  <2>4. CASE TleSets(f, t) # {}
    <3>1. PICK age \in Ages("tle", t) : Respond("tle", f, TleSets(f, t), "cached", age)
      BY <2>1, <2>4
    <3>2. answer'.by = "cached" /\ answer'.age = age
      BY <3>1 DEF Respond
    <3>3. age \in Int /\ Behind' \in Int /\ now - Behind' <= t /\ t <= now - age
      BY <2>1, <3>2, BehindTheMoment
    <3> QED
      BY <3>1, <3>3, <2>2, <2>4, TleTells
  <2> QED
    BY <2>3, <2>4
<1>3. CASE UNCHANGED vars
  <2>1. UNCHANGED <<now, elements, answer>>
    BY <1>3 DEF vars, tables
  <2>2. Behind' = Behind
    BY <2>1 DEF Behind
  <2> QED
    BY <2>1, <2>2 DEF TlesAreAsTold
<1>4. ASSUME NEW kind, kind # "tle", NEW arg, NEW rows, NEW by, NEW age,
             Respond(kind, arg, rows, by, age)
      PROVE  answer'.kind # "tle"
  BY <1>4 DEF Respond
<1>5. NoAnswer.code # 200 /\ \A k : [code |-> 404, kind |-> k].code # 200
  BY DEF NoAnswer
<1>6. ASSUME NEW s \in Sat, GetSatellite(s) \/ GetLatest(s) \/ GetPage
      PROVE  answer'.code # 200 \/ answer'.kind # "tle"
  BY <1>4, <1>5, <1>6 DEF GetSatellite, GetLatest, GetPage, NotFound
<1>7. ASSUME GetPage PROVE answer'.kind # "tle"
  BY <1>4, <1>7 DEF GetPage
<1>8. ASSUME \/ Tick
             \/ \E s \in Sat : \/ AddSatellite(s)
                               \/ \E age \in 0 .. now : AddElement(s, now - age)
             \/ \E p \in Source : TellHealth(p)
      PROVE  answer'.code # 200
  BY <1>5, <1>8 DEF Tick, AddSatellite, AddElement, TellHealth, Quiet
<1> QED
  BY <1>1, <1>2, <1>3, <1>6, <1>7, <1>8 DEF Next

\* A list of TLEs holds the newest set of each satellite of what was stored
\* Behind seconds ago, all of them or as many as the limit, none stored within
\* the age it tells, and is only empty when there is none now, for any rows,
\* filters, limits, stale times, leases and delays (get_latest_tle_sets).
THEOREM TlesAreNewest == Spec => []TlesAreAsTold
<1>1. Init => ElementsInv /\ TlesAreAsTold
  BY DEF Init, ElementsInv, TlesAreAsTold, NoAnswer
<1> QED
  BY <1>1, ElementsStep, TleStep, PTL DEF Spec
=============================================================================

----------------------------- MODULE CatalogReads -----------------------------
(***************************************************************************)
(* The reads of the catalogue: api/routers/satellite.py and                *)
(* api/routers/orbital.py over the tables that the ingestion jobs write,   *)
(* with build_meta of api/utils.py.  A client walks through the pages of   *)
(* /satellites by cursor while satellites are added.                       *)
(*                                                                         *)
(* core/cache_layer.py is reduced to what CacheLayer shows of it: an       *)
(* answer is what the query returned at some moment less than a stale time *)
(* and a lease ago, and the age told with it is not the age of that        *)
(* moment.  A request is one step.  The rows keep the time they were       *)
(* stored, so that the tables of an earlier moment can be read.  Operators *)
(* named X_Slip... are plausible mistakes in X that nothing uses.          *)
(***************************************************************************)
EXTENDS Integers, FiniteSets

CONSTANTS
  Sat,        \* NORAD catalogue numbers
  Source,     \* _TAG_PROVIDERS of the tags Satellite and Orbital
  Filters,    \* sets of numbers clients ask TLEs of, {} for all
  Limit,      \* limit of a listing
  MaxAge,     \* _TLE_MAX_AGE
  Stale,      \* by kind of value: stale of its call of cached()
  Lease,      \* EX of the cache's lock
  MaxDelay,   \* bound: seconds a command waits for Valkey
  Changes,    \* bound: tables that change in one behaviour, and the walk
  MaxTime,    \* bound: the clock stops here
  MaxElements \* bound: element sets ever stored

Kind == {"satellite", "page", "latest", "tle", "health"}

ASSUME ReadsAssumption ==
  /\ IsFiniteSet(Sat) /\ Sat \subseteq Nat \ {0}
  /\ IsFiniteSet(Source) /\ Filters \subseteq SUBSET Sat
  /\ Limit \in Nat \ {0} /\ Stale \in [Kind -> Nat \ {0}]
  /\ Changes \subseteq SUBSET {"satellites", "orbital_elements", "provider_health", "walk"}
  /\ Lease \in Nat \ {0} /\ {MaxAge, MaxDelay, MaxTime, MaxElements} \subseteq Nat

VARIABLES
  now,        \* the clock
  configured, \* configured_providers() among Source
  changing,   \* the tables that change, and the walk if there is one
  known,      \* known[s]: when satellite s was first stored, or Never
  elements,   \* rows of orbital_elements
  health,     \* health[p]: whether provider_health says active, and since when
  walk,       \* the client's walk through the pages
  answer      \* the answer of the last step, if it was a read

tables == <<known, elements, health>>
vars   == <<now, configured, changing, tables, walk, answer>>

Never    == MaxTime + 1
NoAnswer == [code |-> 0]
Start    == [pc |-> "start", cursor |-> 0, since |-> 0, seen |-> {}, read |-> 0]

Init == /\ now = 0
        /\ configured \in SUBSET Source /\ changing \in Changes
        /\ known = [s \in Sat |-> Never]
        /\ elements = {}
        /\ health = [p \in Source |-> [active |-> FALSE, since |-> 0]]
        /\ walk = Start /\ answer = NoAnswer

-----------------------------------------------------------------------------
(* The tables change.                                                      *)

Quiet == UNCHANGED <<configured, changing, walk>> /\ answer' = NoAnswer

\* Upserts of SATCAT and CelesTrak: a satellite is never deleted.
AddSatellite(s) ==
  /\ known[s] = Never /\ "satellites" \in changing
  /\ known' = [known EXCEPT ![s] = now]
  /\ Quiet /\ UNCHANGED <<now, elements, health>>

\* An element set may be older than one that is stored.
AddElement(s, epoch) ==
  /\ known[s] # Never /\ "orbital_elements" \in changing
  /\ Cardinality(elements) < MaxElements
  /\ \A e \in elements : ~(e.sat = s /\ e.epoch = epoch)
  /\ elements' = elements \cup {[sat |-> s, epoch |-> epoch, since |-> now]}
  /\ Quiet /\ UNCHANGED <<now, known, health>>

\* _provider_health of the scheduler.
TellHealth(p) ==
  /\ p \in configured /\ "provider_health" \in changing
  /\ health' = [health EXCEPT ![p] = [active |-> ~@.active, since |-> now]]
  /\ Quiet /\ UNCHANGED <<now, known, elements>>

Tick == /\ now < MaxTime
        /\ now' = now + 1
        /\ Quiet /\ UNCHANGED tables

-----------------------------------------------------------------------------
(* What the queries return at time t.                                      *)

\* .order_by(norad_id).limit(limit)
First(S) == {s \in S : Cardinality({r \in S : r < s}) < Limit}

Newest(E) == {e \in E : \A d \in E : d.sat = e.sat => d.epoch <= e.epoch}

Satellite(s, t) == {r \in {s} : known[r] <= t}

\* Without .order_by: any rows after the cursor.
SatellitePage_SlipOrder(cursor, t) ==
  LET S == {s \in Sat : known[s] <= t /\ s > cursor}
  IN  {s \in S : Cardinality({r \in S : r > s}) < Limit}

SatellitePage(cursor, t) == First({s \in Sat : known[s] <= t /\ s > cursor})

LatestElement(s, t) == Newest({e \in elements : e.sat = s /\ e.since <= t})

\* The rows young enough, in any order of epochs.
TleSets_SlipOrder(f, t) ==
  LET E == {e \in elements : /\ e.since <= t /\ e.epoch > t - MaxAge
                             /\ f = {} \/ e.sat \in f}
      Oldest == {e \in E : \A d \in E : d.sat = e.sat => d.epoch >= e.epoch}
  IN  {e \in Oldest : e.sat \in First({d.sat : d \in E})}

\* DISTINCT ON (norad_id) of the rows young enough, in the order of norad_id
\* and then of epoch, the newest first.
TleSets(f, t) ==
  LET E == {e \in elements : /\ e.since <= t /\ e.epoch > t - MaxAge
                             /\ f = {} \/ e.sat \in f}
  IN  {e \in Newest(E) : e.sat \in First({d.sat : d \in E})}

\* load_health: a row that changed after t may have said anything at t.
Healthy(h, t) == /\ h \subseteq configured
                 /\ \A p \in configured : health[p].since <= t => (p \in h <=> health[p].active)

\* The longest time from the snapshot of a value to an answer with it: it is
\* stored before the lease ends and kept Stale seconds.  Who computes a value
\* has it sooner: a computation is given at most a minute, and every stale time
\* is longer.
Reach(kind) == Stale[kind] + Lease - 1

\* The moments the snapshot of what cached() answers may be of.
Moments(kind) == {t \in 0 .. now : now - t <= Reach(kind)}

\* The age cached() may tell of the snapshot of time t: 0 to who computed the
\* value or waited for it; else from stored_at, which is the clock after the
\* computation and before the script, to the reader's clock before its script.
Ages(kind, t) == {0} \cup {a \in -MaxDelay .. Stale[kind] :
                             now - t - a \in 0 .. Lease - 1 + MaxDelay}

-----------------------------------------------------------------------------
(* The handlers.                                                           *)

\* tag_enabled: 503 when no provider of the tag is configured.
Enabled == configured # {}

\* One healthy provider is enough.
Resilience_SlipOne(h) ==
  IF Cardinality(configured) >= 2 /\ h # {} THEN "high" ELSE "limited"

Resilience(h) ==
  CASE Cardinality(configured) >= 2 /\ Cardinality(h) >= 2 -> "high"
    [] Cardinality(configured) >= 2 /\ Cardinality(h) = 1  -> "medium"
    [] OTHER -> "limited"

\* Rows with build_meta, which says age 0 where the route does not say more.
\* How they were come by: from cached(), "fresh" or "stale", or by a "miss".
Respond(kind, arg, rows, by, age) ==
  \E h \in SUBSET configured, u \in Moments("health") :
    /\ Healthy(h, u)
    /\ answer' = [code |-> 200, kind |-> kind, arg |-> arg, rows |-> rows, by |-> by,
                  age |-> age, partial |-> Cardinality(h) < Cardinality(configured),
                  resilience |-> Resilience(h)]

NotFound == answer' = [code |-> 404, kind |-> "error"]

\* A None is cached like a row.
GetSatellite(s) ==
  /\ Enabled
  /\ \E t \in Moments("satellite") :
       IF Satellite(s, t) = {} THEN NotFound ELSE Respond("satellite", {s}, {s}, "cached", 0)
  /\ UNCHANGED <<now, configured, changing, tables, walk>>

GetLatest(s) ==
  /\ Enabled
  /\ \E t \in Moments("latest") :
       LET e == LatestElement(s, t)
       IN  IF e = {} THEN NotFound
           ELSE \E age \in Ages("latest", t) : Respond("latest", {s}, e, "cached", age)
  /\ UNCHANGED <<now, configured, changing, tables, walk>>

\* A page of the listing, and its last number as the next cursor; a short
\* page is the last.
GetPage ==
  /\ Enabled /\ walk.pc # "done" /\ "walk" \in changing
  /\ \E t \in Moments("page") :
       LET rows == SatellitePage(walk.cursor, t)
       IN  /\ Respond("page", {walk.cursor}, rows, "cached", 0)
           /\ walk' = [pc     |-> IF Cardinality(rows) < Limit THEN "done" ELSE "walking",
                       cursor |-> IF rows = {} THEN 0
                                  ELSE CHOOSE s \in rows : \A r \in rows : r <= s,
                       since  |-> IF walk.pc = "start" THEN now ELSE walk.since,
                       seen   |-> walk.seen \cup rows,
                       read   |-> walk.read + Cardinality(rows)]
  /\ UNCHANGED <<now, configured, changing, tables>>

\* An empty list is loaded again.
GetTle(f) ==
  /\ Enabled
  /\ \E t \in Moments("tle") :
       IF TleSets(f, t) = {} THEN Respond("tle", f, TleSets(f, now), "miss", 0)
       ELSE \E age \in Ages("tle", t) : Respond("tle", f, TleSets(f, t), "cached", age)
  /\ UNCHANGED <<now, configured, changing, tables, walk>>

Next == \/ Tick \/ GetPage
        \/ \E s \in Sat : \/ AddSatellite(s) \/ GetSatellite(s) \/ GetLatest(s)
                          \/ \E age \in 0 .. now : AddElement(s, now - age)
        \/ \E p \in Source : TellHealth(p)
        \/ \E f \in Filters : GetTle(f)

Spec == Init /\ [][Next]_vars

-----------------------------------------------------------------------------
(* Properties.                                                             *)

\* "stable cursor pagination": a walk returns no satellite twice and misses
\* none that was stored before the oldest page it could be given, although
\* its pages are of different moments and satellites are added meanwhile.
WalkFindsAll ==
  /\ walk.read = Cardinality(walk.seen)
  /\ walk.pc = "done" =>
       \A s \in Sat : known[s] <= walk.since - Reach("page") => s \in walk.seen

\* How old the rows of the TLE list in the answer may be at most.  The age told
\* leaves out the computation and the reader's own delay, and the 0 told to a
\* caller that computed or waited may stand for anything the cache holds.
Behind ==
  CASE answer.by = "miss" -> 0
    [] answer.by = "cached" /\ (answer.age = 0 \/ answer.age + MaxDelay >= Stale["tle"]) ->
         Reach("tle")
    [] OTHER -> answer.age + MaxDelay + Lease - 1

\* The list of TLEs holds one set of each satellite, none of them stored within
\* the age it tells, none that was too old Behind seconds ago, and the newest of
\* what was stored by then; an empty list means that there is none now
\* (get_latest_tle_sets).
TlesAreAsTold ==
  answer.code = 200 /\ answer.kind = "tle" =>
    LET M == {e \in elements : e.epoch > now - MaxAge /\ (answer.arg = {} \/ e.sat \in answer.arg)}
    IN  /\ answer.rows = {} => M = {}
        /\ \A d, e \in answer.rows : d.sat = e.sat => d = e
        /\ \A e \in answer.rows : /\ e.since <= now - answer.age
                                  /\ e.epoch > now - Behind - MaxAge
        /\ \A e \in M : e.since <= now - Behind =>
             \/ \E d \in answer.rows : d.sat = e.sat /\ d.epoch >= e.epoch
             \/ Cardinality({d \in answer.rows : d.sat < e.sat}) = Limit

Steady(p) == health[p].since <= now - Reach("health")
Active    == {p \in configured : health[p].active}

\* An outage is told: when no provider's health changed within the time health
\* may be cached, the response counts exactly those that are active, and
\* claims resilience only when two are (build_meta).
OutageTold ==
  answer.code = 200 /\ (\A p \in configured : Steady(p)) =>
    /\ answer.partial <=> Active # configured
    /\ answer.resilience = "high" <=> Cardinality(Active) >= 2
    /\ answer.resilience = "medium" => Active # {} /\ answer.partial
=============================================================================

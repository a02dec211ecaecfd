---------------------------- MODULE IngestionJobs -----------------------------
(***************************************************************************)
(* ingestion/scheduler.py: what a run of an ingestion job does between the *)
(* slot it was given and the report of its end.  A job fetches records,    *)
(* upserts them in one PostgreSQL transaction, row after row, and only     *)
(* then announces the change to the webhooks.  The launch job asks two     *)
(* sources in turn and replaces the upcoming launches by the first answer. *)
(*                                                                         *)
(* SchedulerJob gives each job one run at a time; the runs of different    *)
(* jobs interleave, and two of them write the same satellites.  Operators  *)
(* named X_Slip... are plausible mistakes in X that nothing uses.          *)
(***************************************************************************)
EXTENDS Integers, Sequences, FiniteSets

CONSTANTS
  Deployments, \* sets of configured providers the scheduler may start with
  Sat,         \* catalog numbers, which are numbers
  Body,        \* designations of near-Earth objects
  Launch,      \* launches, in each source's numbering
  Epoch,       \* times of element sets and approaches
  Minute,      \* times of observations
  Hook,        \* webhooks subscribed to every event
  Lookback,    \* _OBSERVATION_LOOKBACK
  MaxRecords,  \* bound: element sets in one reply
  MaxTime,     \* bound: the clock stops here
  MaxRuns,     \* bound: runs of each job
  MaxFaults    \* bound: exceptions of the database and of NATS, crashes

Source == <<"the-space-devs", "rocketlaunch-live">>      \* _LAUNCH_SOURCES
Provider == [satcat |-> {"space-track"}, orbital |-> {"celestrak"},
             weather |-> {"noaa-swpc"}, jpl |-> {"jpl-ssd"},
             nasa |-> {"nasa-neows"}, launches |-> {Source[1], Source[2]}]
Job == DOMAIN Provider

ASSUME IngestionAssumption ==
  /\ Minute \subseteq Nat /\ Sat \subseteq Nat
  /\ IsFiniteSet(Sat) /\ IsFiniteSet(Body) /\ IsFiniteSet(Epoch) /\ IsFiniteSet(Minute)
  /\ MaxRuns \in [Job -> Nat]
  /\ {MaxTime, MaxFaults, Lookback, MaxRecords} \subseteq Nat

VARIABLES
  providers, \* configured_providers() when the scheduler started
  now,       \* the clock
  run,       \* run[j]: the run of job j, or Idle
  runs,      \* runs[j]: runs of j so far
  rows,      \* primary keys of the committed rows, launches apart
  filled,    \* filled[r]: groups of columns of r that are not null
  launch,    \* committed rows of the table launches
  health,    \* health[k]: status of source k in provider_health
  active,    \* webhooks that are active
  sent,      \* sent[j][h]: messages published for h by j
  faults,    \* faults so far
  commits,   \* history: transactions of j committed
  offered,   \* history: the answer that was committed last
  tried      \* history: sources that failed in the last launch run, and the one used

tables  == <<rows, filled, launch>>
history == <<commits, offered, tried>>
vars    == <<providers, now, run, runs, tables, health, active, sent, faults, history>>

-----------------------------------------------------------------------------
(* Rows and what a statement does to one.                                  *)

CatalogRow == ({"satellite"} \X Sat) \cup ({"element"} \X Sat \X Epoch)

Row == CatalogRow
       \cup ({"jpl", "nasa"} \X Body) \cup ({"jpl", "nasa"} \X Body \X Epoch)
       \cup ({"kp", "wind"} \X Minute)

\* row: primary key; parent: rows its foreign key needs; values: the columns
\* that are not null; update: the columns of DO UPDATE SET, none for DO NOTHING.
Write(row, parent, values, update) ==
  [row |-> row, parent |-> parent, values |-> values, update |-> update]

\* With the catalog columns in SET, which CelesTrak does not know.
OrbitalColumns_SlipAll == {"name", "cospar", "catalog"}

OrbitalColumns == {"name", "cospar"}

\* catalog: country, object_type and status.
SatcatWrite(n) ==
  Write(<<"satellite", n>>, {}, {"name", "cospar", "catalog"},
        {"name", "cospar", "catalog"})

\* _international_designator may find none: then cospar_id is set to NULL.
OrbitalWrite(n, values) ==
  Write(<<"satellite", n>>, {}, values \cup {"name"}, OrbitalColumns)

ElementWrite(n, e) ==
  Write(<<"element", n, e>>, {<<"satellite", n>>}, {"elements"}, {})

BodyWrite(j, d) == Write(<<j, d>>, {}, {"body"}, {"body"})

ApproachWrite(j, d, e) ==
  Write(<<j, d, e>>, {<<j, d>>}, {"approach"}, {"approach"})

\* A value per observation; Kp at or above _GEOMAGNETIC_STORM_KP is "storm".
KpWrite(e, storm) ==
  Write(<<"kp", e>>, {}, IF storm THEN {"storm"} ELSE {}, {"storm"})
WindWrite(e) == Write(<<"wind", e>>, {}, {"wind"}, {"wind"})

Map(s, Op(_)) == [i \in DOMAIN s |-> Op(s[i])]
Newest(S)  == CHOOSE e \in S : \A f \in S : f <= e
Ordered(S) == CHOOSE s \in [1 .. Cardinality(S) -> S] :
                \A i, k \in DOMAIN s : i < k => s[i] < s[k]
Listed(S)  == CHOOSE s \in [1 .. Cardinality(S) -> S] : {s[i] : i \in DOMAIN s} = S

\* The element sets before the satellites they belong to.
InOrder_SlipChildren(parents, children) == children \o parents

\* The order of the statements in every transaction.
InOrder(parents, children) == parents \o children

-----------------------------------------------------------------------------
(* What the parsers make of a reply, and what the jobs write of it.        *)

\* Ordered by NORAD_CAT_ID, as the query asks.
SatcatWrites == {Map(Ordered(S), SatcatWrite) : S \in SUBSET Sat}

\* In the order of the file, a satellite more than once perhaps.
TleCatalogs ==
  UNION {[1 .. n -> [norad : Sat, designator : {{}, {"cospar"}}, epoch : Epoch]] :
           n \in 1 .. MaxRecords}

\* A dict keeps a satellite at its first position with its last value.
Satellites(catalog) ==
  LET At(n)  == {i \in DOMAIN catalog : catalog[i].norad = n}
      Firsts == {i \in DOMAIN catalog : \A k \in At(catalog[i].norad) : i <= k}
      Upserted(i) == LET n == catalog[i].norad
                 IN  OrbitalWrite(n, catalog[Newest(At(n))].designator)
  IN  Map(Ordered(Firsts), Upserted)

OrbitalWrites ==
  {InOrder(Satellites(c), [i \in DOMAIN c |-> ElementWrite(c[i].norad, c[i].epoch)]) :
     c \in TleCatalogs}

Recent(S) == {e \in S : Newest(S) - e <= Lookback}

\* The newest minute is still being formed.
PlanetaryK(reported) == Recent({e \in reported : \E f \in reported : e < f})
SolarWind(reported)  == Recent(reported)

Observed(k, w, storm) ==
  Map(Ordered(PlanetaryK(k)), LAMBDA e : KpWrite(e, e \in storm))
  \o Map(Ordered(SolarWind(w)), WindWrite)

WeatherWrites == {Observed(k, w, storm) : k, w, storm \in SUBSET Minute} \ {<<>>}

Stored(j, bodies, approaches) ==
  InOrder(Listed({BodyWrite(j, d) : d \in bodies \cup {a[1] : a \in approaches}}),
          Listed({ApproachWrite(j, a[1], a[2]) : a \in approaches}))

\* One reply has the approaches, two more the flags of the bodies.
JplWrites == {Stored("jpl", {}, A) : A \in SUBSET (Body \X Epoch)}

\* A body may have no approach with a time, a velocity and a distance.
NasaWrites == {Stored("nasa", B, A) : B \in SUBSET Body, A \in SUBSET (Body \X Epoch)}

\* No element set or no observation at all is an error; an empty list of
\* SATCAT records or of approaches is not.
Writes(j) ==
  CASE j = "satcat"  -> SatcatWrites
    [] j = "orbital" -> OrbitalWrites
    [] j = "weather" -> WeatherWrites
    [] j = "jpl"     -> JplWrites
    [] j = "nasa"    -> NasaWrites

Merged(old, w) == (old \ w.update) \cup (w.values \cap w.update)

Idle == [pc |-> "idle", todo |-> <<>>, done |-> {}, hooks |-> {},
         source |-> 0, offer |-> {}]

Init == /\ providers \in Deployments
        /\ now = 0
        /\ run = [j \in Job |-> Idle]
        /\ runs = [j \in Job |-> 0]
        /\ rows = {} /\ filled = [r \in Row |-> {}]
        /\ launch = {}
        /\ health = [k \in 1 .. 2 |-> "unknown"]
        /\ active = Hook
        /\ sent = [j \in Job |-> [h \in Hook |-> 0]]
        /\ faults = 0
        /\ commits = [j \in Job |-> 0]
        /\ offered = {}
        /\ tried = [failed |-> {}, used |-> 0]

Goto(j, pc) == run' = [run EXCEPT ![j].pc = pc]
End(j)      == run' = [run EXCEPT ![j] = Idle]
Fault       == faults < MaxFaults /\ faults' = faults + 1

\* run_scheduler starts the jobs of the configured providers; their loops give
\* them one run at a time.
Begins(j) == /\ Provider[j] \cap providers # {}
             /\ run[j].pc = "idle" /\ runs[j] < MaxRuns[j]
             /\ runs' = [runs EXCEPT ![j] = @ + 1]

-----------------------------------------------------------------------------
(* Jobs that upsert what one provider answers.                             *)

\* The reply, unless the request fails or CelesTrak's data have not changed.
Fetch(j) ==
  /\ j # "launches"
  /\ Begins(j)
  /\ \/ \E s \in Writes(j) :
          run' = [run EXCEPT ![j] = [Idle EXCEPT !.pc = "write", !.todo = s]]
     \/ End(j)
  /\ UNCHANGED <<providers, now, tables, health, active, sent, faults, history>>

Writing(j) == run[j].pc = "write" /\ run[j].todo # <<>>
Held(j)    == {w.row : w \in run[j].done}
Blocks(i, j) == i # j /\ Writing(j) /\ Head(run[j].todo).row \in Held(i)

\* One row of an INSERT ... ON CONFLICT: it waits for the transaction that
\* wrote the row before.
Upsert(j) ==
  /\ Writing(j)
  /\ \A i \in Job : ~Blocks(i, j)
  /\ Head(run[j].todo).parent \subseteq rows \cup Held(j)
  /\ run' = [run EXCEPT ![j].done = @ \cup {Head(run[j].todo)},
                        ![j].todo = Tail(@)]
  /\ UNCHANGED <<providers, now, runs, tables, health, active, sent, faults, history>>

\* PostgreSQL finds two transactions waiting for each other and aborts one.
Deadlock(j) ==
  /\ \E i \in Job : Blocks(i, j) /\ Blocks(j, i)
  /\ End(j)
  /\ UNCHANGED <<providers, now, runs, tables, health, active, sent, faults, history>>

Storm == LET kp == {w \in run["weather"].done : w.row[1] = "kp"}
         IN  \E w \in kp : /\ w.row[2] = Newest({v.row[2] : v \in kp})
                           /\ "storm" \in w.values

Committed(j) ==
  /\ rows' = rows \cup Held(j)
  /\ filled' = [r \in Row |->
                  IF r \in Held(j)
                    THEN LET w == CHOOSE w \in run[j].done : w.row = r
                         IN  IF r \in rows THEN Merged(filled[r], w) ELSE w.values
                    ELSE filled[r]]

\* The event is published before the commit.
Commit_SlipEvent(j) ==
  /\ run[j].pc = "write" /\ run[j].todo = <<>>
  /\ Goto(j, "announce")
  /\ Committed(j)
  /\ UNCHANGED <<providers, now, runs, launch, health, active, sent, faults, history>>

\* session.commit(); NOAA's job has an event only for a storm.
Commit(j) ==
  /\ run[j].pc = "write" /\ run[j].todo = <<>>
  /\ IF j = "weather" /\ ~Storm THEN End(j) ELSE Goto(j, "announce")
  /\ Committed(j)
  /\ commits' = [commits EXCEPT ![j] = @ + 1]
  /\ UNCHANGED <<providers, now, runs, launch, health, active, sent, faults,
                 offered, tried>>

-----------------------------------------------------------------------------
(* _publish_event                                                          *)

Announce(j) ==
  /\ run[j].pc = "announce"
  /\ IF active = {}
       THEN End(j)
       ELSE run' = [run EXCEPT ![j] = [Idle EXCEPT !.pc = "publish", !.hooks = active]]
  /\ UNCHANGED <<providers, now, runs, tables, health, active, sent, faults, history>>

Publish(j) ==
  /\ run[j].pc = "publish"
  /\ \E h \in run[j].hooks :
       /\ sent' = [sent EXCEPT ![j][h] = @ + 1]
       /\ IF run[j].hooks = {h}
            THEN End(j) ELSE run' = [run EXCEPT ![j].hooks = @ \ {h}]
  /\ UNCHANGED <<providers, now, runs, tables, health, active, faults, history>>

\* The exception is swallowed, the rest of the webhooks hear nothing; the
\* message may have been stored although its acknowledgement was lost.
PublishFails(j) ==
  /\ run[j].pc \in {"announce", "publish"}
  /\ Fault
  /\ End(j)
  /\ \/ sent' = sent
     \/ /\ run[j].pc = "publish"
        /\ \E h \in run[j].hooks : sent' = [sent EXCEPT ![j][h] = @ + 1]
  /\ UNCHANGED <<providers, now, runs, tables, health, active, history>>

-----------------------------------------------------------------------------
(* _ingest_launches                                                        *)

Sources == {k \in 1 .. 2 : Source[k] \in providers}
Least(S) == CHOOSE k \in S : \A l \in S : k <= l

BeginLaunches ==
  /\ Begins("launches")
  /\ run' = [run EXCEPT !["launches"] = [Idle EXCEPT !.pc = "ask",
                                                     !.source = Least(Sources)]]
  /\ tried' = [failed |-> {}, used |-> 0]
  /\ UNCHANGED <<providers, now, tables, health, active, sent, faults, commits, offered>>

\* What the parsers make of a record with an id and a time: the second source's
\* ids are prefixed, so that they never clash with the first's.
SpaceDevs(l, at)  == [id |-> l, source |-> 1, window |-> at]
RocketLaunch(l, at) == [id |-> <<"rll", l>>, source |-> 2, window |-> at]

\* A reply has at least one usable record.
Answers ==
  LET k == run["launches"].source IN
  /\ run["launches"].pc = "ask"
  /\ \E S \in SUBSET Launch \ {{}} : \E at \in [S -> 0 .. MaxTime + 1] :
       run' = [run EXCEPT !["launches"].pc = "replace",
                          !["launches"].offer =
                             {IF k = 1 THEN SpaceDevs(l, at[l]) ELSE RocketLaunch(l, at[l]) :
                                l \in S}]
  /\ UNCHANGED <<providers, now, runs, tables, health, active, sent, faults, history>>

\* The upsert refreshes what it knows and the deletion only looks at the
\* rows of the source that answered.
Replaced_SlipSource(offer) ==
  offer \cup {r \in launch : /\ \A s \in offer : r.id # s.id
                             /\ \/ r.window < now
                                \/ \A s \in offer : r.source # s.source}

\* The upsert, then the deletion of every other launch that is still to come.
Replaced(offer) ==
  offer \cup {r \in launch : /\ \A s \in offer : r.id # s.id
                             /\ r.window < now}

Replace ==
  LET offer == run["launches"].offer IN
  /\ run["launches"].pc = "replace"
  /\ launch' = Replaced(offer)
  /\ offered' = offer
  /\ commits' = [commits EXCEPT !["launches"] = @ + 1]
  /\ Goto("launches", "praise")
  /\ UNCHANGED <<providers, now, runs, rows, filled, health, active, sent, faults, tried>>

\* The request fails, the reply has no usable record, or the transaction fails
\* and is rolled back.
SourceFails ==
  /\ run["launches"].pc \in {"ask", "replace"}
  /\ Goto("launches", "blame")
  /\ tried' = [tried EXCEPT !.failed = @ \cup {run["launches"].source}]
  /\ UNCHANGED <<providers, now, runs, tables, health, active, sent, faults, commits, offered>>

\* The same source again.
NextSources_SlipSame(k) == {k}

\* The sources that are left after source k.
NextSources(k) == {l \in Sources : l > k}

\* Best effort, as everywhere.
TellHealth(k, status) ==
  \/ health' = [health EXCEPT ![k] = status] /\ faults' = faults
  \/ Fault /\ health' = health

\* The failure is not reported.
Blame_SlipHealth ==
  LET k == run["launches"].source IN
  /\ run["launches"].pc = "blame"
  /\ IF NextSources(k) # {}
       THEN run' = [run EXCEPT !["launches"] =
                      [Idle EXCEPT !.pc = "ask", !.source = Least(NextSources(k))]]
       ELSE End("launches")
  /\ UNCHANGED <<providers, now, runs, tables, health, active, sent, faults, history>>

\* The next source, or the exception that names them all.
Blame ==
  LET k == run["launches"].source IN
  /\ run["launches"].pc = "blame"
  /\ TellHealth(k, "error")
  /\ IF NextSources(k) # {}
       THEN run' = [run EXCEPT !["launches"] =
                      [Idle EXCEPT !.pc = "ask", !.source = Least(NextSources(k))]]
       ELSE End("launches")
  /\ UNCHANGED <<providers, now, runs, tables, active, sent, history>>

Praise ==
  LET k == run["launches"].source IN
  /\ run["launches"].pc = "praise"
  /\ TellHealth(k, "active")
  /\ run' = [run EXCEPT !["launches"] = [Idle EXCEPT !.pc = "announce"]]
  /\ tried' = [tried EXCEPT !.used = k]
  /\ UNCHANGED <<providers, now, runs, tables, active, sent, commits, offered>>

-----------------------------------------------------------------------------
(* The environment.                                                        *)

\* A statement or the commit raises: everything is rolled back.
DatabaseFails(j) ==
  /\ run[j].pc = "write"
  /\ Fault
  /\ End(j)
  /\ UNCHANGED <<providers, now, runs, tables, health, active, sent, history>>

\* The scheduler stops and starts again.
Crash ==
  /\ \E j \in Job : run[j].pc # "idle"
  /\ Fault
  /\ run' = [j \in Job |-> Idle]
  /\ UNCHANGED <<providers, now, runs, tables, health, active, sent, history>>

\* An owner disables or enables a webhook.
Toggle(h) ==
  /\ active' = IF h \in active THEN active \ {h} ELSE active \cup {h}
  /\ UNCHANGED <<providers, now, run, runs, tables, health, sent, faults, history>>

\* Only the launches look at the clock.
Tick ==
  /\ Sources # {}
  /\ now < MaxTime
  /\ now' = now + 1
  /\ UNCHANGED <<providers, run, runs, tables, health, active, sent, faults, history>>

LaunchStep == Answers \/ Replace \/ SourceFails \/ Blame \/ Praise
RunStep(j) == Upsert(j) \/ Deadlock(j) \/ Commit(j) \/ Announce(j) \/ Publish(j)

Next == \/ \E j \in Job : Fetch(j) \/ RunStep(j) \/ PublishFails(j) \/ DatabaseFails(j)
        \/ BeginLaunches \/ LaunchStep
        \/ Crash \/ Tick
        \/ \E h \in Hook : Toggle(h)

Spec == Init /\ [][Next]_vars

\* The event loop goes on; requests, statements and publications end, the
\* blocked ones because PostgreSQL resolves deadlocks.
Fairness == WF_vars(LaunchStep) /\ \A j \in Job : WF_vars(RunStep(j))

FairSpec == Spec /\ Fairness

-----------------------------------------------------------------------------
(* Properties.                                                             *)

\* No transaction ever needs a parent that neither it nor anybody before has
\* written: the foreign keys of orbital_elements and close_approaches never
\* make a run fail (the order of the statements).
ParentsComeFirst ==
  \A j \in Job : Writing(j) => Head(run[j].todo).parent \subseteq rows \cup Held(j)

\* What SATCAT knows of a satellite survives CelesTrak's upserts of the same
\* row, in every order of the two transactions (the columns each one sets).
CatalogKept ==
  [][\A n \in Sat : "catalog" \in filled[<<"satellite", n>>]
                      => "catalog" \in filled'[<<"satellite", n>>]]_vars

\* The launches still to come are those of one answer, the one committed last,
\* with its windows: a launch that slipped, was withdrawn or is known to the
\* other source under its own id leaves nothing behind
\* (_replace_upcoming_launches).
Upcoming(S) == {r \in S : r.window >= now}
UpcomingIsLastAnswer == Upcoming(launch) = Upcoming(offered)

\* A webhook hears of a change once at most, and only after it was committed:
\* whatever failed, deadlocked or crashed (_publish_event after commit).
EventsFollowCommits == \A j \in Job, h \in Hook : sent[j][h] <= commits[j]

\* Between two launch runs the health rows tell what the last one found: an
\* error for each source that failed, active for the one that answered, and
\* when none answered every configured source has failed (_ingest_launches).
LaunchHealthTold ==
  faults = 0 /\ run["launches"].pc = "idle" =>
    /\ \A k \in tried.failed : health[k] = "error"
    /\ tried.used # 0 => health[tried.used] = "active"
    /\ tried.used = 0 /\ runs["launches"] > 0 => tried.failed = Sources

\* Every run ends, although two of them may wait for each other's rows.
RunsEnd == \A j \in Job : run[j].pc # "idle" ~> run[j].pc = "idle"
=============================================================================

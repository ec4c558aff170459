----------------------------- MODULE Historian -----------------------------
(***************************************************************************)
(* One reading in the historian: from the process that took it into its    *)
(* bucket, down the chain of continuous queries, until it is too old; and  *)
(* which questions of the API find it (storage/influxdb_v1.go, mapping.go, *)
(* api/admin.go).                                                          *)
(*                                                                         *)
(* Readings do not influence each other here, so that one is enough.  What *)
(* the database does of itself, running continuous queries and removing    *)
(* old points, is modelled from how the storage uses it: the windows of a  *)
(* reading close one after the other, the narrower one first, each before  *)
(* the reading is older than the window is wide; and a point may stay for  *)
(* a while after its bucket stopped keeping it.  A set-up is one step here *)
(* and none of its requests fails; StorageSetup has its steps.             *)
(***************************************************************************)
EXTENDS Retention, Sequences

CONSTANTS
    Measurements,  \* kinds of reading
    HighFrequency, \* those IsHighFrequencyData tells
    Sampled,       \* electricity_meter_energy_sampled
    Questions,     \* the arguments of GetDataPoints and GetEnergyDataPoints that are tried
    Database,      \* ProcessConfig.InfluxDB, the name of the database
    Ages,          \* the ages the clock stops at
    MaxDelay,      \* how long a reading may wait in the process
    Durations,     \* what an administrator may set a retention to
    MaxCommands,   \* bounds the commands of the administrator
    None           \* no reading, or no promise

ASSUME MeasurementsAssumption ==
    /\ HighFrequency \subseteq Measurements
    /\ Sampled \in HighFrequency
    /\ None \notin Measurements \cup Profiles
ASSUME NumbersAssumption ==
    /\ Ages \subseteq Nat /\ Durations \subseteq Nat \ {0}
    /\ MaxDelay \in Nat /\ MaxCommands \in Nat
ASSUME QuestionsAssumption ==
    Questions \subseteq
        [measurement : Measurements,
         since : Nat,               \* now - from_time, when there are from and to; else 0
         relativeTime : [n : Nat, unit : {"m", "h", "d", "w", ""}],
         groupByTime : [n : Nat, unit : {"m", "h", "d", "w", ""}],
         groupByTag : BOOLEAN,      \* there is a tag to group by
         dataFunction : {"", "mean", "last"},
         listed : BOOLEAN]          \* devices, locations or device types are listed

VARIABLES
    profile,     \* ProcessConfig.Profile
    policies,    \* how long each bucket of the database keeps points, 0 without one
    continuous,  \* the continuous queries of the database
    measurement, \* what was read
    phase,       \* where the reading is: "none", "waiting", "saved" or "lost"
    age,         \* minutes since it was taken
    closed,      \* how many windows of the chain have closed behind it
    held,        \* the buckets it is in, each with the "mean_" before its field
    commands     \* commands there have been, for the bound

(***************************************************************************)
(* History: the profile the reading was taken and saved under, in time and *)
(* with everything set up, and None when that was not so or a command has  *)
(* taken away what that profile provides.  A change of the profile does    *)
(* not.                                                                    *)
(***************************************************************************)
VARIABLE under

dbVars      == <<profile, policies, continuous>>
readingVars == <<measurement, phase, age, closed>>
vars        == <<dbVars, readingVars, held, commands, under>>

-----------------------------------------------------------------------------
(* Writing *)

\* Mutated form of ResolveWriteRetentionPolicyName: sampled energy is like any other.
ResolveWriteRetentionPolicyNameRaw(m, p) ==
    IF m \in HighFrequency THEN "gen_raw" ELSE "gen_default"

\* The bucket Process.Write puts a measurement into.
ResolveWriteRetentionPolicyName(m, p) ==
    CASE m = Sampled /\ p = "optimized" -> "gen_year"
      [] ~(m = Sampled /\ p = "optimized") /\ m \in HighFrequency -> "gen_raw"
      [] OTHER -> "gen_default"

\* Everything is there that the set-up of a profile makes.
IsSetUp(p, keep, queries) ==
    /\ \A b \in Buckets : keep[b] >= BucketDuration(p, b)
    /\ p = "optimized" => queries = ContinuousQueries

\* Mutated form of Completed: a bucket that is there gets the duration the profile wants.
CompletedAltered(p, keep) ==
    [b \in Buckets |-> IF BucketDuration(p, b) # 0 THEN BucketDuration(p, b) ELSE keep[b]]

\* CREATE RETENTION POLICY leaves a bucket alone that is there already.
Completed(p, keep) ==
    [b \in Buckets |-> IF keep[b] # 0 THEN keep[b] ELSE BucketDuration(p, b)]

\* InitDefaultBuckets returns with its first error, the one for a gen_year of
\* another duration; InitSimpleBuckets goes on.
SetupFails(p, keep) == p = "optimized" /\ keep["gen_year"] \notin {0, 240 * Week}

\* Init of a process with the profile p, whose database has the policies keep.
SetUp(p, keep) ==
    /\ profile' = p
    /\ policies' = IF SetupFails(p, keep) THEN keep ELSE Completed(p, keep)
    /\ continuous' = IF p = "optimized" /\ ~SetupFails(p, keep)
                     THEN ContinuousQueries ELSE continuous

Init ==
    /\ profile \in Profiles
    /\ policies = Completed(profile, [b \in Buckets |-> 0])
    /\ continuous = IF profile = "optimized" THEN ContinuousQueries ELSE {}
    /\ measurement = None
    /\ phase = "none"
    /\ age = 0
    /\ closed = 0
    /\ held = {}
    /\ commands = 0
    /\ under = None

Take(m) ==
    /\ phase = "none"
    /\ measurement' = m
    /\ phase' = "waiting"
    /\ under' = IF IsSetUp(profile, policies, continuous) THEN profile ELSE None
    /\ UNCHANGED <<dbVars, age, closed, held, commands>>

\* writeIntoDb.  "retention policy not found" drops the batch; a reading that comes
\* when a window has closed is in no mean of that window.
Save ==
    /\ phase = "waiting"
    /\ LET b == ResolveWriteRetentionPolicyName(measurement, profile)
       IN  /\ phase' = IF policies[b] = 0 THEN "lost" ELSE "saved"
           /\ held' = IF policies[b] = 0 THEN held ELSE {<<b, 0>>}
           /\ under' = IF closed = 0 \/ b # "gen_raw" THEN under ELSE None
    /\ UNCHANGED <<dbVars, measurement, age, closed, commands>>

\* The batch is dropped after its last attempt, or lost with the process.
Drop ==
    /\ phase = "waiting"
    /\ phase' = "lost"
    /\ UNCHANGED <<dbVars, measurement, age, closed, held, commands, under>>

-----------------------------------------------------------------------------
(* The database *)

\* SELECT mean(*) INTO the target: every field gets another "mean_".
Sampling(q) == {<<Target(q), h[2] + 1>> : h \in {h \in held : h[1] = Source(q)}}

\* The next window closes, and its continuous query takes the mean of what has come.
CloseWindow ==
    /\ phase \in {"waiting", "saved"}
    /\ closed < Len(Chain)
    /\ LET q == Chain[closed + 1]
       IN  /\ age <= Width(q)
           /\ held' = IF q \in continuous /\ policies[Target(q)] # 0
                      THEN held \cup Sampling(q) ELSE held
    /\ closed' = closed + 1
    /\ UNCHANGED <<dbVars, measurement, phase, age, commands, under>>

\* Time passes, but no window stays open for longer than it is wide.
Tick(t) ==
    /\ phase \in {"waiting", "saved"}
    /\ age < t
    /\ phase = "waiting" => t <= MaxDelay
    /\ \A i \in DOMAIN Chain : t > Width(Chain[i]) => i <= closed
    /\ age' = t
    /\ UNCHANGED <<dbVars, measurement, phase, closed, held, commands, under>>

\* The shard with the point is removed.
Expire(b) ==
    /\ policies[b] # 0 /\ age > policies[b]
    /\ held' = {h \in held : h[1] # b}
    /\ UNCHANGED <<dbVars, readingVars, commands, under>>

-----------------------------------------------------------------------------
(* The administrator.  A restart makes new batches: what waits is lost. *)

Command ==
    /\ commands < MaxCommands
    /\ commands' = commands + 1

Restarts == phase' = IF phase = "waiting" THEN "lost" ELSE phase

\* cmd.ecprocess.update_config: the process is restarted with the profile p.
UpdateConfig(p) ==
    /\ Command
    /\ SetUp(p, policies)
    /\ Restarts
    /\ UNCHANGED <<measurement, age, closed, held, under>>

\* cmd.tsdb.delete_object: Stop, delete and Start.
DeleteRetentionPolicy(b) ==
    /\ Command
    /\ SetUp(profile, [policies EXCEPT ![b] = 0])
    /\ Restarts
    /\ held' = {h \in held : h[1] # b}
    /\ under' = None
    /\ UNCHANGED <<measurement, age, closed>>

DropDB ==
    /\ Command
    /\ profile' = profile
    /\ policies' = Completed(profile, [b \in Buckets |-> 0])
    /\ continuous' = IF profile = "optimized" THEN ContinuousQueries ELSE {}
    /\ Restarts
    /\ held' = {}
    /\ under' = None
    /\ UNCHANGED <<measurement, age, closed>>

\* The other objects are deleted without a restart.
DeleteCQ(q) ==
    /\ Command
    /\ continuous' = continuous \ {q}
    /\ under' = IF closed = Len(Chain) THEN under ELSE None
    /\ UNCHANGED <<profile, policies, readingVars, held>>

DeleteMeasurement(m) ==
    /\ Command
    /\ held' = IF m = measurement THEN {} ELSE held
    /\ under' = IF m = measurement THEN None ELSE under
    /\ UNCHANGED <<dbVars, readingVars>>

\* ALTER RETENTION POLICY, of a bucket there is.
UpdateRetentionPolicy(b, d) ==
    /\ Command
    /\ policies[b] # 0
    /\ policies' = [policies EXCEPT ![b] = d]
    /\ under' = IF d >= BucketDuration(under, b) THEN under ELSE None
    /\ UNCHANGED <<profile, continuous, readingVars, held>>

\* CREATE RETENTION POLICY; an error when it is there.
AddRetentionPolicy(b, d) ==
    /\ Command
    /\ policies[b] = 0
    /\ policies' = [policies EXCEPT ![b] = d]
    /\ UNCHANGED <<profile, continuous, readingVars, held, under>>

-----------------------------------------------------------------------------
Commands ==
    \/ DropDB
    \/ \E p \in Profiles : UpdateConfig(p)
    \/ \E b \in Buckets : DeleteRetentionPolicy(b)
    \/ \E q \in ContinuousQueries : DeleteCQ(q)
    \/ \E m \in Measurements : DeleteMeasurement(m)
    \/ \E b \in Buckets, d \in Durations : UpdateRetentionPolicy(b, d) \/ AddRetentionPolicy(b, d)

Next ==
    \/ \E m \in Measurements : Take(m)
    \/ Save
    \/ Drop
    \/ CloseWindow
    \/ \E t \in Ages : Tick(t)
    \/ \E b \in Buckets : Expire(b)
    \/ Commands

Spec == Init /\ [][Next]_vars

-----------------------------------------------------------------------------
(* Questions *)

\* The function GetDataPoints aggregates with.
DataFunction(q) ==
    IF q.dataFunction = "" /\ (q.groupByTag \/ q.groupByTime # NoTime)
    THEN "mean" ELSE q.dataFunction

\* How far back a question goes.
Reach(q) ==
    IF q.since # 0 THEN q.since ELSE ResolveDurationFromRelativeTime(q.relativeTime)

\* A group at least as wide as the points of the bucket chooses another bucket.
GroupDecides(q) ==
    /\ DataFunction(q) = "mean"
    /\ ResolveDurationFromRelativeTime(q.groupByTime) >=
         GetRetentionTimeGroupDuration(
             ResolveRetentionByElapsedTimeDuration(Reach(q), profile), profile)

\* The bucket GetDataPoints asks.
Policy(q) ==
    CASE q.measurement \notin HighFrequency -> "gen_default"
      [] q.measurement \in HighFrequency /\ q.since = 0 /\ GroupDecides(q) ->
           ResolveRetentionByTimeGroup(q.groupByTime, profile)
      [] OTHER -> ResolveRetentionByElapsedTimeDuration(Reach(q), profile)

\* The points GetDataPoints may return hold the reading.  A list of devices, locations
\* or types is ranged over by index, and no tag equals an index.
Finds(q) ==
    /\ q.measurement = measurement
    /\ ~q.listed
    /\ <<Policy(q), ResolveFieldFullName(Policy(q))>> \in held

\* How wide the points of the bucket are that is asked.
Blur(q) ==
    IF \E c \in ContinuousQueries : Target(c) = Policy(q)
    THEN Width(CHOOSE c \in ContinuousQueries : Target(c) = Policy(q))
    ELSE 0

\* The time condition of both queries.
InRange(q) ==
    IF q.since # 0 THEN age <= q.since
    ELSE age < ResolveDurationFromRelativeTime(q.relativeTime)

\* Mutated form of EnergyFinds: the bucket is the one the process writes to now.
EnergyFindsWhereWritten(q) ==
    /\ measurement = Sampled
    /\ Database = "historian"
    /\ q.groupByTag
    /\ InRange(q)
    /\ <<ResolveWriteRetentionPolicyName(Sampled, profile), 0>> \in held

\* GetEnergyDataPoints, which takes neither a measurement nor a function and does not look
\* at the lists: the sum of the sampled energy in gen_year under its own name, whatever the
\* profile.  The name of the database is part of the query, whatever the process writes
\* to; without a tag to group by the query ends in a comma and is refused.
EnergyFinds(q) ==
    /\ measurement = Sampled
    /\ Database = "historian"
    /\ q.groupByTag
    /\ InRange(q)
    /\ <<"gen_year", 0>> \in held

-----------------------------------------------------------------------------
(* Properties *)

Phases == {"none", "waiting", "saved", "lost"}

\* Every variable has its type; the reading is in a bucket under one name.
TypeOK ==
    /\ profile \in Profiles
    /\ policies \in [Buckets -> Nat]
    /\ continuous \subseteq ContinuousQueries
    /\ measurement \in Measurements \cup {None}
    /\ phase \in Phases
    /\ age \in Nat
    /\ closed \in 0 .. Len(Chain)
    /\ held \subseteq Buckets \X Nat
    /\ commands \in Nat
    /\ under \in Profiles \cup {None}
    /\ \A g, h \in held : g[1] = h[1] => g = h

\* How long a profile promises that a reading can be found at all.
Promised(p) ==
    IF measurement \in HighFrequency THEN 240 * Week ELSE BucketDuration(p, "gen_default")

\* A reading lies within the reach of a question, and not so close to either end that
\* the mean it is part of may lie outside.
IsAskedFor(q) ==
    /\ q.measurement = measurement /\ ~q.listed
    /\ Blur(q) < age /\ age + Blur(q) <= Reach(q)
    /\ age <= Promised(profile)

\* While the profile is the one it was saved under, or that one again, a reading that was
\* saved in time, with everything set up, is found by every question that reaches back to
\* it, whatever range, grouping and function are asked for: the thresholds of the query
\* side, the durations of the buckets, the chain of continuous queries and the names of
\* the fields fit together, and restarts, changes of the profile in between, other
\* readings' deletions and longer retentions do not hurt.  Sampled energy has a question
\* of its own under the optimized profile (mapping.go:29-103, influxdb_v1.go:45-85, 97-139).
ReadingsAreFound ==
    under = profile /\ phase = "saved" /\ (measurement = Sampled => profile # "optimized") =>
        \A q \in Questions : IsAskedFor(q) => Finds(q)

\* Through any changes of the profile a reading stays in the database for as long as the
\* profile it was saved under promised.  It may not be found there: the buckets are those
\* of two profiles then, a set-up neither shortens nor removes any, and the continuous
\* queries of the optimized profile go on (process.go:80-97, influxdb_v1.go:45-85).
ReadingsAreKept ==
    under # None /\ phase = "saved" /\ age <= Promised(under) => held # {}

\* What the optimized profile has sampled of the energy is found by every energy question
\* with a tag to group by that reaches back to it, for as long as gen_year keeps it and
\* whatever profile the process has been given since, provided that the database has the
\* name that is written in the query (influxdb_v1.go:203-236, mapping.go:145-149).
EnergyIsFound ==
    Database = "historian" /\ measurement = Sampled
      /\ under = "optimized" /\ phase = "saved" /\ age <= 240 * Week =>
        \A q \in Questions : q.groupByTag /\ InRange(q) => EnergyFinds(q)
=============================================================================

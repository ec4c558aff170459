-------------------------- MODULE HistorianProofs --------------------------
(***************************************************************************)
(* What Historian guarantees for any measurements, questions, ages, delay  *)
(* and commands: the invariant IInv is inductive and implies the           *)
(* properties the runs check.                                              *)
(***************************************************************************)
EXTENDS Historian, TLAPS

\* The names of the fields follow the buckets, or the reading was sampled energy.
NamesFollow ==
    \/ \A h \in held : h[2] = ResolveFieldFullName(h[1])
    \/ held \subseteq {<<"gen_year", 0>>}

\* A window that is still open is wider than the reading is old.
WindowsClose == \A i \in 1 .. 4 : age > Width(Chain[i]) => i <= closed

\* A reading waits under the profile it was taken under.
WaitsUnder == phase = "waiting" => under \in {profile, None}

\* What the promise of a profile needs is set up, whatever the profile is now.
StaysSetUp ==
    under # None =>
        /\ \A b \in Buckets : policies[b] >= BucketDuration(under, b)
        /\ under = "optimized" /\ closed < 4 => continuous = ContinuousQueries

\* A promised reading is in the bucket it was written to ...
IsInItsBucket ==
    under # None /\ phase = "saved" =>
        LET b == ResolveWriteRetentionPolicyName(measurement, under)
        IN  age <= BucketDuration(under, b) => <<b, 0>> \in held

\* ... and in every bucket of means whose window has closed.
IsInTheChain ==
    under = "optimized" /\ phase = "saved"
         /\ ResolveWriteRetentionPolicyName(measurement, under) = "gen_raw" =>
        \A i \in 1 .. 4 :
            i <= closed /\ age <= BucketDuration(under, Target(Chain[i]))
                => <<Target(Chain[i]), i>> \in held

\* The types alone.
Types ==
    /\ profile \in Profiles
    /\ policies \in [Buckets -> Nat]
    /\ continuous \subseteq ContinuousQueries
    /\ measurement \in Measurements \cup {None}
    /\ phase \in Phases
    /\ age \in Nat
    /\ closed \in 0 .. 4
    /\ held \subseteq Buckets \X Nat
    /\ commands \in Nat
    /\ under \in Profiles \cup {None}

IInv ==
    /\ Types
    /\ NamesFollow
    /\ WindowsClose
    /\ WaitsUnder
    /\ StaysSetUp
    /\ IsInItsBucket
    /\ IsInTheChain
    /\ phase # "none" => measurement \in Measurements

-----------------------------------------------------------------------------
(* The tables *)

LEMMA ChainFacts ==
    /\ Len(Chain) = 4 /\ DOMAIN Chain = 1 .. 4
    /\ Chain[1] = "raw_to_day" /\ Chain[2] = "day_to_week"
    /\ Chain[3] = "week_to_month" /\ Chain[4] = "month_to_year"
BY DEF Chain

LEMMA NoneIsNoProfile == None \notin Profiles /\ \A p \in Profiles : p # None
BY MeasurementsAssumption

LEMMA OptimizedIsProfile == "optimized" \in Profiles /\ None # "optimized"
BY NoneIsNoProfile DEF Profiles

\* The i-th continuous query fills the bucket whose fields have i "mean_", from the
\* bucket the one before it fills, and both buckets outlast its window.
LEMMA Links ==
    ASSUME NEW i \in 1 .. 4
    PROVE  /\ Chain[i] \in ContinuousQueries
           /\ Target(Chain[i]) \in Buckets \ {"gen_raw", "gen_default"}
           /\ Source(Chain[i]) \in Buckets \ {"gen_year", "gen_default"}
           /\ Width(Chain[i]) \in Nat
           /\ ResolveFieldFullName(Target(Chain[i])) = i
           /\ ResolveFieldFullName(Source(Chain[i])) = i - 1
           /\ IF i = 1 THEN Source(Chain[i]) = "gen_raw"
                       ELSE Source(Chain[i]) = Target(Chain[i - 1])
           /\ Width(Chain[i]) < BucketDuration("optimized", Source(Chain[i]))
           /\ Width(Chain[i]) < BucketDuration("optimized", Target(Chain[i]))
<1>1. CASE i = 1
  BY <1>1, ChainFacts DEF Target, Source, Width, ContinuousQueries, Buckets,
     ResolveFieldFullName, BucketDuration, Hour, Day, Week
<1>2. CASE i = 2
  BY <1>2, ChainFacts DEF Target, Source, Width, ContinuousQueries, Buckets,
     ResolveFieldFullName, BucketDuration, Hour, Day, Week
<1>3. CASE i = 3
  BY <1>3, ChainFacts DEF Target, Source, Width, ContinuousQueries, Buckets,
     ResolveFieldFullName, BucketDuration, Hour, Day, Week
<1>4. CASE i = 4
  BY <1>4, ChainFacts DEF Target, Source, Width, ContinuousQueries, Buckets,
     ResolveFieldFullName, BucketDuration, Hour, Day, Week
<1> QED BY <1>1, <1>2, <1>3, <1>4

LEMMA DurationType ==
    ASSUME NEW p, NEW b
    PROVE  BucketDuration(p, b) \in Nat
BY DEF BucketDuration, Hour, Day, Week

LEMMA WriteType ==
    ASSUME NEW m, NEW p
    PROVE  ResolveWriteRetentionPolicyName(m, p) \in {"gen_raw", "gen_year", "gen_default"}
BY DEF ResolveWriteRetentionPolicyName

\* A set-up takes no bucket away, and makes those the profile wants.
LEMMA CompletedFacts ==
    ASSUME NEW p, NEW keep \in [Buckets -> Nat]
    PROVE  /\ Completed(p, keep) \in [Buckets -> Nat]
           /\ \A b \in Buckets : keep[b] # 0 => Completed(p, keep)[b] = keep[b]
           /\ \A b \in Buckets : keep[b] = 0 => Completed(p, keep)[b] = BucketDuration(p, b)
BY DurationType DEF Completed

LEMMA SetUpFacts ==
    ASSUME NEW p \in Profiles, NEW keep \in [Buckets -> Nat],
           continuous \subseteq ContinuousQueries,
           SetUp(p, keep)
    PROVE  /\ profile' = p
           /\ policies' \in [Buckets -> Nat]
           /\ continuous' \subseteq ContinuousQueries
           /\ \A b \in Buckets : policies'[b] >= keep[b]
           /\ continuous' \in {continuous, ContinuousQueries}
<1>1. CASE SetupFails(p, keep)
  BY <1>1 DEF SetUp
<1>2. CASE ~SetupFails(p, keep)
  <2>1. policies' = Completed(p, keep)
    BY <1>2 DEF SetUp
  <2>2. \A b \in Buckets : policies'[b] >= keep[b]
    <3> SUFFICES ASSUME NEW b \in Buckets PROVE policies'[b] >= keep[b]
      OBVIOUS
    <3>1. BucketDuration(p, b) \in Nat /\ keep[b] \in Nat
      BY DurationType
    <3> QED BY <2>1, <3>1, CompletedFacts
  <2> QED BY <1>2, <2>1, <2>2, CompletedFacts DEF SetUp
<1> QED BY <1>1, <1>2

-----------------------------------------------------------------------------
(* The invariant *)

LEMMA InitIInv == Init => IInv
<1> SUFFICES ASSUME Init PROVE IInv
  OBVIOUS
<1> DEFINE keep == [b \in Buckets |-> 0]
<1>1. keep \in [Buckets -> Nat]
  OBVIOUS
<1>2. policies = Completed(profile, keep)
  BY DEF Init
<1> HIDE DEF keep
<1>3. policies \in [Buckets -> Nat]
  BY <1>1, <1>2, CompletedFacts
<1>4. /\ profile \in Profiles /\ measurement = None /\ phase = "none" /\ age = 0
      /\ closed = 0 /\ held = {} /\ commands = 0 /\ under = None
  BY DEF Init
<1>5. continuous \subseteq ContinuousQueries
  BY DEF Init
<1>6. Types
  <2>1. under \in Profiles \cup {None}
    BY <1>4
  <2>2. held \subseteq Buckets \X Nat
    BY <1>4
  <2>3. age \in Nat /\ commands \in Nat /\ closed \in 0 .. 4
    BY <1>4
  <2>4. phase \in Phases /\ measurement \in Measurements \cup {None}
    BY <1>4 DEF Phases
  <2> QED BY <1>3, <1>4, <1>5, <2>1, <2>2, <2>3, <2>4, Zenon DEF Types
<1>7. WindowsClose
  BY <1>4, Links DEF WindowsClose
<1>8. NamesFollow /\ StaysSetUp /\ IsInItsBucket /\ IsInTheChain
  BY <1>4 DEF NamesFollow, StaysSetUp, IsInItsBucket, IsInTheChain
<1> QED BY <1>4, <1>6, <1>7, <1>8 DEF IInv, WaitsUnder

LEMMA TakeIInv == ASSUME IInv, NEW m \in Measurements, Take(m) PROVE IInv'
<1> USE DEF Take, dbVars
<1>1. Types' /\ NamesFollow' /\ WindowsClose'
  BY DEF IInv, Types, Phases, NamesFollow, WindowsClose, IsSetUp
<1>2. under' \in {profile, None} /\ (under' # None => IsSetUp(profile, policies, continuous))
  OBVIOUS
<1>3. StaysSetUp'
  BY <1>2 DEF IInv, StaysSetUp, IsSetUp
<1> QED BY <1>1, <1>2, <1>3 DEF IInv, IsInItsBucket, IsInTheChain, WaitsUnder

LEMMA SaveIInv == ASSUME IInv, Save PROVE IInv'
<1> DEFINE b == ResolveWriteRetentionPolicyName(measurement, profile)
<1>1. b \in {"gen_raw", "gen_year", "gen_default"}
  BY WriteType
<1> HIDE DEF b
<1>2. /\ phase = "waiting" /\ phase' \in {"lost", "saved"}
      /\ phase' = "saved" => held' = {<<b, 0>>}
      /\ held' = held \/ held' = {<<b, 0>>}
      /\ under' # None => under' = under /\ (closed = 0 \/ b # "gen_raw")
      /\ under' \in {under, None}
      /\ UNCHANGED <<profile, policies, continuous, measurement, age, closed, commands>>
  BY DEF Save, dbVars, b, IInv, Types
<1>3. Types'
  BY <1>1, <1>2 DEF IInv, Types, Phases, Buckets
<1>4. NamesFollow'
  <2>1. CASE held' = held
    BY <2>1 DEF IInv, NamesFollow
  <2>2. CASE held' = {<<b, 0>>} /\ b = "gen_year"
    BY <2>2 DEF NamesFollow
  <2>3. CASE held' = {<<b, 0>>} /\ b # "gen_year"
    BY <1>1, <2>3 DEF NamesFollow, ResolveFieldFullName
  <2> QED BY <1>2, <2>1, <2>2, <2>3
<1>5. WindowsClose' /\ StaysSetUp' /\ WaitsUnder'
  BY <1>2 DEF IInv, WindowsClose, StaysSetUp, WaitsUnder
<1>6. under' # None => ResolveWriteRetentionPolicyName(measurement, under)' = b
  <2> SUFFICES ASSUME under' # None
               PROVE  ResolveWriteRetentionPolicyName(measurement, under)' = b
    OBVIOUS
  <2>1. under' = profile /\ measurement' = measurement
    BY <1>2 DEF IInv, WaitsUnder
  <2> QED BY <2>1 DEF b, ResolveWriteRetentionPolicyName
<1>7. IsInItsBucket'
  BY <1>2, <1>6 DEF IsInItsBucket
<1>8. IsInTheChain'
  <2> SUFFICES ASSUME under' = "optimized", phase' = "saved", b = "gen_raw"
               PROVE  closed' = 0
    BY <1>2, <1>6, OptimizedIsProfile DEF IsInTheChain
  <2> QED BY <1>2, OptimizedIsProfile
<1> QED BY <1>2, <1>3, <1>4, <1>5, <1>7, <1>8 DEF IInv

LEMMA CloseWindowIInv == ASSUME IInv, CloseWindow PROVE IInv'
<1> DEFINE i == closed + 1
           q == Chain[i]
<1>1. i \in 1 .. 4
  BY ChainFacts DEF CloseWindow, IInv, Types
<1>2. /\ q \in ContinuousQueries
      /\ Target(q) \in Buckets \ {"gen_raw", "gen_default"}
      /\ Source(q) \in Buckets \ {"gen_year", "gen_default"}
      /\ Width(q) \in Nat
      /\ ResolveFieldFullName(Target(q)) = i
      /\ ResolveFieldFullName(Source(q)) = i - 1
      /\ IF i = 1 THEN Source(q) = "gen_raw" ELSE Source(q) = Target(Chain[i - 1])
      /\ Width(q) < BucketDuration("optimized", Source(q))
      /\ Width(q) < BucketDuration("optimized", Target(q))
  BY <1>1, Links
<1>3. /\ age <= Width(q) /\ closed' = i
      /\ held' = IF q \in continuous /\ policies[Target(q)] # 0
                 THEN held \cup Sampling(q) ELSE held
      /\ UNCHANGED <<profile, policies, continuous, measurement, phase, age, commands, under>>
  BY DEF CloseWindow, dbVars
<1> HIDE DEF i, q
<1>4. Sampling(q) \subseteq Buckets \X Nat
  BY <1>2 DEF Sampling, IInv, Types
<1>5. Types'
  BY <1>1, <1>3, <1>4 DEF IInv, Types
<1>6. NamesFollow'
  <2>1. CASE \A h \in held : h[2] = ResolveFieldFullName(h[1])
    <3>1. \A h \in Sampling(q) : h[2] = ResolveFieldFullName(h[1])
      BY <1>1, <1>2, <2>1 DEF Sampling
    <3> QED BY <1>3, <2>1, <3>1 DEF NamesFollow
  <2>2. CASE held \subseteq {<<"gen_year", 0>>}
    <3>1. Sampling(q) = {}
      BY <1>2, <2>2 DEF Sampling
    <3> QED BY <1>3, <2>2, <3>1 DEF NamesFollow
  <2> QED BY <2>1, <2>2 DEF IInv, NamesFollow
<1>7. WindowsClose'
  BY <1>1, <1>3 DEF IInv, WindowsClose, i, Types
<1>8. StaysSetUp' /\ WaitsUnder'
  BY <1>1, <1>3 DEF IInv, StaysSetUp, WaitsUnder, i, Types
<1>9. held \subseteq held'
  BY <1>3
<1>10. IsInItsBucket'
  <2> DEFINE b == ResolveWriteRetentionPolicyName(measurement, under)
  <2>1. b' = b /\ BucketDuration(under, b)' = BucketDuration(under, b)
    BY <1>3 DEF ResolveWriteRetentionPolicyName, BucketDuration
  <2> QED BY <1>3, <1>9, <2>1 DEF IInv, IsInItsBucket
<1>11. IsInTheChain'
  <2> SUFFICES ASSUME phase = "saved", under = "optimized",
                      ResolveWriteRetentionPolicyName(measurement, under) = "gen_raw",
                      NEW j \in 1 .. 4, j <= i,
                      age <= BucketDuration(under, Target(Chain[j]))
               PROVE  <<Target(Chain[j]), j>> \in held'
    BY <1>3 DEF IsInTheChain, ResolveWriteRetentionPolicyName, BucketDuration
  <2>1. CASE j # i
    BY <1>9, <2>1 DEF IInv, IsInTheChain, i, Types
  <2>2. CASE j = i
    <3>1. age \in Nat /\ Width(q) \in Nat
      BY <1>2 DEF IInv, Types
    <3>2. age <= BucketDuration("optimized", Source(q))
      BY <1>2, <1>3, <3>1, DurationType
    <3>3. <<Source(q), i - 1>> \in held
      <4>1. CASE i = 1
        BY <1>2, <3>2, <4>1, OptimizedIsProfile DEF IInv, IsInItsBucket
      <4>2. CASE i # 1
        <5>1. i - 1 \in 1 .. 4 /\ i - 1 <= closed
          BY <1>1, <4>2 DEF i, IInv, Types
        <5> QED BY <1>2, <3>2, <4>2, <5>1 DEF IInv, IsInTheChain
      <4> QED BY <4>1, <4>2
    <3>4. q \in continuous /\ policies[Target(q)] # 0
      <4>1. closed < 4
        BY <1>1 DEF i, IInv, Types
      <4>2. policies[Target(q)] \in Nat /\ BucketDuration("optimized", Target(q)) \in Nat
        BY <1>2, DurationType DEF IInv, Types
      <4> QED BY <1>2, <4>1, <4>2, OptimizedIsProfile DEF IInv, StaysSetUp
    <3>5. <<Target(q), i>> \in Sampling(q)
      <4>1. <<Source(q), i - 1>>[1] = Source(q) /\ <<Source(q), i - 1>>[2] + 1 = i
        BY <1>1
      <4> QED BY <3>3, <4>1 DEF Sampling
    <3> QED BY <1>3, <2>2, <3>4, <3>5 DEF q
  <2> QED BY <2>1, <2>2
<1> QED BY <1>3, <1>5, <1>6, <1>7, <1>8, <1>10, <1>11 DEF IInv

LEMMA TickIInv == ASSUME IInv, NEW t \in Ages, Tick(t) PROVE IInv'
<1>1. /\ t \in Nat /\ age < t /\ age' = t /\ age \in Nat
      /\ \A i \in 1 .. 4 : t > Width(Chain[i]) => i <= closed
      /\ UNCHANGED <<profile, policies, continuous, measurement, phase, closed, held,
                     commands, under>>
  BY NumbersAssumption, ChainFacts DEF Tick, dbVars, IInv, Types
<1>2. Types' /\ NamesFollow' /\ WindowsClose' /\ StaysSetUp' /\ WaitsUnder'
  BY <1>1 DEF IInv, Types, NamesFollow, WindowsClose, StaysSetUp, WaitsUnder
<1>3. IsInItsBucket'
  <2> DEFINE b == ResolveWriteRetentionPolicyName(measurement, under)
  <2>1. b' = b /\ BucketDuration(under, b)' = BucketDuration(under, b)
    BY <1>1 DEF ResolveWriteRetentionPolicyName, BucketDuration
  <2>2. BucketDuration(under, b) \in Nat
    BY DurationType
  <2> QED BY <1>1, <2>1, <2>2 DEF IInv, IsInItsBucket
<1>4. IsInTheChain'
  <2> SUFFICES ASSUME phase = "saved", under = "optimized",
                      ResolveWriteRetentionPolicyName(measurement, under) = "gen_raw",
                      NEW i \in 1 .. 4, i <= closed,
                      t <= BucketDuration(under, Target(Chain[i]))
               PROVE  <<Target(Chain[i]), i>> \in held
    BY <1>1 DEF IsInTheChain, ResolveWriteRetentionPolicyName, BucketDuration
  <2>1. BucketDuration(under, Target(Chain[i])) \in Nat
    BY DurationType
  <2> QED BY <1>1, <2>1 DEF IInv, IsInTheChain
<1> QED BY <1>1, <1>2, <1>3, <1>4 DEF IInv

LEMMA ExpireIInv == ASSUME IInv, NEW b \in Buckets, Expire(b) PROVE IInv'
<1>1. /\ age > policies[b]
      /\ held' = {h \in held : h[1] # b}
      /\ UNCHANGED <<profile, policies, continuous, measurement, phase, age, closed,
                     commands, under>>
  BY DEF Expire, dbVars, readingVars
<1>2. Types' /\ NamesFollow' /\ WindowsClose' /\ StaysSetUp' /\ WaitsUnder'
  BY <1>1 DEF IInv, Types, NamesFollow, WindowsClose, StaysSetUp, WaitsUnder
<1>3. ASSUME under # None, NEW n, <<b, n>> \in held
      PROVE  age > BucketDuration(under, b)
  <2>1. policies[b] \in Nat /\ age \in Nat /\ policies[b] >= BucketDuration(under, b)
    BY <1>3 DEF IInv, Types, StaysSetUp
  <2> QED BY <1>1, <2>1, DurationType
<1>4. ASSUME NEW c, NEW n, under # None, <<c, n>> \in held, age <= BucketDuration(under, c)
      PROVE  <<c, n>> \in held'
  <2>1. c # b
    <3>1. age \in Nat /\ BucketDuration(under, c) \in Nat
      BY DurationType DEF IInv, Types
    <3> QED BY <1>3, <1>4, <3>1
  <2> QED BY <1>1, <1>4, <2>1
<1>5. IsInItsBucket'
  <2> DEFINE c == ResolveWriteRetentionPolicyName(measurement, under)
  <2>1. c' = c /\ BucketDuration(under, c)' = BucketDuration(under, c)
    BY <1>1 DEF ResolveWriteRetentionPolicyName, BucketDuration
  <2>2. under # None /\ phase = "saved" /\ age <= BucketDuration(under, c) => <<c, 0>> \in held
    BY DEF IInv, IsInItsBucket
  <2> HIDE DEF c
  <2>3. under # None /\ phase = "saved" /\ age <= BucketDuration(under, c) => <<c, 0>> \in held'
    BY <1>4, <2>2
  <2> QED BY <1>1, <2>1, <2>3 DEF IsInItsBucket, c
<1>6. IsInTheChain'
  <2> SUFFICES ASSUME phase = "saved", under = "optimized",
                      ResolveWriteRetentionPolicyName(measurement, under) = "gen_raw",
                      NEW i \in 1 .. 4, i <= closed,
                      age <= BucketDuration(under, Target(Chain[i]))
               PROVE  <<Target(Chain[i]), i>> \in held'
    BY <1>1 DEF IsInTheChain, ResolveWriteRetentionPolicyName, BucketDuration
  <2>1. <<Target(Chain[i]), i>> \in held
    BY DEF IInv, IsInTheChain
  <2> QED BY <1>4, <2>1, OptimizedIsProfile
<1> QED BY <1>1, <1>2, <1>5, <1>6 DEF IInv

\* A command that keeps its promise touches neither the reading nor what it needs.
LEMMA CommandIInv ==
    ASSUME IInv, Types', held' \subseteq held,
           UNCHANGED <<measurement, age, closed>>,
           phase' = phase \/ (phase = "waiting" /\ phase' = "lost"),
           phase' = "waiting" => profile' = profile,
           under' # None => under' = under /\ held' = held,
           StaysSetUp'
    PROVE  IInv'
<1>1. NamesFollow' /\ WindowsClose' /\ WaitsUnder'
  BY DEF IInv, NamesFollow, WindowsClose, WaitsUnder
<1>2. IsInItsBucket'
  <2> SUFFICES ASSUME under' # None, phase' = "saved" PROVE IsInItsBucket'
    BY DEF IsInItsBucket
  <2> DEFINE b == ResolveWriteRetentionPolicyName(measurement, under)
  <2>1. b' = b /\ BucketDuration(under, b)' = BucketDuration(under, b)
    BY DEF ResolveWriteRetentionPolicyName, BucketDuration
  <2> QED BY <2>1 DEF IInv, IsInItsBucket
<1>3. IsInTheChain'
  BY OptimizedIsProfile
     DEF IInv, IsInTheChain, ResolveWriteRetentionPolicyName, BucketDuration
<1> QED BY <1>1, <1>2, <1>3 DEF IInv

LEMMA DropIInv == ASSUME IInv, Drop PROVE IInv'
<1> USE DEF Drop, dbVars
<1>1. Types' /\ StaysSetUp'
  BY DEF IInv, Types, Phases, StaysSetUp
<1> QED BY <1>1, CommandIInv

LEMMA UpdateConfigIInv == ASSUME IInv, NEW p \in Profiles, UpdateConfig(p) PROVE IInv'
<1>1. /\ policies \in [Buckets -> Nat] /\ continuous \subseteq ContinuousQueries
      /\ SetUp(p, policies)
      /\ phase' = phase \/ (phase = "waiting" /\ phase' = "lost")
      /\ phase' # "waiting" /\ commands' = commands + 1
      /\ UNCHANGED <<measurement, age, closed, held, under>>
  BY DEF UpdateConfig, Command, Restarts, IInv, Types
<1>2. /\ profile' = p /\ policies' \in [Buckets -> Nat]
      /\ continuous' \subseteq ContinuousQueries
      /\ \A b \in Buckets : policies'[b] >= policies[b]
      /\ continuous' \in {continuous, ContinuousQueries}
  BY <1>1, SetUpFacts
<1>3. Types'
  BY <1>1, <1>2 DEF IInv, Types, Phases
<1>4. StaysSetUp'
  <2> SUFFICES ASSUME under # None
               PROVE  \A b \in Buckets : policies'[b] >= BucketDuration(under, b)
    BY <1>1, <1>2 DEF IInv, StaysSetUp
  <2>1. ASSUME NEW b \in Buckets
        PROVE  policies'[b] >= BucketDuration(under, b)
    <3>1. /\ policies'[b] \in Nat /\ policies[b] \in Nat
          /\ BucketDuration(under, b) \in Nat
          /\ policies[b] >= BucketDuration(under, b)
      BY <1>2, DurationType DEF IInv, Types, StaysSetUp
    <3> QED BY <1>2, <3>1
  <2> QED BY <2>1
<1> QED BY <1>1, <1>2, <1>3, <1>4, CommandIInv

LEMMA DeleteRetentionPolicyIInv ==
    ASSUME IInv, NEW b \in Buckets, DeleteRetentionPolicy(b) PROVE IInv'
<1> DEFINE keep == [policies EXCEPT ![b] = 0]
<1>1. /\ keep \in [Buckets -> Nat] /\ continuous \subseteq ContinuousQueries
      /\ profile \in Profiles
      /\ SetUp(profile, keep)
      /\ phase' = phase \/ (phase = "waiting" /\ phase' = "lost")
      /\ held' \subseteq held
      /\ under' = None /\ commands' = commands + 1
      /\ UNCHANGED <<measurement, age, closed>>
  BY DEF DeleteRetentionPolicy, Command, Restarts, IInv, Types
<1> HIDE DEF keep
<1>2. /\ profile' = profile /\ policies' \in [Buckets -> Nat]
      /\ continuous' \subseteq ContinuousQueries
  BY <1>1, SetUpFacts
<1>3. under' \in Profiles \cup {None}
  BY <1>1
<1>4. Types'
  BY <1>1, <1>2, <1>3 DEF IInv, Types, Phases
<1>5. StaysSetUp'
  BY <1>1, Zenon DEF StaysSetUp
<1>6. phase' = "waiting" => profile' = profile
  BY <1>2
<1> QED BY <1>1, <1>4, <1>5, <1>6, CommandIInv

LEMMA DropDBIInv == ASSUME IInv, DropDB PROVE IInv'
<1> DEFINE keep == [b \in Buckets |-> 0]
<1>1. keep \in [Buckets -> Nat] /\ policies' = Completed(profile, keep)
  BY DEF DropDB
<1> HIDE DEF keep
<1>2. /\ profile' = profile
      /\ continuous' \subseteq ContinuousQueries
      /\ phase' = phase \/ (phase = "waiting" /\ phase' = "lost")
      /\ held' = {} /\ under' = None /\ commands' = commands + 1
      /\ UNCHANGED <<measurement, age, closed>>
  BY DEF DropDB, Command, Restarts
<1>3. policies' \in [Buckets -> Nat]
  BY <1>1, CompletedFacts
<1>4. under' \in Profiles \cup {None}
  BY <1>2
<1>5. held' \subseteq held /\ held' \subseteq Buckets \X Nat
  BY <1>2
<1>6. Types'
  BY <1>2, <1>3, <1>4, <1>5 DEF IInv, Types, Phases
<1>7. StaysSetUp'
  BY <1>2, Zenon DEF StaysSetUp
<1> QED BY <1>2, <1>5, <1>6, <1>7, CommandIInv

LEMMA DeleteCQIInv == ASSUME IInv, NEW q \in ContinuousQueries, DeleteCQ(q) PROVE IInv'
<1>1. /\ continuous' = continuous \ {q} /\ under' = IF closed = 4 THEN under ELSE None
      /\ commands' = commands + 1
      /\ UNCHANGED <<profile, policies, measurement, phase, age, closed, held>>
  BY ChainFacts DEF DeleteCQ, Command, readingVars
<1>2. Types'
  BY <1>1 DEF IInv, Types
<1>3. under' # None => under' = under /\ closed = 4
  BY <1>1
<1>4. StaysSetUp'
  <2> SUFFICES ASSUME under' # None PROVE StaysSetUp'
    BY DEF StaysSetUp
  <2> QED BY <1>1, <1>3 DEF IInv, StaysSetUp
<1> QED BY <1>1, <1>2, <1>3, <1>4, CommandIInv

LEMMA DeleteMeasurementIInv ==
    ASSUME IInv, NEW m \in Measurements, DeleteMeasurement(m) PROVE IInv'
<1>1. /\ held' = IF m = measurement THEN {} ELSE held
      /\ under' = IF m = measurement THEN None ELSE under
      /\ commands' = commands + 1
      /\ UNCHANGED <<profile, policies, continuous, measurement, phase, age, closed>>
  BY DEF DeleteMeasurement, Command, dbVars, readingVars
<1>2. Types'
  BY <1>1 DEF IInv, Types
<1>3. StaysSetUp'
  BY <1>1 DEF IInv, StaysSetUp
<1> QED BY <1>1, <1>2, <1>3, CommandIInv

LEMMA UpdateRetentionPolicyIInv ==
    ASSUME IInv, NEW b \in Buckets, NEW d \in Durations, UpdateRetentionPolicy(b, d)
    PROVE  IInv'
<1>1. /\ policies' = [policies EXCEPT ![b] = d]
      /\ under' = IF d >= BucketDuration(under, b) THEN under ELSE None
      /\ commands' = commands + 1
      /\ UNCHANGED <<profile, continuous, measurement, phase, age, closed, held>>
  BY DEF UpdateRetentionPolicy, Command, readingVars
<1>2. d \in Nat
  BY NumbersAssumption
<1>3. Types'
  BY <1>1, <1>2 DEF IInv, Types
<1>4. StaysSetUp'
  BY <1>1 DEF IInv, Types, StaysSetUp
<1> QED BY <1>1, <1>3, <1>4, CommandIInv

LEMMA AddRetentionPolicyIInv ==
    ASSUME IInv, NEW b \in Buckets, NEW d \in Durations, AddRetentionPolicy(b, d)
    PROVE  IInv'
<1>1. /\ policies[b] = 0 /\ policies' = [policies EXCEPT ![b] = d]
      /\ commands' = commands + 1
      /\ UNCHANGED <<profile, continuous, measurement, phase, age, closed, held, under>>
  BY DEF AddRetentionPolicy, Command, readingVars
<1>2. d \in Nat
  BY NumbersAssumption
<1>3. Types'
  BY <1>1, <1>2 DEF IInv, Types
<1>4. StaysSetUp'
  <2> SUFFICES ASSUME under # None
               PROVE  \A c \in Buckets : policies'[c] >= BucketDuration(under, c)
    BY <1>1 DEF IInv, StaysSetUp
  <2>1. ASSUME NEW c \in Buckets
        PROVE  /\ policies[c] \in Nat /\ BucketDuration(under, c) \in Nat
               /\ policies[c] >= BucketDuration(under, c)
    BY DurationType DEF IInv, Types, StaysSetUp
  <2> QED BY <1>1, <1>2, <2>1 DEF IInv, Types
<1> QED BY <1>1, <1>3, <1>4, CommandIInv

LEMMA NextIInv == ASSUME IInv, [Next]_vars PROVE IInv'
<1>1. CASE UNCHANGED vars
  <2>1. UNCHANGED <<profile, policies, continuous, measurement, phase, age, closed,
                    held, commands, under>>
    BY <1>1 DEF vars, dbVars, readingVars
  <2>2. Types' /\ StaysSetUp'
    BY <2>1 DEF IInv, Types, StaysSetUp
  <2> QED BY <2>1, <2>2, CommandIInv
<1>2. CASE Commands
  BY <1>2, DropDBIInv, UpdateConfigIInv, DeleteRetentionPolicyIInv, DeleteCQIInv,
     DeleteMeasurementIInv, UpdateRetentionPolicyIInv, AddRetentionPolicyIInv DEF Commands
<1> QED BY <1>1, <1>2, TakeIInv, SaveIInv, DropIInv, CloseWindowIInv, TickIInv,
        ExpireIInv DEF Next

-----------------------------------------------------------------------------
(* The questions *)

LEMMA ReachType == ASSUME NEW q \in Questions PROVE Reach(q) \in Nat
<1>1. q.since \in Nat /\ q.relativeTime.n \in Nat
  BY QuestionsAssumption
<1> QED BY <1>1 DEF Reach, ResolveDurationFromRelativeTime, Hour, Day, Week

\* The bucket of means a question is sent to is filled by one continuous query.
LEMMA BlurOfMeans ==
    ASSUME NEW q, NEW i \in 1 .. 4, Policy(q) = Target(Chain[i])
    PROVE  Blur(q) = Width(Chain[i])
<1>1. Chain[i] \in ContinuousQueries
  BY Links
<1>2. \A c \in ContinuousQueries : Target(c) = Target(Chain[i]) => c = Chain[i]
  BY <1>1 DEF ContinuousQueries, Target
<1>3. (CHOOSE c \in ContinuousQueries : Target(c) = Policy(q)) = Chain[i]
  BY <1>1, <1>2
<1> QED BY <1>1, <1>3 DEF Blur

LEMMA BlurType == ASSUME NEW q PROVE Blur(q) \in Nat
<1>1. CASE \E c \in ContinuousQueries : Target(c) = Policy(q)
  <2> DEFINE c == CHOOSE c \in ContinuousQueries : Target(c) = Policy(q)
  <2>1. c \in ContinuousQueries
    BY <1>1
  <2>2. Blur(q) = Width(c)
    BY <1>1 DEF Blur
  <2> HIDE DEF c
  <2> QED BY <2>1, <2>2 DEF ContinuousQueries, Width, Hour, Day
<1>2. CASE ~\E c \in ContinuousQueries : Target(c) = Policy(q)
  BY <1>2 DEF Blur
<1> QED BY <1>1, <1>2

\* With the optimized profile a question is sent to a bucket that keeps its points for
\* as long as the question reaches back; gen_year is asked for all that is older.
LEMMA PolicyReaches ==
    ASSUME profile = "optimized", NEW q \in Questions, q.measurement \in HighFrequency
    PROVE  /\ \/ Policy(q) = "gen_raw"
              \/ \E i \in 1 .. 4 : Policy(q) = Target(Chain[i])
           /\ Policy(q) # "gen_year" => Reach(q) <= BucketDuration("optimized", Policy(q))
<1> DEFINE R == ResolveRetentionByElapsedTimeDuration(Reach(q), profile)
           d == ResolveDurationFromRelativeTime(q.groupByTime)
           G == ResolveRetentionByTimeGroup(q.groupByTime, profile)
<1>1. Reach(q) \in Nat
  BY ReachType
<1>2. d \in Nat
  <2>1. q.groupByTime.n \in Nat
    BY QuestionsAssumption
  <2> QED BY <2>1 DEF ResolveDurationFromRelativeTime, Hour, Day, Week
<1>3. \/ Policy(q) = R
      \/ Policy(q) = G /\ d >= GetRetentionTimeGroupDuration(R, profile)
  BY DEF Policy, GroupDecides
<1>4. /\ R \in {"gen_raw", "gen_day", "gen_week", "gen_month", "gen_year"}
      /\ R = "gen_raw" => Reach(q) <= Day
      /\ R = "gen_day" => Reach(q) <= Week
      /\ R = "gen_week" => Reach(q) <= Month
      /\ R = "gen_month" => Reach(q) <= 12 * Month
  BY <1>1 DEF ResolveRetentionByElapsedTimeDuration, Hour, Day, Week, Month
<1>5. /\ G \in {"gen_raw", "gen_day", "gen_week", "gen_month", "gen_year"}
      /\ G = "gen_raw" => d < 1
      /\ G = "gen_day" => d < 10
      /\ G = "gen_week" => d < Hour
      /\ G = "gen_month" => d < Day
  BY <1>2 DEF ResolveRetentionByTimeGroup, Hour, Day
<1>6. GetRetentionTimeGroupDuration(R, profile) =
        CASE R = "gen_day"   -> 1
          [] R = "gen_week"  -> 10
          [] R = "gen_month" -> Hour
          [] R = "gen_year"  -> Day
          [] OTHER -> 0
  BY DEF GetRetentionTimeGroupDuration
<1> HIDE DEF R, d, G
<1>7. Policy(q) \in {"gen_raw", "gen_day", "gen_week", "gen_month", "gen_year"}
  BY <1>3, <1>4, <1>5
<1>8. /\ Policy(q) = "gen_raw" => Reach(q) <= Day
      /\ Policy(q) = "gen_day" => Reach(q) <= Week
      /\ Policy(q) = "gen_week" => Reach(q) <= Month
      /\ Policy(q) = "gen_month" => Reach(q) <= 12 * Month
  BY <1>1, <1>2, <1>3, <1>4, <1>5, <1>6 DEF Hour, Day, Week, Month
<1>9. Policy(q) # "gen_year" => Reach(q) <= BucketDuration("optimized", Policy(q))
  BY <1>1, <1>7, <1>8 DEF BucketDuration, Hour, Day, Week, Month
<1>10. /\ Target(Chain[1]) = "gen_day" /\ Target(Chain[2]) = "gen_week"
       /\ Target(Chain[3]) = "gen_month" /\ Target(Chain[4]) = "gen_year"
  BY ChainFacts DEF Target
<1> QED BY <1>7, <1>9, <1>10

LEMMA IInvImpliesReadingsAreFound == IInv => ReadingsAreFound
<1> SUFFICES ASSUME IInv, under = profile, phase = "saved",
                    measurement = Sampled => profile # "optimized",
                    NEW q \in Questions, IsAskedFor(q)
             PROVE  <<Policy(q), ResolveFieldFullName(Policy(q))>> \in held
  BY DEF ReadingsAreFound, Finds, IsAskedFor
<1>0. profile \in Profiles /\ under = profile /\ under # None
  BY NoneIsNoProfile DEF IInv, Types
<1>1. /\ q.measurement = measurement /\ Blur(q) < age /\ age + Blur(q) <= Reach(q)
      /\ age <= Promised(profile)
      /\ age \in Nat /\ Blur(q) \in Nat /\ Reach(q) \in Nat
  BY BlurType, ReachType DEF IsAskedFor, IInv, Types
<1>2. CASE measurement \notin HighFrequency
  <2>1. Policy(q) = "gen_default" /\ ResolveFieldFullName(Policy(q)) = 0
    BY <1>1, <1>2 DEF Policy, ResolveFieldFullName
  <2>2. ResolveWriteRetentionPolicyName(measurement, profile) = "gen_default"
    BY <1>2 DEF ResolveWriteRetentionPolicyName
  <2>3. age <= BucketDuration(profile, "gen_default")
    BY <1>1, <1>2 DEF Promised
  <2> QED BY <1>0, <2>1, <2>2, <2>3 DEF IInv, IsInItsBucket
<1>3. CASE measurement \in HighFrequency
  <2>1. ResolveWriteRetentionPolicyName(measurement, profile) = "gen_raw"
    BY <1>3 DEF ResolveWriteRetentionPolicyName
  <2>2. age <= BucketDuration(profile, "gen_raw") => <<"gen_raw", 0>> \in held
    BY <1>0, <2>1 DEF IInv, IsInItsBucket
  <2>3. CASE profile # "optimized"
    <3>1. Policy(q) = "gen_raw" /\ ResolveFieldFullName(Policy(q)) = 0
      BY <1>1, <1>3, <2>3 DEF Policy, ResolveFieldFullName, ResolveRetentionByTimeGroup,
         ResolveRetentionByElapsedTimeDuration
    <3>2. age <= BucketDuration(profile, "gen_raw")
      BY <1>1, <1>3, <2>3 DEF Promised, BucketDuration
    <3> QED BY <2>2, <3>1, <3>2
  <2>4. CASE profile = "optimized"
    <3>1. /\ \/ Policy(q) = "gen_raw"
             \/ \E i \in 1 .. 4 : Policy(q) = Target(Chain[i])
          /\ Policy(q) # "gen_year" =>
                Reach(q) <= BucketDuration("optimized", Policy(q))
      BY <1>1, <1>3, <2>4, PolicyReaches
    <3>2. age <= BucketDuration(profile, Policy(q))
      <4>1. CASE Policy(q) = "gen_year"
        BY <1>1, <1>3, <2>4, <4>1 DEF Promised, BucketDuration
      <4>2. CASE Policy(q) # "gen_year"
        BY <1>1, <2>4, <3>1, <4>2, DurationType
      <4> QED BY <4>1, <4>2
    <3>3. CASE Policy(q) = "gen_raw"
      BY <2>2, <3>2, <3>3 DEF ResolveFieldFullName
    <3>4. CASE \E i \in 1 .. 4 : Policy(q) = Target(Chain[i])
      <4>1. PICK i \in 1 .. 4 : Policy(q) = Target(Chain[i])
        BY <3>4
      <4>2. Width(Chain[i]) < age
        BY <1>1, <4>1, BlurOfMeans
      <4>3. i <= closed
        BY <1>1, <4>2, Links DEF IInv, WindowsClose
      <4>4. <<Target(Chain[i]), i>> \in held
        BY <1>0, <2>1, <2>4, <3>2, <4>1, <4>3 DEF IInv, IsInTheChain
      <4> QED BY <4>1, <4>4, Links
    <3> QED BY <3>1, <3>3, <3>4
  <2> QED BY <2>3, <2>4
<1> QED BY <1>2, <1>3

\* A reading that was written to gen_raw under the optimized profile has left it for
\* gen_year long before gen_raw gives it up.
LEMMA IInvImpliesReadingsAreKept == IInv => ReadingsAreKept
<1> SUFFICES ASSUME IInv, under # None, phase = "saved", age <= Promised(under)
             PROVE  held # {}
  BY DEF ReadingsAreKept
<1> DEFINE b == ResolveWriteRetentionPolicyName(measurement, under)
<1>1. age \in Nat /\ under \in Profiles /\ measurement \in Measurements
  BY DEF IInv, Types
<1>2. age <= BucketDuration(under, b) => <<b, 0>> \in held
  BY DEF IInv, IsInItsBucket
<1>3. CASE b # "gen_raw" \/ under # "optimized"
  <2>1. Promised(under) = BucketDuration(under, b)
    BY <1>3, MeasurementsAssumption
       DEF Promised, ResolveWriteRetentionPolicyName, BucketDuration
  <2> QED BY <1>2, <2>1
<1>4. CASE b = "gen_raw" /\ under = "optimized"
  <2>1. BucketDuration(under, b) = 2 * Week /\ Promised(under) = 240 * Week
    BY <1>4 DEF BucketDuration, Promised, ResolveWriteRetentionPolicyName
  <2>2. CASE age <= 2 * Week
    BY <1>2, <2>1, <2>2
  <2>3. CASE age > 2 * Week
    <3>1. /\ Width(Chain[4]) = Day /\ Target(Chain[4]) = "gen_year"
          /\ BucketDuration(under, "gen_year") = 240 * Week
      BY <1>4, ChainFacts DEF Width, Target, BucketDuration
    <3>2. age > Day
      BY <1>1, <2>3 DEF Week, Day, Hour
    <3>3. 4 <= closed
      BY <3>1, <3>2 DEF IInv, WindowsClose
    <3>4. <<"gen_year", 4>> \in held
      BY <1>4, <2>1, <3>1, <3>3 DEF IInv, IsInTheChain
    <3> QED BY <3>4
  <2>4. 2 * Week \in Nat
    BY DEF Week, Day, Hour
  <2> QED BY <1>1, <2>2, <2>3, <2>4
<1> QED BY <1>3, <1>4

LEMMA IInvImpliesEnergyIsFound == IInv => EnergyIsFound
<1> SUFFICES ASSUME IInv, under = "optimized", phase = "saved", measurement = Sampled,
                    age <= 240 * Week
             PROVE  <<"gen_year", 0>> \in held
  BY DEF EnergyIsFound, EnergyFinds
<1>1. under # None
  BY OptimizedIsProfile
<1>2. /\ ResolveWriteRetentionPolicyName(measurement, under) = "gen_year"
      /\ BucketDuration(under, "gen_year") = 240 * Week
  BY DEF ResolveWriteRetentionPolicyName, BucketDuration
<1> QED BY <1>1, <1>2 DEF IInv, IsInItsBucket

LEMMA IInvImpliesTypeOK == IInv => TypeOK
<1> SUFFICES ASSUME IInv PROVE TypeOK
  OBVIOUS
<1>1. ASSUME NEW g \in held, NEW h \in held, g[1] = h[1]
      PROVE  g = h
  <2>1. g \in Buckets \X Nat /\ h \in Buckets \X Nat
    BY DEF IInv, Types
  <2>2. g[2] = h[2]
    <3>1. CASE \A x \in held : x[2] = ResolveFieldFullName(x[1])
      BY <1>1, <3>1
    <3>2. CASE held \subseteq {<<"gen_year", 0>>}
      BY <3>2
    <3> QED BY <3>1, <3>2 DEF IInv, NamesFollow
  <2> QED BY <1>1, <2>1, <2>2
<1> QED BY <1>1, ChainFacts DEF IInv, Types, TypeOK

-----------------------------------------------------------------------------
(* The theorems *)

\* The invariant holds in every state.
THEOREM Invariant == Spec => []IInv
<1>1. Init => IInv
  BY InitIInv
<1>2. IInv /\ [Next]_vars => IInv'
  BY NextIInv
<1> QED BY <1>1, <1>2, PTL DEF Spec

\* Every variable has its type, and the reading is in no bucket under two names: no
\* continuous query feeds a bucket another one feeds as well (influxdb_v1.go:72-79).
THEOREM Typing == Spec => []TypeOK
BY Invariant, IInvImpliesTypeOK, PTL

\* Whatever is measured, asked, commanded and however long things take: a reading that
\* was saved in time with everything set up is found by every question that reaches
\* back to it, under the profile it was saved under (mapping.go:29-103,
\* influxdb_v1.go:45-139).
THEOREM EveryReadingIsFound == Spec => []ReadingsAreFound
BY Invariant, IInvImpliesReadingsAreFound, PTL

\* However often the profile changes, and to what: no reading is gone before the profile
\* it was saved under would have let it go (process.go:80-97, influxdb_v1.go:45-85).
THEOREM EveryReadingIsKept == Spec => []ReadingsAreKept
BY Invariant, IInvImpliesReadingsAreKept, PTL

\* The sampled energy of the optimized profile is found by every energy question with a
\* tag that reaches back to it, under any later profile, in a database of the name the
\* query has (influxdb_v1.go:203-236).
THEOREM SampledEnergyIsFound == Spec => []EnergyIsFound
BY Invariant, IInvImpliesEnergyIsFound, PTL
=============================================================================

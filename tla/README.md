# ECollector: a TLA+ verification project

ECollector subscribes to an MQTT broker, turns FIMP messages into data points,
collects them in batches and writes the batches to a time series database
(InfluxDB 1, InfluxDB 2) or to CSV files.  One *process* (`tsdb.Process`) does
this for one set of selectors and filters; an *integration* owns the processes
and their configuration; an MQTT API controls them.

Paths below are relative to the repository; Go sources are under `src/`.

## Inventory

| Component | State | Operations | What is hard | What makes it correct |
|---|---|---|---|---|
| **Batch writer**: `Write`, `WriteDirect`, `writeIntoDb` in `integration/tsdb/process.go` | `batchPoints` (one batch per bucket), `writeMutex`, `State` | append a point; send all batches when one is full or the ticker fires; retry; acknowledge or drop | the size is tested after the unlock; a flush keeps the mutex over network calls and 5 s sleeps; requests fail, or time out after they were applied | a point is in one batch until it is settled; batches are bounded; acknowledged means stored; dropped means refused or tried 5 times; nothing waits for ever |
| **Process lifecycle**: `Init`, `Start`, `Stop`, `Configure` | `State`, `storage`, `mqttTransport`, `ticker`, and the goroutines and callbacks they leave behind | the four calls, from boot and from one goroutine per API command | no lock at all on these fields; flushes write `State` as well | no nil pointer; one subscription and one scheduler; Start starts and Stop stops; no state without a way out |
| **Integration registry**: `integration/tsdb/integration.go` | `processes`, `processConfigs`, the JSON file | boot, add, remove, update, reset, save, disk monitor | `Process.Config` points into the array that `RemoveProcess` shifts; no lock; the file is truncated and rewritten | every process runs its own configuration; identifiers are unique; memory, file and processes agree; a restart brings back what was saved |
| **Aggregator**: `integration/tsdb/processing/agreggator.go` | two channels of 20, the series map, a mutex | accept or drop a point, collect, publish aggregates, publish differences | the publisher blocks on the output channel with the mutex held; a full input channel drops | no deadlock with a flush; what is published was received; differences add up to the meter's growth |
| **Filter chain**: `filter` in `process.go`, `integration/tsdb/api.go` | `Config.Filters` | evaluate a message; add and remove filters | chaining by identifier, cycles, evaluation beside removal | agrees with the boolean reading of the chain |
| **Retention mapping**: `integration/tsdb/storage/mapping.go` | none | resolve the bucket of a write and of a query | thresholds, widths, durations and field names are four lists of constants in two files | a question finds what lies within its reach |
| **Drivers**: `integration/tsdb/storage/*.go` | client, CSV writer; in the server the database, its policies and continuous queries | write a batch, set up, delete and alter, query | partial success, swallowed errors, a set-up of 13 requests that may end anywhere and run twice at once | success means that all points are written; after a set-up nothing is missing; a restart makes again what was deleted |
| **Transform**, **metadata stores**, **admin API**, **service**, **utilities** | a lookup table, configuration | conversions, dispatch, I/O | little that depends on order | unit tests reach it |

How they interact: the MQTT router calls `OnMessage`, which filters, transforms
and either calls `Write` or hands the point to the aggregator
(`AddDataPoint`).  The aggregator's ticker goroutine publishes into the output
channel; the worker started by `Init` reads it and calls `Write`.  `Write`
calls `writeIntoDb` when a batch is full; so does `WriteDirect`, called by the
API goroutines, and the ticker goroutine started by `Start`.  API goroutines
also call `Start`, `Stop`, `Configure` and the registry.  `PROJECT.json` lists
the hazards with their lines.

## Plan

1. `BatchWriter` with `PointDelivery`, its abstract specification; invariants,
   refinement, liveness; proofs.  **Done.**
2. `ProcessLifecycle`: the calls against what they leave behind; first proofs.
   **Done.**
3. `Registry`: processes, the configuration array with its aliasing, the file,
   crashes and boots; proofs.  **Done**, but for its abstract specification, a
   map from identifiers to configurations that commands change at once.
4. `Transform` and `Aggregator`: from a message to its points, channels,
   publisher, worker, with `Metering`, its abstract specification; proofs of the
   invariants and of the refinement.  **Done.**
5. `Retention`, with `Historian`, a reading on its way through the buckets and
   the questions that should find it, and `StorageSetup`, how the buckets come
   about; proofs.  **Done.**
6. Left: `Pipeline`, `Aggregator` composed with `BatchWriter`, whose flush makes
   the worker wait, for back-pressure and for the order of a series; the InfluxDB
   2 driver in `StorageSetup`, where set-ups fail that find something there; the
   disk monitor in `Registry`; `AddFilter`, `RemoveFilter` and the selectors of
   `api.go`, which no command calls yet.
7. Every invariant the runs check is proved, and the safety part of both
   refinements.  What is left to TLC is liveness.

## BatchWriter

`BatchWriter.tla` models one started process with any set of goroutines in
`Write` (the MQTT router, the aggregator worker), `WriteDirect` (API commands)
and the ticker's loop.  Every goroutine has a location and the local variables
of the Go functions; a step is what happens between two points at which others
can interfere:

| Action | Code |
|---|---|
| `Write`, `WriteDirect`, `LockForAppend`, `AppendPoint` | up to the `Lock`; the append, with the batch created on demand, and the `Unlock` |
| `CheckSize` | the size test after the unlock, which decides on `writeIntoDb` |
| `Tick` | the ticker goroutine receives a tick |
| `LockForFlush`, `NextBucket`, `Attempt`, `ResetBatch`, `EndFlush` | `writeIntoDb`: lock, range over the map, one round of the retry loop, the evaluation of `err` with `InitBatchPoint`, the deferred unlock |
| `CrashAndRestart` | the Go runtime notices a concurrent map access; systemd restarts the program |

A storage answers `ok`, `rejected` (the three error texts the code knows) or
`unreachable` (every other error, retried).  A request that was not answered
`ok` may have been applied in any part.  The CSV driver never fails and may
lose what its writer could not write.  The InfluxDB 2 driver offers the first
point only.  `fate`, `stored`, `sent` and `tries` are history variables.

The `Log` calls, the resolution of the bucket's name and the contents of a
point are left out.  The error returns of `InitBatchPoint` are left out too:
`influx.NewBatchPoints` fails only for a precision it cannot parse, and the
code passes the constant "ns".  The size test also races on the length of the
slice itself; the model reads a length the batch really has at that moment.

`PointDelivery.tla` is what the component promises: a point is outside,
inside, acknowledged, dropped or lost; a batch is settled at once and as a
whole; only saved points are acknowledged; and every point leaves.

### What is checked

* `writer_safety` (264,230 states): an ingester, an API caller and a ticker
  write four points in batches of two with two attempts, into a bucket the
  first point creates.  That is the least with which a batch outgrows its
  limit, is retried and given up, is refilled during a flush, and the map
  race occurs.  `IndInv` is the inductive invariant of the proofs.
* `writer_delivery` (34,760 states): the refinement, fairness included, over
  two buckets, so that one flush settles two batches.
* `writer_race` is expected to fail; see below.

`MaxAttempts` is 5 in the code and 2 here: one retry and the last round.  No run
uses the CSV driver; the proofs hold for every `StorageType`, where they do not
name one.

Fairness: a runnable goroutine runs (weak fairness of `Advance`); a waiter gets
a `sync.Mutex` in the end because Go's mutex hands over to the longest waiter
after 1 ms (strong fairness of `Lock`); a storage call returns because the
clients have a timeout (part of `Advance`); a ticker ticks (weak fairness of
`Tick`, in `FairSpec` only).  Nothing makes a message arrive.

### What is proved

`BatchWriterProofs.tla` proves the type invariant and the safety properties for
any sets of goroutines (finitely many writers), points and buckets, any batch
size and number of attempts.  The argument is one inductive invariant, `IndInv`:

* `MutexInv`, whoever is in a critical location holds `writeMutex`;
* `LocalsInv` and `KeysInv`, a goroutine's locals fit its location;
* `DueInv`, the key to `BatchBounded`: a batch of `BatchMaxSize - 1 + n` points
  has `n` writers that have appended and are still bound to test the size or to
  flush, or it is being flushed.  `BatchBounded` alone is not inductive because
  it does not say who will empty a batch that has outgrown its limit;
* `HandedInv` and `PendingInOneBatch`, the places of points;
* `SentInv`, what a flush has offered is still the batch it will reset, because
  the mutex spans the loop: this carries `AckedIsStored`;
* `TriesInv`, a point's number of offers is its flush's attempt: this carries
  `RetriesBounded` and `DropIsJustified`.

`ReportedStateFollows` proves `StateFollowsStorage` from `IndInv` and one more
invariant, `FlushesPoints`: the batch that is being flushed is not empty, so that
a flush that changes the state settles a point.

`AcknowledgedIsStored` and `DeliveryIsImplemented` assume the InfluxDB 1
storage, as the other two drivers break them.  `BatchWriterProofs.tla` shows
that the initial state maps to `PointDelivery`'s and every step to a step or a
stutter, for the safety part; the fairness of the refinement and the liveness properties
are model-checked only.

## ProcessLifecycle

`ProcessLifecycle.tla` models the calls at the grain at which the fields are
read and written: `Init` in four steps (state, storage constructor, database,
batches with transport and worker), `Start` in four (test, ticker, connect,
subscribe), `Stop` in two.  `Configure` and the `delete_object` command are
Stop followed by Start.  `Boot` is Init followed by Start.  The batches are one
bit; who flushes, and whether `Init` has replaced the map meanwhile, is kept.
A panic ends the program in a ticker or worker goroutine and is recovered in
`OnMessage` and in an API goroutine.

Transports and tickers that a newer one has replaced stay in the model, with
their goroutines.  `Faults` selects what may fail; `"early"` allows API writes
to a process that was never started.

Left out: the error of a failed call; the metadata store; the subscription of
single selectors; the once-a-second limit of `SaveInterval`; that a ticker
goroutine evaluates `pr.ticker` a moment after `Start` has set it; the closed
HTTP client, which can still be used after `Close`; the CSV writer that is nil
when `InitDb` is off.

### What is checked

* `lifecycle_concurrent` (two calls at once, any two of boot, start, stop and
  restart, all faults of network and database): `TransportExists`, and three
  liveness properties.  Two calls are every pairwise interleaving.
* `lifecycle_serial` (four calls one after the other, early API writes, a
  storage client that may fail to open): `OneConnection`, `OneScheduler`,
  `StopStopsScheduler`.  These three are false with concurrent calls or with the
  other faults, as the findings show; the run says that ordinary use, including
  late flushes, keeps them.  Four calls give start, stop, start and stop.
* `lifecycle_started` is expected to fail.

Deadlock is not checked: the number of calls is finite, and a stopped process
may have nothing left to do.

Fairness: calls proceed because the network operations return; tickers tick;
flushes end.  Assumed of the environment: messages keep arriving on a connected
transport (and so fill a batch when no ticker empties it), and a store that is
tried again and again answers once.

### What is proved

`ProcessLifecycleProofs.tla` proves the type invariant and `TransportExists`
for any number of calls and any faults.  `TransportExists` is not inductive:
a late flush sets RUNNING in any state.  The invariant adds that before the
first Init has made a transport nothing exists that could flush (`NotBuilt`),
and that a call leaves Stop for Start or for good (`StopThenStart`).

`OneConnection`, `OneScheduler` and `StopStopsScheduler` are proved for any number
of calls under `InOrder`: the calls are serial, and neither InitDB, the broker nor
a write fails.  A late flush makes State say RUNNING at any time, so State alone
does not tell what is up.  The invariant (`SerialInv`) says that what is up is the
transport and the ticker the process knows (`Known`), that something is up only
in RUNNING or before the end of a Start, and what a call has established at each
of its steps (`Established`): Init and the first step of a Start that goes on find
nothing up.  `StartingIsTransient`, `LostConnectionRecovers` and `BatchesAreSent`
are model-checked only.

## Registry

`Registry.tla` models `processConfigs` as Go has it: a slice, that is an array
and a length.  `arrays` holds the arrays there have been since the boot, and a
process is a pointer to a slot of one of them.  The processes of a boot point
into the array that `json.Unmarshal` made (`InitProcesses` passes
`&it.processConfigs[i]`); a process that was added has a one-slot array of its
own.  `append` writes behind the slice while there is room and moves to a new
array otherwise (`HasRoom`); `RemoveProcess` shifts (`Cut`).

| Action | Code |
|---|---|
| `Boot`, `BootDefaults`, `BootDies` | `LoadConfig` and `InitProcesses`; without a file; killed while the default file is written |
| `AddTakesID`, `AddReads`, `AddAppends`, `AddRegisters` | `AddProcess`: `GetNewID`, the two halves of `append`, `InitNewProcess` |
| `RemoveLooksUp`, `RemoveFinds`, `RemoveUnlists`, `RemoveSearches`, `RemoveCuts` | the look-up of the API, then `RemoveProcess`: both loops, each found index used one step later |
| `UpdateConfigures`, `UpdateRestarts`, `UpdateReplaces` | `UpdateProcConfig`, with `Configure` writing through the pointer |
| `ResetClears`, `ResetReads`, `ResetInits`, `ResetExits` | `ResetConfigsToDefault` and the `os.Exit` after it |
| `SaveLocks`, `SaveMarshals`, `SaveWrites` | `SaveConfigs`: the mutex, `json.Marshal` with the truncation of the file, the write |
| `Crash` | a kill or a panic elsewhere, at any moment |

A configuration is its identifier and who wrote it.  The fields that the
program fills in on the way are left out (`SiteId`, `Profile`, `SaveInterval`,
`BatchMaxSize`; a file may lack them until the next save).  So are a
`WriteFile` that fails, the disk monitor, whose effect here is a possible crash,
and the two halves of the `append` to `processes`.  A growing array doubles, as
Go's does; the default list has one process, as the file in `package/` has.
`GetNewID` is bounded by `Ids`.

### What is checked

* `registry_commands` (three commands, each any of the four, on a file with
  three processes, or with none; 4 slots): `TypeOK`, which says that no slice
  and no pointer goes astray, `FileFollowsMemory`, `TableIsKept` and
  `CrashKeepsTable`.  Three
  commands let one act while a second waits for the mutex and a third writes;
  with three processes in four slots the second add outgrows the array and a
  remove leaves two processes behind it.  639,391 states with symmetry.
* `registry_lookup` is expected to fail.

`FileFollowsMemory` and `TableIsKept` speak of moments at which all commands
have returned (`Quiet`).  An update whose restart failed has changed memory
without a save, so a state with one does not count as quiet.  `TableIsKept`
needs commands that do not overlap (`orderly`): overlapping ones do give out an
identifier twice and overwrite each other, since no lock guards the lists.
`CrashKeepsTable` needs the same and speaks of every moment: however far a command
has come in memory, the file has the table of the commands that have saved.  The one
exception is the write itself, which truncates the only copy.

Deadlock is not checked: the commands are finitely many, and after the last
process has been removed and the program has ended it cannot boot again.

### What is proved

`RegistryProofs.tla` proves `TypeOK` and `FileFollowsMemory` for any set of
commands, any identifiers, file and capacity.

* `TypeOK`: every step but the end of the program lets the arrays only grow
  (`Grows`: none goes or changes its size, and no configuration gives way to an
  empty slot).  Slices and pointers that a step does not touch therefore stay
  good, whatever it does to the array under them.  `CutReady`, that a remove
  about to cut has an index within the slice it read, makes this inductive.
* `FileFollowsMemory` says something only when all is quiet, so the invariant
  says who is responsible before that (`FileInv`): either some command still
  owes a save, or somebody is about to write exactly what memory holds, or
  nobody writes and the file agrees.  `MutexHeld` excludes a second writer
  with an older payload.

`RegistryTableProofs.tla` proves `TableIsKept`, again for any number of commands.
Its invariant (`TableInv`) says of the one command that is at work what it relies
on at each location (`Stage`): until it changes memory the list agrees with the
configurations asked for so far, from then to the save with those that are due
(`Due`), and the file agrees with the former until the save makes the latter true
(`FileKept`).  Between `Configure` and `UpdateReplaces` neither holds: the pointer
of a process may have led into another slot, or out of the list, and all that is
known is that only configurations with the identifier at hand were overwritten
(`HalfRenewed`).  That `GetNewID` returns a new identifier rests on `Ids` being
`1 .. n` (`IdsAssumption`).  `CrashConsistency` proves `CrashKeepsTable` from the same
invariant, of which it is the part about the file, `FileKept`.

## Transform and Aggregator

`Transform.tla` is what a process makes of one message, as functions: `Filter`
(`Process.filter`, with its recursion over linked filters), `DefaultTransform`
(the points of a message, each with its measurement, series, aggregation
function and value), `IsHighFrequencyData` and
`ResolveWriteRetentionPolicyName`.  Names are tuples, a series
"electricity_meter_energy;d1;import" being
`<<"electricity_meter_energy", "d1", "import">>`.

`Aggregator.tla` is the way of high frequency data through four goroutines:

| Action | Code |
|---|---|
| `OnMessage`, `AddDataPoint`, `WriteAtOnce` | `OnMessage` of `process.go`: filter and transform, then point by point `AddDataPoint`, which drops at a full channel, or `Write` |
| `TakeIn` | one turn of the input processor, under `mux` |
| `Tick`, `VisitAggregate`, `EndRound` | the ticker goroutine takes `mux`; one turn of the loop of `calculateAndPublishAggregates`; the deferred unlock |
| `TestMinute`, `VisitDifference`, `EndRound` | the test of the minute with `waitingNextInterval`; one turn of the loop of `calculateDifferenceInGrowingSeriesAndPublish`; the unlock |
| `Send` | the send on `outputChannel`, for which the publisher may wait with `mux` held |
| `Receive`, `WriteAggregate` | one turn of `StartAggregatorWorker` |

A `Fields` map is a reference in Go: `OnMessage` makes it, the series keeps the
latest one (line 130), the publisher writes its entry "value" (210, 278) and
sends it, and the worker reads it in `influx.NewPoint`, without a lock.  Here a
map is a number, and `valueOf` has the entry.  `account` is a history variable:
what a series has been given and what became of it.  `MessagesAssumption` says what
gets past the parsers of `transform.go`: numbers where the code expects numbers.

Numbers are integers, since only sums, differences and comparisons are made of
them, and a mean is a fraction (`Ratio`).  `filterSeries` and the quartiles of
the statistics library are modelled as they compute.  Times are left out: that
a series is older than two hours, and that the minute is a multiple of the
interval, may or may not be the case.  Tags but the topic, units, the time
stamps of points, and messages that cannot be parsed are left out.

### What is checked

* `aggregator_meters` (1,742,184 states): three messages, any of a main
  meter's value 1, 2 or 3, a value 2 of the same meter before its metadata say
  that it is one, and a charging session.  These sequences grow, leap
  (`MaxDifference` is 1), start again, and change the profile between two
  rounds; channels of one place block and drop.  A kWh message makes two points,
  the session makes one for the aggregator and one for `Write`.  `MaxPoints` is
  5, so that three sampled points and two others go in; `MaxAllowedPower` plays
  no part here, as no message has a power.
  `NothingCountedTwice` bounds what is published, what is refused and what the
  values at hand will yield by what the values have risen by, or added up to;
  `CountsAreComplete` says that for a charging session, and for a main meter that
  was never filtered, the two are equal: nothing is lost either.  A sum that equals
  the last one is refused like a value that is too large (`agreggator.go:204`).
  `ImplementsMetering` is the refinement of `Metering.tla`, below.
* `aggregator_drain` (97,693 states): two of these messages, up to three times,
  with fairness.  `ChannelsDrain` says that the publisher's wait with `mux` held
  is no deadlock.
* Six and more samples are needed for an outlier, which the two runs do not
  reach.  The assumptions of `MCAggregator` evaluate `CalculateDifference` and
  `ExtremeOutliers` on the samples of the repository's test, and that filtering
  makes no difference larger on all sequences of up to seven values of 0, 1, 9.

Fairness: every goroutine runs (weak fairness of `Publishing` and `Worker`); the
input processor gets `mux` in the end although the publisher takes it again and
again, as Go's mutex hands over after 1 ms (strong fairness of `TakeIn`).
`WriteAggregate` comes back because `Write` does, see BatchWriter.  Nothing
makes a tick or a message come.

### What is proved

`AggregatorProofs.tla` proves `TypeOK`, `FieldsKeepValue`, `NothingCountedTwice`,
`CountsAreComplete` and `ImplementsMetering` for any messages, filters, capacities,
limits and bounds.

* `FieldsKeepValue`, that an aggregate still has the value it was published with
  when the worker reads it, is not inductive: it does not say why the publisher,
  which writes the map of a series, never writes one that is queued.
  `MapsAreApart` says it: a series that shares its map with an aggregate in flight
  is `Settled`, it has nothing left, or one value to start from, and cannot publish
  before it takes in a point, and with the point a new map that nobody else has.
* `NothingCountedTwice` and `CountsAreComplete` follow from one invariant of the
  accounts, `Ledger`.  For a sum, what is booked and what is at hand make up what
  came in.  For a difference there is a third part (`InBooks`): the way from the
  last value that is kept to the last one taken in.  The filter may have left that
  last value out, and the next rise then starts lower than the account does.  The
  steps rest on two facts about sequences of any length: appending a value adds its
  rise, and leaving values out of a sequence makes its difference, with the way from
  its end to a later value, no larger (`FilterRisesLess`, by `Rise(a, c) <= Rise(a, b)
  + Rise(b, c)`).
* These facts are proved in `AggregatorLemmas.tla`, by induction over the length of a
  sequence.  Its form is that of a smallest counterexample: the set of lengths at
  which a fact fails, if it is not empty, has a least element, since `<` on the
  naturals is well founded (`WFMin`, `NatLessThanWellFounded`).  The same module proves
  that the difference of a growing series is from its first value to its last
  (`DifferenceOfGrowingMeter`), and that the differences of two rounds, the second of
  which starts with the last value of the first, make the difference of all values
  (`DifferencesOfRoundsAddUp`).
* Three theorems there are about `Filter`, for any list of filters.  The model follows a
  chain of links only as far as there are filters; `FilterFollowsItsChain` shows that on
  chains which do not lead back this cut-off makes no difference: the filter has the
  one answer that the code's recursion has.  `WithoutFirstFilterNothingPasses` and
  `FirstFilterDecides` prove what the findings say of `process.go:242`.

`Metering.tla` is what the aggregator promises to a reader of the energy of a meter
or a session, without messages, rounds, locks and maps: a series that is counted
grows; what has grown is settled once, published or refused; what is published
waits in a queue and is delivered once, in order, with the value it was published
with.  The refinement mapping takes the queue from the three places an aggregate
passes (`Aggregated`) and its values from the maps the worker will read
(`OnTheWay`), so that a map that is written too late is a step `Metering` does not
have.  `MeteringIsImplemented` shows every step to be one of `Metering`, or a
stutter, under the three invariants: a visit settles what `Ledger` allows, and
`FieldsKeepValue` makes the queue one of values that do not change
(`WorkerReadsWhatWasSent`).

`ChannelsDrain` is model-checked only.

## Retention and Historian

`Retention.tla` has the constants and functions of `influxdb_v1.go` and
`mapping.go` under their names: what the set-up of a profile makes
(`BucketDuration`, `ContinuousQueries` with `Source`, `Target` and `Width`), and
what the query side makes of a range, a group and a bucket
(`ResolveRetentionByElapsedTimeDuration`, `ResolveRetentionByTimeGroup`,
`GetRetentionTimeGroupDuration`, `ResolveFieldFullName`).  Durations are whole
minutes, a relative time is a number and a unit, and a field is told by how
often "mean_" stands before its name.

`Historian.tla` follows one reading.  Readings do not influence each other here,
so that what holds of one holds of all.

| State | Code |
|---|---|
| `profile`, `policies`, `continuous` | `ProcessConfig.Profile`; the retention policies of the database with their durations; its continuous queries |
| `measurement`, `phase`, `age` | what the reading is of; waiting in a batch, saved or lost; minutes since it was taken |
| `closed`, `held` | how many windows of the chain have closed behind it; the buckets it, or a mean it is part of, is in, with the "mean_" of the field |
| `under` | history: the profile it was taken and saved under, in time and with everything set up; none once a command has taken away what that profile provides |

| Action | Code |
|---|---|
| `Take`, `Save`, `Drop` | `Write`, `writeIntoDb` with the bucket of `ResolveWriteRetentionPolicyName`, refused when that bucket is not there |
| `CloseWindow`, `Tick`, `Expire` | the server: a continuous query runs at the end of its interval; time; a policy gives a point up, at once or some time later |
| `UpdateConfig`, `DeleteRetentionPolicy`, `DropDB` | the commands that restart the process, with the set-up in one step (`SetUp`), which leaves alone what is there and ends at a `gen_year` of another duration |
| `DeleteCQ`, `DeleteMeasurement`, `UpdateRetentionPolicy`, `AddRetentionPolicy` | the commands of one request |

Questions are functions of the state: `Policy` is the bucket `GetDataPoints`
asks, `Finds` whether the reading is among what it may return.  `EnergyFinds` is
the query of `GetEnergyDataPoints`: its range, the tag it cannot do without, and the
name of the database, which is written in it.  `IsAskedFor` is the promise: the reading is in
the reach of the question, and not so close to one of its ends that the mean it
is part of may lie outside (`Blur`).

Left out: compound relative times ("1d12h", of which the code makes 0 or
something else), durations that overflow 64 bits, the points in time of a group,
filling, transformation functions, tags to filter by, a command that gives the
process another database, and what a server does with
a bucket that was made again under a continuous query.  A question that gives
only one of the two ends of a range is answered by its relative time, which here
is `NoTime`.

### What is checked

`historian` (166,724 states): readings of power, of sampled energy and of
presence, which stand for the three ways `ResolveWriteRetentionPolicyName` goes;
18 ages, one on either side of every width, threshold and duration; 48
questions, a range on either side of every threshold with a group on either side
of every width, ranges by their ends, a tag to group by, another function, and a
list of devices; two commands, with a duration shorter than any and one longer.
Two commands are an alteration and what a restart makes of it.

`ReadingsAreFound` says that whatever range, grouping and function are asked for,
a reading is found as long as the profile is the one it was saved under, or that one
again; the thresholds (`> 1*WeekDuration` and so on), the
durations ("2w"), the intervals of the queries ("10m") and the prefixes of the
fields each have their part in it.  `ReadingsAreKept` is what is left of it under
another profile: the reading is somewhere in the database for as long as its own
profile promised, since a set-up neither shortens nor removes the buckets it meets.
`EnergyIsFound` says that for the sampled energy of the optimized profile the change
makes no difference, since the energy question asks `gen_year` under every profile; a
question that asked the bucket the process writes to now would lose it.  It speaks of
questions with a tag to group by and of a database called "historian" only: without the
one the query ends in a comma, and without the other it asks another database
(`influxdb_v1.go:233`).
`TypeOK` says of the chain that no bucket is filled twice, so that a field has
one name in it.

What the promise excludes is where the code keeps none, each time by one conjunct
of `under` or `IsAskedFor`:

* a reading that a retried flush saves after its first window has closed is in no
  mean, and gone when `gen_raw` gives it up (`Save`);
* a profile that was changed is set up over the old buckets, which keep their
  durations: after simple to optimized, nothing is shortened, and old readings are
  there that no question looks for in `gen_raw`; after optimized to simple, `gen_raw`
  keeps forgetting after two weeks, and new readings are promised nothing (`IsSetUp`);
* sampled energy under the optimized profile is in `gen_year` as "value", and
  `GetDataPoints` asks there for "mean_mean_mean_mean_value" (`mapping.go:57`):
  only the energy question finds it;
* the energy question reads `gen_year` under every profile, and only the
  optimized one writes there, so that sampled energy of another profile is found by
  `GetDataPoints` alone (`influxdb_v1.go:233`);
* lists of devices, locations and types are ranged over by index
  (`influxdb_v1.go:148-156`), so the tag is compared with "0" and nothing is
  found (`listed`).

Deadlock is not checked: time ends with the last age.  No liveness is stated:
nothing in the code makes the server do its part.

### What is proved

`HistorianProofs.tla` proves the four properties for any measurements, ages,
questions (of the type the assumption states), retentions, delay and number of
commands.  `ReadingsAreFound` is about the moment of a question; the invariant
says where a promised reading is at any moment, whatever the profile is by then: `IsInItsBucket`, as long as the
bucket it was written to keeps it, and `IsInTheChain`, in every bucket of means
whose window has closed, under the name the query side will ask for
(`NamesFollow`).  `WindowsClose` ties the clock to the chain, and `StaysSetUp`
says that the promise ends before anything it needs goes away.  The thresholds
then are arithmetic: a bucket that is asked for a range keeps its points for
longer than the range, or the reading is too young for its window to matter.
`ReadingsAreKept` adds that the last window of the chain closes before `gen_raw` gives
a reading up, and `EnergyIsFound` is `IsInItsBucket` for `gen_year`, with what the
query needs.  Both rest on `SetUpFacts`: no set-up makes a duration shorter.

## StorageSetup

`StorageSetup.tla` is how the buckets come about: `Init` as a database sees it,
request by request, in any number of goroutines at a time, against a network that
fails and a program that ends anywhere.

| State | Code |
|---|---|
| `database`, `policies`, `continuous` | what the server has |
| `profile`, `stored`, `state`, `batches` | `Process.Config.Profile`, the same in the file, `Process.State`, whether `batchPoints` was made |
| `pc`, `next`, `object`, `plan`, `step` | the goroutines: where each is, where it goes on after `Init` or `Stop`, what its command is about, and how far its set-up is |
| `orderly`, `promised` | history: whether the last set-up could succeed and nothing was taken away since; whether a command was alone and met nothing |

| Action | Code |
|---|---|
| `Boot`, `Restart` | `InitNewProcess`; the program ends and boots with the stored configuration |
| `EnterInit`, `InitDB`, `SetupStep`, `Built` | `Init`: up to the storage; CREATE DATABASE, whose error is remembered only; one request of `InitDefaultBuckets` or `InitSimpleBuckets`, whose errors end the function or are not looked at; the batches and the state |
| `Start`, `Connect`, `Returns`, `Stop` | `Start`, with or without `Init`, and what comes after it in `UpdateProcConfig`; `Stop` |
| `CtrlStart`, `CtrlStop`, `UpdateConfig`, `DeleteRetentionPolicy`, `DropDB`, `DeletePolicyNow`, `DropDBNow` | the commands with their parts |
| `DeleteCQ`, `SetRetentionPolicy` | the commands of one request |
| `Flush` | what a flush makes of the state, with the database as it is |

The server refuses to make a policy that is there with another duration, and
anything in a database that is not there (`Refused`); a request that fails may
have been carried out.  Left out: `InitDb` off, connection parameters that do not
parse, schedulers and connections (ProcessLifecycle has them), the processes
beside this one, a file that is not written (Registry has it), and the two other
drivers.

### What is checked

`storage_setup` (1,416,361 states): a database that is new, or of an earlier
version with its two old policies; two goroutines; two commands of any kind, on
`gen_year` or `gen_raw`; and one failed request or one end of the program.  Two
goroutines are what can overlap; the second command meets what the first, and the
failure, have left.  The types are one invariant with it that nothing is left of
a dropped database.

* `SetupIsComplete`: after a set-up that met no failure everything is there the
  profile wants, although most errors are not looked at and several goroutines
  may set up at once, two profiles even.
* `RestartsRestore`: a command that ends with `Start`, is alone and meets no
  failure leaves the process RUNNING with everything there: `delete_object`
  makes again what it deletes, and what a failed set-up has left out is made up
  for.

Both promise nothing after `gen_year` was given another duration: CREATE RETENTION
POLICY is then refused at every set-up, and `InitDefaultBuckets` returns with this
first error (`CanSetUp`).  `RestartsRestore` promises nothing in LOST_CONNECTION
and INITIALIZED, in which `Start` does not initialise, although the comment above
it says "try to initialize process first if current state is not INITIALIZED"
(`process.go:434`): `delete_object` then deletes for good.  With
"LOST_CONNECTION" added to the states of `Restarts` the run shows it.

Deadlock is not checked: the commands are finitely many.

### What is proved

`StorageSetupProofs.tla` proves `TypeOK` and `SetupIsComplete` for any set of
goroutines, any buckets touched, and any number of commands, failures and
restarts.  `SetupIsComplete` says nothing while a set-up is under way.  The
invariant `Carried` names a witness for that time: the database is complete
already, or some goroutine has yet to create it, or some goroutine sets up the
profile of the process and everything it has asked for so far is there
(`IsWitness`).  Other goroutines may come and go, also with other profiles: a
request of any profile takes nothing away that another profile wants
(`ApplyGrows`), and cannot give `gen_year` a duration that another refuses
(`ApplyKeepsYear`).  When the witness has made its last request, `RequestsCover`
says that it has asked for everything.

`CommandsRestore` proves `RestartsRestore`.  Its invariant `PromiseInv` follows a
promised command from location to location (`Kept`): it stays alone; until its
set-up begins the state is one in which `Start` initialises, and the set-up can
succeed, or will when the deletion is made; from then on the state is STARTING,
then INITIALIZED, and `orderly` holds, so that `Carried` gives the complete
database when the command returns.

## Findings

* `process.go:307`: the size test reads the map after the unlock
  (`NoMapRace`).  The Go runtime may end the program.
* `process.go:408`: a flush that ends after Stop sets RUNNING; the next Start
  returns at once and nothing runs (`StartStarts`).
* `integration.go:274`: `RemoveProcess` shifts the array that processes point
  into, so after removing process 1 of 3, process 2 works with the
  configuration of 3, and cannot be looked up any more (`LookupIsRight`).

Met while modelling, in the model but with no run of their own:

* `influxdb_v2.go:242`: `WriteDataPoints` returns with its first point, and
  `writeIntoDb` takes its nil error for the whole batch.  `writer_safety` with
  `StorageType = "influxdbV2"` violates `AckedIsStored`.
* `process.go:450`: Start in LOST_CONNECTION forgets the old ticker, so Stop
  leaves a scheduler running.  `lifecycle_serial` with `Faults = {"store"}`
  violates `OneScheduler` and `StopStopsScheduler`.
* `process.go:439` and `admin.go:356`: `delete_object` does not make again what
  it deletes when the connection to the database was lost before.
* `influxdb_v1.go:47-50`: after `update_retention_policy` of `gen_year` a set-up
  ends with its first request, and a bucket that is deleted is gone for good.
* `influxdb_v2.go:251`: InitDB of the InfluxDB 2 driver fails when the
  organization exists, so every Init but the first ends in
  INITIALIZED_WITH_ERRORS, and `InitDefaultBuckets` ends with its first request.
* `influxdb_v1.go:233`: the energy query names the database "historian" where all
  others use the configured name, so a process with another `InfluxDB` writes its
  sampled energy where the question never looks; and an empty `group_by_tag` leaves
  `GROUP BY time(1h), ` behind, which no server accepts (`EnergyFinds`).
* `integration.go:94-98`: of two overlapping `update_config` commands the one
  whose restart ends last assigns its configuration again, with a profile that
  may not be set up (`Returns`).
* `src/README.md:32` names the bucket "default_w20"; the code drops "default_20w"
  and writes "gen_default".  Lines 25 and 47 choose the bucket by the length of
  the range; the code by its beginning only.

* `WriteDirect` before Init panics on the nil map with the mutex locked
  (`process.go:321-330`); `BatchesAreSent` fails with `Faults = {"early"}`.
* A write between Init and Start makes a process RUNNING without a ticker;
  Stop then dereferences nil (`process.go:487`).
* Removing the last process saves an empty list, and the next boot panics on
  its first element (`integration.go:181`).
* `transform.go:34`: the fallback of a series without metadata to its topic is
  never reached, so all devices without metadata share one series per
  measurement and their values are mixed (`DeviceTag`).
* `process.go:242`: without filters nothing is let through, where the comment
  above it says that everything is allowed; of several atomic filters the first
  alone decides unless it has a link, so of the four filters of `testdata/defaults/influxdb.json` the
  last three have no effect (`Filter`).
* A meter that reports both `evt.meter.report` and `evt.meter_ext.report` uses
  one series name for two measurements; the first message decides
  (`transform.go:75` and `135`).
* Start of a connected process in INITIALIZED_WITH_ERRORS initialises it again
  and subscribes a second transport (`process.go:439`); `OneConnection` fails
  with `Faults = {"initdb"}`.

## What is not modelled

* Metadata stores: a table that decides tags and whether a meter is the main
  meter; what it says is an input of Aggregator.
* The disk monitor: it calls Stop, or ends the program, which Registry's `Crash`
  covers.
* `AddFilter`, `RemoveFilter`, `AddSelector` and `RemoveSelector` in `api.go`,
  which nothing calls.
* The InfluxDB 2 and CSV drivers but for writing: their queries and most of their
  administration are empty or commented out.
* Free queries and listings of the API, logging, start-up and file helpers, which
  hold no state that depends on the order of events.  Data frames are commented
  out in the source, and the batch loader is not used.

What each module leaves out is said with it.

Liveness and `ENABLED` are beyond the prover and are left to TLC.  Recursion is
written as recursive functions throughout, so that the provers can unfold it.

## Running

    tlc -workers 2 -config MCBatchWriter_safety.cfg MCBatchWriter.tla
    tlapm BatchWriterProofs.tla

Every configuration is named in `PROJECT.json` with the properties it checks
and the mutation of the code each property detects.

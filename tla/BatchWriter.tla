---------------------------- MODULE BatchWriter ----------------------------
(***************************************************************************)
(* The batching half of a tsdb.Process (src/integration/tsdb/process.go):  *)
(* data points are appended to one in-memory batch per bucket (a retention *)
(* policy) under writeMutex, and a batch is sent to the storage when it    *)
(* reaches BatchMaxSize or when the ticker fires.                          *)
(*                                                                         *)
(* A goroutine is one of                                                   *)
(*   - an ingester: the MQTT router calling OnMessage or the aggregator    *)
(*     worker, both of which call Write;                                   *)
(*   - an API caller: a command goroutine of api/admin.go, which calls     *)
(*     WriteDirect (the same code as Write, with the caller's bucket);     *)
(*   - a ticker goroutine created by Start, which calls writeIntoDb.       *)
(*                                                                         *)
(* A point is an opaque value.  Which bucket Write resolves a measurement  *)
(* to does not matter here, so any bucket may be resolved.                 *)
(***************************************************************************)
EXTENDS Integers, Sequences, FiniteSets, Functions

CONSTANTS
    Ingesters,      \* goroutines that call Write
    ApiCallers,     \* goroutines that call WriteDirect
    Tickers,        \* goroutines started by Start
    Points,         \* data points, each submitted at most once
    Buckets,        \* retention policies a point can be written to
    InitialBuckets, \* the buckets Init creates: gen_raw and gen_default
    BatchMaxSize,   \* ProcessConfig.BatchMaxSize
    MaxAttempts,    \* 5 in the code
    StorageType,    \* ProcessConfig.StorageType
    None            \* no goroutine, no point, no bucket

Writers == Ingesters \cup ApiCallers
Goroutines == Writers \cup Tickers

ASSUME GoroutinesAssumption ==
    /\ IsFiniteSet(Writers)
    /\ Writers \cap Tickers = {}
    /\ None \notin Goroutines
ASSUME PointsAssumption == None \notin Points
ASSUME BucketsAssumption == InitialBuckets \subseteq Buckets /\ None \notin Buckets
ASSUME LimitsAssumption == BatchMaxSize \in Nat \ {0} /\ MaxAttempts \in Nat \ {0}
ASSUME StorageAssumption == StorageType \in {"influxdb", "influxdbV2", "csv"}

(***************************************************************************)
(* Process fields, and the position and locals of every goroutine.         *)
(***************************************************************************)
VARIABLES
    batchPoints, \* the points of every batch, <<>> for a bucket with no batch
    batchKeys,   \* the keys of the batchPoints map
    writeMutex,  \* the goroutine that holds writeMutex, or None
    state,       \* Process.State, as far as a started process changes it
    pc,          \* where each goroutine is
    point,       \* Write's point
    bucket,      \* Write's rpName, writeIntoDb's bpKey
    todo,        \* the buckets writeIntoDb's range loop has not visited
    attempt,     \* writeIntoDb's i
    answer       \* what the last WriteDataPoints returned

(***************************************************************************)
(* History: what became of each point, what the storage holds, and the     *)
(* points each flush has handed to the storage.                            *)
(***************************************************************************)
VARIABLES
    fate,        \* "new", "handed", "pending", "acked", "dropped" or "lost"
    stored,      \* the points the storage holds
    sent,        \* the points of the batch a goroutine is flushing
    tries        \* how often each point was given to WriteDataPoints

procVars  == <<batchPoints, batchKeys, writeMutex, state>>
localVars == <<point, bucket, todo, attempt, answer>>
histVars  == <<fate, stored, sent, tries>>
vars      == <<procVars, pc, localVars, histVars>>

Locations == {"idle", "lock", "append", "check", "flush", "loop", "write", "reset"}
Answers   == {"ok", "rejected", "unreachable"}
Fates     == {"new", "handed", "pending", "acked", "dropped", "lost"}
Inside    == {"handed", "pending"}
Settled   == {"acked", "dropped", "lost"}

Goto(g, l) == pc' = [pc EXCEPT ![g] = l]

(***************************************************************************)
(* The process as Init and Start leave it.  A process whose InitDB failed  *)
(* is started too and keeps the state INITIALIZED_WITH_ERRORS.             *)
(***************************************************************************)
Init ==
    /\ batchPoints = [b \in Buckets |-> <<>>]
    /\ batchKeys = InitialBuckets
    /\ writeMutex = None
    /\ state \in {"RUNNING", "INITIALIZED_WITH_ERRORS"}
    /\ pc = [g \in Goroutines |-> "idle"]
    /\ point = [g \in Goroutines |-> None]
    /\ bucket = [g \in Goroutines |-> None]
    /\ todo = [g \in Goroutines |-> {}]
    /\ attempt = [g \in Goroutines |-> 0]
    /\ answer = [g \in Goroutines |-> "ok"]
    /\ fate = [p \in Points |-> "new"]
    /\ stored = {}
    /\ sent = [g \in Goroutines |-> {}]
    /\ tries = [p \in Points |-> 0]

-----------------------------------------------------------------------------
(* Write and WriteDirect *)

\* A writer is called with a point; rpName is resolved before the lock.
Call(w, p, b) ==
    /\ pc[w] = "idle"
    /\ fate[p] = "new"
    /\ point' = [point EXCEPT ![w] = p]
    /\ bucket' = [bucket EXCEPT ![w] = b]
    /\ fate' = [fate EXCEPT ![p] = "handed"]
    /\ Goto(w, "lock")
    /\ UNCHANGED <<procVars, todo, attempt, answer, stored, sent, tries>>

\* Write: the bucket is the one ResolveWriteRetentionPolicyName returns.
Write(w, p, b) == w \in Ingesters /\ Call(w, p, b)

\* WriteDirect: the bucket is the request's.
WriteDirect(w, p, b) == w \in ApiCallers /\ Call(w, p, b)

\* writeMutex.Lock() in Write and WriteDirect.
LockForAppend(w) ==
    /\ pc[w] = "lock"
    /\ writeMutex = None
    /\ writeMutex' = w
    /\ Goto(w, "append")
    /\ UNCHANGED <<batchPoints, batchKeys, state, localVars, histVars>>

\* The batch Write appends to, created when the map has none for the bucket.
WithPoint(b, p) == [batchPoints EXCEPT ![b] = Append(@, p)]

\* AddPoint and writeMutex.Unlock().
AppendPoint(w) ==
    /\ pc[w] = "append"
    /\ batchPoints' = WithPoint(bucket[w], point[w])
    /\ batchKeys' = batchKeys \cup {bucket[w]}
    /\ fate' = [fate EXCEPT ![point[w]] = "pending"]
    /\ writeMutex' = None
    /\ point' = [point EXCEPT ![w] = None]
    /\ Goto(w, "check")
    /\ UNCHANGED <<state, bucket, todo, attempt, answer, stored, sent, tries>>

\* Mutated form of BatchIsFull: the test is off by one.
BatchIsFullOffByOne(b) == Len(batchPoints[b]) > BatchMaxSize

\* The size test that follows the unlock.
BatchIsFull(b) == Len(batchPoints[b]) >= BatchMaxSize

\* The test reads batchPoints without the mutex.
CheckSize(w) ==
    /\ pc[w] = "check"
    /\ Goto(w, IF BatchIsFull(bucket[w]) THEN "flush" ELSE "idle")
    /\ bucket' = [bucket EXCEPT ![w] = None]
    /\ UNCHANGED <<procVars, point, todo, attempt, answer, histVars>>

-----------------------------------------------------------------------------
(* writeIntoDb *)

\* The ticker goroutine receives from ticker.C; ticks missed meanwhile are dropped.
Tick(t) ==
    /\ t \in Tickers
    /\ pc[t] = "idle"
    /\ Goto(t, "flush")
    /\ UNCHANGED <<procVars, localVars, histVars>>

\* Mutated form of LockForFlush: writeIntoDb without its mutex.
LockForFlushUnlocked(g) ==
    /\ pc[g] = "flush"
    /\ todo' = [todo EXCEPT ![g] = batchKeys]
    /\ Goto(g, "loop")
    /\ UNCHANGED <<procVars, point, bucket, attempt, answer, histVars>>

\* writeMutex.Lock() and the start of the range over batchPoints.
LockForFlush(g) ==
    /\ pc[g] = "flush"
    /\ writeMutex = None
    /\ writeMutex' = g
    /\ todo' = [todo EXCEPT ![g] = batchKeys]
    /\ Goto(g, "loop")
    /\ UNCHANGED <<batchPoints, batchKeys, state, point, bucket, attempt, answer,
                   histVars>>

\* The next bucket of the range, in any order; an empty batch is skipped.
NextBucket(g, b) ==
    /\ pc[g] = "loop"
    /\ b \in todo[g]
    /\ todo' = [todo EXCEPT ![g] = @ \ {b}]
    /\ IF batchPoints[b] = <<>>
       THEN UNCHANGED <<bucket, pc>>
       ELSE bucket' = [bucket EXCEPT ![g] = b] /\ Goto(g, "write")
    /\ UNCHANGED <<procVars, point, attempt, answer, histVars>>

\* Mutated form of Offered: only the first point of the batch is sent.
OfferedFirst(batch) == {Head(batch)}

\* The points of a batch that WriteDataPoints offers to the store: the
\* InfluxDB 2 driver returns from its loop with the first one.
Offered(batch) ==
    IF StorageType = "influxdbV2" THEN {Head(batch)} ELSE Range(batch)

\* Mutated form of WriteDataPoints: the driver swallows the error of its client.
WriteDataPointsSwallowed(batch) == {"ok"} \X SUBSET Offered(batch)

\* WriteDataPoints: its answer, and the points the store has written by then.
\* A refused or timed-out request may have been applied in part.  The CSV
\* driver ignores what the writer returns and never fails.
WriteDataPoints(batch) ==
    IF StorageType = "csv"
    THEN {"ok"} \X SUBSET Offered(batch)
    ELSE {<<"ok", Offered(batch)>>} \cup
         ({"rejected", "unreachable"} \X SUBSET Offered(batch))

\* Mutated forms of LastAttempt: one round too many, and no second round.
LastAttemptLate(n, ans) == ans # "unreachable" \/ n > MaxAttempts
LastAttemptEarly(n, ans) == n > 0

\* The retry loop goes on only after an error it does not know, MaxAttempts times.
LastAttempt(n, ans) == ans # "unreachable" \/ n = MaxAttempts

\* One round of the retry loop, and the sleep that follows a failed one.
Attempt(g, ans, written) ==
    /\ pc[g] = "write"
    /\ LET batch == batchPoints[bucket[g]]
       IN  /\ <<ans, written>> \in WriteDataPoints(batch)
           /\ sent' = [sent EXCEPT ![g] = Range(batch)]
           /\ tries' = [p \in Points |->
                            IF p \in Range(batch) THEN tries[p] + 1 ELSE tries[p]]
    /\ stored' = stored \cup written
    /\ attempt' = [attempt EXCEPT ![g] = @ + 1]
    /\ answer' = [answer EXCEPT ![g] = ans]
    /\ Goto(g, IF LastAttempt(attempt[g] + 1, ans) THEN "reset" ELSE "write")
    /\ UNCHANGED <<procVars, point, bucket, todo, fate>>

\* Mutated form of StateAfter: a refused batch reports RUNNING as well.
StateAfterAny(ans) == IF ans = "unreachable" THEN "LOST_CONNECTION" ELSE "RUNNING"

\* Process.State after a batch: any success reports RUNNING, a refusal nothing.
StateAfter(ans) ==
    CASE ans = "ok"          -> "RUNNING"
      [] ans = "unreachable" -> "LOST_CONNECTION"
      [] OTHER               -> state

\* Mutated form of WithoutBatch: the batch is kept.
WithoutBatchKept(b) == batchPoints

\* InitBatchPoint(bpKey): a fresh batch, whatever became of the old one.
WithoutBatch(b) == [batchPoints EXCEPT ![b] = <<>>]

\* The end of the loop body.  What was sent is settled, one way or the other.
ResetBatch(g) ==
    /\ pc[g] = "reset"
    /\ state' = StateAfter(answer[g])
    /\ batchPoints' = WithoutBatch(bucket[g])
    /\ fate' = [p \in Points |->
                   IF p \in sent[g]
                   THEN IF answer[g] = "ok" THEN "acked" ELSE "dropped"
                   ELSE fate[p]]
    /\ sent' = [sent EXCEPT ![g] = {}]
    /\ bucket' = [bucket EXCEPT ![g] = None]
    /\ attempt' = [attempt EXCEPT ![g] = 0]
    /\ answer' = [answer EXCEPT ![g] = "ok"]
    /\ Goto(g, "loop")
    /\ UNCHANGED <<batchKeys, writeMutex, point, todo, stored, tries>>

\* The range is exhausted: the deferred Unlock.
EndFlush(g) ==
    /\ pc[g] = "loop"
    /\ todo[g] = {}
    /\ writeMutex' = None
    /\ Goto(g, "idle")
    /\ UNCHANGED <<batchPoints, batchKeys, state, localVars, histVars>>

-----------------------------------------------------------------------------
(* The fatal map race and the restart after it *)

\* CheckSize reads the map with no lock.
ReadsMap(g) == pc[g] = "check"

\* InitBatchPoint assigns a map entry: in ResetBatch, and in AppendPoint when
\* the bucket has no batch yet.
WritesMap(g) ==
    \/ pc[g] = "reset"
    \/ pc[g] = "append" /\ bucket[g] \notin batchKeys

MapRace == \E g, h \in Goroutines : ReadsMap(g) /\ WritesMap(h)

\* The Go runtime may notice the overlap: "fatal error: concurrent map read and
\* map write" ends the program, and systemd starts it again (Restart=always).
\* Boot initialises and starts the process; what was in memory is gone.
CrashAndRestart ==
    /\ MapRace
    /\ batchPoints' = [b \in Buckets |-> <<>>]
    /\ batchKeys' = InitialBuckets
    /\ writeMutex' = None
    /\ state' \in {"RUNNING", "INITIALIZED_WITH_ERRORS"}
    /\ pc' = [g \in Goroutines |-> "idle"]
    /\ point' = [g \in Goroutines |-> None]
    /\ bucket' = [g \in Goroutines |-> None]
    /\ todo' = [g \in Goroutines |-> {}]
    /\ attempt' = [g \in Goroutines |-> 0]
    /\ answer' = [g \in Goroutines |-> "ok"]
    /\ fate' = [p \in Points |-> IF fate[p] \in Inside THEN "lost" ELSE fate[p]]
    /\ sent' = [g \in Goroutines |-> {}]
    /\ UNCHANGED <<stored, tries>>

-----------------------------------------------------------------------------
\* A goroutine inside Write or writeIntoDb goes on, waiting for the mutex aside.
Advance(g) ==
    \/ AppendPoint(g)
    \/ CheckSize(g)
    \/ \E b \in Buckets : NextBucket(g, b)
    \/ \E ans \in Answers, written \in SUBSET Points : Attempt(g, ans, written)
    \/ ResetBatch(g)
    \/ EndFlush(g)

Lock(g) == LockForAppend(g) \/ LockForFlush(g)

Next ==
    \/ \E w \in Writers, p \in Points, b \in Buckets : Write(w, p, b) \/ WriteDirect(w, p, b)
    \/ \E t \in Tickers : Tick(t)
    \/ \E g \in Goroutines : Lock(g) \/ Advance(g)
    \/ CrashAndRestart

Spec == Init /\ [][Next]_vars

(***************************************************************************)
(* Fairness.  The Go scheduler runs every runnable goroutine; a sync.Mutex *)
(* hands over to the longest waiter after 1 ms (starvation mode), so a     *)
(* waiter is not overtaken for ever; every call to the storage returns (a  *)
(* driver has a timeout) and the retry loop is bounded; the ticker fires   *)
(* again and again.  Nothing makes a message arrive.                       *)
(***************************************************************************)
GoroutineFairness == \A g \in Goroutines : WF_vars(Advance(g)) /\ SF_vars(Lock(g))
TickerFairness == \A t \in Tickers : WF_vars(Tick(t))

FairSpec == Spec /\ GoroutineFairness /\ TickerFairness

-----------------------------------------------------------------------------
(* Properties *)

\* Every variable has its type.
TypeOK ==
    /\ batchPoints \in [Buckets -> Seq(Points)]
    /\ batchKeys \in SUBSET Buckets
    /\ writeMutex \in Goroutines \cup {None}
    /\ state \in {"RUNNING", "INITIALIZED_WITH_ERRORS", "LOST_CONNECTION"}
    /\ pc \in [Goroutines -> Locations]
    /\ point \in [Goroutines -> Points \cup {None}]
    /\ bucket \in [Goroutines -> Buckets \cup {None}]
    /\ todo \in [Goroutines -> SUBSET Buckets]
    /\ attempt \in [Goroutines -> 0 .. MaxAttempts]
    /\ answer \in [Goroutines -> Answers]
    /\ fate \in [Points -> Fates]
    /\ stored \in SUBSET Points
    /\ sent \in [Goroutines -> SUBSET Points]
    /\ tries \in [Points -> Nat]

\* A batch outgrows BatchMaxSize - 1 by at most one point per goroutine that
\* writes: the size test runs after the unlock, so other writers append before
\* the flush it starts, but each of them is then bound to flush as well
\* (process.go:306-309; the "protection against infinite grows" of 418-425
\* never sees a batch it could protect).
BatchBounded ==
    \A b \in Buckets : Len(batchPoints[b]) <= BatchMaxSize - 1 + Cardinality(Writers)

\* Every point a writer has appended waits in exactly one place of exactly one
\* batch until it is settled, and a batch holds nothing else: no interleaving
\* of appends, size tests, retries and resets duplicates a point or lets one
\* fall out of its batch unsettled (Write, WriteDirect, writeIntoDb).
PendingInOneBatch ==
    /\ \A p \in Points :
          fate[p] = "pending" <=> \E b \in Buckets : p \in Range(batchPoints[b])
    /\ \A b, c \in Buckets : \A i \in DOMAIN batchPoints[b], j \in DOMAIN batchPoints[c] :
          batchPoints[b][i] = batchPoints[c][j] => b = c /\ i = j

\* No point is offered to the store more than MaxAttempts times in all: a batch
\* that was given up is never carried into the next flush (process.go:380, 405).
RetriesBounded == \A p \in Points : tries[p] <= MaxAttempts

\* A point is dropped only when the store refused the batch it was sent in, or
\* left all MaxAttempts requests with that very point unanswered
\* (process.go:382-391).
DropIsJustified ==
    [][\A p \in Points :
         fate[p] # "dropped" /\ fate'[p] = "dropped" =>
            \/ tries[p] = MaxAttempts
            \/ \E g \in Goroutines : p \in sent[g] /\ answer[g] = "rejected"]_vars

\* A point writeIntoDb reports as written is in the database (process.go:407-411).
AckedIsStored == \A p \in Points : fate[p] = "acked" => p \in stored

\* Two goroutines never touch the batchPoints map at once, one of them writing
\* (process.go:367).
NoMapRace == ~MapRace

\* LOST_CONNECTION is left only by a batch that was written or by a restart,
\* and entered only when points are dropped (process.go:402, 408-410).
StateFollowsStorage ==
    [][ /\ state = "LOST_CONNECTION" /\ state' # state =>
              \/ \E p \in Points : fate[p] = "pending" /\ fate'[p] = "acked"
              \/ \A g \in Goroutines : pc'[g] = "idle"
        /\ state' = "LOST_CONNECTION" /\ state' # state =>
              \E p \in Points : fate[p] = "pending" /\ fate'[p] = "dropped" ]_vars

\* The abstract view of a point: where in the process it is does not matter.
Status == [p \in Points |-> CASE fate[p] = "new"    -> "outside"
                              [] fate[p] \in Inside -> "inside"
                              [] OTHER              -> fate[p]]

Delivery == INSTANCE PointDelivery WITH status <- Status, saved <- stored

\* The batches, the mutex and the retries implement PointDelivery: a batch is
\* settled as a whole and once, only saved points are acknowledged, and no
\* point stays inside for ever (Write, WriteDirect and writeIntoDb together).
ImplementsDelivery == Delivery!FairSpec

-----------------------------------------------------------------------------
(***************************************************************************)
(* The inductive invariant behind the safety properties.                   *)
(***************************************************************************)

\* The goroutines between Lock and Unlock.
Critical == {"append", "loop", "write", "reset"}

MutexInv == \A g \in Goroutines : pc[g] \in Critical <=> writeMutex = g

\* What the locals of a goroutine hold at each place.
LocalsInv ==
    \A g \in Goroutines :
        /\ pc[g] \in {"lock", "append"} => point[g] \in Points
        /\ pc[g] \in {"lock", "append", "check"} => g \in Writers /\ bucket[g] \in Buckets
        /\ pc[g] \in {"write", "reset"} => bucket[g] \in Buckets
        /\ pc[g] = "write" => attempt[g] < MaxAttempts
        /\ pc[g] \notin {"write", "reset"} => attempt[g] = 0

\* A bucket without a key in the map has no points.
KeysInv == \A b \in Buckets : b \notin batchKeys => batchPoints[b] = <<>>

\* The writers that will look at the size of the batch again, or empty it.
Due(b) ==
    {w \in Writers :
        \/ pc[w] = "check" /\ bucket[w] = b
        \/ pc[w] = "flush"
        \/ pc[w] \in {"loop", "write", "reset"} /\ b \in todo[w]
        \/ pc[w] \in {"write", "reset"} /\ bucket[w] = b}

\* Every point beyond BatchMaxSize - 1 is answered for by a writer of its own.
DueInv ==
    \A b \in Buckets : Len(batchPoints[b]) <= BatchMaxSize - 1 + Cardinality(Due(b))

\* A point on its way to a batch is carried by exactly one writer.
HandedInv ==
    /\ \A w \in Goroutines :
          pc[w] \in {"lock", "append"} => fate[point[w]] = "handed"
    /\ \A w, v \in Goroutines :
          pc[w] \in {"lock", "append"} /\ pc[v] \in {"lock", "append"} /\ point[w] = point[v]
             => w = v

\* What a flush has sent is what its batch holds, and it gave up only after
\* the last attempt.
SentInv ==
    \A g \in Goroutines :
        /\ pc[g] = "reset" => sent[g] = Range(batchPoints[bucket[g]])
        /\ pc[g] = "reset" /\ answer[g] = "ok" /\ StorageType = "influxdb"
              => sent[g] \subseteq stored
        /\ pc[g] = "reset" /\ answer[g] = "unreachable" => attempt[g] = MaxAttempts

\* A point has been tried as often as the flush that holds its batch has been round.
TriesInv ==
    \A p \in Points :
        /\ fate[p] \in {"new", "handed"} => tries[p] = 0
        /\ \A b \in Buckets :
              p \in Range(batchPoints[b]) =>
                 \/ /\ tries[p] = 0
                    /\ \A g \in Goroutines : pc[g] \in {"write", "reset"} => bucket[g] # b
                 \/ \E g \in Goroutines :
                       pc[g] \in {"write", "reset"} /\ bucket[g] = b /\ tries[p] = attempt[g]

IndInv ==
    /\ TypeOK
    /\ MutexInv
    /\ LocalsInv
    /\ KeysInv
    /\ DueInv
    /\ PendingInOneBatch
    /\ HandedInv
    /\ SentInv
    /\ TriesInv
    /\ RetriesBounded
    /\ StorageType = "influxdb" => AckedIsStored
=============================================================================

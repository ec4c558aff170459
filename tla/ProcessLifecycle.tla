-------------------------- MODULE ProcessLifecycle --------------------------
(***************************************************************************)
(* The life of one tsdb.Process (src/integration/tsdb/process.go): Init,   *)
(* Start, Stop and Configure, each run by a goroutine of its own (boot, or *)
(* one per API command, api/admin.go), against the goroutines they leave   *)
(* behind: one ticker goroutine per Start, the callbacks of every MQTT     *)
(* transport and the aggregator workers.  No mutex guards these fields     *)
(* (apiMutex guards the lists of filters and selectors only).              *)
(*                                                                         *)
(* What is in the batches is one bit here: whether a point waits.  The     *)
(* batches themselves are BatchWriter's.  Transports are numbered in the   *)
(* order they are made; a ticker is named after the call that made it.     *)
(***************************************************************************)
EXTENDS Naturals, Sequences, FiniteSets

CONSTANTS
    Calls,   \* goroutines that call into the process, one command each
    Serial,  \* TRUE when no call begins before the last one has returned
    Faults,  \* what may go wrong: "open", "initdb", "mqtt", "store" name what
             \* may fail, "early" API writes to a process never started
    None     \* a nil ticker, or nobody

ASSUME CallsAssumption == None \notin Calls /\ "writer" \notin Calls
ASSUME ModesAssumption ==
    Serial \in BOOLEAN /\ Faults \subseteq {"open", "initdb", "mqtt", "store", "early"}

VARIABLES
    state,      \* Process.State
    storage,    \* Process.storage is nil, in use or closed
    transport,  \* Process.mqttTransport: its number, 0 while it is nil
    ticker,     \* Process.ticker: the call that created it
    transports, \* every MQTT transport that was made
    tickers,    \* every time.Ticker with its goroutine
    waiting,    \* a point waits in the current batches
    inside,     \* a point is inside the aggregator
    flusher,    \* who is in writeIntoDb, sending a batch
    replaced,   \* Init has replaced batchPoints under the running flush
    mutexLost,  \* writeMutex is held by a goroutine that is gone
    pc,         \* where each call is
    next        \* where a call goes on after Init or Stop

procVars  == <<state, storage, transport, ticker>>
leftVars  == <<transports, tickers>>
dataVars  == <<waiting, inside, flusher, replaced, mutexLost>>
callVars  == <<pc, next>>
vars      == <<procVars, leftVars, dataVars, callVars>>

States == {"LOADED", "STARTING", "INIT_FAILED", "INITIALIZED_WITH_ERRORS", "INITIALIZED",
           "RUNNING", "LOST_CONNECTION", "STOPPED"}
Locations == {"ready", "init", "open", "initdb", "build", "start", "tick", "connect",
              "finish", "stop", "close", "done"}

(***************************************************************************)
(* NewProcess.                                                             *)
(***************************************************************************)
Init ==
    /\ state = "LOADED"
    /\ storage = "nil"
    /\ transport = 0
    /\ ticker = None
    /\ transports = <<>>
    /\ tickers = [c \in Calls |-> "none"]
    /\ waiting = FALSE
    /\ inside = FALSE
    /\ flusher = None
    /\ replaced = FALSE
    /\ mutexLost = FALSE
    /\ pc = [c \in Calls |-> "ready"]
    /\ next = [c \in Calls |-> "done"]

Goto(c, l) == pc' = [pc EXCEPT ![c] = l]

-----------------------------------------------------------------------------
(* The calls *)

MayBegin(c) ==
    /\ pc[c] = "ready"
    /\ Serial => \A d \in Calls : pc[d] \in {"ready", "done"}

\* A call at location l, which continues at n when the first half is through.
Begin(c, l, n) ==
    /\ MayBegin(c)
    /\ Goto(c, l)
    /\ next' = [next EXCEPT ![c] = n]
    /\ UNCHANGED <<procVars, leftVars, dataVars>>

\* InitNewProcess with Autostart: Init, then Start.
Boot(c) == state = "LOADED" /\ Begin(c, "init", "start")

CallStart(c) == Begin(c, "start", "done")

CallStop(c) == Begin(c, "stop", "done")

\* Configure with doRestart and the delete_object command: Stop, its error
\* ignored, then Start.
CallRestart(c) == Begin(c, "stop", "start")

-----------------------------------------------------------------------------
(* Init *)

EnterInit(c) ==
    /\ pc[c] = "init"
    /\ state' = "STARTING"
    /\ Goto(c, "open")
    /\ UNCHANGED <<storage, transport, ticker, leftVars, dataVars, next>>

\* Mutated form of StateOfFailedInit: the failure is returned, not recorded.
StateOfFailedInitUnset == state

\* Mutated form of StateOfFailedInit: a literal that is none of the states.
StateOfFailedInitTypo == "INIT_FAIL"

\* The state after a storage constructor that failed.
StateOfFailedInit == "INIT_FAILED"

\* NewInfluxV1Storage, NewInfluxV2Storage or NewCsvStorage.  The pointer is
\* overwritten in either case.
OpenStorage(c) ==
    /\ pc[c] = "open"
    /\ \/ storage' = "open" /\ UNCHANGED state /\ Goto(c, "initdb")
       \/ /\ "open" \in Faults
          /\ storage' = "nil"
          /\ state' = StateOfFailedInit
          /\ Goto(c, "done")
    /\ UNCHANGED <<transport, ticker, leftVars, dataVars, next>>

\* InitDB and the retention policies.  A failure is recorded, and Init goes on.
InitDB(c) ==
    /\ pc[c] = "initdb"
    /\ \/ UNCHANGED state
       \/ "initdb" \in Faults /\ state' = "INITIALIZED_WITH_ERRORS"
    /\ Goto(c, "build")
    /\ UNCHANGED <<storage, transport, ticker, leftVars, dataVars, next>>

\* New batches, replacing the old ones without writeMutex, a new transport and
\* a new aggregator worker.
Build(c) ==
    /\ pc[c] = "build"
    /\ waiting' = FALSE
    /\ replaced' = (flusher # None)
    /\ transports' = Append(transports, "created")
    /\ transport' = Len(transports')
    /\ state' = IF state = "STARTING" THEN "INITIALIZED" ELSE state
    /\ Goto(c, next[c])
    /\ next' = [next EXCEPT ![c] = "done"]
    /\ UNCHANGED <<storage, ticker, tickers, inside, flusher, mutexLost>>

-----------------------------------------------------------------------------
(* Start *)

\* Mutated form of AlreadyUp: a running process can be started again.
AlreadyUpNot == {"STARTING"}

\* The states in which Start returns at once.
AlreadyUp == {"RUNNING", "STARTING"}

\* Mutated form of NeedsInit: a loaded process is taken for an initialised one.
NeedsInitNotLoaded == {"INIT_FAILED", "INITIALIZED_WITH_ERRORS", "STOPPED"}

\* The states in which Start initialises the process first.
NeedsInit == {"INIT_FAILED", "LOADED", "INITIALIZED_WITH_ERRORS", "STOPPED"}

Start(c) ==
    /\ pc[c] = "start"
    /\ IF state \in AlreadyUp
       THEN Goto(c, "done") /\ UNCHANGED next
       ELSE IF state \in NeedsInit
            THEN Goto(c, "init") /\ next' = [next EXCEPT ![c] = "tick"]
            ELSE Goto(c, "tick") /\ UNCHANGED next
    /\ UNCHANGED <<procVars, leftVars, dataVars>>

\* A new ticker with its goroutine; the old one is forgotten, not stopped.
StartTicker(c) ==
    /\ pc[c] = "tick"
    /\ ticker' = c
    /\ tickers' = [tickers EXCEPT ![c] = "live"]
    /\ Goto(c, "connect")
    /\ UNCHANGED <<state, storage, transport, transports, dataVars, next>>

\* mqttTransport.Start, on the transport the process has now.  An error leaves
\* the state and the ticker as they are.
Connect(c) ==
    /\ pc[c] = "connect"
    /\ \/ /\ transports' = [transports EXCEPT ![transport] = "connected"]
          /\ Goto(c, "finish")
       \/ "mqtt" \in Faults /\ Goto(c, "done") /\ UNCHANGED transports
    /\ UNCHANGED <<procVars, tickers, dataVars, next>>

\* The subscriptions, and RUNNING.
FinishStart(c) ==
    /\ pc[c] = "finish"
    /\ state' = IF state = "INITIALIZED" THEN "RUNNING" ELSE state
    /\ Goto(c, "done")
    /\ UNCHANGED <<storage, transport, ticker, leftVars, dataVars, next>>

-----------------------------------------------------------------------------
(* Stop *)

\* Mutated form of Stopped: the ticker is left running.
StoppedNot == {"live"}

\* ticker.Stop takes no tick back that is already in the channel.
Stopped == {"stopped", "buffered"}

\* Stop refuses a process that is not RUNNING, and stops the ticker it has now.
\* An API write that fills a batch between Init and Start makes a process
\* RUNNING that has no ticker yet: pr.ticker.Stop panics and the API goroutine
\* recovers, with the rest of its command undone.
StopTicker(c) ==
    /\ pc[c] = "stop"
    /\ UNCHANGED <<procVars, transports, dataVars>>
    /\ \/ /\ state # "RUNNING"
          /\ Goto(c, next[c])
          /\ next' = [next EXCEPT ![c] = "done"]
          /\ UNCHANGED tickers
       \/ /\ state = "RUNNING" /\ ticker = None
          /\ Goto(c, "done")
          /\ UNCHANGED <<tickers, next>>
       \/ /\ state = "RUNNING" /\ ticker # None
          /\ IF tickers[ticker] = "live"
             THEN \E t \in Stopped : tickers' = [tickers EXCEPT ![ticker] = t]
             ELSE UNCHANGED tickers
          /\ Goto(c, "close")
          /\ UNCHANGED next

\* Mutated form of StopTransport: the transport is left connected.
StopTransportNot == transports

\* mqttTransport.Stop on the transport the process has now.
StopTransport == [transports EXCEPT ![transport] = "stopped"]

\* Unsubscribe, storage.Close, mqttTransport.Stop and STOPPED.
FinishStop(c) ==
    /\ pc[c] = "close"
    /\ storage' = "closed"
    /\ transports' = StopTransport
    /\ state' = "STOPPED"
    /\ Goto(c, next[c])
    /\ next' = [next EXCEPT ![c] = "done"]
    /\ UNCHANGED <<transport, ticker, tickers, dataVars>>

-----------------------------------------------------------------------------
(* What runs beside the calls *)

Connected == {n \in DOMAIN transports : transports[n] = "connected"}
LiveTickers == {c \in Calls : tickers[c] = "live"}

\* A point is appended to a batch, under writeMutex.
AppendPoint ==
    /\ ~mutexLost /\ ~waiting
    /\ waiting' = TRUE
    /\ UNCHANGED <<procVars, leftVars, flusher, replaced, mutexLost, callVars>>

\* OnMessage on a connected transport, with a point for the batch or for the
\* aggregator.  The same callback serves every transport.
Message ==
    /\ Connected # {}
    /\ \/ AppendPoint /\ UNCHANGED inside
       \/ /\ ~inside /\ inside' = TRUE
          /\ UNCHANGED <<procVars, leftVars, waiting, flusher, replaced, mutexLost, callVars>>

\* An aggregator worker writes what the aggregator publishes; the workers and
\* the aggregator run on after Stop.
WorkerWrites == inside /\ inside' = FALSE /\ AppendPoint

\* WriteDirect of an API command, which looks at no state.  Before Init the
\* batchPoints map is nil: InitBatchPoint panics between Lock and Unlock, the
\* API goroutine recovers, and the mutex stays locked.
ApiWrites ==
    /\ ticker = None => "early" \in Faults
    /\ UNCHANGED inside
    /\ \/ transport # 0 /\ AppendPoint
       \/ /\ transport = 0 /\ ~mutexLost
          /\ mutexLost' = TRUE
          /\ UNCHANGED <<procVars, leftVars, waiting, flusher, replaced, callVars>>

\* Somebody takes writeMutex in writeIntoDb, with a point to send.
BeginFlush(f) ==
    /\ flusher = None /\ waiting /\ ~mutexLost
    /\ flusher' = f
    /\ UNCHANGED <<procVars, transports, waiting, inside, replaced, mutexLost, callVars>>

\* A ticker goroutine sends.  A goroutine whose ticker has been stopped may
\* still take the one tick that was in the channel.
TickerFlushes(c) ==
    /\ tickers[c] \in {"live", "buffered"}
    /\ tickers' = [tickers EXCEPT ![c] = IF @ = "buffered" THEN "stopped" ELSE @]
    /\ BeginFlush(c)

\* A writer (OnMessage, an aggregator worker, or WriteDirect of an API command)
\* finds its batch full.
WriterFlushes == BeginFlush("writer") /\ UNCHANGED tickers

\* Mutated form of StateAfterWrite: a success does not end LOST_CONNECTION.
StateAfterWriteSticky == state

\* A batch was written: whatever the state was, the process is RUNNING.
StateAfterWrite == "RUNNING"

\* The flush ends; its batch is gone either way.
EndFlush(s) ==
    /\ flusher # None
    /\ flusher' = None
    /\ waiting' = FALSE
    /\ replaced' = FALSE
    /\ state' = s
    /\ UNCHANGED <<storage, transport, ticker, leftVars, inside, mutexLost, callVars>>

FlushWrites == storage # "nil" /\ EndFlush(StateAfterWrite)
FlushRefused == storage # "nil" /\ EndFlush(state)
FlushFails == storage # "nil" /\ "store" \in Faults /\ EndFlush("LOST_CONNECTION")

\* A flush dereferences a nil pointer: the storage of a failed Init, or the
\* entry of a bucket that is not in the map Init has put under it.
FlushPanics == flusher # None /\ (replaced \/ storage = "nil")

\* Mutated form of UnlockAfterPanic: an Unlock at the end, without defer.
UnlockAfterPanicNot == mutexLost' = TRUE

\* The deferred Unlock of writeIntoDb runs in a panic too.
UnlockAfterPanic == UNCHANGED mutexLost

\* OnMessage and the API goroutine recover.
PanicRecovered ==
    /\ FlushPanics
    /\ flusher = "writer"
    /\ flusher' = None
    /\ replaced' = FALSE
    /\ UnlockAfterPanic
    /\ UNCHANGED <<procVars, leftVars, waiting, inside, callVars>>

\* In a ticker or worker goroutine it ends the program.  systemd starts the
\* program again; calls under way are gone.
PanicEndsProgram ==
    /\ FlushPanics
    /\ state' = "LOADED"
    /\ storage' = "nil"
    /\ transport' = 0
    /\ ticker' = None
    /\ transports' = <<>>
    /\ tickers' = [c \in Calls |-> "none"]
    /\ waiting' = FALSE
    /\ inside' = FALSE
    /\ flusher' = None
    /\ replaced' = FALSE
    /\ mutexLost' = FALSE
    /\ pc' = [c \in Calls |-> IF pc[c] = "ready" THEN "ready" ELSE "done"]
    /\ next' = [c \in Calls |-> "done"]

-----------------------------------------------------------------------------
CallBegins(c) == Boot(c) \/ CallStart(c) \/ CallStop(c) \/ CallRestart(c)

CallProceeds(c) ==
    \/ EnterInit(c) \/ OpenStorage(c) \/ InitDB(c) \/ Build(c)
    \/ Start(c) \/ StartTicker(c) \/ Connect(c) \/ FinishStart(c)
    \/ StopTicker(c) \/ FinishStop(c)

FlushBegins == WriterFlushes \/ \E c \in Calls : TickerFlushes(c)
FlushEnds ==
    FlushWrites \/ FlushRefused \/ FlushFails \/ PanicRecovered \/ PanicEndsProgram

Next ==
    \/ \E c \in Calls : CallBegins(c) \/ CallProceeds(c)
    \/ Message
    \/ WorkerWrites
    \/ ApiWrites
    \/ FlushBegins
    \/ FlushEnds

Spec == Init /\ [][Next]_vars

(***************************************************************************)
(* Fairness.  A call proceeds (every network operation returns), tickers   *)
(* fire, and a flush ends.  Messages keep arriving on a connected          *)
(* transport, so that a batch is full in the end when no ticker empties it *)
(* before, and a store that is tried again and again answers once: these   *)
(* are the environment's part.                                             *)
(***************************************************************************)
FairSpec ==
    /\ Spec
    /\ \A c \in Calls : WF_vars(CallProceeds(c)) /\ WF_vars(TickerFlushes(c))
    /\ WF_vars(Message) /\ WF_vars(WorkerWrites)
    /\ WF_vars(Connected # {} /\ WriterFlushes)
    /\ WF_vars(FlushEnds) /\ SF_vars(FlushWrites)

-----------------------------------------------------------------------------
(* Properties *)

\* Every variable has its type.
TypeOK ==
    /\ state \in States
    /\ storage \in {"nil", "open", "closed"}
    /\ transport \in 0 .. Len(transports)
    /\ ticker \in Calls \cup {None}
    /\ transports \in Seq({"created", "connected", "stopped"})
    /\ tickers \in [Calls -> {"none", "live", "buffered", "stopped"}]
    /\ waiting \in BOOLEAN /\ inside \in BOOLEAN
    /\ replaced \in BOOLEAN /\ mutexLost \in BOOLEAN
    /\ flusher \in Calls \cup {"writer", None}
    /\ pc \in [Calls -> Locations]
    /\ next \in [Calls -> Locations]

\* Start skips Init only for a process that has a transport to connect, and
\* Stop stops only a transport that exists: neither dereferences a nil
\* mqttTransport, whatever other calls and late flushes do to the state between
\* its steps (process.go:435-456, 483-492).
TransportExists ==
    /\ \A c \in Calls : pc[c] \in {"tick", "connect", "finish", "close"} => transport # 0
    /\ state = "RUNNING" => transport # 0

\* A process is STARTING only while a call is in Init: concurrent calls and
\* late flushes never leave it there, where Start would take it for started
\* and Stop would refuse it (process.go:63, 76, 85, 115, 435, 483).
StartingIsTransient == state = "STARTING" ~> state # "STARTING"

\* A process that has lost its database and still has its MQTT connection is
\* taken out of LOST_CONNECTION once the database answers again
\* (process.go:402, 408-410).
LostConnectionRecovers ==
    state = "LOST_CONNECTION" /\ Connected # {} ~> state # "LOST_CONNECTION"

\* While messages arrive on a connected transport, batches are sent to the
\* database (model.go:92-94, process.go:154-178, 306-309, 451-455).
BatchesAreSent == Connected # {} ~> flusher # None \/ Connected = {}

\* Messages are processed once: no two transports are subscribed at a time
\* (process.go:112-113, 435-443, 492).
OneConnection == Cardinality(Connected) <= 1

\* The process has one scheduler at a time (process.go:450-455, 487).
OneScheduler == Cardinality(LiveTickers) <= 1

\* After a Stop that was not refused no scheduler runs (process.go:480-481).
StopStopsScheduler == state = "STOPPED" => LiveTickers = {}

\* When Start returns without an error the adapter and a scheduler are started,
\* by this call or, where it finds the process RUNNING, by an earlier one
\* (process.go:430-438).
StartStarts ==
    [][\A c \in Calls : pc[c] = "start" /\ pc'[c] = "done" =>
           Connected # {} /\ LiveTickers # {}]_vars
=============================================================================

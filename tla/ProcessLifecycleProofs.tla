----------------------- MODULE ProcessLifecycleProofs -----------------------
(***************************************************************************)
(* For any number of calls, however they and the goroutines they leave     *)
(* behind interleave, no call uses a transport that was never made.  For   *)
(* calls one after the other, of which Start and InitDB meet no failure,   *)
(* there is one connection and one scheduler at a time: what was started   *)
(* is recorded in State until a Stop has ended it.                         *)
(***************************************************************************)
EXTENDS ProcessLifecycle, FiniteSetTheorems, TLAPS

\* A process that Init has not built yet has none of what a transport brings.
NotBuilt ==
    /\ state \in {"LOADED", "STARTING", "INIT_FAILED", "INITIALIZED_WITH_ERRORS"}
    /\ transports = <<>>
    /\ ~waiting /\ ~inside /\ flusher = None
    /\ \A c \in Calls : pc[c] \notin {"tick", "connect", "finish", "close"}

\* After Stop a call is over, or goes on with Start.
StopThenStart == \A c \in Calls : pc[c] = "stop" => next[c] \in {"start", "done"}

\* The inductive invariant of TransportExists.
Built == transport # 0 \/ NotBuilt

\* Between two calls' steps the process is typed and built, or not built at all.
IndInv == TypeOK /\ Built /\ StopThenStart

LEMMA InitIsBuilt == Init => IndInv
  <1> SUFFICES ASSUME Init PROVE IndInv
    OBVIOUS
  <1>1. transports \in Seq({"created", "connected", "stopped"}) /\ transport \in 0 .. Len(transports)
    BY DEF Init
  <1> QED BY <1>1 DEF Init, IndInv, TypeOK, Built, NotBuilt, StopThenStart, States, Locations

\* The steps by which a call begins change its own place only.
LEMMA BeginKeeps ==
  ASSUME IndInv, NEW c \in Calls, NEW l \in {"init", "start", "stop"},
         NEW n \in {"start", "done"}, Begin(c, l, n)
  PROVE  IndInv'
  BY DEF Begin, MayBegin, Goto, IndInv, TypeOK, Built, NotBuilt, StopThenStart, Locations,
         procVars, leftVars, dataVars

LEMMA BeginsKeep ==
  ASSUME IndInv, NEW c \in Calls, CallBegins(c)
  PROVE  IndInv'
  <1>1. PICK l \in {"init", "start", "stop"}, n \in {"start", "done"} : Begin(c, l, n)
    BY DEF CallBegins, Boot, CallStart, CallStop, CallRestart
  <1> QED BY <1>1, BeginKeeps

LEMMA InitKeeps ==
  ASSUME IndInv, NEW c \in Calls,
         EnterInit(c) \/ OpenStorage(c) \/ InitDB(c) \/ Build(c)
  PROVE  IndInv'
  <1>1. CASE EnterInit(c)
    BY <1>1 DEF EnterInit, Goto, IndInv, TypeOK, Built, NotBuilt, StopThenStart, States, Locations,
           leftVars, dataVars
  <1>2. CASE OpenStorage(c)
    BY <1>2 DEF OpenStorage, StateOfFailedInit, Goto, IndInv, TypeOK, Built, NotBuilt, StopThenStart,
           States, Locations, leftVars, dataVars
  <1>3. CASE InitDB(c)
    BY <1>3 DEF InitDB, Goto, IndInv, TypeOK, Built, NotBuilt, StopThenStart, States, Locations,
           leftVars, dataVars
  <1>4. CASE Build(c)
    <2>1. transports' \in Seq({"created", "connected", "stopped"}) /\ Len(transports') \in Nat \ {0}
      BY <1>4 DEF Build, IndInv, TypeOK
    <2>2. transport' \in 0 .. Len(transports') /\ transport' # 0
      BY <1>4, <2>1 DEF Build
    <2>3. state' \in States
      BY <1>4 DEF Build, IndInv, TypeOK, States
    <2>4. TypeOK'
      BY <1>4, <2>1, <2>2, <2>3 DEF Build, Goto, IndInv, TypeOK, Locations
    <2>5. StopThenStart'
      BY <1>4 DEF Build, Goto, IndInv, TypeOK, StopThenStart
    <2> QED BY <2>2, <2>4, <2>5 DEF IndInv, Built
  <1> QED BY <1>1, <1>2, <1>3, <1>4

LEMMA StartKeeps ==
  ASSUME IndInv, NEW c \in Calls,
         Start(c) \/ StartTicker(c) \/ Connect(c) \/ FinishStart(c)
  PROVE  IndInv'
  <1>1. CASE Start(c)
    BY <1>1 DEF Start, AlreadyUp, NeedsInit, Goto, IndInv, TypeOK, Built, NotBuilt, StopThenStart,
           Locations, procVars, leftVars, dataVars
  <1>2. CASE StartTicker(c)
    BY <1>2 DEF StartTicker, Goto, IndInv, TypeOK, Built, NotBuilt, StopThenStart, Locations, dataVars
  <1>3. CASE Connect(c)
    <2>1. transport # 0
      BY <1>3 DEF Connect, IndInv, Built, NotBuilt, StopThenStart
    <2>2. transports' \in Seq({"created", "connected", "stopped"}) /\ Len(transports') = Len(transports)
      BY <1>3, <2>1 DEF Connect, IndInv, TypeOK
    <2> QED BY <1>3, <2>1, <2>2 DEF Connect, Goto, IndInv, TypeOK, Built, StopThenStart, Locations,
           procVars, dataVars
  <1>4. CASE FinishStart(c)
    BY <1>4 DEF FinishStart, Goto, IndInv, TypeOK, Built, NotBuilt, StopThenStart, States, Locations,
           leftVars, dataVars
  <1> QED BY <1>1, <1>2, <1>3, <1>4

LEMMA StopKeeps ==
  ASSUME IndInv, NEW c \in Calls, StopTicker(c) \/ FinishStop(c)
  PROVE  IndInv'
  <1>1. CASE StopTicker(c)
    <2>1. tickers' \in [Calls -> {"none", "live", "buffered", "stopped"}]
      BY <1>1 DEF StopTicker, Stopped, IndInv, TypeOK
    <2>2. state = "RUNNING" => transport # 0
      BY DEF IndInv, Built, NotBuilt, StopThenStart
    <2> QED BY <1>1, <2>1, <2>2 DEF StopTicker, Goto, IndInv, TypeOK, Built, NotBuilt, StopThenStart,
           Locations, procVars, dataVars
  <1>2. CASE FinishStop(c)
    <2>1. transport # 0
      BY <1>2 DEF FinishStop, IndInv, Built, NotBuilt, StopThenStart
    <2>2. transports' \in Seq({"created", "connected", "stopped"}) /\ Len(transports') = Len(transports)
      BY <1>2, <2>1 DEF FinishStop, StopTransport, IndInv, TypeOK
    <2> QED BY <1>2, <2>1, <2>2 DEF FinishStop, Goto, IndInv, TypeOK, Built, StopThenStart, States,
           Locations, dataVars
  <1> QED BY <1>1, <1>2

\* A point needs a transport to come in, or an initialised process.
LEMMA PointsKeep ==
  ASSUME IndInv, Message \/ WorkerWrites \/ ApiWrites
  PROVE  IndInv'
  <1>1. CASE Message
    <2>1. transport # 0
      <3>1. transports # <<>>
        BY <1>1 DEF Message, Connected
      <3> QED BY <3>1 DEF IndInv, Built, NotBuilt, StopThenStart
    <2> QED BY <1>1, <2>1 DEF Message, AppendPoint, IndInv, TypeOK, Built, StopThenStart, procVars,
           leftVars, callVars
  <1>2. CASE WorkerWrites
    BY <1>2 DEF WorkerWrites, AppendPoint, IndInv, TypeOK, Built, NotBuilt, StopThenStart, procVars,
           leftVars, callVars
  <1>3. CASE ApiWrites
    <2>1. CASE transport # 0
      BY <1>3, <2>1 DEF ApiWrites, AppendPoint, IndInv, TypeOK, Built, StopThenStart,
             procVars, leftVars, callVars
    <2>2. CASE transport = 0
      BY <1>3, <2>2 DEF ApiWrites, IndInv, TypeOK, Built, NotBuilt, StopThenStart,
             procVars, leftVars, callVars
    <2> QED BY <2>1, <2>2
  <1> QED BY <1>1, <1>2, <1>3

LEMMA FlushBeginsKeeps ==
  ASSUME IndInv, FlushBegins
  PROVE  IndInv'
  <1>1. CASE WriterFlushes
    BY <1>1 DEF WriterFlushes, BeginFlush, IndInv, TypeOK, Built, NotBuilt, StopThenStart, procVars, callVars
  <1>2. ASSUME NEW c \in Calls, TickerFlushes(c)
        PROVE  IndInv'
    BY <1>2 DEF TickerFlushes, BeginFlush, IndInv, TypeOK, Built, NotBuilt, StopThenStart, procVars, callVars
  <1> QED BY <1>1, <1>2 DEF FlushBegins

LEMMA FlushEndsKeeps ==
  ASSUME IndInv, FlushEnds
  PROVE  IndInv'
  <1>1. ASSUME NEW s \in States, EndFlush(s)
        PROVE  IndInv'
    BY <1>1 DEF EndFlush, IndInv, TypeOK, Built, NotBuilt, StopThenStart, leftVars, callVars
  <1>2. CASE FlushWrites \/ FlushRefused \/ FlushFails
    <2>1. PICK s \in States : EndFlush(s)
      BY <1>2 DEF FlushWrites, FlushRefused, FlushFails, StateAfterWrite, States, IndInv, TypeOK
    <2> QED BY <1>1, <2>1
  <1>3. CASE PanicRecovered
    BY <1>3 DEF PanicRecovered, FlushPanics, UnlockAfterPanic, IndInv, TypeOK, Built,
           NotBuilt, StopThenStart, procVars, leftVars, callVars
  <1>4. CASE PanicEndsProgram
    <2>1. /\ transports' \in Seq({"created", "connected", "stopped"})
          /\ transport' \in 0 .. Len(transports')
      BY <1>4 DEF PanicEndsProgram
    <2> QED BY <1>4, <2>1 DEF PanicEndsProgram, IndInv, TypeOK, Built, NotBuilt, StopThenStart, States, Locations
  <1> QED BY <1>2, <1>3, <1>4 DEF FlushEnds

LEMMA NextKeeps == IndInv /\ [Next]_vars => IndInv'
  <1> SUFFICES ASSUME IndInv, [Next]_vars
               PROVE  IndInv'
    OBVIOUS
  <1>1. ASSUME NEW c \in Calls, CallBegins(c)
        PROVE  IndInv'
    BY <1>1, BeginsKeep
  <1>2. ASSUME NEW c \in Calls, CallProceeds(c)
        PROVE  IndInv'
    BY <1>2, InitKeeps, StartKeeps, StopKeeps DEF CallProceeds
  <1>3. CASE Message \/ WorkerWrites \/ ApiWrites
    BY <1>3, PointsKeep
  <1>4. CASE FlushBegins
    BY <1>4, FlushBeginsKeeps
  <1>5. CASE FlushEnds
    BY <1>5, FlushEndsKeeps
  <1>6. CASE UNCHANGED vars
    BY <1>6 DEF IndInv, TypeOK, Built, NotBuilt, StopThenStart, vars, procVars, leftVars, dataVars, callVars
  <1> QED BY <1>1, <1>2, <1>3, <1>4, <1>5, <1>6 DEF Next

LEMMA Invariance == Spec => []IndInv
  BY InitIsBuilt, NextKeeps, PTL DEF Spec

\* Every variable keeps its type, for any number of calls and faults
\* (process.go:46-54, 61-125, 432-496).
THEOREM TypeCorrect == Spec => []TypeOK
  <1>1. IndInv => TypeOK
    BY DEF IndInv
  <1> QED BY <1>1, Invariance, PTL

\* No Start connects and no Stop stops a transport that Init has not made,
\* though Start, Stop and the late flushes race on State (process.go:435-456,
\* 483-492).
THEOREM TransportsExist == Spec => []TransportExists
  <1>1. IndInv => TransportExists
    BY DEF IndInv, Built, NotBuilt, StopThenStart, TransportExists
  <1> QED BY <1>1, Invariance, PTL
-----------------------------------------------------------------------------
(* Calls one after the other *)

\* No call overlaps another, the broker is there, and no request of the database
\* remains unanswered.  Making its client may fail, and API commands may write early.
InOrder == Serial /\ Faults \cap {"initdb", "mqtt", "store"} = {}

Quiet(c) == pc[c] \in {"ready", "done"}
OneAtATime == \A c, d \in Calls : c = d \/ Quiet(c) \/ Quiet(d)

\* Something of a Start is there that Stop has to end.
Up == LiveTickers # {} \/ Connected # {}

\* The process knows what is up: its transport, its ticker, and its state says so,
\* except before the end of a Start.
Known ==
    /\ Connected \subseteq {transport}
    /\ LiveTickers \subseteq {ticker}
    /\ state # "LOST_CONNECTION"
    /\ Up => \/ state = "RUNNING"
             \/ state = "INITIALIZED" /\ \E c \in Calls : pc[c] \in {"connect", "finish"}

\* What a call has established when it is at its location.
Established(c) ==
    /\ pc[c] \in {"init", "open", "initdb", "build", "tick"} => ~Up
    /\ pc[c] \in {"init", "open", "initdb", "build"} => next[c] \in {"start", "tick"}
    /\ pc[c] \in {"open", "initdb", "build"} => state \in {"STARTING", "RUNNING"}
    /\ pc[c] \in {"tick", "connect", "finish"} => state \in {"INITIALIZED", "RUNNING"}
    /\ pc[c] = "start" => next[c] = "done"
    /\ pc[c] = "connect" => Connected = {}
    /\ pc[c] \in {"stop", "close"} => next[c] \in {"start", "done"}
    /\ pc[c] = "close" => state = "RUNNING" /\ LiveTickers = {}

SerialInv == TypeOK /\ Built /\ OneAtATime /\ Known /\ \A c \in Calls : Established(c)

LEMMA InitIsSerial == Init => SerialInv
  <1> SUFFICES ASSUME Init PROVE SerialInv
    OBVIOUS
  <1>1. TypeOK /\ Built
    BY InitIsBuilt DEF IndInv
  <1>2. Connected = {} /\ LiveTickers = {}
    BY DEF Init, Connected, LiveTickers
  <1> QED BY <1>1, <1>2 DEF Init, SerialInv, OneAtATime, Quiet, Known, Established, Up

\* A step of one call that leaves the state, the transports and the tickers to
\* it: the others are quiet, so what they have established is nothing.
LEMMA OneStep ==
  ASSUME SerialInv, TypeOK', Built', NEW c \in Calls, ~Quiet(c) \/ \A d \in Calls : Quiet(d),
         \A d \in Calls : d # c => pc'[d] = pc[d],
         Known', Established(c)'
  PROVE  SerialInv'
  <1>1. \A d \in Calls : d # c => Quiet(d)
    BY DEF SerialInv, OneAtATime
  <1>2. \A d \in Calls : d # c => Quiet(d)'
    BY <1>1 DEF Quiet
  <1>3. OneAtATime'
    BY <1>2 DEF OneAtATime
  <1>4. ASSUME NEW d \in Calls, d # c
        PROVE  Established(d)'
    BY <1>2, <1>4 DEF Established, Quiet
  <1> QED BY <1>3, <1>4 DEF SerialInv

\* A step that leaves the calls where they are and the transports and tickers, or
\* stops one; it may only make the process RUNNING.
LEMMA BesideStep ==
  ASSUME SerialInv, TypeOK', Built', UNCHANGED <<pc, next, transport, ticker>>,
         Connected' = Connected, LiveTickers' = LiveTickers,
         state' \in {state, "RUNNING"}
  PROVE  SerialInv'
  <1>1. Up' = Up
    BY DEF Up
  <1>2. Known'
    BY <1>1 DEF SerialInv, Known
  <1>3. ASSUME NEW c \in Calls
        PROVE  Established(c)'
    BY <1>1 DEF SerialInv, Established
  <1>4. OneAtATime'
    BY DEF SerialInv, OneAtATime, Quiet
  <1> QED BY <1>2, <1>3, <1>4 DEF SerialInv

LEMMA SerialGivesInd == SerialInv => IndInv
  BY DEF SerialInv, IndInv, StopThenStart, Established

LEMMA SerialBegins ==
  ASSUME InOrder, SerialInv, TypeOK', Built', NEW c \in Calls, CallBegins(c)
  PROVE  SerialInv'
  <1>1. PICK l \in {"init", "start", "stop"}, n \in {"start", "done"} :
           /\ Begin(c, l, n)
           /\ l = "init" => state = "LOADED" /\ n = "start"
           /\ l = "start" => n = "done"
    BY DEF CallBegins, Boot, CallStart, CallStop, CallRestart
  <1>2. \A d \in Calls : Quiet(d)
    BY <1>1 DEF Begin, MayBegin, Quiet, InOrder
  <1>3. /\ UNCHANGED <<state, transport, ticker, transports, tickers>>
        /\ pc' = [pc EXCEPT ![c] = l] /\ next' = [next EXCEPT ![c] = n]
    BY <1>1 DEF Begin, Goto, procVars, leftVars
  <1>4. pc'[c] = l /\ next'[c] = n /\ \A d \in Calls : d # c => pc'[d] = pc[d]
    BY <1>3 DEF SerialInv, TypeOK
  <1>5. Connected' = Connected /\ LiveTickers' = LiveTickers
    BY <1>3 DEF Connected, LiveTickers
  <1>6. Up' = Up
    BY <1>5 DEF Up
  <1>7. Up => state = "RUNNING"
    BY <1>2 DEF SerialInv, Known, Quiet
  <1>8. Known'
    BY <1>3, <1>5, <1>6, <1>7 DEF SerialInv, Known
  <1>9. Established(c)'
    BY <1>1, <1>3, <1>4, <1>6, <1>7 DEF Established
  <1> QED BY <1>2, <1>4, <1>8, <1>9, OneStep

\* The steps of Init find nothing up, and bring nothing up.
LEMMA SerialInits ==
  ASSUME InOrder, SerialInv, TypeOK', Built', NEW c \in Calls,
         EnterInit(c) \/ OpenStorage(c) \/ InitDB(c) \/ Build(c)
  PROVE  SerialInv'
  <1>1. ~Up /\ next[c] \in {"start", "tick"} /\ ~Quiet(c)
    BY DEF SerialInv, Established, Quiet, EnterInit, OpenStorage, InitDB, Build
  <1>2. \A d \in Calls : d # c => pc'[d] = pc[d]
    BY DEF EnterInit, OpenStorage, InitDB, Build, Goto, SerialInv, TypeOK
  <1>3. Connected' = {}
    <2>1. CASE UNCHANGED transports
      BY <1>1, <2>1 DEF Connected, Up
    <2>2. CASE Build(c)
      <3>1. /\ transports \in Seq({"created", "connected", "stopped"})
            /\ transports' = Append(transports, "created")
        BY <2>2 DEF Build, SerialInv, TypeOK
      <3>2. /\ DOMAIN transports' = 1 .. Len(transports) + 1
            /\ \A n \in 1 .. Len(transports) : transports'[n] = transports[n]
            /\ transports'[Len(transports) + 1] = "created"
            /\ DOMAIN transports = 1 .. Len(transports)
        BY <3>1
      <3>3. \A n \in DOMAIN transports : transports[n] # "connected"
        BY <1>1 DEF Up, Connected
      <3> QED BY <3>2, <3>3 DEF Connected
    <2> QED BY <2>1, <2>2 DEF EnterInit, OpenStorage, InitDB, leftVars
  <1>4. LiveTickers' = {}
    BY <1>1 DEF Up, LiveTickers, EnterInit, OpenStorage, InitDB, Build, leftVars
  <1>5. ~Up'
    BY <1>3, <1>4 DEF Up
  <1>6. state' # "LOST_CONNECTION"
    BY DEF SerialInv, Known, EnterInit, OpenStorage, InitDB, Build, StateOfFailedInit
  <1>7. Known'
    BY <1>3, <1>4, <1>5, <1>6 DEF Known
  <1>8. Established(c)'
    <2>1. CASE EnterInit(c)
      BY <1>1, <1>3, <1>5, <2>1 DEF EnterInit, Established, Goto, SerialInv, TypeOK
    <2>2. CASE OpenStorage(c)
      BY <1>1, <1>3, <1>5, <2>2 DEF OpenStorage, Established, Goto, SerialInv, TypeOK
    <2>3. CASE InitDB(c)
      BY <1>1, <1>3, <1>5, <2>3 DEF InitDB, InOrder, Established, Goto, SerialInv, TypeOK
    <2>4. CASE Build(c)
      <3>1. pc'[c] \in {"start", "tick"} /\ next'[c] = "done"
        BY <1>1, <2>4 DEF Build, Goto, SerialInv, TypeOK
      <3>2. state' \in {"INITIALIZED", "RUNNING"}
        BY <2>4 DEF Build, SerialInv, Established
      <3> QED BY <1>5, <3>1, <3>2 DEF Established
    <2> QED BY <2>1, <2>2, <2>3, <2>4
  <1> QED BY <1>1, <1>2, <1>7, <1>8, OneStep

\* A Start that goes on finds nothing up, and records what it brings up.
LEMMA SerialStarts ==
  ASSUME InOrder, SerialInv, TypeOK', Built', NEW c \in Calls,
         Start(c) \/ StartTicker(c) \/ Connect(c) \/ FinishStart(c)
  PROVE  SerialInv'
  <1>1. ~Quiet(c) /\ \A d \in Calls : d # c => pc'[d] = pc[d]
    BY DEF Start, StartTicker, Connect, FinishStart, Goto, Quiet, SerialInv, TypeOK
  <1>2. CASE Start(c)
    <2>1. Connected' = Connected /\ LiveTickers' = LiveTickers /\ Up' = Up
      BY <1>2 DEF Start, leftVars, Connected, LiveTickers, Up
    <2>2. Up => state = "RUNNING"
      BY <1>2 DEF Start, SerialInv, Known, OneAtATime, Quiet
    <2>3. UNCHANGED <<state, transport, ticker>>
      BY <1>2 DEF Start, procVars
    <2>4. Known'
      BY <2>1, <2>2, <2>3 DEF SerialInv, Known
    <2>5. Established(c)'
      <3>1. state \in AlreadyUp => pc'[c] = "done"
        BY <1>2 DEF Start, Goto, SerialInv, TypeOK
      <3>2. state \in NeedsInit => pc'[c] = "init" /\ next'[c] = "tick" /\ ~Up
        BY <1>2, <2>2 DEF Start, Goto, AlreadyUp, NeedsInit, SerialInv, TypeOK
      <3>3. state \notin AlreadyUp \cup NeedsInit =>
               pc'[c] = "tick" /\ ~Up /\ state = "INITIALIZED"
        BY <1>2, <2>2 DEF Start, Goto, AlreadyUp, NeedsInit, SerialInv, TypeOK, States, Known
      <3> QED BY <2>1, <2>3, <3>1, <3>2, <3>3 DEF Established
    <2> QED BY <1>1, <2>4, <2>5, OneStep
  <1>3. CASE StartTicker(c)
    <2>1. ~Up /\ state \in {"INITIALIZED", "RUNNING"}
      BY <1>3 DEF StartTicker, SerialInv, Established
    <2>2. pc'[c] = "connect" /\ ticker' = c /\ UNCHANGED <<state, transport, transports>>
      BY <1>3 DEF StartTicker, Goto, SerialInv, TypeOK
    <2>3. Connected' = {}
      BY <2>1, <2>2 DEF Up, Connected
    <2>4. LiveTickers' \subseteq {c}
      BY <1>3, <2>1 DEF StartTicker, Up, LiveTickers, SerialInv, TypeOK
    <2>5. Known'
      BY <2>1, <2>2, <2>3, <2>4 DEF Known
    <2>6. Established(c)'
      BY <2>1, <2>2, <2>3 DEF Established
    <2> QED BY <1>1, <2>5, <2>6, OneStep
  <1>4. CASE Connect(c)
    <2>1. Connected = {} /\ state \in {"INITIALIZED", "RUNNING"}
      BY <1>4 DEF Connect, SerialInv, Established
    <2>2. pc'[c] = "finish" /\ UNCHANGED <<state, transport, ticker, tickers>>
      BY <1>4 DEF Connect, Goto, procVars, InOrder, SerialInv, TypeOK
    <2>3. transports' = [transports EXCEPT ![transport] = "connected"]
      BY <1>4 DEF Connect, InOrder
    <2>4. Connected' \subseteq {transport}
      BY <2>1, <2>3 DEF Connected
    <2>5. LiveTickers' = LiveTickers
      BY <2>2 DEF LiveTickers
    <2>6. Known'
      BY <2>1, <2>2, <2>4, <2>5 DEF SerialInv, Known
    <2>7. Established(c)'
      BY <2>1, <2>2 DEF Established
    <2> QED BY <1>1, <2>6, <2>7, OneStep
  <1>5. CASE FinishStart(c)
    <2>1. state \in {"INITIALIZED", "RUNNING"}
      BY <1>5 DEF FinishStart, SerialInv, Established
    <2>2. state' = "RUNNING" /\ pc'[c] = "done" /\ UNCHANGED <<transport, ticker, leftVars>>
      BY <1>5, <2>1 DEF FinishStart, Goto, SerialInv, TypeOK
    <2>3. Connected' = Connected /\ LiveTickers' = LiveTickers
      BY <2>2 DEF leftVars, Connected, LiveTickers
    <2>4. Known' /\ Established(c)'
      BY <2>2, <2>3 DEF SerialInv, Known, Established
    <2> QED BY <1>1, <2>4, OneStep
  <1> QED BY <1>2, <1>3, <1>4, <1>5

\* A Stop that is not refused ends what is up, all of which the process knows.
LEMMA SerialStops ==
  ASSUME InOrder, SerialInv, TypeOK', Built', NEW c \in Calls,
         StopTicker(c) \/ FinishStop(c)
  PROVE  SerialInv'
  <1>1. ~Quiet(c) /\ \A d \in Calls : d # c => pc'[d] = pc[d]
    BY DEF StopTicker, FinishStop, Goto, Quiet, SerialInv, TypeOK
  <1>2. CASE StopTicker(c)
    <2>1. /\ Connected' = Connected
          /\ UNCHANGED <<state, transport, ticker>>
          /\ next[c] \in {"start", "done"}
      BY <1>2 DEF StopTicker, procVars, Connected, SerialInv, Established
    <2>2. Up => state = "RUNNING"
      BY <1>2 DEF StopTicker, SerialInv, Known, OneAtATime, Quiet
    <2>3. LiveTickers' \subseteq LiveTickers
      BY <1>2 DEF StopTicker, Stopped, LiveTickers, SerialInv, TypeOK
    <2>4. Known'
      BY <2>1, <2>2, <2>3 DEF SerialInv, Known, Up
    <2>5. Established(c)'
      <3>1. CASE state # "RUNNING"
        BY <1>2, <2>1, <3>1 DEF StopTicker, Goto, SerialInv, TypeOK, Established
      <3>2. CASE state = "RUNNING" /\ ticker = None
        BY <1>2, <3>2 DEF StopTicker, Goto, SerialInv, TypeOK, Established
      <3>3. CASE state = "RUNNING" /\ ticker # None
        <4>1. pc'[c] = "close" /\ next'[c] = next[c]
          BY <1>2, <3>3 DEF StopTicker, Goto, SerialInv, TypeOK
        <4>2. LiveTickers' = {}
          <5>1. tickers[ticker] = "live" => \E t \in Stopped : tickers' = [tickers EXCEPT ![ticker] = t]
            BY <1>2, <3>3 DEF StopTicker
          <5>2. tickers[ticker] # "live" => tickers' = tickers
            BY <1>2, <3>3 DEF StopTicker
          <5> QED BY <5>1, <5>2, <3>3 DEF Stopped, LiveTickers, SerialInv, TypeOK, Known
        <4> QED BY <2>1, <3>3, <4>1, <4>2 DEF Established
      <3> QED BY <3>1, <3>2, <3>3
    <2> QED BY <1>1, <2>4, <2>5, OneStep
  <1>3. CASE FinishStop(c)
    <2>1. LiveTickers = {} /\ next[c] \in {"start", "done"}
      BY <1>3 DEF FinishStop, SerialInv, Established
    <2>2. /\ state' = "STOPPED" /\ UNCHANGED <<transport, ticker, tickers>>
          /\ transports' = [transports EXCEPT ![transport] = "stopped"]
          /\ pc'[c] = next[c] /\ next'[c] = "done"
      BY <1>3 DEF FinishStop, StopTransport, Goto, SerialInv, TypeOK
    <2>3. Connected' = {}
      BY <2>2 DEF Connected, SerialInv, Known
    <2>4. LiveTickers' = {} /\ ~Up'
      BY <2>1, <2>2, <2>3 DEF LiveTickers, Up
    <2>5. Known' /\ Established(c)'
      BY <2>1, <2>2, <2>3, <2>4 DEF Known, Established
    <2> QED BY <1>1, <2>5, OneStep
  <1> QED BY <1>2, <1>3

\* A late flush makes a process RUNNING at any time; nothing that is up is forgotten.
LEMMA SerialBeside ==
  ASSUME InOrder, SerialInv, TypeOK', Built',
         Message \/ WorkerWrites \/ ApiWrites \/ FlushBegins \/ FlushEnds
  PROVE  SerialInv'
  <1>1. CASE Message \/ WorkerWrites \/ ApiWrites
    <2>1. UNCHANGED <<procVars, leftVars, callVars>>
      BY <1>1 DEF Message, WorkerWrites, ApiWrites, AppendPoint
    <2> QED BY <2>1, BesideStep DEF procVars, leftVars, callVars, Connected, LiveTickers
  <1>2. CASE FlushBegins
    <2>1. UNCHANGED <<procVars, transports, callVars>>
      BY <1>2 DEF FlushBegins, WriterFlushes, TickerFlushes, BeginFlush
    <2>2. LiveTickers' = LiveTickers
      <3>1. CASE WriterFlushes
        BY <3>1 DEF WriterFlushes, LiveTickers
      <3>2. ASSUME NEW c \in Calls, TickerFlushes(c)
            PROVE  LiveTickers' = LiveTickers
        BY <3>2 DEF TickerFlushes, LiveTickers, SerialInv, TypeOK
      <3> QED BY <1>2, <3>1, <3>2 DEF FlushBegins
    <2> QED BY <2>1, <2>2, BesideStep DEF procVars, callVars, Connected
  <1>3. CASE FlushWrites \/ FlushRefused \/ FlushFails \/ PanicRecovered
    <2>1. /\ UNCHANGED <<transport, ticker, leftVars, callVars>>
          /\ state' \in {state, "RUNNING"}
      BY <1>3 DEF FlushWrites, FlushRefused, FlushFails, PanicRecovered, EndFlush, StateAfterWrite,
             procVars, InOrder
    <2> QED BY <2>1, BesideStep DEF leftVars, callVars, Connected, LiveTickers
  <1>4. CASE PanicEndsProgram
    <2>1. Connected' = {} /\ LiveTickers' = {} /\ state' = "LOADED"
      BY <1>4 DEF PanicEndsProgram, Connected, LiveTickers
    <2>2. \A c \in Calls : pc'[c] \in {"ready", "done"}
      BY <1>4 DEF PanicEndsProgram
    <2> QED BY <2>1, <2>2 DEF SerialInv, OneAtATime, Quiet, Known, Established, Up
  <1> QED BY <1>1, <1>2, <1>3, <1>4 DEF FlushEnds

LEMMA SerialNext == InOrder /\ SerialInv /\ [Next]_vars => SerialInv'
  <1> SUFFICES ASSUME InOrder, SerialInv, [Next]_vars
               PROVE  SerialInv'
    OBVIOUS
  <1>1. TypeOK' /\ Built'
    BY SerialGivesInd, NextKeeps DEF IndInv
  <1>2. ASSUME NEW c \in Calls, CallBegins(c)
        PROVE  SerialInv'
    BY <1>1, <1>2, SerialBegins
  <1>3. ASSUME NEW c \in Calls, CallProceeds(c)
        PROVE  SerialInv'
    BY <1>1, <1>3, SerialInits, SerialStarts, SerialStops DEF CallProceeds
  <1>4. CASE Message \/ WorkerWrites \/ ApiWrites \/ FlushBegins \/ FlushEnds
    BY <1>1, <1>4, SerialBeside
  <1>5. CASE UNCHANGED vars
    BY <1>1, <1>5, BesideStep DEF vars, procVars, leftVars, callVars, Connected, LiveTickers
  <1> QED BY <1>2, <1>3, <1>4, <1>5 DEF Next

LEMMA SerialInvariance ==
  ASSUME InOrder
  PROVE  Spec => []SerialInv
  <1>1. SerialInv /\ [Next]_vars => SerialInv'
    BY SerialNext
  <1> QED BY <1>1, InitIsSerial, PTL DEF Spec

LEMMA AtMostOne ==
  ASSUME NEW S, NEW x, S \subseteq {x}
  PROVE  Cardinality(S) <= 1
  <1>1. CASE S = {}
    <2>1. Cardinality({}) = 0
      BY FS_EmptySet
    <2> QED BY <1>1, <2>1
  <1>2. CASE S = {x}
    <2>1. Cardinality({x}) = 1
      BY FS_Singleton
    <2> QED BY <1>2, <2>1
  <1> QED BY <1>1, <1>2

\* With calls one after the other every message is processed once, however often
\* the process is started, stopped and started again and whatever late flushes do
\* to State (process.go:112-113, 435-443, 492).
THEOREM OneConnectionInOrder ==
  ASSUME InOrder
  PROVE  Spec => []OneConnection
  <1>1. SerialInv => OneConnection
    BY AtMostOne DEF SerialInv, Known, OneConnection
  <1> QED BY <1>1, SerialInvariance, PTL

\* With calls one after the other no ticker is forgotten while it runs: there is
\* one scheduler (process.go:450-455, 487).
THEOREM OneSchedulerInOrder ==
  ASSUME InOrder
  PROVE  Spec => []OneScheduler
  <1>1. SerialInv => OneScheduler
    BY AtMostOne DEF SerialInv, Known, OneScheduler
  <1> QED BY <1>1, SerialInvariance, PTL

\* With calls one after the other a stopped process has no scheduler
\* (process.go:480-481).
THEOREM StopStopsInOrder ==
  ASSUME InOrder
  PROVE  Spec => []StopStopsScheduler
  <1>1. SerialInv => StopStopsScheduler
    BY DEF SerialInv, Known, Up, StopStopsScheduler
  <1> QED BY <1>1, SerialInvariance, PTL
=============================================================================

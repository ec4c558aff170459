---------------------------- MODULE Aggregator -----------------------------
(***************************************************************************)
(* The way of high frequency data through a tsdb.Process: OnMessage hands  *)
(* the points of a message to the DataPointAggregator                      *)
(* (src/integration/tsdb/processing/agreggator.go), whose input processor  *)
(* collects them by series, whose publisher computes aggregates at every   *)
(* tick, and whose output the worker of process.go gives to Write.         *)
(*                                                                         *)
(* The goroutines share two channels, the series under mux, and, without   *)
(* a lock, the Fields map of a data point, which OnMessage makes, a series *)
(* keeps, the publisher writes and the worker reads.  A map is named here  *)
(* by a number, and only its entry "value" is kept.                        *)
(*                                                                         *)
(* Times are left out, except that a series may or may not be too old.     *)
(* The mean of integers is a fraction, so every published number is one.   *)
(***************************************************************************)
EXTENDS Transform

CONSTANTS
    Messages,      \* the messages the subscriptions deliver
    InputCap,      \* the capacity of inputChannel, 20 in the code
    OutputCap,     \* the capacity of outputChannel, 20 in the code
    MaxDifference, \* 100: a larger difference is unrealistic
    MaxMessages,   \* bound: how many messages arrive
    MaxPoints      \* bound: how many points are given to the aggregator

ASSUME AggregatorAssumption ==
    /\ InputCap \in Nat \ {0} /\ OutputCap \in Nat \ {0}
    /\ MaxDifference \in Nat /\ MaxPoints \in Nat /\ MaxMessages \in Nat
    /\ Profile # "raw"

\* What gets past the parsers of transform.go: a map of numbers, a list of prices or one
\* value.
ASSUME MessagesAssumption ==
    \A m \in Messages :
        /\ m.mainMeter \in BOOLEAN
        /\ CASE IsMeter(m) /\ m.type = "evt.meter_ext.report" ->
                   \A key \in DOMAIN m.readings : m.readings[key] \in Int
             [] m.service = "price_info_elec" /\ m.type = "evt.price_forecast.report" ->
                   m.readings["hours"] \in Nat
             [] OTHER -> m.readings["value"] \in Int \cup {NotFloat}

VARIABLES
    message,       \* the points of the current message OnMessage has not handled
    received,      \* how many messages have arrived
    made,          \* how many Fields maps OnMessage has made
    valueOf,       \* the entry "value" of every Fields map
    inputChannel,
    outputChannel,
    series,        \* the SValues of every SeriesID seen
    mux,           \* "free", or who holds DataPointAggregator.mux between steps
    round,         \* "none", "aggregates", "minute" or "differences"
    left,          \* the series the range loop of the publisher has not visited
    sending,       \* the aggregate the publisher is about to send, or none
    waitingNextInterval,
    writing        \* the aggregate the worker has received, or none

(***************************************************************************)
(* History: for every series the last value taken in, unless it is too old *)
(* to count, how much the values have grown or, if they are summed, added  *)
(* up to, what has been published of that and what has been refused as too *)
(* old, as too large or, if they are summed, as no change, and whether it  *)
(* has been visited without the profile of a main meter.                   *)
(***************************************************************************)
VARIABLE account

inputVars == <<message, received, made, inputChannel>>
pubVars   == <<mux, round, left, sending, waitingNextInterval>>
vars      == <<inputVars, valueOf, outputChannel, series, pubVars, writing, account>>

-----------------------------------------------------------------------------
(* Aggregation functions *)

Ratio(n, d) == [num |-> n, den |-> d]
Equal(a, b) == a.num * b.den = b.num * a.den

\* The entry "value" of a map the transform has made.
Entry(value) == IF value = NotFloat THEN NotFloat ELSE Ratio(value, 1)

\* dataPointMeta.Value is the integer 0 at first, which equals no float64.
NeverPublished == Ratio(1, 0)

Total(values) ==
    LET sum[i \in 0 .. Len(values)] == IF i = 0 THEN 0 ELSE sum[i - 1] + values[i]
    IN  sum[Len(values)]

Aggregate(func, values) ==
    CASE func = "mean" -> Ratio(Total(values), Len(values))
      [] func = "sum"  -> Ratio(Total(values), 1)
      [] func = "last" -> Ratio(values[1], 1)
      [] func = "min"  -> Ratio(Min(Range(values)), 1)
      [] func = "max"  -> Ratio(Max(Range(values)), 1)

Rise(a, b) == IF b >= a THEN b - a ELSE 0

\* calculateDifference: a meter that starts again contributes nothing at that point.
CalculateDifference(values) ==
    LET result[i \in 0 .. Len(values)] ==
          IF i <= 1 THEN 0 ELSE result[i - 1] + Rise(values[i - 1], values[i])
    IN  result[Len(values)]

\* Twice the median of a sorted sequence that is not empty.
Median(s) ==
    LET n == Len(s) IN IF n % 2 = 0 THEN s[n \div 2] + s[n \div 2 + 1] ELSE 2 * s[(n + 1) \div 2]

\* stats.QuartileOutliers: the extreme outliers lie three interquartile ranges off the
\* quartiles.  One value alone has no quartiles.
ExtremeOutliers(values) ==
    LET s == SortSeq(values, <)
        half == Len(s) \div 2
        q1 == Median(SubSeq(s, 1, half))
        q3 == Median(SubSeq(s, Len(s) - half + 1, Len(s)))
    IN  IF half = 0 THEN {}
        ELSE {v \in Range(s) : \/ 2 * v < q1 - 3 * (q3 - q1)
                                         \/ 2 * v > q3 + 3 * (q3 - q1)}

\* filterSeries: zeros and outliers are left out.
FilterSeries(values) ==
    LET noise == {0} \cup ExtremeOutliers(values)
        result[i \in 0 .. Len(values)] ==
          IF i = 0 THEN <<>>
          ELSE IF values[i] \in noise THEN result[i - 1]
               ELSE Append(result[i - 1], values[i])
    IN  result[Len(values)]

-----------------------------------------------------------------------------
(* OnMessage, in the goroutine of the MQTT router *)

\* A message is let through and transformed; one without points is skipped.
OnMessage(m) ==
    /\ message = <<>>
    /\ received < MaxMessages
    /\ received' = received + 1
    /\ Filter(m)
    /\ message' = [i \in DOMAIN DefaultTransform(m) |->
                      [point |-> DefaultTransform(m)[i],
                       topic |-> m.topic,
                       hourly |-> m.device # NoDevice /\ m.mainMeter]]
    /\ message' # <<>>
    /\ UNCHANGED <<made, inputChannel, valueOf, outputChannel, series, pubVars,
                   writing, account>>

\* Mutated form of InputHasRoom: the capacity is off by one.
InputHasRoomToo == Len(inputChannel) <= InputCap

InputHasRoom == Len(inputChannel) < InputCap

\* AddDataPoint: a point gets its Fields map and is dropped when the channel is full.
AddDataPoint ==
    /\ message # <<>>
    /\ IsAggregated(Head(message).point)
    /\ made < MaxPoints
    /\ made' = made + 1
    /\ valueOf' = [valueOf EXCEPT ![made'] = Entry(Head(message).point.value)]
    /\ inputChannel' =
         IF InputHasRoom
         THEN Append(inputChannel,
                [measurement |-> Head(message).point.measurement,
                 series      |-> Head(message).point.series,
                 func        |-> Head(message).point.func,
                 value       |-> Head(message).point.value,
                 fields      |-> made',
                 topic       |-> Head(message).topic,
                 hourly      |-> Head(message).hourly])
         ELSE inputChannel
    /\ message' = Tail(message)
    /\ UNCHANGED <<received, outputChannel, series, pubVars, writing, account>>

\* Other points go to Write at once; BatchWriter has what becomes of them.
WriteAtOnce ==
    /\ message # <<>>
    /\ ~IsAggregated(Head(message).point)
    /\ message' = Tail(message)
    /\ UNCHANGED <<received, made, inputChannel, valueOf, outputChannel, series, pubVars,
                   writing, account>>

-----------------------------------------------------------------------------
(* The input processor *)

Collected(func, values, value) ==
    IF func = "last" THEN <<value>> ELSE Append(values, value)

\* Mutated form of Described: the series keeps its first map.
DescribedOldFields(s, p) == [s EXCEPT !.topic = p.topic, !.hourly = p.hourly]

\* A series takes the tags, the map and the profile of its latest point.
Described(s, p) ==
    [s EXCEPT !.topic = p.topic, !.fields = p.fields, !.hourly = p.hourly]

Updated(id, p) ==
    IF id \in DOMAIN series
    THEN [Described(series[id], p) EXCEPT !.values = Collected(series[id].func, @, p.value)]
    ELSE [values |-> <<p.value>>, func |-> p.func, measurement |-> p.measurement,
          topic |-> p.topic, fields |-> p.fields, hourly |-> p.hourly,
          last |-> NeverPublished]

Noted(id, p) ==
    LET old == IF id \in DOMAIN account THEN account[id]
               ELSE [taken |-> p.value, grown |-> 0, published |-> 0, refused |-> 0,
                     plain |-> FALSE]
        func == IF id \in DOMAIN series THEN series[id].func ELSE p.func
    IN  [old EXCEPT !.taken = p.value,
                    !.grown = @ + CASE func = "sum" -> p.value
                                    [] func = "difference" /\ old.taken # NotFloat ->
                                         Rise(old.taken, p.value)
                                    [] OTHER -> 0]

With(f, id, value) == [i \in DOMAIN f \cup {id} |-> IF i = id THEN value ELSE f[i]]

\* A point is taken in under mux; one whose value is no float is thrown away.
TakeIn ==
    /\ inputChannel # <<>>
    /\ mux = "free"
    /\ LET p == Head(inputChannel)
       IN  IF p.value = NotFloat
           THEN UNCHANGED <<series, account>>
           ELSE /\ series' = With(series, p.series, Updated(p.series, p))
                /\ account' = With(account, p.series, Noted(p.series, p))
    /\ inputChannel' = Tail(inputChannel)
    /\ UNCHANGED <<message, received, made, valueOf, outputChannel, pubVars, writing>>

-----------------------------------------------------------------------------
(* The publisher, at every tick of its ticker *)

\* The ticker fires: calculateAndPublishAggregates takes mux.
Tick ==
    /\ round = "none"
    /\ mux = "free"
    /\ mux' = "publisher"
    /\ round' = "aggregates"
    /\ left' = DOMAIN series
    /\ UNCHANGED <<inputVars, valueOf, outputChannel, series, sending,
                   waitingNextInterval, writing, account>>

\* Mutated form of Publish: the map that is sent keeps the value of the point.
PublishOldValue(id, values, result) ==
    /\ series' = [series EXCEPT ![id].values = values, ![id].last = result]
    /\ UNCHANGED valueOf
    /\ sending' = <<[series |-> id, measurement |-> series[id].measurement,
                     topic |-> series[id].topic, fields |-> series[id].fields,
                     value |-> result]>>

\* The aggregate is written into the entry "value" of the map that is sent with it.
Publish(id, values, result) ==
    /\ series' = [series EXCEPT ![id].values = values, ![id].last = result]
    /\ valueOf' = [valueOf EXCEPT ![series[id].fields] = result]
    /\ sending' = <<[series |-> id, measurement |-> series[id].measurement,
                     topic |-> series[id].topic, fields |-> series[id].fields,
                     value |-> result]>>

\* Nothing is published of a series; values is what is kept of it.
Skip(id, values) ==
    /\ series' = [series EXCEPT ![id].values = values]
    /\ UNCHANGED <<valueOf, sending>>

Visit(id) ==
    /\ sending = <<>>
    /\ id \in left
    /\ left' = left \ {id}
    /\ UNCHANGED <<inputVars, outputChannel, mux, round, waitingNextInterval, writing>>

\* calculateAndPublishAggregates, one turn of its loop.  A value that is what was
\* published last is not published again.
VisitAggregate(id) ==
    /\ round = "aggregates"
    /\ Visit(id)
    /\ LET s == series[id]
           result == Aggregate(s.func, s.values)
       IN  IF s.values = <<>> \/ s.func = "difference"
           THEN Skip(id, s.values) /\ UNCHANGED account
           ELSE IF Equal(s.last, result)
                THEN /\ Skip(id, <<>>)
                     /\ account' = IF s.func = "sum"
                                   THEN [account EXCEPT ![id].refused = @ + result.num]
                                   ELSE account
                ELSE /\ Publish(id, <<>>, result)
                     /\ account' = IF s.func = "sum"
                                   THEN [account EXCEPT ![id].published = @ + result.num]
                                   ELSE account

\* Mutated form of Kept: the values stay after they have been counted.
KeptAll(values) == values

\* Mutated form of Kept: the series is emptied, as the other aggregates empty it.
KeptNone(values) == <<>>

\* The last value is where the next difference starts.
Kept(values) == <<Last(values)>>

\* calculateDifferenceInGrowingSeriesAndPublish, one turn of its loop.
VisitDifference(id, tooOld) ==
    /\ round = "differences"
    /\ Visit(id)
    /\ LET s == series[id]
           values == IF s.hourly THEN s.values ELSE FilterSeries(s.values)
           result == CalculateDifference(values)
           same == ~s.hourly /\ Equal(s.last, Ratio(result, 1))
           counted == [account[id] EXCEPT !.plain = @ \/ ~s.hourly]
           Count(entry) == account' = [account EXCEPT ![id] = entry]
       IN  CASE s.values = <<>> \/ s.func # "difference" ->
                  Skip(id, s.values) /\ UNCHANGED account
             [] s.values # <<>> /\ s.func = "difference" /\ tooOld ->
                  /\ Skip(id, <<>>)
                  /\ Count([counted EXCEPT !.refused = @ + CalculateDifference(s.values),
                                           !.taken = NotFloat])
             [] s.values # <<>> /\ s.func = "difference" /\ ~tooOld /\ values = <<>> ->
                  Skip(id, <<>>) /\ Count(counted)
             [] OTHER ->
                  IF result > MaxDifference
                  THEN /\ Skip(id, Kept(values))
                       /\ Count([counted EXCEPT !.refused = @ + result])
                  ELSE IF result = 0 \/ same
                       THEN Skip(id, Kept(values)) /\ Count(counted)
                       ELSE /\ Publish(id, Kept(values), Ratio(result, 1))
                            /\ Count([counted EXCEPT !.published = @ + result])

\* The publisher holds mux while it waits for room in the channel.
Send ==
    /\ sending # <<>>
    /\ Len(outputChannel) < OutputCap
    /\ outputChannel' = Append(outputChannel, sending[1])
    /\ sending' = <<>>
    /\ UNCHANGED <<inputVars, valueOf, series, mux, round, left, waitingNextInterval,
                   writing, account>>

\* The deferred unlock, at the end of either loop.
EndRound ==
    /\ round \in {"aggregates", "differences"}
    /\ left = {}
    /\ sending = <<>>
    /\ mux' = "free"
    /\ round' = IF round = "aggregates" THEN "minute" ELSE "none"
    /\ UNCHANGED <<inputVars, valueOf, outputChannel, series, left, sending,
                   waitingNextInterval, writing, account>>

\* Differences are due once in every sampling interval: at the first tick of a minute
\* that is a multiple of it.
TestMinute(isMultiple) ==
    /\ round = "minute"
    /\ IF isMultiple /\ waitingNextInterval
       THEN /\ mux = "free"
            /\ mux' = "publisher"
            /\ round' = "differences"
            /\ left' = DOMAIN series
       ELSE /\ round' = "none"
            /\ UNCHANGED <<mux, left>>
    /\ waitingNextInterval' = ~isMultiple
    /\ UNCHANGED <<inputVars, valueOf, outputChannel, series, sending, writing, account>>

-----------------------------------------------------------------------------
(* The aggregator worker of process.go *)

Receive ==
    /\ writing = <<>>
    /\ outputChannel # <<>>
    /\ writing' = <<Head(outputChannel)>>
    /\ outputChannel' = Tail(outputChannel)
    /\ UNCHANGED <<inputVars, valueOf, series, pubVars, account>>

\* Mutated form of WriteAggregate: a flush never gives writeMutex back, and Write waits.
WriteAggregateWaits == writing # <<>> /\ UNCHANGED vars

\* NewPoint copies the Fields map, and Write puts the point into a batch, which takes
\* as long as a flush that holds writeMutex does.
WriteAggregate ==
    /\ writing # <<>>
    /\ writing' = <<>>
    /\ UNCHANGED <<inputVars, valueOf, outputChannel, series, pubVars, account>>

-----------------------------------------------------------------------------

\* A process that NewProcess has made and Init has given its worker.
Init ==
    /\ message = <<>>
    /\ received = 0
    /\ made = 0
    /\ valueOf = [f \in 1 .. MaxPoints |-> NotFloat]
    /\ inputChannel = <<>>
    /\ outputChannel = <<>>
    /\ series = [id \in {} |-> NotFloat]
    /\ mux = "free"
    /\ round = "none"
    /\ left = {}
    /\ sending = <<>>
    /\ waitingNextInterval = TRUE
    /\ writing = <<>>
    /\ account = [id \in {} |-> NotFloat]

Router == (\E m \in Messages : OnMessage(m)) \/ AddDataPoint \/ WriteAtOnce

\* What the publisher does after the ticker has fired.
Publishing ==
    \/ \E id \in left : VisitAggregate(id)
    \/ \E id \in left, tooOld \in BOOLEAN : VisitDifference(id, tooOld)
    \/ Send
    \/ EndRound
    \/ \E isMultiple \in BOOLEAN : TestMinute(isMultiple)

Worker == Receive \/ WriteAggregate

Next == Router \/ TakeIn \/ Tick \/ Publishing \/ Worker

Spec == Init /\ [][Next]_vars

\* Every goroutine runs on.  The input processor competes for mux with a publisher that
\* takes it again and again; a Go mutex is handed to a goroutine that has waited for
\* more than a millisecond.  Write comes back because writeMutex is given back.
FairSpec == Spec /\ SF_vars(TakeIn) /\ WF_vars(Publishing) /\ WF_vars(Worker)

-----------------------------------------------------------------------------
(* Properties *)

InFlight == Range(outputChannel) \cup Range(sending) \cup Range(writing)

FieldsMaps == 1 .. MaxPoints
Ratios     == [num : Int, den : Nat]
Words      == {Power[1], Energy[1], Sampled[1], Prices[1], "", "import", "export"}
              \cup UNION {{m.service, m.type, m.device} : m \in Messages}
Names      == Seq(Words)
AggregationFunctions == {"mean", "last", "difference", "sum"}
Topics     == {m.topic : m \in Messages}
Values     == Int \cup {NotFloat}

DataPoints == [measurement : Names, series : Names, func : AggregationFunctions, value : Values]
Inputs     == [measurement : Names, series : Names, func : AggregationFunctions, value : Values,
               fields : FieldsMaps, topic : Topics, hourly : BOOLEAN]
SValues    == [values : Seq(Int), func : AggregationFunctions, measurement : Names, topic : Topics,
               fields : FieldsMaps, hourly : BOOLEAN, last : Ratios]
Aggregates == [series : Names, measurement : Names, topic : Topics, fields : FieldsMaps,
               value : Ratios]
Accounts   == [taken : Values, grown : Int, published : Int, refused : Int, plain : BOOLEAN]

TypeOK ==
    /\ message \in Seq([point : DataPoints, topic : Topics, hourly : BOOLEAN])
    /\ received \in 0 .. MaxMessages
    /\ made \in 0 .. MaxPoints
    /\ valueOf \in [FieldsMaps -> Ratios \cup {NotFloat}]
    /\ inputChannel \in Seq(Inputs) /\ Len(inputChannel) <= InputCap
    /\ outputChannel \in Seq(Aggregates) /\ Len(outputChannel) <= OutputCap
    /\ DOMAIN series \subseteq Names
    /\ \A id \in DOMAIN series : series[id] \in SValues
    /\ mux \in {"free", "publisher"}
    /\ round \in {"none", "aggregates", "minute", "differences"}
    /\ left \subseteq DOMAIN series
    /\ sending \in Seq(Aggregates) /\ Len(sending) <= 1
    /\ waitingNextInterval \in BOOLEAN
    /\ writing \in Seq(Aggregates) /\ Len(writing) <= 1
    /\ DOMAIN account = DOMAIN series
    /\ \A id \in DOMAIN account : account[id] \in Accounts

\* The Fields map of an aggregate is shared with the series it comes from, without a
\* lock, until the worker has made a point of it: still the map holds the value the
\* aggregate was published with, however many rounds pass in between.
FieldsKeepValue == \A a \in InFlight : valueOf[a.fields] = a.value

\* What the values at hand of a series will yield.
Pending(s) ==
    CASE s.func = "sum"        -> Total(s.values)
      [] s.func = "difference" -> CalculateDifference(s.values)
      [] OTHER                 -> 0

\* What is published of a series that is summed or sampled, what is refused and what its
\* values at hand will yield never exceed what its values have added up to, or risen by,
\* since the first one: no consumption is counted in two rounds, across filtered values,
\* meters that start again and series that are thrown away as too old.
NothingCountedTwice ==
    \A id \in DOMAIN account :
        account[id].published + account[id].refused + Pending(series[id])
          <= account[id].grown

\* Nothing is lost between the rounds of the energy of a charging session, or of a main
\* meter that was never filtered: what has been published, what is refused and what the
\* values at hand will yield is what has been counted.
CountsAreComplete ==
    \A id \in DOMAIN series :
        \/ series[id].func = "sum"
        \/ series[id].func = "difference" /\ ~account[id].plain
        => account[id].published + account[id].refused + Pending(series[id])
             = account[id].grown

\* What is on its way to the worker, in its order.
Aggregated == writing \o outputChannel \o sending

\* The same with the values the worker will read in the maps.
OnTheWay ==
    [i \in DOMAIN Aggregated |->
        [series |-> Aggregated[i].series, value |-> valueOf[Aggregated[i].fields]]]

CountedSeries == {id \in DOMAIN series : series[id].func \in {"sum", "difference"}}
Growth        == [id \in DOMAIN account |-> account[id].grown]
SettledGrowth == [id \in DOMAIN account |-> account[id].published + account[id].refused]

Meters == INSTANCE Metering WITH
    counted <- CountedSeries, grown <- Growth, settled <- SettledGrowth, queue <- OnTheWay

\* The channels, the rounds and the shared maps implement Metering: the worker writes what
\* was published, all of it, in the order and with the values it was published, and no
\* growth of a series is in two of these values.
ImplementsMetering == Meters!Spec

\* A burst of messages is worked off: the publisher blocks on the full output channel
\* with mux in its hand, and the input processor waits for mux, but the worker waits for
\* neither, so that both channels are empty again and again.
ChannelsDrain == []<>(inputChannel = <<>> /\ InFlight = {})
=============================================================================

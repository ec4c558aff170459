------------------------- MODULE AggregatorProofs --------------------------
(***************************************************************************)
(* What Aggregator promises, for any messages, filters and capacities.     *)
(*                                                                         *)
(* Types.  Every value stays in its set.                                   *)
(*                                                                         *)
(* Maps.  The publisher may write the map of a series that has something   *)
(* to publish.  A series gets something to publish together with a new     *)
(* map, and has nothing left, or one value to start from, when it has      *)
(* published.  So the maps of the points that wait, of the series that     *)
(* have something to publish and of the aggregates in flight are apart.    *)
(*                                                                         *)
(* Accounts.  What is booked of a series and what it has in hand make up   *)
(* what its values have grown, or, when it is sampled, fall short of it by *)
(* at least the way from the value it starts from to the last one taken    *)
(* in.                                                                     *)
(*                                                                         *)
(* Refinement.  With the three invariants every step is one of Metering.   *)
(***************************************************************************)
EXTENDS AggregatorLemmas, SequenceTheorems

IsSequence(s) == \E S : s \in Seq(S)
IsOptional(s) == s = <<>> \/ \E a : s = <<a>>

SeriesFields ==
    {"values", "func", "measurement", "topic", "fields", "hourly", "last"}

Shape ==
    /\ made \in 0 .. MaxPoints
    /\ DOMAIN valueOf = FieldsMaps
    /\ IsSequence(inputChannel) /\ IsSequence(outputChannel)
    /\ IsOptional(sending) /\ IsOptional(writing)
    /\ \A id \in DOMAIN series : DOMAIN series[id] = SeriesFields
    /\ left \subseteq DOMAIN series

\* A series that cannot publish before it has taken something in.
Settled(s) ==
    \/ s.values = <<>>
    \/ s.func = "difference" /\ \E x : s.values = <<x>>

MapsAreMade ==
    /\ \A p \in Range(inputChannel) : p.fields \in 1 .. made
    /\ \A id \in DOMAIN series : series[id].fields \in 1 .. made
    /\ \A a \in InFlight : a.fields \in 1 .. made

MapsAreApart ==
    /\ \A i, j \in DOMAIN inputChannel :
          inputChannel[i].fields = inputChannel[j].fields => i = j
    /\ \A p \in Range(inputChannel), id \in DOMAIN series : p.fields # series[id].fields
    /\ \A p \in Range(inputChannel), a \in InFlight : p.fields # a.fields
    /\ \A id1, id2 \in DOMAIN series : series[id1].fields = series[id2].fields => id1 = id2
    /\ \A id \in DOMAIN series, a \in InFlight :
          series[id].fields = a.fields => Settled(series[id])

FieldsInv == Shape /\ MapsAreMade /\ MapsAreApart /\ FieldsKeepValue

-----------------------------------------------------------------------------
(* Sequences *)

LEMMA AppendIsSequence ==
    ASSUME NEW s, IsSequence(s), NEW e
    PROVE  /\ IsSequence(Append(s, e))
           /\ Range(Append(s, e)) = Range(s) \cup {e}
           /\ Len(s) \in Nat
           /\ DOMAIN s = 1 .. Len(s)
           /\ DOMAIN Append(s, e) = 1 .. Len(s) + 1
           /\ \A i \in 1 .. Len(s) : Append(s, e)[i] = s[i]
           /\ Append(s, e)[Len(s) + 1] = e
<1>1. PICK S : s \in Seq(S)
  BY DEF IsSequence
<1> DEFINE T == S \cup {e}
<1>2. s \in Seq(T)
  BY <1>1
<1>3. Append(s, e) \in Seq(T)
  BY <1>2
<1>4. IsSequence(Append(s, e))
  BY <1>3 DEF IsSequence
<1>5. /\ Len(s) \in Nat
      /\ DOMAIN s = 1 .. Len(s)
      /\ DOMAIN Append(s, e) = 1 .. Len(s) + 1
      /\ \A i \in 1 .. Len(s) : Append(s, e)[i] = s[i]
      /\ Append(s, e)[Len(s) + 1] = e
  BY <1>2
<1>6. Range(Append(s, e)) = Range(s) \cup {e}
  BY <1>5 DEF Range
<1> QED BY <1>4, <1>5, <1>6

LEMMA TailIsSequence ==
    ASSUME NEW s, IsSequence(s), s # <<>>
    PROVE  /\ IsSequence(Tail(s))
           /\ Range(Tail(s)) \subseteq Range(s)
           /\ Head(s) \in Range(s)
           /\ Range(s) = Range(Tail(s)) \cup {Head(s)}
           /\ Len(s) \in Nat \ {0}
           /\ DOMAIN s = 1 .. Len(s)
           /\ Head(s) = s[1]
           /\ DOMAIN Tail(s) = 1 .. Len(s) - 1
           /\ \A i \in 1 .. Len(s) - 1 : Tail(s)[i] = s[i + 1]
<1>1. PICK S : s \in Seq(S)
  BY DEF IsSequence
<1>2. Tail(s) \in Seq(S)
  BY <1>1
<1>3. IsSequence(Tail(s))
  BY <1>2 DEF IsSequence
<1>4. /\ Len(s) \in Nat \ {0}
      /\ DOMAIN s = 1 .. Len(s)
      /\ Head(s) = s[1]
      /\ DOMAIN Tail(s) = 1 .. Len(s) - 1
      /\ \A i \in 1 .. Len(s) - 1 : Tail(s)[i] = s[i + 1]
  BY <1>1
<1>5. Range(s) = Range(Tail(s)) \cup {Head(s)}
  <2>1. ASSUME NEW x \in Range(s)
        PROVE  x \in Range(Tail(s)) \cup {Head(s)}
    <3>1. PICK i \in 1 .. Len(s) : x = s[i]
      BY <1>4 DEF Range
    <3>2. CASE i = 1
      BY <3>1, <3>2, <1>4
    <3>3. CASE i # 1
      <4>1. i - 1 \in 1 .. Len(s) - 1 /\ x = Tail(s)[i - 1]
        BY <3>1, <3>3, <1>4
      <4> QED BY <4>1, <1>4 DEF Range
    <3> QED BY <3>2, <3>3
  <2>2. Range(Tail(s)) \subseteq Range(s)
    BY <1>4 DEF Range
  <2>3. Head(s) \in Range(s)
    BY <1>4 DEF Range
  <2> QED BY <2>1, <2>2, <2>3
<1> QED BY <1>3, <1>4, <1>5

LEMMA OptionalRange ==
    ASSUME NEW s, IsOptional(s), s # <<>>
    PROVE  Range(s) = {s[1]}
<1>1. PICK a : s = <<a>>
  BY DEF IsOptional
<1> QED BY <1>1 DEF Range

LEMMA EmptyRange == Range(<<>>) = {}
  BY DEF Range

LEMMA OneRange == \A a : Range(<<a>>) = {a}
  BY DEF Range

-----------------------------------------------------------------------------
(* Types *)

AccountsTyped ==
    /\ DOMAIN account = DOMAIN series
    /\ \A id \in DOMAIN account : account[id] \in Accounts

LEMMA InitTyped == Init => TypeOK
<1> SUFFICES ASSUME Init PROVE TypeOK
  OBVIOUS
<1> USE AggregatorAssumption DEF Init
<1>1. valueOf \in [FieldsMaps -> Ratios \cup {NotFloat}]
  BY DEF FieldsMaps
<1>2. /\ \A S : <<>> \in Seq(S)
      /\ Len(<<>>) = 0
  OBVIOUS
<1>3. /\ message \in Seq([point : DataPoints, topic : Topics, hourly : BOOLEAN])
      /\ inputChannel \in Seq(Inputs) /\ Len(inputChannel) <= InputCap
      /\ outputChannel \in Seq(Aggregates) /\ Len(outputChannel) <= OutputCap
      /\ sending \in Seq(Aggregates) /\ Len(sending) <= 1
      /\ writing \in Seq(Aggregates) /\ Len(writing) <= 1
  BY <1>2
<1>4. DOMAIN series = {} /\ DOMAIN account = {}
  OBVIOUS
<1> QED BY <1>1, <1>3, <1>4 DEF TypeOK

LEMMA OnMessageTyped ==
    ASSUME TypeOK, NEW m \in Messages, OnMessage(m) PROVE TypeOK'
<1> DEFINE ps == DefaultTransform(m)
           made1 == [i \in DOMAIN ps |->
                       [point |-> ps[i], topic |-> m.topic,
                        hourly |-> m.device # NoDevice /\ m.mainMeter]]
<1>1. ps \in Seq(DataPoints)
  BY TransformTyped
<1>2. message' = made1
  BY DEF OnMessage
<1>3. m.topic \in Topics /\ (m.device # NoDevice /\ m.mainMeter) \in BOOLEAN
  BY DEF Topics
<1> HIDE DEF ps
<1>4. made1 \in Seq([point : DataPoints, topic : Topics, hourly : BOOLEAN])
  <2>1. Len(ps) \in Nat /\ DOMAIN ps = 1 .. Len(ps) /\ \A i \in 1 .. Len(ps) : ps[i] \in DataPoints
    BY <1>1
  <2>2. \A i \in 1 .. Len(ps) :
           made1[i] \in [point : DataPoints, topic : Topics, hourly : BOOLEAN]
    BY <1>3, <2>1
  <2>3. made1 \in [1 .. Len(ps) -> [point : DataPoints, topic : Topics, hourly : BOOLEAN]]
    BY <2>1, <2>2
  <2> DEFINE M == [point : DataPoints, topic : Topics, hourly : BOOLEAN]
  <2>4. made1 \in [1 .. Len(ps) -> M] /\ Len(ps) \in Nat
    BY <2>1, <2>3
  <2> HIDE DEF made1, M
  <2>5. made1 \in Seq(M)
    BY <2>4
  <2> QED BY <2>5 DEF M
<1>5. received' \in 0 .. MaxMessages
  BY AggregatorAssumption DEF OnMessage, TypeOK
<1> QED BY <1>2, <1>4, <1>5 DEF OnMessage, TypeOK, pubVars

LEMMA AddDataPointTyped == ASSUME TypeOK, AddDataPoint PROVE TypeOK'
<1> DEFINE M == [point : DataPoints, topic : Topics, hourly : BOOLEAN]
           h == Head(message)
           p == [measurement |-> h.point.measurement, series |-> h.point.series,
                 func |-> h.point.func, value |-> h.point.value, fields |-> made',
                 topic |-> h.topic, hourly |-> h.hourly]
<1>1. h \in M /\ message' \in Seq(M)
  <2>1. message \in Seq(M) /\ message # <<>> /\ message' = Tail(message)
    BY DEF AddDataPoint, TypeOK
  <2> HIDE DEF M
  <2> QED BY <2>1
<1>2. made' \in 0 .. MaxPoints /\ made' \in FieldsMaps
  BY AggregatorAssumption DEF AddDataPoint, TypeOK, FieldsMaps
<1>3. h.point \in DataPoints /\ h.topic \in Topics /\ h.hourly \in BOOLEAN
  BY <1>1, Zenon
<1>4. Entry(h.point.value) \in Ratios \cup {NotFloat}
  BY <1>3 DEF Entry, Ratio, Ratios, DataPoints, Values
<1>5. valueOf' \in [FieldsMaps -> Ratios \cup {NotFloat}]
  BY <1>2, <1>4 DEF AddDataPoint, TypeOK
<1>6. p \in Inputs
  <2>1. /\ h.point.measurement \in Names /\ h.point.series \in Names
        /\ h.point.func \in AggregationFunctions /\ h.point.value \in Values
    BY <1>3 DEF DataPoints
  <2> HIDE DEF h
  <2> QED BY <1>2, <1>3, <2>1 DEF Inputs
<1>7. inputChannel' \in Seq(Inputs) /\ Len(inputChannel') <= InputCap
  <2>1. inputChannel \in Seq(Inputs) /\ Len(inputChannel) <= InputCap
    BY DEF TypeOK
  <2>2. inputChannel' = IF InputHasRoom THEN Append(inputChannel, p) ELSE inputChannel
    BY DEF AddDataPoint
  <2> HIDE DEF p
  <2> QED BY <1>6, <2>1, <2>2, AggregatorAssumption DEF InputHasRoom
<1> QED BY <1>1, <1>2, <1>5, <1>7 DEF AddDataPoint, TypeOK, pubVars

LEMMA WriteAtOnceTyped == ASSUME TypeOK, WriteAtOnce PROVE TypeOK'
<1> DEFINE M == [point : DataPoints, topic : Topics, hourly : BOOLEAN]
<1>1. message' \in Seq(M)
  <2>1. message \in Seq(M) /\ message # <<>> /\ message' = Tail(message)
    BY DEF WriteAtOnce, TypeOK
  <2> HIDE DEF M
  <2> QED BY <2>1
<1> QED BY <1>1 DEF WriteAtOnce, TypeOK, pubVars

LEMMA UpdatedTyped ==
    ASSUME TypeOK, NEW p \in Inputs, p.value # NotFloat
    PROVE  Updated(p.series, p) \in SValues
<1>1. /\ p.value \in Int /\ p.func \in AggregationFunctions /\ p.measurement \in Names
      /\ p.topic \in Topics /\ p.fields \in FieldsMaps /\ p.hourly \in BOOLEAN
  BY DEF Inputs, Values
<1>2. CASE p.series \in DOMAIN series
  <2> DEFINE s == series[p.series]
             d == Described(s, p)
             values == Collected(s.func, s.values, p.value)
  <2>1. s \in SValues
    BY <1>2 DEF TypeOK
  <2>2. s.values \in Seq(Int)
    BY <2>1 DEF SValues
  <2>3. values \in Seq(Int)
    <3>1. Append(s.values, p.value) \in Seq(Int)
      BY <1>1, <2>2
    <3>2. <<p.value>> \in Seq(Int)
      BY <1>1
    <3> QED BY <3>1, <3>2 DEF Collected
  <2>4. d \in SValues /\ d.values = s.values
    BY <1>1, <2>1 DEF Described, SValues
  <2>5. Updated(p.series, p) = [d EXCEPT !.values = values]
    BY <1>2, <2>4 DEF Updated
  <2> HIDE DEF d, values, s
  <2> QED BY <2>3, <2>4, <2>5 DEF SValues
<1>3. CASE p.series \notin DOMAIN series
  <2>1. <<p.value>> \in Seq(Int)
    BY <1>1
  <2>2. NeverPublished \in Ratios
    BY DEF NeverPublished, Ratio, Ratios
  <2> QED BY <1>1, <1>3, <2>1, <2>2 DEF Updated, SValues
<1> QED BY <1>2, <1>3

LEMMA NotedTyped ==
    ASSUME TypeOK, NEW p \in Inputs, p.value # NotFloat
    PROVE  Noted(p.series, p) \in Accounts
<1> DEFINE id == p.series
           old == IF id \in DOMAIN account THEN account[id]
                  ELSE [taken |-> p.value, grown |-> 0, published |-> 0, refused |-> 0,
                        plain |-> FALSE]
           func == IF id \in DOMAIN series THEN series[id].func ELSE p.func
           gain == CASE func = "sum" -> p.value
                     [] func = "difference" /\ old.taken # NotFloat -> Rise(old.taken, p.value)
                     [] OTHER -> 0
<1>1. p.value \in Int /\ p.value \in Values
  BY DEF Inputs, Values
<1>2. old \in Accounts
  BY <1>1 DEF TypeOK, Accounts
<1>3. Noted(id, p) = [old EXCEPT !.taken = p.value, !.grown = old.grown + gain]
  BY <1>2 DEF Noted, Accounts
<1> HIDE DEF old, func
<1>4. gain \in Int
  <2>1. old.taken # NotFloat => old.taken \in Int
    BY <1>2 DEF Accounts, Values
  <2>2. \A a, b \in Int : Rise(a, b) \in Int
    BY DEF Rise
  <2>3. old.taken # NotFloat => Rise(old.taken, p.value) \in Int
    BY <1>1, <2>1, <2>2, Zenon
  <2> QED BY <1>1, <2>3
<1>5. old.grown + gain \in Int
  BY <1>2, <1>4 DEF Accounts
<1>6. \A e \in Accounts, t \in Values, g \in Int :
         [e EXCEPT !.taken = t, !.grown = g] \in Accounts
  BY DEF Accounts
<1> HIDE DEF gain
<1> QED BY <1>1, <1>2, <1>3, <1>5, <1>6

LEMMA TakeInTyped == ASSUME TypeOK, TakeIn PROVE TypeOK'
<1> DEFINE p == Head(inputChannel)
<1>1. /\ p \in Inputs /\ inputChannel' \in Seq(Inputs)
      /\ Len(inputChannel') <= InputCap
  <2>1. /\ inputChannel \in Seq(Inputs) /\ Len(inputChannel) <= InputCap
        /\ inputChannel # <<>> /\ inputChannel' = Tail(inputChannel)
    BY DEF TakeIn, TypeOK
  <2> QED BY <2>1, AggregatorAssumption
<1>2. /\ DOMAIN series' \subseteq Names
      /\ \A id \in DOMAIN series' : series'[id] \in SValues
      /\ DOMAIN series \subseteq DOMAIN series'
      /\ AccountsTyped'
  <2>1. CASE p.value = NotFloat
    BY <2>1 DEF TakeIn, TypeOK, AccountsTyped
  <2>2. CASE p.value # NotFloat
    <3> DEFINE new == Updated(p.series, p)
               entry == Noted(p.series, p)
    <3>1. new \in SValues /\ entry \in Accounts /\ p.series \in Names
      BY <1>1, <2>2, UpdatedTyped, NotedTyped DEF Inputs
    <3>2. series' = With(series, p.series, new) /\ account' = With(account, p.series, entry)
      BY <2>2 DEF TakeIn
    <3>3. /\ DOMAIN series \subseteq Names /\ DOMAIN account = DOMAIN series
          /\ \A id \in DOMAIN series : series[id] \in SValues
          /\ \A id \in DOMAIN account : account[id] \in Accounts
      BY DEF TypeOK
    <3> HIDE DEF new, entry, p
    <3>4. /\ DOMAIN series' = DOMAIN series \cup {p.series}
          /\ DOMAIN account' = DOMAIN account \cup {p.series}
          /\ series'[p.series] = new /\ account'[p.series] = entry
          /\ \A i \in DOMAIN series : i # p.series => series'[i] = series[i]
          /\ \A i \in DOMAIN account : i # p.series => account'[i] = account[i]
      <4>1. /\ DOMAIN series' = DOMAIN series \cup {p.series}
            /\ series'[p.series] = new
            /\ \A i \in DOMAIN series : i # p.series => series'[i] = series[i]
        BY <3>2 DEF With
      <4>2. /\ DOMAIN account' = DOMAIN account \cup {p.series}
            /\ account'[p.series] = entry
            /\ \A i \in DOMAIN account : i # p.series => account'[i] = account[i]
        BY <3>2 DEF With
      <4> QED BY <4>1, <4>2
    <3> QED BY <3>1, <3>3, <3>4 DEF AccountsTyped
  <2> QED BY <2>1, <2>2
<1>3. left' \subseteq DOMAIN series'
  BY <1>2 DEF TakeIn, TypeOK, pubVars
<1> QED BY <1>1, <1>2, <1>3 DEF TakeIn, TypeOK, AccountsTyped, pubVars

LEMMA AggregateTyped ==
    ASSUME NEW func \in AggregationFunctions \ {"difference"},
           NEW values \in Seq(Int), values # <<>>
    PROVE  Aggregate(func, values) \in Ratios
<1>1. Total(values) \in Int
  <2>1. 0 \in Int
    OBVIOUS
  <2> QED BY <2>1, TotalAppended
<1>2. Len(values) \in Nat /\ values[1] \in Int
  OBVIOUS
<1>3. /\ Ratio(Total(values), Len(values)) \in Ratios
      /\ Ratio(Total(values), 1) \in Ratios
      /\ Ratio(values[1], 1) \in Ratios
  BY <1>1, <1>2 DEF Ratio, Ratios
<1>4. func \in {"mean", "sum", "last"}
  BY DEF AggregationFunctions
<1>5. Aggregate(func, values) \in {Ratio(Total(values), Len(values)),
                                   Ratio(Total(values), 1), Ratio(values[1], 1)}
  BY <1>4 DEF Aggregate
<1> QED BY <1>3, <1>5

\* What a visit does not touch keeps its type.
LEMMA VisitTyped ==
    ASSUME TypeOK, NEW id, Visit(id),
           \A i \in DOMAIN series : series'[i] \in SValues,
           DOMAIN series' = DOMAIN series,
           valueOf' \in [FieldsMaps -> Ratios \cup {NotFloat}],
           sending' \in Seq(Aggregates), Len(sending') <= 1,
           AccountsTyped'
    PROVE  TypeOK'
<1>1. left' \subseteq DOMAIN series'
  BY DEF Visit, TypeOK
<1> QED BY <1>1 DEF Visit, TypeOK, AccountsTyped, inputVars

LEMMA SkipTyped ==
    ASSUME TypeOK, NEW id, Visit(id), NEW values \in Seq(Int), Skip(id, values),
           AccountsTyped'
    PROVE  TypeOK'
<1>1. id \in DOMAIN series /\ series[id] \in SValues
  BY DEF Visit, TypeOK
<1>2. [series[id] EXCEPT !.values = values] \in SValues
  BY <1>1 DEF SValues
<1>3. /\ DOMAIN series' = DOMAIN series
      /\ \A i \in DOMAIN series : series'[i] \in SValues
  <2>1. \A i \in DOMAIN series : series[i] \in SValues
    BY DEF TypeOK
  <2>2. series' = [series EXCEPT ![id] = [series[id] EXCEPT !.values = values]]
    BY DEF Skip
  <2> QED BY <1>1, <1>2, <2>1, <2>2
<1>4. /\ valueOf' \in [FieldsMaps -> Ratios \cup {NotFloat}]
      /\ sending' \in Seq(Aggregates) /\ Len(sending') <= 1
  BY DEF Skip, TypeOK
<1> QED BY <1>3, <1>4, VisitTyped

LEMMA PublishTyped ==
    ASSUME TypeOK, NEW id, Visit(id), NEW values \in Seq(Int), NEW result \in Ratios,
           Publish(id, values, result), AccountsTyped'
    PROVE  TypeOK'
<1> DEFINE s == series[id]
           a == [series |-> id, measurement |-> s.measurement, topic |-> s.topic,
                 fields |-> s.fields, value |-> result]
<1>1. id \in DOMAIN series /\ id \in Names /\ s \in SValues
  BY DEF Visit, TypeOK
<1>2. [s EXCEPT !.values = values, !.last = result] \in SValues
  BY <1>1 DEF SValues
<1>3. /\ DOMAIN series' = DOMAIN series
      /\ \A i \in DOMAIN series : series'[i] \in SValues
  <2>1. \A i \in DOMAIN series : series[i] \in SValues
    BY DEF TypeOK
  <2>2. series' = [series EXCEPT ![id] = [s EXCEPT !.values = values, !.last = result]]
    BY DEF Publish
  <2> QED BY <1>1, <1>2, <2>1, <2>2
<1>4. valueOf' \in [FieldsMaps -> Ratios \cup {NotFloat}]
  <2>1. s.fields \in FieldsMaps
    BY <1>1 DEF SValues
  <2> QED BY <2>1 DEF Publish, TypeOK
<1>5. sending' \in Seq(Aggregates) /\ Len(sending') <= 1
  <2>1. a \in Aggregates
    BY <1>1 DEF SValues, Aggregates
  <2>2. sending' = <<a>>
    BY DEF Publish
  <2> HIDE DEF a, Aggregates
  <2>3. <<a>> \in Seq(Aggregates)
    BY <2>1, ShortSequences
  <2>4. Len(<<a>>) = 1
    OBVIOUS
  <2> QED BY <2>2, <2>3, <2>4
<1> QED BY <1>3, <1>4, <1>5, VisitTyped

LEMMA VisitAggregateTyped == ASSUME TypeOK, NEW id, VisitAggregate(id) PROVE TypeOK'
<1> DEFINE s == series[id]
           result == Aggregate(s.func, s.values)
<1>1. Visit(id) /\ id \in DOMAIN series /\ s \in SValues
  BY DEF VisitAggregate, Visit, TypeOK
<1>2. s.values \in Seq(Int) /\ <<>> \in Seq(Int) /\ s.func \in AggregationFunctions
  BY <1>1, ShortSequences DEF SValues
<1>3. CASE s.values = <<>> \/ s.func = "difference"
  <2>1. Skip(id, s.values) /\ UNCHANGED account
    BY <1>3 DEF VisitAggregate
  <2>2. AccountsTyped'
    BY <2>1, <1>1 DEF AccountsTyped, TypeOK, Skip
  <2> QED BY <1>1, <1>2, <2>1, <2>2, SkipTyped
<1>4. CASE ~(s.values = <<>> \/ s.func = "difference")
  <2>1. result \in Ratios
    BY <1>2, <1>4, AggregateTyped
  <2> HIDE DEF result
  <2>2. Skip(id, <<>>) \/ Publish(id, <<>>, result)
    BY <1>4 DEF VisitAggregate, result
  <2>3. /\ DOMAIN account' = DOMAIN account
        /\ \A i \in DOMAIN account' : account'[i] \in Accounts
    <3>1. result.num \in Int
      BY <2>1 DEF Ratios
    <3>2. \A i \in DOMAIN account : account[i] \in Accounts
      BY DEF TypeOK
    <3>3. \A e \in Accounts : /\ [e EXCEPT !.published = @ + result.num] \in Accounts
                              /\ [e EXCEPT !.refused = @ + result.num] \in Accounts
      BY <3>1 DEF Accounts
    <3>4. \/ account' = account
          \/ account' = [account EXCEPT ![id].published = @ + result.num]
          \/ account' = [account EXCEPT ![id].refused = @ + result.num]
      BY <1>4 DEF VisitAggregate, result
    <3>5. DOMAIN account' = DOMAIN account
      BY <3>4
    <3>6. ASSUME NEW i \in DOMAIN account
          PROVE  account'[i] \in {account[i],
                                  [account[i] EXCEPT !.published = @ + result.num],
                                  [account[i] EXCEPT !.refused = @ + result.num]}
      BY <3>4
    <3> QED BY <3>2, <3>3, <3>5, <3>6
  <2>4. AccountsTyped'
    BY <1>1, <2>2, <2>3 DEF AccountsTyped, TypeOK, Skip, Publish
  <2>5. CASE Skip(id, <<>>)
    BY <1>1, <1>2, <2>4, <2>5, SkipTyped
  <2>6. CASE Publish(id, <<>>, result)
    BY <1>1, <1>2, <2>1, <2>4, <2>6, PublishTyped
  <2> QED BY <2>2, <2>5, <2>6
<1> QED BY <1>3, <1>4

\* The alternatives of a turn of the loop over the differences.
Filtered(s)   == IF s.hourly THEN s.values ELSE FilterSeries(s.values)
Counted(id)   == [account[id] EXCEPT !.plain = @ \/ ~series[id].hourly]
Books(id, entry) == account' = [account EXCEPT ![id] = entry]

LEMMA DifferenceAlternatives ==
    ASSUME NEW id, NEW tooOld \in BOOLEAN, VisitDifference(id, tooOld),
           series[id].values # <<>>, series[id].func = "difference"
    PROVE  LET s == series[id]
               values == Filtered(s)
               result == CalculateDifference(values)
               counted == Counted(id)
           IN  \/ /\ Skip(id, <<>>)
                  /\ Books(id, [counted EXCEPT !.refused = @ + CalculateDifference(s.values),
                                               !.taken = NotFloat])
               \/ values = <<>> /\ Skip(id, <<>>) /\ Books(id, counted)
               \/ /\ values # <<>>
                  /\ Skip(id, Kept(values))
                  /\ Books(id, [counted EXCEPT !.refused = @ + result])
               \/ /\ values # <<>>
                  /\ result = 0 \/ ~s.hourly
                  /\ Skip(id, Kept(values))
                  /\ Books(id, counted)
               \/ /\ values # <<>>
                  /\ Publish(id, Kept(values), Ratio(result, 1))
                  /\ Books(id, [counted EXCEPT !.published = @ + result])
BY DEF VisitDifference, Filtered, Counted, Books

LEMMA FilteredTyped ==
    ASSUME NEW s \in SValues
    PROVE  /\ s.values \in Seq(Int) /\ Filtered(s) \in Seq(Int)
           /\ CalculateDifference(s.values) \in Nat
           /\ CalculateDifference(Filtered(s)) \in Nat
           /\ Ratio(CalculateDifference(Filtered(s)), 1) \in Ratios
           /\ Filtered(s) # <<>> => Last(Filtered(s)) \in Int /\ Kept(Filtered(s)) \in Seq(Int)
<1>1. s.values \in Seq(Int)
  BY DEF SValues
<1>2. Filtered(s) \in Seq(Int)
  BY <1>1, FilterKeepsLess DEF Filtered
<1>3. CalculateDifference(s.values) \in Nat /\ CalculateDifference(Filtered(s)) \in Nat
  BY <1>1, <1>2, DifferenceIsNatural
<1>4. ASSUME Filtered(s) # <<>>
      PROVE  Last(Filtered(s)) \in Int /\ Kept(Filtered(s)) \in Seq(Int)
  <2>1. Last(Filtered(s)) \in Int
    BY <1>2, <1>4, IntegerSequences
  <2> QED BY <2>1 DEF Kept
<1>5. Ratio(CalculateDifference(Filtered(s)), 1) \in Ratios
  BY <1>3 DEF Ratio, Ratios
<1> QED BY <1>1, <1>2, <1>3, <1>4, <1>5

LEMMA BooksTyped ==
    ASSUME TypeOK, NEW id \in DOMAIN series, NEW entry \in Accounts, Books(id, entry),
           DOMAIN series' = DOMAIN series
    PROVE  AccountsTyped'
BY DEF TypeOK, Books, AccountsTyped

LEMMA CountedTyped ==
    ASSUME TypeOK, NEW id \in DOMAIN series
    PROVE  /\ Counted(id) \in Accounts
           /\ \A n \in Int : /\ [Counted(id) EXCEPT !.refused = @ + n] \in Accounts
                             /\ [Counted(id) EXCEPT !.published = @ + n] \in Accounts
                             /\ [Counted(id) EXCEPT !.refused = @ + n, !.taken = NotFloat]
                                  \in Accounts
<1>1. account[id] \in Accounts
  BY DEF TypeOK
<1>2. (account[id].plain \/ ~series[id].hourly) \in BOOLEAN
  OBVIOUS
<1>3. Counted(id) \in Accounts
  BY <1>1, <1>2 DEF Counted, Accounts
<1>4. NotFloat \in Values
  BY DEF Values
<1>5. ASSUME NEW e \in Accounts, NEW n \in Int
      PROVE  /\ [e EXCEPT !.refused = @ + n] \in Accounts
             /\ [e EXCEPT !.published = @ + n] \in Accounts
             /\ [e EXCEPT !.refused = @ + n, !.taken = NotFloat] \in Accounts
  <2>1. e.refused + n \in Int /\ e.published + n \in Int
    BY DEF Accounts
  <2> QED BY <1>4, <2>1 DEF Accounts
<1> QED BY <1>3, <1>5

LEMMA VisitDifferenceTyped ==
    ASSUME TypeOK, NEW id, NEW tooOld \in BOOLEAN, VisitDifference(id, tooOld) PROVE TypeOK'
<1> DEFINE s == series[id]
           values == Filtered(s)
           result == CalculateDifference(values)
<1>1. Visit(id) /\ id \in DOMAIN series /\ s \in SValues
  BY DEF VisitDifference, Visit, TypeOK
<1>2. /\ s.values \in Seq(Int) /\ <<>> \in Seq(Int)
      /\ CalculateDifference(s.values) \in Int /\ result \in Int
      /\ Ratio(result, 1) \in Ratios
      /\ values # <<>> => Kept(values) \in Seq(Int)
  BY <1>1, FilteredTyped, ShortSequences
<1>3. CASE s.values = <<>> \/ s.func # "difference"
  <2>1. Skip(id, s.values) /\ UNCHANGED account
    BY <1>3 DEF VisitDifference
  <2>2. AccountsTyped'
    BY <2>1, <1>1 DEF AccountsTyped, TypeOK, Skip
  <2> QED BY <1>1, <1>2, <2>1, <2>2, SkipTyped
<1>4. CASE s.values # <<>> /\ s.func = "difference"
  <2> HIDE DEF values, result
  <2>1. \E entry \in Accounts :
          /\ Books(id, entry)
          /\ \/ Skip(id, <<>>)
             \/ values # <<>> /\ Skip(id, Kept(values))
             \/ values # <<>> /\ Publish(id, Kept(values), Ratio(result, 1))
    BY <1>1, <1>2, <1>4, DifferenceAlternatives, CountedTyped DEF values, result
  <2>2. DOMAIN series' = DOMAIN series
    BY <2>1, <1>1 DEF Skip, Publish
  <2>3. AccountsTyped'
    BY <1>1, <2>1, <2>2, BooksTyped
  <2>4. CASE Skip(id, <<>>)
    BY <1>1, <1>2, <2>3, <2>4, SkipTyped
  <2>5. CASE values # <<>> /\ Skip(id, Kept(values))
    BY <1>1, <1>2, <2>3, <2>5, SkipTyped
  <2>6. CASE values # <<>> /\ Publish(id, Kept(values), Ratio(result, 1))
    BY <1>1, <1>2, <2>3, <2>6, PublishTyped
  <2> QED BY <2>1, <2>4, <2>5, <2>6
<1> QED BY <1>3, <1>4

LEMMA SendTyped == ASSUME TypeOK, Send PROVE TypeOK'
<1> DEFINE A == Aggregates
<1>1. /\ sending \in Seq(A) /\ sending # <<>>
      /\ outputChannel \in Seq(A) /\ Len(outputChannel) < OutputCap
      /\ outputChannel' = Append(outputChannel, sending[1])
  BY DEF Send, TypeOK
<1>2. <<>> \in Seq(A) /\ Len(<<>>) = 0
  BY ShortSequences
<1>3. outputChannel' \in Seq(A) /\ Len(outputChannel') <= OutputCap
  <2> HIDE DEF A
  <2> QED BY <1>1, AggregatorAssumption
<1> QED BY <1>2, <1>3 DEF Send, TypeOK, inputVars

LEMMA WorkerTyped == ASSUME TypeOK, Worker PROVE TypeOK'
<1> DEFINE A == Aggregates
<1>1. <<>> \in Seq(A) /\ Len(<<>>) = 0
  BY ShortSequences
<1>2. CASE Receive
  <2>1. outputChannel \in Seq(A) /\ Len(outputChannel) <= OutputCap /\ outputChannel # <<>>
    BY <1>2 DEF Receive, TypeOK
  <2> HIDE DEF A
  <2>2. /\ Head(outputChannel) \in A
        /\ Tail(outputChannel) \in Seq(A) /\ Len(Tail(outputChannel)) <= OutputCap
    BY <2>1, AggregatorAssumption
  <2>3. <<Head(outputChannel)>> \in Seq(A) /\ Len(<<Head(outputChannel)>>) = 1
    BY <2>2, ShortSequences
  <2> QED BY <1>2, <2>2, <2>3 DEF Receive, TypeOK, inputVars, pubVars, A
<1>3. CASE WriteAggregate
  BY <1>1, <1>3 DEF WriteAggregate, TypeOK, inputVars, pubVars
<1> QED BY <1>2, <1>3 DEF Worker

LEMMA NextTyped == TypeOK /\ [Next]_vars => TypeOK'
<1> SUFFICES ASSUME TypeOK, [Next]_vars PROVE TypeOK'
  OBVIOUS
<1>1. ASSUME NEW m \in Messages, OnMessage(m) PROVE TypeOK'
  BY <1>1, OnMessageTyped
<1>2. CASE AddDataPoint
  BY <1>2, AddDataPointTyped
<1>3. CASE WriteAtOnce
  BY <1>3, WriteAtOnceTyped
<1>4. CASE TakeIn
  BY <1>4, TakeInTyped
<1>5. CASE Tick
  BY <1>5 DEF Tick, TypeOK, inputVars
<1>6. ASSUME NEW id \in left, VisitAggregate(id) PROVE TypeOK'
  BY <1>6, VisitAggregateTyped
<1>7. ASSUME NEW id \in left, NEW tooOld \in BOOLEAN, VisitDifference(id, tooOld)
      PROVE  TypeOK'
  BY <1>7, VisitDifferenceTyped
<1>8. CASE Send
  BY <1>8, SendTyped
<1>9. CASE EndRound
  BY <1>9 DEF EndRound, TypeOK, inputVars
<1>10. ASSUME NEW isMultiple \in BOOLEAN, TestMinute(isMultiple) PROVE TypeOK'
  <2>1. waitingNextInterval' \in BOOLEAN
    BY <1>10, Zenon DEF TestMinute
  <2> QED BY <1>10, <2>1 DEF TestMinute, TypeOK, inputVars
<1>11. CASE Worker
  BY <1>11, WorkerTyped
<1>12. CASE UNCHANGED vars
  BY <1>12 DEF vars, TypeOK, inputVars, pubVars
<1> QED BY <1>1, <1>2, <1>3, <1>4, <1>5, <1>6, <1>7, <1>8, <1>9, <1>10, <1>11, <1>12
        DEF Next, Router, Publishing

\* Every variable keeps its type for any messages the parsers let through: the channels
\* within their capacities, at most one aggregate between the publisher and its channel
\* (agreggator.go:71 and 212).
THEOREM Typing == Spec => []TypeOK
<1> QED BY InitTyped, NextTyped, PTL DEF Spec

-----------------------------------------------------------------------------
(* The invariant of the Fields maps *)

\* One value alone makes no difference, filtered or not.
LEMMA OneValueMakesNoDifference ==
    ASSUME NEW s \in SValues, NEW x, s.values = <<x>>
    PROVE  CalculateDifference(Filtered(s)) = 0
<1>1. s.values \in Seq(Int) /\ Len(s.values) = 1
  BY DEF SValues
<1>2. Filtered(s) \in Seq(Int) /\ Len(Filtered(s)) <= 1
  <2>1. FilterSeries(s.values) \in Seq(Int) /\ Len(FilterSeries(s.values)) <= 1
    BY <1>1, FilterKeepsLess
  <2> QED BY <1>1, <2>1 DEF Filtered
<1> QED BY <1>2, DifferenceOfOne

LEMMA InitFields == Init => FieldsInv
<1> SUFFICES ASSUME Init PROVE FieldsInv
  OBVIOUS
<1> USE AggregatorAssumption DEF Init
<1>1. <<>> \in Seq({})
  OBVIOUS
<1>2. Shape
  BY <1>1 DEF Shape, IsSequence, IsOptional, FieldsMaps
<1>3. Range(inputChannel) = {} /\ InFlight = {} /\ DOMAIN series = {}
  BY EmptyRange DEF InFlight
<1>4. DOMAIN inputChannel = {}
  BY <1>1
<1> QED BY <1>2, <1>3, <1>4 DEF FieldsInv, MapsAreMade, MapsAreApart, FieldsKeepValue

\* What OnMessage and the worker's end of the output channel do not touch.
LEMMA FewerInFlight ==
    ASSUME FieldsInv, Shape',
           UNCHANGED <<made, valueOf, inputChannel, series>>,
           InFlight' \subseteq InFlight
    PROVE  FieldsInv'
BY DEF FieldsInv, MapsAreMade, MapsAreApart, FieldsKeepValue

LEMMA AddDataPointKeepsFields == ASSUME FieldsInv, AddDataPoint PROVE FieldsInv'
<1> USE AggregatorAssumption
<1>1. /\ made < MaxPoints /\ made' = made + 1 /\ made \in 0 .. MaxPoints
      /\ made' \in FieldsMaps
      /\ \A f \in FieldsMaps : f # made' => valueOf'[f] = valueOf[f]
      /\ DOMAIN valueOf' = FieldsMaps
      /\ InFlight' = InFlight
      /\ UNCHANGED <<outputChannel, series, sending, writing, left>>
  BY DEF AddDataPoint, FieldsInv, Shape, FieldsMaps, InFlight, pubVars
<1>2. 1 .. made \subseteq 1 .. made' /\ made' \notin 1 .. made /\ 1 .. made \subseteq FieldsMaps
      /\ made' \in 1 .. made' /\ made' \in 0 .. MaxPoints
  BY <1>1 DEF FieldsMaps
<1>3. CASE inputChannel' = inputChannel
  <2>1. Shape'
    BY <1>1, <1>2, <1>3 DEF FieldsInv, Shape
  <2>2. MapsAreMade' /\ MapsAreApart'
    BY <1>1, <1>2, <1>3 DEF FieldsInv, MapsAreMade, MapsAreApart
  <2>3. FieldsKeepValue'
    BY <1>1, <1>2 DEF FieldsInv, MapsAreMade, FieldsKeepValue
  <2> QED BY <2>1, <2>2, <2>3 DEF FieldsInv
<1>4. ASSUME NEW p, p.fields = made', inputChannel' = Append(inputChannel, p)
      PROVE  FieldsInv'
  <2>0. IsSequence(inputChannel)
    BY DEF FieldsInv, Shape
  <2>1. /\ IsSequence(inputChannel')
        /\ Range(inputChannel') = Range(inputChannel) \cup {p}
        /\ Len(inputChannel) \in Nat
        /\ DOMAIN inputChannel = 1 .. Len(inputChannel)
        /\ DOMAIN inputChannel' = 1 .. Len(inputChannel) + 1
        /\ \A i \in 1 .. Len(inputChannel) : inputChannel'[i] = inputChannel[i]
        /\ inputChannel'[Len(inputChannel) + 1] = p
    BY <1>4, <2>0, AppendIsSequence
  <2>2. Shape'
    BY <1>1, <1>2, <2>1 DEF FieldsInv, Shape
  <2>3. MapsAreMade'
    BY <1>1, <1>2, <1>4, <2>1 DEF FieldsInv, MapsAreMade
  <2>4. \A i \in 1 .. Len(inputChannel) : inputChannel[i].fields # made'
    BY <1>2, <2>1 DEF FieldsInv, MapsAreMade, Range
  <2>5. \A i, j \in DOMAIN inputChannel' :
           inputChannel'[i].fields = inputChannel'[j].fields => i = j
    BY <1>4, <2>1, <2>4 DEF FieldsInv, MapsAreApart
  <2>6. /\ \A q \in Range(inputChannel)', id \in DOMAIN series' :
              q.fields # series'[id].fields
        /\ \A q \in Range(inputChannel)', a \in InFlight' : q.fields # a.fields
    BY <1>1, <1>2, <1>4, <2>1 DEF FieldsInv, MapsAreMade, MapsAreApart
  <2>7. MapsAreApart'
    BY <1>1, <2>5, <2>6 DEF FieldsInv, MapsAreApart, Settled
  <2>8. FieldsKeepValue'
    BY <1>1, <1>2 DEF FieldsInv, MapsAreMade, FieldsKeepValue
  <2> QED BY <2>2, <2>3, <2>7, <2>8 DEF FieldsInv
<1> QED BY <1>3, <1>4 DEF AddDataPoint

LEMMA TakeInKeepsFields == ASSUME FieldsInv, TakeIn PROVE FieldsInv'
<1> DEFINE p == Head(inputChannel)
<1>1. /\ inputChannel # <<>> /\ inputChannel' = Tail(inputChannel)
      /\ UNCHANGED <<made, valueOf, outputChannel, sending, writing, left>>
      /\ InFlight' = InFlight
      /\ IsSequence(inputChannel)
  BY DEF TakeIn, pubVars, InFlight, FieldsInv, Shape
<1>2. /\ IsSequence(inputChannel')
      /\ Range(inputChannel') \subseteq Range(inputChannel)
      /\ p \in Range(inputChannel)
      /\ Len(inputChannel) \in Nat \ {0}
      /\ DOMAIN inputChannel = 1 .. Len(inputChannel)
      /\ p = inputChannel[1]
      /\ DOMAIN inputChannel' = 1 .. Len(inputChannel) - 1
      /\ \A i \in 1 .. Len(inputChannel) - 1 : inputChannel'[i] = inputChannel[i + 1]
  BY <1>1, TailIsSequence
<1>3. \A i, j \in DOMAIN inputChannel' :
         inputChannel'[i].fields = inputChannel'[j].fields => i = j
  BY <1>2 DEF FieldsInv, MapsAreApart
<1>4. \A q \in Range(inputChannel') : q.fields # p.fields
  <2> SUFFICES ASSUME NEW i \in 1 .. Len(inputChannel) - 1
               PROVE  inputChannel[i + 1].fields # p.fields
    BY <1>2 DEF Range
  <2>1. i + 1 \in DOMAIN inputChannel /\ 1 \in DOMAIN inputChannel /\ i + 1 # 1
    BY <1>2
  <2> QED BY <2>1, <1>2 DEF FieldsInv, MapsAreApart
<1>5. CASE series' = series
  <2>1. Shape'
    BY <1>1, <1>2, <1>5 DEF FieldsInv, Shape
  <2>2. MapsAreMade' /\ MapsAreApart' /\ FieldsKeepValue'
    BY <1>1, <1>2, <1>3, <1>5
       DEF FieldsInv, MapsAreMade, MapsAreApart, FieldsKeepValue, Settled
  <2> QED BY <2>1, <2>2 DEF FieldsInv
<1>6. CASE series' = With(series, p.series, Updated(p.series, p))
  <2> DEFINE new == Updated(p.series, p)
  <2>1. DOMAIN new = SeriesFields /\ new.fields = p.fields
    <3>1. CASE p.series \in DOMAIN series
      <4>1. DOMAIN series[p.series] = SeriesFields
        BY <3>1 DEF FieldsInv, Shape
      <4> QED BY <3>1, <4>1 DEF Updated, Described, SeriesFields
    <3>2. CASE p.series \notin DOMAIN series
      BY <3>2 DEF Updated, Described, SeriesFields
    <3> QED BY <3>1, <3>2
  <2> HIDE DEF new
  <2>2. /\ DOMAIN series' = DOMAIN series \cup {p.series}
        /\ series'[p.series] = new
        /\ \A id \in DOMAIN series : id # p.series => series'[id] = series[id]
    BY <1>6 DEF With, new
  <2> HIDE DEF p
  <2>3. Shape'
    BY <1>1, <1>2, <2>1, <2>2 DEF FieldsInv, Shape
  <2>4. MapsAreMade'
    BY <1>1, <1>2, <2>1, <2>2 DEF FieldsInv, MapsAreMade
  <2>5. \A q \in Range(inputChannel'), id \in DOMAIN series' : q.fields # series'[id].fields
    BY <1>2, <1>4, <2>1, <2>2 DEF FieldsInv, MapsAreApart
  <2>6. \A id1, id2 \in DOMAIN series' :
           series'[id1].fields = series'[id2].fields => id1 = id2
    BY <1>2, <2>1, <2>2 DEF FieldsInv, MapsAreApart
  <2>7. \A id \in DOMAIN series', a \in InFlight' :
           series'[id].fields = a.fields => Settled(series'[id])
    BY <1>1, <1>2, <2>1, <2>2 DEF FieldsInv, MapsAreApart
  <2>8. MapsAreApart'
    BY <1>1, <1>2, <1>3, <2>5, <2>6, <2>7 DEF FieldsInv, MapsAreApart
  <2>9. FieldsKeepValue'
    BY <1>1 DEF FieldsInv, FieldsKeepValue
  <2> QED BY <2>3, <2>4, <2>8, <2>9 DEF FieldsInv
<1> QED BY <1>5, <1>6 DEF TakeIn

\* The values a visit may leave: those there were, none, or one to start from.
Leftover(id, values) ==
    \/ values = series[id].values
    \/ values = <<>>
    \/ series[id].func = "difference" /\ \E x : values = <<x>>

LEMMA SkipKeepsFields ==
    ASSUME FieldsInv, NEW id, Visit(id), NEW values, Leftover(id, values), Skip(id, values)
    PROVE  FieldsInv'
<1>1. /\ id \in DOMAIN series
      /\ left' \subseteq left
      /\ UNCHANGED <<made, valueOf, inputChannel, outputChannel, sending, writing>>
      /\ InFlight' = InFlight
  BY DEF Visit, Skip, inputVars, InFlight, FieldsInv, Shape
<1>2. DOMAIN series[id] = SeriesFields
  BY <1>1 DEF FieldsInv, Shape
<1>3. /\ DOMAIN series' = DOMAIN series
      /\ series'[id] = [series[id] EXCEPT !.values = values]
      /\ \A i \in DOMAIN series : i # id => series'[i] = series[i]
  BY <1>1 DEF Skip
<1>4. /\ DOMAIN series'[id] = SeriesFields
      /\ series'[id].fields = series[id].fields
      /\ series'[id].func = series[id].func
      /\ series'[id].values = values
  BY <1>2, <1>3 DEF SeriesFields
<1>5. Shape'
  BY <1>1, <1>3, <1>4 DEF FieldsInv, Shape
<1>6. MapsAreMade'
  BY <1>1, <1>3, <1>4 DEF FieldsInv, MapsAreMade
<1>7. Settled(series[id]) => Settled(series'[id])
  BY <1>4 DEF Settled, Leftover
<1>8. \A i \in DOMAIN series : series'[i].fields = series[i].fields
  BY <1>3, <1>4
<1>9. \A i \in DOMAIN series : Settled(series[i]) => Settled(series'[i])
  BY <1>3, <1>7
<1>10. MapsAreApart'
  BY <1>1, <1>3, <1>8, <1>9 DEF FieldsInv, MapsAreApart
<1>11. FieldsKeepValue'
  BY <1>1 DEF FieldsInv, FieldsKeepValue
<1> QED BY <1>5, <1>6, <1>10, <1>11 DEF FieldsInv

\* Every map OnMessage has made is one of the maps.
LEMMA MadeMapsAreMaps ==
    ASSUME Shape PROVE \A g \in 1 .. made : g \in FieldsMaps
BY AggregatorAssumption DEF Shape, FieldsMaps

\* A series that is not settled owns its map: the publisher may write it.
LEMMA PublishKeepsFields ==
    ASSUME FieldsInv, NEW id, Visit(id), NEW values, NEW result,
           Publish(id, values, result), ~Settled(series[id]),
           Leftover(id, values), values # series[id].values
    PROVE  FieldsInv'
<1> DEFINE f == series[id].fields
<1>1. /\ id \in DOMAIN series
      /\ left' \subseteq left
      /\ sending = <<>>
      /\ UNCHANGED <<made, inputChannel, outputChannel, writing>>
  BY DEF Visit, inputVars, FieldsInv, Shape
<1>2. PICK a : a.fields = f /\ a.value = result /\ sending' = <<a>>
  BY DEF Publish
<1>3. InFlight' = InFlight \cup {a}
  BY <1>1, <1>2, EmptyRange, OneRange DEF InFlight
<1>4. DOMAIN series[id] = SeriesFields
  BY <1>1 DEF FieldsInv, Shape
<1>5. /\ DOMAIN series' = DOMAIN series
      /\ series'[id] = [series[id] EXCEPT !.values = values, !.last = result]
      /\ \A i \in DOMAIN series : i # id => series'[i] = series[i]
  BY <1>1 DEF Publish
<1>6. /\ DOMAIN series'[id] = SeriesFields
      /\ series'[id].fields = f
      /\ series'[id].func = series[id].func
      /\ series'[id].values = values
  BY <1>4, <1>5 DEF SeriesFields
<1>7. Settled(series'[id])
  BY <1>6 DEF Settled, Leftover
<1>8. \A i \in DOMAIN series : series'[i].fields = series[i].fields
  BY <1>5, <1>6
<1>9. \A i \in DOMAIN series : Settled(series[i]) => Settled(series'[i])
  BY <1>5, <1>7
<1>10. f \in 1 .. made /\ f \in FieldsMaps
  <2>1. f \in 1 .. made
    BY <1>1 DEF FieldsInv, MapsAreMade
  <2> QED BY <2>1, MadeMapsAreMaps DEF FieldsInv
<1>11. /\ DOMAIN valueOf' = FieldsMaps
       /\ valueOf'[f] = result
       /\ \A g \in FieldsMaps : g # f => valueOf'[g] = valueOf[g]
  BY <1>10 DEF Publish, FieldsInv, Shape
<1>12. \A b \in InFlight : b.fields # f /\ b.fields \in FieldsMaps
  <2>1. \A b \in InFlight : b.fields # f
    BY <1>1 DEF FieldsInv, MapsAreApart
  <2>2. \A b \in InFlight : b.fields \in 1 .. made
    BY DEF FieldsInv, MapsAreMade
  <2> QED BY <2>1, <2>2, MadeMapsAreMaps DEF FieldsInv
<1>13. Shape'
  <2>1. \A i \in DOMAIN series' : DOMAIN series'[i] = SeriesFields
    <3>1. \A i \in DOMAIN series : DOMAIN series[i] = SeriesFields
      BY DEF FieldsInv, Shape
    <3>2. \A i \in DOMAIN series : i # id => DOMAIN series'[i] = SeriesFields
      BY <1>5, <3>1
    <3> QED BY <1>5, <1>6, <3>2
  <2>2. left' \subseteq DOMAIN series'
    BY <1>1, <1>5 DEF FieldsInv, Shape
  <2>3. IsOptional(sending')
    BY <1>2 DEF IsOptional
  <2>4. IsOptional(writing)
    BY DEF FieldsInv, Shape
  <2>5. IsSequence(inputChannel) /\ IsSequence(outputChannel) /\ made \in 0 .. MaxPoints
    BY DEF FieldsInv, Shape
  <2> QED BY <1>1, <1>11, <2>1, <2>2, <2>3, <2>4, <2>5 DEF Shape
<1>14. MapsAreMade'
  BY <1>1, <1>2, <1>3, <1>5, <1>8, <1>10 DEF FieldsInv, MapsAreMade
<1>15. \A p \in Range(inputChannel) : p.fields # f
  BY <1>1 DEF FieldsInv, MapsAreApart
<1>16. \A i \in DOMAIN series : series[i].fields = f => i = id
  BY <1>1 DEF FieldsInv, MapsAreApart
<1>17. \A i \in DOMAIN series', b \in InFlight' :
          series'[i].fields = b.fields => Settled(series'[i])
  BY <1>2, <1>3, <1>5, <1>7, <1>8, <1>9, <1>16 DEF FieldsInv, MapsAreApart
<1>18. /\ \A p \in Range(inputChannel'), i \in DOMAIN series' :
             p.fields # series'[i].fields
       /\ \A p \in Range(inputChannel'), b \in InFlight' : p.fields # b.fields
       /\ \A i, j \in DOMAIN series' : series'[i].fields = series'[j].fields => i = j
  BY <1>1, <1>2, <1>3, <1>5, <1>8, <1>15 DEF FieldsInv, MapsAreApart
<1>19. MapsAreApart'
  BY <1>1, <1>17, <1>18 DEF FieldsInv, MapsAreApart
<1>20. FieldsKeepValue'
  BY <1>2, <1>3, <1>11, <1>12 DEF FieldsInv, FieldsKeepValue
<1> QED BY <1>13, <1>14, <1>19, <1>20 DEF FieldsInv

LEMMA VisitAggregateKeepsFields ==
    ASSUME FieldsInv, NEW id, VisitAggregate(id) PROVE FieldsInv'
<1> DEFINE s == series[id]
           result == Aggregate(s.func, s.values)
<1>1. Visit(id)
  BY DEF VisitAggregate
<1>2. Leftover(id, s.values) /\ Leftover(id, <<>>)
  BY DEF Leftover
<1>3. CASE s.values = <<>> \/ s.func = "difference"
  <2>1. Skip(id, s.values)
    BY <1>3 DEF VisitAggregate
  <2> QED BY <1>1, <1>2, <2>1, SkipKeepsFields
<1>4. CASE ~(s.values = <<>> \/ s.func = "difference")
  <2>1. ~Settled(s) /\ <<>> # s.values
    BY <1>4 DEF Settled
  <2>2. Skip(id, <<>>) \/ Publish(id, <<>>, result)
    BY <1>4 DEF VisitAggregate
  <2>3. CASE Skip(id, <<>>)
    BY <1>1, <1>2, <2>3, SkipKeepsFields
  <2>4. CASE Publish(id, <<>>, result)
    BY <1>1, <1>2, <2>1, <2>4, PublishKeepsFields
  <2> QED BY <2>2, <2>3, <2>4
<1> QED BY <1>3, <1>4

LEMMA VisitDifferenceKeepsFields ==
    ASSUME TypeOK, FieldsInv, NEW id, NEW tooOld \in BOOLEAN, VisitDifference(id, tooOld)
    PROVE  FieldsInv'
<1> DEFINE s == series[id]
           values == Filtered(s)
           result == CalculateDifference(values)
<1>1. Visit(id)
  BY DEF VisitDifference
<1>2. Leftover(id, s.values) /\ Leftover(id, <<>>)
  BY DEF Leftover
<1>3. CASE s.values = <<>> \/ s.func # "difference"
  <2>1. Skip(id, s.values)
    BY <1>3 DEF VisitDifference
  <2> QED BY <1>1, <1>2, <2>1, SkipKeepsFields
<1>4. CASE s.values # <<>> /\ s.func = "difference"
  <2>1. \/ Skip(id, <<>>)
        \/ Skip(id, Kept(values))
        \/ result # 0 /\ Publish(id, Kept(values), Ratio(result, 1))
    BY <1>4 DEF VisitDifference, Filtered
  <2>2. Leftover(id, Kept(values))
    BY <1>4 DEF Leftover, Kept
  <2>3. CASE Skip(id, <<>>)
    BY <1>1, <1>2, <2>3, SkipKeepsFields
  <2>4. CASE Skip(id, Kept(values))
    BY <1>1, <2>2, <2>4, SkipKeepsFields
  <2>5. CASE result # 0 /\ Publish(id, Kept(values), Ratio(result, 1))
    <3>1. ASSUME NEW x PROVE s.values # <<x>>
      <4>1. s \in SValues
        BY <1>1 DEF Visit, TypeOK
      <4> QED BY <2>5, <4>1, OneValueMakesNoDifference
    <3>2. ~Settled(s)
      BY <1>4, <3>1 DEF Settled
    <3>3. Kept(values) # s.values
      BY <3>1 DEF Kept
    <3> HIDE DEF values, result
    <3> QED BY <1>1, <2>2, <2>5, <3>2, <3>3, PublishKeepsFields
  <2> QED BY <2>1, <2>3, <2>4, <2>5
<1> QED BY <1>3, <1>4

LEMMA SendKeepsFields == ASSUME FieldsInv, Send PROVE FieldsInv'
<1>1. /\ UNCHANGED <<made, valueOf, inputChannel, series, left, writing>>
      /\ outputChannel' = Append(outputChannel, sending[1])
      /\ sending # <<>> /\ sending' = <<>>
      /\ IsSequence(outputChannel) /\ IsOptional(sending)
  BY DEF Send, inputVars, FieldsInv, Shape
<1>2. /\ IsSequence(outputChannel')
      /\ Range(outputChannel') = Range(outputChannel) \cup {sending[1]}
  BY <1>1, AppendIsSequence
<1>3. Range(sending) = {sending[1]} /\ Range(sending') = {}
  BY <1>1, OptionalRange, EmptyRange
<1>4. InFlight' = InFlight
  BY <1>1, <1>2, <1>3 DEF InFlight
<1>5. Shape'
  BY <1>1, <1>2 DEF FieldsInv, Shape, IsOptional
<1> QED BY <1>1, <1>4, <1>5, FewerInFlight

LEMMA WorkerKeepsFields == ASSUME FieldsInv, Worker PROVE FieldsInv'
<1>1. CASE Receive
  <2>1. /\ UNCHANGED <<made, valueOf, inputChannel, series, left, sending>>
        /\ outputChannel # <<>> /\ outputChannel' = Tail(outputChannel)
        /\ writing = <<>> /\ writing' = <<Head(outputChannel)>>
        /\ IsSequence(outputChannel)
    BY <1>1 DEF Receive, inputVars, pubVars, FieldsInv, Shape
  <2>2. /\ IsSequence(outputChannel')
        /\ Range(outputChannel') \subseteq Range(outputChannel)
        /\ Head(outputChannel) \in Range(outputChannel)
    BY <2>1, TailIsSequence
  <2>3. Range(writing') = {Head(outputChannel)}
    BY <2>1, OneRange
  <2>4. InFlight' \subseteq InFlight
    BY <2>1, <2>2, <2>3 DEF InFlight
  <2>5. Shape'
    BY <2>1, <2>2 DEF FieldsInv, Shape, IsOptional
  <2> QED BY <2>1, <2>4, <2>5, FewerInFlight
<1>2. CASE WriteAggregate
  <2>1. /\ UNCHANGED <<made, valueOf, inputChannel, series, left, sending, outputChannel>>
        /\ writing' = <<>>
    BY <1>2 DEF WriteAggregate, inputVars, pubVars
  <2>2. InFlight' \subseteq InFlight
    BY <2>1, EmptyRange DEF InFlight
  <2>3. Shape'
    BY <2>1 DEF FieldsInv, Shape, IsOptional
  <2> QED BY <2>1, <2>2, <2>3, FewerInFlight
<1> QED BY <1>1, <1>2 DEF Worker

\* Steps that leave the maps, the channels and the series alone.
LEMMA OthersKeepFields ==
    ASSUME FieldsInv,
           UNCHANGED <<made, valueOf, inputChannel, outputChannel, series, sending, writing>>,
           left' = left \/ left' = DOMAIN series
    PROVE  FieldsInv'
<1>1. InFlight' = InFlight
  BY DEF InFlight
<1>2. Shape'
  BY DEF FieldsInv, Shape
<1> QED BY <1>1, <1>2, FewerInFlight

LEMMA NextKeepsFields == TypeOK /\ FieldsInv /\ [Next]_vars => FieldsInv'
<1> SUFFICES ASSUME TypeOK, FieldsInv, [Next]_vars PROVE FieldsInv'
  OBVIOUS
<1>1. ASSUME NEW m \in Messages, OnMessage(m) PROVE FieldsInv'
  BY <1>1, OthersKeepFields DEF OnMessage, pubVars
<1>2. CASE AddDataPoint
  BY <1>2, AddDataPointKeepsFields
<1>3. CASE WriteAtOnce
  BY <1>3, OthersKeepFields DEF WriteAtOnce, pubVars
<1>4. CASE TakeIn
  BY <1>4, TakeInKeepsFields
<1>5. CASE Tick
  BY <1>5, OthersKeepFields DEF Tick, inputVars
<1>6. ASSUME NEW id \in left, VisitAggregate(id) PROVE FieldsInv'
  BY <1>6, VisitAggregateKeepsFields
<1>7. ASSUME NEW id \in left, NEW tooOld \in BOOLEAN, VisitDifference(id, tooOld)
      PROVE  FieldsInv'
  BY <1>7, VisitDifferenceKeepsFields
<1>8. CASE Send
  BY <1>8, SendKeepsFields
<1>9. CASE EndRound
  BY <1>9, OthersKeepFields DEF EndRound, inputVars
<1>10. ASSUME NEW isMultiple \in BOOLEAN, TestMinute(isMultiple) PROVE FieldsInv'
  BY <1>10, OthersKeepFields DEF TestMinute, inputVars
<1>11. CASE Worker
  BY <1>11, WorkerKeepsFields
<1>12. CASE UNCHANGED vars
  BY <1>12, OthersKeepFields DEF vars, inputVars, pubVars
<1> QED BY <1>1, <1>2, <1>3, <1>4, <1>5, <1>6, <1>7, <1>8, <1>9, <1>10, <1>11, <1>12
        DEF Next, Router, Publishing

\* An aggregate that is on its way keeps the value it was published with, although the
\* series it comes from shares its Fields map and goes on (agreggator.go:130 and 210).
THEOREM FieldsMapsAreSafe == Spec => []FieldsKeepValue
<1>1. FieldsInv => FieldsKeepValue
  BY DEF FieldsInv
<1> QED BY InitTyped, NextTyped, InitFields, NextKeepsFields, <1>1, PTL DEF Spec

-----------------------------------------------------------------------------
(* The invariant of the accounts *)

Booked(a) == a.published + a.refused

\* What a series still has in hand and what has been booked of it make up what its values
\* have grown.  A series that is sampled may have lost something: what the filter leaves
\* out, and the way from the last value it has kept to the last one taken in.
InBooks(s, a) ==
    /\ s.func = "sum" => Booked(a) + Total(s.values) = a.grown
    /\ s.func = "difference" =>
          /\ s.values = <<>> => Booked(a) <= a.grown
          /\ s.values # <<>> =>
                /\ a.taken \in Int
                /\ Booked(a) + CalculateDifference(s.values) + Rise(Last(s.values), a.taken)
                     <= a.grown
          /\ ~a.plain =>
                /\ a.taken = IF s.values = <<>> THEN NotFloat ELSE Last(s.values)
                /\ Booked(a) + CalculateDifference(s.values) = a.grown
    /\ s.func \notin {"sum", "difference"} =>
          a.published = 0 /\ a.refused = 0 /\ a.grown = 0

Ledger == \A id \in DOMAIN series : InBooks(series[id], account[id])

LEMMA InitLedger == Init => Ledger
BY DEF Init, Ledger

\* One value is a series of its own: it adds up to itself and makes no difference.
LEMMA OneValue ==
    ASSUME NEW v \in Int
    PROVE  /\ <<v>> \in Seq(Int) /\ <<v>> # <<>> /\ Last(<<v>>) = v
           /\ CalculateDifference(<<v>>) = 0
           /\ Total(<<v>>) = v
<1>1. /\ <<v>> \in Seq(Int) /\ Len(<<v>>) = 1 /\ <<v>> # <<>>
      /\ Append(<<>>, v) = <<v>> /\ <<>> \in Seq(Int)
  OBVIOUS
<1>2. Last(<<v>>) = v
  BY <1>1 DEF Last
<1>3. CalculateDifference(<<v>>) = 0
  <2> DEFINE one == <<v>>
  <2>1. one \in Seq(Int) /\ Len(one) <= 1
    BY <1>1
  <2> HIDE DEF one
  <2>2. CalculateDifference(one) = 0
    BY <2>1, DifferenceOfOne
  <2> QED BY <2>2 DEF one
<1>4. Total(Append(<<>>, v)) = 0 + v
  BY <1>1, TotalAppended, TotalOfNothing
<1> QED BY <1>1, <1>2, <1>3, <1>4

LEMMA DifferenceOfNothing == CalculateDifference(<<>>) = 0
<1> DEFINE none == <<>>
<1>1. none \in Seq(Int) /\ Len(none) <= 1
  OBVIOUS
<1> HIDE DEF none
<1>2. CalculateDifference(none) = 0
  BY <1>1, DifferenceOfOne
<1> QED BY <1>2 DEF none

-----------------------------------------------------------------------------
(* A value is taken in *)

LEMMA NewSeriesInBooks ==
    ASSUME TypeOK, NEW p \in Inputs, p.value # NotFloat, p.series \notin DOMAIN series
    PROVE  InBooks(Updated(p.series, p), Noted(p.series, p))
<1> DEFINE new == Updated(p.series, p)
           entry == Noted(p.series, p)
           v == p.value
<1>1. v \in Int
  BY DEF Inputs, Values
<1>2. p.series \notin DOMAIN account
  BY DEF TypeOK
<1>3. new.values = <<v>> /\ new.func = p.func
  BY DEF Updated
<1>4. Rise(v, v) = 0
  BY <1>1, Rises
<1>5. /\ entry.taken = v /\ entry.published = 0 /\ entry.refused = 0
      /\ entry.grown = IF p.func = "sum" THEN v ELSE 0
  BY <1>1, <1>2, <1>4 DEF Noted
<1>6. /\ <<v>> # <<>> /\ Last(<<v>>) = v
      /\ CalculateDifference(<<v>>) = 0
      /\ Total(<<v>>) = v
  BY <1>1, OneValue
<1> HIDE DEF new, entry, v
<1>7. InBooks(new, entry)
  BY <1>1, <1>3, <1>4, <1>5, <1>6 DEF InBooks, Booked
<1> QED BY <1>7 DEF new, entry

LEMMA OldSeriesInBooks ==
    ASSUME TypeOK, Ledger, NEW p \in Inputs, p.value # NotFloat, p.series \in DOMAIN series
    PROVE  InBooks(Updated(p.series, p), Noted(p.series, p))
<1> DEFINE s == series[p.series]
           a == account[p.series]
           new == Updated(p.series, p)
           entry == Noted(p.series, p)
           v == p.value
           more == Append(s.values, v)
           rise == IF a.taken # NotFloat THEN Rise(a.taken, v) ELSE 0
<1>1. v \in Int
  BY DEF Inputs, Values
<1>2. s \in SValues /\ a \in Accounts /\ p.series \in DOMAIN account /\ InBooks(s, a)
  BY DEF TypeOK, Ledger
<1>3. /\ s.values \in Seq(Int) /\ s.func \in AggregationFunctions
      /\ a.grown \in Int /\ a.published \in Int /\ a.refused \in Int
      /\ a.taken \in Int \cup {NotFloat}
  BY <1>2 DEF SValues, Accounts, Values
<1>4. new.func = s.func /\ (s.func # "last" => new.values = more)
  BY <1>2 DEF Updated, Described, Collected, SValues
<1>5. /\ entry.taken = v /\ entry.published = a.published /\ entry.refused = a.refused
      /\ entry.plain = a.plain
      /\ entry.grown = a.grown + CASE s.func = "sum" -> v
                                   [] s.func = "difference" -> rise
                                   [] OTHER -> 0
  BY <1>2 DEF Noted, Accounts
<1>6. Total(s.values) \in Int /\ Total(more) = Total(s.values) + v
  BY <1>1, <1>3, TotalAppended
<1>7. more # <<>> /\ Last(more) = v
  BY <1>1, <1>3, IntegerSequences
<1>8. Rise(v, v) = 0 /\ rise \in Nat
  BY <1>1, <1>3, Rises
<1>9. CalculateDifference(s.values) \in Nat
  BY <1>3, DifferenceIsNatural
<1>10. ASSUME s.values = <<>> PROVE CalculateDifference(more) = 0
  <2>1. more = <<v>>
    BY <1>1, <1>3, <1>10
  <2> QED BY <1>1, <2>1, OneValue
<1>11. ASSUME s.values # <<>>
       PROVE  /\ Last(s.values) \in Int
              /\ CalculateDifference(more)
                   = CalculateDifference(s.values) + Rise(Last(s.values), v)
  <2>1. Last(s.values) = s.values[Len(s.values)]
    BY DEF Last
  <2> QED BY <1>1, <1>3, <1>11, <2>1, DifferenceAppended, IntegerSequences
<1>12. CalculateDifference(<<>>) = 0
  BY DifferenceOfNothing
<1> HIDE DEF s, a, new, entry, v, more, rise
<1>13. ASSUME s.func = "sum" PROVE InBooks(new, entry)
  BY <1>1, <1>2, <1>3, <1>4, <1>5, <1>6, <1>13 DEF InBooks, Booked
<1>14. ASSUME s.func = "difference" PROVE InBooks(new, entry)
  <2> USE <1>14
  <2>1. /\ new.func = "difference" /\ new.values = more
        /\ entry.grown = a.grown + rise /\ Booked(entry) = Booked(a) /\ Booked(a) \in Int
    BY <1>3, <1>4, <1>5 DEF Booked
  <2>2. CASE s.values = <<>>
    <3>1. CalculateDifference(more) = 0
      BY <1>10, <2>2
    <3>2. Booked(a) <= a.grown
      BY <1>2, <2>2 DEF InBooks
    <3>3. ~a.plain => Booked(a) = a.grown /\ rise = 0
      BY <1>2, <1>3, <1>12, <2>1, <2>2 DEF InBooks, rise
    <3> QED BY <1>1, <1>3, <1>5, <1>7, <1>8, <2>1, <3>1, <3>2, <3>3 DEF InBooks
  <2>3. CASE s.values # <<>>
    <3> DEFINE end == Last(s.values)
               d == CalculateDifference(s.values)
    <3>1. /\ a.taken \in Int /\ end \in Int
          /\ Booked(a) + d + Rise(end, a.taken) <= a.grown
          /\ ~a.plain => a.taken = end /\ Booked(a) + d = a.grown
      BY <1>2, <1>11, <2>3 DEF InBooks
    <3>2. CalculateDifference(more) = d + Rise(end, v)
      BY <1>11, <2>3
    <3>3. rise = Rise(a.taken, v)
      BY <1>3, <3>1, TransformAssumption DEF rise
    <3>4. /\ Rise(end, v) <= Rise(end, a.taken) + Rise(a.taken, v)
          /\ Rise(end, v) \in Nat /\ Rise(end, a.taken) \in Nat /\ d \in Nat
      BY <1>1, <1>9, <3>1, Rises
    <3> HIDE DEF end, d
    <3>5. Booked(a) + (d + Rise(end, v)) + 0 <= a.grown + rise
      BY <1>3, <1>8, <2>1, <3>1, <3>3, <3>4
    <3>6. ~a.plain => Booked(a) + (d + Rise(end, v)) = a.grown + rise
      <4>1. ~a.plain => rise = Rise(end, v) /\ Booked(a) + d = a.grown
        BY <3>1, <3>3
      <4> QED BY <1>3, <1>8, <2>1, <3>4, <4>1
    <3> QED BY <1>1, <1>5, <1>7, <1>8, <2>1, <3>2, <3>5, <3>6 DEF InBooks
  <2> QED BY <2>2, <2>3
<1>15. ASSUME s.func \notin {"sum", "difference"} PROVE InBooks(new, entry)
  BY <1>2, <1>4, <1>5, <1>15 DEF InBooks
<1>16. InBooks(new, entry)
  BY <1>13, <1>14, <1>15
<1> QED BY <1>16 DEF new, entry

LEMMA TakeInKeepsLedger == ASSUME TypeOK, Ledger, TakeIn PROVE Ledger'
<1> DEFINE p == Head(inputChannel)
<1>1. p \in Inputs
  BY DEF TakeIn, TypeOK
<1>2. CASE p.value = NotFloat
  BY <1>2 DEF TakeIn, Ledger
<1>3. CASE p.value # NotFloat
  <2> DEFINE new == Updated(p.series, p)
             entry == Noted(p.series, p)
  <2>1. InBooks(new, entry)
    BY <1>1, <1>3, NewSeriesInBooks, OldSeriesInBooks
  <2>2. series' = With(series, p.series, new) /\ account' = With(account, p.series, entry)
    BY <1>3 DEF TakeIn
  <2>3. DOMAIN account = DOMAIN series
    BY DEF TypeOK
  <2> HIDE DEF new, entry, p
  <2>4. /\ DOMAIN series' = DOMAIN series \cup {p.series}
        /\ series'[p.series] = new
        /\ \A i \in DOMAIN series : i # p.series => series'[i] = series[i]
    BY <2>2 DEF With
  <2>5. /\ account'[p.series] = entry
        /\ \A i \in DOMAIN account : i # p.series => account'[i] = account[i]
    BY <2>2 DEF With
  <2> QED BY <2>1, <2>3, <2>4, <2>5 DEF Ledger
<1> QED BY <1>2, <1>3

-----------------------------------------------------------------------------
(* A series is visited *)

LEMMA VisitKeepsLedger ==
    ASSUME Ledger, NEW id \in DOMAIN series,
           DOMAIN series' = DOMAIN series,
           \A i \in DOMAIN series : i # id => series'[i] = series[i] /\ account'[i] = account[i],
           InBooks(series'[id], account'[id])
    PROVE  Ledger'
BY DEF Ledger

\* What is summed is booked, and nothing stays at hand.
LEMMA VisitAggregateKeepsLedger ==
    ASSUME TypeOK, Ledger, NEW id, VisitAggregate(id) PROVE Ledger'
<1> DEFINE s == series[id]
           a == account[id]
           result == Aggregate(s.func, s.values)
<1>1. /\ id \in DOMAIN series /\ DOMAIN account = DOMAIN series
      /\ s \in SValues /\ a \in Accounts /\ InBooks(s, a)
  BY DEF VisitAggregate, Visit, TypeOK, Ledger
<1>2. CASE s.values = <<>> \/ s.func = "difference"
  <2>1. Skip(id, s.values) /\ UNCHANGED account
    BY <1>2 DEF VisitAggregate
  <2>2. /\ DOMAIN series' = DOMAIN series
        /\ \A i \in DOMAIN series : i # id => series'[i] = series[i]
        /\ series'[id] = [s EXCEPT !.values = s.values]
    BY <1>1, <2>1 DEF Skip
  <2>3. series'[id].func = s.func /\ series'[id].values = s.values
    BY <1>1, <2>2 DEF SValues
  <2>4. InBooks(series'[id], account'[id])
    BY <1>1, <2>1, <2>3 DEF InBooks
  <2> QED BY <1>1, <2>1, <2>2, <2>4, VisitKeepsLedger
<1>3. CASE ~(s.values = <<>> \/ s.func = "difference")
  <2>1. Skip(id, <<>>) \/ Publish(id, <<>>, result)
    BY <1>3 DEF VisitAggregate
  <2>2. /\ DOMAIN series' = DOMAIN series
        /\ \A i \in DOMAIN series : i # id => series'[i] = series[i]
        /\ \/ series'[id] = [s EXCEPT !.values = <<>>]
           \/ series'[id] = [s EXCEPT !.values = <<>>, !.last = result]
    <3> HIDE DEF result
    <3> QED BY <1>1, <2>1 DEF Skip, Publish
  <2>3. series'[id].func = s.func /\ series'[id].values = <<>>
    <3> HIDE DEF result
    <3> QED BY <1>1, <2>2 DEF SValues
  <2>4. s.func = "sum" => result.num = Total(s.values)
    BY DEF Aggregate, Ratio
  <2>5. /\ s.func # "sum" => account' = account
        /\ s.func = "sum" => \/ account' = [account EXCEPT ![id].refused = @ + result.num]
                             \/ account' = [account EXCEPT ![id].published = @ + result.num]
    BY <1>3 DEF VisitAggregate
  <2> HIDE DEF result
  <2>6. \A i \in DOMAIN series : i # id => account'[i] = account[i]
    BY <1>1, <2>5
  <2>7. /\ s.func # "sum" => account'[id] = a
        /\ s.func = "sum" =>
              /\ Booked(account'[id]) = Booked(a) + Total(s.values)
              /\ account'[id].grown = a.grown
    <3>1. s.func = "sum" => \/ account'[id] = [a EXCEPT !.refused = @ + result.num]
                            \/ account'[id] = [a EXCEPT !.published = @ + result.num]
      BY <1>1, <2>5
    <3>2. s.func = "sum" => Total(s.values) \in Int
      <4>1. s.values \in Seq(Int) /\ 0 \in Int
        BY <1>1 DEF SValues
      <4> QED BY <4>1, TotalAppended
    <3> DEFINE b == account'[id]
               n == Total(s.values)
    <3>3. /\ a.refused \in Int /\ a.published \in Int
          /\ s.func = "sum" =>
                /\ b.grown = a.grown
                /\ \/ b.refused = a.refused + n /\ b.published = a.published
                   \/ b.refused = a.refused /\ b.published = a.published + n
      BY <1>1, <2>4, <3>1 DEF Accounts
    <3>4. s.func = "sum" => Booked(b) = Booked(a) + n /\ b.grown = a.grown
      <4> HIDE DEF n, b, a, s
      <4>1. s.func = "sum" => n \in Int
        BY <3>2 DEF n
      <4> QED BY <3>3, <4>1 DEF Booked
    <3>5. s.func # "sum" => account'[id] = a
      BY <2>5
    <3> QED BY <3>4, <3>5
  <2>8. InBooks(series'[id], account'[id])
    <3>1. Total(<<>>) = 0
      BY TotalOfNothing
    <3>2. Booked(a) \in Int /\ (s.func = "sum" => Total(s.values) \in Int)
      <4>1. s.values \in Seq(Int) /\ 0 \in Int
        BY <1>1 DEF SValues
      <4>2. Total(s.values) \in Int
        BY <4>1, TotalAppended
      <4> QED BY <1>1, <4>2 DEF Accounts, Booked
    <3> DEFINE t == series'[id]
               b == account'[id]
    <3>3. t.func = s.func /\ t.values = <<>> /\ t.func # "difference"
      BY <1>3, <2>3
    <3>4. t.func = "sum" => Booked(b) + Total(t.values) = b.grown
      <4>1. s.func = "sum" => Booked(a) + Total(s.values) = a.grown
        BY <1>1 DEF InBooks
      <4> HIDE DEF s, a, t, b
      <4>2. s.func = "sum" => Booked(b) + 0 = b.grown
        BY <2>7, <3>2, <4>1 DEF b
      <4> QED BY <3>1, <3>3, <4>2
    <3>5. t.func # "sum" => b.published = 0 /\ b.refused = 0 /\ b.grown = 0
      BY <1>1, <2>7, <3>3 DEF InBooks
    <3> HIDE DEF t, b
    <3>6. InBooks(t, b)
      BY <3>3, <3>4, <3>5 DEF InBooks
    <3> QED BY <3>6 DEF t, b
  <2> QED BY <1>1, <2>2, <2>6, <2>8, VisitKeepsLedger
<1> QED BY <1>2, <1>3

\* The books of a series that is sampled, through the filter and whatever becomes of the
\* difference: the way that is still to go from the value that is kept is no longer than
\* what the filtered values have not made of it.
LEMMA SampledInBooks ==
    ASSUME NEW s \in SValues, NEW a \in Accounts, InBooks(s, a),
           s.func = "difference", s.values # <<>>,
           NEW t, t.func = "difference",
           NEW e \in Accounts, e.grown = a.grown, ~e.plain => ~a.plain /\ s.hourly,
           \/ /\ t.values = <<>>
              /\ Booked(e) = Booked(a) + CalculateDifference(s.values)
              /\ e.taken = NotFloat
           \/ /\ Filtered(s) = <<>> /\ t.values = <<>>
              /\ Booked(e) = Booked(a) /\ e.taken = a.taken
           \/ /\ Filtered(s) # <<>> /\ t.values = Kept(Filtered(s))
              /\ e.taken = a.taken
              /\ \/ Booked(e) = Booked(a) + CalculateDifference(Filtered(s))
                 \/ /\ CalculateDifference(Filtered(s)) = 0 \/ ~s.hourly
                    /\ Booked(e) = Booked(a)
    PROVE  InBooks(t, e)
<1> DEFINE f == Filtered(s)
           d == CalculateDifference(s.values)
           g == CalculateDifference(f)
           end == Last(s.values)
           kept == Last(f)
<1>1. /\ s.values \in Seq(Int) /\ d \in Nat /\ g \in Nat
      /\ Booked(a) \in Int /\ a.grown \in Int
      /\ end \in Int /\ (f # <<>> => kept \in Int)
  <2>1. Booked(a) \in Int /\ a.grown \in Int
    BY DEF Accounts, Booked
  <2>2. end \in Int
    BY FilteredTyped, IntegerSequences
  <2> QED BY <2>1, <2>2, FilteredTyped
<1>2. /\ a.taken \in Int /\ Rise(end, a.taken) \in Nat
      /\ Booked(a) + d + Rise(end, a.taken) <= a.grown
      /\ ~a.plain => a.taken = end /\ Booked(a) + d = a.grown
  <2>1. /\ a.taken \in Int
        /\ Booked(a) + d + Rise(end, a.taken) <= a.grown
        /\ ~a.plain => a.taken = end /\ Booked(a) + d = a.grown
    BY DEF InBooks
  <2> QED BY <1>1, <2>1, Rises
<1>3. CalculateDifference(<<>>) = 0
  BY DifferenceOfNothing
<1>4. ~e.plain => f = s.values
  BY DEF Filtered
<1>5. ASSUME t.values = <<>>, Booked(e) = Booked(a) + d, e.taken = NotFloat
      PROVE  InBooks(t, e)
  <2> HIDE DEF d, end
  <2> QED BY <1>1, <1>2, <1>3, <1>5 DEF InBooks
<1>6. ASSUME f = <<>>, t.values = <<>>, Booked(e) = Booked(a)
      PROVE  InBooks(t, e)
  <2>1. e.plain
    BY <1>4, <1>6
  <2>2. Booked(e) <= e.grown
    <3> HIDE DEF d, end
    <3> QED BY <1>1, <1>2, <1>6
  <2> QED BY <1>6, <2>1, <2>2 DEF InBooks
<1>7. ASSUME f # <<>>, t.values = Kept(f), e.taken = a.taken,
             \/ Booked(e) = Booked(a) + g
             \/ (g = 0 \/ ~s.hourly) /\ Booked(e) = Booked(a)
      PROVE  InBooks(t, e)
  <2>1. /\ t.values # <<>> /\ Last(t.values) = kept /\ kept \in Int
        /\ CalculateDifference(t.values) = 0
    BY <1>1, <1>7, OneValue DEF Kept
  <2>2. g + Rise(kept, a.taken) <= d + Rise(end, a.taken) /\ Rise(kept, a.taken) \in Nat
    <3>1. CASE f = s.values
      BY <1>1, <1>2, <3>1
    <3>2. CASE f = FilterSeries(s.values)
      <4>1. g + Rise(kept, a.taken) <= d + Rise(end, a.taken)
        BY <1>1, <1>2, <1>7, <3>2, FilterRisesLess
      <4> QED BY <1>2, <2>1, <4>1, Rises
    <3> QED BY <3>1, <3>2 DEF Filtered
  <2>3. ~e.plain => /\ e.taken = kept /\ g = d
                    /\ Booked(e) = Booked(a) + g
    <3>1. ~e.plain => f = s.values /\ a.taken = end
      BY <1>2, <1>4
    <3>2. ~e.plain => kept = end /\ g = d
      BY <3>1
    <3> HIDE DEF f, g, d, kept, end
    <3> QED BY <1>1, <1>7, <3>1, <3>2
  <2>4. Booked(e) + 0 + Rise(kept, e.taken) <= e.grown
    <3> HIDE DEF f, g, d, kept, end
    <3>1. Booked(a) + g + Rise(kept, a.taken) <= a.grown
      BY <1>1, <1>2, <2>2
    <3>2. Booked(e) <= Booked(a) + g /\ Booked(e) \in Int
      BY <1>1, <1>7
    <3> QED BY <1>1, <1>7, <2>2, <3>1, <3>2
  <2>5. ~e.plain => Booked(e) + 0 = e.grown
    <3> HIDE DEF f, g, d, kept, end
    <3> QED BY <1>1, <1>2, <2>3
  <2> HIDE DEF f, g, d, kept, end
  <2> QED BY <1>2, <1>7, <2>1, <2>3, <2>4, <2>5 DEF InBooks
<1> QED BY <1>5, <1>6, <1>7

LEMMA VisitDifferenceKeepsLedger ==
    ASSUME TypeOK, Ledger, NEW id, NEW tooOld \in BOOLEAN, VisitDifference(id, tooOld)
    PROVE  Ledger'
<1> DEFINE s == series[id]
           a == account[id]
           f == Filtered(s)
           result == CalculateDifference(f)
           c == Counted(id)
<1>1. /\ id \in DOMAIN series /\ DOMAIN account = DOMAIN series
      /\ s \in SValues /\ a \in Accounts /\ InBooks(s, a)
  BY DEF VisitDifference, Visit, TypeOK, Ledger
<1>2. CASE s.values = <<>> \/ s.func # "difference"
  <2>1. Skip(id, s.values) /\ UNCHANGED account
    BY <1>2 DEF VisitDifference
  <2>2. /\ DOMAIN series' = DOMAIN series
        /\ \A i \in DOMAIN series : i # id => series'[i] = series[i]
        /\ series'[id] = [s EXCEPT !.values = s.values]
    BY <1>1, <2>1 DEF Skip
  <2>3. series'[id].func = s.func /\ series'[id].values = s.values
    BY <1>1, <2>2 DEF SValues
  <2>4. InBooks(series'[id], account'[id])
    BY <1>1, <2>1, <2>3 DEF InBooks
  <2> QED BY <1>1, <2>1, <2>2, <2>4, VisitKeepsLedger
<1>3. CASE s.values # <<>> /\ s.func = "difference"
  <2>1. /\ CalculateDifference(s.values) \in Int /\ result \in Int
        /\ c \in Accounts
        /\ \A n \in Int : /\ [c EXCEPT !.refused = @ + n] \in Accounts
                          /\ [c EXCEPT !.published = @ + n] \in Accounts
                          /\ [c EXCEPT !.refused = @ + n, !.taken = NotFloat] \in Accounts
    <3>1. CalculateDifference(s.values) \in Int /\ result \in Int
      BY <1>1, FilteredTyped
    <3> HIDE DEF result, s
    <3> QED BY <1>1, <3>1, CountedTyped
  <2>2. /\ c.grown = a.grown /\ Booked(c) = Booked(a) /\ c.taken = a.taken
        /\ ~c.plain => ~a.plain /\ s.hourly
    BY <1>1 DEF Counted, Accounts, Booked
  <2>3. ASSUME NEW n \in Int
        PROVE  /\ Booked([c EXCEPT !.refused = @ + n]) = Booked(c) + n
               /\ Booked([c EXCEPT !.published = @ + n]) = Booked(c) + n
               /\ Booked([c EXCEPT !.refused = @ + n, !.taken = NotFloat]) = Booked(c) + n
               /\ \A e \in {[c EXCEPT !.refused = @ + n], [c EXCEPT !.published = @ + n]} :
                     e.grown = c.grown /\ e.plain = c.plain /\ e.taken = c.taken
               /\ \A e \in {[c EXCEPT !.refused = @ + n, !.taken = NotFloat]} :
                     e.grown = c.grown /\ e.plain = c.plain /\ e.taken = NotFloat
    <3>1. c \in Accounts
      BY <2>1
    <3> HIDE DEF c
    <3> QED BY <3>1 DEF Accounts, Booked
  <2> DEFINE Series(values) == Skip(id, values) \/ Publish(id, values, Ratio(result, 1))
  <2>4. PICK e, values :
          /\ e \in Accounts /\ Books(id, e) /\ Series(values)
          /\ e.grown = c.grown /\ e.plain = c.plain
          /\ \/ /\ values = <<>>
                /\ Booked(e) = Booked(c) + CalculateDifference(s.values)
                /\ e.taken = NotFloat
             \/ /\ f = <<>> /\ values = <<>>
                /\ Booked(e) = Booked(c) /\ e.taken = c.taken
             \/ /\ f # <<>> /\ values = Kept(f)
                /\ e.taken = c.taken
                /\ \/ Booked(e) = Booked(c) + result
                   \/ (result = 0 \/ ~s.hourly) /\ Booked(e) = Booked(c)
    <3> DEFINE d == CalculateDifference(s.values)
               e1 == [c EXCEPT !.refused = @ + d, !.taken = NotFloat]
               e2 == [c EXCEPT !.refused = @ + result]
               e3 == [c EXCEPT !.published = @ + result]
    <3>1. \/ Skip(id, <<>>) /\ Books(id, e1)
          \/ f = <<>> /\ Skip(id, <<>>) /\ Books(id, c)
          \/ f # <<>> /\ Skip(id, Kept(f)) /\ Books(id, e2)
          \/ /\ f # <<>> /\ Skip(id, Kept(f)) /\ Books(id, c)
             /\ result = 0 \/ ~s.hourly
          \/ f # <<>> /\ Publish(id, Kept(f), Ratio(result, 1)) /\ Books(id, e3)
      BY <1>3, DifferenceAlternatives
    <3>2. /\ Booked(e1) = Booked(c) + d /\ e1.taken = NotFloat
          /\ e1.grown = c.grown /\ e1.plain = c.plain /\ e1 \in Accounts
      BY <2>1, <2>3
    <3>3. /\ Booked(e2) = Booked(c) + result /\ e2.taken = c.taken
          /\ e2.grown = c.grown /\ e2.plain = c.plain /\ e2 \in Accounts
      BY <2>1, <2>3
    <3>4. /\ Booked(e3) = Booked(c) + result /\ e3.taken = c.taken
          /\ e3.grown = c.grown /\ e3.plain = c.plain /\ e3 \in Accounts
      BY <2>1, <2>3
    <3> HIDE DEF e1, e2, e3, c, f, result, d, s
    <3>5. CASE Skip(id, <<>>) /\ Books(id, e1)
      BY <3>2, <3>5 DEF d
    <3>6. CASE f = <<>> /\ Skip(id, <<>>) /\ Books(id, c)
      BY <2>1, <3>6
    <3>7. CASE f # <<>> /\ Skip(id, Kept(f)) /\ Books(id, e2)
      BY <3>3, <3>7
    <3>8. CASE /\ f # <<>> /\ Skip(id, Kept(f)) /\ Books(id, c)
               /\ result = 0 \/ ~s.hourly
      BY <2>1, <3>8
    <3>9. CASE f # <<>> /\ Publish(id, Kept(f), Ratio(result, 1)) /\ Books(id, e3)
      BY <3>4, <3>9
    <3> QED BY <3>1, <3>5, <3>6, <3>7, <3>8, <3>9
  <2>5. /\ DOMAIN series' = DOMAIN series
        /\ \A i \in DOMAIN series : i # id => series'[i] = series[i]
        /\ \/ series'[id] = [s EXCEPT !.values = values]
           \/ series'[id] = [s EXCEPT !.values = values, !.last = Ratio(result, 1)]
    <3>1. Skip(id, values) \/ Publish(id, values, Ratio(result, 1))
      BY <2>4
    <3> HIDE DEF result
    <3> QED BY <1>1, <3>1 DEF Skip, Publish
  <2>6. series'[id].func = s.func /\ series'[id].values = values
    <3> HIDE DEF result
    <3> QED BY <1>1, <2>5 DEF SValues
  <2>7. account'[id] = e /\ \A i \in DOMAIN series : i # id => account'[i] = account[i]
    BY <1>1, <2>4 DEF Books
  <2>8. InBooks(series'[id], e)
    <3> DEFINE t == series'[id]
    <3>1. /\ e \in Accounts /\ e.grown = a.grown /\ (~e.plain => ~a.plain /\ s.hourly)
          /\ t.func = "difference"
          /\ \/ /\ t.values = <<>>
                /\ Booked(e) = Booked(a) + CalculateDifference(s.values)
                /\ e.taken = NotFloat
             \/ /\ f = <<>> /\ t.values = <<>>
                /\ Booked(e) = Booked(a) /\ e.taken = a.taken
             \/ /\ f # <<>> /\ t.values = Kept(f)
                /\ e.taken = a.taken
                /\ \/ Booked(e) = Booked(a) + result
                   \/ (result = 0 \/ ~s.hourly) /\ Booked(e) = Booked(a)
      <4> HIDE DEF f, c, a, s, t, result
      <4> QED BY <1>3, <2>2, <2>4, <2>6 DEF t
    <3> HIDE DEF t
    <3>2. InBooks(t, e)
      BY <1>1, <1>3, <3>1, SampledInBooks
    <3> QED BY <3>2 DEF t
  <2> QED BY <1>1, <2>5, <2>7, <2>8, VisitKeepsLedger
<1> QED BY <1>2, <1>3

LEMMA NextKeepsLedger == TypeOK /\ Ledger /\ [Next]_vars => Ledger'
<1> SUFFICES ASSUME TypeOK, Ledger, [Next]_vars PROVE Ledger'
  OBVIOUS
<1>1. CASE UNCHANGED <<series, account>>
  BY <1>1 DEF Ledger
<1>2. CASE TakeIn
  BY <1>2, TakeInKeepsLedger
<1>3. ASSUME NEW id \in left, VisitAggregate(id) PROVE Ledger'
  BY <1>3, VisitAggregateKeepsLedger
<1>4. ASSUME NEW id \in left, NEW tooOld \in BOOLEAN, VisitDifference(id, tooOld)
      PROVE  Ledger'
  BY <1>4, VisitDifferenceKeepsLedger
<1>5. ASSUME NEW m \in Messages, OnMessage(m) PROVE UNCHANGED <<series, account>>
  BY <1>5 DEF OnMessage
<1>6. AddDataPoint \/ WriteAtOnce \/ Tick \/ Send \/ EndRound \/ Worker \/ UNCHANGED vars
        => UNCHANGED <<series, account>>
  BY DEF AddDataPoint, WriteAtOnce, Tick, Send, EndRound, Worker, Receive, WriteAggregate, vars
<1>7. ASSUME NEW isMultiple \in BOOLEAN, TestMinute(isMultiple)
      PROVE  UNCHANGED <<series, account>>
  BY <1>7 DEF TestMinute
<1> QED BY <1>1, <1>2, <1>3, <1>4, <1>5, <1>6, <1>7 DEF Next, Router, Publishing

\* What the books say of what is published and at hand.
LEMMA BooksCount ==
    ASSUME TypeOK, Ledger, NEW id \in DOMAIN series
    PROVE  /\ Booked(account[id]) + Pending(series[id]) <= account[id].grown
           /\ series[id].func = "sum" \/ (series[id].func = "difference" /\ ~account[id].plain)
                => Booked(account[id]) + Pending(series[id]) = account[id].grown
<1> DEFINE s == series[id]
           a == account[id]
           d == CalculateDifference(s.values)
<1>1. s \in SValues /\ a \in Accounts /\ InBooks(s, a)
  BY DEF TypeOK, Ledger
<1>2. d \in Nat /\ s.values \in Seq(Int) /\ Booked(a) \in Int /\ a.grown \in Int
  BY <1>1, FilteredTyped DEF Accounts, Booked
<1>3. (s.values = <<>> => d = 0) /\ (s.values # <<>> => Last(s.values) \in Int)
  BY <1>2, DifferenceOfNothing, IntegerSequences
<1>4. Pending(s) = IF s.func = "sum" THEN Total(s.values)
                   ELSE IF s.func = "difference" THEN d ELSE 0
  BY DEF Pending
<1>5. s.values # <<>> /\ a.taken \in Int => Rise(Last(s.values), a.taken) \in Nat
  BY <1>3, Rises
<1> HIDE DEF s, a, d
<1> DEFINE Counts ==
             /\ Booked(a) + Pending(s) <= a.grown
             /\ s.func = "sum" \/ (s.func = "difference" /\ ~a.plain)
                  => Booked(a) + Pending(s) = a.grown
<1>6. ASSUME s.func = "sum" PROVE Counts
  BY <1>1, <1>2, <1>4, <1>6 DEF InBooks
<1>7. ASSUME s.func = "difference" PROVE Counts
  <2>1. Booked(a) + d <= a.grown
    <3>1. CASE s.values = <<>>
      BY <1>1, <1>2, <1>3, <1>7, <3>1 DEF InBooks
    <3>2. CASE s.values # <<>>
      <4>1. a.taken \in Int /\ Booked(a) + d + Rise(Last(s.values), a.taken) <= a.grown
        BY <1>1, <1>7, <3>2 DEF InBooks, d
      <4> QED BY <1>2, <1>5, <3>2, <4>1
    <3> QED BY <3>1, <3>2
  <2>2. ~a.plain => Booked(a) + d = a.grown
    BY <1>1, <1>7 DEF InBooks, d
  <2> QED BY <1>4, <1>7, <2>1, <2>2
<1>8. ASSUME s.func \notin {"sum", "difference"} PROVE Counts
  BY <1>1, <1>2, <1>4, <1>8 DEF InBooks, Booked
<1>9. Counts
  BY <1>6, <1>7, <1>8
<1> QED BY <1>9 DEF s, a

LEMMA LedgerCounts == TypeOK /\ Ledger => NothingCountedTwice
<1> SUFFICES ASSUME TypeOK, Ledger, NEW id \in DOMAIN account
             PROVE  account[id].published + account[id].refused + Pending(series[id])
                      <= account[id].grown
  BY DEF NothingCountedTwice
<1>1. id \in DOMAIN series
  BY DEF TypeOK
<1> QED BY <1>1, BooksCount DEF Booked

\* What is published of a series, what is refused and what its values at hand will yield
\* never exceed what its values have added up to, or risen by, since the first one, for
\* any messages, any outliers and any limit on a difference (agreggator.go:186 to 213 and
\* 231): no consumption is counted in two rounds.
THEOREM NothingIsCountedTwice == Spec => []NothingCountedTwice
<1> QED BY InitTyped, NextTyped, InitLedger, NextKeepsLedger, LedgerCounts, PTL DEF Spec

\* Nothing is lost between the rounds of the energy of a charging session, or of a main
\* meter that was never filtered: what is published, what is refused and what is at hand
\* is all its values have added up to, or risen by (agreggator.go:123 to 137, 161, 213).
THEOREM AllIsCounted == Spec => []CountsAreComplete
<1>1. TypeOK /\ Ledger => CountsAreComplete
  <2> SUFFICES ASSUME TypeOK, Ledger, NEW id \in DOMAIN series,
                      \/ series[id].func = "sum"
                      \/ series[id].func = "difference" /\ ~account[id].plain
               PROVE  account[id].published + account[id].refused + Pending(series[id])
                        = account[id].grown
    BY DEF CountsAreComplete
  <2> QED BY BooksCount DEF Booked
<1> QED BY InitTyped, NextTyped, InitLedger, NextKeepsLedger, <1>1, PTL DEF Spec

-----------------------------------------------------------------------------
(* The refinement: what is on its way *)

Good == TypeOK /\ FieldsInv /\ Ledger

ViewOf(a) == [series |-> a.series, value |-> a.value]
View(q)   == [i \in DOMAIN q |-> ViewOf(q[i])]

\* The worker reads in the map what the publisher has sent.
LEMMA WorkerReadsWhatWasSent ==
    Good => OnTheWay = View(Aggregated) /\ Aggregated \in Seq(Aggregates)
<1> SUFFICES ASSUME Good
             PROVE  OnTheWay = View(Aggregated) /\ Aggregated \in Seq(Aggregates)
  OBVIOUS
<1> DEFINE A == Aggregates
<1>1. writing \in Seq(A) /\ outputChannel \in Seq(A) /\ sending \in Seq(A)
  BY DEF Good, TypeOK
<1>2. Aggregated \in Seq(A)
  <2> HIDE DEF A
  <2> QED BY <1>1 DEF Aggregated
<1>3. ASSUME NEW i \in DOMAIN Aggregated
      PROVE  Aggregated[i] \in InFlight
  <2>1. Range(Aggregated) = Range(writing) \cup Range(outputChannel) \cup Range(sending)
    <3> HIDE DEF A
    <3>1. writing \o outputChannel \in Seq(A)
      BY <1>1
    <3>2. Range(writing \o outputChannel) = Range(writing) \cup Range(outputChannel)
      BY <1>1, RangeConcatenation
    <3>3. Range((writing \o outputChannel) \o sending)
            = Range(writing \o outputChannel) \cup Range(sending)
      BY <1>1, <3>1, RangeConcatenation
    <3> QED BY <3>2, <3>3 DEF Aggregated
  <2>2. Aggregated[i] \in Range(Aggregated)
    BY DEF Range
  <2> QED BY <2>1, <2>2 DEF InFlight
<1>4. \A i \in DOMAIN Aggregated : valueOf[Aggregated[i].fields] = Aggregated[i].value
  BY <1>3 DEF Good, FieldsInv, FieldsKeepValue
<1> QED BY <1>2, <1>4 DEF OnTheWay, View, ViewOf

\* Sends and deliveries as the queue sees them.
LEMMA ViewMoves ==
    ASSUME NEW A, NEW q \in Seq(A)
    PROVE  /\ \A a \in A : /\ View(Append(q, a)) = Append(View(q), ViewOf(a))
                           /\ ViewOf(a) \in Range(View(Append(q, a)))
           /\ q # <<>> => View(q) # <<>> /\ View(Tail(q)) = Tail(View(q))
<1> DEFINE B == {ViewOf(a) : a \in A}
<1>1. ASSUME NEW s \in Seq(A)
      PROVE  /\ View(s) \in Seq(B) /\ Len(View(s)) = Len(s) /\ Len(s) \in Nat
             /\ \A i \in 1 .. Len(s) : View(s)[i] = ViewOf(s[i])
  <2>1. Len(s) \in Nat /\ DOMAIN s = 1 .. Len(s) /\ \A i \in 1 .. Len(s) : s[i] \in A
    OBVIOUS
  <2>2. View(s) \in [1 .. Len(s) -> B]
    BY <2>1 DEF View
  <2>3. \A i \in 1 .. Len(s) : View(s)[i] = ViewOf(s[i])
    BY <2>1 DEF View
  <2>4. View(s) \in Seq(B) /\ Len(View(s)) = Len(s)
    <3> DEFINE v == View(s)
    <3>1. v \in [1 .. Len(s) -> B] /\ Len(s) \in Nat
      BY <2>1, <2>2
    <3> HIDE DEF v, B
    <3>2. v \in Seq(B)
      BY <3>1
    <3>3. Len(v) = Len(s)
      BY <3>1, <3>2
    <3> QED BY <3>2, <3>3 DEF v
  <2> QED BY <2>1, <2>3, <2>4
<1>2. ASSUME NEW a \in A
      PROVE  /\ View(Append(q, a)) = Append(View(q), ViewOf(a))
             /\ ViewOf(a) \in Range(View(Append(q, a)))
  <2> DEFINE s == Append(q, a)
             b == ViewOf(a)
             v == View(q)
             w == View(s)
  <2>1. s \in Seq(A) /\ Len(s) = Len(q) + 1 /\ s[Len(q) + 1] = a
        /\ \A i \in 1 .. Len(q) : s[i] = q[i]
    OBVIOUS
  <2>2. /\ v \in Seq(B) /\ Len(v) = Len(q) /\ Len(q) \in Nat
        /\ \A i \in 1 .. Len(q) : v[i] = ViewOf(q[i])
    BY <1>1
  <2>3. /\ w \in Seq(B) /\ Len(w) = Len(s)
        /\ \A i \in 1 .. Len(s) : w[i] = ViewOf(s[i])
    BY <1>1, <2>1
  <2>4. b \in B
    OBVIOUS
  <2>5. Len(w) = Len(q) + 1 /\ w[Len(q) + 1] = b /\ \A i \in 1 .. Len(q) : w[i] = v[i]
    <3> HIDE DEF B, v, w, s
    <3> QED BY <2>1, <2>2, <2>3
  <2> HIDE DEF B, v, w, b
  <2>6. w = Append(v, b)
    <3> DEFINE x == Append(v, b)
    <3>1. /\ x \in Seq(B) /\ Len(x) = Len(q) + 1 /\ x[Len(q) + 1] = b
          /\ \A i \in 1 .. Len(q) : x[i] = v[i]
      BY <2>2, <2>4
    <3> HIDE DEF x
    <3>2. ASSUME NEW i \in 1 .. Len(w) PROVE w[i] = x[i]
      BY <2>2, <2>5, <3>1
    <3>3. w = x
      BY <2>2, <2>3, <2>5, <3>1, <3>2, SeqEqual
    <3> QED BY <3>3 DEF x
  <2>7. b \in Range(w)
    <3>1. Len(q) + 1 \in DOMAIN w
      BY <2>2, <2>3, <2>5
    <3> QED BY <2>5, <3>1 DEF Range
  <2> QED BY <2>6, <2>7 DEF v, w, b
<1>3. ASSUME q # <<>>
      PROVE  View(q) # <<>> /\ View(Tail(q)) = Tail(View(q))
  <2> DEFINE s == Tail(q)
             v == View(q)
             w == View(s)
  <2>1. s \in Seq(A) /\ Len(s) = Len(q) - 1 /\ Len(q) \in Nat \ {0}
        /\ \A i \in 1 .. Len(s) : s[i] = q[i + 1]
    BY <1>3
  <2>2. /\ v \in Seq(B) /\ w \in Seq(B) /\ Len(v) = Len(q) /\ Len(w) = Len(q) - 1
        /\ \A i \in 1 .. Len(w) : w[i] = v[i + 1]
    <3>1. /\ v \in Seq(B) /\ Len(v) = Len(q)
          /\ \A i \in 1 .. Len(q) : v[i] = ViewOf(q[i])
      BY <1>1
    <3>2. /\ w \in Seq(B) /\ Len(w) = Len(s)
          /\ \A i \in 1 .. Len(s) : w[i] = ViewOf(s[i])
      BY <1>1, <2>1
    <3> HIDE DEF B, v, w, s
    <3> QED BY <2>1, <3>1, <3>2
  <2> HIDE DEF B, v, w
  <2>3. v # <<>>
    BY <2>1, <2>2
  <2>4. w = Tail(v)
    <3>1. /\ Tail(v) \in Seq(B) /\ Len(Tail(v)) = Len(w)
          /\ \A i \in 1 .. Len(w) : w[i] = Tail(v)[i]
      BY <2>1, <2>2, <2>3
    <3> QED BY <2>2, <3>1, SeqEqual
  <2> QED BY <2>3, <2>4 DEF v, w
<1> QED BY <1>2, <1>3

\* The three places behind each other are one queue: what is sent goes to its end, and the
\* worker takes from its front.
LEMMA OneQueue ==
    ASSUME NEW A, NEW w \in Seq(A), NEW c \in Seq(A), NEW s \in Seq(A), NEW a \in A
    PROVE  /\ w \o c \o <<a>> = w \o Append(c, a) \o <<>>
           /\ w \o c \o <<a>> = Append(w \o c \o <<>>, a)
           /\ <<a>> \o c \o s # <<>> /\ Tail(<<a>> \o c \o s) = <<>> \o c \o s
           /\ c # <<>> => <<>> \o c \o s = <<Head(c)>> \o Tail(c) \o s
<1>1. w \o c \o <<a>> = w \o Append(c, a) \o <<>>
  <2>1. w \o c \in Seq(A) /\ Append(c, a) \in Seq(A) /\ w \o Append(c, a) \in Seq(A)
    OBVIOUS
  <2>2. w \o c \o <<a>> = Append(w \o c, a)
    BY <2>1, AppendIsConcat
  <2>3. Append(c, a) = c \o <<a>>
    BY AppendIsConcat
  <2>4. w \o Append(c, a) = w \o c \o <<a>>
    <3>1. <<a>> \in Seq(A)
      OBVIOUS
    <3> QED BY <2>3, <3>1, ConcatAssociative
  <2>5. w \o Append(c, a) \o <<>> = w \o Append(c, a)
    BY <2>1, ConcatEmptySeq
  <2> QED BY <2>4, <2>5
<1>2. w \o c \o <<a>> = Append(w \o c \o <<>>, a)
  <2>1. w \o c \in Seq(A)
    OBVIOUS
  <2>2. w \o c \o <<>> = w \o c
    BY <2>1, ConcatEmptySeq
  <2> QED BY <2>1, <2>2, AppendIsConcat
<1>3. <<a>> \o c \o s # <<>> /\ Tail(<<a>> \o c \o s) = <<>> \o c \o s
  <2> DEFINE t == c \o s
             x == <<a>> \o t
             one == <<a>>
  <2>1. t \in Seq(A) /\ one \in Seq(A) /\ Len(t) \in Nat
    OBVIOUS
  <2>2. one \o c \o s = one \o t
    BY <2>1, ConcatAssociative
  <2>3. <<>> \o c \o s = t
    BY ConcatEmptySeq
  <2>4. x \in Seq(A) /\ Len(x) = Len(t) + 1 /\ \A i \in 1 .. Len(t) : x[i + 1] = t[i]
    <3> HIDE DEF t
    <3> QED BY <2>1
  <2> HIDE DEF t, x
  <2>5. x # <<>> /\ Tail(x) = t
    <3> DEFINE y == Tail(x)
    <3>1. x # <<>> /\ y \in Seq(A) /\ Len(y) = Len(t) /\ \A i \in 1 .. Len(t) : y[i] = t[i]
      BY <2>1, <2>4
    <3> HIDE DEF y
    <3>2. y = t
      BY <2>1, <3>1, SeqEqual
    <3> QED BY <3>1, <3>2 DEF y
  <2> QED BY <2>2, <2>3, <2>5 DEF x
<1>4. ASSUME c # <<>>
      PROVE  <<>> \o c \o s = <<Head(c)>> \o Tail(c) \o s
  <2>1. <<Head(c)>> \o Tail(c) = c
    <3> DEFINE x == <<Head(c)>> \o Tail(c)
    <3>1. Head(c) \in A /\ Tail(c) \in Seq(A) /\ Len(c) \in Nat \ {0} /\ Len(Tail(c)) = Len(c) - 1
          /\ Head(c) = c[1] /\ \A i \in 1 .. Len(c) - 1 : Tail(c)[i] = c[i + 1]
      BY <1>4
    <3>2. x \in Seq(A) /\ Len(x) = Len(c) /\ x[1] = c[1]
          /\ \A i \in 2 .. Len(c) : x[i] = Tail(c)[i - 1]
      BY <3>1
    <3> HIDE DEF x
    <3>3. ASSUME NEW i \in 1 .. Len(x) PROVE x[i] = c[i]
      BY <3>1, <3>2
    <3>4. x = c
      BY <3>2, <3>3, SeqEqual
    <3> QED BY <3>4 DEF x
  <2>2. <<>> \o c = c
    BY ConcatEmptySeq
  <2> QED BY <2>1, <2>2
<1> QED BY <1>1, <1>2, <1>3, <1>4

LEMMA QueueIsView ==
    ASSUME Good, Good'
    PROVE  /\ OnTheWay = View(Aggregated) /\ Aggregated \in Seq(Aggregates)
           /\ OnTheWay' = View(Aggregated')
<1>1. Good' => (OnTheWay = View(Aggregated))'
  BY WorkerReadsWhatWasSent, PTL
<1> QED BY <1>1, WorkerReadsWhatWasSent DEF View

LEMMA QueueStays ==
    ASSUME Good, Good', Aggregated' = Aggregated
    PROVE  OnTheWay' = OnTheWay
BY QueueIsView

LEMMA QueueGrows ==
    ASSUME Good, Good', NEW a \in Aggregates, Aggregated' = Append(Aggregated, a)
    PROVE  OnTheWay' = Append(OnTheWay, ViewOf(a)) /\ ViewOf(a) \in Range(OnTheWay')
BY QueueIsView, ViewMoves

LEMMA QueueShrinks ==
    ASSUME Good, Good', Aggregated # <<>>, Aggregated' = Tail(Aggregated)
    PROVE  OnTheWay # <<>> /\ OnTheWay' = Tail(OnTheWay)
BY QueueIsView, ViewMoves

-----------------------------------------------------------------------------
(* The refinement: the steps *)

MeterStep == [Meters!Next]_(Meters!vars)

\* A step between the broker and the worker that leaves the series alone is a stutter.
LEMMA OthersStutter ==
    ASSUME Good, Good', UNCHANGED <<series, account>>, Aggregated' = Aggregated
    PROVE  MeterStep
<1>1. OnTheWay' = OnTheWay
  BY QueueStays
<1> QED BY <1>1 DEF MeterStep, Meters!vars, CountedSeries, Growth, SettledGrowth

LEMMA AtMostOne ==
    ASSUME NEW A, NEW s \in Seq(A), Len(s) <= 1, s # <<>>
    PROVE  \E a \in A : s = <<a>>
<1>1. Len(s) = 1 /\ s[1] \in A
  <2>1. Len(s) \in Nat \ {0}
    BY EmptySeq
  <2>2. \A n \in Nat \ {0} : n <= 1 => n = 1
    OBVIOUS
  <2>3. Len(s) = 1
    BY <2>1, <2>2, Zenon
  <2>4. 1 \in 1 .. Len(s)
    BY <2>3
  <2> QED BY <2>3, <2>4, ElementOfSeq
<1> DEFINE t == <<s[1]>>
<1>2. t \in Seq(A) /\ Len(t) = 1 /\ t[1] = s[1]
  BY <1>1
<1> HIDE DEF t
<1>3. s = t
  BY <1>1, <1>2, SeqEqual
<1> QED BY <1>1, <1>3 DEF t

LEMMA SendStutters == ASSUME Good, Good', Send PROVE MeterStep
<1> DEFINE A == Aggregates
<1>1. /\ writing \in Seq(A) /\ outputChannel \in Seq(A)
      /\ sending \in Seq(A) /\ Len(sending) <= 1 /\ sending # <<>>
      /\ outputChannel' = Append(outputChannel, sending[1]) /\ sending' = <<>>
      /\ UNCHANGED <<series, account, writing>>
  BY DEF Good, TypeOK, Send
<1>2. PICK a \in A : sending = <<a>>
  <2> HIDE DEF A
  <2> QED BY <1>1, AtMostOne
<1>3. Aggregated' = Aggregated
  <2> DEFINE w == writing
             c == outputChannel
  <2> HIDE DEF A
  <2>1. w \o c \o <<a>> = w \o Append(c, a) \o <<>>
    <3>1. w \in Seq(A) /\ c \in Seq(A) /\ sending \in Seq(A)
      BY <1>1
    <3> HIDE DEF w, c
    <3> QED BY <3>1, OneQueue
  <2>2. writing' = w /\ outputChannel' = Append(c, a) /\ sending' = <<>>
    BY <1>1, <1>2
  <2> HIDE DEF w, c
  <2>3. Aggregated = w \o c \o <<a>>
    BY <1>2 DEF Aggregated, w, c
  <2> QED BY <2>1, <2>2, <2>3 DEF Aggregated
<1> QED BY <1>1, <1>3, OthersStutter

LEMMA WorkerMeters == ASSUME Good, Good', Worker PROVE MeterStep
<1> DEFINE A == Aggregates
<1>1. /\ writing \in Seq(A) /\ Len(writing) <= 1
      /\ outputChannel \in Seq(A) /\ sending \in Seq(A)
  BY DEF Good, TypeOK
<1>2. CASE Receive
  <2>1. /\ writing = <<>> /\ outputChannel # <<>>
        /\ writing' = <<Head(outputChannel)>> /\ outputChannel' = Tail(outputChannel)
        /\ UNCHANGED <<series, account, sending>>
    BY <1>2 DEF Receive, pubVars
  <2>2. Aggregated' = Aggregated
    <3> HIDE DEF A
    <3> DEFINE c == outputChannel
               s == sending
    <3>1. Head(c) \in A
      BY <1>1, <2>1
    <3>2. <<>> \o c \o s = <<Head(c)>> \o Tail(c) \o s
      <4>1. c \in Seq(A) /\ s \in Seq(A) /\ c # <<>>
        BY <1>1, <2>1
      <4> HIDE DEF c, s
      <4> QED BY <3>1, <4>1, OneQueue
    <3> HIDE DEF c, s
    <3> QED BY <2>1, <3>2 DEF Aggregated, c, s
  <2> QED BY <2>1, <2>2, OthersStutter
<1>3. CASE WriteAggregate
  <2>1. /\ writing # <<>> /\ writing' = <<>>
        /\ UNCHANGED <<series, account, sending, outputChannel>>
    BY <1>3 DEF WriteAggregate, pubVars
  <2>2. Aggregated # <<>> /\ Aggregated' = Tail(Aggregated)
    <3> HIDE DEF A
    <3> DEFINE c == outputChannel
               s == sending
    <3>1. PICK a \in A : writing = <<a>>
      BY <1>1, <2>1, AtMostOne
    <3>2. <<a>> \o c \o s # <<>> /\ Tail(<<a>> \o c \o s) = <<>> \o c \o s
      BY <1>1, OneQueue
    <3> HIDE DEF c, s
    <3> QED BY <2>1, <3>1, <3>2 DEF Aggregated, c, s
  <2>3. OnTheWay # <<>> /\ OnTheWay' = Tail(OnTheWay)
    BY <2>2, QueueShrinks
  <2>4. Meters!Deliver
    BY <2>1, <2>3 DEF Meters!Deliver, CountedSeries, Growth, SettledGrowth
  <2> QED BY <2>4 DEF MeterStep, Meters!Next
<1> QED BY <1>2, <1>3 DEF Worker

LEMMA TakeInMeters == ASSUME Good, Good', TakeIn PROVE MeterStep
<1> DEFINE p == Head(inputChannel)
           id == p.series
           new == Updated(id, p)
           entry == Noted(id, p)
<1>1. Aggregated' = Aggregated
  BY DEF TakeIn, Aggregated, pubVars
<1>2. OnTheWay' = OnTheWay
  BY <1>1, QueueStays
<1>3. CASE p.value = NotFloat
  BY <1>1, <1>3, OthersStutter DEF TakeIn
<1>4. CASE p.value # NotFloat
  <2>1. series' = With(series, id, new) /\ account' = With(account, id, entry)
    BY <1>4 DEF TakeIn
  <2>2. DOMAIN account = DOMAIN series /\ DOMAIN account' = DOMAIN series'
    BY DEF Good, TypeOK
  <2>3. id \in DOMAIN series => new.func = series[id].func
    <3>1. id \in DOMAIN series => series[id] \in SValues
      BY DEF Good, TypeOK
    <3> QED BY <3>1 DEF Updated, Described, SValues
  <2>4. IF id \in DOMAIN account
        THEN entry.published = account[id].published /\ entry.refused = account[id].refused
        ELSE entry.published = 0 /\ entry.refused = 0
    <3>1. id \in DOMAIN account => account[id] \in Accounts
      BY DEF Good, TypeOK
    <3> QED BY <3>1 DEF Noted, Accounts
  <2> HIDE DEF p, id, new, entry
  <2>5. /\ DOMAIN series' = DOMAIN series \cup {id}
        /\ series'[id] = new
        /\ \A i \in DOMAIN series \ {id} : series'[i] = series[i]
    BY <2>1 DEF With
  <2>6. /\ DOMAIN account' = DOMAIN account \cup {id}
        /\ account'[id] = entry
        /\ \A i \in DOMAIN account \ {id} : account'[i] = account[i]
    BY <2>1 DEF With
  <2>7. DOMAIN Growth' = DOMAIN Growth \cup {id}
    BY <2>6 DEF Growth
  <2>8. \A i \in DOMAIN Growth \ {id} : Growth'[i] = Growth[i]
    BY <2>6 DEF Growth
  <2>9. SettledGrowth' =
          [i \in DOMAIN Growth' |-> IF i \in DOMAIN Growth THEN SettledGrowth[i] ELSE 0]
    <3>1. DOMAIN Growth' = DOMAIN account' /\ DOMAIN Growth = DOMAIN account
      BY DEF Growth
    <3>2. ASSUME NEW i \in DOMAIN account'
          PROVE  account'[i].published + account'[i].refused
                   = IF i \in DOMAIN account THEN SettledGrowth[i] ELSE 0
      BY <2>4, <2>6 DEF SettledGrowth
    <3> QED BY <3>1, <3>2 DEF SettledGrowth
  <2>10. \/ CountedSeries' = CountedSeries
         \/ id \notin DOMAIN Growth /\ CountedSeries' = CountedSeries \cup {id}
    <3>1. DOMAIN Growth = DOMAIN series
      BY <2>2 DEF Growth
    <3>2. CASE id \in DOMAIN series
      BY <2>3, <2>5, <3>2 DEF CountedSeries
    <3>3. CASE id \notin DOMAIN series
      BY <2>5, <3>1, <3>3 DEF CountedSeries
    <3> QED BY <3>2, <3>3
  <2>11. id \in CountedSeries' \/ Growth'[id] = 0
    <3>1. id \in DOMAIN series' /\ InBooks(series'[id], account'[id])
      BY <2>5 DEF Good, Ledger
    <3>2. series'[id].func \notin {"sum", "difference"} => account'[id].grown = 0
      BY <3>1 DEF InBooks
    <3>3. Growth'[id] = account'[id].grown
      BY <2>6 DEF Growth
    <3> QED BY <3>1, <3>2, <3>3 DEF CountedSeries
  <2>12. Meters!TakeIn(id) /\ id \in DOMAIN Growth'
    BY <1>2, <2>7, <2>8, <2>9, <2>10, <2>11 DEF Meters!TakeIn
  <2> QED BY <2>12 DEF MeterStep, Meters!Next
<1> QED BY <1>3, <1>4

Entered(id, entry) ==
    \A i \in DOMAIN account : account'[i] = IF i = id THEN entry ELSE account[i]

\* What the accounts show of a visit.
LEMMA VisitSettles ==
    ASSUME Good, Good', NEW id \in DOMAIN series,
           DOMAIN series' = DOMAIN series,
           \A i \in DOMAIN series : series'[i].func = series[i].func,
           NEW entry \in Accounts, Entered(id, entry), entry.grown = account[id].grown
    PROVE  /\ CountedSeries' = CountedSeries /\ Growth' = Growth /\ id \in DOMAIN Growth
           /\ SettledGrowth' = [SettledGrowth EXCEPT ![id] = Booked(entry)]
           /\ SettledGrowth[id] = Booked(account[id])
           /\ Booked(account[id]) \in Int /\ Booked(entry) \in Int
           /\ Pending(series'[id]) = 0 => Booked(entry) <= Growth[id]
<1>1. DOMAIN account' = DOMAIN series /\ DOMAIN account = DOMAIN series
  BY DEF Good, TypeOK
<1>2. CountedSeries' = CountedSeries
  BY DEF CountedSeries
<1>3. Growth' = Growth /\ id \in DOMAIN Growth /\ Growth[id] = entry.grown
  <2>1. \A i \in DOMAIN account : account'[i].grown = account[i].grown
    BY DEF Entered
  <2> QED BY <1>1, <2>1 DEF Growth
<1>4. /\ SettledGrowth' = [SettledGrowth EXCEPT ![id] = Booked(entry)]
      /\ SettledGrowth[id] = Booked(account[id])
  <2>1. \A i \in DOMAIN account : Booked(account'[i]) = IF i = id THEN Booked(entry)
                                                         ELSE Booked(account[i])
    BY DEF Entered
  <2> QED BY <1>1, <2>1 DEF SettledGrowth, Booked
<1>5. Booked(account[id]) \in Int /\ Booked(entry) \in Int
  <2>1. account[id] \in Accounts
    BY <1>1 DEF Good, TypeOK
  <2> QED BY <2>1 DEF Accounts, Booked
<1>6. Pending(series'[id]) = 0 => Booked(entry) <= Growth[id]
  <2>1. NothingCountedTwice'
    BY LedgerCounts, PTL DEF Good
  <2>2. account'[id].published + account'[id].refused + Pending(series'[id])
          <= account'[id].grown
    BY <1>1, <2>1 DEF NothingCountedTwice, Pending
  <2>3. account'[id] = entry
    BY <1>1 DEF Entered
  <2> QED BY <1>3, <1>5, <2>2, <2>3 DEF Booked
<1> QED BY <1>2, <1>3, <1>4, <1>5, <1>6

LEMMA SkipMeters ==
    ASSUME Good, Good', NEW id, Visit(id), NEW values, Skip(id, values),
           NEW entry \in Accounts, Entered(id, entry), entry.grown = account[id].grown,
           Booked(entry) = Booked(account[id])
             \/ (id \in CountedSeries /\ Pending(series'[id]) = 0)
    PROVE  MeterStep
<1>1. id \in DOMAIN series
  BY DEF Visit, Good, TypeOK
<1>2. DOMAIN series' = DOMAIN series /\ \A i \in DOMAIN series : series'[i].func = series[i].func
  <2>1. \A i \in DOMAIN series : series[i] \in SValues
    BY DEF Good, TypeOK
  <2>2. /\ DOMAIN series' = DOMAIN series
        /\ \A i \in DOMAIN series : i # id => series'[i] = series[i]
        /\ series'[id] = [series[id] EXCEPT !.values = values]
    BY <1>1 DEF Skip
  <2> QED BY <1>1, <2>1, <2>2 DEF SValues
<1>3. OnTheWay' = OnTheWay
  <2>1. Aggregated' = Aggregated
    BY DEF Aggregated, Skip, Visit
  <2> QED BY <2>1, QueueStays
<1>4. /\ CountedSeries' = CountedSeries /\ Growth' = Growth /\ id \in DOMAIN Growth
      /\ SettledGrowth' = [SettledGrowth EXCEPT ![id] = Booked(entry)]
      /\ SettledGrowth[id] = Booked(account[id])
      /\ Booked(account[id]) \in Int /\ Booked(entry) \in Int
      /\ Pending(series'[id]) = 0 => Booked(entry) <= Growth[id]
  BY <1>1, <1>2, VisitSettles
<1>5. id \in DOMAIN SettledGrowth
  BY <1>4 DEF Growth, SettledGrowth
<1>6. CASE Booked(entry) = Booked(account[id])
  <2>1. SettledGrowth' = SettledGrowth
    BY <1>4, <1>6 DEF SettledGrowth
  <2> QED BY <1>3, <1>4, <2>1 DEF MeterStep, Meters!vars
<1>7. CASE id \in CountedSeries /\ Pending(series'[id]) = 0
  <2>1. SettledGrowth'[id] = Booked(entry)
    BY <1>4, <1>5
  <2>2. SettledGrowth[id] + (SettledGrowth'[id] - SettledGrowth[id]) = Booked(entry)
    BY <1>4, <2>1
  <2>3. Meters!Settle(id, SettledGrowth'[id] - SettledGrowth[id])
    BY <1>4, <1>7, <2>1, <2>2 DEF Meters!Settle
  <2>4. Meters!Refuse(id) /\ id \in DOMAIN Growth'
    BY <1>3, <1>4, <1>7, <2>3 DEF Meters!Refuse
  <2> QED BY <2>4 DEF MeterStep, Meters!Next
<1> QED BY <1>6, <1>7

LEMMA PublishMeters ==
    ASSUME Good, Good', NEW id, Visit(id), NEW values, NEW result, Publish(id, values, result),
           NEW entry \in Accounts, Entered(id, entry), entry.grown = account[id].grown,
           IF id \in CountedSeries
           THEN /\ result.den = 1 /\ Booked(entry) = Booked(account[id]) + result.num
                /\ Pending(series'[id]) = 0
           ELSE Booked(entry) = Booked(account[id])
    PROVE  MeterStep
<1>1. id \in DOMAIN series
  BY DEF Visit, Good, TypeOK
<1>2. DOMAIN series' = DOMAIN series /\ \A i \in DOMAIN series : series'[i].func = series[i].func
  <2>1. \A i \in DOMAIN series : series[i] \in SValues
    BY DEF Good, TypeOK
  <2>2. /\ DOMAIN series' = DOMAIN series
        /\ \A i \in DOMAIN series : i # id => series'[i] = series[i]
        /\ series'[id] = [series[id] EXCEPT !.values = values, !.last = result]
    BY <1>1 DEF Publish
  <2> QED BY <1>1, <2>1, <2>2 DEF SValues
<1>3. PICK a \in Aggregates : sending' = <<a>> /\ a.series = id /\ a.value = result
  <2>1. sending' \in Seq(Aggregates) /\ Len(sending') <= 1
    BY DEF Good, TypeOK
  <2>2. PICK b : sending' = <<b>> /\ b.series = id /\ b.value = result
    BY DEF Publish
  <2>3. sending'[1] = b /\ sending' # <<>>
    BY <2>2
  <2>4. b \in Aggregates
    <3> DEFINE A == Aggregates
               q == sending'
    <3>1. q \in Seq(A) /\ Len(q) <= 1 /\ q # <<>> /\ q[1] = b
      BY <2>1, <2>3
    <3> HIDE DEF A, q
    <3>2. PICK c \in A : q = <<c>>
      BY <3>1, AtMostOne
    <3>3. c = b
      BY <3>1, <3>2
    <3> QED BY <3>2, <3>3 DEF A
  <2> QED BY <2>2, <2>4
<1>4. Aggregated' = Append(Aggregated, a)
  <2> DEFINE A == Aggregates
             w == writing
             c == outputChannel
  <2>1. w \in Seq(A) /\ c \in Seq(A)
    BY DEF Good, TypeOK
  <2>2. sending = <<>> /\ writing' = w /\ outputChannel' = c
    BY DEF Visit
  <2>3. w \o c \o <<a>> = Append(w \o c \o <<>>, a)
    <3> HIDE DEF A, w, c
    <3>1. <<>> \in Seq(A)
      OBVIOUS
    <3> QED BY <2>1, <3>1, OneQueue DEF A
  <2> HIDE DEF w, c
  <2>4. Aggregated = w \o c \o <<>>
    BY <2>2 DEF Aggregated, w, c
  <2> QED BY <1>3, <2>2, <2>3, <2>4 DEF Aggregated
<1>5. OnTheWay' = Append(OnTheWay, ViewOf(a)) /\ ViewOf(a) \in Range(OnTheWay')
  BY <1>4, QueueGrows
<1>6. ViewOf(a).series = id /\ ViewOf(a).value = result
  BY <1>3 DEF ViewOf
<1>7. /\ CountedSeries' = CountedSeries /\ Growth' = Growth /\ id \in DOMAIN Growth
      /\ SettledGrowth' = [SettledGrowth EXCEPT ![id] = Booked(entry)]
      /\ SettledGrowth[id] = Booked(account[id])
      /\ Booked(account[id]) \in Int /\ Booked(entry) \in Int
      /\ Pending(series'[id]) = 0 => Booked(entry) <= Growth[id]
  BY <1>1, <1>2, VisitSettles
<1>8. id \in DOMAIN SettledGrowth
  BY <1>7 DEF Growth, SettledGrowth
<1>9. IF id \in CountedSeries
      THEN result.den = 1 /\ Meters!Settle(id, result.num)
      ELSE UNCHANGED <<CountedSeries, Growth, SettledGrowth>>
  <2>1. CASE id \in CountedSeries
    <3>1. SettledGrowth'[id] = Booked(entry)
      BY <1>7, <1>8
    <3>2. SettledGrowth' = [SettledGrowth EXCEPT ![id] = @ + result.num]
      BY <1>7, <2>1
    <3>3. SettledGrowth'[id] <= Growth[id]
      BY <1>7, <2>1, <3>1
    <3>4. Meters!Settle(id, result.num)
      BY <1>7, <3>2, <3>3 DEF Meters!Settle
    <3> QED BY <2>1, <3>4
  <2>2. CASE id \notin CountedSeries
    <3>1. SettledGrowth' = SettledGrowth
      BY <1>7, <2>2 DEF SettledGrowth
    <3> QED BY <1>7, <2>2, <3>1
  <2> QED BY <2>1, <2>2
<1> DEFINE new == ViewOf(a)
<1>10. /\ new \in Meters!Range(OnTheWay') /\ OnTheWay' = Append(OnTheWay, new) /\ new.series = id
       /\ IF id \in CountedSeries
          THEN new.value.den = 1 /\ Meters!Settle(id, new.value.num)
          ELSE UNCHANGED <<CountedSeries, Growth, SettledGrowth>>
  <2>1. \A q : Meters!Range(q) = Range(q)
    BY DEF Meters!Range, Range
  <2> QED BY <1>5, <1>6, <1>9, <2>1
<1> HIDE DEF new
<1>11. Meters!Publish(id)
  BY <1>10, Zenon DEF Meters!Publish
<1>12. id \in DOMAIN Growth'
  BY <1>7
<1> QED BY <1>11, <1>12 DEF MeterStep, Meters!Next

\* What a visit makes of the values of a series.
LEMMA Visited ==
    ASSUME Good, NEW id \in DOMAIN series, NEW values, NEW result,
           Skip(id, values) \/ Publish(id, values, result)
    PROVE  series'[id].func = series[id].func /\ series'[id].values = values
<1>1. series[id] \in SValues
  BY DEF Good, TypeOK
<1>2. \/ series'[id] = [series[id] EXCEPT !.values = values]
      \/ series'[id] = [series[id] EXCEPT !.values = values, !.last = result]
  BY DEF Skip, Publish
<1> QED BY <1>1, <1>2 DEF SValues

\* Nothing is pending of a series that is empty or keeps one value to start from.
LEMMA NothingPending ==
    ASSUME NEW s, s.values = <<>> \/ (s.func = "difference" /\ \E v \in Int : s.values = <<v>>)
    PROVE  Pending(s) = 0
<1>1. CASE s.values = <<>>
  BY <1>1, TotalOfNothing, DifferenceOfNothing DEF Pending
<1>2. CASE s.func = "difference" /\ \E v \in Int : s.values = <<v>>
  BY <1>2, OneValue DEF Pending
<1> QED BY <1>1, <1>2

\* What is booked when an amount is refused or published.
LEMMA BookedMore ==
    ASSUME NEW a \in Accounts, NEW n \in Int
    PROVE  /\ [a EXCEPT !.refused = @ + n] \in Accounts
           /\ [a EXCEPT !.published = @ + n] \in Accounts
           /\ Booked([a EXCEPT !.refused = @ + n]) = Booked(a) + n
           /\ Booked([a EXCEPT !.published = @ + n]) = Booked(a) + n
           /\ [a EXCEPT !.refused = @ + n].grown = a.grown
           /\ [a EXCEPT !.published = @ + n].grown = a.grown
BY DEF Accounts, Booked

LEMMA VisitAggregateMeters ==
    ASSUME Good, Good', NEW id, VisitAggregate(id) PROVE MeterStep
<1> DEFINE s == series[id]
           a == account[id]
           result == Aggregate(s.func, s.values)
           refusing == [a EXCEPT !.refused = @ + result.num]
           publishing == [a EXCEPT !.published = @ + result.num]
<1>1. /\ Visit(id) /\ id \in DOMAIN series /\ DOMAIN account = DOMAIN series
      /\ s \in SValues /\ a \in Accounts
  BY DEF VisitAggregate, Visit, Good, TypeOK
<1>2. ASSUME account' = account PROVE Entered(id, a)
  BY <1>2 DEF Entered
<1>3. s.func = "sum" => result.den = 1 /\ result.num \in Int
  <2>1. s.values \in Seq(Int)
    BY <1>1 DEF SValues
  <2>2. Total(s.values) \in Int
    BY <2>1, TotalAppended
  <2> QED BY <2>2 DEF Aggregate, Ratio
<1>4. s.func = "sum" => /\ refusing \in Accounts /\ publishing \in Accounts
                        /\ Booked(refusing) = Booked(a) + result.num
                        /\ Booked(publishing) = Booked(a) + result.num
                        /\ refusing.grown = a.grown /\ publishing.grown = a.grown
  <2> HIDE DEF a, result
  <2> QED BY <1>1, <1>3, BookedMore DEF a
<1>5. ASSUME s.values = <<>> \/ s.func = "difference" PROVE MeterStep
  <2>1. Skip(id, s.values) /\ Entered(id, a)
    BY <1>2, <1>5 DEF VisitAggregate
  <2> QED BY <1>1, <2>1, SkipMeters
<1>6. ASSUME ~(s.values = <<>> \/ s.func = "difference"), Skip(id, <<>>) \/ Publish(id, <<>>, result)
      PROVE  Pending(series'[id]) = 0 /\ (id \in CountedSeries <=> s.func = "sum")
  <2>1. series'[id].values = <<>>
    <3> HIDE DEF result
    <3> QED BY <1>1, <1>6, Visited
  <2> QED BY <1>1, <1>6, <2>1, NothingPending DEF CountedSeries
<1>7. ASSUME ~(s.values = <<>> \/ s.func = "difference"), Equal(s.last, result) PROVE MeterStep
  <2>1. Skip(id, <<>>)
    BY <1>7 DEF VisitAggregate
  <2>2. Pending(series'[id]) = 0 /\ (id \in CountedSeries <=> s.func = "sum")
    BY <1>6, <1>7, <2>1
  <2>3. CASE s.func = "sum"
    <3>1. account' = [account EXCEPT ![id].refused = @ + result.num]
      BY <1>7, <2>3 DEF VisitAggregate
    <3> HIDE DEF result
    <3>2. Entered(id, refusing)
      BY <1>1, <3>1 DEF Entered
    <3> HIDE DEF refusing
    <3> QED BY <1>1, <1>4, <2>1, <2>2, <2>3, <3>2, SkipMeters
  <2>4. CASE s.func # "sum"
    <3>1. Entered(id, a)
      BY <1>2, <1>7, <2>4 DEF VisitAggregate
    <3> QED BY <1>1, <2>1, <3>1, SkipMeters
  <2> QED BY <2>3, <2>4
<1>8. ASSUME ~(s.values = <<>> \/ s.func = "difference"), ~Equal(s.last, result) PROVE MeterStep
  <2>1. Publish(id, <<>>, result)
    BY <1>8 DEF VisitAggregate
  <2>2. Pending(series'[id]) = 0 /\ (id \in CountedSeries <=> s.func = "sum")
    BY <1>6, <1>8, <2>1
  <2>3. CASE s.func = "sum"
    <3>1. account' = [account EXCEPT ![id].published = @ + result.num]
      BY <1>8, <2>3 DEF VisitAggregate
    <3> HIDE DEF result
    <3>2. Entered(id, publishing)
      BY <1>1, <3>1 DEF Entered
    <3> HIDE DEF publishing
    <3> QED BY <1>1, <1>3, <1>4, <2>1, <2>2, <2>3, <3>2, PublishMeters
  <2>4. CASE s.func # "sum"
    <3>1. Entered(id, a)
      BY <1>2, <1>8, <2>4 DEF VisitAggregate
    <3> HIDE DEF result
    <3> QED BY <1>1, <2>1, <2>2, <2>4, <3>1, PublishMeters
  <2> QED BY <2>3, <2>4
<1> QED BY <1>5, <1>7, <1>8

\* The entry of a series that is sampled, before and after its difference is booked.
LEMMA CountedBooks ==
    ASSUME Good, NEW id \in DOMAIN series, NEW n \in Int, NEW k \in Int
    PROVE  LET c == Counted(id)
               aged == [c EXCEPT !.refused = @ + k, !.taken = NotFloat]
               large == [c EXCEPT !.refused = @ + n]
               sent == [c EXCEPT !.published = @ + n]
           IN  /\ \A e \in {c, aged, large, sent} :
                     e \in Accounts /\ e.grown = account[id].grown
               /\ Booked(c) = Booked(account[id])
               /\ Booked(sent) = Booked(account[id]) + n
<1> DEFINE a == account[id]
           c == Counted(id)
<1>1. a \in Accounts /\ c \in Accounts
  BY CountedTyped DEF Good, TypeOK
<1>2. c.grown = a.grown /\ Booked(c) = Booked(a)
  BY <1>1 DEF Counted, Accounts, Booked
<1>3. NotFloat \in Values
  BY DEF Values
<1> HIDE DEF c, a
<1>4. /\ [c EXCEPT !.refused = @ + n] \in Accounts
      /\ [c EXCEPT !.published = @ + n] \in Accounts
      /\ [c EXCEPT !.refused = @ + n].grown = c.grown
      /\ [c EXCEPT !.published = @ + n].grown = c.grown
      /\ Booked([c EXCEPT !.published = @ + n]) = Booked(c) + n
  BY <1>1, BookedMore
<1>5. /\ [c EXCEPT !.refused = @ + k, !.taken = NotFloat] \in Accounts
      /\ [c EXCEPT !.refused = @ + k, !.taken = NotFloat].grown = c.grown
  <2>1. c.refused + k \in Int
    BY <1>1 DEF Accounts
  <2> QED BY <1>1, <1>3, <2>1 DEF Accounts
<1> QED BY <1>1, <1>2, <1>4, <1>5 DEF a, c

LEMMA VisitDifferenceMeters ==
    ASSUME Good, Good', NEW id, NEW tooOld \in BOOLEAN, VisitDifference(id, tooOld)
    PROVE  MeterStep
<1> DEFINE s == series[id]
           a == account[id]
           f == Filtered(s)
           d == CalculateDifference(s.values)
           n == CalculateDifference(f)
           c == Counted(id)
           aged == [c EXCEPT !.refused = @ + d, !.taken = NotFloat]
           large == [c EXCEPT !.refused = @ + n]
           sent == [c EXCEPT !.published = @ + n]
           result == Ratio(n, 1)
<1>1. /\ Visit(id) /\ id \in DOMAIN series /\ DOMAIN account = DOMAIN series
      /\ s \in SValues /\ a \in Accounts
  BY DEF VisitDifference, Visit, Good, TypeOK
<1>2. CASE s.values = <<>> \/ s.func # "difference"
  <2>1. Skip(id, s.values) /\ Entered(id, a)
    BY <1>2 DEF VisitDifference, Entered
  <2> QED BY <1>1, <2>1, SkipMeters
<1>3. CASE s.values # <<>> /\ s.func = "difference"
  <2>1. /\ d \in Int /\ n \in Int
        /\ f # <<>> => Last(f) \in Int
    BY <1>1, FilteredTyped
  <2>2. /\ \A e \in {c, aged, large, sent} : e \in Accounts /\ e.grown = a.grown
        /\ Booked(c) = Booked(a) /\ Booked(sent) = Booked(a) + n
    <3> HIDE DEF d, n
    <3> QED BY <1>1, <2>1, CountedBooks
  <2>3. result.num = n /\ result.den = 1
    BY DEF Ratio
  <2>4. \/ Skip(id, <<>>) /\ Books(id, aged)
        \/ f = <<>> /\ Skip(id, <<>>) /\ Books(id, c)
        \/ f # <<>> /\ Skip(id, Kept(f)) /\ Books(id, large)
        \/ f # <<>> /\ Skip(id, Kept(f)) /\ Books(id, c)
        \/ f # <<>> /\ Publish(id, Kept(f), result) /\ Books(id, sent)
    BY <1>3, DifferenceAlternatives
  <2>5. id \in CountedSeries
    BY <1>1, <1>3 DEF CountedSeries
  <2> HIDE DEF f, d, n, c, aged, large, sent, result
  <2>6. ASSUME NEW e, Books(id, e) PROVE Entered(id, e)
    BY <1>1, <2>6 DEF Books, Entered
  <2>7. ASSUME NEW values, Skip(id, values) \/ Publish(id, values, result),
               values = <<>> \/ (f # <<>> /\ values = Kept(f))
        PROVE  Pending(series'[id]) = 0
    <3>1. series'[id].func = "difference" /\ series'[id].values = values
      BY <1>1, <1>3, <2>7, Visited
    <3>2. values = <<>> \/ \E v \in Int : values = <<v>>
      BY <2>1, <2>7 DEF Kept
    <3> QED BY <3>1, <3>2, NothingPending
  <2> HIDE DEF s, a
  <2>8. CASE Skip(id, <<>>) /\ Books(id, aged)
    <3>1. Entered(id, aged) /\ Pending(series'[id]) = 0
      BY <2>6, <2>7, <2>8
    <3> QED BY <1>1, <2>2, <2>5, <2>8, <3>1, SkipMeters DEF a
  <2>9. CASE Skip(id, <<>>) /\ Books(id, c)
    <3>1. Entered(id, c) /\ Pending(series'[id]) = 0
      BY <2>6, <2>7, <2>9
    <3> QED BY <1>1, <2>2, <2>5, <2>9, <3>1, SkipMeters DEF a
  <2>10. CASE f # <<>> /\ Skip(id, Kept(f)) /\ Books(id, large)
    <3>1. Entered(id, large) /\ Pending(series'[id]) = 0
      BY <2>6, <2>7, <2>10
    <3> QED BY <1>1, <2>2, <2>5, <2>10, <3>1, SkipMeters DEF a
  <2>11. CASE f # <<>> /\ Skip(id, Kept(f)) /\ Books(id, c)
    <3>1. Entered(id, c) /\ Pending(series'[id]) = 0
      BY <2>6, <2>7, <2>11
    <3> QED BY <1>1, <2>2, <2>5, <2>11, <3>1, SkipMeters DEF a
  <2>12. CASE f # <<>> /\ Publish(id, Kept(f), result) /\ Books(id, sent)
    <3>1. Entered(id, sent) /\ Pending(series'[id]) = 0
      BY <2>6, <2>7, <2>12
    <3>2. Booked(sent) = Booked(a) + result.num
      BY <2>2, <2>3
    <3> QED BY <1>1, <2>2, <2>3, <2>5, <2>12, <3>1, <3>2, PublishMeters DEF a
  <2> QED BY <2>4, <2>8, <2>9, <2>10, <2>11, <2>12
<1> QED BY <1>2, <1>3

LEMMA NextMeters == Good /\ Good' /\ [Next]_vars => MeterStep
<1> SUFFICES ASSUME Good, Good', [Next]_vars PROVE MeterStep
  OBVIOUS
<1>1. CASE UNCHANGED <<series, account, writing, outputChannel, sending>>
  BY <1>1, OthersStutter DEF Aggregated
<1>2. CASE TakeIn
  BY <1>2, TakeInMeters
<1>3. ASSUME NEW id \in left, VisitAggregate(id) PROVE MeterStep
  BY <1>3, VisitAggregateMeters
<1>4. ASSUME NEW id \in left, NEW tooOld \in BOOLEAN, VisitDifference(id, tooOld)
      PROVE  MeterStep
  BY <1>4, VisitDifferenceMeters
<1>5. CASE Send
  BY <1>5, SendStutters
<1>6. CASE Worker
  BY <1>6, WorkerMeters
<1>7. ASSUME NEW m \in Messages, OnMessage(m)
      PROVE  UNCHANGED <<series, account, writing, outputChannel, sending>>
  BY <1>7 DEF OnMessage, pubVars
<1>8. AddDataPoint \/ WriteAtOnce \/ Tick \/ EndRound \/ UNCHANGED vars
        => UNCHANGED <<series, account, writing, outputChannel, sending>>
  BY DEF AddDataPoint, WriteAtOnce, Tick, EndRound, vars, pubVars
<1>9. ASSUME NEW isMultiple \in BOOLEAN, TestMinute(isMultiple)
      PROVE  UNCHANGED <<series, account, writing, outputChannel, sending>>
  BY <1>9 DEF TestMinute
<1> QED BY <1>1, <1>2, <1>3, <1>4, <1>5, <1>6, <1>7, <1>8, <1>9 DEF Next, Router, Publishing

LEMMA InitMeters == Init => Meters!Init
<1> SUFFICES ASSUME Init PROVE Meters!Init
  OBVIOUS
<1>1. DOMAIN series = {} /\ DOMAIN account = {}
  BY DEF Init
<1>2. CountedSeries = {} /\ Growth = [id \in {} |-> 0] /\ SettledGrowth = [id \in {} |-> 0]
  BY <1>1 DEF CountedSeries, Growth, SettledGrowth
<1>3. DOMAIN Aggregated = {} /\ Aggregated = <<>>
  BY DEF Init, Aggregated
<1>4. OnTheWay = <<>>
  BY <1>3 DEF OnTheWay
<1> QED BY <1>2, <1>4 DEF Meters!Init

\* The channels, the rounds of the publisher and the maps it shares without a lock
\* implement Metering (agreggator.go:96 to 240, process.go:160): whatever is published
\* reaches the worker once, in its place and with the value it was published with, and
\* what of it comes from a series that is counted is growth that was never settled before.
THEOREM MeteringIsImplemented == Spec => ImplementsMetering
<1>1. Init => Good
  BY InitTyped, InitFields, InitLedger DEF Good
<1>2. Good /\ [Next]_vars => Good'
  <2>1. Good /\ [Next]_vars => TypeOK'
    BY NextTyped DEF Good
  <2>2. Good /\ [Next]_vars => FieldsInv'
    BY NextKeepsFields DEF Good
  <2>3. Good /\ [Next]_vars => Ledger'
    BY NextKeepsLedger DEF Good
  <2> QED BY <2>1, <2>2, <2>3 DEF Good
<1>3. Good /\ Good' /\ [Next]_vars => [Meters!Next]_(Meters!vars)
  BY NextMeters DEF MeterStep
<1> QED BY <1>1, <1>2, <1>3, InitMeters, PTL DEF Spec, ImplementsMetering, Meters!Spec
=============================================================================

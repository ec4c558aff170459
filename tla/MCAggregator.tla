--------------------------- MODULE MCAggregator ----------------------------
(* Instances of Aggregator for TLC. *)
EXTENDS Aggregator

Exclude(id, type) ==
    [ID |-> id, Topic |-> "", Domain |-> "", MsgType |-> type, Service |-> "",
     Negation |-> TRUE, LinkedFilterID |-> 0, Operation |-> "", IsAtomic |-> TRUE]

\* The filters of testdata/defaults/influxdb.json.
DefaultFilters ==
    <<Exclude(1, "evt.pd7.notify"), Exclude(2, "cmd.pd7.request"),
      Exclude(3, "evt.pd7.response"), [Exclude(4, "") EXCEPT !.Negation = FALSE]>>

Message(topic, device, service, type, value) ==
    [topic |-> topic, domain |-> "-", service |-> service, type |-> type, unit |-> "kWh",
     device |-> device, mainMeter |-> FALSE, readings |-> [value |-> value]]

\* A meter that is a main meter, or was not known as one yet.
KWh(main, value) ==
    [Message("t1", "d1", "meter_elec", "evt.meter.report", value) EXCEPT !.mainMeter = main]

\* A counter that grows, leaps and starts again, and a charging session.
MeterMessages ==
    {KWh(TRUE, value) : value \in 1 .. 3}
    \cup {KWh(FALSE, 2), Message("t1", "d1", "chargepoint", "evt.current_session.report", 1)}

TwoMessages == {KWh(TRUE, 1), KWh(FALSE, 2)}

\* The samples of agreggator_test.go.
ASSUME CalculateDifference(<<10, 12, 14, 16, 40>>) = 30
ASSUME CalculateDifference(<<10, 12, 10, 20, 30>>) = 22
ASSUME ExtremeOutliers(<<100, 120, 130, 400, 140, 150>>) = {400}

\* Leaving out zeros and outliers never makes a difference larger.
ASSUME \A n \in 1 .. 7 : \A values \in [1 .. n -> {0, 1, 9}] :
          CalculateDifference(FilterSeries(values)) <= CalculateDifference(values)
=============================================================================

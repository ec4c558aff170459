----------------------------- MODULE Transform -----------------------------
(***************************************************************************)
(* What a tsdb.Process makes of one message: whether its filters let it    *)
(* through (Process.filter), which data points it becomes                  *)
(* (transform.go), and which of them go to the aggregator.                 *)
(*                                                                         *)
(* A message is a record [topic, domain, service, type, unit, device,      *)
(* mainMeter, readings].  device is the device identifier of its metadata, *)
(* or NoDevice; readings maps the keys of the payload to numbers, "value"  *)
(* being the key of a payload that is no map.  A number is an integer; the *)
(* payloads that are no float have the value NotFloat.  Only what names a  *)
(* series, chooses its table and its aggregation is kept of a point.       *)
(* Messages that cannot be parsed are left out, but for meters.            *)
(***************************************************************************)
EXTENDS Integers, SequencesExt

CONSTANTS
    Filters,         \* ProcessConfig.Filters, "" and 0 for what is not set
    Profile,         \* ProcessConfig.Profile
    SensorServices,  \* the services whose name contains "sensor_"
    LowRateServices, \* those that contain sensor_presence or sensor_contact
    MaxAllowedPower, \* 30000 in the code
    NoDevice,        \* there are no metadata
    NotFloat         \* a value that is no float64

FilterIds == {0} \cup {Filters[i].ID : i \in DOMAIN Filters}
                 \cup {Filters[i].LinkedFilterID : i \in DOMAIN Filters}

ASSUME TransformAssumption ==
    /\ LowRateServices \subseteq SensorServices
    /\ MaxAllowedPower \in Nat
    /\ NotFloat \notin Int
    /\ Filters \in Seq([ID : Nat, Topic : STRING, Domain : STRING, MsgType : STRING,
                       Service : STRING, Negation : BOOLEAN, LinkedFilterID : Nat,
                       Operation : STRING, IsAtomic : BOOLEAN])

-----------------------------------------------------------------------------
(* Filters *)

Matches(f, m) ==
    /\ f.Topic \in {"", m.topic}
    /\ f.Domain \in {"", m.domain}
    /\ f.MsgType \in {"", m.type}
    /\ f.Service \in {"", m.service}

\* The filters that may decide, for an identifier or, first of all, for 0.
Deciding(id) == {i \in DOMAIN Filters : Filters[i].ID = id \/ (id = 0 /\ Filters[i].IsAtomic)}

\* The first of them decides, together with the one it is linked to.
Passes(m, id, linked) ==
    /\ Deciding(id) # {}
    /\ LET f == Filters[Min(Deciding(id))]
           own == Matches(f, m) # f.Negation
           next == f.LinkedFilterID \in linked
       IN  CASE f.LinkedFilterID # 0 /\ f.Operation = "or"  -> own \/ next
             [] f.LinkedFilterID # 0 /\ f.Operation = "and" -> own /\ next
             [] OTHER -> own

\* Process.filter, with the identifiers that let the message through in chains of some
\* length.  A chain that leads back to itself overflows the stack; it is cut off here, and
\* no configuration has one.
Filter(m) ==
    LET through[length \in 0 .. Len(Filters)] ==
          IF length = 0 THEN {}
          ELSE {id \in FilterIds : Passes(m, id, through[length - 1])}
    IN  m.service # "ecollector" /\ 0 \in through[Len(Filters)]

-----------------------------------------------------------------------------
(* Measurements and points *)

\* A measurement is named by a tuple: <<service, type>> unless the transform renames it.
Power   == <<"electricity_meter_power">>
Energy  == <<"electricity_meter_energy">>
Sampled == <<"electricity_meter_energy_sampled">>
Prices  == <<"electricity_price_info">>
Extended == <<"electricity_meter_ext">>

IsHighFrequencyData(measurement) ==
    \/ measurement \in {Power, Energy, Extended, Sampled}
    \/ measurement[1] \in SensorServices \ LowRateServices

\* The retention policy a measurement is written to.
ResolveWriteRetentionPolicyName(measurement) ==
    CASE measurement = Sampled /\ Profile = "optimized" -> "gen_year"
      [] ~(measurement = Sampled /\ Profile = "optimized")
         /\ IsHighFrequencyData(measurement) -> "gen_raw"
      [] OTHER -> "gen_default"

Point(measurement, series, func, value) ==
    [measurement |-> measurement, series |-> series, func |-> func, value |-> value]

\* The tag dev_id is always there, empty without metadata, so that the topic is never
\* taken for a series.
DeviceTag(m) == IF m.device = NoDevice THEN <<"">> ELSE <<m.device>>

Import(measurement, m) == measurement \o DeviceTag(m) \o <<"import">>
Export(measurement, m) == measurement \o DeviceTag(m) \o <<"export">>

\* The point that ends the transform of most messages.
Plain(measurement, series, value) ==
    <<Point(measurement, measurement \o series, "mean", value)>>

IsMeter(m) == m.service \in {"meter_elec", "sensor_power", "chargepoint"}

\* evt.meter.report and evt.sensor.report: a power, or an energy that is also sampled.
MeterReport(m) ==
    LET value == m.readings["value"]
        watts == IF m.unit = "kW" /\ value # NotFloat THEN 1000 * value ELSE value
    IN  CASE value = NotFloat -> <<>>
          [] value # NotFloat /\ m.unit \in {"W", "kW"} ->
               IF watts > MaxAllowedPower THEN <<>>
               ELSE Plain(Power, Import(Power, m), watts)
          [] value # NotFloat /\ m.unit = "kWh" ->
               <<Point(Sampled, Import(Energy, m), "difference", value)>>
               \o Plain(Energy, Import(Energy, m), value)
          [] OTHER -> <<>>

\* evt.current_session.report: the energy of a charging session.
SessionReport(m) ==
    LET value == m.readings["value"]
    IN  IF value = NotFloat THEN <<>>
        ELSE <<Point(Sampled, Import(Sampled, m), "sum", value)>>
             \o Plain(<<m.service, m.type>>, Import(Sampled, m), value)

\* evt.meter_ext.report: whatever of the four readings is there, and nothing at all when
\* a power is too big.
ExtendedReport(m) ==
    LET r == m.readings
        energy(key, series(_, _)) ==
          IF key \notin DOMAIN r THEN <<>>
          ELSE <<Point(Energy, series(Energy, m), "last", r[key]),
                 Point(Sampled, series(Sampled, m), "difference", r[key])>>
        power(key, series(_, _)) ==
          IF key \notin DOMAIN r THEN <<>>
          ELSE <<Point(Power, series(Power, m), "mean", r[key])>>
    IN  IF \E key \in {"p_import", "p_export"} \cap DOMAIN r : r[key] > MaxAllowedPower
        THEN <<>>
        ELSE energy("e_import", Import) \o energy("e_export", Export)
             \o power("p_import", Import) \o power("p_export", Export)

\* evt.price_forecast.report: one point an hour, named after the hour here.
PriceForecast(m) ==
    [hour \in 1 .. m.readings["hours"] |->
        Point(Prices, Import(Prices, m), "mean", NotFloat)]

DefaultTransform(m) ==
    CASE IsMeter(m) /\ m.type \in {"evt.meter.report", "evt.sensor.report"} -> MeterReport(m)
      [] IsMeter(m) /\ m.type = "evt.current_session.report" -> SessionReport(m)
      [] IsMeter(m) /\ m.type = "evt.meter_ext.report" -> ExtendedReport(m)
      [] m.service = "price_info_elec" ->
           IF m.type = "evt.price_forecast.report" THEN PriceForecast(m) ELSE <<>>
      [] OTHER -> Plain(<<m.service, m.type>>, DeviceTag(m), m.readings["value"])

\* OnMessage: high frequency data are aggregated, unless the profile is raw.
IsAggregated(p) == IsHighFrequencyData(p.measurement) /\ Profile # "raw"
=============================================================================

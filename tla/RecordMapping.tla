--------------------------- MODULE RecordMapping ---------------------------
(***************************************************************************)
(* From a reading to a row (internal/timescale and its queries, and        *)
(* insertVictron in cmd/litime-timescaledb-inserter/victron.go).  Three    *)
(* lists have to agree by position: the columns of the statement, the      *)
(* arguments of Exec, and the fields of the measurement.                   *)
(*                                                                         *)
(* A field of a Go struct has the name of its column here, as the names in *)
(* the code do but for their case.  A value of a text or number type is    *)
(* only told from others, from zero and from one that is not there, except *)
(* where it is converted.                                                  *)
(***************************************************************************)
EXTENDS Integers, Sequences, FiniteSets

CONSTANTS
  Null,             \* a nil pointer, and NULL
  Number,           \* the values a cell voltage can have
  LitimeData,       \* what a battery can report
  SolarChargers,    \* what a solar charger can advertise
  BatteryMonitors,  \* what a battery monitor can advertise
  ModelIds,         \* uint16
  RecordTypes       \* uint8

VARIABLES
  reading,  \* what a writer has received
  row       \* the row it inserts, by column; Null before

vars == <<reading, row>>

UInt8  == 0 .. 2^8 - 1
UInt16 == 0 .. 2^16 - 1

Columns(list) == {list[i] : i \in DOMAIN list}

\* Exec: $1 is the first column's value, and so on.
Row(columns, arguments) ==
  [c \in Columns(columns) |->
     arguments[CHOOSE i \in DOMAIN columns : columns[i] = c]]

Fields(record, names) == [i \in DOMAIN names |-> record[names[i]]]

\* The fields of both, those of the first where they share one.
Joined(first, second) ==
  [f \in DOMAIN first \cup DOMAIN second |->
     IF f \in DOMAIN first THEN first[f] ELSE second[f]]

\* Go's int16 of a wider unsigned number.
Int16(n) == ((n + 2^15) % 2^16) - 2^15

\* Faulty variant: the narrower of the two integer types of the columns.
Narrow(n) == Int16(n)

\* Go's int32 of a number; none here is as large as 2^31: a model ID is a uint16,
\* and a time.Duration is less than 2^28 minutes.
Int32(n) == n

(***************************************************************************)
(* The batteries: Insert.                                                  *)
(***************************************************************************)

InsertLitimeColumns ==
  <<"time", "battery_id", "total_voltage", "cell_voltage_sum", "current",
    "mosfet_temp", "cell_temp", "remaining_ah", "full_capacity_ah",
    "protection_state", "heat_state", "balance_memory", "failure_state",
    "balancing_state", "battery_state", "soc", "soh", "discharges_count",
    "discharges_ah_count", "cell_voltages">>

\* cell_0 is the first cell's.
MapCellVoltages(cells) == [i \in 0 .. Len(cells) - 1 |-> cells[i + 1]]

LitimeArguments(measure) ==
  Fields(Joined([cell_voltages |-> MapCellVoltages(measure.cell_voltages)],
                measure),
    <<"observed_at", "device_id", "total_voltage", "cell_voltage_sum",
      "current", "mosfet_temp", "cell_temp", "remaining_ah",
      "full_capacity_ah", "protection_state", "heat_state", "balance_memory",
      "failure_state", "balancing_state", "battery_state", "soc", "soh",
      "discharges_count", "discharges_ah_count", "cell_voltages">>)

\* insert in main.
Insert ==
  /\ row = Null
  /\ reading.data # Null
  /\ row' = Row(InsertLitimeColumns,
                LitimeArguments(Joined(reading, reading.data)))
  /\ UNCHANGED reading

(***************************************************************************)
(* Victron solar chargers.                                                 *)
(***************************************************************************)

InsertVictronColumns ==
  <<"time", "device_id", "model_id", "model_name", "record_type",
    "charge_state", "charger_error", "battery_voltage",
    "battery_charging_current", "yield_today", "solar_power",
    "external_device_load">>

\* insertSolarCharger: the reading's own fields and the charger's; an enum that
\* is not available stays so.
SolarMeasurement == Joined(reading, reading.solar_charger)

\* What Exec is given of a measurement of either kind: two of the numbers that
\* every record begins with are converted.
Converted(measure) ==
  Joined([model_id |-> Int32(measure.model_id),
          record_type |-> Int16(measure.record_type)],
         measure)

\* Faulty variant: two arguments of one type in each other's place.
SwappedSolarArguments(measure) ==
  Fields(Converted(measure),
    <<"observed_at", "device_id", "model_id", "model_name", "record_type",
      "charge_state", "charger_error", "battery_charging_current",
      "battery_voltage", "yield_today", "solar_power",
      "external_device_load">>)

SolarArguments(measure) ==
  Fields(Converted(measure),
    <<"observed_at", "device_id", "model_id", "model_name", "record_type",
      "charge_state", "charger_error", "battery_voltage",
      "battery_charging_current", "yield_today", "solar_power",
      "external_device_load">>)

InsertSolarCharger ==
  /\ row = Null
  /\ reading.solar_charger # Null
  /\ row' = Row(InsertVictronColumns, SolarArguments(SolarMeasurement))
  /\ UNCHANGED reading

(***************************************************************************)
(* Victron battery monitors.                                               *)
(***************************************************************************)

InsertMonitorColumns ==
  <<"time", "device_id", "model_id", "model_name", "record_type",
    "battery_voltage", "battery_current", "state_of_charge", "consumed_ah",
    "time_to_go_minutes", "alarm_reason", "aux_input_type", "aux_value">>

\* Faulty variant: a time to go that is not available becomes zero.
ZeroMinutes(seconds) == IF seconds = Null THEN 0 ELSE seconds \div 60

Minutes(seconds) == IF seconds = Null THEN Null ELSE Int32(seconds \div 60)

\* AlarmReason.Active: nothing is stored while nothing is wrong.
AlarmText(alarm) == IF alarm = "none" THEN Null ELSE alarm

\* The first of the three typed readings that the device filled in.
AuxValue(monitor) ==
  CASE monitor.starter_voltage # Null -> monitor.starter_voltage
    [] monitor.midpoint_voltage # Null -> monitor.midpoint_voltage
    [] OTHER -> monitor.temperature

\* insertBatteryMonitor: three fields are converted, the others copied.
MonitorMeasurement ==
  LET monitor == reading.battery_monitor
  IN  Joined([time_to_go_minutes |-> Minutes(monitor.time_to_go),
              alarm_reason |-> AlarmText(monitor.alarm_reason),
              aux_value |-> AuxValue(monitor)],
             Joined(reading, monitor))

MonitorArguments(measure) ==
  Fields(Converted(measure),
    <<"observed_at", "device_id", "model_id", "model_name", "record_type",
      "battery_voltage", "battery_current", "state_of_charge", "consumed_ah",
      "time_to_go_minutes", "alarm_reason", "aux_input_type", "aux_value">>)

\* insertVictron looks at the payloads in this order.
InsertBatteryMonitor ==
  /\ row = Null
  /\ reading.solar_charger = Null
  /\ reading.battery_monitor # Null
  /\ row' = Row(InsertMonitorColumns, MonitorArguments(MonitorMeasurement))
  /\ UNCHANGED reading

(***************************************************************************)
(* The readings.                                                           *)
(***************************************************************************)

LitimeFields == Columns(InsertLitimeColumns) \ {"time", "battery_id"}

ChargerFields ==
  {"charge_state", "charger_error", "battery_voltage",
   "battery_charging_current", "yield_today", "solar_power",
   "external_device_load"}

MonitorFields ==
  {"battery_voltage", "battery_current", "state_of_charge", "consumed_ah",
   "time_to_go", "alarm_reason", "aux_input_type", "starter_voltage",
   "midpoint_voltage", "temperature"}

ASSUME NullAssumption ==
  Null \notin Int \cup LitimeData \cup SolarChargers \cup BatteryMonitors

ASSUME DataAssumption ==
  \A data \in LitimeData :
    DOMAIN data = LitimeFields /\ data.cell_voltages \in Seq(Number)

ASSUME ChargerAssumption ==
  \A charger \in SolarChargers : DOMAIN charger = ChargerFields

\* A device reports whole minutes, always an alarm reason, "none" included, and
\* of the aux readings at most the one of its aux input's type.
ASSUME MonitorAssumption ==
  \A monitor \in BatteryMonitors :
    /\ DOMAIN monitor = MonitorFields
    /\ monitor.time_to_go # Null =>
         /\ monitor.time_to_go \in Nat
         /\ monitor.time_to_go % 60 = 0
         /\ monitor.time_to_go \div 60 < 2^28
    /\ monitor.alarm_reason # Null
    /\ monitor.starter_voltage # Null =>
         monitor.aux_input_type = "starter voltage"
    /\ monitor.midpoint_voltage # Null =>
         monitor.aux_input_type = "midpoint voltage"
    /\ monitor.temperature # Null => monitor.aux_input_type = "temperature"

ASSUME WidthAssumption ==
  ModelIds \subseteq UInt16 /\ RecordTypes \subseteq UInt8

Received(id, type, data, charger, monitor) ==
  [observed_at |-> "now", device_id |-> "device", model_id |-> id,
   model_name |-> "model", record_type |-> type, data |-> data,
   solar_charger |-> charger, battery_monitor |-> monitor]

Init ==
  /\ row = Null
  /\ \/ \E data \in LitimeData : reading = Received(0, 0, data, Null, Null)
     \/ \E id \in ModelIds, type \in RecordTypes, charger \in SolarChargers :
          reading = Received(id, type, Null, charger, Null)
     \/ \E id \in ModelIds, type \in RecordTypes, monitor \in BatteryMonitors :
          reading = Received(id, type, Null, Null, monitor)

Next == Insert \/ InsertSolarCharger \/ InsertBatteryMonitor

SafeSpec == Init /\ [][Next]_vars
-----------------------------------------------------------------------------
(***************************************************************************)
(* Properties.                                                             *)
(***************************************************************************)

\* The model ID and the record type of a Victron row are in the range of the
\* unsigned types they come from: no conversion to a signed column wraps.
TypeOK ==
  row # Null /\ reading.data = Null =>
    /\ row["model_id"] \in UInt16
    /\ row["record_type"] \in UInt8

\* Each column holds the field it is named after: the statements, the
\* arguments and the structs list some forty values in the same order, most of
\* them of one type, so that neither the compiler nor the database would notice
\* two that changed places.
EveryColumnItsField ==
  row # Null =>
    LET payload == CASE reading.data # Null -> reading.data
                     [] reading.solar_charger # Null -> reading.solar_charger
                     [] OTHER -> reading.battery_monitor
        converted == {"alarm_reason", "cell_voltages"}
    IN  /\ row["time"] = reading.observed_at
        /\ \A f \in (DOMAIN payload \cap DOMAIN row) \ converted :
             row[f] = payload[f]
        /\ "battery_id" \in DOMAIN row => row["battery_id"] = reading.device_id
        /\ \A f \in DOMAIN reading \cap DOMAIN row : row[f] = reading[f]

\* What somebody who has only the row can tell of the reading's converted
\* fields.
ReadBack ==
  IF "cell_voltages" \in DOMAIN row
  THEN [cell_voltages |->
          [i \in 1 .. Cardinality(DOMAIN row["cell_voltages"]) |->
             row["cell_voltages"][i - 1]]]
  ELSE LET Aux(type) ==
             IF row["aux_input_type"] = type THEN row["aux_value"] ELSE Null
       IN  [time_to_go |-> IF row["time_to_go_minutes"] = Null THEN Null
                           ELSE row["time_to_go_minutes"] * 60,
            alarm_reason |-> IF row["alarm_reason"] = Null THEN "none"
                             ELSE row["alarm_reason"],
            starter_voltage |-> Aux("starter voltage"),
            midpoint_voltage |-> Aux("midpoint voltage"),
            temperature |-> Aux("temperature")]

\* The conversions lose nothing: the reading can be read back from its row.  An
\* unknown time to go is not an empty battery, volts are not degrees although
\* three aux readings share a column, no alarm is not some alarm, and each cell
\* keeps its place.
RowsLoseNothing ==
  row # Null =>
    /\ reading.data # Null =>
         ReadBack["cell_voltages"] = reading.data["cell_voltages"]
    /\ reading.battery_monitor # Null =>
         \A f \in DOMAIN ReadBack : ReadBack[f] = reading.battery_monitor[f]
=============================================================================

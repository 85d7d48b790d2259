------------------------ MODULE RecordMappingProofs ------------------------
(***************************************************************************)
(* Proofs about RecordMapping for any readings of the shape the libraries  *)
(* give them: any values, any number of cells, any model.                  *)
(***************************************************************************)
EXTENDS RecordMapping, FiniteSetTheorems, SequenceTheorems, TLAPS

-----------------------------------------------------------------------------
(***************************************************************************)
(* The operators.                                                          *)
(***************************************************************************)

\* With no column named twice, each column has the argument at its position,
\* and that is the field named at this position.
LEMMA RowByPosition ==
  ASSUME NEW columns, NEW names, DOMAIN names = DOMAIN columns,
         \A i, j \in DOMAIN columns : columns[i] = columns[j] => i = j,
         NEW measure
  PROVE  \A i \in DOMAIN columns :
           Row(columns, Fields(measure, names))[columns[i]] = measure[names[i]]
  <1> SUFFICES ASSUME NEW i \in DOMAIN columns
               PROVE  Row(columns, Fields(measure, names))[columns[i]]
                        = measure[names[i]]
    OBVIOUS
  <1>1. columns[i] \in Columns(columns)
    BY DEF Columns
  <1>2. (CHOOSE j \in DOMAIN columns : columns[j] = columns[i]) = i
    OBVIOUS
  <1>3. Row(columns, Fields(measure, names))[columns[i]]
          = Fields(measure, names)[i]
    BY <1>1, <1>2 DEF Row
  <1> QED
    BY <1>3 DEF Fields

\* What Joined gives for a field of the first, and for one of only the second.
LEMMA JoinedField ==
  ASSUME NEW first, NEW second
  PROVE  /\ DOMAIN Joined(first, second) = DOMAIN first \cup DOMAIN second
         /\ \A f \in DOMAIN first : Joined(first, second)[f] = first[f]
         /\ \A f \in DOMAIN second \ DOMAIN first :
              Joined(first, second)[f] = second[f]
  BY DEF Joined

\* A uint8 survives the conversion to int16.
LEMMA Int16OfByte ==
  ASSUME NEW n \in UInt8
  PROVE  Int16(n) = n
  BY DEF Int16, UInt8

\* Whole minutes survive the conversion to minutes.
LEMMA MinutesAndBack ==
  ASSUME NEW seconds \in Nat, seconds % 60 = 0
  PROVE  /\ Minutes(seconds) \in Int
         /\ Minutes(seconds) * 60 = seconds
  <1>1. seconds # Null
    BY NullAssumption
  <1>2. Minutes(seconds) = seconds \div 60
    BY <1>1 DEF Minutes, Int32
  <1> QED
    BY <1>2

LEMMA ConvertedFields ==
  ASSUME NEW measure, {"model_id", "record_type"} \subseteq DOMAIN measure
  PROVE  /\ Converted(measure)["model_id"] = Int32(measure.model_id)
         /\ Converted(measure)["record_type"] = Int16(measure.record_type)
         /\ \A f \in DOMAIN measure \ {"model_id", "record_type"} :
              Converted(measure)[f] = measure[f]
  <1> DEFINE numbers == [model_id |-> Int32(measure.model_id),
                         record_type |-> Int16(measure.record_type)]
  <1>1. /\ DOMAIN numbers = {"model_id", "record_type"}
        /\ numbers["model_id"] = Int32(measure.model_id)
        /\ numbers["record_type"] = Int16(measure.record_type)
    OBVIOUS
  <1>2. Converted(measure) = Joined(numbers, measure)
    BY DEF Converted
  <1> HIDE DEF numbers
  <1>3. /\ \A f \in DOMAIN numbers : Joined(numbers, measure)[f] = numbers[f]
        /\ \A f \in DOMAIN measure \ DOMAIN numbers :
             Joined(numbers, measure)[f] = measure[f]
    BY JoinedField
  <1> QED
    BY <1>1, <1>2, <1>3

-----------------------------------------------------------------------------
(***************************************************************************)
(* The three statements.                                                   *)
(***************************************************************************)

\* The battery statement: each column its field, the cells as a map.
LEMMA LitimeRow ==
  ASSUME NEW measure,
         {"observed_at", "device_id"} \cup LitimeFields \subseteq DOMAIN measure
  PROVE  LET r == Row(InsertLitimeColumns, LitimeArguments(measure))
         IN  /\ DOMAIN r = {"time", "battery_id"} \cup LitimeFields
             /\ r["time"] = measure.observed_at
             /\ r["battery_id"] = measure.device_id
             /\ r["cell_voltages"] = MapCellVoltages(measure.cell_voltages)
             /\ \A f \in LitimeFields \ {"cell_voltages"} : r[f] = measure[f]
  <1> DEFINE names ==
        <<"observed_at", "device_id", "total_voltage", "cell_voltage_sum",
          "current", "mosfet_temp", "cell_temp", "remaining_ah",
          "full_capacity_ah", "protection_state", "heat_state",
          "balance_memory", "failure_state", "balancing_state",
          "battery_state", "soc", "soh", "discharges_count",
          "discharges_ah_count", "cell_voltages">>
             cells == [cell_voltages |-> MapCellVoltages(measure.cell_voltages)]
             given == Joined(cells, measure)
             r == Row(InsertLitimeColumns, LitimeArguments(measure))
  <1>1. /\ DOMAIN InsertLitimeColumns = 1 .. 20
        /\ DOMAIN names = 1 .. 20
        /\ \A i, j \in 1 .. 20 :
             InsertLitimeColumns[i] = InsertLitimeColumns[j] => i = j
    BY DEF InsertLitimeColumns
  <1>2. \A i \in 1 .. 20 : r[InsertLitimeColumns[i]] = given[names[i]]
    <2>1. LitimeArguments(measure) = Fields(given, names)
      BY DEF LitimeArguments
    <2> HIDE DEF names, given
    <2>2. \A i \in DOMAIN InsertLitimeColumns :
            Row(InsertLitimeColumns, Fields(given, names))[InsertLitimeColumns[i]]
              = given[names[i]]
      BY <1>1, RowByPosition
    <2> QED
      BY <1>1, <2>1, <2>2
  <1>3. /\ InsertLitimeColumns[1] = "time" /\ names[1] = "observed_at"
        /\ InsertLitimeColumns[2] = "battery_id" /\ names[2] = "device_id"
        /\ \A i \in 3 .. 20 : names[i] = InsertLitimeColumns[i]
    BY DEF InsertLitimeColumns
  <1>4. \A f \in LitimeFields : \E i \in 3 .. 20 : InsertLitimeColumns[i] = f
    BY <1>1, <1>3 DEF LitimeFields, Columns
  <1>5. /\ "cell_voltages" \in LitimeFields
        /\ "observed_at" \notin {"cell_voltages"}
        /\ "device_id" \notin {"cell_voltages"}
        /\ DOMAIN r = {"time", "battery_id"} \cup LitimeFields
    <2>1. InsertLitimeColumns[20] = "cell_voltages"
      BY DEF InsertLitimeColumns
    <2>2. "cell_voltages" \in LitimeFields
      BY <1>1, <2>1 DEF LitimeFields, Columns
    <2>3. {"time", "battery_id"} \subseteq Columns(InsertLitimeColumns)
      BY <1>1, <1>3 DEF Columns
    <2> QED
      BY <2>2, <2>3 DEF Row, LitimeFields
  <1>6. /\ given["cell_voltages"] = MapCellVoltages(measure.cell_voltages)
        /\ \A f \in DOMAIN measure \ {"cell_voltages"} : given[f] = measure[f]
    <2>1. /\ DOMAIN cells = {"cell_voltages"}
          /\ cells["cell_voltages"] = MapCellVoltages(measure.cell_voltages)
      OBVIOUS
    <2> HIDE DEF cells
    <2>2. /\ \A f \in DOMAIN cells : Joined(cells, measure)[f] = cells[f]
          /\ \A f \in DOMAIN measure \ DOMAIN cells :
               Joined(cells, measure)[f] = measure[f]
      BY JoinedField, Zenon
    <2> QED
      BY <2>1, <2>2
  <1> HIDE DEF names, given, r
  <1>7. r["time"] = measure.observed_at /\ r["battery_id"] = measure.device_id
    BY <1>2, <1>3, <1>5, <1>6
  <1>8. \A f \in LitimeFields : r[f] = given[f]
    BY <1>2, <1>3, <1>4
  <1>9. /\ r["cell_voltages"] = MapCellVoltages(measure.cell_voltages)
        /\ \A f \in LitimeFields \ {"cell_voltages"} : r[f] = measure[f]
    BY <1>5, <1>6, <1>8
  <1> QED
    BY <1>5, <1>7, <1>9 DEF r

\* The fields that a Victron row has as they come.
HeaderFields == {"observed_at", "device_id", "model_id", "model_name", "record_type"}

\* The solar charger statement.
LEMMA SolarRow ==
  ASSUME NEW measure, HeaderFields \cup ChargerFields \subseteq DOMAIN measure
  PROVE  LET r == Row(InsertVictronColumns, SolarArguments(measure))
         IN  /\ DOMAIN r = ({"time"} \cup HeaderFields \cup ChargerFields)
                            \ {"observed_at"}
             /\ r["time"] = measure.observed_at
             /\ r["model_id"] = Int32(measure.model_id)
             /\ r["record_type"] = Int16(measure.record_type)
             /\ \A f \in {"device_id", "model_name"} \cup ChargerFields :
                  r[f] = measure[f]
  <1> DEFINE names ==
        <<"observed_at", "device_id", "model_id", "model_name", "record_type",
          "charge_state", "charger_error", "battery_voltage",
          "battery_charging_current", "yield_today", "solar_power",
          "external_device_load">>
             given == Converted(measure)
             r == Row(InsertVictronColumns, SolarArguments(measure))
  <1>1. /\ DOMAIN InsertVictronColumns = 1 .. 12
        /\ DOMAIN names = 1 .. 12
        /\ \A i, j \in 1 .. 12 :
             InsertVictronColumns[i] = InsertVictronColumns[j] => i = j
    BY DEF InsertVictronColumns
  <1>2. \A i \in 1 .. 12 : r[InsertVictronColumns[i]] = given[names[i]]
    <2>1. SolarArguments(measure) = Fields(given, names)
      BY DEF SolarArguments
    <2> HIDE DEF names, given
    <2>2. \A i \in DOMAIN InsertVictronColumns :
            Row(InsertVictronColumns, Fields(given, names))[InsertVictronColumns[i]]
              = given[names[i]]
      BY <1>1, RowByPosition
    <2> QED
      BY <1>1, <2>1, <2>2
  <1>3. /\ InsertVictronColumns[1] = "time" /\ names[1] = "observed_at"
        /\ \A i \in 2 .. 12 : names[i] = InsertVictronColumns[i]
    BY DEF InsertVictronColumns
  <1>4. Columns(InsertVictronColumns)
          = {"time", "device_id", "model_id", "model_name", "record_type"}
              \cup ChargerFields
    BY <1>1 DEF Columns, InsertVictronColumns, ChargerFields
  <1>5. /\ given["model_id"] = Int32(measure.model_id)
        /\ given["record_type"] = Int16(measure.record_type)
        /\ \A f \in {"observed_at", "device_id", "model_name"} \cup ChargerFields :
             given[f] = measure[f]
    BY ConvertedFields DEF HeaderFields, ChargerFields
  <1> HIDE DEF names, given
  <1>6. /\ r["time"] = given["observed_at"]
        /\ \A f \in Columns(InsertVictronColumns) \ {"time"} : r[f] = given[f]
    <2> HIDE DEF r
    <2> QED
      BY <1>1, <1>2, <1>3 DEF Columns
  <1>7. DOMAIN r = Columns(InsertVictronColumns)
    BY DEF Row
  <1> HIDE DEF r
  <1>8. "time" \notin {"device_id", "model_id", "model_name", "record_type"}
                       \cup ChargerFields
    BY DEF ChargerFields
  <1>9. DOMAIN r = ({"time"} \cup HeaderFields \cup ChargerFields) \ {"observed_at"}
    BY <1>4, <1>7 DEF HeaderFields, ChargerFields
  <1> QED
    BY <1>4, <1>5, <1>6, <1>8, <1>9 DEF r

\* What the monitor statement takes of a measurement besides its header.
MonitorColumns ==
  {"battery_voltage", "battery_current", "state_of_charge", "consumed_ah",
   "time_to_go_minutes", "alarm_reason", "aux_input_type", "aux_value"}

\* The battery monitor statement.
LEMMA MonitorRow ==
  ASSUME NEW measure, HeaderFields \cup MonitorColumns \subseteq DOMAIN measure
  PROVE  LET r == Row(InsertMonitorColumns, MonitorArguments(measure))
         IN  /\ DOMAIN r = ({"time"} \cup HeaderFields \cup MonitorColumns)
                            \ {"observed_at"}
             /\ r["time"] = measure.observed_at
             /\ r["model_id"] = Int32(measure.model_id)
             /\ r["record_type"] = Int16(measure.record_type)
             /\ \A f \in {"device_id", "model_name"} \cup MonitorColumns :
                  r[f] = measure[f]
  <1> DEFINE names ==
        <<"observed_at", "device_id", "model_id", "model_name", "record_type",
          "battery_voltage", "battery_current", "state_of_charge",
          "consumed_ah", "time_to_go_minutes", "alarm_reason",
          "aux_input_type", "aux_value">>
             given == Converted(measure)
             r == Row(InsertMonitorColumns, MonitorArguments(measure))
  <1>1. /\ DOMAIN InsertMonitorColumns = 1 .. 13
        /\ DOMAIN names = 1 .. 13
        /\ \A i, j \in 1 .. 13 :
             InsertMonitorColumns[i] = InsertMonitorColumns[j] => i = j
    BY DEF InsertMonitorColumns
  <1>2. \A i \in 1 .. 13 : r[InsertMonitorColumns[i]] = given[names[i]]
    <2>1. MonitorArguments(measure) = Fields(given, names)
      BY DEF MonitorArguments
    <2> HIDE DEF names, given
    <2>2. \A i \in DOMAIN InsertMonitorColumns :
            Row(InsertMonitorColumns, Fields(given, names))[InsertMonitorColumns[i]]
              = given[names[i]]
      BY <1>1, RowByPosition
    <2> QED
      BY <1>1, <2>1, <2>2
  <1>3. /\ InsertMonitorColumns[1] = "time" /\ names[1] = "observed_at"
        /\ \A i \in 2 .. 13 : names[i] = InsertMonitorColumns[i]
    BY DEF InsertMonitorColumns
  <1>4. Columns(InsertMonitorColumns)
          = {"time", "device_id", "model_id", "model_name", "record_type"}
              \cup MonitorColumns
    BY <1>1 DEF Columns, InsertMonitorColumns, MonitorColumns
  <1>5. /\ given["model_id"] = Int32(measure.model_id)
        /\ given["record_type"] = Int16(measure.record_type)
        /\ \A f \in {"observed_at", "device_id", "model_name"} \cup MonitorColumns :
             given[f] = measure[f]
    BY ConvertedFields DEF HeaderFields, MonitorColumns
  <1> HIDE DEF names, given
  <1>6. /\ r["time"] = given["observed_at"]
        /\ \A f \in Columns(InsertMonitorColumns) \ {"time"} : r[f] = given[f]
    <2> HIDE DEF r
    <2> QED
      BY <1>1, <1>2, <1>3 DEF Columns
  <1>7. DOMAIN r = Columns(InsertMonitorColumns)
    BY DEF Row
  <1> HIDE DEF r
  <1>8. "time" \notin {"device_id", "model_id", "model_name", "record_type"}
                       \cup MonitorColumns
    BY DEF MonitorColumns
  <1>9. DOMAIN r = ({"time"} \cup HeaderFields \cup MonitorColumns) \ {"observed_at"}
    BY <1>4, <1>7 DEF HeaderFields, MonitorColumns
  <1> QED
    BY <1>4, <1>5, <1>6, <1>8, <1>9 DEF r

-----------------------------------------------------------------------------
(***************************************************************************)
(* The readings.                                                           *)
(***************************************************************************)

ReadingFields ==
  HeaderFields \cup {"data", "solar_charger", "battery_monitor"}

LEMMA ReceivedFields ==
  ASSUME NEW id, NEW type, NEW data, NEW charger, NEW monitor,
         reading = Received(id, type, data, charger, monitor)
  PROVE  /\ DOMAIN reading = ReadingFields
         /\ reading.model_id = id /\ reading.record_type = type
         /\ reading.data = data /\ reading.solar_charger = charger
         /\ reading.battery_monitor = monitor
  BY DEF Received, ReadingFields, HeaderFields

\* A battery's row.
LEMMA LitimeCorrect ==
  ASSUME NEW data \in LitimeData
  PROVE  /\ reading = Received(0, 0, data, Null, Null)
         /\ row = Row(InsertLitimeColumns,
                      LitimeArguments(Joined(reading, reading.data)))
         => TypeOK /\ EveryColumnItsField /\ RowsLoseNothing
  <1>0. SUFFICES
          ASSUME reading = Received(0, 0, data, Null, Null),
                 row = Row(InsertLitimeColumns,
                           LitimeArguments(Joined(reading, reading.data)))
          PROVE  TypeOK /\ EveryColumnItsField /\ RowsLoseNothing
    OBVIOUS
  <1> DEFINE measure == Joined(reading, data)
  <1>1. /\ DOMAIN reading = ReadingFields
        /\ reading.data = data /\ data # Null
        /\ reading.solar_charger = Null /\ reading.battery_monitor = Null
    BY <1>0, ReceivedFields, NullAssumption
  <1>2. DOMAIN data = LitimeFields /\ data.cell_voltages \in Seq(Number)
    BY DataAssumption
  <1>3. ReadingFields \cap LitimeFields = {}
    BY DEF ReadingFields, HeaderFields, LitimeFields, Columns, InsertLitimeColumns
  <1>4. /\ DOMAIN measure = ReadingFields \cup LitimeFields
        /\ \A f \in ReadingFields : measure[f] = reading[f]
        /\ \A f \in LitimeFields : measure[f] = data[f]
    <2>1. /\ DOMAIN measure = DOMAIN reading \cup DOMAIN data
          /\ \A f \in DOMAIN reading : measure[f] = reading[f]
          /\ \A f \in DOMAIN data \ DOMAIN reading : measure[f] = data[f]
      BY JoinedField, Zenon
    <2> HIDE DEF measure
    <2> QED
      BY <1>1, <1>2, <1>3, <2>1
  <1>5. row = Row(InsertLitimeColumns, LitimeArguments(measure))
    BY <1>0, <1>1
  <1>6. {"observed_at", "device_id"} \cup LitimeFields \subseteq DOMAIN measure
    BY <1>4 DEF ReadingFields, HeaderFields
  <1> HIDE DEF measure
  <1>7. /\ DOMAIN row = {"time", "battery_id"} \cup LitimeFields
        /\ row["time"] = measure.observed_at
        /\ row["battery_id"] = measure.device_id
        /\ row["cell_voltages"] = MapCellVoltages(measure.cell_voltages)
        /\ \A f \in LitimeFields \ {"cell_voltages"} : row[f] = measure[f]
    BY <1>5, <1>6, LitimeRow
  <1>8. "cell_voltages" \in LitimeFields
    BY DEF LitimeFields, Columns, InsertLitimeColumns
  <1>9. TypeOK
    <2>1. reading.data # Null
      BY <1>1
    <2> QED
      BY <2>1 DEF TypeOK
  <1>10. EveryColumnItsField
    <2>1. DOMAIN reading \cap DOMAIN row = {}
      <3>1. "time" \notin ReadingFields /\ "battery_id" \notin ReadingFields
        BY DEF ReadingFields, HeaderFields
      <3> QED
        BY <3>1, <1>1, <1>3, <1>7
    <2>2. row["time"] = reading.observed_at /\ row["battery_id"] = reading.device_id
      BY <1>4, <1>7 DEF ReadingFields, HeaderFields
    <2>3. \A f \in LitimeFields \ {"cell_voltages"} : row[f] = data[f]
      BY <1>4, <1>7
    <2>4. "battery_id" \in DOMAIN row /\ reading.data # Null
      BY <1>1, <1>7
    <2>5. /\ \A f \in (DOMAIN reading.data \cap DOMAIN row)
                       \ {"alarm_reason", "cell_voltages"} :
                row[f] = reading.data[f]
          /\ \A f \in DOMAIN reading \cap DOMAIN row : row[f] = reading[f]
      BY <1>1, <1>2, <2>1, <2>3
    <2> DEFINE payload == CASE reading.data # Null -> reading.data
                            [] reading.solar_charger # Null -> reading.solar_charger
                            [] OTHER -> reading.battery_monitor
    <2>6. payload = reading.data
      BY <1>1, <2>4
    <2>7. EveryColumnItsField <=>
            (row # Null =>
               /\ row["time"] = reading.observed_at
               /\ \A f \in (DOMAIN payload \cap DOMAIN row)
                           \ {"alarm_reason", "cell_voltages"} :
                    row[f] = payload[f]
               /\ "battery_id" \in DOMAIN row =>
                    row["battery_id"] = reading.device_id
               /\ \A f \in DOMAIN reading \cap DOMAIN row : row[f] = reading[f])
      BY DEF EveryColumnItsField
    <2> HIDE DEF payload
    <2> QED
      BY <2>2, <2>4, <2>5, <2>6, <2>7
  <1>11. RowsLoseNothing
    <2> DEFINE cells == data.cell_voltages
               n == Len(cells)
    <2>1. n \in Nat /\ cells = [i \in 1 .. n |-> cells[i]]
      BY <1>2
    <2>2. row["cell_voltages"] = [i \in 0 .. n - 1 |-> cells[i + 1]]
      BY <1>4, <1>7, <1>8 DEF MapCellVoltages
    <2> HIDE DEF n, cells
    <2>3. Cardinality(DOMAIN row["cell_voltages"]) = n
      <3>1. Cardinality(0 .. n - 1) = n
        <4>1. 0 \in Int /\ n - 1 \in Int
          BY <2>1
        <4>2. Cardinality(0 .. n - 1) = IF 0 > n - 1 THEN 0 ELSE (n - 1) - 0 + 1
          BY <4>1, FS_Interval
        <4> QED
          BY <4>2, <2>1
      <3> QED
        BY <2>2, <3>1
    <2>4. [i \in 1 .. Cardinality(DOMAIN row["cell_voltages"]) |->
             row["cell_voltages"][i - 1]] = cells
      <3>1. ASSUME NEW i \in 1 .. n
            PROVE  row["cell_voltages"][i - 1] = cells[i]
        <4>1. i - 1 \in 0 .. n - 1 /\ (i - 1) + 1 = i
          BY <2>1
        <4> QED
          BY <2>2, <4>1
      <3>2. [i \in 1 .. n |-> row["cell_voltages"][i - 1]] = [i \in 1 .. n |-> cells[i]]
        BY <3>1
      <3> QED
        BY <2>1, <2>3, <3>2
    <2>5. ReadBack["cell_voltages"] = cells
      BY <1>7, <1>8, <2>4 DEF ReadBack
    <2> QED
      BY <1>1, <2>5 DEF RowsLoseNothing, cells
  <1> QED
    BY <1>9, <1>10, <1>11

\* A solar charger's row.
LEMMA SolarCorrect ==
  ASSUME NEW charger \in SolarChargers, NEW id \in ModelIds,
         NEW type \in RecordTypes
  PROVE  /\ reading = Received(id, type, Null, charger, Null)
         /\ row = Row(InsertVictronColumns, SolarArguments(SolarMeasurement))
         => TypeOK /\ EveryColumnItsField /\ RowsLoseNothing
  <1>0. SUFFICES
          ASSUME reading = Received(id, type, Null, charger, Null),
                 row = Row(InsertVictronColumns, SolarArguments(SolarMeasurement))
          PROVE  TypeOK /\ EveryColumnItsField /\ RowsLoseNothing
    OBVIOUS
  <1>1. /\ DOMAIN reading = ReadingFields
        /\ reading.model_id = id /\ reading.record_type = type
        /\ reading.data = Null /\ reading.battery_monitor = Null
        /\ reading.solar_charger = charger /\ charger # Null
    BY <1>0, ReceivedFields, NullAssumption
  <1>2. DOMAIN charger = ChargerFields
    BY ChargerAssumption
  <1>3. ReadingFields \cap ChargerFields = {}
    BY DEF ReadingFields, HeaderFields, ChargerFields
  <1>4. /\ DOMAIN SolarMeasurement = ReadingFields \cup ChargerFields
        /\ \A f \in ReadingFields : SolarMeasurement[f] = reading[f]
        /\ \A f \in ChargerFields : SolarMeasurement[f] = charger[f]
    <2>1. SolarMeasurement = Joined(reading, charger)
      BY <1>1 DEF SolarMeasurement
    <2>2. /\ DOMAIN Joined(reading, charger) = DOMAIN reading \cup DOMAIN charger
          /\ \A f \in DOMAIN reading : Joined(reading, charger)[f] = reading[f]
          /\ \A f \in DOMAIN charger \ DOMAIN reading :
               Joined(reading, charger)[f] = charger[f]
      BY JoinedField, Zenon
    <2> QED
      BY <1>1, <1>2, <1>3, <2>1, <2>2
  <1>5. HeaderFields \cup ChargerFields \subseteq DOMAIN SolarMeasurement
    BY <1>4 DEF ReadingFields
  <1>6. /\ DOMAIN row = ({"time"} \cup HeaderFields \cup ChargerFields)
                         \ {"observed_at"}
        /\ row["time"] = SolarMeasurement.observed_at
        /\ row["model_id"] = Int32(SolarMeasurement.model_id)
        /\ row["record_type"] = Int16(SolarMeasurement.record_type)
        /\ \A f \in {"device_id", "model_name"} \cup ChargerFields :
             row[f] = SolarMeasurement[f]
    BY <1>0, <1>5, SolarRow
  <1>7. row["model_id"] = id /\ row["record_type"] = type
    <2>1. type \in UInt8
      BY WidthAssumption
    <2>2. Int32(id) = id /\ Int16(type) = type
      BY <2>1, Int16OfByte DEF Int32
    <2>3. /\ SolarMeasurement.model_id = reading.model_id
          /\ SolarMeasurement.record_type = reading.record_type
      BY <1>4 DEF ReadingFields, HeaderFields
    <2> QED
      BY <1>1, <1>6, <2>2, <2>3
  <1>8. TypeOK
    BY <1>7, WidthAssumption DEF TypeOK
  <1>9. EveryColumnItsField
    <2>1. \A f \in ChargerFields : row[f] = charger[f]
      BY <1>4, <1>6
    <2>2. \A f \in HeaderFields \ {"observed_at"} : row[f] = reading[f]
      BY <1>1, <1>4, <1>6, <1>7 DEF ReadingFields, HeaderFields
    <2>3. row["time"] = reading.observed_at
      BY <1>4, <1>6 DEF ReadingFields, HeaderFields
    <2>4. DOMAIN reading \cap DOMAIN row = HeaderFields \ {"observed_at"}
      BY <1>1, <1>6, <1>3 DEF ReadingFields, HeaderFields
    <2>5. "battery_id" \notin DOMAIN row
      BY <1>6 DEF HeaderFields, ChargerFields
    <2> QED
      BY <1>1, <1>2, <2>1, <2>2, <2>3, <2>4, <2>5 DEF EveryColumnItsField
  <1>10. RowsLoseNothing
    BY <1>1 DEF RowsLoseNothing
  <1> QED
    BY <1>8, <1>9, <1>10

\* A battery monitor's row, the one with three conversions.
LEMMA MonitorCorrect ==
  ASSUME NEW monitor \in BatteryMonitors, NEW id \in ModelIds,
         NEW type \in RecordTypes
  PROVE  /\ reading = Received(id, type, Null, Null, monitor)
         /\ row = Row(InsertMonitorColumns, MonitorArguments(MonitorMeasurement))
         => TypeOK /\ EveryColumnItsField /\ RowsLoseNothing
  <1>0. SUFFICES
          ASSUME reading = Received(id, type, Null, Null, monitor),
                 row = Row(InsertMonitorColumns, MonitorArguments(MonitorMeasurement))
          PROVE  TypeOK /\ EveryColumnItsField /\ RowsLoseNothing
    OBVIOUS
  <1> DEFINE measure == MonitorMeasurement
             converted == [time_to_go_minutes |-> Minutes(monitor.time_to_go),
                           alarm_reason |-> AlarmText(monitor.alarm_reason),
                           aux_value |-> AuxValue(monitor)]
             Copied == {"battery_voltage", "battery_current", "state_of_charge",
                        "consumed_ah", "aux_input_type"}
  <1>1. /\ DOMAIN reading = ReadingFields
        /\ reading.model_id = id /\ reading.record_type = type
        /\ reading.data = Null /\ reading.solar_charger = Null
        /\ reading.battery_monitor = monitor /\ monitor # Null
    BY <1>0, ReceivedFields, NullAssumption
  <1>2. DOMAIN monitor = MonitorFields
    BY MonitorAssumption
  <1>3. ReadingFields \cap MonitorFields = {}
    BY DEF ReadingFields, HeaderFields, MonitorFields
  <1>4. /\ DOMAIN measure
             = {"time_to_go_minutes", "alarm_reason", "aux_value"}
                 \cup ReadingFields \cup MonitorFields
        /\ measure["time_to_go_minutes"] = Minutes(monitor.time_to_go)
        /\ measure["alarm_reason"] = AlarmText(monitor.alarm_reason)
        /\ measure["aux_value"] = AuxValue(monitor)
        /\ \A f \in ReadingFields : measure[f] = reading[f]
        /\ \A f \in Copied : measure[f] = monitor[f]
    <2> DEFINE rest == Joined(reading, monitor)
    <2>1. /\ DOMAIN rest = ReadingFields \cup MonitorFields
          /\ \A f \in ReadingFields : rest[f] = reading[f]
          /\ \A f \in MonitorFields : rest[f] = monitor[f]
      <3>1. /\ DOMAIN rest = DOMAIN reading \cup DOMAIN monitor
            /\ \A f \in DOMAIN reading : rest[f] = reading[f]
            /\ \A f \in DOMAIN monitor \ DOMAIN reading : rest[f] = monitor[f]
        BY JoinedField, Zenon
      <3> HIDE DEF rest, measure
      <3> QED
        BY <1>1, <1>2, <1>3, <3>1
    <2>2. /\ DOMAIN converted = {"time_to_go_minutes", "alarm_reason", "aux_value"}
          /\ converted["time_to_go_minutes"] = Minutes(monitor.time_to_go)
          /\ converted["alarm_reason"] = AlarmText(monitor.alarm_reason)
          /\ converted["aux_value"] = AuxValue(monitor)
      OBVIOUS
    <2>3. measure = Joined(converted, rest)
      BY <1>1 DEF MonitorMeasurement
    <2> HIDE DEF converted, rest, measure
    <2>4. /\ DOMAIN Joined(converted, rest) = DOMAIN converted \cup DOMAIN rest
          /\ \A f \in DOMAIN converted : Joined(converted, rest)[f] = converted[f]
          /\ \A f \in DOMAIN rest \ DOMAIN converted :
               Joined(converted, rest)[f] = rest[f]
      BY JoinedField, Zenon
    <2>5. /\ ReadingFields \cap DOMAIN converted = {}
          /\ Copied \subseteq MonitorFields \ DOMAIN converted
      BY <2>2 DEF ReadingFields, HeaderFields, MonitorFields
    <2> HIDE DEF Copied
    <2> QED
      BY <2>1, <2>2, <2>3, <2>4, <2>5
  <1>5. HeaderFields \cup MonitorColumns \subseteq DOMAIN measure
    <2> HIDE DEF measure
    <2> QED
      BY <1>4 DEF ReadingFields, HeaderFields, MonitorColumns, MonitorFields
  <1> HIDE DEF measure
  <1>6. /\ DOMAIN row = ({"time"} \cup HeaderFields \cup MonitorColumns)
                         \ {"observed_at"}
        /\ row["time"] = measure.observed_at
        /\ row["model_id"] = Int32(measure.model_id)
        /\ row["record_type"] = Int16(measure.record_type)
        /\ \A f \in {"device_id", "model_name"} \cup MonitorColumns :
             row[f] = measure[f]
    BY <1>0, <1>5, MonitorRow DEF measure
  <1>7. row["model_id"] = id /\ row["record_type"] = type
    <2>1. type \in UInt8
      BY WidthAssumption
    <2>2. Int32(id) = id /\ Int16(type) = type
      BY <2>1, Int16OfByte DEF Int32
    <2>3. /\ measure.model_id = reading.model_id
          /\ measure.record_type = reading.record_type
      BY <1>4 DEF ReadingFields, HeaderFields
    <2> QED
      BY <1>1, <1>6, <2>2, <2>3
  <1>8. TypeOK
    BY <1>7, WidthAssumption DEF TypeOK
  <1>9. /\ row["time_to_go_minutes"] = Minutes(monitor.time_to_go)
        /\ row["alarm_reason"] = AlarmText(monitor.alarm_reason)
        /\ row["aux_value"] = AuxValue(monitor)
        /\ \A f \in Copied : row[f] = monitor[f]
    BY <1>4, <1>6 DEF MonitorColumns
  <1>10. EveryColumnItsField
    <2>1. \A f \in HeaderFields \ {"observed_at"} : row[f] = reading[f]
      BY <1>1, <1>4, <1>6, <1>7 DEF ReadingFields, HeaderFields
    <2>2. row["time"] = reading.observed_at
      BY <1>4, <1>6 DEF ReadingFields, HeaderFields
    <2>3. DOMAIN reading \cap DOMAIN row = HeaderFields \ {"observed_at"}
      BY <1>1, <1>6 DEF ReadingFields, HeaderFields, MonitorColumns
    <2>4. "battery_id" \notin DOMAIN row
      BY <1>6 DEF HeaderFields, MonitorColumns
    <2>5. (DOMAIN monitor \cap DOMAIN row) \ {"alarm_reason", "cell_voltages"}
            = Copied
      BY <1>2, <1>6 DEF MonitorFields, MonitorColumns, HeaderFields
    <2> QED
      BY <1>1, <1>9, <2>1, <2>2, <2>3, <2>4, <2>5 DEF EveryColumnItsField
  <1>11. RowsLoseNothing
    <2>1. /\ "cell_voltages" \notin DOMAIN row
          /\ row["aux_input_type"] = monitor.aux_input_type
      BY <1>6, <1>9 DEF HeaderFields, MonitorColumns
    <2>2. monitor.time_to_go
            = IF row["time_to_go_minutes"] = Null THEN Null
              ELSE row["time_to_go_minutes"] * 60
      <3>1. CASE monitor.time_to_go = Null
        BY <1>9, <3>1 DEF Minutes
      <3>2. CASE monitor.time_to_go # Null
        <4>1. /\ Minutes(monitor.time_to_go) \in Int
              /\ Minutes(monitor.time_to_go) * 60 = monitor.time_to_go
          BY <3>2, MonitorAssumption, MinutesAndBack
        <4> QED
          BY <1>9, <4>1, NullAssumption
      <3> QED
        BY <3>1, <3>2
    <2>3. monitor.alarm_reason
            = IF row["alarm_reason"] = Null THEN "none" ELSE row["alarm_reason"]
      BY <1>9, MonitorAssumption DEF AlarmText
    <2> DEFINE Aux(t) ==
          IF row["aux_input_type"] = t THEN row["aux_value"] ELSE Null
    <2>4. /\ monitor.starter_voltage = Aux("starter voltage")
          /\ monitor.midpoint_voltage = Aux("midpoint voltage")
          /\ monitor.temperature = Aux("temperature")
      BY <1>9, <2>1, MonitorAssumption DEF AuxValue
    <2>5. ReadBack
            = [time_to_go |-> monitor.time_to_go,
               alarm_reason |-> monitor.alarm_reason,
               starter_voltage |-> monitor.starter_voltage,
               midpoint_voltage |-> monitor.midpoint_voltage,
               temperature |-> monitor.temperature]
      BY <2>1, <2>2, <2>3, <2>4 DEF ReadBack
    <2>6. \A f \in DOMAIN ReadBack : ReadBack[f] = monitor[f]
      BY <2>5
    <2> QED
      BY <1>1, <2>6 DEF RowsLoseNothing
  <1> QED
    BY <1>8, <1>10, <1>11

-----------------------------------------------------------------------------
(***************************************************************************)
(* The theorems.                                                           *)
(***************************************************************************)

\* What was received stays, and its row is the one of its kind.
IInv ==
  \/ \E data \in LitimeData :
       /\ reading = Received(0, 0, data, Null, Null)
       /\ row # Null =>
            row = Row(InsertLitimeColumns,
                      LitimeArguments(Joined(reading, reading.data)))
  \/ \E id \in ModelIds, type \in RecordTypes, charger \in SolarChargers :
       /\ reading = Received(id, type, Null, charger, Null)
       /\ row # Null =>
            row = Row(InsertVictronColumns, SolarArguments(SolarMeasurement))
  \/ \E id \in ModelIds, type \in RecordTypes, monitor \in BatteryMonitors :
       /\ reading = Received(id, type, Null, Null, monitor)
       /\ row # Null =>
            row = Row(InsertMonitorColumns, MonitorArguments(MonitorMeasurement))

\* The inductive invariant holds in every reachable state.
THEOREM Invariance == SafeSpec => []IInv
  <1>1. Init => IInv
    BY DEF Init, IInv
  <1>2. ASSUME IInv, [Next]_vars
        PROVE  IInv'
    <2>1. UNCHANGED reading
      BY <1>2 DEF Next, Insert, InsertSolarCharger, InsertBatteryMonitor, vars
    <2>2. UNCHANGED <<SolarMeasurement, MonitorMeasurement>>
      BY <2>1 DEF SolarMeasurement, MonitorMeasurement
    <2>3. ASSUME NEW data \in LitimeData,
                 reading = Received(0, 0, data, Null, Null)
          PROVE  /\ reading.solar_charger = Null
                 /\ reading.battery_monitor = Null
      BY <2>3, ReceivedFields
    <2>4. ASSUME NEW id \in ModelIds, NEW type \in RecordTypes,
                 NEW charger \in SolarChargers,
                 reading = Received(id, type, Null, charger, Null)
          PROVE  reading.data = Null /\ reading.solar_charger # Null
      BY <2>4, ReceivedFields, NullAssumption
    <2>5. ASSUME NEW id \in ModelIds, NEW type \in RecordTypes,
                 NEW monitor \in BatteryMonitors,
                 reading = Received(id, type, Null, Null, monitor)
          PROVE  reading.data = Null /\ reading.solar_charger = Null
      BY <2>5, ReceivedFields
    <2> QED
      BY <1>2, <2>1, <2>2, <2>3, <2>4, <2>5
         DEF IInv, Next, Insert, InsertSolarCharger, InsertBatteryMonitor, vars
  <1> QED
    BY <1>1, <1>2, PTL DEF SafeSpec

LEMMA RowsCorrect ==
  ASSUME IInv
  PROVE  TypeOK /\ EveryColumnItsField /\ RowsLoseNothing
  <1>1. CASE row = Null
    BY <1>1 DEF TypeOK, EveryColumnItsField, RowsLoseNothing
  <1>2. CASE row # Null
    BY <1>2, LitimeCorrect, SolarCorrect, MonitorCorrect DEF IInv
  <1> QED
    BY <1>1, <1>2

\* Any model ID and record type fits its column and is stored as it is.
THEOREM TypeCorrect == SafeSpec => []TypeOK
  BY Invariance, RowsCorrect, PTL

\* Whatever a device reports, each value is stored in the column of its name.
THEOREM ColumnsCorrect == SafeSpec => []EveryColumnItsField
  BY Invariance, RowsCorrect, PTL

\* Any number of cells, any whole number of minutes, any alarm and any aux
\* reading can be read back from its row.
THEOREM NothingLost == SafeSpec => []RowsLoseNothing
  BY Invariance, RowsCorrect, PTL
=============================================================================

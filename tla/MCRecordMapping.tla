-------------------------- MODULE MCRecordMapping --------------------------
(***************************************************************************)
(* RecordMapping for TLC: readings over a few values, with one of each     *)
(* kind of value for every field.                                          *)
(***************************************************************************)
EXTENDS RecordMapping

MCNumber == 0 .. 4

Measured == {Null, 0, 1}

\* Every field with a value of its own.
MCLitimeData ==
  {[f \in LitimeFields |-> IF f = "cell_voltages" THEN cells ELSE f] :
     cells \in {<<1, 2, 3, 4>>, <<2, 0>>, <<>>}}

MCSolarChargers ==
  [charge_state : {Null, "off", "bulk"}, charger_error : {Null, "no error"},
   battery_voltage : Measured, battery_charging_current : Measured,
   yield_today : Measured, solar_power : Measured,
   external_device_load : Measured]

AuxInputs ==
  {[aux_input_type |-> type,
    starter_voltage |-> IF type = "starter voltage" THEN n ELSE Null,
    midpoint_voltage |-> IF type = "midpoint voltage" THEN n ELSE Null,
    temperature |-> IF type = "temperature" THEN n ELSE Null] :
     type \in {"none", "starter voltage", "midpoint voltage", "temperature"},
     n \in Measured}

MCBatteryMonitors ==
  {Joined(aux,
     [battery_voltage |-> voltage, battery_current |-> current,
      state_of_charge |-> soc, consumed_ah |-> ah, time_to_go |-> seconds,
      alarm_reason |-> alarm]) :
     voltage \in Measured, current \in Measured, soc \in {Null, 0},
     ah \in {Null, 0}, seconds \in {Null, 0, 60, 5940},
     alarm \in {"none", "low voltage"}, aux \in AuxInputs}

MCModelIds == {0, 65535}

MCRecordTypes == {1, 255}
=============================================================================

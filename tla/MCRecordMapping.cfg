\* Batteries of four, two and no cells, and every solar charger and battery
\* monitor reading over a few values.
CONSTANTS
  Null = Null
  Number <- MCNumber
  LitimeData <- MCLitimeData
  SolarChargers <- MCSolarChargers
  BatteryMonitors <- MCBatteryMonitors
  ModelIds <- MCModelIds
  RecordTypes <- MCRecordTypes
SPECIFICATION SafeSpec
INVARIANTS
  TypeOK
  EveryColumnItsField
  RowsLoseNothing
CHECK_DEADLOCK FALSE

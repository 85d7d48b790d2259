\* Both pipelines, a signal at any time, a manager that may fail.
CONSTANTS
  Reading = {r1, r2}
  Capacity = 2
  MaxAccept = 3
SPECIFICATION Spec
INVARIANTS
  TypeOK
  CleanExitLeavesNothing
  BatteryReadingsNeverAbandoned
PROPERTIES
  SignalEndsProcess
  ManagerErrorEndsProcess
CHECK_DEADLOCK FALSE

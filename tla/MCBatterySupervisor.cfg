\* Two supervisors of batteries matched by name, the startup scan and the
\* Victron collector on one fair radio; one mishap.
CONSTANTS
  b1 = b1
  b2 = b2
  Battery <- Batteries
  ByName <- Batteries
  MinBackoff = 2
  MaxBackoff = 3
  MaxMishaps = 1
  Free = Free
  Startup = Startup
  Victron = Victron
SPECIFICATION Spec
INVARIANTS
  TypeOK
  NothingLeftConnected
  LossesCounted
PROPERTIES
  BackoffFollowsOutage
  ShutdownCompletes
  FlatBatteryNeverStallsOthers
CHECK_DEADLOCK FALSE

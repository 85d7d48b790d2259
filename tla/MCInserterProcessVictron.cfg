\* What an error of the battery manager does to the Victron readings.
CONSTANTS
  Reading = {r1, r2}
  Capacity = 2
  MaxAccept = 2
SPECIFICATION SafeSpec
INVARIANTS
  VictronReadingsNeverAbandoned
CHECK_DEADLOCK FALSE

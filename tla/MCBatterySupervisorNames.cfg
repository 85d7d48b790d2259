\* One name to look for, so that the scan ends at the first device that has it.
CONSTANTS
  b1 = b1
  b2 = b2
  Battery <- Batteries
  ByName <- FirstOnly
  MinBackoff = 2
  MaxBackoff = 3
  MaxMishaps = 1
  Free = Free
  Startup = Startup
  Victron = Victron
SPECIFICATION SafeSpec
PROPERTIES
  NamesAreNeverGuessed
CHECK_DEADLOCK FALSE

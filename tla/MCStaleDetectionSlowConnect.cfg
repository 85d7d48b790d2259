\* A connection that had to queue for the radio.
CONSTANTS
  ScrapeInterval = 3
  StaleTimeout = 9
  ConnectTime = 8
  QueryTime = 0
SPECIFICATION SafeSpec
INVARIANTS
  StaleMeansSilent

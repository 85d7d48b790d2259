\* A query may outlast the scrape interval; the timeout has just the room that
\* StaleAfterUnansweredQuery asks for.
CONSTANTS
  ScrapeInterval = 3
  StaleTimeout = 11
  ConnectTime = 4
  QueryTime = 4
SPECIFICATION Spec
INVARIANTS
  TypeOK
  SilenceIsDetected
  StaleAfterUnansweredQuery
PROPERTIES
  SilentConnectionEnds

\* Two devices over two scans, every sighting, a queue of one; the properties
\* say when they need the database to answer.
CONSTANTS
  d1 = d1
  d2 = d2
  Device <- Devices
  BufferSize = 1
  MaxScans = 2
SPECIFICATION Spec
INVARIANTS
  TypeOK
  MissedMeansSilent
  OneVerdictPerScan
  DoneMeansDrained
PROPERTIES
  ScanLoopNeverWaits
  ShutdownCompletes
  ImplementsStream
CHECK_DEADLOCK FALSE

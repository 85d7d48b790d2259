\* Two callbacks racing the close and each other over a channel of two; the
\* properties say when they need the database to answer.
CONSTANTS
  d1 = d1
  d2 = d2
  r1 = r1
  r2 = r2
  r3 = r3
  r4 = r4
  Dispatcher <- Dispatchers
  Reading <- Readings
  BufferSize = 2
  None = None
SPECIFICATION Spec
INVARIANTS
  TypeOK
  NeverSendsOnClosed
  DeliveredInOrder
  OneVerdictPerReading
PROPERTIES
  CallbackReturns
  ShutdownDrains
  ImplementsStream
CHECK_DEADLOCK FALSE

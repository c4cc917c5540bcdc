SPECIFICATION Spec
CONSTANTS
  Producers = {p1, p2}
  Records = {r1, r2, r3, r4}
  Main = main
  Writer = writer
  Null = null
  Garbage = garbage
  Threads <- MCThreads
  Elements <- MCElements
  Capacity = 2
  StreamFails = TRUE
INVARIANTS
  NoWakeupLost
  BuffersOwned
  ClosedMeansWritten
PROPERTIES
  ImplementsWriterSpec
  Termination

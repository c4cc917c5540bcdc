SPECIFICATION HyperSpec
CONSTANTS
  Producers = {t1, t2, t3}
  Main = main
  Writer = writer
  Null = null
  Garbage = garbage
  Threads <- MCThreads
  Records <- MCRecords
  Elements <- MCElements
  Capacity = 2
  StreamFails = FALSE
  FromVertex = 1
  ToVertex = 4
  MaxVertex = 15
PROPERTIES
  ImplementsBuildSpec
  UsesWriterAsSpecified
INVARIANTS
  FileComplete

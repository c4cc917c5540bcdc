SPECIFICATION Spec
CONSTANTS
  FromVertex = 1
  ToVertex = 3
  NThreads = 3
  Degree <- Degrees1202
  MaxDegree = 2
  StoreOnly0 = TRUE
  Color0 = {0, 2, 3}
  MaxVertex = 15
INVARIANTS
  IInv
  SlotsSuffice
  ExactlyOnce
  NothingForgotten
  TableOwnership
  NoTableLeaked
PROPERTIES
  ImplementsBuildSpec
  Termination

SPECIFICATION Spec
CONSTANTS
  Workers = {w1, w2}
  Vertices <- OverlappingVertices
  Hyperedges <- OverlappingEdges
  Verts <- Overlapping
  Treelets <- OneTreelet
  Count <- OverlappingCount
  AllowSingletons = FALSE
  Modulus = 16
INVARIANTS
  ProcessedOnce
  NoTaskLost
  TasksAreAwaited
  AllProcessed
  CountsExact
PROPERTIES
  Termination

SPECIFICATION Spec
CONSTANTS
  Bits = 8
  Requests <- MCRequests
  Threads = {1, 2}
INVARIANTS
  SpanningTreesAreExact
  EstimatesAreExact
CHECK_DEADLOCK FALSE

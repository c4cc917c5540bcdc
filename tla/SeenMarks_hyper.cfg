SPECIFICATION Spec
CONSTANTS
  Vertices <- ChainVertices
  Hyperedges <- ChainHyperedges
  Verts <- Chain
  Samples <- ChainSamples
  Modulus = 4
  TakesNew = {}
  Calls = {"build_weak_and_incidence", "common_incident_count", "choose_high"}
INVARIANTS
  ExactUnlessWrapped

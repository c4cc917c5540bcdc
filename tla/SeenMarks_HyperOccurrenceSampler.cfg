SPECIFICATION Spec
CONSTANTS
  Vertices <- ChainVertices
  Hyperedges <- ChainHyperedges
  Verts <- Chain
  Samples <- ChainSamples
  Modulus = 5
  TakesNew = {}
  Calls = {"build_weak_and_incidence"}
INVARIANTS
  EveryCallExact

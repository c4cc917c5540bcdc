----------------------------- MODULE MCSeenMarks -----------------------------
(* A small hypergraph with two hyperedges that overlap in one vertex and   *)
(* one of a single vertex, and counters that go round after a few calls.   *)
EXTENDS SeenMarks, TLC

Chain == "a" :> {1, 2} @@ "b" :> {2, 3, 4} @@ "c" :> {4}
ChainVertices == 1 .. 4
ChainHyperedges == DOMAIN Chain
ChainSamples == {U \in SUBSET ChainVertices : Cardinality(U) = 3}
=============================================================================

----------------------- MODULE MCMultithreadNWSBuilder -----------------------
(* Hypergraphs whose hyperedges overlap. *)
EXTENDS MultithreadNWSBuilder, TLC

(* Each pair of "a", "b" and "c", and the three of them, is a subtype, and *)
(* can be found from several others at the same time; neither of "a" and   *)
(* "b" contains the other.  With "d" they have a single vertex in common.  *)
Overlapping == "a" :> {0, 1, 2} @@ "b" :> {0, 1, 3} @@ "c" :> {0, 1} @@ "d" :> {2, 3}
OverlappingEdges == DOMAIN Overlapping
OverlappingVertices == 0 .. 3

OneTreelet == {"T"}
OverlappingCount == "T" :> (0 :> 1 @@ 1 :> 2 @@ 2 :> 5 @@ 3 :> 4)
=============================================================================

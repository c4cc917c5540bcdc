-------------------------- MODULE MCRootedSampling --------------------------
(* Four vertices with small and large hyperedges that overlap: two joined  *)
(* vertices may share one of each, and large ones share pairs.             *)
EXTENDS RootedSampling

Overlapping == [n |-> 4, he |-> <<{1, 2, 3}, {0, 1, 2}, {0, 1}, {2, 3}>>]
MCInputs == [script : {"motivo", "hyper_motivo"}, H : {Overlapping}, threshold : {2}]

(* Every size of colour classes, and colour 0 on a vertex or none. *)
MCColorings ==
  {0 :> 0 @@ 1 :> 1 @@ 2 :> 2 @@ 3 :> 3, 0 :> 1 @@ 1 :> 0 @@ 2 :> 3 @@ 3 :> 2,
   0 :> 0 @@ 1 :> 1 @@ 2 :> 2 @@ 3 :> 0, 0 :> 2 @@ 1 :> 3 @@ 2 :> 0 @@ 3 :> 1}
=============================================================================

----------------------- MODULE MCMultithreadedBuilder -----------------------
(* Small graphs for MultithreadedBuilder.  A degree stands for the number  *)
(* of edges to combine at a vertex, whatever their other end is.           *)
EXTENDS MultithreadedBuilderInv, TLC

(* An isolated vertex, which has the virtual edge only, among others. *)
Degrees1202 == 0 :> 1 @@ 1 :> 2 @@ 2 :> 0 @@ 3 :> 2
=============================================================================

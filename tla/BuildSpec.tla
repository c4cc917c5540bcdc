----------------------------- MODULE BuildSpec -----------------------------
(***************************************************************************)
(* What motivo-build promises of a table file, whatever the number of      *)
(* threads: every vertex of the requested range gets exactly one record,   *)
(* the record holds the complete count of that vertex, and no record is    *)
(* ever rewritten or produced for a vertex outside the range.  It is the   *)
(* loop of SequentialBuilder::build with the order of the vertices left    *)
(* open, which is what the parallel builders are allowed to change.        *)
(***************************************************************************)
EXTENDS Sequences

CONSTANTS AllVertices,  \* the vertices of the graph
          Requested,    \* the vertices from_vertex..to_vertex
          Complete      \* the complete count of every vertex

VARIABLE output         \* the records written so far, vertex by vertex

Init == output = [v \in AllVertices |-> <<>>]

(***************************************************************************)
(* One iteration of the loop over the vertices: combine every edge of v,   *)
(* serialise the table, write the record.                                  *)
(***************************************************************************)
WriteRecord(v) ==
  /\ output[v] = <<>>
  /\ output' = [output EXCEPT ![v] = <<Complete[v]>>]

Next == \E v \in Requested : WriteRecord(v)

Safety == Init /\ [][Next]_output
Spec == Safety /\ WF_output(Next)
=============================================================================

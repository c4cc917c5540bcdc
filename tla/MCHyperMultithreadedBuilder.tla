--------------------- MODULE MCHyperMultithreadedBuilder ---------------------
(* A few vertices and threads around a queue of two records. *)
EXTENDS HyperMultithreadedBuilder

MCThreads == Producers \cup {Main, Writer}
MCRecords == 0 .. ToVertex
MCElements == Records \cup {Null}
=============================================================================

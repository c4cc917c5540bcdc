--------------------------- MODULE MCPreprocessing ---------------------------
(* Hypergraphs of four vertices: overlapping hyperedges of several sizes,  *)
(* twins, an isolated vertex, repeated numbers and lines without any.      *)
EXTENDS Preprocessing

MCTexts ==
  {<< <<0, 1, 1>>, <<>>, <<1, 2>>, <<0, 1, 2, 3>> >>,
   << <<2, 0>>, <<0, 2, 3>>, <<3, 0, 2>>, <<2, 3>> >>,
   << <<3, 1>>, <<1, 3>> >>,
   << <<0, 2>>, <<3, 2, 1>> >>,
   <<>>}

(* Threads: fewer, as many and more than vertices.  stream ignores them.   *)
MCJobs ==
  [base : {"H", "LOW"}, max_m : {0, 3}, threads : {1, 3}, stream : BOOLEAN,
   exclude : BOOLEAN]
    \cup [base : {"LOW", "HIGH"}, max_m : {0}, threads : {2, 6},
          stream : {FALSE}, exclude : {TRUE}]

MCFormats == {"LOE", "NODE", "NODE_DEGREE"}
=============================================================================

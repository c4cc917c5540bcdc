------------------------- MODULE MCConcurrentWriter -------------------------
(* Few producers and a small queue, so that it is often full and empty and *)
(* its head goes round.                                                    *)
EXTENDS ConcurrentWriter

MCThreads == Producers \cup {Main, Writer}
MCElements == Records \cup {Null}
=============================================================================

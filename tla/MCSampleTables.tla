--------------------------- MODULE MCSampleTables ---------------------------
(* Small hypergraphs with occurrences of every kind: trees, cycles, paws,  *)
(* cliques, cliques without an edge, and the same graph from different     *)
(* hyperedges.                                                             *)
EXTENDS SampleTables

Dense == [n |-> 5, he |-> <<{0, 1, 2}, {1, 2, 3}, {0, 1}, {3, 4}, {0, 4}>>]
Complete == [n |-> 4, he |-> <<{0, 1, 2, 3}, {0, 1}>>]
Sparse == [n |-> 5, he |-> <<{0, 1}, {0, 2}, {0, 3}, {3, 4}>>]

Include(S) == [mode |-> "INCLUDE", structures |-> S]
Exclude(S) == [mode |-> "EXCLUDE", structures |-> S]

PathFromEnd == Highest + Highest \div 2 + Highest \div 4

(* Every strategy. *)
Selectors(k) ==
  {NoSelector, Include({}),
   BuildableClosure(Include(StarStructures(k))), Exclude(StarStructures(k)),
   BuildableClosure(Include({PathFromEnd})), Exclude({StarFromCenter(k)})}

Request(H, k, sel, canonicize, group, estimate, threads, stars) ==
  [H |-> H, k |-> k, sel |-> sel, canonicize |-> canonicize, group |-> group,
   estimate |-> estimate, threads |-> threads, stars |-> stars]

MCRequests ==
  {Request(H, 4, sel, c, TRUE, TRUE, 1, FALSE) :
     H \in {Dense, Complete, Sparse}, sel \in Selectors(4), c \in BOOLEAN}
  \cup {Request(H, 3, sel, TRUE, TRUE, TRUE, 2, FALSE) :
     H \in {Dense, Sparse}, sel \in Selectors(3)}
  \cup {Request(H, k, NoSelector, c, TRUE, TRUE, 1, TRUE) :
     H \in {Dense, Complete, Sparse}, k \in {3, 4}, c \in BOOLEAN}
  \cup {Request(Dense, 3, NoSelector, c, FALSE, FALSE, 2, FALSE) : c \in BOOLEAN}
=============================================================================

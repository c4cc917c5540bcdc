---------------------------- MODULE SpanningTrees ----------------------------
(***************************************************************************)
(* SpanningTreeCounter: how many rooted spanning trees of the graph of an  *)
(* occurrence have a structure that the tables have been built with.       *)
(*                                                                         *)
(* An occurrence is its size k and the set edges of the pairs of positions *)
(* 1..k that are joined.  A selector is the file given to --selective-     *)
(* build, NoSelector without the option.                                   *)
(***************************************************************************)
EXTENDS CountTables

NoSelector == [mode |-> "EXCLUDE", structures |-> {}, none |-> TRUE]

Degree(occ, i) == Cardinality({e \in occ.edges : i \in e})

(* The determinant of a matrix of n rows. *)
Determinant(M, n) ==
  LET SignOf(p) == (-1) ^ Cardinality({q \in (1 .. n) \X (1 .. n) : q[1] < q[2] /\ p[q[1]] > p[q[2]]})
  IN  MapThenSumSet(LAMBDA p : SignOf(p) * FoldFunction(LAMBDA a, b : a * b, 1, [i \in 1 .. n |-> M[i][p[i]]]),
                    Permutations(1 .. n))

(* The Laplacian matrix without its last row and column.                   *)
Minor(occ) ==
  [i \in 1 .. occ.k - 1 |-> [j \in 1 .. occ.k - 1 |->
     IF i = j THEN Degree(occ, i) ELSE IF {i, j} \in occ.edges THEN -1 ELSE 0]]

(* Mutant: the rootings are forgotten. *)
CliqueLessUnrooted(k) == k ^ (k - 3) * (k - 2)

(* The rooted spanning trees of a clique of k vertices without an edge.    *)
CliqueLessEdge(k) == k ^ (k - 2) * (k - 2)

(* number_of_rooted_spanning_trees_kirchhoff(), of a connected occurrence: *)
(* paths, trees, cliques and cliques that lack an edge in closed form.     *)
Kirchhoff(occ) ==
  LET k == occ.k
      m == Cardinality(occ.edges)
  IN  CASE k = 1 -> 1
        [] k = 2 -> 2
        [] k = 3 -> IF m = 3 THEN 9 ELSE 3
        [] k > 3 /\ m = k - 1 -> k
        [] k > 3 /\ 2 * m = k * (k - 1) -> k ^ (k - 1)
        [] k > 3 /\ 2 * m = k * (k - 1) - 2 -> CliqueLessEdge(k)
        [] OTHER -> k * Determinant(Minor(occ), k - 1)

(* number_of_rooted_spanning_stars() *)
Stars(occ) == occ.k * Cardinality({i \in 1 .. occ.k : Degree(occ, i) = occ.k - 1})

(* ColorCodingSpanningTreeCounter: the builder's combination on the        *)
(* occurrence, every vertex of which has a colour of its own.              *)
ColorCoding(occ, sel) ==
  LET graph == [i \in 1 .. occ.k |-> SetToSeq({j \in 1 .. occ.k : {i, j} \in occ.edges})]
      tables[n \in 1 .. occ.k] ==
        IF n = 1 THEN ColorTable([i \in 1 .. occ.k |-> i])
        ELSE BuiltLow(n, graph, [m \in 1 .. n - 1 |-> tables[m]], FALSE, TRUE, sel)
  IN  MapThenSumSet(LAMBDA i : FoldSeq(LAMBDA x, sum : sum + x.n, 0, tables[occ.k][i]),
                    1 .. occ.k)

-----------------------------------------------------------------------------
(* The constructor decides once which of the ways above is used. *)

StarStructures(k) == {StarFromCenter(k), StarFromLeaf(k)}

OnlyStars(k, sel) ==
  IF sel.mode = "EXCLUDE"
    THEN Cardinality(sel.structures) = 2 /\ StarStructures(k) \subseteq sel.structures
    ELSE /\ {s \in sel.structures : Size(s) = k} \subseteq StarStructures(k)
         /\ BuildableClosure([mode |-> "INCLUDE", structures |-> StarStructures(k)]).structures
              \subseteq sel.structures

Strategy(k, sel) ==
  IF sel = NoSelector THEN "KIRCHOFF"
  ELSE IF k > 1 /\ ~IsIncluded(sel, Highest) THEN "ZERO"
  ELSE IF k <= 2 THEN "KIRCHOFF"
  ELSE IF ~OnlyStars(k, sel) THEN "COLOR_CODING"
  ELSE IF sel.mode = "INCLUDE" THEN "STARS" ELSE "KIRCHOFF_MINUS_STARS"

(* number_of_rooted_spanning_trees() *)
RootedSpanningTrees(occ, sel) ==
  LET strategy == Strategy(occ.k, sel)
  IN  CASE strategy = "KIRCHOFF" -> Kirchhoff(occ)
        [] strategy = "KIRCHOFF_MINUS_STARS" -> Kirchhoff(occ) - Stars(occ)
        [] strategy = "STARS" -> Stars(occ)
        [] strategy = "COLOR_CODING" -> ColorCoding(occ, sel)
        [] strategy = "ZERO" -> 0
=============================================================================

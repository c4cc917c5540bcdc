--------------------------- MODULE HypergraphFiles ---------------------------
(***************************************************************************)
(* The binary hypergraph files and the tools that write them:              *)
(* motivo-hypergraph from text, motivo-dedup, motivo-hgsplit.              *)
(*                                                                         *)
(* A hypergraph file is its number of vertices and the sequence of its     *)
(* hyperedges; the vertices of a hyperedge are kept sorted and without     *)
(* repetitions by every tool, so a hyperedge is a set.  The offset files   *)
(* and the map from vertices to hyperedges are functions of these.         *)
(***************************************************************************)
EXTENDS Integers, SequencesExt, FiniteSetsExt

(* A set of numbers in order, and the elements of a sequence at some of    *)
(* its positions.                                                          *)
Sorted(S) ==
  [k \in 1 .. Cardinality(S) |->
     CHOOSE v \in S : Cardinality({w \in S : w < v}) = k - 1]
AtPositions(seq, positions) ==
  [k \in 1 .. Cardinality(positions) |-> seq[Sorted(positions)[k]]]

Vertices(H) == 0 .. H.n - 1

(* vertex_degree(), incident_hyperedge(): the hyperedges of a vertex.      *)
Incident(H, v) == {e \in DOMAIN H.he : v \in H.he[e]}

(* share_any_hyperedge(), over both lists of incident hyperedges.          *)
Share(H, u, v) == Incident(H, u) \cap Incident(H, v) # {}

LargestVertex(he) == Max((UNION ToSet(he)) \cup {0})

(* read_hyperedges_from_text(): a line without a number is no hyperedge.   *)
ReadText(lines) ==
  AtPositions([k \in DOMAIN lines |-> ToSet(lines[k])],
              {k \in DOMAIN lines : ToSet(lines[k]) # {}})

(* hypergraph2bin(): by decreasing size, in any order within a size.       *)
SortedBySize(he) ==
  {[k \in DOMAIN he |-> he[p[k]]] :
     p \in {q \in Bijection(DOMAIN he, DOMAIN he) :
              \A i, j \in DOMAIN he :
                i < j => Cardinality(he[q[i]]) >= Cardinality(he[q[j]])}}

WriteHypergraph(he) ==
  [n |-> IF he = <<>> THEN 0 ELSE LargestVertex(he) + 1, he |-> he]

-----------------------------------------------------------------------------
(* motivo-dedup. *)

(* Mutant: vertices are alike when they have the same degree. *)
SignatureDegree(H, v) == Cardinality(Incident(H, v))

(* Two vertices of the same hyperedges are one vertex of the output.       *)
Signature(H, v) == Incident(H, v)

(* Classes are numbered in the order of their first vertices.              *)
ClassOf(H, v) ==
  LET first == Min({u \in Vertices(H) : Signature(H, u) = Signature(H, v)})
  IN  Cardinality({Signature(H, u) : u \in 0 .. first - 1})

(* This tool's own write_hypergraph(), for which no hyperedge at all is a  *)
(* hypergraph of one vertex.                                               *)
Dedup(H) ==
  LET he == [e \in DOMAIN H.he |-> {ClassOf(H, v) : v \in H.he[e]}]
  IN  [n |-> LargestVertex(he) + 1, he |-> he]

-----------------------------------------------------------------------------
(* compute_best_alpha(): the threshold of motivo-hgsplit --threshold auto. *)

Sizes(H) == {Cardinality(H.he[e]) : e \in DOMAIN H.he}

(* The position of e among the hyperedges of v, the largest first.         *)
Rank(H, v, e) ==
  Cardinality({f \in Incident(H, v) :
    \/ Cardinality(H.he[f]) > Cardinality(H.he[e])
    \/ Cardinality(H.he[f]) = Cardinality(H.he[e]) /\ f > e})

(* ie_cost(alpha): 2^(p+1) - 2^p for every incidence of rank p >= 2 in a   *)
(* hyperedge not smaller than alpha.                                       *)
IECost(H, alpha) ==
  LET costly == {i \in Vertices(H) \X DOMAIN H.he :
                   /\ i[1] \in H.he[i[2]]
                   /\ Cardinality(H.he[i[2]]) >= alpha
                   /\ Rank(H, i[1], i[2]) > 1}
  IN  MapThenSumSet(LAMBDA i : 2 ^ Rank(H, i[1], i[2]), costly)

NaiveCost(H, alpha, decay) ==
  MapThenSumSet(LAMBDA e : Cardinality(H.he[e]) ^ 2,
                {e \in DOMAIN H.he : Cardinality(H.he[e]) <= alpha}) \div decay

(* The smallest of the cheapest; a hyperedge of the threshold's size is    *)
(* counted on both sides.                                                  *)
BestAlpha(H, decay) ==
  LET Total(a) == IECost(H, a) + NaiveCost(H, a, decay)
      best == {a \in Sizes(H) : \A b \in Sizes(H) : Total(a) <= Total(b)}
  IN  IF Sizes(H) = {} THEN 0 ELSE Min(best)

-----------------------------------------------------------------------------
(* motivo-hgsplit. *)

(* "if (sz <= threshold) ... else ..." *)
SmallOnes(H, threshold) == {e \in DOMAIN H.he : Cardinality(H.he[e]) <= threshold}

Small(H, threshold) == [n |-> H.n, he |-> AtPositions(H.he, SmallOnes(H, threshold))]

Large(H, threshold) ==
  [n |-> H.n, he |-> AtPositions(H.he, DOMAIN H.he \ SmallOnes(H, threshold))]

(* Mutant: the marks of an earlier vertex are taken for those of u. *)
MarkedUpTo(small, u) == UNION {e \in ToSet(small.he) : \E w \in e : w <= u}

(* The vertices marked for u: those that share a small hyperedge with it.  *)
Marked(small, u) == (UNION {e \in ToSet(small.he) : u \in e}) \ {u}

(* The pairs of vertices that share a hyperedge on both sides: u < v, by   *)
(* increasing u.                                                           *)
OverlapPairs(small, large) ==
  {p \in Vertices(small) \X Vertices(small) :
     p[1] < p[2] /\ p[2] \in Marked(small, p[1]) /\ Share(large, p[1], p[2])}
=============================================================================

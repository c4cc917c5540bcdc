------------------------- MODULE InclusionExclusion -------------------------
(***************************************************************************)
(* One step of the inclusion-exclusion of motivo-nws, NWSBuilder::build,   *)
(* as operators.                                                           *)
(*                                                                         *)
(* A subtype is a set of hyperedges; its vertices are those common to all  *)
(* of them.  For a treelet T with C(v,T) occurrences rooted in v, a        *)
(* subtype adds to each of its vertices x the occurrences rooted in its    *)
(* other vertices, with a sign that alternates with the number of          *)
(* hyperedges, so that a neighbour y of x is counted once however many     *)
(* hyperedges contain both.                                                *)
(***************************************************************************)
EXTENDS Integers, FiniteSets, FiniteSetsExt

CONSTANTS Vertices,
          Hyperedges,
          Verts,            \* the vertices of every hyperedge
          Treelets,
          Count,            \* Count[T][v]: nws_table->get_count(v, T)
          AllowSingletons   \* --allow-singletons

ASSUME HypergraphAssumption ==
  /\ IsFiniteSet(Vertices)
  /\ Verts \in [Hyperedges -> SUBSET Vertices]
  /\ Count \in [Treelets -> [Vertices -> Nat]]
  /\ AllowSingletons \in BOOLEAN

(* st.verts, for st.edges = E *)
Common(E) == {v \in Vertices : \A e \in E : v \in Verts[e]}

SumOver(T, S) == MapThenSumSet(LAMBDA v : Count[T][v], S)

(* odd levels add, even levels subtract *)
Sign(E) == IF Cardinality(E) % 2 = 1 THEN 1 ELSE -1

(* nws_counts[x] += sign * (SUM - C(x)) for the vertices x of the subtype *)
Updated(counts, T, E) ==
  [x \in Vertices |->
     IF x \in Common(E)
       THEN counts[x] + Sign(E) * (SumOver(T, Common(E)) - Count[T][x])
       ELSE counts[x]]

(* Mutant: only the hyperedges that keep every vertex extend a subtype. *)
ExtensionsKeepAll(E) ==
  {E \cup {e} : e \in {e \in Hyperedges \ E : Common(E) \subseteq Verts[e]}}

(* The one-edge extensions of a subtype: by the hyperedges incident to one *)
(* of its vertices, unless fewer than two vertices are left.               *)
Extensions(E) ==
  {F \in {E \cup {e} : e \in {e \in Hyperedges \ E : Verts[e] \cap Common(E) # {}}} :
     AllowSingletons \/ Cardinality(Common(F)) > 1}

(* What the pass computes: for every vertex, the occurrences rooted in the *)
(* vertices it shares a hyperedge with.                                    *)
Neighbours(x) == {y \in Vertices \ {x} : \E e \in Hyperedges : {x, y} \subseteq Verts[e]}

ExactCounts == [T \in Treelets |-> [x \in Vertices |-> SumOver(T, Neighbours(x))]]
=============================================================================

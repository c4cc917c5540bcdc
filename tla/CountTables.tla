---------------------------- MODULE CountTables ----------------------------
(***************************************************************************)
(* What the counting tools write for a vertex, as operators: motivo-build  *)
(* and motivo-hyper-build, which combine the rows of smaller treelets,     *)
(* motivo-low-high-merge, which adds the two up, and motivo-nws, which     *)
(* sums rows over the vertices that share a hyperedge.                     *)
(*                                                                         *)
(* A row is a sequence of entries, a treelet t and its count n, in the     *)
(* order of the treelets; a table is a row for every vertex.               *)
(***************************************************************************)
EXTENDS Treelets, SequencesExt

SortedRow(counts) ==
  SetToSortSeq({[t |-> t, n |-> counts[t]] : t \in DOMAIN counts},
               LAMBDA a, b : Less(a.t, b.t))

(* TreeletTable::get_count() *)
CountIn(row, t) ==
  MapThenSumSet(LAMBDA i : row[i].n, {i \in DOMAIN row : row[i].t = t})

(* Size1Builder::build() *)
ColorTable(coloring) ==
  [u \in DOMAIN coloring |-> <<[t |-> Singleton(coloring[u]), n |-> 1]>>]

HasColor0(colorTable, u) == colorTable[u][1].t.c = {0}

(* The pairs of entries that combine() adds up: once a treelet is too      *)
(* small to be the first child, those after it are not tried.  sel is the  *)
(* TreeletStructureSelector of --selective-build.                          *)
Combined(row, childRow, sel) ==
  LET merged == [p \in (DOMAIN row) \X (DOMAIN childRow) |->
                   Merge(row[p[1]].t, childRow[p[2]].t)]
  IN  {[t |-> merged[p], i |-> p, n |-> row[p[1]].n * childRow[p[2]].n] :
         p \in {p \in DOMAIN merged :
                  /\ IsValid(merged[p]) /\ IsIncluded(sel, merged[p].s)
                  /\ \A j \in 1 .. p[2] : merged[<<p[1], j>>] # InvalidStructure}}

(* The counts of size k of u, from the tables lower of u and children of   *)
(* the others, of all sizes below k.                                       *)
Accumulated(k, u, others, lower, children, sel) ==
  LET added == UNION {{<<i, v, x>> :
                         x \in Combined(lower[i][u], children[k - i][v], sel)} :
                        i \in 1 .. k - 1, v \in others}
  IN  [t \in {a[3].t : a \in added} |->
         MapThenSumSet(LAMBDA a : a[3].n, {a \in added : a[3].t = t})]

(* to_normalized_sorted_byte_array() *)
Serialised(counts, normalize) ==
  SortedRow([t \in DOMAIN counts |->
               counts[t] \div (IF normalize THEN NormalizationFactor(t.s) ELSE 1)])

(* SequentialBuilder::build(), on the graph's lists of neighbours, and     *)
(* HyperSequentialBuilder::build(), on the sums over the hyperedges.       *)
BuiltLow(k, graph, lower, store0, normalize, sel) ==
  [u \in DOMAIN graph |->
     IF store0 /\ ~HasColor0(lower[1], u) THEN <<>>
     ELSE Serialised(Accumulated(k, u, ToSet(graph[u]), lower, lower, sel), normalize)]

BuiltHigh(k, lower, ie, store0, normalize, sel) ==
  [u \in DOMAIN lower[1] |->
     IF store0 /\ ~HasColor0(lower[1], u) THEN <<>>
     ELSE Serialised(Accumulated(k, u, {u}, lower, ie, sel), normalize)]

-----------------------------------------------------------------------------
(* motivo-low-high-merge. *)

(* Mutant: an entry of both rows is taken from the first. *)
TwoWayFirst(low, high) ==
  LET merge[i \in 1 .. Len(low) + 1, j \in 1 .. Len(high) + 1] ==
        IF i > Len(low) THEN SubSeq(high, j, Len(high))
        ELSE IF j > Len(high) THEN SubSeq(low, i, Len(low))
        ELSE LET a == low[i]
                 b == high[j]
             IN  IF Less(a.t, b.t) THEN <<a>> \o merge[i + 1, j]
                 ELSE IF Less(b.t, a.t) THEN <<b>> \o merge[i, j + 1]
                 ELSE <<a>> \o merge[i + 1, j + 1]
  IN  merge[1, 1]

(* The two-way merge of two rows. *)
TwoWay(low, high) ==
  LET merge[i \in 1 .. Len(low) + 1, j \in 1 .. Len(high) + 1] ==
        IF i > Len(low) THEN SubSeq(high, j, Len(high))
        ELSE IF j > Len(high) THEN SubSeq(low, i, Len(low))
        ELSE LET a == low[i]
                 b == high[j]
             IN  IF Less(a.t, b.t) THEN <<a>> \o merge[i + 1, j]
                 ELSE IF Less(b.t, a.t) THEN <<b>> \o merge[i, j + 1]
                 ELSE <<[a EXCEPT !.n = @ + b.n]>> \o merge[i + 1, j + 1]
  IN  merge[1, 1]

(* The rows of the merged file, divided only now. *)
Fused(low, high) ==
  [u \in DOMAIN high |->
     [i \in DOMAIN TwoWay(low[u], high[u]) |->
        LET x == TwoWay(low[u], high[u])[i]
        IN  [x EXCEPT !.n = @ \div NormalizationFactor(x.t.s)]]]

-----------------------------------------------------------------------------
(* motivo-nws: the inclusion-exclusion over the hyperedges of H, for every *)
(* treelet of a table.  The builder does not get --no-subtype-pruning.     *)

TreeletsOf(table) == {table[i[1]][i[2]].t : i \in UNION {{u} \X DOMAIN table[u] : u \in DOMAIN table}}

Step(H, table) ==
  INSTANCE InclusionExclusion WITH
    Vertices <- DOMAIN table, Hyperedges <- DOMAIN H.he, Verts <- H.he,
    Treelets <- TreeletsOf(table),
    Count <- [t \in TreeletsOf(table) |-> [v \in DOMAIN table |-> CountIn(table[v], t)]],
    AllowSingletons <- FALSE

(* The subtypes put in the queue, whichever way they are found. *)
Subtypes(H, table) ==
  LET level[n \in 1 .. Len(H.he)] ==
        IF n = 1 THEN {{e} : e \in DOMAIN H.he}
        ELSE UNION {Step(H, table)!Extensions(E) : E \in level[n - 1]}
  IN  UNION {level[n] : n \in 1 .. Len(H.he)}

(* SequentialNWSBuilder::build(): only what is not zero is written. *)
NeighbourSums(H, table) ==
  LET subtypes == Subtypes(H, table)
      Sums(t) == FoldSet(LAMBDA E, counts : Step(H, table)!Updated(counts, t, E),
                         [x \in DOMAIN table |-> 0], subtypes)
      sums == [t \in TreeletsOf(table) |-> Sums(t)]
  IN  [x \in DOMAIN table |->
         SortedRow([t \in {t \in DOMAIN sums : sums[t][x] # 0} |-> sums[t][x]])]
=============================================================================

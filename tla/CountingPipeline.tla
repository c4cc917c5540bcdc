--------------------------- MODULE CountingPipeline ---------------------------
(***************************************************************************)
(* The scripts that count: motivo.sh on a graph and hyper_motivo_mac.sh on *)
(* a hypergraph, a tool a step.  The first builds the tables of the sizes  *)
(* 1, 2, ... with motivo-build and motivo-merge.  The second splits the    *)
(* hypergraph, builds the counts of a size on the graph of the small       *)
(* hyperedges and on the large hyperedges, adds them up, and sums the      *)
(* merged table over the large hyperedges for the next size.               *)
(*                                                                         *)
(* A .cnt and the .dtz that motivo-merge makes of it are the same rows:    *)
(* TableFiles has what happens in between.                                 *)
(***************************************************************************)
EXTENDS CountTables, GraphFiles

CONSTANTS Inputs,    \* a script, a hypergraph H and the threshold to split it
          Colorings, \* what motivo-build --size 1 may draw
          MaxSize    \* --maxsize

VARIABLES
  input, coloring,
  stores,      \* --store-on-0-colored-vertices-only, for the last size
  at, k,       \* the next tool and the size it is run for
  small, high, \* the hypergraphs that motivo-hgsplit writes
  graph,       \* the graph that motivo-gaifman writes
  cnt,         \* the .cnt files: "low", "high", "fused", "ie"
  storeOnlyOn0, \* a property of the .info files of "low", "high" and "fused"
  table, ie    \* GLOBAL.i.dtz and GLOBAL.i.ie.dtz

files == <<small, high, graph>>
tables == <<cnt, storeOnlyOn0, table, ie>>
given == <<input, stores>>
pipelineVars == <<given, coloring, at, k, files, tables>>

NoHypergraph == [n |-> 0, he |-> <<>>]
NoTable == <<>>
Everything == [mode |-> "EXCLUDE", structures |-> {}]

Goto(tool) == at' = tool /\ UNCHANGED k

PipelineInit ==
  /\ input \in Inputs
  /\ coloring = <<>>
  /\ stores \in [{"low", "high"} -> BOOLEAN]
  /\ at = IF input.script = "motivo" THEN "gaifman" ELSE "split"
  /\ k = 1
  /\ small = NoHypergraph /\ high = NoHypergraph
  /\ graph = <<>>
  /\ cnt = [f \in {"low", "high", "fused", "ie"} |-> NoTable]
  /\ storeOnlyOn0 = [f \in {"low", "high", "fused"} |-> FALSE]
  /\ table = <<>> /\ ie = <<>>

(* motivo-hgsplit *)
SplitInput ==
  /\ at = "split"
  /\ small' = Small(input.H, input.threshold)
  /\ high' = Large(input.H, input.threshold)
  /\ Goto("gaifman")
  /\ UNCHANGED <<given, coloring, graph, tables>>

(* motivo-gaifman, of the small hyperedges or of all. *)
MakeGraph ==
  /\ at = "gaifman"
  /\ graph' = Adjacency(IF input.script = "motivo" THEN input.H ELSE small, 0, 1)
  /\ Goto("color")
  /\ UNCHANGED <<given, coloring, small, high, tables>>

(* motivo-build --size 1 *)
Color ==
  /\ at = "color"
  /\ coloring' \in Colorings
  /\ cnt' = [cnt EXCEPT !["fused"] = ColorTable(coloring')]
  /\ Goto("merge")
  /\ UNCHANGED <<given, files, storeOnlyOn0, table, ie>>

StoreOnly0(side) == k = MaxSize /\ stores[side]

(* motivo-hyper-build --normalize false *)
BuildHigh ==
  /\ at = "hyper-build"
  /\ cnt' = [cnt EXCEPT !["high"] = BuiltHigh(k, table, ie, StoreOnly0("high"), FALSE, Everything)]
  /\ storeOnlyOn0' = [storeOnlyOn0 EXCEPT !["high"] = StoreOnly0("high")]
  /\ Goto("build")
  /\ UNCHANGED <<given, coloring, files, table, ie>>

(* motivo-build, with --normalize false in the second script only.  In the *)
(* first its file is the one to merge.                                     *)
BuildLow ==
  /\ at = "build"
  /\ LET alone == input.script = "motivo"
         file == IF alone THEN "fused" ELSE "low" IN
     /\ cnt' = [cnt EXCEPT ![file] = BuiltLow(k, graph, table, StoreOnly0("low"), alone, Everything)]
     /\ storeOnlyOn0' = [storeOnlyOn0 EXCEPT ![file] = StoreOnly0("low")]
     /\ Goto(IF alone THEN "merge" ELSE "fuse")
  /\ UNCHANGED <<given, coloring, files, table, ie>>

(* motivo-low-high-merge: the file is written before the properties of the *)
(* two are compared.                                                       *)
Fuse ==
  /\ at = "fuse"
  /\ cnt' = [cnt EXCEPT !["fused"] = Fused(cnt["low"], cnt["high"])]
  /\ IF storeOnlyOn0["low"] = storeOnlyOn0["high"]
       THEN /\ storeOnlyOn0' = [storeOnlyOn0 EXCEPT !["fused"] = storeOnlyOn0["low"]]
            /\ Goto("merge")
       ELSE Goto("failed") /\ UNCHANGED storeOnlyOn0
  /\ UNCHANGED <<given, coloring, files, table, ie>>

(* The next size, or the sampler. *)
NextSize ==
  IF k = MaxSize THEN at' = "sample" /\ UNCHANGED k
  ELSE at' = (IF input.script = "motivo" THEN "build" ELSE "hyper-build") /\ k' = k + 1

(* motivo-merge *)
MergeTable ==
  /\ at = "merge"
  /\ table' = Append(table, cnt["fused"])
  /\ IF input.script = "motivo" THEN NextSize ELSE Goto("nws")
  /\ UNCHANGED <<given, coloring, files, cnt, storeOnlyOn0, ie>>

(* motivo-nws *)
SumNeighbours ==
  /\ at = "nws"
  /\ cnt' = [cnt EXCEPT !["ie"] = NeighbourSums(high, table[k])]
  /\ Goto("merge -e")
  /\ UNCHANGED <<given, coloring, files, storeOnlyOn0, table, ie>>

(* motivo-merge -e *)
MergeSums ==
  /\ at = "merge -e"
  /\ ie' = Append(ie, cnt["ie"])
  /\ NextSize
  /\ UNCHANGED <<given, coloring, files, cnt, storeOnlyOn0, table>>

PipelineNext ==
  \/ SplitInput \/ MakeGraph \/ Color \/ BuildHigh \/ BuildLow \/ Fuse
  \/ MergeTable \/ SumNeighbours \/ MergeSums

-----------------------------------------------------------------------------
(* What the tables are to contain.  A link joins two vertices of a small   *)
(* hyperedge or two of a large one; two vertices may have both.            *)

Joined(u, v, Of(_)) ==
  u # v /\ \E e \in DOMAIN input.H.he : Of(Cardinality(input.H.he[e])) /\ {u, v} \subseteq input.H.he[e]

Links ==
  LET V == Vertices(input.H)
      Pairs(side, Of(_)) ==
        {<<side, {p[1], p[2]}>> : p \in {p \in V \X V : Joined(p[1], p[2], Of)}}
  IN  IF input.script = "motivo" THEN Pairs("low", LAMBDA n : TRUE)
      ELSE Pairs("low", LAMBDA n : n <= input.threshold)
             \cup Pairs("high", LAMBDA n : n > input.threshold)

Ends(links) == UNION {l[2] : l \in links}

(* The links of a tree that hang from u, as the steps of a visit that goes *)
(* to the largest subtree first.                                           *)
RECURSIVE Visit(_, _)
Visit(tree, u) ==
  LET rest == {l \in tree : u \notin l[2]}
      Number(steps) == MapThenSumSet(LAMBDA i : steps[i] * 2 ^ (Bits - i), DOMAIN steps)
      Block(v) == <<1>> \o Visit(rest, v) \o <<0>>
      children == SetToSortSeq(Ends(tree \ rest) \ {u},
                               LAMBDA v, w : Number(Block(v)) > Number(Block(w)))
  IN  FlattenSeq([i \in DOMAIN children |-> Block(children[i])])

ShapeOf(tree, u) ==
  LET steps == Visit(tree, u)
  IN  MapThenSumSet(LAMBDA i : steps[i] * 2 ^ (Bits - i), DOMAIN steps)

(* A set of size - 1 links is a tree if it reaches size vertices from any  *)
(* of its own.                                                             *)
IsTree(links, u, size) ==
  LET reached[n \in 0 .. size] ==
        IF n = 0 THEN {u}
        ELSE reached[n - 1] \cup Ends({l \in links : l[2] \cap reached[n - 1] # {}})
  IN  Cardinality(Ends(links)) = size /\ reached[size] = Ends(links)

Colors(V) == {coloring[v] : v \in V}

(* The colourful trees of a size that contain u. *)
Trees(u, size) ==
  IF size = 1 THEN {{}}
  ELSE {links \in kSubset(size - 1, Links) :
          /\ u \in Ends(links)
          /\ Cardinality(Colors(Ends(links))) = size
          /\ IsTree(links, u, size)}

TreeletAt(tree, u) == [s |-> ShapeOf(tree, u), c |-> Colors(Ends(tree) \cup {u})]

RowOf(u, size) ==
  LET treelets == [tree \in Trees(u, size) |-> TreeletAt(tree, u)]
  IN  SortedRow([t \in {treelets[tree] : tree \in DOMAIN treelets} |->
                   Cardinality({tree \in DOMAIN treelets : treelets[tree] = t})])

(* A table that has been merged has, for every vertex of which rows are    *)
(* stored, the number of colourful trees rooted in it, for each shape and  *)
(* set of colours, in the order of the treelets: whatever hyperedges       *)
(* overlap, and with two vertices that share a small and a large one       *)
(* joined twice.                                                           *)
PipelineIsExact ==
  LET size == Len(table) IN
  at \in (IF input.script = "motivo" THEN {"build", "sample"} ELSE {"nws"}) =>
    \A u \in Vertices(input.H) :
      table[size][u] = IF storeOnlyOn0["fused"] /\ coloring[u] # 0 THEN <<>>
                       ELSE RowOf(u, size)
=============================================================================

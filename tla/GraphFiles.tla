----------------------------- MODULE GraphFiles -----------------------------
(***************************************************************************)
(* The binary graph files: motivo-gaifman, which writes them, motivo-graph, *)
(* which converts them from and to text, and UndirectedGraph, their reader. *)
(*                                                                         *)
(* An offsets file (.gof, or .gof64 with 64-bit numbers) is the number of  *)
(* vertices and of edges and the offset of each vertex's neighbours in the *)
(* .ged file, one more offset than vertices.  A list of neighbours is a    *)
(* sorted sequence of vertices.                                            *)
(***************************************************************************)
EXTENDS HypergraphFiles

CONSTANT MaxOffset \* the largest number of a .gof file, 2^32 - 1

ASSUME OffsetAssumption == MaxOffset \in Nat

(* The neighbours of u: all that share a hyperedge of at most max_m        *)
(* vertices with it; max_m = 0 is no limit.                                *)
Neighbours(H, max_m, u) ==
  (UNION {e \in ToSet(H.he) : u \in e /\ (max_m = 0 \/ Cardinality(e) <= max_m)})
    \ {u}

Chunk(n, threads) == (n + threads - 1) \div threads

(* build_gaifman_threads(): thread t fills its own part of the vertices.   *)
Part(n, threads, t) ==
  {v \in 0 .. n - 1 : v >= t * Chunk(n, threads) /\ v < (t + 1) * Chunk(n, threads)}

(* build_gaifman_serial(), build_gaifman_threads(), and the same loop of   *)
(* the streaming builders and of the exact estimator.                      *)
Adjacency(H, max_m, asked) ==
  LET threads == Max({1, Min({asked, H.n})})
      filled == UNION {Part(H.n, threads, t) : t \in 0 .. threads - 1}
  IN  [u \in Vertices(H) |-> IF u \in filled THEN Sorted(Neighbours(H, max_m, u))
                             ELSE <<>>]

(* estimate_upper_bound(): the entries of the cliques, common ones twice.  *)
UpperBound(H, max_m) ==
  LET cliques == {e \in DOMAIN H.he : max_m = 0 \/ Cardinality(H.he[e]) <= max_m}
      entries == [e \in cliques |-> Cardinality(H.he[e]) * (Cardinality(H.he[e]) - 1)]
  IN  MapThenSumSet(LAMBDA e : entries[e], cliques)

(* estimate_exact_degree_sum() and sum_directed_entries().                 *)
Degrees(lists) == [u \in DOMAIN lists |-> Len(lists[u])]
Directed(adj) == MapThenSumSet(LAMBDA u : Degrees(adj)[u], DOMAIN adj)

(* PairSet: row(u) are the v > u of the pairs.  A file that is missing, cut *)
(* short or not canonical is an empty set.                                 *)
LoadPairs(file) ==
  IF file.M > Cardinality(file.pairs) \/ \E p \in file.pairs : p[1] > p[2]
    THEN {} ELSE file.pairs
Row(pairs, u) == {p[2] : p \in {q \in pairs : q[1] = u}}

(* write_neighbors_filtered_optimized(): a smaller v is looked up between  *)
(* the ends of its row, a larger one in the row of u.                      *)
Kept(u, nbrs, pairs) ==
  LET Allowed(v) ==
        IF v < u
          THEN LET row == Row(pairs, v)
               IN  row = {} \/ Min(row) > u \/ Max(row) < u \/ u \notin row
          ELSE v \notin Row(pairs, u)
  IN  AtPositions(nbrs, {k \in DOMAIN nbrs : Allowed(nbrs[k])})

(* The lists one after the other; offsets wrap beyond the largest number.  *)
Entries(lists) == FlattenSeq([k \in 1 .. Cardinality(DOMAIN lists) |-> lists[k - 1]])
Offsets(lists, largest) ==
  LET n == Cardinality(DOMAIN lists)
      Before(u) == MapThenSumSet(LAMBDA w : Degrees(lists)[w], 0 .. u - 1)
  IN  [u \in 0 .. n |-> Before(u) % (largest + 1)]

(* write_graph_bin32/64() and the ends of the streaming builders.          *)
WriteGraph(disk, lists, wide, WideMax) ==
  LET gof == [n |-> Cardinality(DOMAIN lists),
              edges |-> Len(Entries(lists)) \div 2,
              offsets |-> Offsets(lists, IF wide THEN WideMax ELSE MaxOffset)]
  IN  [disk EXCEPT !.ged = Entries(lists),
                   !.gof = IF wide THEN @ ELSE gof,
                   !.gof64 = IF wide THEN gof ELSE @]

(* Mutant: edges are counted instead of the entries of the .ged file. *)
NeedWideUndirected(H, max_m, adj, stream) == Directed(adj) \div 2 > MaxOffset

(* The format is chosen before anything is excluded, by a bound when the   *)
(* graph is not built in memory.                                           *)
NeedWide(H, max_m, adj, stream) ==
  (IF stream THEN UpperBound(H, max_m) ELSE Directed(adj)) > MaxOffset

(* main() of motivo-gaifman. *)
Gaifman(disk, H, job, pairs, WideMax) ==
  LET adj == Adjacency(H, job.max_m, IF job.stream THEN 1 ELSE job.threads)
      lists == [u \in DOMAIN adj |->
                  IF pairs = {} THEN adj[u] ELSE Kept(u, adj[u], pairs)]
  IN  WriteGraph(disk, lists, NeedWide(H, job.max_m, adj, job.stream), WideMax)

-----------------------------------------------------------------------------
(* UndirectedGraph. *)

None == [n |-> -1]

(* The constructor: the .gof file if there is one, the .gof64 otherwise.   *)
Loaded(disk) == IF disk.gof # None THEN disk.gof ELSE disk.gof64

Degree(G, u) == G.offsets[u + 1] - G.offsets[u]

(* The binary search of has_edge() in entries lo .. hi - 1: the range that  *)
(* is left after each round of the loop, the last one for ever.            *)
BinarySearch(ged, lo, hi, v) ==
  LET Mid(r) == r.begin + (r.end - r.begin) \div 2
      Found(r) == r.begin < r.end /\ ged[Mid(r) + 1] = v
      range[k \in 0 .. Len(ged)] ==
        IF k = 0 THEN [begin |-> lo, end |-> hi]
        ELSE LET r == range[k - 1]
             IN  IF r.begin >= r.end \/ Found(r) THEN r
                 ELSE IF v < ged[Mid(r) + 1] THEN [begin |-> r.begin, end |-> Mid(r)]
                 ELSE [begin |-> Mid(r) + 1, end |-> r.end]
  IN  Found(range[Len(ged)])

(* has_edge(): in the list of the vertex of smaller degree.                *)
HasEdge(disk, u, v) ==
  LET G == Loaded(disk)
      In(a, b) == BinarySearch(disk.ged, G.offsets[a], G.offsets[a + 1], b)
  IN  IF Degree(G, u) <= Degree(G, v) THEN In(u, v) ELSE In(v, u)

-----------------------------------------------------------------------------
(* motivo-graph. *)

ListOf(disk, u) ==
  SubSeq(disk.ged, Loaded(disk).offsets[u] + 1, Loaded(disk).offsets[u + 1])

(* bin2graph(): the header and the lines.  A line of format NODE starts    *)
(* with the vertex, of NODE_DEGREE with its degree, one of LOE is an edge. *)
Dump(disk, format) ==
  LET G == Loaded(disk)
      line == [k \in 1 .. G.n |-> IF format = "LOE"
                 THEN [i \in 1 .. Degree(G, k - 1) |-> <<k - 1, ListOf(disk, k - 1)[i]>>]
                 ELSE <<<<IF format = "NODE" THEN k - 1 ELSE Degree(G, k - 1)>>
                        \o ListOf(disk, k - 1)>>]
  IN  [n |-> G.n, edges |-> G.edges, format |-> format, lines |-> FlattenSeq(line)]

(* The elements of a sequence in order, repeated ones as often as they are. *)
InOrder(seq) ==
  [k \in DOMAIN seq |->
     CHOOSE v \in ToSet(seq) :
       /\ Cardinality({i \in DOMAIN seq : seq[i] < v}) < k
       /\ Cardinality({i \in DOMAIN seq : seq[i] <= v}) >= k]

(* graph2bin(): the lists of neighbours in the file; those of NODE and LOE *)
(* are sorted, those of NODE_DEGREE are taken as they are.                 *)
ReadLists(text) ==
  [u \in 0 .. text.n - 1 |->
     IF text.format = "NODE_DEGREE" THEN Tail(text.lines[u + 1])
     ELSE InOrder(FlattenSeq([k \in DOMAIN text.lines |->
            IF text.lines[k][1] = u THEN Tail(text.lines[k]) ELSE <<>>]))]

(* The checks on the input.  Neither that every edge is in both lists nor  *)
(* that a list of NODE_DEGREE is sorted is among them, and the entries are *)
(* compared with the header as 32-bit numbers.                             *)
ValidText(text) ==
  LET lists == ReadLists(text)
  IN  /\ \A u \in DOMAIN lists :
           ToSet(lists[u]) \subseteq (0 .. text.n - 1) \ {u}
      /\ text.format # "NODE_DEGREE" => \A u \in DOMAIN lists : IsInjective(lists[u])
      /\ (Len(Entries(lists)) - 2 * text.edges) % (MaxOffset + 1) = 0
=============================================================================

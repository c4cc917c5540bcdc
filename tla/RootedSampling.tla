---------------------------- MODULE RootedSampling ----------------------------
(***************************************************************************)
(* One occurrence drawn from the tables of CountingPipeline: by            *)
(* TreeletSampler on the tables of motivo.sh, by HyperTreeletSampler on    *)
(* those of hyper_motivo_mac.sh.  A treelet is taken apart into a parent,  *)
(* rooted in the same vertex, and a child, rooted in another; each is      *)
(* drawn in turn until single vertices are left.                           *)
(*                                                                         *)
(* The recursion is a stack, todo, of treelets with the vertex they are    *)
(* rooted in and the position in occ where their vertices go.              *)
(***************************************************************************)
EXTENDS CountingPipeline

CONSTANTS BufferSize,   \* --buffer-size: decompositions drawn at a time
          BufferDegree, \* --buffer-degree: for vertices of at least this degree
          MaxSamples    \* bound: the occurrences drawn

VARIABLES
  drawn,    \* the root and the treelet of the occurrence
  todo, occ,
  buffers,  \* thread_local: the decompositions drawn for a vertex and treelet
  samples   \* the number of occurrences drawn

samplerVars == <<drawn, todo, occ, buffers, samples>>
vars == <<pipelineVars, samplerVars>>

Blank == [p \in 1 .. MaxSize |-> 0]

Init ==
  /\ PipelineInit
  /\ drawn = <<>> /\ todo = <<>>
  /\ occ = Blank
  /\ buffers = <<>>
  /\ samples = 0

Hyper == input.script = "hyper_motivo"

-----------------------------------------------------------------------------
(* The decompositions of t in u: the entries of a row that may be its      *)
(* child, each with its weight, the count of the child times that of the   *)
(* parent in u.                                                            *)

ChildSize(t) == Size(Child(t.s))
ParentTable(t) == table[Size(t.s) - ChildSize(t)]

Fitting(t, x) == x.t.s = Child(t.s) /\ x.t.c \subseteq t.c

Weighted(u, t, v, row) ==
  LET fit == SelectSeq(row, LAMBDA x : Fitting(t, x))
  IN  [i \in DOMAIN fit |->
         [v |-> v, t |-> fit[i].t,
          w |-> CountIn(ParentTable(t)[u], Complement(t, fit[i].t)) * fit[i].n]]

LowDecompositions(u, t) ==
  FlattenSeq([d \in DOMAIN graph[u] |->
                Weighted(u, t, graph[u][d], table[ChildSize(t)][graph[u][d]])])

(* The vertex of these is drawn later. *)
HighDecompositions(u, t) == Weighted(u, t, u, ie[ChildSize(t)][u])

Mass(list) == FoldSeq(LAMBDA x, sum : sum + x.w, 0, list)

(* The entry of the number r: weights are subtracted until r is below one. *)
Picked(list, r) ==
  list[Min({i \in DOMAIN list : r < Mass(SubSeq(list, 1, i))})]

(* Mutant: a vertex counts once for every hyperedge it shares with u. *)
HighNeighboursRepeated(u, child) ==
  FlattenSeq([i \in 1 .. Len(high.he) |->
    IF u \notin high.he[i] THEN <<>>
    ELSE LET seq == SetToSeq(high.he[i] \ {u})
         IN  [j \in DOMAIN seq |->
                [v |-> seq[j], t |-> child, w |-> CountIn(table[Size(child.s)][seq[j]], child)]]])

(* choose_high_(): the vertices that share a large hyperedge with u, each  *)
(* once.                                                                   *)
HighNeighbours(u, child) ==
  LET near == UNION {high.he[e] : e \in Incident(high, u)} \ {u}
      seq == SetToSeq(near)
  IN  [i \in DOMAIN seq |->
         [v |-> seq[i], t |-> child, w |-> CountIn(table[Size(child.s)][seq[i]], child)]]

(* overlap_reject_half_() may reject the two vertices. *)
InBoth(u, v) == v \in ToSet(graph[u]) /\ Share(high, u, v)

-----------------------------------------------------------------------------

Task(t, u, p) == [t |-> t, u |-> u, p |-> p]

(* The sampler opens the tables. *)
Load ==
  /\ at = "sample"
  /\ Goto("sampling")
  /\ UNCHANGED <<given, coloring, files, tables, samplerVars>>

(* sample_root(), sample_treelet(): by their weights, so never of weight 0. *)
DrawRoot ==
  /\ at = "sampling" /\ todo = <<>>
  /\ samples < MaxSamples
  /\ \E u \in Vertices(input.H) : \E i \in DOMAIN table[MaxSize][u] :
       /\ drawn' = Task(table[MaxSize][u][i].t, u, 1)
       /\ todo' = <<drawn'>>
  /\ occ' = Blank
  /\ samples' = samples + 1
  /\ UNCHANGED <<pipelineVars, buffers>>

(* A single vertex. *)
Place ==
  /\ todo # <<>> /\ Size(Head(todo).t.s) = 1
  /\ occ' = [occ EXCEPT ![Head(todo).p] = Head(todo).u]
  /\ todo' = Tail(todo)
  /\ UNCHANGED <<pipelineVars, drawn, buffers, samples>>

(* Mutant: the child goes first. *)
TakenChildFirst(x, child, v) ==
  LET parent == Complement(x.t, child)
  IN  <<Task(child, v, x.p + 1)>>
        \o IF Size(parent.s) = 1 THEN <<>> ELSE <<Task(parent, x.u, x.p + Size(child.s))>>

(* What is left to do: the parent, whose own root is written where the     *)
(* last vertex of the child goes, then the child.                          *)
Taken(x, child, v) ==
  LET parent == Complement(x.t, child)
  IN  (IF Size(parent.s) = 1 THEN <<>> ELSE <<Task(parent, x.u, x.p + Size(child.s))>>)
        \o <<Task(child, v, x.p + 1)>>

Decompose(child, v) ==
  /\ occ' = [occ EXCEPT ![Head(todo).p] = Head(todo).u]
  /\ todo' = Taken(Head(todo), child, v) \o Tail(todo)
  /\ UNCHANGED <<pipelineVars, drawn, samples>>

NextTask(x) == todo # <<>> /\ x = Head(todo) /\ Size(x.t.s) > 1

Buffered(u) == BufferSize # 0 /\ Len(graph[u]) >= BufferDegree

(* The mass to draw from, as TreeletSampler takes it from the table. *)
Expected(u, t) == CountIn(table[Size(t.s)][u], t) * NormalizationFactor(t.s)

DrawLow(x) ==
  /\ ~Hyper /\ NextTask(x) /\ ~Buffered(x.u)
  /\ \E r \in 0 .. Expected(x.u, x.t) - 1 :
       LET d == Picked(LowDecompositions(x.u, x.t), r) IN Decompose(d.t, d.v)
  /\ UNCHANGED buffers

BufferOf(x) == LET key == <<x.u, x.t>> IN IF key \in DOMAIN buffers THEN buffers[key] ELSE <<>>

(* populate_buffer(): decompositions of increasing numbers. *)
Populate(x) ==
  /\ ~Hyper /\ NextTask(x) /\ Buffered(x.u)
  /\ BufferOf(x) = <<>>
  /\ \E r \in [1 .. BufferSize -> 0 .. Expected(x.u, x.t) - 1] :
       /\ \A i \in 2 .. BufferSize : r[i - 1] <= r[i]
       /\ LET list == LowDecompositions(x.u, x.t)
              entry == [i \in 1 .. BufferSize |->
                          [v |-> Picked(list, r[i]).v, t |-> Picked(list, r[i]).t]]
          IN  buffers' = [key \in DOMAIN buffers \cup {<<x.u, x.t>>} |->
                            IF key = <<x.u, x.t>> THEN entry ELSE buffers[key]]
  /\ UNCHANGED <<pipelineVars, drawn, todo, occ, samples>>

(* pop(): from the end. *)
Pop(x) ==
  /\ ~Hyper /\ NextTask(x) /\ Buffered(x.u)
  /\ BufferOf(x) # <<>>
  /\ Decompose(Last(BufferOf(x)).t, Last(BufferOf(x)).v)
  /\ buffers' = [buffers EXCEPT ![<<x.u, x.t>>] = Front(@)]

(* HyperTreeletSampler: a decomposition of either side; if its vertices    *)
(* are joined on both, the whole occurrence may be started again.          *)
Restart == todo' = <<drawn>> /\ UNCHANGED <<pipelineVars, drawn, occ, samples>>

Accept(x, child, v) ==
  \/ Decompose(child, v)
  \/ InBoth(x.u, v) /\ Restart

DrawHyper(x) ==
  /\ Hyper /\ NextTask(x)
  /\ LET low == LowDecompositions(x.u, x.t)
         big == HighDecompositions(x.u, x.t) IN
     \/ \E r \in 0 .. Mass(low) - 1 :
          Accept(x, Picked(low, r).t, Picked(low, r).v)
     \/ \E r \in 0 .. Mass(big) - 1 :
          LET near == HighNeighbours(x.u, Picked(big, r).t) IN
          \E q \in 0 .. Mass(near) - 1 : Accept(x, Picked(big, r).t, Picked(near, q).v)
  /\ UNCHANGED buffers

SamplerNext ==
  \/ Load \/ DrawRoot \/ Place
  \/ \E x \in ToSet(todo) : DrawLow(x) \/ Populate(x) \/ Pop(x) \/ DrawHyper(x)

Next == (PipelineNext /\ UNCHANGED samplerVars) \/ SamplerNext

Spec == Init /\ [][Next]_vars

-----------------------------------------------------------------------------

(* Whatever treelet is to be taken apart in whatever vertex, its           *)
(* decompositions weigh as much as the number that is drawn is taken to    *)
(* range over: its count, once for every child equal to the first.  A      *)
(* child drawn on the large hyperedges weighs as much as its occurrences   *)
(* in the vertices that may then be drawn for it.  Otherwise a draw would  *)
(* run past the end, or favour some occurrences.                           *)
MassIsCount ==
  \A i \in DOMAIN todo :
    LET x == todo[i] IN
    Size(x.t.s) > 1 =>
      LET big == IF Hyper THEN HighDecompositions(x.u, x.t) ELSE <<>> IN
      /\ Expected(x.u, x.t) > 0
      /\ Mass(LowDecompositions(x.u, x.t)) + Mass(big) = Expected(x.u, x.t)
      /\ \A d \in ToSet(big) :
           Mass(HighNeighbours(x.u, d.t)) = CountIn(ie[Size(d.t.s)][x.u], d.t)

(* The occurrence that comes out is a copy of the treelet drawn: distinct  *)
(* vertices of its colours, and neighbours wherever the treelet has an     *)
(* edge, at the positions of its visit.                                    *)
OccurrenceIsCopy ==
  at = "sampling" /\ samples > 0 /\ todo = <<>> =>
    /\ occ[1] = drawn.u
    /\ Cardinality(Range(occ)) = MaxSize
    /\ Colors(Range(occ)) = drawn.t.c
    /\ \A p \in 2 .. MaxSize :
         \E l \in Links : l[2] = {occ[p], occ[ParentOf(drawn.t.s, p)]}
=============================================================================

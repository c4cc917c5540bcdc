---------------------------- MODULE SampleTables ----------------------------
(***************************************************************************)
(* What motivo-sample makes of its samples: the naive sampler's, drawn     *)
(* from the tables, in a HyperSampleTable, and those of --smart-stars, in  *)
(* a SampleTable.  A table is sorted and grouped by footprint, the         *)
(* rooted spanning trees of each footprint are counted by a pool of        *)
(* threads, and the number of occurrences in the hypergraph is estimated.  *)
(*                                                                         *)
(* A footprint is a set of sets of positions: the columns of the incidence *)
(* matrix of a HyperOccurrence, the edges of an Occurrence.                *)
(***************************************************************************)
EXTENDS SpanningTrees, HypergraphFiles

CONSTANTS Requests, \* the options, the hypergraph and the selector
          Threads   \* the threads that --threads may start

VARIABLES
  request, at,
  census,       \* history: every copy has been drawn, and drawn once
  entries, num_samples,
  heads,        \* where the entries of each footprint start, and their end
  next, batch   \* the DynamicSequencer and what each thread has to do

vars == <<request, at, census, entries, num_samples, heads, next, batch>>
pool == <<heads, next, batch>>

(* A set in some order. *)
Listed(S) == FoldSet(LAMBDA x, seq : Append(seq, x), <<>>, S)

Idle == [from |-> 0, to |-> 0]

Init ==
  /\ request \in Requests
  /\ at = "sample"
  /\ census = FALSE
  /\ entries = <<>> /\ num_samples = 0
  /\ heads = <<>> /\ next = 0
  /\ batch = [t \in Threads |-> Idle]

-----------------------------------------------------------------------------
(* What may be drawn: the vertices of a copy in the order of the visit,    *)
(* with its root and its edges.                                            *)

Joined(H, u, v) == u # v /\ Share(H, u, v)

(* The structures that motivo-build keeps, by size. *)
Shapes(k, sel) ==
  LET shapes[n \in 1 .. k] ==
        IF n = 1 THEN {0}
        ELSE {s \in UNION {{Merge([s |-> a, c |-> {0}], [s |-> b, c |-> {1}]).s :
                              a \in shapes[i], b \in shapes[n - i]} : i \in 1 .. n - 1} :
                s # Invalid /\ IsIncluded(sel, s)}
  IN  shapes[k]

Arrangements(H, k) ==
  UNION {SetToSeqs(S) : S \in kSubset(k, Vertices(H))}

TreeletCopies(H, k, sel) ==
  UNION {LET parent == [p \in 2 .. k |-> ParentOf(s, p)]
         IN  {[u |-> u, root |-> u[1],
               edges |-> {{u[p], u[parent[p]]} : p \in 2 .. k}] :
                u \in {u \in Arrangements(H, k) :
                         \A p \in 2 .. k : Joined(H, u[p], u[parent[p]])}} :
           s \in Shapes(k, sel)}

(* OccurrenceStarSampler: k - 1 neighbours of a root, then the root. *)
StarCopies(H, k) ==
  {[u |-> u, root |-> u[k], edges |-> {{u[i], u[k]} : i \in 1 .. k - 1}] :
     u \in {u \in Arrangements(H, k) : \A i \in 1 .. k - 1 : Joined(H, u[i], u[k])}}

Drawable ==
  IF request.stars THEN StarCopies(request.H, request.k)
  ELSE TreeletCopies(request.H, request.k, request.sel)

Copies == {[root |-> d.root, edges |-> d.edges] : d \in Drawable}

-----------------------------------------------------------------------------
(* An occurrence. *)

(* build_weak_and_incidence(): the restrictions of the hyperedges to u.    *)
Columns(H, u) ==
  {m \in {{i \in DOMAIN u : u[i] \in e} : e \in ToSet(H.he)} : Cardinality(m) > 1}

PairsOf(columns) == {e \in UNION {SUBSET m : m \in columns} : Cardinality(e) = 2}

Footprint(u) ==
  IF request.stars THEN PairsOf(Columns(request.H, u)) ELSE Columns(request.H, u)

(* nauty: one footprint stands for all that differ by a permutation. *)
Canonical(print) ==
  LET K == 1 .. request.k
  IN  CHOOSE c \in {{{p[i] : i \in m} : m \in print} : p \in Permutations(K)} : TRUE

Entry(u) ==
  [print |-> IF request.canonicize THEN Canonical(Footprint(u)) ELSE Footprint(u),
   edges |-> PairsOf(Columns(request.H, u)),
   verts |-> ToSet(u), n |-> 1, trees |-> 0, estimate |-> <<0, 1>>]

(* sample(): one copy in any arrangement, or each in one of its own.       *)
Sample ==
  /\ at = "sample"
  /\ \/ /\ census' = TRUE
        /\ LET draw(c) == CHOOSE d \in Drawable : d.root = c.root /\ d.edges = c.edges
               all == Listed(Copies)
           IN  entries' = [i \in DOMAIN all |-> Entry(draw(all[i]).u)]
     \/ /\ census' = FALSE
        /\ \E d \in Drawable : entries' = <<Entry(d.u)>>
  /\ num_samples' = Len(entries')
  /\ at' = "sort"
  /\ UNCHANGED <<request, pool>>

-----------------------------------------------------------------------------

(* sort_by_footprint() *)
SortByFootprint ==
  /\ at = "sort"
  /\ LET prints == Listed({e.print : e \in ToSet(entries)})
     IN  entries' = FlattenSeq([i \in DOMAIN prints |->
                      SelectSeq(entries, LAMBDA e : e.print = prints[i])])
  /\ at' = IF request.group THEN "group" ELSE "count"
  /\ UNCHANGED <<request, census, num_samples, pool>>

(* The first entry of each footprint, and one past the last. *)
HeadsOf(table) ==
  LET first == {i \in DOMAIN table : i = 1 \/ table[i].print # table[i - 1].print}
  IN  SortSeq(Listed(first \cup {Len(table) + 1}), <)

(* Mutant: the entries of a footprint after the first are not added to it. *)
GroupedKeepFirst(table) ==
  LET h == HeadsOf(table) IN [d \in 1 .. Len(h) - 1 |-> table[h[d]]]

(* A SampleTable adds one for every entry, a HyperSampleTable its count.   *)
Grouped(table) ==
  LET h == HeadsOf(table)
      Added(i) == IF request.stars THEN 1 ELSE table[i].n
  IN  [d \in 1 .. Len(h) - 1 |->
         [table[h[d]] EXCEPT !.n =
            @ + MapThenSumSet(Added, h[d] + 1 .. h[d + 1] - 1)]]

(* group_by_footprint() *)
GroupByFootprint ==
  /\ at = "group"
  /\ entries' = Grouped(entries)
  /\ at' = "count"
  /\ UNCHANGED <<request, census, num_samples, pool>>

-----------------------------------------------------------------------------
(* count_rooted_spanning_trees(), count_rooted_spanning_stars(). *)

Trees(e) ==
  LET occ == [k |-> request.k, edges |-> e.edges]
  IN  IF request.stars THEN Stars(occ) \div request.k ELSE RootedSpanningTrees(occ, request.sel)

(* The entries of footprint d get the count of the first of them. *)
Counted(table, h, d) ==
  [i \in DOMAIN table |->
     IF i \in h[d] .. h[d + 1] - 1 THEN [table[i] EXCEPT !.trees = Trees(table[h[d]])]
     ELSE table[i]]

StartCounting ==
  /\ at = "count"
  /\ heads' = HeadsOf(entries)
  /\ at' = IF entries = <<>> THEN "estimate" ELSE "counting"
  /\ UNCHANGED <<request, census, entries, num_samples, next, batch>>

(* --threads 1, and the spanning stars. *)
CountAll ==
  /\ at = "counting" /\ (request.stars \/ request.threads = 1)
  /\ entries' = [i \in DOMAIN entries |->
       LET d == CHOOSE d \in 1 .. Len(heads) - 1 : i \in heads[d] .. heads[d + 1] - 1
       IN  [entries[i] EXCEPT !.trees = Trees(entries[heads[d]])]]
  /\ at' = "estimate"
  /\ UNCHANGED <<request, census, num_samples, pool>>

Sequencer ==
  INSTANCE DynamicSequencer WITH
    end_exclusive <- Len(heads) - 1, nthreads <- request.threads, BatchesPerThread <- 100

Pool == 1 .. request.threads
Counting(t) == at = "counting" /\ ~request.stars /\ request.threads > 1 /\ t \in Pool

NextBatch(t) ==
  /\ Counting(t) /\ batch[t] = Idle
  /\ batch' = [batch EXCEPT ![t] = Sequencer!Batch(next)]
  /\ next' = Sequencer!Advanced(next)
  /\ UNCHANGED <<request, at, census, entries, num_samples, heads>>

CountOne(t) ==
  /\ Counting(t) /\ batch[t].from < batch[t].to
  /\ LET i == batch[t].from
     IN  /\ entries' = Counted(entries, heads, i + 1)
         /\ batch' = [batch EXCEPT ![t] =
                        IF i + 1 = @.to THEN Idle ELSE [@ EXCEPT !.from = i + 1]]
  /\ UNCHANGED <<request, at, census, num_samples, heads, next>>

(* A thread ends with the first empty batch. *)
Ended(t) == batch[t] # Idle /\ batch[t].from = batch[t].to

JoinCounting ==
  /\ at = "counting" /\ ~request.stars /\ request.threads > 1
  /\ \A t \in Pool : Ended(t)
  /\ at' = "estimate"
  /\ UNCHANGED <<request, census, entries, num_samples, pool>>

-----------------------------------------------------------------------------

(* estimate_occurrences(), as a fraction, of a total that is as large as   *)
(* it is on average over the colourings; the entries are then sorted.      *)
EstimateOccurrences ==
  /\ at = "estimate"
  /\ entries' =
       IF ~request.estimate THEN entries
       ELSE SortSeq([i \in DOMAIN entries |->
              [entries[i] EXCEPT !.estimate =
                 IF entries[i].trees = 0 THEN <<0, 1>>
                 ELSE <<entries[i].n * Cardinality(Copies), num_samples * entries[i].trees>>]],
              LAMBDA a, b : a.estimate[1] * b.estimate[2] > b.estimate[1] * a.estimate[2])
  /\ at' = "written"
  /\ UNCHANGED <<request, census, num_samples, pool>>

Next ==
  \/ Sample \/ SortByFootprint \/ GroupByFootprint
  \/ StartCounting \/ CountAll \/ JoinCounting \/ EstimateOccurrences
  \/ \E t \in Threads : NextBatch(t) \/ CountOne(t)

Spec == Init /\ [][Next]_vars

-----------------------------------------------------------------------------
(* Properties. *)

Spans(c, S) == UNION c.edges = S

(* Once the threads are done every entry has the number of copies of the   *)
(* treelets counted that span its occurrence, by whichever formula and     *)
(* whichever thread it was found, and every sample is in an entry.         *)
SpanningTreesAreExact ==
  at = "estimate" =>
    /\ \A e \in ToSet(entries) :
         e.trees = Cardinality({c \in Copies : Spans(c, e.verts)})
    /\ FoldSeq(LAMBDA e, sum : sum + e.n, 0, entries) = num_samples

(* The occurrences that a copy spans, up to isomorphism. *)
Spanned == {S \in kSubset(request.k, Vertices(request.H)) : \E c \in Copies : Spans(c, S)}
Kind(S) == Canonical(Footprint(SetToSeq(S)))

(* Nothing in the estimates is biased: if every copy is sampled as often   *)
(* as any other, the estimates of the entries that are the same up to      *)
(* isomorphism add up to the number of such occurrences in the hypergraph. *)
EstimatesAreExact ==
  at = "written" /\ census /\ request.estimate =>
    LET kinds == [i \in DOMAIN entries |-> Kind(entries[i].verts)]
    IN  /\ {Kind(S) : S \in Spanned} = Range(kinds)
        /\ \A i \in DOMAIN entries :
             LET alike == {j \in DOMAIN entries : kinds[j] = kinds[i]}
             IN  /\ \A j \in alike : entries[j].estimate[2] = entries[i].estimate[2]
                 /\ MapThenSumSet(LAMBDA j : entries[j].estimate[1], alike)
                      = Cardinality({S \in Spanned : Kind(S) = kinds[i]}) * entries[i].estimate[2]
=============================================================================

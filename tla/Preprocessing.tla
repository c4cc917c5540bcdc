---------------------------- MODULE Preprocessing ----------------------------
(***************************************************************************)
(* The tools run before a build, and the files they leave for each other:  *)
(* motivo-hypergraph, motivo-dedup, motivo-hgsplit, motivo-gaifman and     *)
(* motivo-graph.  A tool is one step.  The graph is written over and over  *)
(* to the same basename, as by somebody who tries several options.         *)
(***************************************************************************)
EXTENDS GraphFiles

CONSTANTS Texts,      \* the text files given to motivo-hypergraph
          Thresholds, \* the values of --threshold; 0 stands for auto
          Jobs,       \* the options of motivo-gaifman
          Formats,    \* the formats of motivo-graph
          Decay       \* the inverse of naive_decay

(* A line of text is a sequence of vertices: what is not a digit separates *)
(* them.                                                                   *)
ASSUME TextsAssumption == \A lines \in Texts : lines \in Seq(Seq(Nat))

Files == {"H", "LOW", "HIGH"}

ASSUME JobsAssumption ==
  /\ Jobs \subseteq [base : Files, max_m : Nat, threads : Nat, stream : BOOLEAN,
                     exclude : BOOLEAN]
  /\ Formats \subseteq {"LOE", "NODE", "NODE_DEGREE"}

VARIABLES
  stage,        \* which tools have been run
  hg,           \* the hypergraph files: the input, LOW and HIGH
  original,     \* history: the hypergraph before motivo-dedup
  pairs,        \* the .pairs file: its header M and the pairs that follow
  disk,         \* the files of the graph
  job,          \* history: what the graph on disk was made from, and whether
                \* the .gof file that is read first is not that graph's
  text          \* the text file of motivo-graph

vars == <<stage, hg, original, pairs, disk, job, text>>

Wide == 2 ^ 30 \* stands for the largest number of a .gof64 file

Init ==
  /\ stage = "text"
  /\ hg = [b \in Files |-> None]
  /\ original = None
  /\ pairs = [M |-> 0, pairs |-> {}]
  /\ disk = [gof |-> None, gof64 |-> None, ged |-> <<>>]
  /\ job = None /\ text = None

(* hypergraph2bin(). *)
Convert ==
  /\ stage = "text"
  /\ \E lines \in Texts : \E he \in SortedBySize(ReadText(lines)) :
       /\ hg' = [hg EXCEPT !.H = WriteHypergraph(he)]
       /\ original' = hg'.H
  /\ stage' = "hypergraph"
  /\ UNCHANGED <<pairs, disk, job, text>>

DedupStep ==
  /\ stage = "hypergraph"
  /\ hg' = [hg EXCEPT !.H = Dedup(@)]
  /\ stage' = "dedup"
  /\ UNCHANGED <<original, pairs, disk, job, text>>

(* main() of motivo-hgsplit. *)
Split ==
  /\ stage \in {"hypergraph", "dedup"}
  /\ \E t \in Thresholds :
       LET threshold == IF t = 0 THEN BestAlpha(hg.H, Decay) ELSE t
           low == Small(hg.H, threshold)
           high == Large(hg.H, threshold)
           overlap == OverlapPairs(low, high)
       IN  /\ hg' = [hg EXCEPT !.LOW = low, !.HIGH = high]
           /\ pairs' = [M |-> Cardinality(overlap), pairs |-> overlap]
  /\ stage' = "split"
  /\ UNCHANGED <<original, disk, job, text>>

(* The .pairs file loses its last pair, and with it the others. *)
CutPairs ==
  /\ stage = "split" /\ pairs.M = Cardinality(pairs.pairs) /\ pairs.M > 0
  /\ \E p \in pairs.pairs : pairs' = [pairs EXCEPT !.pairs = @ \ {p}]
  /\ UNCHANGED <<stage, hg, original, disk, job, text>>

RunGaifman ==
  /\ stage = "split"
  /\ \E j \in Jobs :
       LET excluded == IF j.exclude THEN LoadPairs(pairs) ELSE {}
           adj == Adjacency(hg[j.base], j.max_m, j.threads)
       IN  /\ disk' = Gaifman(disk, hg[j.base], j, excluded, Wide)
           /\ job' = [base |-> j.base, max_m |-> j.max_m, excluded |-> excluded,
                      hidden |-> disk.gof # None
                                   /\ NeedWide(hg[j.base], j.max_m, adj, j.stream)]
  /\ text' = None
  /\ UNCHANGED <<stage, hg, original, pairs>>

(* motivo-graph --dump; a graph with too many edges is refused.            *)
DumpGraph ==
  /\ job # None /\ text = None
  /\ ~job.hidden /\ Loaded(disk).edges <= MaxOffset
  /\ \E f \in Formats : text' = Dump(disk, f)
  /\ UNCHANGED <<stage, hg, original, pairs, disk, job>>

(* motivo-graph, from the text to a .gof file, whose offsets may wrap. *)
ImportGraph ==
  /\ text # None /\ ValidText(text)
  /\ disk' = WriteGraph(disk, ReadLists(text), FALSE, Wide)
  /\ job' = [job EXCEPT !.hidden = Len(disk'.ged) > MaxOffset]
  /\ UNCHANGED <<stage, hg, original, pairs, text>>

Next ==
  \/ Convert \/ DedupStep \/ Split \/ CutPairs
  \/ RunGaifman \/ DumpGraph \/ ImportGraph

Spec == Init /\ [][Next]_vars

-----------------------------------------------------------------------------
(* Properties. *)

Together(H, u, v) == \E e \in ToSet(H.he) : {u, v} \subseteq e

Both(V) == {p \in V \X V : p[1] < p[2]}

(* motivo-dedup keeps what two vertices have to do with each other: those  *)
(* of different classes share a hyperedge iff their classes do, and each   *)
(* vertex with a hyperedge has a class that the output knows, though the   *)
(* number of vertices is taken from the largest vertex that is written.    *)
DedupIsQuotient ==
  stage = "dedup" =>
    \A p \in Both(Vertices(original)) :
      LET c == ClassOf(original, p[1])
          d == ClassOf(original, p[2])
      IN  /\ Incident(original, p[1]) # {} => c \in Vertices(hg.H)
          /\ c # d => (Together(original, p[1], p[2]) <=> Together(hg.H, c, d))
          /\ c = d => Incident(original, p[1]) = Incident(original, p[2])

(* LOW and HIGH together are the whole hypergraph: two vertices share a    *)
(* hyperedge iff they do in one of them, and the .pairs file, until it is  *)
(* damaged, holds those that do in both, so that the LOW graph without     *)
(* them and the HIGH hypergraph have no pair in common.                    *)
SplitIsExact ==
  stage = "split" =>
    /\ Len(hg.LOW.he) + Len(hg.HIGH.he) = Len(hg.H.he)
    /\ \A p \in Both(Vertices(hg.H)) :
         LET low == Together(hg.LOW, p[1], p[2])
             high == Together(hg.HIGH, p[1], p[2])
         IN  /\ Together(hg.H, p[1], p[2]) <=> low \/ high
             /\ p \in pairs.pairs => low /\ high
             /\ low /\ high /\ pairs.M = Cardinality(pairs.pairs) => p \in pairs.pairs

(* The files hold the graph that was asked for, however it was built       *)
(* (serially, by several threads, streamed) and in whichever format, and   *)
(* has_edge() finds each edge from both ends; a dump read back is the same *)
(* graph.  Not so for a .gof64 file beside an older .gof, which the reader *)
(* prefers, nor for a large graph read back from text, whose offsets wrap. *)
GraphIsFaithful ==
  (job # None /\ ~job.hidden) =>
    /\ Loaded(disk).n = hg[job.base].n
    /\ \A p \in Both(Vertices(hg[job.base])) :
         LET found == /\ \E e \in ToSet(hg[job.base].he) :
                           /\ {p[1], p[2]} \subseteq e
                           /\ job.max_m = 0 \/ Cardinality(e) <= job.max_m
                      /\ p \notin job.excluded
         IN  /\ HasEdge(disk, p[1], p[2]) <=> found
             /\ HasEdge(disk, p[2], p[1]) <=> found
=============================================================================

---------------------- MODULE MultithreadedBuilderInv ----------------------
(***************************************************************************)
(* The inductive invariant behind the safety of MultithreadedBuilder: why  *)
(* the flags, the three fetch_adds and the virtual edge together write     *)
(* every vertex once.  TLC checks it here, MultithreadedBuilderProofs      *)
(* proves it for every number of threads and every graph.                  *)
(***************************************************************************)
EXTENDS MultithreadedBuilder

(* next_vertex is incremented once per vertex and once more per thread; it *)
(* must not wrap around, or vertex 0 is handed out again.                  *)
Headroom == ToVertex + 1 + NThreads <= MaxVertex

InPhase1 == main_i < NThreads

Labels1 == {"fetch", "signal", "loop", "joined"}
Labels2 == {"claim", "register", "allocate", "combine", "next", "account",
            "merge", "done"}

Used == {s \in Slots : s < missing_vertices}

(* Thread t has found no vertex left. *)
Exhausted(t) ==
  pc[t] \in {"signal", "loop", "joined"} /\ current_vertex[t] > ToVertex

(* Thread t owns the vertex current_vertex[t], in phase 1. *)
Holds(t) == pc[t] \in {"loop", "joined"} /\ current_vertex[t] <= ToVertex

(* The table of the first n edges. *)
Prefix(n) == [e \in EdgeIds |-> IF e < n THEN 1 ELSE 0]

(* Thread t is busy with slot s, between its first fetch_add and its       *)
(* account, or merging it.                                                 *)
At(t, s) == Working(t) /\ SlotOf(t) = s
Winner(t, s) == pc[t] = "merge" /\ SlotOf(t) = s

(* The edges thread t has taken and not accounted: combined, or about to.  *)
Pending(t) ==
  IF pc[t] \in {"register", "allocate", "combine"} THEN {d[t]}
  ELSE IF pc[t] = "account" THEN Virtual(t) ELSE {}
Owned(t) == mine[t] \cup Pending(t)

AllAccounted(s) == accounted[s] = 0 .. slot_edges[s]

(* The edges of slot s that are in one of its tables. *)
Combined(s, e) ==
  e \in accounted[s] \/ \E t \in Threads : At(t, s) /\ e \in mine[t]

-----------------------------------------------------------------------------
(* Which labels go with which phase, and how far a thread's index goes. *)
LabelInv ==
  /\ InPhase1 => \A t \in Threads :
       /\ pc[t] \in Labels1
       /\ pc[t] = "signal" => idx[t] < NThreads
       /\ pc[t] # "signal" => idx[t] = 0
  /\ ~InPhase1 => \A t \in Threads :
       /\ pc[t] \in Labels2
       /\ idx[t] <= missing_vertices
       /\ Working(t) \/ pc[t] = "merge" => idx[t] < missing_vertices
       /\ pc[t] = "done" => idx[t] = missing_vertices

(* How the flags spread: whoever raises them has run out of vertices. *)
FlagInv ==
  InPhase1 => \A t \in Threads :
    /\ pc[t] = "signal" =>
         /\ current_vertex[t] > ToVertex
         /\ \A u \in Threads : u < idx[t] => terminate_flag[u]
    /\ pc[t] = "loop" /\ current_vertex[t] > ToVertex => terminate_flag[t]
    /\ pc[t] = "joined" => terminate_flag[t]
    /\ terminate_flag[t] => \E u \in Threads : Exhausted(u)

(* How many slots are in use: the thread that ran out of vertices gives    *)
(* none, so there is always room for the others.                           *)
MissingInv ==
  /\ InPhase1 /\ main_i > 0 => \A t \in Threads : pc[t] = "joined"
  /\ missing_vertices <= main_i
  /\ (\E t \in Threads : t < main_i /\ current_vertex[t] > ToVertex)
       => missing_vertices < main_i
  /\ ~InPhase1 => missing_vertices < NThreads
  /\ returned => ~InPhase1 /\ \A t \in Threads : pc[t] = "done"

ControlInv == LabelInv /\ FlagInv /\ MissingInv

(* The vertex counter: how far past the last vertex it can be. *)
CounterInv ==
  /\ next_vertex >= FromVertex
  /\ InPhase1 /\ next_vertex > ToVertex + 1 =>
       next_vertex <= ToVertex + 1 + Cardinality({t \in Threads : Exhausted(t)})
  /\ InPhase1 => \A t \in Threads : Exhausted(t) => next_vertex > ToVertex
  /\ ~InPhase1 => next_vertex > ToVertex

(* Phase 1: a vertex below the counter is written, or owned by exactly one *)
(* thread or slot, whose table holds the edges it has gone through.        *)
HoldOK(t) ==
  /\ current_vertex[t] \in Requested
  /\ current_vertex[t] < next_vertex
  /\ edges_to_process[t] = EdgesToProcess(current_vertex[t])
  /\ next_edge[t] <= edges_to_process[t]
  /\ table[t] = Prefix(next_edge[t])
  /\ output[current_vertex[t]] = <<>>

HoldInv ==
  InPhase1 =>
    /\ \A t \in Threads : pc[t] = "fetch" => table[t] = EmptyTable
    /\ \A t \in Threads : Holds(t) => HoldOK(t)
    /\ \A t, u \in Threads : t # u /\ Holds(t) /\ Holds(u)
         => current_vertex[t] # current_vertex[u]
    /\ \A t \in Threads, s \in Used : t >= main_i /\ Holds(t)
         => vertex[s] # current_vertex[t]

HandedOut(v) == v \in Requested /\ v < next_vertex

VertexOK(v) ==
  /\ ~HandedOut(v) => output[v] = <<>>
  /\ HandedOut(v) =>
       \/ output[v] = <<CompleteTable(v)>>
       \/ InPhase1 /\ \E t \in Threads :
            t >= main_i /\ Holds(t) /\ current_vertex[t] = v
       \/ \E s \in Used : vertex[s] = v

VertexInv == \A v \in AllVertices : VertexOK(v)

Phase1Inv == HoldInv /\ VertexInv

(* Slots: which vertex a slot stands for, and what it starts from. *)
SlotOK(s) ==
  /\ vertex[s] \in Requested
  /\ vertex[s] < next_vertex
  /\ slot_edges[s] = EdgesToProcess(vertex[s])

FreshSlot(s) ==
  /\ slot_next[s] <= slot_edges[s]
  /\ processed_edges[s] = slot_next[s]
  /\ accounted[s] = 0 .. slot_next[s] - 1
  /\ live[s] = {0}
  /\ tables[s][0] = Prefix(slot_next[s])
  /\ output[vertex[s]] = <<>>

SlotInv ==
  /\ \A s \in Used : SlotOK(s)
  /\ \A r, s \in Used : r # s => vertex[r] # vertex[s]
  /\ InPhase1 => /\ \A s \in Slots : enrolled[s] = {} /\ num_workers[s] = 0
                 /\ \A s \in Used : FreshSlot(s)

-----------------------------------------------------------------------------
(* Phase 2, edges: each number below slot_next has been accounted or is in *)
(* the hands of exactly one thread, and the counters count these sets.     *)
HandOK(t) ==
  /\ IsFiniteSet(mine[t]) /\ processed[t] = Cardinality(mine[t])
  /\ mine[t] \subseteq 0 .. slot_edges[SlotOf(t)] - 1
  /\ Owned(t) # {}
  /\ Owned(t) \subseteq 0 .. slot_next[SlotOf(t)] - 1
  /\ Owned(t) \cap accounted[SlotOf(t)] = {}
  /\ pc[t] \in {"register", "allocate", "combine"} =>
       d[t] < slot_edges[SlotOf(t)] /\ d[t] \notin mine[t]
  /\ pc[t] = "register" => mine[t] = {}
  /\ pc[t] = "account" =>
       d[t] >= slot_edges[SlotOf(t)] /\ d[t] < slot_next[SlotOf(t)]

AccountOK(s) ==
  /\ IsFiniteSet(accounted[s])
  /\ processed_edges[s] = Cardinality(accounted[s])
  /\ accounted[s] \subseteq 0 .. slot_edges[s]
  /\ accounted[s] \subseteq 0 .. slot_next[s] - 1
  /\ \A e \in 0 .. slot_edges[s] : e < slot_next[s] =>
       e \in accounted[s] \/ \E t \in Threads : At(t, s) /\ e \in Owned(t)

(* Every number of slot s has been taken. *)
Passed(s) == slot_next[s] > slot_edges[s]

HandInv == \A t \in Threads : Working(t) => HandOK(t)
DisjointInv ==
  \A t, u \in Threads : t # u /\ Working(t) /\ Working(u) /\ SlotOf(t) = SlotOf(u)
    => Owned(t) \cap Owned(u) = {}
AccountInv == \A s \in Used : AccountOK(s)
PassedInv ==
  \A t \in Threads :
    /\ \A j \in 0 .. NThreads : j < idx[t] => Passed((t + j) % missing_vertices)
    /\ pc[t] = "merge" => Passed(SlotOf(t))

EdgeInv == ~InPhase1 => HandInv /\ DisjointInv /\ AccountInv /\ PassedInv

(* Phase 2, winners: a slot whose edges are all accounted has one winner,  *)
(* or is written; the others have neither.                                 *)
WinnerOK(s) ==
  /\ \A t \in Threads : Winner(t, s) =>
       /\ AllAccounted(s)
       /\ output[vertex[s]] = <<>>
       /\ \A u \in Threads : Winner(u, s) => u = t
  /\ AllAccounted(s) => \/ \E t \in Threads : Winner(t, s)
                        \/ output[vertex[s]] = <<CompleteTable(vertex[s])>>
  /\ ~AllAccounted(s) => output[vertex[s]] = <<>>

WinnerInv == ~InPhase1 => \A s \in Used : WinnerOK(s)

(* Phase 2, workers: the worker numbers handed out are those of threads    *)
(* that took one, no two threads fill the same table, and the tables the   *)
(* winner reads exist.                                                     *)
SlotWorkers(s) ==
  /\ num_workers[s] = Cardinality(enrolled[s])
  /\ 0 \in live[s]
  /\ \A w \in live[s] : w > 0 => w < num_workers[s]
  /\ ~AllAccounted(s) =>
       \A w \in Threads : w > 0 /\ w < num_workers[s] =>
         \/ w \in live[s]
         \/ \E t \in Threads :
              pc[t] = "allocate" /\ SlotOf(t) = s /\ worker_no[t] = w
  /\ \A t \in Threads : Winner(t, s) =>
       /\ merge_i[t] >= 1
       /\ live[s] = {0} \cup {w \in Threads : merge_i[t] <= w /\ w < num_workers[s]}
  /\ AllAccounted(s) => live[s] = {0} \/ \E t \in Threads : Winner(t, s)

(* A thread is enrolled in the slots it has left, or in the one it is at.  *)
Enrolled(t, s) ==
  \/ \E j \in 0 .. NThreads : j < idx[t] /\ s = (t + j) % missing_vertices
  \/ /\ s = SlotOf(t)
     /\ pc[t] \in {"allocate", "combine", "next", "account", "merge"}

Filling(t) == pc[t] \in {"allocate", "combine", "next"}

OwnTable(t) ==
  /\ worker_no[t] \in Threads
  /\ worker_no[t] < num_workers[SlotOf(t)]
  /\ worker_no[t] \in live[SlotOf(t)] <=> pc[t] # "allocate"

SlotWorkersInv == \A s \in Used : SlotWorkers(s)
EnrolledInv == \A t \in Threads, s \in Used : t \in enrolled[s] => Enrolled(t, s)
OwnTableInv == \A t \in Threads : Filling(t) => OwnTable(t)
DistinctInv ==
  \A t, u \in Threads : t # u /\ Filling(t) /\ Filling(u) /\ SlotOf(t) = SlotOf(u)
    => worker_no[t] # worker_no[u]

WorkerInv ==
  ~InPhase1 => SlotWorkersInv /\ EnrolledInv /\ OwnTableInv /\ DistinctInv

(* Phase 2, tables: a combined edge is in one live table, once; any other  *)
(* edge is in none.                                                        *)
TableOK(s) ==
  /\ \A w \in live[s], e \in EdgeIds : tables[s][w][e] \in {0, 1}
  /\ \A w, x \in live[s], e \in EdgeIds :
       w # x => tables[s][w][e] = 0 \/ tables[s][x][e] = 0
  /\ \A e \in EdgeIds :
       (\E w \in live[s] : tables[s][w][e] = 1)
         <=> e < slot_edges[s] /\ Combined(s, e)

TableInv ==
  ~InPhase1 => \A s \in Used : output[vertex[s]] = <<>> => TableOK(s)

IInv == /\ TypeOK /\ ControlInv /\ CounterInv /\ Phase1Inv /\ SlotInv
        /\ EdgeInv /\ WinnerInv /\ WorkerInv /\ TableInv
=============================================================================

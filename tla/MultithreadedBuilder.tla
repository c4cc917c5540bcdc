------------------------ MODULE MultithreadedBuilder ------------------------
(***************************************************************************)
(* The two-phase parallel builder of motivo-build.                         *)
(*                                                                         *)
(* Phase 1: every thread takes a vertex with an atomic fetch_add and       *)
(* combines its edges alone.  The first thread that finds no vertex left   *)
(* raises the terminate flag of every thread, so up to NThreads-1 vertices *)
(* are left half done.  Main collects them in an array of slots.           *)
(*                                                                         *)
(* Phase 2: all the threads visit every slot and share its remaining edges *)
(* through a second fetch_add; each worker of a slot fills a table of its  *)
(* own.  Edges are then accounted with a third fetch_add, in which one     *)
(* extra "virtual" edge is counted, and the thread whose addition completes *)
(* the account merges the tables and writes the record.                    *)
(*                                                                         *)
(* A table is abstracted to the number of times each edge of the vertex    *)
(* has been combined into it: the counts of treelets are the sum of what   *)
(* the edges contribute, so a table is right iff every edge went in once.  *)
(***************************************************************************)
EXTENDS Integers, Sequences, FiniteSets

CONSTANTS FromVertex, ToVertex, \* the requested vertices, both included
          NThreads,             \* opts->threads
          Degree,               \* G->degree, a function on 0..ToVertex
          MaxDegree,            \* a bound on Degree
          StoreOnly0, Color0,   \* --store-only-0 and the vertices of colour 0
          MaxVertex             \* the largest value of vertex_t (2^32 - 1)

Threads == 0 .. NThreads - 1
Slots == 0 .. NThreads - 2
AllVertices == 0 .. ToVertex
Requested == FromVertex .. ToVertex
EdgeIds == 0 .. MaxDegree - 1

ASSUME ThreadsAssumption == NThreads \in Nat \ {0}

ASSUME RangeAssumption ==
  /\ FromVertex \in Nat /\ ToVertex \in Nat /\ MaxVertex \in Nat
  /\ FromVertex <= ToVertex /\ ToVertex <= MaxVertex

ASSUME GraphAssumption ==
  /\ MaxDegree \in Nat
  /\ Degree \in [AllVertices -> 0 .. MaxDegree]
  /\ StoreOnly0 \in BOOLEAN
  /\ Color0 \subseteq AllVertices

Table == [EdgeIds -> Nat]
EmptyTable == [e \in EdgeIds |-> 0]

(* How many edges the builder combines at v: none when only the treelets   *)
(* rooted in a vertex of colour 0 are stored and v has another colour.     *)
EdgesToProcess(v) == IF StoreOnly0 /\ v \notin Color0 THEN 0 ELSE Degree[v]

CompleteTable(v) == [e \in EdgeIds |-> IF e < EdgesToProcess(v) THEN 1 ELSE 0]

(* fetch_add(1) on an unsigned integer whose largest value is MaxVertex. *)
Successor(n) == IF n = MaxVertex THEN 0 ELSE n + 1

(* Combine edge e into a table. *)
WithEdge(tab, e) == [tab EXCEPT ![e] = @ + 1]

(* Mutant: the counts of the other table are not added. *)
NotMerged(tab, other) == tab

(* table[tcp.first] += tcp.second for every entry of the other table. *)
Merged(tab, other) == [e \in EdgeIds |-> tab[e] + other[e]]

VARIABLES
  pc,                \* where every thread is
  next_vertex,       \* atomic: the next vertex to hand out
  current_vertex, edges_to_process, next_edge, table, terminate_flag,
                     \* phase1_thread_state_t of every thread
  main_i,            \* main's index in the loop that collects the slots
  missing_vertices,  \* the number of slots in use
  vertex, slot_edges, slot_next, processed_edges, num_workers, tables, live,
                     \* phase2_vertex_state_t of every slot; live holds the
                     \* worker numbers whose table pointer is valid
  idx, d, worker_no, processed, merge_i,
                     \* the local variables of the thread loops
  mine, accounted,   \* history: the edges behind processed, processed_edges
  enrolled,          \* history: the threads behind num_workers
  output,            \* the records handed to the ConcurrentWriter, by vertex
  returned           \* build() has returned

phase1 == <<current_vertex, edges_to_process, next_edge, table, terminate_flag>>
slots == <<vertex, slot_edges, slot_next, processed_edges, num_workers, tables,
           live, accounted, enrolled>>
locals == <<idx, d, worker_no, processed, merge_i, mine>>
main == <<main_i, missing_vertices, returned>>
vars == <<pc, next_vertex, phase1, main, slots, locals, output>>

Goto(t, label) == pc' = [pc EXCEPT ![t] = label]

Init ==
  /\ pc = [t \in Threads |-> "fetch"]
  /\ next_vertex = FromVertex
  /\ current_vertex = [t \in Threads |-> MaxVertex]
  /\ edges_to_process = [t \in Threads |-> MaxVertex]
  /\ next_edge = [t \in Threads |-> MaxVertex]
  /\ table = [t \in Threads |-> EmptyTable]
  /\ terminate_flag = [t \in Threads |-> FALSE]
  /\ main_i = 0 /\ missing_vertices = 0 /\ returned = FALSE
  /\ vertex = [s \in Slots |-> MaxVertex]
  /\ slot_edges = [s \in Slots |-> MaxVertex]
  /\ slot_next = [s \in Slots |-> MaxVertex]
  /\ processed_edges = [s \in Slots |-> MaxVertex]
  /\ num_workers = [s \in Slots |-> 0]
  /\ tables = [s \in Slots |-> [w \in Threads |-> EmptyTable]]
  /\ live = [s \in Slots |-> {}]
  /\ accounted = [s \in Slots |-> {}]
  /\ enrolled = [s \in Slots |-> {}]
  /\ idx = [t \in Threads |-> 0]
  /\ d = [t \in Threads |-> 0]
  /\ worker_no = [t \in Threads |-> MaxVertex]
  /\ processed = [t \in Threads |-> 0]
  /\ merge_i = [t \in Threads |-> 1]
  /\ mine = [t \in Threads |-> {}]
  /\ output = [v \in AllVertices |-> <<>>]

-----------------------------------------------------------------------------
(* Phase 1. *)

(* Mutant: current_vertex keeps the vertex just written when none is left. *)
FetchKeepsVertex(t) ==
  /\ pc[t] = "fetch"
  /\ next_vertex' = Successor(next_vertex)
  /\ next_edge' = [next_edge EXCEPT ![t] = 0]
  /\ IF next_vertex > ToVertex
       THEN /\ Goto(t, "signal")
            /\ UNCHANGED <<current_vertex, edges_to_process>>
       ELSE /\ Goto(t, "loop")
            /\ current_vertex' = [current_vertex EXCEPT ![t] = next_vertex]
            /\ edges_to_process' =
                 [edges_to_process EXCEPT ![t] = EdgesToProcess(next_vertex)]
  /\ UNCHANGED <<table, terminate_flag, main, slots, locals, output>>

(* Take the next vertex; out of vertices, go and raise the flags. *)
Fetch(t) ==
  /\ pc[t] = "fetch"
  /\ next_vertex' = Successor(next_vertex)
  /\ current_vertex' = [current_vertex EXCEPT ![t] = next_vertex]
  /\ next_edge' = [next_edge EXCEPT ![t] = 0]
  /\ IF next_vertex > ToVertex
       THEN /\ Goto(t, "signal")
            /\ UNCHANGED edges_to_process
       ELSE /\ Goto(t, "loop")
            /\ edges_to_process' =
                 [edges_to_process EXCEPT ![t] = EdgesToProcess(next_vertex)]
  /\ UNCHANGED <<table, terminate_flag, main, slots, locals, output>>

(* Mutant: the loop over the flags starts again instead of ending. *)
SignalForEver(t) ==
  /\ pc[t] = "signal"
  /\ terminate_flag' = [terminate_flag EXCEPT ![idx[t]] = TRUE]
  /\ idx' = [idx EXCEPT ![t] = (@ + 1) % NThreads]
  /\ UNCHANGED <<pc, next_vertex, current_vertex, edges_to_process, next_edge, table,
                 main, slots, d, worker_no, processed, merge_i, mine, output>>

(* states[i].terminate_flag = true, one thread at a time. *)
Signal(t) ==
  /\ pc[t] = "signal"
  /\ terminate_flag' = [terminate_flag EXCEPT ![idx[t]] = TRUE]
  /\ IF idx[t] + 1 < NThreads
       THEN /\ idx' = [idx EXCEPT ![t] = @ + 1]
            /\ UNCHANGED pc
       ELSE /\ idx' = [idx EXCEPT ![t] = 0]
            /\ Goto(t, "loop")
  /\ UNCHANGED <<next_vertex, current_vertex, edges_to_process, next_edge, table,
                 main, slots, d, worker_no, processed, merge_i, mine, output>>

(* The while condition fails: the thread ends and is joined. *)
Leave1(t) ==
  /\ pc[t] = "loop"
  /\ terminate_flag[t]
  /\ Goto(t, "joined")
  /\ UNCHANGED <<next_vertex, phase1, main, slots, locals, output>>

(* Still work on this vertex: combine its next edge. *)
Combine1(t) ==
  /\ pc[t] = "loop"
  /\ ~terminate_flag[t]
  /\ next_edge[t] < edges_to_process[t]
  /\ table' = [table EXCEPT ![t] = WithEdge(@, next_edge[t])]
  /\ next_edge' = [next_edge EXCEPT ![t] = @ + 1]
  /\ UNCHANGED <<pc, next_vertex, current_vertex, edges_to_process,
                 terminate_flag, main, slots, locals, output>>

(* Mutant: the table is not cleared between two vertices. *)
Write1Dirty(t) ==
  /\ pc[t] = "loop"
  /\ ~terminate_flag[t]
  /\ next_edge[t] >= edges_to_process[t]
  /\ output' = [output EXCEPT ![current_vertex[t]] = Append(@, table[t])]
  /\ Goto(t, "fetch")
  /\ UNCHANGED <<next_vertex, phase1, main, slots, locals>>

(* Vertex complete: write its record, clear the table, fetch another one. *)
Write1(t) ==
  /\ pc[t] = "loop"
  /\ ~terminate_flag[t]
  /\ next_edge[t] >= edges_to_process[t]
  /\ output' = [output EXCEPT ![current_vertex[t]] = Append(@, table[t])]
  /\ table' = [table EXCEPT ![t] = EmptyTable]
  /\ Goto(t, "fetch")
  /\ UNCHANGED <<next_vertex, current_vertex, edges_to_process, next_edge,
                 terminate_flag, main, slots, locals>>

-----------------------------------------------------------------------------
(* Between the phases: main has joined every thread and walks their states. *)

(* One iteration of the collecting loop: a thread that stopped in the      *)
(* middle of a vertex gives a slot.  The last iteration starts phase 2.    *)
Collect ==
  /\ \A t \in Threads : pc[t] = "joined"
  /\ main_i < NThreads
  /\ IF current_vertex[main_i] > ToVertex
       THEN UNCHANGED <<missing_vertices, slots>>
       ELSE LET s == missing_vertices IN
            /\ vertex' = [vertex EXCEPT ![s] = current_vertex[main_i]]
            /\ slot_edges' = [slot_edges EXCEPT ![s] = edges_to_process[main_i]]
            /\ slot_next' = [slot_next EXCEPT ![s] = next_edge[main_i]]
            /\ processed_edges' = [processed_edges EXCEPT ![s] = next_edge[main_i]]
            /\ num_workers' = [num_workers EXCEPT ![s] = 0]
            /\ tables' = [tables EXCEPT ![s][0] = table[main_i]]
            /\ live' = [live EXCEPT ![s] = {0}]
            /\ accounted' = [accounted EXCEPT ![s] = 0 .. next_edge[main_i] - 1]
            /\ missing_vertices' = s + 1
            /\ UNCHANGED enrolled
  /\ main_i' = main_i + 1
  /\ pc' = IF main_i + 1 < NThreads THEN pc ELSE [t \in Threads |-> "claim"]
  /\ UNCHANGED <<next_vertex, phase1, returned, locals, output>>

(* Join the phase 2 threads, free the states, close the writer, return. *)
Return ==
  /\ ~returned
  /\ \A t \in Threads : pc[t] = "done"
  /\ returned' = TRUE
  /\ UNCHANGED <<pc, next_vertex, phase1, main_i, missing_vertices, slots,
                 locals, output>>

-----------------------------------------------------------------------------
(* Phase 2. *)

(* states[(thread_no+i)%nstates] *)
SlotOf(t) == (t + idx[t]) % missing_vertices

NextSlot(t) == /\ idx' = [idx EXCEPT ![t] = @ + 1]
               /\ Goto(t, "claim")

(* The first fetch_add on a slot: nothing left (continue), the virtual     *)
(* edge, or a real edge, for which the thread becomes a worker.            *)
Claim(t) ==
  /\ pc[t] = "claim"
  /\ idx[t] < missing_vertices
  /\ LET s == SlotOf(t) IN
     /\ slot_next' = [slot_next EXCEPT ![s] = @ + 1]
     /\ IF slot_next[s] > slot_edges[s]
          THEN /\ NextSlot(t)
               /\ UNCHANGED <<d, processed, mine>>
          ELSE /\ d' = [d EXCEPT ![t] = slot_next[s]]
               /\ processed' = [processed EXCEPT ![t] = 0]
               /\ mine' = [mine EXCEPT ![t] = {}]
               /\ Goto(t, IF slot_next[s] < slot_edges[s]
                            THEN "register" ELSE "account")
               /\ UNCHANGED idx
  /\ UNCHANGED <<next_vertex, phase1, main, vertex, slot_edges, processed_edges,
                 num_workers, tables, live, accounted, enrolled, worker_no, merge_i,
                 output>>

(* Mutant: the number of workers is read, not incremented. *)
RegisterReads(t) ==
  /\ pc[t] = "register"
  /\ worker_no' = [worker_no EXCEPT ![t] = num_workers[SlotOf(t)]]
  /\ Goto(t, IF num_workers[SlotOf(t)] > 0 THEN "allocate" ELSE "combine")
  /\ UNCHANGED <<next_vertex, phase1, main, slots, idx, d, processed, merge_i,
                 mine, output>>

(* num_workers.fetch_add(1): worker 0 inherits the table of phase 1. *)
Register(t) ==
  /\ pc[t] = "register"
  /\ LET s == SlotOf(t) IN
     /\ worker_no' = [worker_no EXCEPT ![t] = num_workers[s]]
     /\ num_workers' = [num_workers EXCEPT ![s] = @ + 1]
     /\ enrolled' = [enrolled EXCEPT ![s] = @ \cup {t}]
     /\ Goto(t, IF num_workers[s] > 0 THEN "allocate" ELSE "combine")
  /\ UNCHANGED <<next_vertex, phase1, main, vertex, slot_edges, slot_next,
                 processed_edges, tables, live, accounted, idx, d, processed,
                 merge_i, mine, output>>

(* state.tables[worker_no] = new ColorCodingHashmap() *)
Allocate(t) ==
  /\ pc[t] = "allocate"
  /\ LET s == SlotOf(t) IN
     /\ tables' = [tables EXCEPT ![s][worker_no[t]] = EmptyTable]
     /\ live' = [live EXCEPT ![s] = @ \cup {worker_no[t]}]
  /\ Goto(t, "combine")
  /\ UNCHANGED <<next_vertex, phase1, main, vertex, slot_edges, slot_next,
                 processed_edges, num_workers, accounted, enrolled, locals,
                 output>>

Combine2(t) ==
  /\ pc[t] = "combine"
  /\ tables' = [tables EXCEPT ![SlotOf(t)][worker_no[t]] = WithEdge(@, d[t])]
  /\ processed' = [processed EXCEPT ![t] = @ + 1]
  /\ mine' = [mine EXCEPT ![t] = @ \cup {d[t]}]
  /\ Goto(t, "next")
  /\ UNCHANGED <<next_vertex, phase1, main, vertex, slot_edges, slot_next,
                 processed_edges, num_workers, live, accounted, enrolled, idx, d,
                 worker_no, merge_i, output>>

(* The fetch_add that ends the body of the loop over the edges. *)
NextEdge(t) ==
  /\ pc[t] = "next"
  /\ LET s == SlotOf(t) IN
     /\ d' = [d EXCEPT ![t] = slot_next[s]]
     /\ slot_next' = [slot_next EXCEPT ![s] = @ + 1]
     /\ Goto(t, IF slot_next[s] < slot_edges[s] THEN "combine" ELSE "account")
  /\ UNCHANGED <<next_vertex, phase1, main, vertex, slot_edges, processed_edges,
                 num_workers, tables, live, accounted, enrolled, idx, worker_no,
                 processed, merge_i, mine, output>>

(* The edges a thread is about to account: those it combined and, if the   *)
(* last number it took is the number of edges, the virtual edge.           *)
Virtual(t) == IF d[t] = slot_edges[SlotOf(t)] THEN {d[t]} ELSE {}

(* Mutants: the virtual edge is never accounted, or by every thread. *)
ToAccountNoVirtual(t) == processed[t]
ToAccountAllVirtual(t) == processed[t] + 1

ToAccount(t) == processed[t] + (IF d[t] = slot_edges[SlotOf(t)] THEN 1 ELSE 0)

(* processed_edges.fetch_add: whoever completes the account is the winner. *)
Account(t) ==
  /\ pc[t] = "account"
  /\ LET s == SlotOf(t)
         total == processed_edges[s] + ToAccount(t) IN
     /\ processed_edges' = [processed_edges EXCEPT ![s] = total]
     /\ accounted' = [accounted EXCEPT ![s] = @ \cup mine[t] \cup Virtual(t)]
     /\ IF total = slot_edges[s] + 1
          THEN /\ Goto(t, "merge")
               /\ merge_i' = [merge_i EXCEPT ![t] = 1]
               /\ UNCHANGED idx
          ELSE /\ NextSlot(t)
               /\ UNCHANGED merge_i
  /\ UNCHANGED <<next_vertex, phase1, main, vertex, slot_edges, slot_next,
                 num_workers, tables, live, enrolled, d, worker_no, processed,
                 mine, output>>

(* Mutant: the table that has been added is not deleted. *)
MergeLeaks(t) ==
  /\ pc[t] = "merge"
  /\ merge_i[t] < num_workers[SlotOf(t)]
  /\ LET s == SlotOf(t) IN
       tables' = [tables EXCEPT ![s][0] = Merged(@, tables[s][merge_i[t]])]
  /\ merge_i' = [merge_i EXCEPT ![t] = @ + 1]
  /\ UNCHANGED <<pc, next_vertex, phase1, main, vertex, slot_edges, slot_next,
                 processed_edges, num_workers, live, accounted, enrolled, idx, d,
                 worker_no, processed, mine, output>>

(* One iteration of the merge loop: add the table of a worker, delete it. *)
Merge(t) ==
  /\ pc[t] = "merge"
  /\ merge_i[t] < num_workers[SlotOf(t)]
  /\ LET s == SlotOf(t) IN
     /\ tables' = [tables EXCEPT ![s][0] = Merged(@, tables[s][merge_i[t]])]
     /\ live' = [live EXCEPT ![s] = @ \ {merge_i[t]}]
  /\ merge_i' = [merge_i EXCEPT ![t] = @ + 1]
  /\ UNCHANGED <<pc, next_vertex, phase1, main, vertex, slot_edges, slot_next,
                 processed_edges, num_workers, accounted, enrolled, idx, d,
                 worker_no, processed, mine, output>>

(* The merge loop is over: write the record and clear the table. *)
Write2(t) ==
  /\ pc[t] = "merge"
  /\ merge_i[t] >= num_workers[SlotOf(t)]
  /\ LET s == SlotOf(t) IN
     /\ output' = [output EXCEPT ![vertex[s]] = Append(@, tables[s][0])]
     /\ tables' = [tables EXCEPT ![s][0] = EmptyTable]
  /\ NextSlot(t)
  /\ UNCHANGED <<next_vertex, phase1, main, vertex, slot_edges, slot_next,
                 processed_edges, num_workers, live, accounted, enrolled, d,
                 worker_no, processed, merge_i, mine>>

(* Every slot has been visited: the thread ends. *)
Leave2(t) ==
  /\ pc[t] = "claim"
  /\ idx[t] >= missing_vertices
  /\ Goto(t, "done")
  /\ UNCHANGED <<next_vertex, phase1, main, slots, locals, output>>

-----------------------------------------------------------------------------
Phase1Step(t) ==
  Fetch(t) \/ Signal(t) \/ Leave1(t) \/ Combine1(t) \/ Write1(t)

Phase2Step(t) ==
  \/ Claim(t) \/ Register(t) \/ Allocate(t) \/ Combine2(t) \/ NextEdge(t)
  \/ Account(t) \/ Merge(t) \/ Write2(t) \/ Leave2(t)

Terminated == returned /\ UNCHANGED vars

Next ==
  \/ \E t \in Threads : Phase1Step(t) \/ Phase2Step(t)
  \/ Collect
  \/ Return
  \/ Terminated

(* Every thread is scheduled again and again: no thread waits for another  *)
(* one except main in join, so weak fairness of each is what the operating *)
(* system gives.                                                           *)
Spec ==
  /\ Init /\ [][Next]_vars
  /\ \A t \in Threads : WF_vars(Phase1Step(t) \/ Phase2Step(t))
  /\ WF_vars(Collect) /\ WF_vars(Return)

-----------------------------------------------------------------------------
(* Properties. *)

PCLabels == {"fetch", "signal", "loop", "joined", "claim", "register",
             "allocate", "combine", "next", "account", "merge", "done"}

TypeControl ==
  /\ pc \in [Threads -> PCLabels]
  /\ next_vertex \in 0 .. MaxVertex
  /\ idx \in [Threads -> Nat]
  /\ main_i \in 0 .. NThreads
  /\ missing_vertices \in 0 .. NThreads
  /\ returned \in BOOLEAN

TypePhase1 ==
  /\ current_vertex \in [Threads -> 0 .. MaxVertex]
  /\ edges_to_process \in [Threads -> Nat]
  /\ next_edge \in [Threads -> Nat]
  /\ table \in [Threads -> Table]
  /\ terminate_flag \in [Threads -> BOOLEAN]

TypeSlots ==
  /\ vertex \in [Slots -> 0 .. MaxVertex]
  /\ slot_edges \in [Slots -> Nat]
  /\ slot_next \in [Slots -> Nat]
  /\ processed_edges \in [Slots -> Nat]
  /\ num_workers \in [Slots -> Nat]

TypeTables ==
  /\ tables \in [Slots -> [Threads -> Table]]
  /\ live \in [Slots -> SUBSET Threads]
  /\ accounted \in [Slots -> SUBSET Nat]
  /\ enrolled \in [Slots -> SUBSET Threads]

TypeLocals ==
  /\ d \in [Threads -> Nat]
  /\ worker_no \in [Threads -> Nat]
  /\ processed \in [Threads -> Nat]
  /\ merge_i \in [Threads -> Nat]
  /\ mine \in [Threads -> SUBSET Nat]

TypeOutput == output \in [AllVertices -> Seq(Table)]

(* The type of every variable. *)
TypeOK == /\ TypeControl /\ TypePhase1 /\ TypeSlots /\ TypeTables
          /\ TypeLocals /\ TypeOutput

(* Whatever the interleaving, a vertex gets at most one record, the record *)
(* holds each of its edges exactly once, and only requested vertices get   *)
(* one: no vertex is handed out twice, finished twice (by its phase 1      *)
(* thread and by a winner, or by two winners) or written half merged.      *)
ExactlyOnce ==
  \A v \in AllVertices :
    \/ output[v] = <<>>
    \/ v \in Requested /\ output[v] = <<CompleteTable(v)>>

(* When build() returns no vertex has been forgotten: those abandoned in   *)
(* phase 1 have all found a winner in phase 2.                             *)
NothingForgotten ==
  returned => \A v \in Requested : output[v] # <<>>

(* The precondition of ColorCodingBuilder::combine, "thread safe as long   *)
(* as counts is not accessed while this method is running", in phase 2:    *)
(* a worker fills a table that exists and that no other thread is filling. *)
Working(t) == pc[t] \in {"register", "allocate", "combine", "next", "account"}

TableOwnership ==
  \A t \in Threads : pc[t] = "combine" =>
    /\ worker_no[t] \in live[SlotOf(t)]
    /\ \A u \in Threads \ {t} :
         pc[u] \in {"combine", "next"} /\ SlotOf(u) = SlotOf(t)
           => worker_no[u] # worker_no[t]

(* The thread that merges the tables of a slot is alone on it: no worker   *)
(* still combines, allocates or accounts there, and there is no second     *)
(* winner; every table it has yet to read exists.                          *)
WinnerAlone ==
  \A t \in Threads : pc[t] = "merge" =>
    /\ \A u \in Threads \ {t} :
         Working(u) \/ pc[u] = "merge" => SlotOf(u) # SlotOf(t)
    /\ {0} \cup (merge_i[t] .. num_workers[SlotOf(t)] - 1) \subseteq live[SlotOf(t)]

(* assert(next_vertex > to_vertex) after phase 1. *)
OutOfVertices ==
  (\A t \in Threads : pc[t] = "joined") => next_vertex > ToVertex

(* assert(missing_vertices < nthreads-1) before a slot is filled: at least *)
(* one thread ends phase 1 between two vertices, so the array of slots is  *)
(* never overrun.                                                          *)
SlotsSuffice ==
  (\A t \in Threads : pc[t] = "joined") /\ main_i < NThreads
     /\ current_vertex[main_i] <= ToVertex
    => missing_vertices \in Slots

(* assert(processed_edges <= edges_to_process+1): no edge is accounted for *)
(* twice, and the counters say how many edges have been accounted.         *)
AccountBounded ==
  \A s \in Slots : s < missing_vertices =>
    /\ processed_edges[s] <= slot_edges[s] + 1
    /\ processed_edges[s] = Cardinality(accounted[s])

(* The tables allocated for the workers are all deleted by the winner.     *)
NoTableLeaked ==
  returned => \A s \in Slots : s < missing_vertices => live[s] = {0}

(* The parallel builder implements what SequentialBuilder promises.        *)
Abstract == INSTANCE BuildSpec WITH
              Complete <- [v \in AllVertices |-> CompleteTable(v)]
ImplementsBuildSpec == Abstract!Spec

(* build() returns: no thread loops for ever on the flags or the slots.    *)
Termination == <>returned
=============================================================================

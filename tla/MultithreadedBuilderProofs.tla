--------------------- MODULE MultithreadedBuilderProofs ---------------------
(***************************************************************************)
(* IInv, the invariant of MultithreadedBuilderInv, is inductive: first its *)
(* types, the labels of the two phases, the flags and the number of slots, *)
(* with the arithmetic of the slot a thread visits, (t + idx) % nstates,   *)
(* which never visits the same slot twice; then one lemma per part and, in *)
(* it, one step per action that can disturb the part.  The theorems at the *)
(* end read the safety properties off it.                                  *)
(***************************************************************************)
EXTENDS MultithreadedBuilderInv, FiniteSetTheorems, TLAPS

(* The operators on tables return tables. *)
LEMMA TableOps ==
  /\ EmptyTable \in Table
  /\ \A n \in Nat : Prefix(n) \in Table
  /\ \A v : CompleteTable(v) \in Table
  /\ \A tab \in Table, e \in Nat : WithEdge(tab, e) \in Table
  /\ \A tab, other \in Table : Merged(tab, other) \in Table
<1>1. EmptyTable \in Table
  BY DEF EmptyTable, Table
<1>2. \A n \in Nat : Prefix(n) \in Table
  BY DEF Prefix, Table
<1>3. \A v : CompleteTable(v) \in Table
  BY DEF CompleteTable, Table
<1>4. ASSUME NEW tab \in Table, NEW e \in Nat PROVE WithEdge(tab, e) \in Table
  <2>1. CASE e \in EdgeIds
    BY <2>1 DEF WithEdge, Table
  <2>2. CASE e \notin EdgeIds
    BY <2>2 DEF WithEdge, Table
  <2> QED BY <2>1, <2>2
<1>5. \A tab, other \in Table : Merged(tab, other) \in Table
  BY DEF Merged, Table
<1> QED BY <1>1, <1>2, <1>3, <1>4, <1>5

(* A vertex has a natural number of edges to combine. *)
LEMMA EdgesNat == \A v \in AllVertices : EdgesToProcess(v) \in Nat
BY GraphAssumption DEF EdgesToProcess

(* The remainder is below the modulus. *)
LEMMA ModRange ==
  ASSUME NEW a \in Nat, NEW m \in Nat \ {0}
  PROVE  a % m \in 0 .. m - 1
BY SMT

(* Below the modulus, the remainder is the number itself. *)
LEMMA ModSmall == ASSUME NEW a \in Nat, NEW m \in Nat, a < m PROVE a % m = a
BY SMT

(* Euclidean division. *)
LEMMA ModDiv ==
  ASSUME NEW a \in Nat, NEW m \in Nat \ {0}
  PROVE  a = m * (a \div m) + (a % m) /\ a \div m \in Int
BY SMT

(* Multiples of m are at least m apart. *)
LEMMA Gap ==
  ASSUME NEW p \in Int, NEW q \in Int, NEW m \in Nat \ {0}, p < q
  PROVE  m * q >= m * p + m
BY SMT

(* Two different numbers with the same remainder are at least m apart. *)
LEMMA Apart ==
  ASSUME NEW m \in Nat \ {0}, NEW p \in Int, NEW q \in Int, NEW a \in Int, NEW b \in Int,
         NEW r \in Int, a = m * p + r, b = m * q + r, a < b
  PROVE b - a >= m
<1>1. CASE p < q
  BY <1>1, Gap
<1>2. CASE q < p
  BY <1>2, Gap
<1>3. CASE p = q
  BY <1>3
<1> QED BY <1>1, <1>2, <1>3

(* The same, with the remainders written out. *)
LEMMA ModApart ==
  ASSUME NEW m \in Nat \ {0}, NEW a \in Nat, NEW b \in Nat, a < b, a % m = b % m
  PROVE b - a >= m
<1> DEFINE p == a \div m
           q == b \div m
           r == a % m
<1>1. p \in Int /\ q \in Int /\ r \in Int
  BY ModDiv, ModRange
<1>2. a = m * p + r /\ b = m * q + r
  BY ModDiv
<1> HIDE DEF p, q, r
<1> QED BY <1>1, <1>2, Apart

(* Less than m steps from t, the remainders are all different. *)
LEMMA ModInjective ==
  ASSUME NEW m \in Nat \ {0}, NEW t \in Nat, NEW j \in Nat, NEW k \in Nat, j < k, k < m
  PROVE (t + j) % m # (t + k) % m
<1> SUFFICES ASSUME (t + j) % m = (t + k) % m PROVE FALSE
  OBVIOUS
<1> DEFINE a == t + j
           b == t + k
<1>1. a \in Nat /\ b \in Nat /\ a < b /\ b - a < m
  OBVIOUS
<1>2. a % m = b % m
  OBVIOUS
<1> HIDE DEF a, b
<1>3. ASSUME b - a >= m PROVE FALSE
  BY <1>1, <1>3
<1>4. b - a >= m
    <2>1. a \in Nat /\ b \in Nat /\ a < b
    BY <1>1
  <2> QED BY <2>1, <1>2, ModApart, Zenon
<1> QED BY <1>3, <1>4

(* A thread at a label of phase 2 is in phase 2. *)
LEMMA InPhase2 ==
  ASSUME TypeOK, ControlInv, NEW t \in Threads, pc[t] \in Labels2
  PROVE  ~InPhase1
BY DEF ControlInv, LabelInv, Labels1, Labels2

(* A thread that visits a slot visits one that exists. *)
LEMMA SlotInRange ==
  ASSUME TypeOK, ControlInv, NEW t \in Threads, pc[t] \in Labels2,
         idx[t] < missing_vertices
  PROVE  SlotOf(t) \in Used
<1>1. missing_vertices < NThreads
  BY InPhase2 DEF ControlInv, MissingInv
<1>2. (t + idx[t]) % missing_vertices \in 0 .. missing_vertices - 1
  <2>1. t + idx[t] \in Nat /\ missing_vertices \in Nat \ {0}
    BY DEF TypeOK, TypeControl, Threads
  <2> QED BY <2>1, ModRange
<1>3. SlotOf(t) \in 0 .. missing_vertices - 1 /\ missing_vertices \in Nat
  BY <1>2 DEF SlotOf, TypeOK, TypeControl
<1> QED
  BY <1>1, <1>3, ThreadsAssumption DEF Slots, Used

(* The slot a busy thread is at exists. *)
LEMMA BusySlot ==
  ASSUME TypeOK, ControlInv, NEW t \in Threads, Working(t) \/ pc[t] = "merge"
  PROVE  SlotOf(t) \in Used
<1>1. pc[t] \in Labels2
  BY DEF Working, Labels2
<1> QED
  BY <1>1, InPhase2, SlotInRange DEF ControlInv, LabelInv

(* Types, initially. *)
LEMMA TypeInit == Init => TypeOK
<1> SUFFICES ASSUME Init PROVE TypeOK
  OBVIOUS
<1> USE ThreadsAssumption, RangeAssumption DEF Init
<1>1. TypeControl
  <2>1. pc \in [Threads -> PCLabels]
    BY DEF PCLabels
  <2>2. next_vertex \in 0 .. MaxVertex /\ idx \in [Threads -> Nat]
    OBVIOUS
  <2>3. main_i \in 0 .. NThreads /\ missing_vertices \in 0 .. NThreads
    OBVIOUS
  <2>4. returned \in BOOLEAN
    OBVIOUS
  <2> QED BY <2>1, <2>2, <2>3, <2>4 DEF TypeControl
<1>2. TypePhase1
  BY TableOps DEF TypePhase1
<1>3. TypeSlots
  BY DEF TypeSlots
<1>4. TypeTables
  <2>1. tables \in [Slots -> [Threads -> Table]]
    <3>1. [w \in Threads |-> EmptyTable] \in [Threads -> Table]
      BY TableOps
    <3> QED BY <3>1
  <2>2. /\ live \in [Slots -> SUBSET Threads]
        /\ accounted \in [Slots -> SUBSET Nat]
        /\ enrolled \in [Slots -> SUBSET Threads]
    OBVIOUS
  <2> QED BY <2>1, <2>2 DEF TypeTables
<1>5. TypeLocals
  BY DEF TypeLocals
<1>6. TypeOutput
  BY DEF TypeOutput
<1> QED
  BY <1>1, <1>2, <1>3, <1>4, <1>5, <1>6 DEF TypeOK

(* The vertex counter stays in its type. *)
LEMMA FetchRange == TypeOK => Successor(next_vertex) \in 0 .. MaxVertex
BY RangeAssumption DEF Successor, TypeOK, TypeControl

(* Appending a table to the records of one vertex. *)
LEMMA OutputAppend ==
  ASSUME TypeOutput, NEW v, NEW tab \in Table,
         output' = [output EXCEPT ![v] = Append(@, tab)]
  PROVE  TypeOutput'
<1>1. ASSUME NEW q \in Seq(Table) PROVE Append(q, tab) \in Seq(Table)
  OBVIOUS
<1>2. ASSUME NEW x \in AllVertices PROVE output'[x] \in Seq(Table)
  BY <1>1 DEF TypeOutput
<1> QED BY <1>2 DEF TypeOutput

(* The slot a thread claims from exists. *)
LEMMA ClaimSlot ==
  ASSUME TypeOK, ControlInv, NEW t \in Threads, Claim(t)
  PROVE  SlotOf(t) \in Used
BY SlotInRange DEF Claim, Labels2

(* At most NThreads worker numbers are handed out on a slot. *)
LEMMA WorkersBounded ==
  ASSUME TypeOK, WorkerInv, ~InPhase1, NEW s \in Used
  PROVE  /\ IsFiniteSet(enrolled[s])
         /\ num_workers[s] = Cardinality(enrolled[s])
         /\ num_workers[s] <= NThreads
         /\ \A t \in Threads : t \notin enrolled[s] => num_workers[s] < NThreads
<1>1. IsFiniteSet(Threads) /\ Cardinality(Threads) = NThreads
  BY ThreadsAssumption, FS_Interval DEF Threads
<1>2. enrolled[s] \subseteq Threads
  BY DEF TypeOK, TypeTables, Used
<1>3. /\ IsFiniteSet(enrolled[s]) /\ Cardinality(enrolled[s]) <= NThreads
      /\ Cardinality(enrolled[s]) = NThreads => enrolled[s] = Threads
  BY <1>1, <1>2, FS_Subset
<1>4. num_workers[s] = Cardinality(enrolled[s]) /\ num_workers[s] \in Nat
  BY DEF WorkerInv, SlotWorkersInv, SlotWorkers, TypeOK, TypeSlots, Used
<1> QED BY <1>3, <1>4, ThreadsAssumption

(* The winner merges tables whose numbers are in the array. *)
LEMMA MergeInThreads ==
  ASSUME TypeOK, ControlInv, WorkerInv, NEW t \in Threads, pc[t] = "merge",
         merge_i[t] < num_workers[SlotOf(t)]
  PROVE  merge_i[t] \in Threads
<1>1. SlotOf(t) \in Used /\ ~InPhase1
  BY BusySlot, InPhase2 DEF Labels2
<1>2. num_workers[SlotOf(t)] <= NThreads
  BY <1>1, WorkersBounded
<1>3. num_workers[SlotOf(t)] \in Nat /\ merge_i[t] \in Nat
  BY <1>1 DEF TypeOK, TypeSlots, TypeLocals, Used
<1> QED BY <1>2, <1>3, ThreadsAssumption DEF Threads

(* Every action preserves the types. *)
LEMMA TypeStep ==
  ASSUME TypeOK, ControlInv, WorkerInv, [Next]_vars
  PROVE  TypeOK'
<1> USE ThreadsAssumption, RangeAssumption DEF TypeOK, Goto
<1>1. ASSUME NEW t \in Threads, Fetch(t) PROVE TypeOK'
  <2>1. TypeControl'
    <3>1. next_vertex' \in 0 .. MaxVertex
      BY <1>1, FetchRange DEF Fetch
    <3>2. pc' \in [Threads -> PCLabels]
      BY <1>1 DEF Fetch, TypeControl, PCLabels
    <3> QED BY <1>1, <3>1, <3>2 DEF Fetch, TypeControl, locals, main
  <2>2. TypePhase1'
    <3>1. next_vertex <= ToVertex => EdgesToProcess(next_vertex) \in Nat
      BY EdgesNat DEF AllVertices, TypeControl
    <3>2. edges_to_process' \in [Threads -> Nat]
      BY <1>1, <3>1 DEF Fetch, TypePhase1, TypeControl
    <3>3. /\ current_vertex' \in [Threads -> 0 .. MaxVertex]
          /\ next_edge' \in [Threads -> Nat]
      BY <1>1 DEF Fetch, TypePhase1, TypeControl
    <3> QED BY <1>1, <3>2, <3>3 DEF Fetch, TypePhase1
  <2>3. TypeSlots' /\ TypeTables' /\ TypeLocals' /\ TypeOutput'
    BY <1>1 DEF Fetch, TypeSlots, TypeTables, TypeLocals, TypeOutput, slots,
       locals, main
  <2> QED BY <2>1, <2>2, <2>3
<1>2. ASSUME NEW t \in Threads, Signal(t) PROVE TypeOK'
  <2>1. TypeControl'
    BY <1>2 DEF Signal, TypeControl, PCLabels, slots, main
  <2>2. TypePhase1'
    BY <1>2 DEF Signal, TypePhase1, slots, main
  <2>3. TypeSlots' /\ TypeTables' /\ TypeLocals' /\ TypeOutput'
    BY <1>2 DEF Signal, TypeSlots, TypeTables, TypeLocals, TypeOutput, slots,
       main
  <2> QED BY <2>1, <2>2, <2>3
<1>3. ASSUME NEW t \in Threads, Leave1(t) PROVE TypeOK'
  <2>1. TypeControl'
    BY <1>3 DEF Leave1, TypeControl, PCLabels, phase1, slots, locals, main
  <2>2. TypePhase1' /\ TypeSlots' /\ TypeTables' /\ TypeLocals' /\ TypeOutput'
    BY <1>3 DEF Leave1, TypePhase1, TypeSlots, TypeTables, TypeLocals,
       TypeOutput, phase1, slots, locals, main
  <2> QED BY <2>1, <2>2
<1>4. ASSUME NEW t \in Threads, Combine1(t) PROVE TypeOK'
  <2>1. TypePhase1'
    BY <1>4, TableOps DEF Combine1, TypePhase1, slots, locals, main
  <2>2. TypeControl' /\ TypeSlots' /\ TypeTables' /\ TypeLocals' /\ TypeOutput'
    BY <1>4 DEF Combine1, TypeControl, TypeSlots, TypeTables, TypeLocals,
       TypeOutput, slots, locals, main
  <2> QED BY <2>1, <2>2
<1>5. ASSUME NEW t \in Threads, Write1(t) PROVE TypeOK'
  <2>1. TypeControl'
    BY <1>5 DEF Write1, TypeControl, PCLabels, slots, locals, main
  <2>2. TypePhase1'
    BY <1>5, TableOps DEF Write1, TypePhase1, slots, locals, main
  <2>3. TypeOutput'
    <3>1. output' = [output EXCEPT ![current_vertex[t]] = Append(@, table[t])]
      BY <1>5 DEF Write1
    <3> QED BY <3>1, OutputAppend DEF TypePhase1
  <2>4. TypeSlots' /\ TypeTables' /\ TypeLocals'
    BY <1>5 DEF Write1, TypeSlots, TypeTables, TypeLocals, slots, locals, main
  <2> QED BY <2>1, <2>2, <2>3, <2>4
<1>6. ASSUME NEW t \in Threads, Claim(t) PROVE TypeOK'
  <2>1. TypeControl'
    BY <1>6 DEF Claim, TypeControl, PCLabels, NextSlot, phase1, main
  <2>2. TypeSlots'
    <3>1. slot_next' = [slot_next EXCEPT ![SlotOf(t)] = @ + 1]
      BY <1>6 DEF Claim
    <3>0. SlotOf(t) \in Slots
      BY <1>6, ClaimSlot DEF Used
    <3>2. slot_next' \in [Slots -> Nat]
      BY <3>0, <3>1 DEF TypeSlots
    <3> QED BY <1>6, <3>2 DEF Claim, TypeSlots
  <2>3. TypeLocals'
    <3>1. slot_next[SlotOf(t)] \in Nat
      BY <1>6, ClaimSlot DEF TypeSlots, Used
    <3>2. d' \in [Threads -> Nat]
      BY <1>6, <3>1 DEF Claim, TypeLocals
    <3>3. processed' \in [Threads -> Nat] /\ mine' \in [Threads -> SUBSET Nat]
      BY <1>6 DEF Claim, TypeLocals
    <3> QED BY <1>6, <3>2, <3>3 DEF Claim, TypeLocals
  <2>4. TypePhase1' /\ TypeTables' /\ TypeOutput'
    BY <1>6 DEF Claim, NextSlot, TypePhase1, TypeTables, TypeOutput, phase1,
       main
  <2> QED BY <2>1, <2>2, <2>3, <2>4
<1>7. ASSUME NEW t \in Threads, Register(t) PROVE TypeOK'
  <2>1. TypeControl'
    BY <1>7 DEF Register, TypeControl, PCLabels, phase1, main
  <2>2. TypeSlots'
    <3>1. num_workers' = [num_workers EXCEPT ![SlotOf(t)] = @ + 1]
      BY <1>7 DEF Register
    <3>0. SlotOf(t) \in Slots
      BY <1>7, BusySlot DEF Register, Working, Used
    <3>2. num_workers' \in [Slots -> Nat]
      BY <3>0, <3>1 DEF TypeSlots
    <3> QED BY <1>7, <3>2 DEF Register, TypeSlots
  <2>3. TypeTables'
    BY <1>7, BusySlot DEF Register, TypeTables, phase1, main
  <2>4. TypeLocals'
    <3>1. num_workers[SlotOf(t)] \in Nat
      BY <1>7, BusySlot DEF Register, Working, TypeSlots, Used
    <3>2. worker_no' \in [Threads -> Nat]
      BY <1>7, <3>1 DEF Register, TypeLocals
    <3> QED BY <1>7, <3>2 DEF Register, TypeLocals
  <2>5. TypePhase1' /\ TypeOutput'
    BY <1>7 DEF Register, TypePhase1, TypeOutput, phase1, main
  <2> QED BY <2>1, <2>2, <2>3, <2>4, <2>5
<1>8. ASSUME NEW t \in Threads, Allocate(t) PROVE TypeOK'
  <2>1. TypeControl'
    BY <1>8 DEF Allocate, TypeControl, PCLabels, phase1, locals, main
  <2>2. TypeTables'
    <3>1. SlotOf(t) \in Slots
      BY <1>8, BusySlot DEF Allocate, Working, Used
    <3>2. tables[SlotOf(t)] \in [Threads -> Table]
      BY <3>1 DEF TypeTables
    <3>3. [tables[SlotOf(t)] EXCEPT ![worker_no[t]] = EmptyTable] \in [Threads -> Table]
      BY <3>2, TableOps
    <3>4. tables' \in [Slots -> [Threads -> Table]]
      BY <1>8, <3>1, <3>3 DEF Allocate, TypeTables
    <3>5. worker_no[t] \in Threads
      BY <1>8, InPhase2 DEF Allocate, WorkerInv, OwnTableInv, OwnTable,
         Filling, Labels2
    <3>6. live' \in [Slots -> SUBSET Threads]
      BY <1>8, <3>5 DEF Allocate, TypeTables
    <3> QED BY <1>8, <3>4, <3>6 DEF Allocate, TypeTables
  <2>3. TypePhase1' /\ TypeSlots' /\ TypeLocals' /\ TypeOutput'
    BY <1>8 DEF Allocate, TypePhase1, TypeSlots, TypeLocals, TypeOutput,
       phase1, locals, main
  <2> QED BY <2>1, <2>2, <2>3
<1>9. ASSUME NEW t \in Threads, Combine2(t) PROVE TypeOK'
  <2>1. TypeControl'
    BY <1>9 DEF Combine2, TypeControl, PCLabels, phase1, main
  <2>2. TypeTables'
    <3>1. SlotOf(t) \in Slots
      BY <1>9, BusySlot DEF Combine2, Working, Used
    <3>2. tables[SlotOf(t)] \in [Threads -> Table]
      BY <3>1 DEF TypeTables
    <3>3. d[t] \in Nat
      BY DEF TypeLocals
    <3>4. worker_no[t] \in Threads
         => WithEdge(tables[SlotOf(t)][worker_no[t]], d[t]) \in Table
      BY <3>2, <3>3, TableOps
    <3>5. [tables[SlotOf(t)] EXCEPT ![worker_no[t]] = WithEdge(@, d[t])]
            \in [Threads -> Table]
      BY <3>2, <3>4
    <3>6. tables' \in [Slots -> [Threads -> Table]]
      BY <1>9, <3>1, <3>5 DEF Combine2, TypeTables
    <3> QED BY <1>9, <3>6 DEF Combine2, TypeTables
  <2>3. TypeLocals'
    <3>1. processed' \in [Threads -> Nat]
      BY <1>9 DEF Combine2, TypeLocals
    <3>2. mine' \in [Threads -> SUBSET Nat]
      <4>1. mine[t] \cup {d[t]} \in SUBSET Nat
        BY DEF TypeLocals
      <4> QED BY <1>9, <4>1 DEF Combine2, TypeLocals
    <3> QED BY <1>9, <3>1, <3>2 DEF Combine2, TypeLocals
  <2>4. TypePhase1' /\ TypeSlots' /\ TypeOutput'
    BY <1>9 DEF Combine2, TypePhase1, TypeSlots, TypeOutput, phase1, main
  <2> QED BY <2>1, <2>2, <2>3, <2>4
<1>10. ASSUME NEW t \in Threads, NextEdge(t) PROVE TypeOK'
  <2>1. TypeControl'
    BY <1>10 DEF NextEdge, TypeControl, PCLabels, phase1, main
  <2>2. TypeSlots'
    <3>1. slot_next' = [slot_next EXCEPT ![SlotOf(t)] = @ + 1]
      BY <1>10 DEF NextEdge
    <3>0. SlotOf(t) \in Slots
      BY <1>10, BusySlot DEF NextEdge, Working, Used
    <3>2. slot_next' \in [Slots -> Nat]
      BY <3>0, <3>1 DEF TypeSlots
    <3> QED BY <1>10, <3>2 DEF NextEdge, TypeSlots
  <2>3. TypeLocals'
    <3>1. slot_next[SlotOf(t)] \in Nat
      BY <1>10, BusySlot DEF NextEdge, Working, TypeSlots, Used
    <3>2. d' \in [Threads -> Nat]
      BY <1>10, <3>1 DEF NextEdge, TypeLocals
    <3> QED BY <1>10, <3>2 DEF NextEdge, TypeLocals
  <2>4. TypePhase1' /\ TypeTables' /\ TypeOutput'
    BY <1>10 DEF NextEdge, TypePhase1, TypeTables, TypeOutput, phase1, main
  <2> QED BY <2>1, <2>2, <2>3, <2>4
<1>11. ASSUME NEW t \in Threads, Account(t) PROVE TypeOK'
  <2>1. TypeControl'
    BY <1>11 DEF Account, TypeControl, PCLabels, NextSlot, phase1, main
  <2>2. TypeSlots'
    <3>1. processed_edges[SlotOf(t)] \in Nat
      BY <1>11, BusySlot DEF Account, Working, TypeSlots, Used
    <3>2. processed_edges[SlotOf(t)] + ToAccount(t) \in Nat
      BY <3>1 DEF ToAccount, TypeLocals
    <3>3. processed_edges' \in [Slots -> Nat]
      BY <1>11, <3>2 DEF Account, TypeSlots
    <3> QED BY <1>11, <3>3 DEF Account, TypeSlots
  <2>3. TypeTables'
    <3>1. mine[t] \cup Virtual(t) \in SUBSET Nat
      BY DEF Virtual, TypeLocals
    <3>2. accounted' \in [Slots -> SUBSET Nat]
      BY <1>11, <3>1 DEF Account, TypeTables
    <3> QED BY <1>11, <3>2 DEF Account, TypeTables
  <2>4. TypeLocals'
    BY <1>11 DEF Account, TypeLocals, phase1, main
  <2>5. TypePhase1' /\ TypeOutput'
    BY <1>11 DEF Account, NextSlot, TypePhase1, TypeOutput, phase1, main
  <2> QED BY <2>1, <2>2, <2>3, <2>4, <2>5
<1>12. ASSUME NEW t \in Threads, Merge(t) PROVE TypeOK'
  <2>1. TypeTables'
    <3>1. SlotOf(t) \in Slots
      BY <1>12, BusySlot DEF Merge, Used
    <3>2. tables[SlotOf(t)] \in [Threads -> Table] /\ 0 \in Threads
      BY <3>1 DEF TypeTables, Threads
    <3>3. merge_i[t] \in Threads
      BY <1>12, MergeInThreads DEF Merge
    <3>4. Merged(tables[SlotOf(t)][0], tables[SlotOf(t)][merge_i[t]]) \in Table
      BY <3>2, <3>3, TableOps
    <3>5. [tables[SlotOf(t)] EXCEPT ![0] = Merged(@, tables[SlotOf(t)][merge_i[t]])]
            \in [Threads -> Table]
      BY <3>2, <3>4
    <3>6. tables' \in [Slots -> [Threads -> Table]]
      BY <1>12, <3>1, <3>5 DEF Merge, TypeTables
    <3>7. live' \in [Slots -> SUBSET Threads]
      BY <1>12 DEF Merge, TypeTables
    <3> QED BY <1>12, <3>6, <3>7 DEF Merge, TypeTables
  <2>2. TypeLocals'
    <3>1. merge_i' \in [Threads -> Nat]
      BY <1>12 DEF Merge, TypeLocals
    <3> QED BY <1>12, <3>1 DEF Merge, TypeLocals
  <2>3. TypeControl' /\ TypePhase1' /\ TypeSlots' /\ TypeOutput'
    BY <1>12 DEF Merge, TypeControl, TypePhase1, TypeSlots, TypeOutput,
       phase1, main
  <2> QED BY <2>1, <2>2, <2>3
<1>13. ASSUME NEW t \in Threads, Write2(t) PROVE TypeOK'
  <2>1. TypeControl'
    <3>1. pc' \in [Threads -> PCLabels] /\ idx' \in [Threads -> Nat]
      BY <1>13 DEF Write2, NextSlot, TypeControl, PCLabels
    <3> QED BY <1>13, <3>1 DEF Write2, TypeControl, main
  <2>2. TypeTables'
    BY <1>13, TableOps, BusySlot DEF Write2, TypeTables, phase1, main
  <2>3. TypeOutput'
    <3>1. tables[SlotOf(t)][0] \in Table
      BY <1>13, BusySlot DEF Write2, TypeTables, Used, Threads
    <3>2. output' = [output EXCEPT ![vertex[SlotOf(t)]] = Append(@, tables[SlotOf(t)][0])]
      BY <1>13 DEF Write2
    <3> QED BY <3>1, <3>2, OutputAppend
  <2>4. TypePhase1' /\ TypeSlots' /\ TypeLocals'
    BY <1>13 DEF Write2, NextSlot, TypePhase1, TypeSlots, TypeLocals, phase1,
       main
  <2> QED BY <2>1, <2>2, <2>3, <2>4
<1>14. ASSUME NEW t \in Threads, Leave2(t) PROVE TypeOK'
  <2>1. TypeControl'
    BY <1>14 DEF Leave2, TypeControl, PCLabels, phase1, slots, locals, main
  <2>2. TypePhase1' /\ TypeSlots' /\ TypeTables' /\ TypeLocals' /\ TypeOutput'
    BY <1>14 DEF Leave2, TypePhase1, TypeSlots, TypeTables, TypeLocals,
       TypeOutput, phase1, slots, locals, main
  <2> QED BY <2>1, <2>2
<1>15. ASSUME Collect PROVE TypeOK'
  <2>1. TypeControl'
    <3>1. pc' \in [Threads -> PCLabels]
      BY <1>15 DEF Collect, TypeControl, PCLabels
    <3>2. main_i' \in 0 .. NThreads /\ missing_vertices' \in 0 .. NThreads
      BY <1>15 DEF Collect, TypeControl, ControlInv, MissingInv
    <3> QED BY <1>15, <3>1, <3>2 DEF Collect, TypeControl, locals
  <2>2. TypeSlots'
    <3>1. main_i \in Threads
      BY <1>15 DEF Collect, TypeControl, Threads
    <3>2. CASE current_vertex[main_i] > ToVertex
      BY <1>15, <3>2 DEF Collect, TypeSlots, slots
    <3>3. CASE ~(current_vertex[main_i] > ToVertex)
      <4>1. /\ vertex' = [vertex EXCEPT ![missing_vertices] = current_vertex[main_i]]
            /\ slot_edges' = [slot_edges EXCEPT ![missing_vertices] = edges_to_process[main_i]]
            /\ slot_next' = [slot_next EXCEPT ![missing_vertices] = next_edge[main_i]]
            /\ processed_edges' = [processed_edges EXCEPT ![missing_vertices] = next_edge[main_i]]
            /\ num_workers' = [num_workers EXCEPT ![missing_vertices] = 0]
        BY <1>15, <3>3 DEF Collect
      <4>2. /\ current_vertex[main_i] \in 0 .. MaxVertex
            /\ edges_to_process[main_i] \in Nat /\ next_edge[main_i] \in Nat
        BY <3>1 DEF TypePhase1
      <4> QED BY <4>1, <4>2 DEF TypeSlots
    <3> QED BY <3>2, <3>3
  <2>3. TypeTables'
    <3>1. main_i \in Threads /\ 0 \in Threads
      BY <1>15 DEF Collect, TypeControl, Threads
    <3>2. CASE current_vertex[main_i] > ToVertex
      BY <1>15, <3>2 DEF Collect, TypeTables, slots
    <3>3. CASE ~(current_vertex[main_i] > ToVertex)
      <4>1. table[main_i] \in Table /\ next_edge[main_i] \in Nat
        BY <3>1 DEF TypePhase1
      <4>2. tables' = [tables EXCEPT ![missing_vertices][0] = table[main_i]]
        BY <1>15, <3>3 DEF Collect
      <4>3. tables' \in [Slots -> [Threads -> Table]]
        BY <4>1, <4>2 DEF TypeTables
      <4>4. live' \in [Slots -> SUBSET Threads]
        BY <1>15, <3>1, <3>3 DEF Collect, TypeTables
      <4>5. 0 .. next_edge[main_i] - 1 \in SUBSET Nat
        BY <4>1
      <4>6. accounted' \in [Slots -> SUBSET Nat]
        BY <1>15, <3>3, <4>5 DEF Collect, TypeTables
      <4> QED BY <1>15, <3>3, <4>3, <4>4, <4>6 DEF Collect, TypeTables
    <3> QED BY <3>2, <3>3
  <2>4. TypePhase1' /\ TypeLocals' /\ TypeOutput'
    BY <1>15 DEF Collect, TypePhase1, TypeLocals, TypeOutput, phase1, slots,
       locals
  <2> QED BY <2>1, <2>2, <2>3, <2>4
<1>16. ASSUME Return PROVE TypeOK'
  <2>1. TypeControl'
    BY <1>16 DEF Return, TypeControl, PCLabels, phase1, slots, locals
  <2>2. TypePhase1' /\ TypeSlots' /\ TypeTables' /\ TypeLocals' /\ TypeOutput'
    BY <1>16 DEF Return, TypePhase1, TypeSlots, TypeTables, TypeLocals,
       TypeOutput, phase1, slots, locals
  <2> QED BY <2>1, <2>2
<1>17. CASE UNCHANGED vars
  BY <1>17 DEF vars, phase1, slots, locals, main, TypeControl, TypePhase1,
     TypeSlots, TypeTables, TypeLocals, TypeOutput
<1> QED
  BY <1>1, <1>2, <1>3, <1>4, <1>5, <1>6, <1>7, <1>8, <1>9, <1>10, <1>11,
     <1>12, <1>13, <1>14, <1>15, <1>16, <1>17
  DEF Next, Phase1Step, Phase2Step, Terminated

(* A thread at a label of phase 1 is in phase 1. *)
LEMMA InFirstPhase ==
  ASSUME TypeOK, ControlInv, NEW t \in Threads, pc[t] \in Labels1
  PROVE  InPhase1
BY DEF ControlInv, LabelInv, Labels1, Labels2

(* Every action preserves the labels. *)
LEMMA LabelStep ==
  ASSUME TypeOK, ControlInv, [Next]_vars
  PROVE  LabelInv'
<1> USE ThreadsAssumption DEF TypeOK, TypeControl, Goto, ControlInv, InPhase1
<1>1. ASSUME NEW t \in Threads, Fetch(t) PROVE LabelInv'
  <2>1. InPhase1
    BY <1>1, InFirstPhase DEF Fetch, Labels1
  <2> QED BY <1>1, <2>1 DEF Fetch, LabelInv, Working, Labels1, Labels2, slots,
     locals, main, Threads
<1>2. ASSUME NEW t \in Threads, Signal(t) PROVE LabelInv'
  <2>1. InPhase1
    BY <1>2, InFirstPhase DEF Signal, Labels1
  <2> QED BY <1>2, <2>1 DEF Signal, LabelInv, Working, Labels1, Labels2,
     slots, main, Threads
<1>3. ASSUME NEW t \in Threads, Leave1(t) PROVE LabelInv'
  <2>1. InPhase1
    BY <1>3, InFirstPhase DEF Leave1, Labels1
  <2> QED BY <1>3, <2>1 DEF Leave1, LabelInv, Working, Labels1, Labels2,
     phase1, slots, locals, main, Threads
<1>4. ASSUME NEW t \in Threads, Combine1(t) PROVE LabelInv'
  <2>1. InPhase1
    BY <1>4, InFirstPhase DEF Combine1, Labels1
  <2> QED BY <1>4, <2>1 DEF Combine1, LabelInv, Working, Labels1, Labels2,
     slots, locals, main, Threads
<1>5. ASSUME NEW t \in Threads, Write1(t) PROVE LabelInv'
  <2>1. InPhase1
    BY <1>5, InFirstPhase DEF Write1, Labels1
  <2>2. /\ pc' = [pc EXCEPT ![t] = "fetch"]
        /\ pc[t] = "loop" /\ UNCHANGED <<idx, main_i>>
    BY <1>5 DEF Write1, locals, main
  <2> QED BY <2>1, <2>2 DEF LabelInv, Labels1, Working
<1>6. ASSUME NEW t \in Threads, Claim(t) PROVE LabelInv'
  <2>1. ~InPhase1
    BY <1>6, InPhase2 DEF Claim, Labels2
  <2> QED BY <1>6, <2>1 DEF Claim, NextSlot, LabelInv, Working, Labels1,
     Labels2, phase1, main, Threads
<1>7. ASSUME NEW t \in Threads, Register(t) PROVE LabelInv'
  <2>1. ~InPhase1
    BY <1>7, InPhase2 DEF Register, Labels2
  <2> QED BY <1>7, <2>1 DEF Register, LabelInv, Working, Labels1, Labels2,
     phase1, main, Threads
<1>8. ASSUME NEW t \in Threads, Allocate(t) PROVE LabelInv'
  <2>1. ~InPhase1
    BY <1>8, InPhase2 DEF Allocate, Labels2
  <2> QED BY <1>8, <2>1 DEF Allocate, LabelInv, Working, Labels1, Labels2,
     phase1, locals, main, Threads
<1>9. ASSUME NEW t \in Threads, Combine2(t) PROVE LabelInv'
  <2>1. ~InPhase1
    BY <1>9, InPhase2 DEF Combine2, Labels2
  <2> QED BY <1>9, <2>1 DEF Combine2, LabelInv, Working, Labels1, Labels2,
     phase1, main, Threads
<1>10. ASSUME NEW t \in Threads, NextEdge(t) PROVE LabelInv'
  <2>1. ~InPhase1
    BY <1>10, InPhase2 DEF NextEdge, Labels2
  <2> QED BY <1>10, <2>1 DEF NextEdge, LabelInv, Working, Labels1, Labels2,
     phase1, main, Threads
<1>11. ASSUME NEW t \in Threads, Account(t) PROVE LabelInv'
  <2>1. ~InPhase1
    BY <1>11, InPhase2 DEF Account, Labels2
  <2> QED BY <1>11, <2>1 DEF Account, NextSlot, LabelInv, Working, Labels1,
     Labels2, phase1, main, Threads
<1>12. ASSUME NEW t \in Threads, Merge(t) PROVE LabelInv'
  <2>1. ~InPhase1
    BY <1>12, InPhase2 DEF Merge, Labels2
  <2> QED BY <1>12, <2>1 DEF Merge, LabelInv, Working, Labels1, Labels2,
     phase1, main, Threads
<1>13. ASSUME NEW t \in Threads, Write2(t) PROVE LabelInv'
  <2>1. ~InPhase1
    BY <1>13, InPhase2 DEF Write2, Labels2
  <2> QED BY <1>13, <2>1 DEF Write2, NextSlot, LabelInv, Working, Labels1,
     Labels2, phase1, main, Threads
<1>14. ASSUME NEW t \in Threads, Leave2(t) PROVE LabelInv'
  <2>1. ~InPhase1
    BY <1>14, InPhase2 DEF Leave2, Labels2
  <2> QED BY <1>14, <2>1 DEF Leave2, LabelInv, Working, Labels1, Labels2,
     phase1, slots, locals, main, Threads
<1>15. CASE Collect
  BY <1>15 DEF Collect, LabelInv, Working, Labels1, Labels2, phase1, slots,
     locals, Threads
<1>16. CASE Return
  BY <1>16 DEF Return, LabelInv, Working, Labels1, Labels2, phase1, slots,
     locals, Threads
<1>17. CASE UNCHANGED vars
  BY <1>17 DEF vars, LabelInv, Working, Labels1, Labels2, phase1, slots,
     locals, main
<1> QED
  BY <1>1, <1>2, <1>3, <1>4, <1>5, <1>6, <1>7, <1>8, <1>9, <1>10, <1>11,
     <1>12, <1>13, <1>14, <1>15, <1>16, <1>17
  DEF Next, Phase1Step, Phase2Step, Terminated

(* Every action preserves the flags. *)
LEMMA FlagStep ==
  ASSUME TypeOK, ControlInv, [Next]_vars
  PROVE  FlagInv'
<1> USE ThreadsAssumption DEF TypeOK, TypeControl, Goto, ControlInv, InPhase1
<1>1. ASSUME NEW t \in Threads, Fetch(t) PROVE FlagInv'
  <2>1. InPhase1
    BY <1>1, InFirstPhase DEF Fetch, Labels1
  <2>2. /\ pc[t] = "fetch" /\ idx[t] = 0 /\ UNCHANGED <<idx, terminate_flag, main_i>>
        /\ current_vertex' = [current_vertex EXCEPT ![t] = next_vertex]
        /\ \/ next_vertex > ToVertex /\ pc' = [pc EXCEPT ![t] = "signal"]
           \/ ~(next_vertex > ToVertex) /\ pc' = [pc EXCEPT ![t] = "loop"]
    BY <1>1, <2>1 DEF Fetch, LabelInv, locals, main
  <2>3. ASSUME NEW u \in Threads, Exhausted(u) PROVE Exhausted(u)'
    BY <2>2, <2>3 DEF Exhausted, TypePhase1
  <2>4. ASSUME NEW u \in Threads PROVE
          /\ pc'[u] = "signal" =>
               /\ current_vertex'[u] > ToVertex
               /\ \A w \in Threads : w < idx'[u] => terminate_flag'[w]
          /\ pc'[u] = "loop" /\ current_vertex'[u] > ToVertex => terminate_flag'[u]
          /\ pc'[u] = "joined" => terminate_flag'[u]
    <3>1. CASE u = t
      BY <2>2, <3>1 DEF TypePhase1, Threads
    <3>2. CASE u # t
      <4>1. /\ pc'[u] = pc[u] /\ current_vertex'[u] = current_vertex[u]
            /\ terminate_flag'[u] = terminate_flag[u] /\ idx'[u] = idx[u]
        BY <2>2, <3>2 DEF TypePhase1
      <4> QED BY <2>1, <2>2, <4>1 DEF FlagInv
    <3> QED BY <3>1, <3>2
  <2>5. ASSUME NEW u \in Threads, terminate_flag'[u]
        PROVE  \E w \in Threads : Exhausted(w)'
    <3>1. PICK w \in Threads : Exhausted(w)
      BY <2>1, <2>2, <2>5 DEF FlagInv
    <3> QED BY <2>3, <3>1
  <2> QED BY <2>4, <2>5 DEF FlagInv
<1>2. ASSUME NEW t \in Threads, Signal(t) PROVE FlagInv'
  <2>1. InPhase1
    BY <1>2, InFirstPhase DEF Signal, Labels1
  <2>2. /\ pc[t] = "signal" /\ idx[t] < NThreads /\ current_vertex[t] > ToVertex
        /\ UNCHANGED <<current_vertex, main_i>>
        /\ terminate_flag' = [terminate_flag EXCEPT ![idx[t]] = TRUE]
        /\ \/ idx' = [idx EXCEPT ![t] = @ + 1] /\ UNCHANGED pc
           \/ /\ ~(idx[t] + 1 < NThreads) /\ idx' = [idx EXCEPT ![t] = 0]
              /\ pc' = [pc EXCEPT ![t] = "loop"]
    BY <1>2, <2>1 DEF Signal, LabelInv, FlagInv, main
  <2>3. Exhausted(t)' /\ \A u \in Threads : Exhausted(u) => Exhausted(u)'
    BY <2>2 DEF Exhausted
  <2>4. \A w \in Threads : w < idx[t] + 1 => terminate_flag'[w]
    <3>1. \A w \in Threads : w < idx[t] => terminate_flag[w]
      BY <2>1, <2>2 DEF FlagInv
    <3>2. \A w \in Threads : w < idx[t] + 1 => w < idx[t] \/ w = idx[t]
      BY DEF Threads
    <3> QED BY <2>2, <3>1, <3>2 DEF TypePhase1
  <2>5. ASSUME NEW u \in Threads PROVE
          /\ pc'[u] = "signal" =>
               /\ current_vertex'[u] > ToVertex
               /\ \A w \in Threads : w < idx'[u] => terminate_flag'[w]
          /\ pc'[u] = "loop" /\ current_vertex'[u] > ToVertex => terminate_flag'[u]
          /\ pc'[u] = "joined" => terminate_flag'[u]
    <3>1. CASE u = t
      <4>1. \/ pc'[t] = "signal" /\ idx'[t] = idx[t] + 1
            \/ pc'[t] = "loop" /\ ~(idx[t] + 1 < NThreads)
        BY <2>2
      <4>2. ~(idx[t] + 1 < NThreads) => t < idx[t] + 1
        BY DEF Threads
      <4> QED BY <2>2, <2>4, <3>1, <4>1, <4>2
    <3>2. CASE u # t
      <4>1. /\ pc'[u] = pc[u] /\ current_vertex'[u] = current_vertex[u]
            /\ idx'[u] = idx[u]
            /\ \A w \in Threads : terminate_flag[w] => terminate_flag'[w]
        BY <2>2, <3>2 DEF TypePhase1
      <4> QED BY <2>1, <4>1 DEF FlagInv
    <3> QED BY <3>1, <3>2
  <2> QED BY <2>3, <2>5 DEF FlagInv
<1>3. ASSUME NEW t \in Threads, Leave1(t) PROVE FlagInv'
  <2>1. InPhase1
    BY <1>3, InFirstPhase DEF Leave1, Labels1
  <2> QED BY <1>3, <2>1 DEF Leave1, FlagInv, LabelInv, Exhausted, phase1,
     slots, locals, main, Threads
<1>4. ASSUME NEW t \in Threads, Combine1(t) PROVE FlagInv'
  <2>1. InPhase1
    BY <1>4, InFirstPhase DEF Combine1, Labels1
  <2> QED BY <1>4, <2>1 DEF Combine1, FlagInv, LabelInv, Exhausted, slots,
     locals, main, Threads
<1>5. ASSUME NEW t \in Threads, Write1(t) PROVE FlagInv'
  <2>1. InPhase1
    BY <1>5, InFirstPhase DEF Write1, Labels1
  <2> QED BY <1>5, <2>1 DEF Write1, FlagInv, LabelInv, Exhausted, slots,
     locals, main, Threads
<1>6. ASSUME NEW t \in Threads, Claim(t) PROVE FlagInv'
  <2>1. ~InPhase1
    BY <1>6, InPhase2 DEF Claim, Labels2
  <2> QED BY <1>6, <2>1 DEF Claim, NextSlot, FlagInv, LabelInv, Exhausted,
     phase1, main, Threads
<1>7. ASSUME NEW t \in Threads, Register(t) PROVE FlagInv'
  <2>1. ~InPhase1
    BY <1>7, InPhase2 DEF Register, Labels2
  <2> QED BY <1>7, <2>1 DEF Register, FlagInv, LabelInv, Exhausted, phase1,
     main, Threads
<1>8. ASSUME NEW t \in Threads, Allocate(t) PROVE FlagInv'
  <2>1. ~InPhase1
    BY <1>8, InPhase2 DEF Allocate, Labels2
  <2> QED BY <1>8, <2>1 DEF Allocate, FlagInv, LabelInv, Exhausted, phase1,
     locals, main, Threads
<1>9. ASSUME NEW t \in Threads, Combine2(t) PROVE FlagInv'
  <2>1. ~InPhase1
    BY <1>9, InPhase2 DEF Combine2, Labels2
  <2> QED BY <1>9, <2>1 DEF Combine2, FlagInv, LabelInv, Exhausted, phase1,
     main, Threads
<1>10. ASSUME NEW t \in Threads, NextEdge(t) PROVE FlagInv'
  <2>1. ~InPhase1
    BY <1>10, InPhase2 DEF NextEdge, Labels2
  <2> QED BY <1>10, <2>1 DEF NextEdge, FlagInv, LabelInv, Exhausted, phase1,
     main, Threads
<1>11. ASSUME NEW t \in Threads, Account(t) PROVE FlagInv'
  <2>1. ~InPhase1
    BY <1>11, InPhase2 DEF Account, Labels2
  <2> QED BY <1>11, <2>1 DEF Account, NextSlot, FlagInv, LabelInv, Exhausted,
     phase1, main, Threads
<1>12. ASSUME NEW t \in Threads, Merge(t) PROVE FlagInv'
  <2>1. ~InPhase1
    BY <1>12, InPhase2 DEF Merge, Labels2
  <2> QED BY <1>12, <2>1 DEF Merge, FlagInv, LabelInv, Exhausted, phase1,
     main, Threads
<1>13. ASSUME NEW t \in Threads, Write2(t) PROVE FlagInv'
  <2>1. ~InPhase1
    BY <1>13, InPhase2 DEF Write2, Labels2
  <2> QED BY <1>13, <2>1 DEF Write2, NextSlot, FlagInv, LabelInv, Exhausted,
     phase1, main, Threads
<1>14. ASSUME NEW t \in Threads, Leave2(t) PROVE FlagInv'
  <2>1. ~InPhase1
    BY <1>14, InPhase2 DEF Leave2, Labels2
  <2> QED BY <1>14, <2>1 DEF Leave2, FlagInv, LabelInv, Exhausted, phase1,
     slots, locals, main, Threads
<1>15. CASE Collect
  BY <1>15 DEF Collect, FlagInv, LabelInv, Exhausted, phase1, slots, locals,
     Threads
<1>16. CASE Return
  BY <1>16 DEF Return, FlagInv, LabelInv, Exhausted, phase1, slots, locals,
     Threads
<1>17. CASE UNCHANGED vars
  BY <1>17 DEF vars, FlagInv, LabelInv, Exhausted, phase1, slots, locals, main
<1> QED
  BY <1>1, <1>2, <1>3, <1>4, <1>5, <1>6, <1>7, <1>8, <1>9, <1>10, <1>11,
     <1>12, <1>13, <1>14, <1>15, <1>16, <1>17
  DEF Next, Phase1Step, Phase2Step, Terminated

(* Every action preserves the number of slots. *)
LEMMA MissingStep ==
  ASSUME TypeOK, ControlInv, [Next]_vars
  PROVE  MissingInv'
<1> USE ThreadsAssumption DEF TypeOK, TypeControl, Goto, ControlInv, InPhase1
<1>1. ASSUME NEW t \in Threads, Fetch(t) PROVE MissingInv'
  <2>1. InPhase1
    BY <1>1, InFirstPhase DEF Fetch, Labels1
  <2> QED BY <1>1, <2>1 DEF Fetch, MissingInv, LabelInv, FlagInv, Exhausted,
     slots, locals, main, Threads
<1>2. ASSUME NEW t \in Threads, Signal(t) PROVE MissingInv'
  <2>1. InPhase1
    BY <1>2, InFirstPhase DEF Signal, Labels1
  <2> QED BY <1>2, <2>1 DEF Signal, MissingInv, LabelInv, FlagInv, Exhausted,
     slots, main, Threads
<1>3. ASSUME NEW t \in Threads, Leave1(t) PROVE MissingInv'
  <2>1. InPhase1
    BY <1>3, InFirstPhase DEF Leave1, Labels1
  <2> QED BY <1>3, <2>1 DEF Leave1, MissingInv, LabelInv, FlagInv, Exhausted,
     phase1, slots, locals, main, Threads
<1>4. ASSUME NEW t \in Threads, Combine1(t) PROVE MissingInv'
  <2>1. InPhase1
    BY <1>4, InFirstPhase DEF Combine1, Labels1
  <2> QED BY <1>4, <2>1 DEF Combine1, MissingInv, LabelInv, FlagInv,
     Exhausted, slots, locals, main, Threads
<1>5. ASSUME NEW t \in Threads, Write1(t) PROVE MissingInv'
  <2>1. InPhase1
    BY <1>5, InFirstPhase DEF Write1, Labels1
  <2> QED BY <1>5, <2>1 DEF Write1, MissingInv, LabelInv, FlagInv, Exhausted,
     slots, locals, main, Threads
<1>6. ASSUME NEW t \in Threads, Claim(t) PROVE MissingInv'
  <2>1. ~InPhase1
    BY <1>6, InPhase2 DEF Claim, Labels2
  <2> QED BY <1>6, <2>1 DEF Claim, NextSlot, MissingInv, LabelInv, FlagInv,
     Exhausted, phase1, main, Threads
<1>7. ASSUME NEW t \in Threads, Register(t) PROVE MissingInv'
  <2>1. ~InPhase1
    BY <1>7, InPhase2 DEF Register, Labels2
  <2> QED BY <1>7, <2>1 DEF Register, MissingInv, LabelInv, FlagInv,
     Exhausted, phase1, main, Threads
<1>8. ASSUME NEW t \in Threads, Allocate(t) PROVE MissingInv'
  <2>1. ~InPhase1
    BY <1>8, InPhase2 DEF Allocate, Labels2
  <2> QED BY <1>8, <2>1 DEF Allocate, MissingInv, LabelInv, FlagInv,
     Exhausted, phase1, locals, main, Threads
<1>9. ASSUME NEW t \in Threads, Combine2(t) PROVE MissingInv'
  <2>1. ~InPhase1
    BY <1>9, InPhase2 DEF Combine2, Labels2
  <2> QED BY <1>9, <2>1 DEF Combine2, MissingInv, LabelInv, FlagInv,
     Exhausted, phase1, main, Threads
<1>10. ASSUME NEW t \in Threads, NextEdge(t) PROVE MissingInv'
  <2>1. ~InPhase1
    BY <1>10, InPhase2 DEF NextEdge, Labels2
  <2> QED BY <1>10, <2>1 DEF NextEdge, MissingInv, LabelInv, FlagInv,
     Exhausted, phase1, main, Threads
<1>11. ASSUME NEW t \in Threads, Account(t) PROVE MissingInv'
  <2>1. ~InPhase1
    BY <1>11, InPhase2 DEF Account, Labels2
  <2> QED BY <1>11, <2>1 DEF Account, NextSlot, MissingInv, LabelInv, FlagInv,
     Exhausted, phase1, main, Threads
<1>12. ASSUME NEW t \in Threads, Merge(t) PROVE MissingInv'
  <2>1. ~InPhase1
    BY <1>12, InPhase2 DEF Merge, Labels2
  <2> QED BY <1>12, <2>1 DEF Merge, MissingInv, LabelInv, FlagInv, Exhausted,
     phase1, main, Threads
<1>13. ASSUME NEW t \in Threads, Write2(t) PROVE MissingInv'
  <2>1. ~InPhase1
    BY <1>13, InPhase2 DEF Write2, Labels2
  <2> QED BY <1>13, <2>1 DEF Write2, NextSlot, MissingInv, LabelInv, FlagInv,
     Exhausted, phase1, main, Threads
<1>14. ASSUME NEW t \in Threads, Leave2(t) PROVE MissingInv'
  <2>1. ~InPhase1
    BY <1>14, InPhase2 DEF Leave2, Labels2
  <2> QED BY <1>14, <2>1 DEF Leave2, MissingInv, LabelInv, FlagInv, Exhausted,
     phase1, slots, locals, main, Threads
<1>15. CASE Collect
  BY <1>15 DEF Collect, MissingInv, LabelInv, FlagInv, Exhausted, phase1,
     slots, locals, Threads
<1>16. CASE Return
  <2>1. ~InPhase1
    <3>1. 0 \in Threads /\ pc[0] = "done"
      BY <1>16 DEF Return, Threads
    <3> QED BY <3>1, InPhase2 DEF Labels2
  <2> QED BY <1>16, <2>1 DEF Return, MissingInv
<1>17. CASE UNCHANGED vars
  BY <1>17 DEF vars, MissingInv, LabelInv, FlagInv, Exhausted, phase1, slots,
     locals, main
<1> QED
  BY <1>1, <1>2, <1>3, <1>4, <1>5, <1>6, <1>7, <1>8, <1>9, <1>10, <1>11,
     <1>12, <1>13, <1>14, <1>15, <1>16, <1>17
  DEF Next, Phase1Step, Phase2Step, Terminated

-----------------------------------------------------------------------------
(* What a step leaves alone. *)

SameThread(u) ==
  /\ pc'[u] = pc[u] /\ idx'[u] = idx[u] /\ d'[u] = d[u]
  /\ worker_no'[u] = worker_no[u] /\ processed'[u] = processed[u]
  /\ merge_i'[u] = merge_i[u] /\ mine'[u] = mine[u]

(* Before the threads are joined there is no slot. *)
LEMMA NoSlotsYet ==
  ASSUME TypeOK, ControlInv, NEW t \in Threads, pc[t] \in {"fetch", "signal", "loop"}
  PROVE  InPhase1 /\ main_i = 0 /\ missing_vertices = 0 /\ Used = {}
<1>1. InPhase1
  BY InFirstPhase DEF Labels1
<1>2. main_i = 0
  BY <1>1 DEF ControlInv, MissingInv, TypeOK, TypeControl
<1>3. missing_vertices = 0
  BY <1>2 DEF ControlInv, MissingInv, TypeOK, TypeControl
<1> QED BY <1>1, <1>2, <1>3 DEF Used, Slots

(* A step of phase 1 is taken before there is any slot. *)
LEMMA Frame1 ==
  ASSUME TypeOK, ControlInv, NEW t \in Threads, Phase1Step(t)
  PROVE  /\ InPhase1 /\ InPhase1' /\ main_i = 0 /\ Used = {} /\ Used' = {}
         /\ UNCHANGED <<main, slots, d, worker_no, processed, merge_i, mine>>
         /\ \A u \in Threads \ {t} :
              /\ pc'[u] = pc[u] /\ idx'[u] = idx[u]
              /\ current_vertex'[u] = current_vertex[u]
              /\ edges_to_process'[u] = edges_to_process[u]
              /\ next_edge'[u] = next_edge[u] /\ table'[u] = table[u]
<1>1. pc[t] \in {"fetch", "signal", "loop"}
  BY DEF Phase1Step, Fetch, Signal, Leave1, Combine1, Write1
<1>2. UNCHANGED <<main, slots, d, worker_no, processed, merge_i, mine>>
  BY DEF Phase1Step, Fetch, Signal, Leave1, Combine1, Write1, locals
<1>3. InPhase1 /\ main_i = 0 /\ missing_vertices = 0 /\ Used = {}
  BY <1>1, NoSlotsYet
<1>4. \A u \in Threads \ {t} :
              /\ pc'[u] = pc[u] /\ idx'[u] = idx[u]
              /\ current_vertex'[u] = current_vertex[u]
              /\ edges_to_process'[u] = edges_to_process[u]
              /\ next_edge'[u] = next_edge[u] /\ table'[u] = table[u]
  BY DEF Phase1Step, Fetch, Signal, Leave1, Combine1, Write1, Goto, locals, phase1,
         TypeOK, TypeControl, TypePhase1
<1>5. InPhase1' /\ Used' = {}
  BY <1>2, <1>3 DEF InPhase1, Used, Slots, main
<1> QED BY <1>2, <1>3, <1>4, <1>5

(* A step of phase 2 changes one thread. *)
LEMMA Frame2 ==
  ASSUME TypeOK, ControlInv, NEW t \in Threads, Phase2Step(t)
  PROVE  /\ ~InPhase1 /\ (~InPhase1)'
         /\ UNCHANGED <<main, vertex, slot_edges, next_vertex, phase1>>
         /\ Used' = Used
         /\ \A u \in Threads \ {t} : SameThread(u)
<1>1. pc[t] \in Labels2
  BY DEF Phase2Step, Claim, Register, Allocate, Combine2, NextEdge, Account,
         Merge, Write2, Leave2, Labels2
<1>2. UNCHANGED <<main, vertex, slot_edges, next_vertex, phase1>>
  BY DEF Phase2Step, Claim, Register, Allocate, Combine2, NextEdge, Account,
         Merge, Write2, Leave2, slots
<1>3. ASSUME NEW u \in Threads \ {t} PROVE SameThread(u)
  BY DEF Phase2Step, Claim, Register, Allocate, Combine2, NextEdge, Account,
         Merge, Write2, Leave2, NextSlot, Goto, SameThread, locals, TypeOK,
         TypeControl, TypeLocals
<1>4. ~InPhase1
  BY <1>1, InPhase2
<1> QED BY <1>2, <1>3, <1>4 DEF main, InPhase1, Used

(* What the invariants say of a thread does not change if its variables,   *)
(* and the number of slots, do not.                                        *)
LEMMA SameViews ==
  ASSUME NEW u \in Threads, SameThread(u), missing_vertices' = missing_vertices,
         slot_edges' = slot_edges
  PROVE  /\ SlotOf(u)' = SlotOf(u) /\ Owned(u)' = Owned(u)
         /\ Working(u)' <=> Working(u)
         /\ Filling(u)' <=> Filling(u)
         /\ \A s : (At(u, s)' <=> At(u, s)) /\ (Winner(u, s)' <=> Winner(u, s))
<1>1. SlotOf(u)' = SlotOf(u)
  BY DEF SameThread, SlotOf
<1>2. /\ Working(u)' <=> Working(u)
      /\ Filling(u)' <=> Filling(u)
  BY DEF SameThread, Working, Filling
<1>3. Owned(u)' = Owned(u)
  BY <1>1 DEF SameThread, Owned, Pending, Virtual
<1> QED BY <1>1, <1>2, <1>3 DEF At, Winner, SameThread

-----------------------------------------------------------------------------
(* The vertex counter. *)

ExhaustedThreads == {t \in Threads : Exhausted(t)}

LEMMA ExhaustedFinite ==
  /\ IsFiniteSet(ExhaustedThreads)
  /\ Cardinality(ExhaustedThreads) \in Nat
  /\ Cardinality(ExhaustedThreads) <= NThreads
  /\ \A t \in Threads : ~Exhausted(t) => Cardinality(ExhaustedThreads) < NThreads
<1>1. IsFiniteSet(Threads) /\ Cardinality(Threads) = NThreads
  BY ThreadsAssumption, FS_Interval DEF Threads
<1>2. ExhaustedThreads \subseteq Threads
  BY DEF ExhaustedThreads
<1>3. /\ IsFiniteSet(ExhaustedThreads) /\ Cardinality(ExhaustedThreads) <= NThreads
      /\ Cardinality(ExhaustedThreads) = NThreads => ExhaustedThreads = Threads
  BY <1>1, <1>2, FS_Subset
<1>4. Cardinality(ExhaustedThreads) \in Nat
  BY <1>3, FS_CardinalityType
<1>5. \A t \in Threads : ~Exhausted(t) => ExhaustedThreads # Threads
  BY DEF ExhaustedThreads
<1> QED BY <1>3, <1>4, <1>5, ThreadsAssumption

(* With some headroom the counter does not wrap around. *)
LEMMA NoWrap ==
  ASSUME TypeOK, ControlInv, CounterInv, Headroom, NEW t \in Threads, pc[t] = "fetch"
  PROVE  Successor(next_vertex) = next_vertex + 1
<1>1. InPhase1
  BY NoSlotsYet
<1>2. next_vertex <= ToVertex + 1 + Cardinality(ExhaustedThreads)
  BY <1>1, ExhaustedFinite, RangeAssumption
  DEF CounterInv, ExhaustedThreads, TypeOK, TypeControl
<1>3. Cardinality(ExhaustedThreads) < NThreads
  BY ExhaustedFinite DEF Exhausted
<1>4. /\ next_vertex \in Nat /\ ToVertex \in Nat /\ MaxVertex \in Nat /\ NThreads \in Nat
      /\ Cardinality(ExhaustedThreads) \in Nat
  BY ExhaustedFinite, RangeAssumption, ThreadsAssumption DEF TypeOK, TypeControl
<1> QED BY <1>2, <1>3, <1>4 DEF Headroom, Successor

LEMMA CounterInit == Init => CounterInv
<1> SUFFICES ASSUME Init PROVE CounterInv
  OBVIOUS
<1>1. \A t \in Threads : ~Exhausted(t)
  BY DEF Init, Exhausted
<1>2. next_vertex = FromVertex /\ main_i = 0
  BY DEF Init
<1> QED BY <1>1, <1>2, RangeAssumption, ThreadsAssumption DEF CounterInv, InPhase1

LEMMA CounterFetch ==
  ASSUME TypeOK, ControlInv, CounterInv, Headroom, NEW t \in Threads, Fetch(t)
  PROVE  CounterInv'
<1>1. /\ InPhase1 /\ InPhase1'
      /\ \A u \in Threads \ {t} :
           pc'[u] = pc[u] /\ current_vertex'[u] = current_vertex[u]
  BY Frame1 DEF Phase1Step
<1>2. next_vertex' = next_vertex + 1 /\ pc[t] = "fetch"
  BY NoWrap DEF Fetch
<1>3. ~Exhausted(t)
  BY <1>2 DEF Exhausted
<1>4. Exhausted(t)' <=> next_vertex > ToVertex
  BY DEF Fetch, Goto, Exhausted, TypeOK, TypeControl, TypePhase1
<1>5. \A u \in Threads \ {t} : Exhausted(u)' <=> Exhausted(u)
  BY <1>1 DEF Exhausted
<1>6. /\ next_vertex \in Nat /\ ToVertex \in Nat /\ FromVertex \in Nat
      /\ Cardinality(ExhaustedThreads) \in Nat
  BY ExhaustedFinite, RangeAssumption DEF TypeOK, TypeControl
<1>7. next_vertex > ToVertex + 1
        => next_vertex <= ToVertex + 1 + Cardinality(ExhaustedThreads)
  BY <1>1 DEF CounterInv, ExhaustedThreads
<1>8. next_vertex > ToVertex
        => Cardinality(ExhaustedThreads') = Cardinality(ExhaustedThreads) + 1
  <2> SUFFICES ASSUME next_vertex > ToVertex
               PROVE  Cardinality(ExhaustedThreads') = Cardinality(ExhaustedThreads) + 1
    OBVIOUS
  <2>1. ExhaustedThreads' = ExhaustedThreads \cup {t}
    BY <1>4, <1>5 DEF ExhaustedThreads
  <2>2. t \notin ExhaustedThreads
    BY <1>3 DEF ExhaustedThreads
  <2> QED BY <2>1, <2>2, ExhaustedFinite, FS_AddElement
<1>9. next_vertex' >= FromVertex
  BY <1>2, <1>6 DEF CounterInv
<1>10. next_vertex' > ToVertex + 1
         => next_vertex' <= ToVertex + 1 + Cardinality(ExhaustedThreads')
  BY <1>2, <1>6, <1>7, <1>8
<1>11. \A u \in Threads : Exhausted(u)' => next_vertex' > ToVertex
  BY <1>1, <1>2, <1>4, <1>5, <1>6 DEF CounterInv
<1> QED BY <1>1, <1>9, <1>10, <1>11 DEF CounterInv, ExhaustedThreads

LEMMA CounterSame ==
  ASSUME CounterInv, UNCHANGED <<next_vertex, main_i>>,
         InPhase1 => \A u \in Threads : Exhausted(u)' <=> Exhausted(u)
  PROVE  CounterInv'
<1>1. CASE InPhase1
  <2>1. ExhaustedThreads' = ExhaustedThreads
    BY <1>1 DEF ExhaustedThreads
  <2> QED BY <1>1, <2>1 DEF CounterInv, ExhaustedThreads, InPhase1
<1>2. CASE ~InPhase1
  BY <1>2 DEF CounterInv, InPhase1
<1> QED BY <1>1, <1>2

LEMMA CounterStep ==
  ASSUME TypeOK, ControlInv, CounterInv, Headroom, [Next]_vars
  PROVE  CounterInv'
<1>1. ASSUME NEW t \in Threads, Fetch(t) PROVE CounterInv'
  BY <1>1, CounterFetch
<1>2. ASSUME NEW t \in Threads, Signal(t) \/ Leave1(t) \/ Combine1(t) \/ Write1(t)
      PROVE  CounterInv'
  <2>1. InPhase1 /\ UNCHANGED <<next_vertex, main_i, current_vertex>>
        /\ \A u \in Threads \ {t} : pc'[u] = pc[u]
    BY <1>2, Frame1 DEF Phase1Step, Signal, Leave1, Combine1, Write1, phase1, main
  <2>2. Exhausted(t)' <=> Exhausted(t)
    <3>1. Signal(t) \/ Leave1(t) \/ Combine1(t)
            => {pc[t], pc'[t]} \subseteq {"signal", "loop", "joined"}
      BY DEF Signal, Leave1, Combine1, Goto, TypeOK, TypeControl
    <3>2. Write1(t) => ~(current_vertex[t] > ToVertex)
      BY <2>1 DEF Write1, ControlInv, FlagInv
    <3> QED BY <1>2, <2>1, <3>1, <3>2 DEF Exhausted
  <2>3. \A u \in Threads : Exhausted(u)' <=> Exhausted(u)
    BY <2>1, <2>2 DEF Exhausted
  <2> QED BY <2>1, <2>3, CounterSame
<1>3. ASSUME NEW t \in Threads, Phase2Step(t) PROVE CounterInv'
  BY <1>3, Frame2, CounterSame DEF main
<1>4. CASE Collect
  <2>1. /\ \A t \in Threads : pc[t] = "joined"
        /\ main_i' = main_i + 1 /\ InPhase1 /\ UNCHANGED <<next_vertex, phase1>>
    BY <1>4 DEF Collect, InPhase1
  <2>2. next_vertex > ToVertex
    <3>1. 0 \in Threads
      BY ThreadsAssumption DEF Threads
    <3>2. PICK t \in Threads : Exhausted(t)
      BY <2>1, <3>1 DEF ControlInv, FlagInv
    <3> QED BY <2>1, <3>2 DEF CounterInv
  <2>3. CASE main_i + 1 < NThreads
    <3>1. UNCHANGED pc
      BY <1>4, <2>3 DEF Collect
    <3>2. ExhaustedThreads' = ExhaustedThreads
          /\ \A t \in Threads : Exhausted(t)' <=> Exhausted(t)
      BY <2>1, <3>1 DEF ExhaustedThreads, Exhausted, phase1
    <3> QED BY <2>1, <2>2, <3>2 DEF CounterInv, ExhaustedThreads
  <2>4. CASE ~(main_i + 1 < NThreads)
    BY <2>1, <2>2, <2>4 DEF CounterInv, InPhase1
  <2> QED BY <2>3, <2>4
<1>5. CASE Return
  BY <1>5, CounterSame DEF Return, Exhausted, phase1
<1>6. CASE UNCHANGED vars
  BY <1>6, CounterSame DEF vars, Exhausted, phase1, main
<1> QED
  BY <1>1, <1>2, <1>3, <1>4, <1>5, <1>6 DEF Next, Phase1Step, Terminated

-----------------------------------------------------------------------------
(* Phase 1: who holds which vertex. *)

LEMMA EdgesBound ==
  \A v \in AllVertices : EdgesToProcess(v) \in 0 .. MaxDegree
BY GraphAssumption DEF EdgesToProcess

LEMMA PrefixOps ==
  /\ Prefix(0) = EmptyTable
  /\ \A n \in Nat : n < MaxDegree => WithEdge(Prefix(n), n) = Prefix(n + 1)
  /\ \A v \in AllVertices : Prefix(EdgesToProcess(v)) = CompleteTable(v)
<1>1. Prefix(0) = EmptyTable
  BY DEF Prefix, EmptyTable, EdgeIds
<1>2. ASSUME NEW n \in Nat, n < MaxDegree PROVE WithEdge(Prefix(n), n) = Prefix(n + 1)
  <2>1. n \in EdgeIds
    BY <1>2, GraphAssumption DEF EdgeIds
  <2>2. \A e \in EdgeIds : e \in Int
    BY DEF EdgeIds
  <2>3. /\ WithEdge(Prefix(n), n) = [e \in EdgeIds |->
             IF e = n THEN Prefix(n)[n] + 1 ELSE Prefix(n)[e]]
    BY <2>1 DEF WithEdge, Prefix
  <2>4. ASSUME NEW e \in EdgeIds
        PROVE  (IF e = n THEN Prefix(n)[n] + 1 ELSE Prefix(n)[e])
                 = (IF e < n + 1 THEN 1 ELSE 0)
    <3>1. Prefix(n)[n] = 0 /\ Prefix(n)[e] = IF e < n THEN 1 ELSE 0
      BY <2>1 DEF Prefix
    <3> QED BY <2>2, <3>1
  <2> QED BY <2>3, <2>4 DEF Prefix
<1>3. \A v \in AllVertices : Prefix(EdgesToProcess(v)) = CompleteTable(v)
  BY DEF Prefix, CompleteTable
<1> QED BY <1>1, <1>2, <1>3

LEMMA Phase1Init == Init => Phase1Inv
<1> SUFFICES ASSUME Init PROVE Phase1Inv
  OBVIOUS
<1>1. \A t \in Threads : pc[t] = "fetch" /\ table[t] = EmptyTable /\ ~Holds(t)
  BY DEF Init, Holds
<1>2. HoldInv
  BY <1>1 DEF HoldInv
<1>3. \A v \in AllVertices : ~HandedOut(v) /\ output[v] = <<>>
  BY RangeAssumption DEF Init, HandedOut, Requested, AllVertices
<1>4. VertexInv
  BY <1>3 DEF VertexInv, VertexOK
<1> QED BY <1>2, <1>4 DEF Phase1Inv

(* Only the thread that acts can change what it holds. *)
LEMMA HoldsFrame ==
  ASSUME TypeOK, ControlInv, NEW t \in Threads, Phase1Step(t)
  PROVE  \A u \in Threads \ {t} :
           /\ Holds(u)' <=> Holds(u)
           /\ current_vertex'[u] = current_vertex[u]
           /\ edges_to_process'[u] = edges_to_process[u]
           /\ next_edge'[u] = next_edge[u] /\ table'[u] = table[u]
           /\ pc'[u] = pc[u]
BY Frame1 DEF Holds

LEMMA HoldFetch ==
  ASSUME TypeOK, ControlInv, CounterInv, Phase1Inv, Headroom,
         NEW t \in Threads, Fetch(t)
  PROVE  Phase1Inv'
<1>1. /\ InPhase1 /\ InPhase1' /\ main_i = 0 /\ main_i' = 0 /\ Used = {} /\ Used' = {}
      /\ \A u \in Threads \ {t} :
           /\ Holds(u)' <=> Holds(u)
           /\ current_vertex'[u] = current_vertex[u]
           /\ edges_to_process'[u] = edges_to_process[u]
           /\ next_edge'[u] = next_edge[u] /\ table'[u] = table[u]
           /\ pc'[u] = pc[u]
  BY Frame1, HoldsFrame DEF Phase1Step, main
<1>2. /\ next_vertex' = next_vertex + 1 /\ pc[t] = "fetch"
      /\ UNCHANGED <<table, output>>
  BY NoWrap DEF Fetch
<1>3. /\ current_vertex'[t] = next_vertex /\ next_edge'[t] = 0
      /\ pc'[t] = (IF next_vertex > ToVertex THEN "signal" ELSE "loop")
      /\ ~(next_vertex > ToVertex) =>
           edges_to_process'[t] = EdgesToProcess(next_vertex)
  BY DEF Fetch, Goto, TypeOK, TypeControl, TypePhase1
<1>4. ~Holds(t) /\ (Holds(t)' <=> ~(next_vertex > ToVertex))
  BY <1>2, <1>3, RangeAssumption DEF Holds, TypeOK, TypeControl
<1>5. /\ next_vertex \in Nat /\ ToVertex \in Nat /\ FromVertex \in Nat
      /\ next_vertex >= FromVertex
  BY RangeAssumption DEF TypeOK, TypeControl, CounterInv
<1>6. ~(next_vertex > ToVertex) =>
        /\ next_vertex \in Requested /\ next_vertex \in AllVertices
        /\ EdgesToProcess(next_vertex) \in Nat
        /\ output[next_vertex] = <<>>
  BY <1>5, EdgesNat DEF Requested, AllVertices, Phase1Inv, VertexInv, VertexOK, HandedOut
<1>7. Holds(t)' => HoldOK(t)'
  <2> SUFFICES ASSUME ~(next_vertex > ToVertex) PROVE HoldOK(t)'
    BY <1>4
  <2>1. table[t] = Prefix(0)
    BY <1>1, <1>2, PrefixOps DEF Phase1Inv, HoldInv
  <2> QED BY <1>2, <1>3, <1>5, <1>6, <2>1 DEF HoldOK
<1>8. \A u \in Threads \ {t} : Holds(u)' => HoldOK(u)' /\ current_vertex[u] < next_vertex
  <2> SUFFICES ASSUME NEW u \in Threads \ {t}, Holds(u)
               PROVE  HoldOK(u)' /\ current_vertex[u] < next_vertex
    BY <1>1
  <2>1. HoldOK(u)
    BY <1>1 DEF Phase1Inv, HoldInv
  <2>2. current_vertex[u] \in Nat
    BY DEF TypeOK, TypePhase1
  <2> QED BY <1>1, <1>2, <1>5, <2>1, <2>2 DEF HoldOK
<1>9. HoldInv'
  <2>1. \A u \in Threads : pc'[u] = "fetch" => table'[u] = EmptyTable
    BY <1>1, <1>3 DEF Phase1Inv, HoldInv
  <2>2. \A u \in Threads : Holds(u)' => HoldOK(u)'
    BY <1>7, <1>8
  <2>3. \A u, w \in Threads : u # w /\ Holds(u)' /\ Holds(w)'
          => current_vertex'[u] # current_vertex'[w]
    <3>1. \A u \in Threads \ {t} : Holds(u)' => current_vertex'[u] # next_vertex
      <4>1. \A u \in Threads \ {t} : current_vertex[u] \in Nat
        BY DEF TypeOK, TypePhase1
      <4> QED BY <1>1, <1>5, <1>8, <4>1
    <3> QED BY <1>1, <1>3, <3>1 DEF Phase1Inv, HoldInv
  <2> QED BY <1>1, <2>1, <2>2, <2>3 DEF HoldInv
<1>10. ASSUME NEW v \in AllVertices PROVE VertexOK(v)'
  <2>1. VertexOK(v)
    BY DEF Phase1Inv, VertexInv
  <2>2. HandedOut(v)' <=> HandedOut(v) \/ (v \in Requested /\ v = next_vertex)
    <3>1. v \in Nat
      BY DEF AllVertices
    <3> QED BY <1>2, <1>5, <3>1 DEF HandedOut
  <2>3. CASE v = next_vertex
    <3>1. ~HandedOut(v)
      BY <1>5, <2>3 DEF HandedOut
    <3>2. ~(next_vertex > ToVertex)
      BY <1>5, <2>3 DEF AllVertices
    <3>3. output'[v] = <<>>
      BY <1>2, <2>1, <3>1 DEF VertexOK
    <3>4. t >= main_i' /\ Holds(t)' /\ current_vertex'[t] = v
      BY <1>1, <1>3, <1>4, <2>3, <3>2 DEF Threads
    <3> QED BY <1>1, <3>3, <3>4 DEF VertexOK
  <2>4. CASE v # next_vertex
    <3>1. HandedOut(v)' <=> HandedOut(v)
      BY <2>2, <2>4
    <3>2. \A u \in Threads : Holds(u) => Holds(u)' /\ current_vertex'[u] = current_vertex[u]
      BY <1>1, <1>4
    <3> QED BY <1>1, <1>2, <2>1, <3>1, <3>2 DEF VertexOK
  <2> QED BY <2>3, <2>4
<1> QED BY <1>9, <1>10 DEF Phase1Inv, VertexInv

(* A step of phase 1 that neither hands out nor writes a vertex. *)
LEMMA HoldQuiet ==
  ASSUME TypeOK, ControlInv, Phase1Inv, NEW t \in Threads, Phase1Step(t),
         UNCHANGED <<output, next_vertex, current_vertex, edges_to_process>>,
         pc'[t] # "fetch", Holds(t)' <=> Holds(t),
         Holds(t) => /\ next_edge'[t] <= edges_to_process[t]
                     /\ table'[t] = Prefix(next_edge'[t])
  PROVE  Phase1Inv'
<1>1. /\ InPhase1 /\ InPhase1' /\ Used = {} /\ Used' = {} /\ UNCHANGED main_i
      /\ \A u \in Threads \ {t} :
           /\ Holds(u)' <=> Holds(u)
           /\ next_edge'[u] = next_edge[u] /\ table'[u] = table[u] /\ pc'[u] = pc[u]
  BY Frame1, HoldsFrame DEF main
<1>2. \A u \in Threads : Holds(u)' <=> Holds(u)
  BY <1>1
<1>3. HoldInv'
  <2>1. \A u \in Threads : pc'[u] = "fetch" => table'[u] = EmptyTable
    BY <1>1 DEF Phase1Inv, HoldInv
  <2>2. \A u \in Threads : Holds(u) => HoldOK(u)
    BY <1>1 DEF Phase1Inv, HoldInv
  <2>3. ASSUME NEW u \in Threads, Holds(u)' PROVE HoldOK(u)'
    <3>1. HoldOK(u)
      BY <1>2, <2>2, <2>3
    <3>2. next_edge'[u] <= edges_to_process[u] /\ table'[u] = Prefix(next_edge'[u])
      BY <1>1, <1>2, <2>3, <3>1 DEF HoldOK
    <3> QED BY <3>1, <3>2 DEF HoldOK
  <2>4. \A u, w \in Threads : u # w /\ Holds(u)' /\ Holds(w)'
          => current_vertex'[u] # current_vertex'[w]
    BY <1>1, <1>2 DEF Phase1Inv, HoldInv
  <2> QED BY <1>1, <2>1, <2>3, <2>4 DEF HoldInv
<1>4. VertexInv'
  <2>1. \A v : HandedOut(v)' <=> HandedOut(v)
    BY DEF HandedOut
  <2> QED BY <1>1, <1>2, <2>1 DEF Phase1Inv, VertexInv, VertexOK
<1> QED BY <1>3, <1>4 DEF Phase1Inv

LEMMA HoldCombine ==
  ASSUME TypeOK, ControlInv, Phase1Inv, NEW t \in Threads, Combine1(t)
  PROVE  Phase1Inv'
<1>1. InPhase1
  BY Frame1 DEF Phase1Step
<1>2. /\ UNCHANGED <<pc, output, next_vertex, current_vertex, edges_to_process>>
      /\ pc[t] = "loop" /\ next_edge[t] < edges_to_process[t]
      /\ next_edge'[t] = next_edge[t] + 1
      /\ table'[t] = WithEdge(table[t], next_edge[t])
  BY DEF Combine1, TypeOK, TypePhase1
<1>3. Holds(t)' <=> Holds(t)
  BY <1>2 DEF Holds
<1>4. ASSUME Holds(t) PROVE /\ next_edge'[t] <= edges_to_process[t]
                            /\ table'[t] = Prefix(next_edge'[t])
  <2>1. HoldOK(t)
    BY <1>1, <1>4 DEF Phase1Inv, HoldInv
  <2>2. edges_to_process[t] \in 0 .. MaxDegree /\ next_edge[t] \in Nat
    BY <2>1, EdgesBound, RangeAssumption
    DEF HoldOK, Requested, AllVertices, TypeOK, TypePhase1
  <2>3. next_edge[t] < MaxDegree
    BY <1>2, <2>2, GraphAssumption
  <2> QED BY <1>2, <2>1, <2>2, <2>3, PrefixOps DEF HoldOK
<1> QED BY <1>2, <1>3, <1>4, HoldQuiet DEF Phase1Step

LEMMA HoldWrite ==
  ASSUME TypeOK, ControlInv, Phase1Inv, NEW t \in Threads, Write1(t)
  PROVE  Phase1Inv'
<1> DEFINE v == current_vertex[t]
<1>1. /\ InPhase1 /\ InPhase1' /\ Used = {} /\ Used' = {} /\ UNCHANGED main_i
      /\ \A u \in Threads \ {t} :
           /\ Holds(u)' <=> Holds(u)
           /\ next_edge'[u] = next_edge[u] /\ table'[u] = table[u] /\ pc'[u] = pc[u]
  BY Frame1, HoldsFrame DEF Phase1Step, main
<1>2. /\ UNCHANGED <<next_vertex, current_vertex, edges_to_process, next_edge>>
      /\ pc[t] = "loop" /\ pc'[t] = "fetch" /\ ~terminate_flag[t]
      /\ next_edge[t] >= edges_to_process[t]
      /\ table'[t] = EmptyTable
      /\ output' = [output EXCEPT ![v] = Append(@, table[t])]
  BY DEF Write1, Goto, TypeOK, TypeControl, TypePhase1
<1>3. Holds(t) /\ ~Holds(t)'
  <2>1. ~(v > ToVertex)
    BY <1>1, <1>2 DEF ControlInv, FlagInv
  <2> QED BY <1>2, <2>1, RangeAssumption DEF Holds, TypeOK, TypePhase1
<1>4. HoldOK(t)
  BY <1>1, <1>3 DEF Phase1Inv, HoldInv
<1>5. v \in AllVertices
  BY <1>4, RangeAssumption DEF HoldOK, Requested, AllVertices
<1>6. output'[v] = <<CompleteTable(v)>>
  <2>1. next_edge[t] = EdgesToProcess(v)
    BY <1>2, <1>4, <1>5, EdgesNat DEF HoldOK, TypeOK, TypePhase1
  <2>2. table[t] = CompleteTable(v)
    BY <1>4, <1>5, <2>1, PrefixOps DEF HoldOK
  <2>3. output'[v] = Append(output[v], table[t])
    BY <1>2, <1>5 DEF TypeOK, TypeOutput
  <2> QED BY <1>4, <2>2, <2>3 DEF HoldOK
<1>7. \A x \in AllVertices : x # v => output'[x] = output[x]
  BY <1>2 DEF TypeOK, TypeOutput
<1>8. HoldInv'
  <2>1. \A u \in Threads : pc'[u] = "fetch" => table'[u] = EmptyTable
    BY <1>1, <1>2 DEF Phase1Inv, HoldInv
  <2>2. ASSUME NEW u \in Threads, Holds(u)' PROVE HoldOK(u)'
    <3>1. u # t /\ Holds(u) /\ HoldOK(u) /\ current_vertex[u] # v
      BY <1>1, <1>3, <2>2 DEF Phase1Inv, HoldInv
    <3>2. current_vertex[u] \in AllVertices
      BY <3>1, RangeAssumption DEF HoldOK, Requested, AllVertices
    <3> QED BY <1>1, <1>2, <1>7, <3>1, <3>2 DEF HoldOK
  <2>3. \A u, w \in Threads : u # w /\ Holds(u)' /\ Holds(w)'
          => current_vertex'[u] # current_vertex'[w]
    BY <1>1, <1>2, <1>3 DEF Phase1Inv, HoldInv
  <2> QED BY <1>1, <2>1, <2>2, <2>3 DEF HoldInv
<1>9. ASSUME NEW x \in AllVertices PROVE VertexOK(x)'
  <2>1. HandedOut(x)' <=> HandedOut(x)
    BY <1>2 DEF HandedOut
  <2>2. VertexOK(x)
    BY DEF Phase1Inv, VertexInv
  <2>3. CASE x = v
    <3>1. HandedOut(x)
      BY <1>4, <2>3 DEF HandedOut, HoldOK
    <3> QED BY <1>6, <2>1, <2>3, <3>1 DEF VertexOK
  <2>4. CASE x # v
    <3>1. \A u \in Threads : current_vertex[u] = x => u # t
      BY <2>4
    <3> QED BY <1>1, <1>2, <1>7, <2>1, <2>2, <2>4, <3>1 DEF VertexOK
  <2> QED BY <2>3, <2>4
<1> QED BY <1>8, <1>9 DEF Phase1Inv, VertexInv

(* Main moves what a thread holds into a slot. *)
LEMMA CollectFacts ==
  ASSUME TypeOK, ControlInv, Collect
  PROVE  /\ main_i \in Threads /\ InPhase1 /\ main_i' = main_i + 1
         /\ \A t \in Threads : pc[t] = "joined"
         /\ UNCHANGED <<next_vertex, phase1, locals, output>>
         /\ \A t \in Threads : Holds(t) <=> current_vertex[t] <= ToVertex
         /\ InPhase1' => UNCHANGED pc
         /\ ~InPhase1' => pc' = [t \in Threads |-> "claim"]
<1>1. main_i \in Threads /\ InPhase1 /\ main_i' = main_i + 1
      /\ \A t \in Threads : pc[t] = "joined"
  BY ThreadsAssumption DEF Collect, InPhase1, Threads, TypeOK, TypeControl
<1>2. \A t \in Threads : Holds(t) <=> current_vertex[t] <= ToVertex
  BY <1>1 DEF Holds
<1>3. /\ UNCHANGED <<next_vertex, phase1, locals, output>>
      /\ pc' = IF main_i + 1 < NThreads THEN pc ELSE [t \in Threads |-> "claim"]
  BY DEF Collect
<1>4. InPhase1' <=> main_i + 1 < NThreads
  BY <1>1 DEF InPhase1
<1>5. /\ InPhase1' => UNCHANGED pc
      /\ ~InPhase1' => pc' = [t \in Threads |-> "claim"]
  BY <1>3, <1>4
<1>6. UNCHANGED <<next_vertex, phase1, locals, output>>
  BY <1>3
<1> QED BY <1>1, <1>2, <1>5, <1>6

LEMMA CollectSlot ==
  ASSUME TypeOK, ControlInv, Collect, Holds(main_i)
  PROVE  /\ missing_vertices \in Slots
         /\ Used' = Used \cup {missing_vertices}
         /\ missing_vertices \notin Used
         /\ vertex' = [vertex EXCEPT ![missing_vertices] = current_vertex[main_i]]
         /\ UNCHANGED enrolled
<1>1. main_i \in Threads /\ InPhase1 /\ \A t \in Threads : pc[t] = "joined"
  BY CollectFacts
<1>2. ~(current_vertex[main_i] > ToVertex)
  BY <1>1, RangeAssumption DEF Holds, TypeOK, TypePhase1
<1>3. missing_vertices' = missing_vertices + 1
      /\ vertex' = [vertex EXCEPT ![missing_vertices] = current_vertex[main_i]]
      /\ UNCHANGED enrolled
  BY <1>2 DEF Collect
<1>4. missing_vertices < NThreads - 1
  <2>1. PICK t \in Threads : Exhausted(t)
    BY <1>1, ThreadsAssumption DEF ControlInv, FlagInv, Threads
  <2>2. t # main_i /\ current_vertex[t] > ToVertex
    BY <1>2, <2>1 DEF Exhausted
  <2>0. /\ missing_vertices \in Nat /\ main_i \in Nat /\ main_i < NThreads
        /\ NThreads \in Nat /\ t \in Nat /\ t < NThreads
        /\ missing_vertices <= main_i
    BY <1>1, ThreadsAssumption
    DEF ControlInv, MissingInv, Threads, TypeOK, TypeControl
  <2>3. CASE t < main_i
    <3>1. missing_vertices < main_i
      BY <2>2, <2>3 DEF ControlInv, MissingInv
    <3> QED BY <2>0, <3>1
  <2>4. CASE t > main_i
    BY <2>0, <2>4
  <2> QED BY <1>1, <2>2, <2>3, <2>4 DEF Threads
<1>5. missing_vertices \in Nat
  BY DEF TypeOK, TypeControl
<1> QED BY <1>3, <1>4, <1>5, ThreadsAssumption DEF Slots, Used

LEMMA CollectNone ==
  ASSUME TypeOK, ControlInv, Collect, ~Holds(main_i)
  PROVE  UNCHANGED <<missing_vertices, slots>> /\ Used' = Used
<1>1. current_vertex[main_i] > ToVertex
  BY CollectFacts, RangeAssumption DEF TypeOK, TypePhase1
<1> QED BY <1>1 DEF Collect, Used

LEMMA HoldCollect ==
  ASSUME TypeOK, ControlInv, Phase1Inv, Collect
  PROVE  Phase1Inv'
<1>1. /\ main_i \in Threads /\ InPhase1 /\ main_i' = main_i + 1
      /\ UNCHANGED <<next_vertex, current_vertex, edges_to_process, next_edge, table, output>>
      /\ \A t \in Threads : pc[t] = "joined"
      /\ InPhase1' => UNCHANGED pc
  BY CollectFacts DEF phase1
<1>2. InPhase1' => \A t \in Threads : Holds(t)' <=> Holds(t)
  BY <1>1 DEF Holds
<1>3. \A t \in Threads : t >= main_i' => t >= main_i /\ t # main_i
  BY <1>1 DEF Threads
<1>4. \A t \in Threads, s \in Used' : InPhase1' /\ t >= main_i' /\ Holds(t)
        => vertex'[s] # current_vertex[t]
  <2>1. CASE Holds(main_i)
    <3>1. \A t \in Threads : t # main_i /\ Holds(t)
            => current_vertex[t] # current_vertex[main_i]
      BY <1>1, <2>1 DEF Phase1Inv, HoldInv
    <3>2. \A s \in Used : vertex'[s] = vertex[s]
      BY <2>1, CollectSlot DEF TypeOK, TypeSlots, Used
    <3>3. vertex'[missing_vertices] = current_vertex[main_i]
      BY <2>1, CollectSlot DEF TypeOK, TypeSlots
    <3> QED BY <1>1, <1>3, <2>1, <3>1, <3>2, <3>3, CollectSlot DEF Phase1Inv, HoldInv
  <2>2. CASE ~Holds(main_i)
    BY <1>1, <1>3, <2>2, CollectNone DEF Phase1Inv, HoldInv, slots
  <2> QED BY <2>1, <2>2
<1>5. HoldInv'
  <2> SUFFICES ASSUME InPhase1' PROVE HoldInv'
    BY DEF HoldInv
  <2>1. \A t \in Threads : Holds(t)' => HoldOK(t)'
    BY <1>1, <1>2 DEF Phase1Inv, HoldInv, HoldOK
  <2>2. \A t, u \in Threads : t # u /\ Holds(t)' /\ Holds(u)'
          => current_vertex'[t] # current_vertex'[u]
    BY <1>1, <1>2 DEF Phase1Inv, HoldInv
  <2>3. \A t \in Threads : pc'[t] # "fetch"
    BY <1>1
  <2> QED BY <1>1, <1>2, <1>4, <2>1, <2>2, <2>3 DEF HoldInv
<1>6. ASSUME NEW v \in AllVertices PROVE VertexOK(v)'
  <2>1. VertexOK(v) /\ (HandedOut(v)' <=> HandedOut(v)) /\ output'[v] = output[v]
    BY <1>1 DEF Phase1Inv, VertexInv, HandedOut
  <2>2. ASSUME NEW s \in Used, vertex[s] = v PROVE \E r \in Used' : vertex'[r] = v
    <3>1. CASE Holds(main_i)
      BY <2>2, <3>1, CollectSlot DEF TypeOK, TypeSlots, Used
    <3>2. CASE ~Holds(main_i)
      BY <2>2, <3>2, CollectNone DEF slots
    <3> QED BY <3>1, <3>2
  <2>3. ASSUME NEW t \in Threads, t >= main_i, Holds(t), current_vertex[t] = v
        PROVE  \/ InPhase1' /\ \E u \in Threads :
                    u >= main_i' /\ Holds(u)' /\ current_vertex'[u] = v
               \/ \E r \in Used' : vertex'[r] = v
    <3>1. CASE t = main_i
      BY <2>3, <3>1, CollectSlot DEF TypeOK, TypeSlots
    <3>2. CASE t # main_i
      <4>1. t >= main_i' /\ InPhase1'
        BY <1>1, <2>3, <3>2, ThreadsAssumption DEF Threads, InPhase1
      <4> QED BY <1>1, <1>2, <2>3, <4>1
    <3> QED BY <3>1, <3>2
  <2> QED BY <2>1, <2>2, <2>3 DEF VertexOK
<1> QED BY <1>5, <1>6 DEF Phase1Inv, VertexInv

(* In phase 2 only the records of the slots are still written. *)
LEMMA HoldPhase2 ==
  ASSUME TypeOK, ControlInv, Phase1Inv, SlotInv, NEW t \in Threads, Phase2Step(t)
  PROVE  Phase1Inv'
<1>1. /\ ~InPhase1 /\ (~InPhase1)' /\ Used' = Used
      /\ UNCHANGED <<vertex, next_vertex>>
  BY Frame2
<1>2. HoldInv'
  BY <1>1 DEF HoldInv
<1>3. ASSUME NEW v \in AllVertices PROVE VertexOK(v)'
  <2>1. VertexOK(v) /\ (HandedOut(v)' <=> HandedOut(v))
    BY <1>1 DEF Phase1Inv, VertexInv, HandedOut
  <2>2. CASE \E s \in Used : vertex[s] = v
    <3>1. HandedOut(v)
      BY <2>2 DEF SlotInv, SlotOK, HandedOut
    <3> QED BY <1>1, <2>1, <2>2, <3>1 DEF VertexOK
  <2>3. CASE ~\E s \in Used : vertex[s] = v
    <3>1. output'[v] = output[v]
      <4>1. CASE Write2(t)
        <5>1. vertex[SlotOf(t)] # v
          BY <2>3, <4>1, BusySlot DEF Write2
        <5>2. output' = [output EXCEPT ![vertex[SlotOf(t)]] =
                           Append(@, tables[SlotOf(t)][0])]
          BY <4>1 DEF Write2
        <5> QED BY <5>1, <5>2 DEF TypeOK, TypeOutput
      <4>2. CASE ~Write2(t)
        BY <4>2 DEF Phase2Step, Claim, Register, Allocate, Combine2, NextEdge,
                    Account, Merge, Leave2
      <4> QED BY <4>1, <4>2
    <3> QED BY <1>1, <2>1, <2>3, <3>1 DEF VertexOK
  <2> QED BY <2>2, <2>3
<1> QED BY <1>2, <1>3 DEF Phase1Inv, VertexInv

LEMMA Phase1InvStep ==
  ASSUME TypeOK, ControlInv, CounterInv, Phase1Inv, SlotInv, Headroom, [Next]_vars
  PROVE  Phase1Inv'
<1>1. ASSUME NEW t \in Threads, Signal(t) PROVE Phase1Inv'
  <2>1. /\ pc[t] = "signal" /\ pc'[t] \in {"signal", "loop"}
        /\ UNCHANGED <<output, next_vertex, current_vertex, edges_to_process,
                       next_edge, table>>
    BY <1>1 DEF Signal, Goto, TypeOK, TypeControl
  <2>2. current_vertex[t] > ToVertex
    BY <1>1, <2>1, Frame1 DEF ControlInv, FlagInv, Phase1Step
  <2>3. ~Holds(t) /\ ~Holds(t)'
    BY <2>1, <2>2, RangeAssumption DEF Holds, TypeOK, TypePhase1
  <2> QED BY <1>1, <2>1, <2>3, HoldQuiet DEF Phase1Step
<1>2. ASSUME NEW t \in Threads, Leave1(t) PROVE Phase1Inv'
  <2>1. /\ pc[t] = "loop" /\ pc'[t] = "joined"
        /\ UNCHANGED <<output, next_vertex, current_vertex, edges_to_process,
                       next_edge, table>>
    BY <1>2 DEF Leave1, Goto, phase1, TypeOK, TypeControl
  <2>2. Holds(t)' <=> Holds(t)
    BY <2>1 DEF Holds
  <2>3. Holds(t) => HoldOK(t)
    BY <1>2, Frame1 DEF Phase1Inv, HoldInv, Phase1Step
  <2> QED BY <1>2, <2>1, <2>2, <2>3, HoldQuiet DEF HoldOK, Phase1Step
<1>3. ASSUME Return \/ UNCHANGED vars PROVE Phase1Inv'
  <2>1. UNCHANGED <<pc, next_vertex, phase1, main_i, missing_vertices, slots, output>>
    BY <1>3 DEF Return, vars, main
  <2>2. /\ InPhase1' <=> InPhase1
        /\ \A t : Holds(t)' <=> Holds(t)
        /\ Used' = Used
        /\ \A v : HandedOut(v)' <=> HandedOut(v)
    BY <2>1 DEF InPhase1, Holds, Used, HandedOut, phase1
  <2>3. HoldInv'
    BY <2>1, <2>2 DEF Phase1Inv, HoldInv, HoldOK, phase1, slots
  <2>4. VertexInv'
    BY <2>1, <2>2 DEF Phase1Inv, VertexInv, VertexOK, phase1, slots
  <2> QED BY <2>3, <2>4 DEF Phase1Inv
<1> QED
  BY <1>1, <1>2, <1>3, HoldFetch, HoldCombine, HoldWrite, HoldCollect, HoldPhase2
  DEF Next, Phase1Step, Terminated

-----------------------------------------------------------------------------
(* Slots. *)

LEMMA SlotInit == Init => SlotInv
<1> SUFFICES ASSUME Init PROVE SlotInv
  OBVIOUS
<1>1. Used = {}
  BY DEF Init, Used, Slots
<1>2. \A s \in Slots : enrolled[s] = {} /\ num_workers[s] = 0
  BY DEF Init
<1> QED BY <1>1, <1>2 DEF SlotInv

LEMMA SlotCollect ==
  ASSUME TypeOK, ControlInv, Phase1Inv, SlotInv, Collect
  PROVE  /\ \A s \in Used' : SlotOK(s)' /\ FreshSlot(s)'
         /\ \A r, s \in Used' : r # s => vertex'[r] # vertex'[s]
         /\ \A s \in Slots : enrolled'[s] = {} /\ num_workers'[s] = 0
<1>1. InPhase1 /\ main_i \in Threads /\ UNCHANGED <<next_vertex, phase1, output>>
  BY CollectFacts
<1>2. /\ \A s \in Used : SlotOK(s) /\ FreshSlot(s)
      /\ \A r, s \in Used : r # s => vertex[r] # vertex[s]
      /\ \A s \in Slots : enrolled[s] = {} /\ num_workers[s] = 0
  BY <1>1 DEF SlotInv
<1>3. CASE ~Holds(main_i)
  BY <1>1, <1>2, <1>3, CollectNone DEF slots, SlotOK, FreshSlot
<1>4. CASE Holds(main_i)
  <2>0. PICK m : m = missing_vertices
    OBVIOUS
  <2>1. m \in Slots /\ Used' = Used \cup {m} /\ m \notin Used /\ Used \subseteq Slots
    BY <1>4, <2>0, CollectSlot DEF Used
  <2>2. ~(current_vertex[main_i] > ToVertex)
    BY <1>1, <1>4, RangeAssumption DEF Holds, TypeOK, TypePhase1
  <2>3. /\ vertex' = [vertex EXCEPT ![m] = current_vertex[main_i]]
        /\ slot_edges' = [slot_edges EXCEPT ![m] = edges_to_process[main_i]]
        /\ slot_next' = [slot_next EXCEPT ![m] = next_edge[main_i]]
        /\ processed_edges' = [processed_edges EXCEPT ![m] = next_edge[main_i]]
        /\ num_workers' = [num_workers EXCEPT ![m] = 0]
        /\ tables' = [tables EXCEPT ![m][0] = table[main_i]]
        /\ live' = [live EXCEPT ![m] = {0}]
        /\ accounted' = [accounted EXCEPT ![m] = 0 .. next_edge[main_i] - 1]
        /\ UNCHANGED enrolled
    BY <2>0, <2>2 DEF Collect
  <2>4. /\ vertex'[m] = current_vertex[main_i]
        /\ slot_edges'[m] = edges_to_process[main_i]
        /\ slot_next'[m] = next_edge[main_i]
        /\ processed_edges'[m] = next_edge[main_i]
        /\ num_workers'[m] = 0
        /\ live'[m] = {0}
        /\ accounted'[m] = 0 .. next_edge[main_i] - 1
    BY <2>1, <2>3 DEF TypeOK, TypeSlots, TypeTables
  <2>5. tables'[m][0] = table[main_i]
    <3>1. 0 \in Threads /\ tables[m] \in [Threads -> Table]
      BY <2>1, ThreadsAssumption DEF Threads, TypeOK, TypeTables
    <3>2. tables'[m] = [tables[m] EXCEPT ![0] = table[main_i]]
      BY <2>1, <2>3 DEF TypeOK, TypeTables
    <3> QED BY <3>1, <3>2
  <2>6. \A s \in Used : /\ vertex'[s] = vertex[s] /\ slot_edges'[s] = slot_edges[s]
                        /\ slot_next'[s] = slot_next[s]
                        /\ processed_edges'[s] = processed_edges[s]
                        /\ tables'[s] = tables[s] /\ live'[s] = live[s]
                        /\ accounted'[s] = accounted[s]
    BY <2>1, <2>3 DEF TypeOK, TypeSlots, TypeTables
  <2>7. HoldOK(main_i)
    BY <1>1, <1>4 DEF Phase1Inv, HoldInv
  <2>8. SlotOK(m)' /\ FreshSlot(m)'
    BY <1>1, <2>4, <2>5, <2>7 DEF HoldOK, SlotOK, FreshSlot
  <2>9. \A s \in Used : SlotOK(s)' /\ FreshSlot(s)'
    BY <1>1, <1>2, <2>6 DEF SlotOK, FreshSlot
  <2>10. \A s \in Used : vertex[s] # current_vertex[main_i]
    BY <1>1, <1>4 DEF Phase1Inv, HoldInv, Threads
  <2>11. \A r, s \in Used' : r # s => vertex'[r] # vertex'[s]
    BY <1>2, <2>1, <2>4, <2>6, <2>10
  <2>12. \A s \in Slots : enrolled'[s] = {} /\ num_workers'[s] = 0
    BY <1>2, <2>1, <2>3 DEF TypeOK, TypeSlots
  <2> QED BY <2>1, <2>8, <2>9, <2>11, <2>12
<1> QED BY <1>3, <1>4

LEMMA SlotStep ==
  ASSUME TypeOK, ControlInv, Phase1Inv, SlotInv, [Next]_vars
  PROVE  SlotInv'
<1>1. ASSUME NEW t \in Threads, Phase1Step(t) PROVE SlotInv'
  <2>1. InPhase1 /\ Used' = {} /\ UNCHANGED <<enrolled, num_workers>>
    BY <1>1, Frame1 DEF slots
  <2> QED BY <2>1 DEF SlotInv
<1>2. ASSUME NEW t \in Threads, Phase2Step(t) PROVE SlotInv'
  BY <1>2, Frame2 DEF SlotInv, SlotOK
<1>3. CASE Collect
  BY <1>3, SlotCollect DEF SlotInv
<1>4. ASSUME Return \/ UNCHANGED vars PROVE SlotInv'
  BY <1>4 DEF Return, vars, main, slots, SlotInv, SlotOK, FreshSlot, Used, InPhase1
<1> QED BY <1>1, <1>2, <1>3, <1>4 DEF Next, Terminated

-----------------------------------------------------------------------------
(* Phase 2: the numbers handed out for the edges of a slot. *)

LEMMA WorkingSlot ==
  ASSUME TypeOK, ControlInv
  PROVE  /\ \A t \in Threads : Working(t) \/ pc[t] = "merge" => SlotOf(t) \in Used
         /\ \A r \in Used : /\ r \in Slots /\ slot_next[r] \in Nat
                            /\ slot_edges[r] \in Nat /\ processed_edges[r] \in Nat
                            /\ num_workers[r] \in Nat
         /\ \A t \in Threads : d[t] \in Nat /\ idx[t] \in Nat /\ t \in Nat
BY BusySlot DEF TypeOK, TypeSlots, TypeLocals, TypeControl, Used, Threads

(* A slot that a thread has left behind. *)
LEMMA VisitedSlot ==
  ASSUME TypeOK, ControlInv, ~InPhase1, NEW t \in Threads, NEW j \in 0 .. NThreads,
         j < idx[t]
  PROVE  (t + j) % missing_vertices \in Used
<1>1. missing_vertices < NThreads /\ idx[t] <= missing_vertices
  BY DEF ControlInv, MissingInv, LabelInv
<1>2. missing_vertices \in Nat \ {0} /\ t + j \in Nat
  BY <1>1 DEF TypeOK, TypeControl, Threads
<1>3. (t + j) % missing_vertices \in 0 .. missing_vertices - 1
  BY <1>2, ModRange
<1> QED BY <1>1, <1>2, <1>3, ThreadsAssumption DEF Used, Slots

LEMMA HandKept ==
  ASSUME TypeOK, ControlInv, NEW u \in Threads, SameThread(u), Working(u), HandOK(u),
         UNCHANGED <<missing_vertices, slot_edges>>,
         slot_next'[SlotOf(u)] \in Nat,
         slot_next'[SlotOf(u)] >= slot_next[SlotOf(u)],
         Owned(u) \cap accounted'[SlotOf(u)] = {}
  PROVE  HandOK(u)'
<1>1. SlotOf(u)' = SlotOf(u) /\ Owned(u)' = Owned(u)
  BY SameViews
<1>2. slot_next[SlotOf(u)] \in Nat /\ d[u] \in Nat
  BY WorkingSlot
<1>3. Owned(u) \subseteq 0 .. slot_next'[SlotOf(u)] - 1
  BY <1>2 DEF HandOK
<1>4. pc[u] = "account" => d[u] < slot_next'[SlotOf(u)]
  BY <1>2 DEF HandOK
<1>5. /\ pc'[u] = pc[u] /\ d'[u] = d[u] /\ mine'[u] = mine[u]
      /\ processed'[u] = processed[u]
  BY DEF SameThread
<1> QED BY <1>1, <1>3, <1>4, <1>5 DEF HandOK

(* What the acting thread must show for the numbers to stay in order. *)
LEMMA EdgeKept ==
  ASSUME TypeOK, ControlInv, EdgeInv, NEW t \in Threads, Phase2Step(t),
         \A r \in Used : slot_next'[r] \in Nat /\ slot_next'[r] >= slot_next[r],
         \A u \in Threads \ {t} :
           Working(u) => Owned(u) \cap accounted'[SlotOf(u)] = {},
         Working(t)' =>
           /\ HandOK(t)'
           /\ \A u \in Threads \ {t} : Working(u) /\ SlotOf(u) = SlotOf(t)'
                => Owned(t)' \cap Owned(u) = {},
         AccountInv',
         \/ idx'[t] = idx[t]
         \/ /\ idx'[t] = idx[t] + 1 /\ SlotOf(t) \in Used
            /\ slot_next'[SlotOf(t)] > slot_edges[SlotOf(t)],
         pc'[t] = "merge" => Passed(SlotOf(t))'
  PROVE  EdgeInv'
<1>1. /\ ~InPhase1 /\ (~InPhase1)' /\ Used' = Used
      /\ UNCHANGED <<missing_vertices, slot_edges>>
      /\ \A u \in Threads \ {t} : SameThread(u)
  BY Frame2 DEF main
<1>2. \A u \in Threads \ {t} :
        /\ SlotOf(u)' = SlotOf(u) /\ Owned(u)' = Owned(u)
        /\ Working(u)' <=> Working(u)
        /\ pc'[u] = pc[u] /\ idx'[u] = idx[u]
  BY <1>1, SameViews DEF SameThread
<1>3. HandInv'
  <2>1. ASSUME NEW u \in Threads \ {t}, Working(u) PROVE HandOK(u)'
    <3>1. HandOK(u) /\ SlotOf(u) \in Used
      BY <1>1, <2>1, WorkingSlot DEF EdgeInv, HandInv
    <3> QED BY <1>1, <2>1, <3>1, HandKept
  <2> QED BY <1>2, <2>1 DEF HandInv
<1>4. DisjointInv'
  <2> SUFFICES ASSUME NEW u \in Threads, NEW w \in Threads, u # w, Working(u)',
                      Working(w)', SlotOf(u)' = SlotOf(w)'
               PROVE  Owned(u)' \cap Owned(w)' = {}
    BY DEF DisjointInv
  <2>1. CASE u = t
    BY <1>2, <2>1
  <2>2. CASE w = t
    BY <1>2, <2>2
  <2>3. CASE u # t /\ w # t
    BY <1>1, <1>2, <2>3 DEF EdgeInv, DisjointInv
  <2> QED BY <2>1, <2>2, <2>3
<1>5. \A r \in Used : Passed(r) => Passed(r)'
  BY <1>1, WorkingSlot DEF Passed
<1>6. ASSUME NEW u \in Threads, NEW j \in 0 .. NThreads, j < idx'[u]
      PROVE  Passed((u + j) % missing_vertices)'
  <2>1. CASE j < idx[u]
    <3>1. (u + j) % missing_vertices \in Used /\ Passed((u + j) % missing_vertices)
      BY <1>1, <2>1, VisitedSlot DEF EdgeInv, PassedInv
    <3>2. PICK r \in Used : r = (u + j) % missing_vertices
      BY <3>1
    <3> QED BY <1>1, <1>5, <3>1, <3>2 DEF Passed
  <2>2. CASE ~(j < idx[u])
    <3>1. u = t /\ idx'[t] = idx[t] + 1 /\ j = idx[t]
      BY <1>2, <1>6, <2>2, WorkingSlot
    <3> QED BY <1>1, <3>1, WorkingSlot DEF Passed, SlotOf
  <2> QED BY <2>1, <2>2
<1>7. ASSUME NEW u \in Threads, pc'[u] = "merge" PROVE Passed(SlotOf(u))'
  <2>1. CASE u = t
    BY <1>7, <2>1
  <2>2. CASE u # t
    <3>1. SlotOf(u) \in Used /\ Passed(SlotOf(u)) /\ SlotOf(u)' = SlotOf(u)
      BY <1>1, <1>2, <1>7, <2>2, WorkingSlot DEF EdgeInv, PassedInv
    <3> QED BY <1>1, <1>5, <3>1 DEF Passed
  <2> QED BY <2>1, <2>2
<1>8. PassedInv'
  BY <1>6, <1>7 DEF PassedInv
<1> QED BY <1>3, <1>4, <1>8 DEF EdgeInv

(* The account of a slot when no edge is accounted. *)
LEMMA AccountKept ==
  ASSUME TypeOK, ControlInv, NEW r \in Used, AccountOK(r),
         UNCHANGED <<slot_edges, accounted, processed_edges>>,
         slot_next'[r] \in Nat, slot_next'[r] >= slot_next[r],
         \A e \in 0 .. slot_edges[r] : e < slot_next'[r] =>
           \/ e < slot_next[r]
           \/ \E u \in Threads : At(u, r)' /\ e \in Owned(u)',
         \A u \in Threads : At(u, r) => At(u, r)' /\ Owned(u) \subseteq Owned(u)'
  PROVE  AccountOK(r)'
<1>1. slot_next[r] \in Nat /\ slot_edges[r] \in Nat
  BY WorkingSlot
<1>2. accounted[r] \subseteq 0 .. slot_next'[r] - 1
  BY <1>1 DEF AccountOK
<1>3. \A e \in 0 .. slot_edges[r] : e < slot_next'[r] =>
        e \in accounted[r] \/ \E u \in Threads : At(u, r)' /\ e \in Owned(u)'
  BY DEF AccountOK
<1> QED BY <1>2, <1>3 DEF AccountOK

(* The thread that takes number n of its slot has it in hand, alone. *)
LEMMA EdgeTaken ==
  ASSUME TypeOK, ControlInv, EdgeInv, NEW t \in Threads, Phase2Step(t),
         NEW s \in Used, SlotOf(t) = s, NEW n, n = slot_next[s],
         slot_next' = [slot_next EXCEPT ![s] = n + 1],
         UNCHANGED <<accounted, processed_edges>>, idx'[t] = idx[t],
         Working(t)',
         Owned(t)' = (IF Working(t) THEN Owned(t) ELSE {})
                       \cup (IF n <= slot_edges[s] THEN {n} ELSE {}),
         HandOK(t)', pc'[t] # "merge"
  PROVE  EdgeInv'
<1>1. /\ ~InPhase1 /\ Used' = Used /\ UNCHANGED <<missing_vertices, slot_edges>>
      /\ \A u \in Threads \ {t} : SameThread(u)
  BY Frame2 DEF main
<1>2. n \in Nat /\ slot_next'[s] = n + 1 /\ \A r \in Used \ {s} : slot_next'[r] = slot_next[r]
  BY WorkingSlot DEF TypeOK, TypeSlots
<1>3. \A r \in Used : slot_next'[r] \in Nat /\ slot_next'[r] >= slot_next[r]
  BY <1>2, WorkingSlot
<1>4. \A u \in Threads : Working(u) => Owned(u) \cap accounted[SlotOf(u)] = {}
  BY <1>1 DEF EdgeInv, HandInv, HandOK
<1>5. SlotOf(t)' = s
  BY <1>1 DEF SlotOf
<1>6. ASSUME NEW u \in Threads \ {t}, Working(u), SlotOf(u) = s
      PROVE  Owned(t)' \cap Owned(u) = {}
  <2>1. Owned(u) \subseteq 0 .. n - 1
    BY <1>1, <1>6 DEF EdgeInv, HandInv, HandOK
  <2>2. n \notin Owned(u)
    BY <1>2, <2>1
  <2>3. Working(t) => Owned(t) \cap Owned(u) = {}
    BY <1>1, <1>6 DEF EdgeInv, DisjointInv
  <2> QED BY <2>2, <2>3
<1>7. \A u \in Threads \ {t} :
        /\ Owned(u)' = Owned(u)
        /\ \A r \in Used : At(u, r) <=> At(u, r)'
  BY <1>1, SameViews
<1>8. ASSUME NEW r \in Used PROVE AccountOK(r)'
  <2>1. \A u \in Threads : At(u, r) => At(u, r)' /\ Owned(u) \subseteq Owned(u)'
    BY <1>5, <1>7 DEF At
  <2>2. AccountOK(r)
    BY <1>1 DEF EdgeInv, AccountInv
  <2>3. ASSUME NEW e \in 0 .. slot_edges[r], e < slot_next'[r], ~(e < slot_next[r])
        PROVE  \E u \in Threads : At(u, r)' /\ e \in Owned(u)'
    <3>1. r = s /\ e = n
      BY <1>2, <2>3, WorkingSlot
    <3>2. e \in Owned(t)' /\ At(t, r)'
      BY <1>5, <2>3, <3>1 DEF At
    <3> QED BY <3>2
  <2> QED BY <1>1, <1>3, <2>1, <2>2, <2>3, AccountKept
<1>9. AccountInv'
  BY <1>1, <1>8 DEF AccountInv
<1> QED BY <1>3, <1>4, <1>5, <1>6, <1>9, EdgeKept

LEMMA EdgeClaim ==
  ASSUME TypeOK, ControlInv, EdgeInv, NEW t \in Threads, Claim(t)
  PROVE  EdgeInv'
<1>0. PICK s \in Used : s = SlotOf(t)
  BY ClaimSlot
<1>1. /\ ~InPhase1 /\ Used' = Used /\ UNCHANGED <<missing_vertices, slot_edges>>
      /\ \A u \in Threads \ {t} : SameThread(u)
  BY Frame2 DEF main, Phase2Step
<1>2. /\ pc[t] = "claim" /\ slot_next' = [slot_next EXCEPT ![s] = slot_next[s] + 1]
      /\ UNCHANGED <<accounted, processed_edges>>
  BY <1>0 DEF Claim
<1>3. /\ slot_next[s] \in Nat /\ slot_edges[s] \in Nat
      /\ slot_next'[s] = slot_next[s] + 1
      /\ \A r \in Used \ {s} : slot_next'[r] = slot_next[r]
  BY <1>2, WorkingSlot DEF TypeOK, TypeSlots
<1>4. CASE slot_next[s] > slot_edges[s]
  <2>1. idx'[t] = idx[t] + 1 /\ pc'[t] = "claim"
    BY <1>0, <1>4 DEF Claim, NextSlot, Goto, TypeOK, TypeControl
  <2>2. \A r \in Used : slot_next'[r] \in Nat /\ slot_next'[r] >= slot_next[r]
    BY <1>3, WorkingSlot
  <2>3. ~Working(t) /\ ~Working(t)'
    BY <1>2, <2>1 DEF Working
  <2>4. \A u \in Threads, r \in Used : At(u, r) => At(u, r)' /\ Owned(u) \subseteq Owned(u)'
    BY <1>1, <2>3, SameViews DEF At
  <2>5. ASSUME NEW r \in Used PROVE AccountOK(r)'
    <3>1. AccountOK(r)
      BY <1>1 DEF EdgeInv, AccountInv
    <3>2. \A e \in 0 .. slot_edges[r] : e < slot_next'[r] => e < slot_next[r]
      BY <1>3, <1>4, WorkingSlot
    <3> QED BY <1>1, <1>2, <2>2, <2>4, <3>1, <3>2, AccountKept
  <2>6. AccountInv'
    BY <1>1, <2>5 DEF AccountInv
  <2>7. \A u \in Threads : Working(u) => Owned(u) \cap accounted[SlotOf(u)] = {}
    BY <1>1 DEF EdgeInv, HandInv, HandOK
  <2> QED
    BY <1>0, <1>2, <1>3, <1>4, <2>1, <2>2, <2>3, <2>6, <2>7, EdgeKept DEF Phase2Step
<1>5. CASE ~(slot_next[s] > slot_edges[s])
  <2>1. /\ d'[t] = slot_next[s] /\ processed'[t] = 0 /\ mine'[t] = {}
        /\ idx'[t] = idx[t]
        /\ pc'[t] = (IF slot_next[s] < slot_edges[s] THEN "register" ELSE "account")
    BY <1>0, <1>5 DEF Claim, Goto, TypeOK, TypeControl, TypeLocals
  <2>2. SlotOf(t)' = s
    BY <1>0, <1>1, <2>1 DEF SlotOf
  <2>3. Owned(t)' = {slot_next[s]}
    BY <1>1, <1>3, <1>5, <2>1, <2>2 DEF Owned, Pending, Virtual
  <2>4. Working(t)' /\ ~Working(t)
    BY <1>2, <2>1 DEF Working
  <2>5. slot_next[s] \notin accounted[s]
    BY <1>1, <1>3 DEF EdgeInv, AccountInv, AccountOK
  <2>6. HandOK(t)'
    <3>1. IsFiniteSet(mine'[t]) /\ processed'[t] = Cardinality(mine'[t])
      BY <2>1, FS_EmptySet
    <3> QED BY <1>1, <1>2, <1>3, <1>5, <2>1, <2>2, <2>3, <2>5, <3>1 DEF HandOK
  <2>7. Owned(t)' = (IF Working(t) THEN Owned(t) ELSE {})
                      \cup (IF slot_next[s] <= slot_edges[s] THEN {slot_next[s]} ELSE {})
    BY <1>3, <1>5, <2>3, <2>4
  <2> QED
    BY <1>0, <1>2, <2>1, <2>4, <2>6, <2>7, EdgeTaken DEF Phase2Step
<1> QED BY <1>4, <1>5

LEMMA EdgeNext ==
  ASSUME TypeOK, ControlInv, EdgeInv, NEW t \in Threads, NextEdge(t)
  PROVE  EdgeInv'
<1>0. PICK s \in Used : s = SlotOf(t)
  BY WorkingSlot DEF NextEdge, Working
<1>1. ~InPhase1 /\ UNCHANGED <<missing_vertices, slot_edges>>
  BY Frame2 DEF main, Phase2Step
<1>2. /\ pc[t] = "next" /\ slot_next' = [slot_next EXCEPT ![s] = slot_next[s] + 1]
      /\ UNCHANGED <<accounted, processed_edges, idx, mine, processed>>
      /\ d'[t] = slot_next[s]
      /\ pc'[t] = (IF slot_next[s] < slot_edges[s] THEN "combine" ELSE "account")
  BY <1>0 DEF NextEdge, Goto, TypeOK, TypeControl, TypeLocals
<1>3. slot_next[s] \in Nat /\ slot_edges[s] \in Nat /\ slot_next'[s] = slot_next[s] + 1
  BY <1>2, WorkingSlot DEF TypeOK, TypeSlots
<1>4. SlotOf(t)' = s
  BY <1>0, <1>1, <1>2 DEF SlotOf
<1>5. Working(t) /\ Working(t)' /\ HandOK(t) /\ Owned(t) = mine[t]
  BY <1>1, <1>2 DEF Working, EdgeInv, HandInv, Owned, Pending
<1>6. Owned(t)' = Owned(t)
        \cup (IF slot_next[s] <= slot_edges[s] THEN {slot_next[s]} ELSE {})
  BY <1>1, <1>2, <1>3, <1>4, <1>5 DEF Owned, Pending, Virtual
<1>7. slot_next[s] \notin accounted[s] /\ slot_next[s] \notin mine[t]
  BY <1>0, <1>1, <1>3, <1>5 DEF EdgeInv, AccountInv, AccountOK, HandOK
<1>8. HandOK(t)'
  <2>1. Owned(t)' # {} /\ Owned(t)' \subseteq 0 .. slot_next'[s] - 1
    BY <1>0, <1>3, <1>5, <1>6 DEF HandOK
  <2>2. Owned(t)' \cap accounted'[s] = {}
    BY <1>0, <1>2, <1>5, <1>6, <1>7 DEF HandOK
  <2> QED BY <1>0, <1>1, <1>2, <1>3, <1>4, <1>5, <1>7, <2>1, <2>2 DEF HandOK
<1> QED
  BY <1>0, <1>2, <1>5, <1>6, <1>8, EdgeTaken DEF Phase2Step

(* The steps that take no number and account none. *)
LEMMA EdgeQuiet ==
  ASSUME TypeOK, ControlInv, EdgeInv, NEW t \in Threads, Phase2Step(t),
         UNCHANGED <<slot_next, accounted, processed_edges>>,
         Working(t)' <=> Working(t),
         Working(t) => HandOK(t)' /\ Owned(t)' = Owned(t) /\ idx'[t] = idx[t],
         \/ idx'[t] = idx[t]
         \/ idx'[t] = idx[t] + 1 /\ SlotOf(t) \in Used /\ Passed(SlotOf(t)),
         pc'[t] = "merge" => pc[t] = "merge" /\ idx'[t] = idx[t]
  PROVE  EdgeInv'
<1>1. /\ ~InPhase1 /\ Used' = Used /\ UNCHANGED <<missing_vertices, slot_edges>>
      /\ \A u \in Threads \ {t} : SameThread(u)
  BY Frame2 DEF main
<1>2. \A r \in Used : slot_next'[r] \in Nat /\ slot_next'[r] >= slot_next[r]
  BY WorkingSlot
<1>3. \A u \in Threads : Working(u) => Owned(u) \cap accounted[SlotOf(u)] = {}
  BY <1>1 DEF EdgeInv, HandInv, HandOK
<1>4. idx'[t] = idx[t] => SlotOf(t)' = SlotOf(t)
  BY <1>1 DEF SlotOf
<1>5. \A u \in Threads \ {t} : Working(u) /\ Working(t) /\ SlotOf(u) = SlotOf(t)
        => Owned(t) \cap Owned(u) = {}
  BY <1>1 DEF EdgeInv, DisjointInv
<1>6. \A u \in Threads, r \in Used : At(u, r) => At(u, r)' /\ Owned(u) \subseteq Owned(u)'
  BY <1>1, <1>4, SameViews DEF At
<1>7. ASSUME NEW r \in Used PROVE AccountOK(r)'
  <2>1. AccountOK(r)
    BY <1>1 DEF EdgeInv, AccountInv
  <2> QED BY <1>1, <1>2, <1>6, <2>1, AccountKept
<1>8. AccountInv'
  BY <1>1, <1>7 DEF AccountInv
<1>9. pc'[t] = "merge" => Passed(SlotOf(t))'
  BY <1>1, <1>4 DEF EdgeInv, PassedInv, Passed
<1> QED BY <1>1, <1>2, <1>3, <1>4, <1>5, <1>8, <1>9, EdgeKept DEF Passed

LEMMA EdgeWork ==
  ASSUME TypeOK, ControlInv, EdgeInv, NEW t \in Threads,
         Register(t) \/ Allocate(t) \/ Combine2(t)
  PROVE  EdgeInv'
<1>1. /\ ~InPhase1 /\ UNCHANGED <<missing_vertices, slot_edges>>
  BY Frame2 DEF main, Phase2Step
<1>2. /\ UNCHANGED <<slot_next, accounted, processed_edges, idx, d>>
      /\ pc[t] \in {"register", "allocate", "combine"}
      /\ pc'[t] \in {"allocate", "combine", "next"}
  BY DEF Register, Allocate, Combine2, Goto, locals, TypeOK, TypeControl
<1>3. SlotOf(t)' = SlotOf(t) /\ Working(t) /\ Working(t)' /\ HandOK(t)
  BY <1>1, <1>2 DEF SlotOf, Working, EdgeInv, HandInv
<1>4. CASE Register(t) \/ Allocate(t)
  <2>1. UNCHANGED <<mine, processed>> /\ pc'[t] # "next"
    BY <1>4 DEF Register, Allocate, Goto, locals, TypeOK, TypeControl
  <2>2. Owned(t)' = Owned(t)
    BY <1>2, <2>1 DEF Owned, Pending
  <2>3. HandOK(t)'
    BY <1>1, <1>2, <1>3, <2>1, <2>2 DEF HandOK
  <2> QED BY <1>2, <1>3, <1>4, <2>2, <2>3, EdgeQuiet DEF Phase2Step
<1>5. CASE Combine2(t)
  <2>1. /\ mine'[t] = mine[t] \cup {d[t]} /\ processed'[t] = processed[t] + 1
        /\ pc[t] = "combine" /\ pc'[t] = "next"
    BY <1>5 DEF Combine2, Goto, TypeOK, TypeControl, TypeLocals
  <2>2. Owned(t)' = Owned(t)
    BY <2>1 DEF Owned, Pending
  <2>3. IsFiniteSet(mine'[t]) /\ processed'[t] = Cardinality(mine'[t])
    <3>1. IsFiniteSet(mine[t]) /\ processed[t] = Cardinality(mine[t]) /\ d[t] \notin mine[t]
      BY <1>3, <2>1 DEF HandOK
    <3> QED BY <2>1, <3>1, FS_AddElement
  <2>4. mine'[t] \subseteq 0 .. slot_edges[SlotOf(t)] - 1
    BY <1>3, <2>1, WorkingSlot DEF HandOK
  <2>5. HandOK(t)'
    BY <1>1, <1>2, <1>3, <2>1, <2>2, <2>3, <2>4 DEF HandOK
  <2> QED BY <1>2, <1>3, <1>5, <2>1, <2>2, <2>5, EdgeQuiet DEF Phase2Step
<1> QED BY <1>4, <1>5

LEMMA EdgeMerge ==
  ASSUME TypeOK, ControlInv, EdgeInv, NEW t \in Threads,
         Merge(t) \/ Write2(t) \/ Leave2(t)
  PROVE  EdgeInv'
<1>1. /\ ~InPhase1 /\ UNCHANGED <<missing_vertices, slot_edges>>
  BY Frame2 DEF main, Phase2Step
<1>2. UNCHANGED <<slot_next, accounted, processed_edges>>
  BY DEF Merge, Write2, Leave2, slots
<1>3. ~Working(t) /\ ~Working(t)'
  BY DEF Merge, Write2, Leave2, NextSlot, Goto, Working, TypeOK, TypeControl
<1>4. pc'[t] = "merge" => pc[t] = "merge" /\ idx'[t] = idx[t]
  BY DEF Merge, Write2, Leave2, NextSlot, Goto, TypeOK, TypeControl
<1>5. \/ idx'[t] = idx[t]
      \/ idx'[t] = idx[t] + 1 /\ SlotOf(t) \in Used /\ Passed(SlotOf(t))
  <2>1. CASE Write2(t)
    <3>1. idx'[t] = idx[t] + 1 /\ pc[t] = "merge"
      BY <2>1 DEF Write2, NextSlot, TypeOK, TypeControl
    <3> QED BY <1>1, <3>1, WorkingSlot DEF EdgeInv, PassedInv
  <2>2. CASE Merge(t) \/ Leave2(t)
    BY <2>2 DEF Merge, Leave2, locals
  <2> QED BY <2>1, <2>2
<1> QED BY <1>2, <1>3, <1>4, <1>5, EdgeQuiet DEF Phase2Step

(* A thread accounts what it has in hand, and nothing else. *)
LEMMA AccountFacts ==
  ASSUME TypeOK, ControlInv, EdgeInv, NEW t \in Threads, Account(t),
         NEW s \in Used, s = SlotOf(t)
  PROVE  /\ HandOK(t) /\ At(t, s)
         /\ accounted'[s] = accounted[s] \cup Owned(t)
         /\ \A r \in Used \ {s} : /\ accounted'[r] = accounted[r]
                                  /\ processed_edges'[r] = processed_edges[r]
         /\ Owned(t) \cap accounted[s] = {} /\ Owned(t) # {}
         /\ Owned(t) \subseteq 0 .. slot_edges[s]
         /\ IsFiniteSet(accounted'[s])
         /\ processed_edges'[s] = Cardinality(accounted'[s])
         /\ accounted'[s] \subseteq 0 .. slot_edges[s]
         /\ accounted'[s] \subseteq 0 .. slot_next[s] - 1
<1>1. ~InPhase1 /\ pc[t] = "account"
  BY Frame2 DEF Phase2Step, Account
<1>2. HandOK(t) /\ At(t, s) /\ Owned(t) = mine[t] \cup Virtual(t)
  BY <1>1 DEF EdgeInv, HandInv, Working, At, Owned, Pending
<1>3. /\ accounted' = [accounted EXCEPT ![s] = @ \cup mine[t] \cup Virtual(t)]
      /\ processed_edges' = [processed_edges EXCEPT ![s] = processed_edges[s] + ToAccount(t)]
  BY DEF Account
<1>4. /\ accounted'[s] = accounted[s] \cup Owned(t)
      /\ processed_edges'[s] = processed_edges[s] + ToAccount(t)
      /\ \A r \in Used \ {s} : /\ accounted'[r] = accounted[r]
                               /\ processed_edges'[r] = processed_edges[r]
  BY <1>2, <1>3 DEF TypeOK, TypeTables, TypeSlots, Used
<1>5. slot_edges[s] \in Nat /\ slot_next[s] \in Nat /\ d[t] \in Nat
  BY WorkingSlot
<1>6. Owned(t) \subseteq 0 .. slot_edges[s]
  BY <1>2, <1>5 DEF HandOK, Virtual
<1>7. IsFiniteSet(Owned(t)) /\ Cardinality(Owned(t)) = ToAccount(t)
  <2>1. IsFiniteSet(mine[t]) /\ processed[t] = Cardinality(mine[t])
    BY <1>2 DEF HandOK
  <2>2. CASE d[t] = slot_edges[s]
    <3>1. Owned(t) = mine[t] \cup {d[t]} /\ d[t] \notin mine[t]
      BY <1>2, <1>5, <2>2 DEF HandOK, Virtual
    <3> QED BY <2>1, <2>2, <3>1, FS_AddElement DEF ToAccount
  <2>3. CASE d[t] # slot_edges[s]
    <3>1. Owned(t) = mine[t] /\ ToAccount(t) = processed[t]
      BY <1>2, <2>3 DEF Virtual, ToAccount, TypeOK, TypeLocals
    <3> QED BY <2>1, <3>1
  <2> QED BY <2>2, <2>3
<1>8. AccountOK(s)
  BY <1>1 DEF EdgeInv, AccountInv
<1>9. Owned(t) \cap accounted[s] = {} /\ Owned(t) # {}
      /\ Owned(t) \subseteq 0 .. slot_next[s] - 1
  BY <1>2 DEF HandOK
<1>10. /\ IsFiniteSet(accounted'[s])
       /\ Cardinality(accounted'[s])
            = Cardinality(accounted[s]) + Cardinality(Owned(t))
  <2>1. IsFiniteSet(accounted[s]) /\ accounted[s] \cap Owned(t) = {}
    BY <1>8, <1>9 DEF AccountOK
  <2>2. /\ IsFiniteSet(accounted[s] \cup Owned(t))
        /\ Cardinality(accounted[s] \cup Owned(t))
             = Cardinality(accounted[s]) + Cardinality(Owned(t)) - Cardinality({})
    BY <1>7, <2>1, FS_Union
  <2>3. Cardinality({}) = 0 /\ Cardinality(accounted[s]) \in Nat
        /\ Cardinality(Owned(t)) \in Nat
    BY <1>7, <2>1, FS_EmptySet, FS_CardinalityType
  <2> QED BY <1>4, <2>2, <2>3
<1>11. processed_edges'[s] = Cardinality(accounted'[s])
  BY <1>4, <1>7, <1>8, <1>10 DEF AccountOK
<1> QED BY <1>2, <1>4, <1>6, <1>8, <1>9, <1>10, <1>11 DEF AccountOK

LEMMA EdgeAccount ==
  ASSUME TypeOK, ControlInv, EdgeInv, NEW t \in Threads, Account(t)
  PROVE  EdgeInv'
<1>0. PICK s \in Used : s = SlotOf(t)
  BY WorkingSlot DEF Account, Working
<1>1. /\ ~InPhase1 /\ Used' = Used /\ UNCHANGED <<missing_vertices, slot_edges, slot_next>>
      /\ \A u \in Threads \ {t} : SameThread(u)
  BY Frame2 DEF main, Phase2Step, Account
<1>2. \A r \in Used : slot_next'[r] \in Nat /\ slot_next'[r] >= slot_next[r]
  BY <1>1, WorkingSlot
<1>3. ~Working(t)'
  BY DEF Account, NextSlot, Goto, Working, TypeOK, TypeControl
<1>4. Passed(s)
  <2>1. HandOK(t) /\ pc[t] = "account"
    BY <1>0, AccountFacts DEF Account
  <2>2. d[t] >= slot_edges[s] /\ d[t] < slot_next[s]
    BY <1>0, <2>1 DEF HandOK
  <2> QED BY <2>2, WorkingSlot DEF Passed
<1>5. /\ \/ idx'[t] = idx[t]
         \/ idx'[t] = idx[t] + 1
      /\ pc'[t] = "merge" => idx'[t] = idx[t]
  BY DEF Account, NextSlot, Goto, TypeOK, TypeControl
<1>6. pc'[t] = "merge" => Passed(SlotOf(t))'
  BY <1>0, <1>1, <1>4, <1>5 DEF SlotOf, Passed
<1>7. ASSUME NEW u \in Threads \ {t}, Working(u)
      PROVE  Owned(u) \cap accounted'[SlotOf(u)] = {}
  <2>1. Owned(u) \cap accounted[SlotOf(u)] = {}
    BY <1>1, <1>7 DEF EdgeInv, HandInv, HandOK
  <2>2. SlotOf(u) = s => Owned(u) \cap Owned(t) = {}
    BY <1>0, <1>1, <1>7, AccountFacts DEF EdgeInv, DisjointInv, At
  <2>3. SlotOf(u) \in Used
    BY <1>7, WorkingSlot
  <2> QED BY <1>0, <2>1, <2>2, <2>3, AccountFacts
<1>8. \A u \in Threads \ {t} :
        /\ Owned(u)' = Owned(u)
        /\ \A r \in Used : At(u, r) <=> At(u, r)'
  BY <1>1, SameViews
<1>9. ASSUME NEW r \in Used PROVE AccountOK(r)'
  <2>1. AccountOK(r)
    BY <1>1 DEF EdgeInv, AccountInv
  <2>2. ASSUME NEW e \in 0 .. slot_edges[r], e < slot_next[r]
        PROVE  \/ e \in accounted'[r]
               \/ \E u \in Threads : At(u, r)' /\ e \in Owned(u)'
    <3>1. e \in accounted[r] \/ \E u \in Threads : At(u, r) /\ e \in Owned(u)
      BY <2>1, <2>2 DEF AccountOK
    <3>2. accounted[r] \subseteq accounted'[r]
      BY <1>0, AccountFacts
    <3>3. At(t, r) /\ e \in Owned(t) => e \in accounted'[r]
      BY <1>0, AccountFacts DEF At
    <3> QED BY <1>8, <3>1, <3>2, <3>3
  <2>3. /\ IsFiniteSet(accounted'[r])
        /\ processed_edges'[r] = Cardinality(accounted'[r])
        /\ accounted'[r] \subseteq 0 .. slot_edges[r]
        /\ accounted'[r] \subseteq 0 .. slot_next[r] - 1
    BY <1>0, <2>1, AccountFacts DEF AccountOK
  <2> QED BY <1>1, <2>2, <2>3 DEF AccountOK
<1>10. AccountInv'
  BY <1>1, <1>9 DEF AccountInv
<1>11. SlotOf(t) \in Used /\ slot_next'[SlotOf(t)] > slot_edges[SlotOf(t)]
  BY <1>0, <1>1, <1>4 DEF Passed
<1> QED
  BY <1>2, <1>3, <1>5, <1>6, <1>7, <1>10, <1>11, EdgeKept DEF Phase2Step

(* Phase 2 starts with every slot as phase 1 left it and every thread free. *)
LEMMA PhaseChange ==
  ASSUME TypeOK, ControlInv, Collect, ~InPhase1'
  PROVE  \A t \in Threads : /\ pc'[t] = "claim" /\ idx'[t] = 0
                            /\ ~Working(t)' /\ ~Filling(t)'
                            /\ \A s : ~At(t, s)' /\ ~Winner(t, s)'
<1>1. /\ pc' = [t \in Threads |-> "claim"] /\ UNCHANGED idx
      /\ \A t \in Threads : pc[t] = "joined" /\ idx[t] = 0
  BY CollectFacts DEF locals, ControlInv, LabelInv
<1> QED BY <1>1 DEF Working, Filling, At, Winner

LEMMA EdgeCollect ==
  ASSUME TypeOK, ControlInv, Phase1Inv, SlotInv, Collect
  PROVE  EdgeInv'
<1> SUFFICES ASSUME ~InPhase1' PROVE EdgeInv'
  BY DEF EdgeInv
<1>1. HandInv' /\ DisjointInv'
  BY PhaseChange DEF HandInv, DisjointInv
<1>2. PassedInv'
  BY PhaseChange DEF PassedInv
<1>3. ASSUME NEW s \in Used' PROVE AccountOK(s)'
  <2>1. FreshSlot(s)'
    BY SlotCollect
  <2>2. slot_next'[s] \in Nat /\ slot_edges'[s] \in Nat
    <3>1. TypeOK'
      BY TypeStep, CollectFacts DEF Next, WorkerInv
    <3> QED BY <3>1 DEF TypeOK, TypeSlots, Used
  <2>3. IsFiniteSet(accounted'[s]) /\ Cardinality(accounted'[s]) = slot_next'[s]
    <3>1. \A n \in Nat : IsFiniteSet(0 .. n - 1) /\ Cardinality(0 .. n - 1) = n
      BY FS_Interval
    <3> QED BY <2>1, <2>2, <3>1 DEF FreshSlot
  <2>4. accounted'[s] \subseteq 0 .. slot_edges'[s]
    BY <2>1, <2>2 DEF FreshSlot
  <2> QED BY <2>1, <2>2, <2>3, <2>4 DEF FreshSlot, AccountOK
<1>4. AccountInv'
  BY <1>3 DEF AccountInv
<1> QED BY <1>1, <1>2, <1>4 DEF EdgeInv

LEMMA EdgeStep ==
  ASSUME TypeOK, ControlInv, Phase1Inv, SlotInv, EdgeInv, [Next]_vars
  PROVE  EdgeInv'
<1>1. ASSUME NEW t \in Threads, Phase1Step(t) PROVE EdgeInv'
  BY <1>1, Frame1 DEF EdgeInv
<1>2. ASSUME Return \/ UNCHANGED vars PROVE EdgeInv'
  <2>1. UNCHANGED <<pc, slots, locals, main_i, missing_vertices>>
    BY <1>2 DEF Return, vars, main
  <2>2. UNCHANGED InPhase1 /\ Used' = Used
    BY <2>1 DEF InPhase1, Used
  <2>3. \A t \in Threads : SameThread(t)
    BY <2>1 DEF SameThread, locals
  <2>4. \A t \in Threads :
          /\ SlotOf(t)' = SlotOf(t) /\ Owned(t)' = Owned(t)
          /\ Working(t)' <=> Working(t)
          /\ \A s : (At(t, s)' <=> At(t, s))
    BY <2>1, <2>3, SameViews DEF slots
  <2>5. HandInv => HandInv'
    BY <2>1, <2>3, <2>4 DEF HandInv, HandOK, SameThread, slots
  <2>6. DisjointInv => DisjointInv'
    BY <2>4 DEF DisjointInv
  <2>7. AccountInv => AccountInv'
    BY <2>1, <2>2, <2>4 DEF AccountInv, AccountOK, slots
  <2>8. PassedInv => PassedInv'
    BY <2>1, <2>4 DEF PassedInv, Passed, slots, locals
  <2> QED BY <2>2, <2>5, <2>6, <2>7, <2>8 DEF EdgeInv
<1> QED
  BY <1>1, <1>2, EdgeClaim, EdgeNext, EdgeWork, EdgeMerge, EdgeAccount, EdgeCollect
  DEF Next, Phase2Step, Terminated

-----------------------------------------------------------------------------
(* Phase 2: the winner of a slot. *)

LEMMA HandInRange ==
  ASSUME TypeOK, ControlInv, EdgeInv, ~InPhase1, NEW u \in Threads, NEW s \in Used,
         At(u, s)
  PROVE  Owned(u) \subseteq 0 .. slot_edges[s]
<1>1. HandOK(u) /\ SlotOf(u) = s /\ slot_edges[s] \in Nat /\ d[u] \in Nat
  BY WorkingSlot DEF EdgeInv, HandInv, At
<1> QED BY <1>1 DEF HandOK, Owned, Pending, Virtual

(* While a thread works on a slot, the slot is not all accounted. *)
LEMMA NotAllAccounted ==
  ASSUME TypeOK, ControlInv, EdgeInv, ~InPhase1, NEW u \in Threads, NEW s \in Used,
         At(u, s)
  PROVE  ~AllAccounted(s)
<1>1. HandOK(u) /\ SlotOf(u) = s
  BY DEF EdgeInv, HandInv, At
<1> QED BY <1>1, HandInRange DEF HandOK, AllAccounted

LEMMA WinnerFrame ==
  ASSUME TypeOK, ControlInv, NEW t \in Threads, Phase2Step(t)
  PROVE  /\ ~InPhase1 /\ (~InPhase1)' /\ Used' = Used
         /\ UNCHANGED <<missing_vertices, slot_edges, vertex>>
         /\ \A u \in Threads \ {t} :
              /\ SlotOf(u)' = SlotOf(u) /\ pc'[u] = pc[u]
              /\ merge_i'[u] = merge_i[u] /\ worker_no'[u] = worker_no[u]
              /\ idx'[u] = idx[u] /\ mine'[u] = mine[u]
              /\ Filling(u)' <=> Filling(u)
              /\ \A s : (At(u, s)' <=> At(u, s)) /\ (Winner(u, s)' <=> Winner(u, s))
<1>1. /\ ~InPhase1 /\ (~InPhase1)' /\ Used' = Used
      /\ UNCHANGED <<missing_vertices, slot_edges, vertex>>
      /\ \A u \in Threads \ {t} : SameThread(u)
  BY Frame2 DEF main
<1> QED BY <1>1, SameViews DEF SameThread

(* Steps other than Account and Write2. *)
LEMMA WinnerQuiet ==
  ASSUME TypeOK, ControlInv, WinnerInv, NEW t \in Threads, Phase2Step(t),
         UNCHANGED <<accounted, output>>,
         pc[t] = "merge" <=> pc'[t] = "merge",
         pc[t] = "merge" => idx'[t] = idx[t]
  PROVE  WinnerInv'
<1>1. /\ ~InPhase1 /\ Used' = Used /\ UNCHANGED <<missing_vertices, slot_edges, vertex>>
      /\ \A u \in Threads \ {t}, s \in Used : Winner(u, s)' <=> Winner(u, s)
  BY WinnerFrame
<1>2. \A u \in Threads, s \in Used : Winner(u, s)' <=> Winner(u, s)
  BY <1>1 DEF Winner, SlotOf
<1>3. \A s \in Used : AllAccounted(s)' <=> AllAccounted(s)
  BY <1>1 DEF AllAccounted
<1> QED BY <1>1, <1>2, <1>3 DEF WinnerInv, WinnerOK

LEMMA WinnerAccount ==
  ASSUME TypeOK, ControlInv, EdgeInv, WinnerInv, NEW t \in Threads, Account(t)
  PROVE  WinnerInv'
<1>0. PICK s \in Used : s = SlotOf(t)
  BY WorkingSlot DEF Account, Working
<1>1. /\ ~InPhase1 /\ Used' = Used /\ UNCHANGED <<missing_vertices, slot_edges, vertex, output>>
      /\ \A u \in Threads \ {t}, r \in Used : Winner(u, r)' <=> Winner(u, r)
  BY WinnerFrame DEF Phase2Step, Account
<1>2. ~AllAccounted(s)
  BY <1>0, <1>1, AccountFacts, NotAllAccounted
<1>3. \A u \in Threads : ~Winner(u, s)
  BY <1>1, <1>2 DEF WinnerInv, WinnerOK
<1>4. output[vertex[s]] = <<>>
  BY <1>1, <1>2 DEF WinnerInv, WinnerOK
<1>5. \A r \in Used \ {s} : ~Winner(t, r) /\ ~Winner(t, r)'
  <2>1. pc[t] = "account" /\ (pc'[t] = "merge" => idx'[t] = idx[t])
    BY DEF Account, NextSlot, Goto, TypeOK, TypeControl
  <2> QED BY <1>0, <1>1, <2>1 DEF Winner, SlotOf
<1>6. Winner(t, s)' <=> AllAccounted(s)'
  <2>1. slot_edges[s] \in Nat
    BY WorkingSlot
  <2>2. AllAccounted(s)' <=> Cardinality(accounted'[s]) = slot_edges[s] + 1
    <3>1. IsFiniteSet(0 .. slot_edges[s]) /\ Cardinality(0 .. slot_edges[s]) = slot_edges[s] + 1
      BY <2>1, FS_Interval
    <3>2. accounted'[s] \subseteq 0 .. slot_edges[s]
      BY <1>0, AccountFacts
    <3>3. Cardinality(accounted'[s]) = Cardinality(0 .. slot_edges[s])
            => accounted'[s] = 0 .. slot_edges[s]
      BY <3>1, <3>2, FS_Subset
    <3> QED BY <1>1, <3>1, <3>3 DEF AllAccounted
  <2>3. processed_edges'[s] = Cardinality(accounted'[s])
    BY <1>0, AccountFacts
  <2>4. processed_edges'[s] = processed_edges[s] + ToAccount(t)
    BY <1>0 DEF Account, TypeOK, TypeSlots, Used
  <2>5. pc'[t] = "merge" <=> processed_edges'[s] = slot_edges[s] + 1
    BY <1>0, <2>4 DEF Account, NextSlot, Goto, TypeOK, TypeControl
  <2>6. pc'[t] = "merge" => SlotOf(t)' = s
    BY <1>0, <1>1, <2>4, <2>5 DEF Account, SlotOf
  <2> QED BY <2>2, <2>3, <2>5, <2>6 DEF Winner
<1>7. WinnerOK(s)'
  BY <1>1, <1>3, <1>4, <1>6 DEF WinnerOK
<1>8. ASSUME NEW r \in Used \ {s} PROVE WinnerOK(r)'
  <2>1. AllAccounted(r)' <=> AllAccounted(r)
    BY <1>0, <1>1, AccountFacts DEF AllAccounted
  <2>2. WinnerOK(r) /\ \A u \in Threads : Winner(u, r)' <=> Winner(u, r)
    BY <1>1, <1>5 DEF WinnerInv
  <2> QED BY <1>1, <2>1, <2>2 DEF WinnerOK
<1> QED BY <1>1, <1>7, <1>8 DEF WinnerInv

(* When nothing is left to merge, one table is left.                       *)
LEMMA LastTable ==
  ASSUME TypeOK, ControlInv, WorkerInv, ~InPhase1, NEW t \in Threads, NEW s \in Used,
         Winner(t, s), merge_i[t] >= num_workers[s]
  PROVE  live[s] = {0}
<1>1. live[s] = {0} \cup {w \in Threads : merge_i[t] <= w /\ w < num_workers[s]}
  BY DEF WorkerInv, SlotWorkersInv, SlotWorkers
<1>2. merge_i[t] \in Nat /\ num_workers[s] \in Nat
  BY WorkingSlot DEF TypeOK, TypeLocals
<1>3. \A w \in Threads : ~(merge_i[t] <= w /\ w < num_workers[s])
  BY <1>2 DEF Threads
<1> QED BY <1>1, <1>3

(* It is the complete table of the vertex. *)
LEMMA FinalTable ==
  ASSUME TypeOK, ControlInv, SlotInv, WinnerInv, WorkerInv, TableInv, ~InPhase1,
         NEW t \in Threads, NEW s \in Used, Winner(t, s), merge_i[t] >= num_workers[s]
  PROVE  /\ output[vertex[s]] = <<>>
         /\ tables[s][0] = CompleteTable(vertex[s])
<1>1. AllAccounted(s) /\ output[vertex[s]] = <<>>
  BY DEF WinnerInv, WinnerOK
<1>2. live[s] = {0}
  BY LastTable
<1>3. TableOK(s)
  BY <1>1 DEF TableInv
<1>4. slot_edges[s] \in Nat /\ slot_edges[s] = EdgesToProcess(vertex[s])
  BY WorkingSlot DEF SlotInv, SlotOK
<1>5. tables[s][0] \in Table
  BY ThreadsAssumption DEF TypeOK, TypeTables, Used, Threads
<1>6. ASSUME NEW e \in EdgeIds
      PROVE  tables[s][0][e] = IF e < slot_edges[s] THEN 1 ELSE 0
  <2>1. tables[s][0][e] \in {0, 1}
    BY <1>2, <1>3 DEF TableOK
  <2>2. tables[s][0][e] = 1 <=> e < slot_edges[s] /\ Combined(s, e)
    BY <1>2, <1>3 DEF TableOK
  <2>3. e < slot_edges[s] => e \in accounted[s]
    BY <1>1, <1>4 DEF AllAccounted, EdgeIds
  <2> QED BY <2>1, <2>2, <2>3 DEF Combined
<1>7. tables[s][0] = CompleteTable(vertex[s])
  BY <1>4, <1>5, <1>6 DEF Table, CompleteTable
<1> QED BY <1>1, <1>7

LEMMA WinnerWrite ==
  ASSUME TypeOK, ControlInv, SlotInv, EdgeInv, WinnerInv, WorkerInv, TableInv,
         NEW t \in Threads, Write2(t)
  PROVE  WinnerInv'
<1>0. PICK s \in Used : s = SlotOf(t)
  BY WorkingSlot DEF Write2
<1>1. /\ ~InPhase1 /\ Used' = Used /\ UNCHANGED <<missing_vertices, slot_edges, vertex>>
      /\ \A u \in Threads \ {t}, r \in Used : Winner(u, r)' <=> Winner(u, r)
  BY WinnerFrame DEF Phase2Step
<1>2. /\ pc[t] = "merge" /\ pc'[t] = "claim" /\ UNCHANGED accounted
      /\ merge_i[t] >= num_workers[s]
      /\ output' = [output EXCEPT ![vertex[s]] = Append(@, tables[s][0])]
  BY <1>0 DEF Write2, NextSlot, Goto, TypeOK, TypeControl
<1>3. Winner(t, s) /\ \A r \in Used : ~Winner(t, r)'
  BY <1>0, <1>2 DEF Winner
<1>4. \A r \in Used \ {s} : ~Winner(t, r)
  BY <1>0 DEF Winner
<1>5. vertex[s] \in AllVertices
  BY RangeAssumption DEF SlotInv, SlotOK, Requested, AllVertices
<1>6. output'[vertex[s]] = <<CompleteTable(vertex[s])>>
  <2>1. output'[vertex[s]] = Append(output[vertex[s]], tables[s][0])
    BY <1>2, <1>5 DEF TypeOK, TypeOutput
  <2>2. /\ output[vertex[s]] = <<>>
        /\ tables[s][0] = CompleteTable(vertex[s])
    BY <1>1, <1>2, <1>3, FinalTable
  <2> QED BY <2>1, <2>2
<1>7. \A r \in Used \ {s} : output'[vertex[r]] = output[vertex[r]]
  <2>1. \A r \in Used \ {s} : vertex[r] # vertex[s] /\ vertex[r] \in AllVertices
    BY RangeAssumption DEF SlotInv, SlotOK, Requested, AllVertices
  <2> QED BY <1>2, <2>1 DEF TypeOK, TypeOutput
<1>8. \A r \in Used : AllAccounted(r)' <=> AllAccounted(r)
  BY <1>1, <1>2 DEF AllAccounted
<1>9. WinnerOK(s)'
  <2>1. AllAccounted(s) /\ \A u \in Threads \ {t} : ~Winner(u, s)
    BY <1>1, <1>3 DEF WinnerInv, WinnerOK
  <2> QED BY <1>1, <1>3, <1>6, <1>8, <2>1 DEF WinnerOK
<1>10. ASSUME NEW r \in Used \ {s} PROVE WinnerOK(r)'
  <2>1. WinnerOK(r) /\ \A u \in Threads : Winner(u, r)' <=> Winner(u, r)
    BY <1>1, <1>3, <1>4 DEF WinnerInv
  <2> QED BY <1>1, <1>7, <1>8, <2>1 DEF WinnerOK
<1> QED BY <1>1, <1>9, <1>10 DEF WinnerInv

LEMMA WinnerCollect ==
  ASSUME TypeOK, ControlInv, Phase1Inv, SlotInv, Collect
  PROVE  WinnerInv'
<1> SUFFICES ASSUME ~InPhase1', NEW s \in Used' PROVE WinnerOK(s)'
  BY DEF WinnerInv
<1>1. \A t \in Threads : ~Winner(t, s)'
  BY PhaseChange
<1>2. FreshSlot(s)'
  BY SlotCollect
<1>3. slot_next'[s] \in Nat /\ slot_edges'[s] \in Nat
  <2>1. TypeOK'
    BY TypeStep, CollectFacts DEF Next, WorkerInv
  <2> QED BY <2>1 DEF TypeOK, TypeSlots, Used
<1>4. ~AllAccounted(s)'
  BY <1>2, <1>3 DEF FreshSlot, AllAccounted
<1> QED BY <1>1, <1>2, <1>4 DEF WinnerOK, FreshSlot

LEMMA WinnerStep ==
  ASSUME TypeOK, ControlInv, Phase1Inv, SlotInv, EdgeInv, WinnerInv, WorkerInv,
         TableInv, [Next]_vars
  PROVE  WinnerInv'
<1>1. ASSUME NEW t \in Threads, Phase1Step(t) PROVE WinnerInv'
  BY <1>1, Frame1 DEF WinnerInv
<1>2. ASSUME NEW t \in Threads, Claim(t) \/ Register(t) \/ Allocate(t) \/ Combine2(t)
                                \/ NextEdge(t) \/ Merge(t) \/ Leave2(t)
      PROVE  WinnerInv'
  <2>1. UNCHANGED <<accounted, output>>
    BY <1>2 DEF Claim, Register, Allocate, Combine2, NextEdge, Merge, Leave2, slots
  <2>2. /\ pc[t] = "merge" <=> pc'[t] = "merge"
        /\ pc[t] = "merge" => idx'[t] = idx[t]
    BY <1>2 DEF Claim, Register, Allocate, Combine2, NextEdge, Merge, Leave2,
                NextSlot, Goto, TypeOK, TypeControl
  <2> QED BY <1>2, <2>1, <2>2, WinnerQuiet DEF Phase2Step
<1>3. ASSUME Return \/ UNCHANGED vars PROVE WinnerInv'
  BY <1>3 DEF Return, vars, main, slots, locals, WinnerInv, WinnerOK, Winner, SlotOf,
              AllAccounted, Used, InPhase1
<1> QED
  BY <1>1, <1>2, <1>3, WinnerAccount, WinnerWrite, WinnerCollect
  DEF Next, Phase2Step, Terminated

-----------------------------------------------------------------------------
(* Phase 2: the worker numbers of a slot. *)

(* A thread at a slot for the first time is not enrolled in it. *)
LEMMA NotEnrolled ==
  ASSUME TypeOK, ControlInv, WorkerInv, ~InPhase1, NEW t \in Threads,
         pc[t] = "register", NEW s \in Used, s = SlotOf(t)
  PROVE  t \notin enrolled[s]
<1> SUFFICES ASSUME t \in enrolled[s] PROVE FALSE
  OBVIOUS
<1>1. PICK j \in 0 .. NThreads : j < idx[t] /\ s = (t + j) % missing_vertices
  BY DEF WorkerInv, EnrolledInv, Enrolled
<1>2. idx[t] < missing_vertices
  BY DEF ControlInv, LabelInv, Working
<1>3. /\ idx[t] \in Nat /\ j \in Nat /\ t \in Nat /\ missing_vertices \in Nat
      /\ missing_vertices # 0
  BY <1>1, <1>2 DEF TypeOK, TypeControl, Threads
<1>4. (t + j) % missing_vertices # (t + idx[t]) % missing_vertices
  BY <1>1, <1>2, <1>3, ModInjective
<1> QED BY <1>1, <1>4 DEF SlotOf

(* Steps that leave worker numbers, live tables and the winners alone. *)
LEMMA WorkerQuiet ==
  ASSUME TypeOK, ControlInv, EdgeInv, WorkerInv, NEW t \in Threads, Phase2Step(t),
         UNCHANGED <<num_workers, enrolled, live, worker_no>>,
         \A s \in Used : AllAccounted(s)' <=> AllAccounted(s),
         pc[t] \notin {"register", "allocate", "merge"},
         pc'[t] \notin {"allocate", "merge"},
         Filling(t)' => Filling(t) /\ pc[t] # "allocate" /\ idx'[t] = idx[t],
         Filling(t) => pc'[t] \in {"combine", "next", "account"} /\ idx'[t] = idx[t],
         \/ idx'[t] = idx[t] /\ pc[t] # "account"
         \/ idx'[t] = idx[t] + 1
  PROVE  WorkerInv'
<1>1. /\ ~InPhase1 /\ Used' = Used /\ UNCHANGED <<missing_vertices, slot_edges, vertex>>
      /\ \A u \in Threads \ {t} :
           /\ SlotOf(u)' = SlotOf(u) /\ pc'[u] = pc[u]
           /\ merge_i'[u] = merge_i[u] /\ idx'[u] = idx[u]
           /\ Filling(u)' <=> Filling(u)
           /\ \A s : Winner(u, s)' <=> Winner(u, s)
  BY WinnerFrame
<1>2. \A s : ~Winner(t, s) /\ ~Winner(t, s)'
  BY DEF Winner
<1>3. ASSUME NEW s \in Used PROVE SlotWorkers(s)'
  <2>1. SlotWorkers(s)
    BY <1>1 DEF WorkerInv, SlotWorkersInv
  <2>2. \A w : (\E u \in Threads : pc[u] = "allocate" /\ SlotOf(u) = s /\ worker_no[u] = w)
          => \E u \in Threads : pc'[u] = "allocate" /\ SlotOf(u)' = s /\ worker_no'[u] = w
    BY <1>1
  <2>3. ~AllAccounted(s)' => ~AllAccounted(s)
    OBVIOUS
  <2>4. \A u \in Threads : Winner(u, s)' <=> Winner(u, s)
    BY <1>1, <1>2
  <2>5. \A u \in Threads : Winner(u, s) => merge_i'[u] = merge_i[u]
    BY <1>1, <1>2
  <2> QED BY <2>1, <2>2, <2>3, <2>4, <2>5 DEF SlotWorkers
<1>4. ASSUME NEW u \in Threads, NEW s \in Used, u \in enrolled[s] PROVE Enrolled(u, s)'
  <2>1. Enrolled(u, s)
    BY <1>1, <1>4 DEF WorkerInv, EnrolledInv
  <2>2. CASE u # t
    BY <1>1, <2>1, <2>2 DEF Enrolled
  <2>3. CASE u = t
    <3>1. CASE \E j \in 0 .. NThreads : j < idx[t] /\ s = (t + j) % missing_vertices
      BY <1>1, <2>3, <3>1, WorkingSlot DEF Enrolled
    <3>2. CASE s = SlotOf(t) /\ pc[t] = "account" /\ idx'[t] = idx[t] + 1
      <4>1. idx[t] \in 0 .. NThreads /\ idx[t] < idx'[t]
        <5>1. idx[t] \in Nat /\ idx[t] < missing_vertices /\ missing_vertices \in 0 .. NThreads
          BY <1>1, <3>2 DEF ControlInv, LabelInv, Working, TypeOK, TypeControl
        <5> QED BY <3>2, <5>1, ThreadsAssumption
      <4> QED BY <1>1, <2>3, <3>2, <4>1 DEF Enrolled, SlotOf
    <3>3. CASE s = SlotOf(t) /\ Filling(t)
      BY <1>1, <2>3, <3>3 DEF Enrolled, SlotOf
    <3> QED BY <2>1, <2>3, <3>1, <3>2, <3>3 DEF Enrolled, Filling
  <2> QED BY <2>2, <2>3
<1>5. \A u \in Threads : Filling(u)' => Filling(u) /\ SlotOf(u)' = SlotOf(u)
  BY <1>1 DEF SlotOf
<1>6. \A u \in Threads : Filling(u)' => (pc'[u] = "allocate" <=> pc[u] = "allocate")
  BY <1>1
<1>7. OwnTableInv'
  BY <1>1, <1>5, <1>6 DEF WorkerInv, OwnTableInv, OwnTable
<1>8. DistinctInv'
  BY <1>1, <1>5 DEF WorkerInv, DistinctInv
<1> QED
  BY <1>1, <1>3, <1>4, <1>7, <1>8 DEF WorkerInv, SlotWorkersInv, EnrolledInv

(* Who is enrolled where, when the acting thread is enrolled nowhere new.  *)
LEMMA EnrolledKept ==
  ASSUME TypeOK, ControlInv, WorkerInv, NEW t \in Threads, Phase2Step(t),
         NEW u \in Threads, NEW s \in Used, Enrolled(u, s),
         \/ /\ idx'[t] = idx[t]
            /\ pc'[t] \in {"allocate", "combine", "next", "account", "merge"}
         \/ /\ idx'[t] = idx[t] + 1 /\ idx[t] < missing_vertices
  PROVE  Enrolled(u, s)'
<1>1. /\ UNCHANGED missing_vertices /\ SlotOf(u) = (u + idx[u]) % missing_vertices
      /\ \A w \in Threads \ {t} :
           SlotOf(w)' = SlotOf(w) /\ pc'[w] = pc[w] /\ idx'[w] = idx[w]
  BY WinnerFrame DEF SlotOf
<1>2. idx[t] \in Nat /\ missing_vertices \in Nat /\ missing_vertices <= NThreads
  BY DEF TypeOK, TypeControl
<1>3. CASE u # t
  BY <1>1, <1>3 DEF Enrolled
<1>4. CASE u = t /\ idx'[t] = idx[t] + 1 /\ idx[t] < missing_vertices
  <2>1. idx[t] \in 0 .. NThreads /\ \A j \in 0 .. NThreads : j < idx[t] => j < idx'[t]
    BY <1>2, <1>4, ThreadsAssumption
  <2>2. idx[t] < idx'[t]
    BY <1>2, <1>4
  <2> QED BY <1>1, <1>4, <2>1, <2>2 DEF Enrolled
<1>5. CASE /\ u = t /\ idx'[t] = idx[t]
           /\ pc'[t] \in {"allocate", "combine", "next", "account", "merge"}
  BY <1>1, <1>5 DEF Enrolled, SlotOf
<1> QED BY <1>3, <1>4, <1>5

LEMMA WorkerRegister ==
  ASSUME TypeOK, ControlInv, EdgeInv, WinnerInv, WorkerInv, NEW t \in Threads, Register(t)
  PROVE  WorkerInv'
<1>0. PICK s \in Used : s = SlotOf(t)
  BY WorkingSlot DEF Register, Working
<1>1. /\ ~InPhase1 /\ Used' = Used /\ UNCHANGED <<missing_vertices, slot_edges, vertex>>
      /\ \A u \in Threads \ {t} :
           /\ SlotOf(u)' = SlotOf(u) /\ pc'[u] = pc[u]
           /\ worker_no'[u] = worker_no[u]
           /\ Filling(u)' <=> Filling(u)
           /\ \A r : Winner(u, r)' <=> Winner(u, r)
  BY WinnerFrame DEF Phase2Step
<1>2. /\ pc[t] = "register" /\ UNCHANGED <<live, accounted, merge_i, idx>>
      /\ worker_no'[t] = num_workers[s]
      /\ num_workers' = [num_workers EXCEPT ![s] = num_workers[s] + 1]
      /\ enrolled' = [enrolled EXCEPT ![s] = enrolled[s] \cup {t}]
      /\ pc'[t] = (IF num_workers[s] > 0 THEN "allocate" ELSE "combine")
  BY <1>0 DEF Register, Goto, TypeOK, TypeControl, TypeLocals
<1>3. /\ s \in Slots /\ num_workers[s] \in Nat /\ num_workers'[s] = num_workers[s] + 1
      /\ enrolled'[s] = enrolled[s] \cup {t}
      /\ \A r \in Used \ {s} : num_workers'[r] = num_workers[r] /\ enrolled'[r] = enrolled[r]
  BY <1>2, WorkingSlot DEF TypeOK, TypeSlots, TypeTables, Used
<1>4. SlotOf(t)' = s
  BY <1>0, <1>1, <1>2 DEF SlotOf
<1>5. SlotWorkers(s) /\ \A w \in live[s] : w \in Threads /\ w \in Nat
  BY <1>1 DEF WorkerInv, SlotWorkersInv, TypeOK, TypeTables, Used, Threads
<1>6. /\ IsFiniteSet(enrolled[s]) /\ num_workers[s] = Cardinality(enrolled[s])
      /\ num_workers[s] < NThreads /\ t \notin enrolled[s]
  BY <1>0, <1>1, <1>2, NotEnrolled, WorkersBounded
<1>7. num_workers'[s] = Cardinality(enrolled'[s])
  BY <1>3, <1>6, FS_AddElement
<1>8. num_workers[s] \in Threads
  BY <1>3, <1>6, ThreadsAssumption DEF Threads
<1>9. num_workers[s] \in live[s] <=> num_workers[s] = 0
  BY <1>3, <1>5 DEF SlotWorkers
<1>10. \A u \in Threads : ~Winner(u, s)
  <2>1. ~AllAccounted(s)
    BY <1>0, <1>1, <1>2, NotAllAccounted DEF At, Working
  <2> QED BY <1>1, <2>1 DEF WinnerInv, WinnerOK
<1>11. \A r \in Used : ~Winner(t, r) /\ ~Winner(t, r)'
  BY <1>2 DEF Winner
<1>12. \A r, w : (\E u \in Threads : pc[u] = "allocate" /\ SlotOf(u) = r /\ worker_no[u] = w)
         => \E u \in Threads : pc'[u] = "allocate" /\ SlotOf(u)' = r /\ worker_no'[u] = w
  BY <1>1, <1>2
<1>13. SlotWorkers(s)'
  <2>1. \A w \in live'[s] : w > 0 => w < num_workers'[s]
    BY <1>2, <1>3, <1>5 DEF SlotWorkers
  <2>2. AllAccounted(s)' <=> AllAccounted(s)
    BY <1>1, <1>2 DEF AllAccounted
  <2>3. ASSUME ~AllAccounted(s)', NEW w \in Threads, w > 0, w < num_workers'[s]
        PROVE  \/ w \in live'[s]
               \/ \E u \in Threads : pc'[u] = "allocate" /\ SlotOf(u)' = s /\ worker_no'[u] = w
    <3>1. CASE w < num_workers[s]
      BY <1>2, <1>5, <1>12, <2>2, <2>3, <3>1 DEF SlotWorkers
    <3>2. CASE ~(w < num_workers[s])
      <4>1. w = num_workers[s] /\ num_workers[s] > 0
        BY <1>3, <2>3, <3>2 DEF Threads
      <4> QED BY <1>2, <1>4, <4>1
    <3> QED BY <3>1, <3>2
  <2>4. ~AllAccounted(s)'
    <3>1. At(t, s)
      BY <1>0, <1>2 DEF At, Working
    <3> QED BY <1>1, <2>2, <3>1, NotAllAccounted
  <2> QED BY <1>1, <1>2, <1>5, <1>7, <1>10, <1>11, <2>1, <2>3, <2>4 DEF SlotWorkers
<1>14. ASSUME NEW r \in Used \ {s} PROVE SlotWorkers(r)'
  <2>1. SlotWorkers(r) /\ (AllAccounted(r)' <=> AllAccounted(r))
    BY <1>1, <1>2 DEF WorkerInv, SlotWorkersInv, AllAccounted
  <2>2. \A u \in Threads : Winner(u, r)' <=> Winner(u, r)
    BY <1>1, <1>11
  <2> QED BY <1>2, <1>3, <1>12, <2>1, <2>2 DEF SlotWorkers
<1>15. ASSUME NEW u \in Threads, NEW r \in Used, u \in enrolled'[r] PROVE Enrolled(u, r)'
  <2>1. CASE u \in enrolled[r]
    BY <1>1, <1>2, <2>1, EnrolledKept DEF WorkerInv, EnrolledInv, Phase2Step
  <2>2. CASE u \notin enrolled[r]
    <3>1. u = t /\ r = s
      BY <1>3, <1>15, <2>2
    <3> QED BY <1>2, <1>4, <3>1 DEF Enrolled
  <2> QED BY <2>1, <2>2
<1>16. ASSUME NEW u \in Threads, Filling(u)' PROVE OwnTable(u)'
  <2>1. CASE u = t
    BY <1>2, <1>3, <1>4, <1>8, <1>9, <2>1 DEF OwnTable
  <2>2. CASE u # t
    <3>1. OwnTable(u) /\ SlotOf(u) \in Used
      BY <1>1, <1>16, <2>2, WorkingSlot DEF WorkerInv, OwnTableInv, Filling, Working
    <3>2. worker_no[u] < num_workers'[SlotOf(u)]
      BY <1>3, <3>1, WorkingSlot DEF OwnTable, Threads
    <3> QED BY <1>1, <1>2, <2>2, <3>1, <3>2 DEF OwnTable
  <2> QED BY <2>1, <2>2
<1>17. DistinctInv'
  <2>1. ASSUME NEW u \in Threads \ {t}, Filling(u), SlotOf(u) = s
        PROVE  worker_no[u] # num_workers[s]
    BY <1>1, <1>3, <2>1 DEF WorkerInv, OwnTableInv, OwnTable, Threads
  <2> QED BY <1>1, <1>2, <1>4, <2>1 DEF WorkerInv, DistinctInv
<1> QED
  BY <1>1, <1>13, <1>14, <1>15, <1>16, <1>17
  DEF WorkerInv, SlotWorkersInv, EnrolledInv, OwnTableInv

LEMMA WorkerAllocate ==
  ASSUME TypeOK, ControlInv, EdgeInv, WinnerInv, WorkerInv, NEW t \in Threads, Allocate(t)
  PROVE  WorkerInv'
<1>0. PICK s \in Used : s = SlotOf(t)
  BY WorkingSlot DEF Allocate, Working
<1>1. /\ ~InPhase1 /\ Used' = Used /\ UNCHANGED <<missing_vertices, slot_edges, vertex>>
      /\ \A u \in Threads \ {t} :
           /\ SlotOf(u)' = SlotOf(u) /\ pc'[u] = pc[u]
           /\ Filling(u)' <=> Filling(u)
           /\ \A r : Winner(u, r)' <=> Winner(u, r)
  BY WinnerFrame DEF Phase2Step
<1>2. /\ pc[t] = "allocate" /\ pc'[t] = "combine"
      /\ UNCHANGED <<worker_no, accounted, merge_i, idx, num_workers, enrolled>>
      /\ live' = [live EXCEPT ![s] = live[s] \cup {worker_no[t]}]
  BY <1>0 DEF Allocate, Goto, locals, TypeOK, TypeControl
<1>3. /\ live'[s] = live[s] \cup {worker_no[t]}
      /\ \A r \in Used \ {s} : live'[r] = live[r]
  BY <1>2 DEF TypeOK, TypeTables, Used
<1>4. SlotOf(t)' = s /\ Filling(t) /\ Filling(t)'
  BY <1>0, <1>1, <1>2 DEF SlotOf, Filling
<1>5. OwnTable(t) /\ SlotWorkers(s)
  BY <1>1, <1>4 DEF WorkerInv, OwnTableInv, SlotWorkersInv
<1>6. worker_no[t] \in Threads /\ worker_no[t] < num_workers[s] /\ worker_no[t] \notin live[s]
  BY <1>0, <1>2, <1>5 DEF OwnTable
<1>7. \A r \in Used : ~Winner(t, r) /\ ~Winner(t, r)'
  BY <1>2 DEF Winner
<1>8. \A u \in Threads : ~Winner(u, s)
  <2>1. ~AllAccounted(s)
    BY <1>0, <1>1, <1>2, NotAllAccounted DEF At, Working
  <2> QED BY <1>1, <2>1 DEF WinnerInv, WinnerOK
<1>9. SlotWorkers(s)'
  <2>1. \A w \in live'[s] : w > 0 => w < num_workers'[s]
    BY <1>2, <1>3, <1>5, <1>6 DEF SlotWorkers
  <2>2. AllAccounted(s)' <=> AllAccounted(s)
    BY <1>1, <1>2 DEF AllAccounted
  <2>3. ASSUME NEW w, w \notin live'[s],
               NEW u \in Threads, pc[u] = "allocate", SlotOf(u) = s, worker_no[u] = w
        PROVE  pc'[u] = "allocate" /\ SlotOf(u)' = s /\ worker_no'[u] = w
    BY <1>1, <1>2, <1>3, <2>3
  <2>4. 0 \in live'[s]
    BY <1>3, <1>5 DEF SlotWorkers
  <2>5. \A u \in Threads : ~Winner(u, s)'
    BY <1>1, <1>7, <1>8
  <2>6. ASSUME ~AllAccounted(s)', NEW w \in Threads, w > 0, w < num_workers'[s],
               w \notin live'[s]
        PROVE  \E u \in Threads : pc'[u] = "allocate" /\ SlotOf(u)' = s /\ worker_no'[u] = w
    <3>1. w \notin live[s]
      BY <1>3, <2>6
    <3>2. PICK u \in Threads : pc[u] = "allocate" /\ SlotOf(u) = s /\ worker_no[u] = w
      BY <1>2, <1>5, <2>2, <2>6, <3>1 DEF SlotWorkers
    <3> QED BY <2>3, <2>6, <3>2
  <2>7. ~AllAccounted(s)'
    BY <1>0, <1>1, <1>2, <2>2, NotAllAccounted DEF At, Working
  <2> QED BY <1>2, <1>5, <2>1, <2>4, <2>5, <2>6, <2>7 DEF SlotWorkers
<1>10. ASSUME NEW r \in Used \ {s} PROVE SlotWorkers(r)'
  <2>1. SlotWorkers(r) /\ (AllAccounted(r)' <=> AllAccounted(r))
    BY <1>1, <1>2 DEF WorkerInv, SlotWorkersInv, AllAccounted
  <2>2. \A u \in Threads : Winner(u, r)' <=> Winner(u, r)
    BY <1>1, <1>7
  <2>3. \A w : (\E u \in Threads : pc[u] = "allocate" /\ SlotOf(u) = r /\ worker_no[u] = w)
         => \E u \in Threads : pc'[u] = "allocate" /\ SlotOf(u)' = r /\ worker_no'[u] = w
    BY <1>0, <1>1, <1>2
  <2> QED BY <1>2, <1>3, <2>1, <2>2, <2>3 DEF SlotWorkers
<1>11. \A u \in Threads, r \in Used : u \in enrolled[r] => Enrolled(u, r)'
  BY <1>1, <1>2, EnrolledKept DEF WorkerInv, EnrolledInv, Phase2Step
<1>12. ASSUME NEW u \in Threads, Filling(u)' PROVE OwnTable(u)'
  <2>1. CASE u = t
    BY <1>0, <1>2, <1>3, <1>4, <1>5, <2>1 DEF OwnTable
  <2>2. CASE u # t
    <3>1. OwnTable(u) /\ SlotOf(u) \in Used /\ Filling(u)
      BY <1>1, <1>12, <2>2, WorkingSlot DEF WorkerInv, OwnTableInv, Filling, Working
    <3>2. worker_no[u] \in live'[SlotOf(u)] <=> worker_no[u] \in live[SlotOf(u)]
      BY <1>0, <1>1, <1>3, <1>4, <2>2, <3>1 DEF WorkerInv, DistinctInv
    <3> QED BY <1>1, <1>2, <2>2, <3>1, <3>2 DEF OwnTable
  <2> QED BY <2>1, <2>2
<1>13. DistinctInv'
  BY <1>0, <1>1, <1>2, <1>4 DEF WorkerInv, DistinctInv
<1> QED
  BY <1>1, <1>2, <1>9, <1>10, <1>11, <1>12, <1>13
  DEF WorkerInv, SlotWorkersInv, EnrolledInv, OwnTableInv

LEMMA WorkerAccount ==
  ASSUME TypeOK, ControlInv, EdgeInv, WinnerInv, WorkerInv, NEW t \in Threads, Account(t)
  PROVE  WorkerInv'
<1>0. PICK s \in Used : s = SlotOf(t)
  BY WorkingSlot DEF Account, Working
<1>1. /\ ~InPhase1 /\ Used' = Used /\ UNCHANGED <<missing_vertices, slot_edges, vertex>>
      /\ \A u \in Threads \ {t} :
           /\ SlotOf(u)' = SlotOf(u) /\ pc'[u] = pc[u]
           /\ merge_i'[u] = merge_i[u]
           /\ Filling(u)' <=> Filling(u)
           /\ \A r : (Winner(u, r)' <=> Winner(u, r)) /\ (At(u, r)' <=> At(u, r))
  BY WinnerFrame DEF Phase2Step
<1>2. /\ pc[t] = "account"
      /\ UNCHANGED <<worker_no, num_workers, enrolled, live>>
      /\ \/ pc'[t] = "merge" /\ idx'[t] = idx[t] /\ merge_i'[t] = 1
         \/ pc'[t] = "claim" /\ idx'[t] = idx[t] + 1
  BY DEF Account, NextSlot, Goto, TypeOK, TypeControl, TypeLocals
<1>3. At(t, s) /\ ~AllAccounted(s)
  BY <1>0, <1>1, AccountFacts, NotAllAccounted
<1>4. \A r \in Used \ {s} : AllAccounted(r)' <=> AllAccounted(r)
  BY <1>0, <1>1, AccountFacts DEF AllAccounted
<1>5. CASE pc'[t] = "claim" /\ idx'[t] = idx[t] + 1
  <2>1. ~Filling(t) /\ ~Filling(t)'
    BY <1>2, <1>5 DEF Filling
  <2>2. ~AllAccounted(s)'
    <3>1. WinnerOK(s)'
      BY <1>1, WinnerAccount, WinnerFrame DEF WinnerInv, Phase2Step
    <3>2. \A u \in Threads : ~Winner(u, s)'
      BY <1>1, <1>3, <1>5 DEF WinnerInv, WinnerOK, Winner
    <3>3. output'[vertex'[s]] = <<>>
      BY <1>1, <1>3 DEF WinnerInv, WinnerOK, Account
    <3> QED BY <3>1, <3>2, <3>3 DEF WinnerOK
  <2>3. \A r \in Used : AllAccounted(r)' <=> AllAccounted(r)
    BY <1>3, <1>4, <2>2
  <2> QED BY <1>2, <1>5, <2>1, <2>3, WorkerQuiet DEF Phase2Step
<1>6. CASE pc'[t] = "merge" /\ idx'[t] = idx[t] /\ merge_i'[t] = 1
  <2>1. SlotOf(t)' = s /\ Winner(t, s)' /\ ~Filling(t) /\ ~Filling(t)'
    BY <1>0, <1>1, <1>2, <1>6 DEF SlotOf, Winner, Filling
  <2>2. AllAccounted(s)'
    BY <1>1, <2>1, WinnerAccount, Frame2 DEF WinnerInv, WinnerOK, Phase2Step
  <2>3. ASSUME NEW u \in Threads \ {t}, At(u, s) PROVE FALSE
    <3>1. Owned(u) # {} /\ Owned(u) \cap accounted[s] = {} /\ Owned(u) \cap Owned(t) = {}
      BY <1>1, <1>3, <2>3 DEF EdgeInv, HandInv, HandOK, DisjointInv, At
    <3>2. Owned(u) \subseteq 0 .. slot_edges[s]
      BY <1>1, <2>3, HandInRange
    <3>3. accounted[s] \cup Owned(t) = 0 .. slot_edges[s]
      BY <1>0, <1>1, <2>2, AccountFacts DEF AllAccounted
    <3> QED BY <3>1, <3>2, <3>3
  <2>4. SlotWorkers(s)'
    <3>1. SlotWorkers(s) /\ num_workers[s] \in Nat
      BY <1>1, WorkingSlot DEF WorkerInv, SlotWorkersInv
    <3>2. \A u \in Threads : ~(pc[u] = "allocate" /\ SlotOf(u) = s)
      BY <1>2, <2>3 DEF At, Working
    <3>3. \A w \in Threads : w > 0 /\ w < num_workers[s] => w \in live[s]
      BY <1>3, <3>1, <3>2 DEF SlotWorkers
    <3>4. live[s] = {0} \cup {w \in Threads : 1 <= w /\ w < num_workers[s]}
      BY <3>1, <3>3 DEF SlotWorkers, TypeOK, TypeTables, Used, Threads
    <3>5. \A u \in Threads : Winner(u, s)' => u = t
      BY <1>1, <1>3 DEF WinnerInv, WinnerOK
    <3> QED BY <1>2, <1>6, <2>1, <2>2, <3>1, <3>4, <3>5 DEF SlotWorkers
  <2>5. ASSUME NEW r \in Used \ {s} PROVE SlotWorkers(r)'
    <3>1. SlotWorkers(r) /\ (AllAccounted(r)' <=> AllAccounted(r))
      BY <1>1, <1>4 DEF WorkerInv, SlotWorkersInv
    <3>0. ~Winner(t, r) /\ ~Winner(t, r)'
      BY <1>2, <2>1 DEF Winner
    <3>2. \A u \in Threads : Winner(u, r)' <=> Winner(u, r)
      BY <1>1, <3>0
    <3>4. \A u \in Threads : Winner(u, r) => merge_i'[u] = merge_i[u]
      BY <1>1, <3>0
    <3>3. \A w : (\E u \in Threads : pc[u] = "allocate" /\ SlotOf(u) = r /\ worker_no[u] = w)
         => \E u \in Threads : pc'[u] = "allocate" /\ SlotOf(u)' = r /\ worker_no'[u] = w
      BY <1>1, <1>2
    <3> QED BY <1>2, <3>1, <3>2, <3>3, <3>4 DEF SlotWorkers
  <2>6. \A u \in Threads, r \in Used : u \in enrolled[r] => Enrolled(u, r)'
    BY <1>1, <1>6, EnrolledKept DEF WorkerInv, EnrolledInv, Phase2Step
  <2>7. OwnTableInv' /\ DistinctInv'
    BY <1>1, <1>2, <2>1 DEF WorkerInv, OwnTableInv, OwnTable, DistinctInv
  <2> QED
    BY <1>1, <1>2, <2>4, <2>5, <2>6, <2>7 DEF WorkerInv, SlotWorkersInv, EnrolledInv
<1> QED BY <1>2, <1>5, <1>6

LEMMA WorkerMerge ==
  ASSUME TypeOK, ControlInv, EdgeInv, WinnerInv, WorkerInv, NEW t \in Threads, Merge(t)
  PROVE  WorkerInv'
<1>0. PICK s \in Used : s = SlotOf(t)
  BY WorkingSlot DEF Merge
<1>1. /\ ~InPhase1 /\ Used' = Used /\ UNCHANGED <<missing_vertices, slot_edges, vertex>>
      /\ \A u \in Threads \ {t} :
           /\ SlotOf(u)' = SlotOf(u) /\ pc'[u] = pc[u]
           /\ merge_i'[u] = merge_i[u]
           /\ Filling(u)' <=> Filling(u)
           /\ \A r : Winner(u, r)' <=> Winner(u, r)
  BY WinnerFrame DEF Phase2Step
<1>2. /\ pc[t] = "merge" /\ merge_i[t] < num_workers[s]
      /\ UNCHANGED <<pc, idx, worker_no, accounted, num_workers, enrolled>>
      /\ live' = [live EXCEPT ![s] = live[s] \ {merge_i[t]}]
      /\ merge_i'[t] = merge_i[t] + 1
  BY <1>0 DEF Merge, TypeOK, TypeLocals
<1>3. /\ live'[s] = live[s] \ {merge_i[t]}
      /\ \A r \in Used \ {s} : live'[r] = live[r]
  BY <1>2 DEF TypeOK, TypeTables, Used
<1>4. SlotOf(t)' = s /\ Winner(t, s) /\ Winner(t, s)' /\ ~Filling(t) /\ ~Filling(t)'
  BY <1>0, <1>1, <1>2 DEF SlotOf, Filling, Winner
<1>5. /\ SlotWorkers(s) /\ AllAccounted(s) /\ AllAccounted(s)'
      /\ \A u \in Threads : Winner(u, s) => u = t
  BY <1>1, <1>2, <1>4 DEF WorkerInv, SlotWorkersInv, WinnerInv, WinnerOK, AllAccounted
<1>6. /\ merge_i[t] \in Nat /\ merge_i[t] >= 1
      /\ live[s] = {0} \cup {w \in Threads : merge_i[t] <= w /\ w < num_workers[s]}
  BY <1>4, <1>5 DEF SlotWorkers, TypeOK, TypeLocals
<1>7. live'[s] = {0} \cup {w \in Threads : merge_i'[t] <= w /\ w < num_workers[s]}
  <2>1. \A w \in Threads : merge_i[t] <= w /\ w # merge_i[t] <=> merge_i[t] + 1 <= w
    BY <1>6 DEF Threads
  <2>2. 0 # merge_i[t]
    BY <1>6
  <2> QED BY <1>2, <1>3, <1>6, <2>1, <2>2
<1>8. SlotWorkers(s)'
  <2>1. \A u \in Threads : Winner(u, s)' => u = t
    BY <1>1, <1>5
  <2>2. /\ merge_i'[t] >= 1 /\ 0 \in live'[s]
        /\ \A w \in live'[s] : w > 0 => w < num_workers'[s]
    BY <1>2, <1>6, <1>7
  <2> QED BY <1>2, <1>4, <1>5, <1>7, <2>1, <2>2 DEF SlotWorkers
<1>9. ASSUME NEW r \in Used \ {s} PROVE SlotWorkers(r)'
  <2>1. SlotWorkers(r) /\ (AllAccounted(r)' <=> AllAccounted(r))
    BY <1>1, <1>2 DEF WorkerInv, SlotWorkersInv, AllAccounted
  <2>4. ~Winner(t, r) /\ ~Winner(t, r)'
    BY <1>4 DEF Winner
  <2>2. \A u \in Threads : Winner(u, r)' <=> Winner(u, r)
    BY <1>1, <2>4
  <2>5. \A u \in Threads : Winner(u, r) => merge_i'[u] = merge_i[u]
    BY <1>1, <2>4
  <2>3. \A w : (\E u \in Threads : pc[u] = "allocate" /\ SlotOf(u) = r /\ worker_no[u] = w)
       => \E u \in Threads : pc'[u] = "allocate" /\ SlotOf(u)' = r /\ worker_no'[u] = w
    BY <1>1, <1>2
  <2> QED BY <1>2, <1>3, <2>1, <2>2, <2>3, <2>5 DEF SlotWorkers
<1>10. \A u \in Threads, r \in Used : u \in enrolled[r] => Enrolled(u, r)'
  BY <1>1, <1>2, EnrolledKept DEF WorkerInv, EnrolledInv, Phase2Step
<1>11. ASSUME NEW u \in Threads, Filling(u)' PROVE OwnTable(u)'
  <2>1. u # t /\ Filling(u) /\ OwnTable(u)
    BY <1>1, <1>4, <1>11 DEF WorkerInv, OwnTableInv
  <2>2. SlotOf(u) \in Used \ {s}
    <3>1. SlotOf(u) \in Used /\ Working(u)
      BY <2>1, WorkingSlot DEF Filling, Working
    <3> QED BY <1>1, <1>5, <3>1, NotAllAccounted DEF At
  <2> QED BY <1>1, <1>2, <1>3, <2>1, <2>2 DEF OwnTable
<1>12. DistinctInv'
  BY <1>1, <1>2, <1>4 DEF WorkerInv, DistinctInv
<1> QED
  BY <1>1, <1>2, <1>8, <1>9, <1>10, <1>11, <1>12
  DEF WorkerInv, SlotWorkersInv, EnrolledInv, OwnTableInv

LEMMA WorkerWrite ==
  ASSUME TypeOK, ControlInv, EdgeInv, WinnerInv, WorkerInv, NEW t \in Threads, Write2(t)
  PROVE  WorkerInv'
<1>1. /\ ~InPhase1 /\ Used' = Used /\ UNCHANGED <<missing_vertices, slot_edges, vertex>>
      /\ \A u \in Threads \ {t} :
           /\ SlotOf(u)' = SlotOf(u) /\ pc'[u] = pc[u]
           /\ merge_i'[u] = merge_i[u]
           /\ Filling(u)' <=> Filling(u)
           /\ \A r : Winner(u, r)' <=> Winner(u, r)
  BY WinnerFrame DEF Phase2Step
<1>2. /\ pc[t] = "merge" /\ pc'[t] = "claim" /\ idx'[t] = idx[t] + 1
      /\ UNCHANGED <<worker_no, accounted, num_workers, enrolled, live>>
  BY DEF Write2, NextSlot, Goto, TypeOK, TypeControl
<1>3. ~Filling(t) /\ ~Filling(t)' /\ \A r : ~Winner(t, r)'
  BY <1>2 DEF Filling, Winner
<1>4. ASSUME NEW r \in Used PROVE SlotWorkers(r)'
  <2>1. SlotWorkers(r) /\ (AllAccounted(r)' <=> AllAccounted(r))
    BY <1>1, <1>2 DEF WorkerInv, SlotWorkersInv, AllAccounted
  <2>2. \A u \in Threads : Winner(u, r)' => Winner(u, r) /\ merge_i'[u] = merge_i[u]
    BY <1>1, <1>3
  <2>4. ASSUME AllAccounted(r), \A u \in Threads : ~Winner(u, r)' PROVE live[r] = {0}
    <3>1. \A u \in Threads \ {t} : ~Winner(u, r)
      BY <1>1, <2>4
    <3>2. CASE Winner(t, r)
      BY <1>1, <1>2, <3>2, LastTable DEF Write2, Winner
    <3> QED BY <2>1, <2>4, <3>1, <3>2 DEF SlotWorkers
  <2>3. \A w : (\E u \in Threads : pc[u] = "allocate" /\ SlotOf(u) = r /\ worker_no[u] = w)
       => \E u \in Threads : pc'[u] = "allocate" /\ SlotOf(u)' = r /\ worker_no'[u] = w
    BY <1>1, <1>2
  <2> QED BY <1>2, <2>1, <2>2, <2>3, <2>4 DEF SlotWorkers
<1>5. idx[t] < missing_vertices
  BY <1>1, <1>2 DEF ControlInv, LabelInv
<1>6. \A u \in Threads, r \in Used : u \in enrolled[r] => Enrolled(u, r)'
  BY <1>1, <1>2, <1>5, EnrolledKept DEF WorkerInv, EnrolledInv, Phase2Step
<1>7. OwnTableInv' /\ DistinctInv'
  BY <1>1, <1>2, <1>3 DEF WorkerInv, OwnTableInv, OwnTable, DistinctInv
<1> QED
  BY <1>1, <1>2, <1>4, <1>6, <1>7 DEF WorkerInv, SlotWorkersInv, EnrolledInv

LEMMA WorkerCollect ==
  ASSUME TypeOK, ControlInv, Phase1Inv, SlotInv, Collect
  PROVE  WorkerInv'
<1> SUFFICES ASSUME ~InPhase1' PROVE WorkerInv'
  BY DEF WorkerInv
<1>1. \A t \in Threads : ~Filling(t)' /\ \A s : ~Winner(t, s)'
  BY PhaseChange
<1>2. \A s \in Used' : enrolled'[s] = {} /\ num_workers'[s] = 0 /\ live'[s] = {0}
  BY SlotCollect DEF FreshSlot, Used
<1>3. ASSUME NEW s \in Used' PROVE SlotWorkers(s)'
  <2>1. num_workers'[s] = Cardinality(enrolled'[s])
    BY <1>2, <1>3, FS_EmptySet
  <2>2. \A w \in Threads : ~(w > 0 /\ w < num_workers'[s])
    BY <1>2, <1>3 DEF Threads
  <2>3. 0 \in live'[s] /\ live'[s] = {0} /\ \A w \in live'[s] : ~(w > 0)
    BY <1>2, <1>3
  <2> QED BY <1>1, <2>1, <2>2, <2>3 DEF SlotWorkers
<1>4. EnrolledInv' /\ OwnTableInv' /\ DistinctInv'
  BY <1>1, <1>2 DEF EnrolledInv, OwnTableInv, DistinctInv
<1> QED BY <1>3, <1>4 DEF WorkerInv, SlotWorkersInv

LEMMA WorkerStep ==
  ASSUME TypeOK, ControlInv, Phase1Inv, SlotInv, EdgeInv, WinnerInv, WorkerInv, [Next]_vars
  PROVE  WorkerInv'
<1>1. ASSUME NEW t \in Threads, Phase1Step(t) PROVE WorkerInv'
  BY <1>1, Frame1 DEF WorkerInv
<1>2. ASSUME NEW t \in Threads, Claim(t) \/ Combine2(t) \/ NextEdge(t) \/ Leave2(t)
      PROVE  WorkerInv'
  <2>1. UNCHANGED <<num_workers, enrolled, live, worker_no, accounted, slot_edges>>
    BY <1>2 DEF Claim, Combine2, NextEdge, Leave2, slots, locals
  <2>2. \A s \in Used : AllAccounted(s)' <=> AllAccounted(s)
    BY <2>1 DEF AllAccounted
  <2>3. /\ pc[t] \notin {"register", "allocate", "merge", "account"}
        /\ pc'[t] \notin {"allocate", "merge"}
        /\ Filling(t)' => Filling(t) /\ idx'[t] = idx[t]
        /\ Filling(t) => pc'[t] \in {"combine", "next", "account"} /\ idx'[t] = idx[t]
        /\ idx'[t] = idx[t] \/ idx'[t] = idx[t] + 1
    BY <1>2 DEF Claim, Combine2, NextEdge, Leave2, NextSlot, Goto, Filling, locals,
                TypeOK, TypeControl
  <2> QED BY <1>2, <2>1, <2>2, <2>3, WorkerQuiet DEF Phase2Step
<1>3. ASSUME Return \/ UNCHANGED vars PROVE WorkerInv'
  <2>1. UNCHANGED <<pc, slots, locals, main_i, missing_vertices>>
    BY <1>3 DEF Return, vars, main
  <2>2. UNCHANGED InPhase1 /\ Used' = Used /\ UNCHANGED vertex
    BY <2>1 DEF InPhase1, Used, slots
  <2>3. \A t \in Threads :
          /\ SlotOf(t)' = SlotOf(t) /\ (Filling(t)' <=> Filling(t))
          /\ \A s : (Winner(t, s)' <=> Winner(t, s)) /\ (Enrolled(t, s) => Enrolled(t, s)')
    BY <2>1 DEF SlotOf, Filling, Winner, Enrolled, locals
  <2>4. \A s \in Used : SlotWorkers(s) => SlotWorkers(s)'
    BY <2>1, <2>3 DEF SlotWorkers, AllAccounted, slots, locals
  <2>5. \A t \in Threads : OwnTable(t) => OwnTable(t)'
    BY <2>1, <2>3 DEF OwnTable, slots, locals
  <2> QED BY <2>1, <2>2, <2>3, <2>4, <2>5
          DEF WorkerInv, SlotWorkersInv, EnrolledInv, OwnTableInv, DistinctInv, slots, locals
<1> QED
  BY <1>1, <1>2, <1>3, WorkerRegister, WorkerAllocate, WorkerAccount, WorkerMerge,
     WorkerWrite, WorkerCollect
  DEF Next, Phase2Step, Terminated

-----------------------------------------------------------------------------
(* Phase 2: the tables. *)

LEMMA TableQuiet ==
  ASSUME NEW r \in Used, TableOK(r), tables'[r] = tables[r], live'[r] = live[r],
         slot_edges'[r] = slot_edges[r],
         \A e \in EdgeIds : e < slot_edges[r] => (Combined(r, e)' <=> Combined(r, e))
  PROVE  TableOK(r)'
BY DEF TableOK

(* Steps after which every slot has the same edges in its tables. *)
LEMMA TableUnchanged ==
  ASSUME TypeOK, ControlInv, TableInv, NEW t \in Threads, Phase2Step(t),
         UNCHANGED <<tables, live>>,
         \A s \in Used : output'[vertex[s]] = <<>> => output[vertex[s]] = <<>>,
         \A s \in Used, e \in EdgeIds :
           e < slot_edges[s] => (Combined(s, e)' <=> Combined(s, e))
  PROVE  TableInv'
<1>1. ~InPhase1 /\ Used' = Used /\ UNCHANGED <<slot_edges, vertex>>
  BY WinnerFrame
<1> QED BY <1>1, TableQuiet DEF TableInv

LEMMA CombinedFrame ==
  ASSUME TypeOK, ControlInv, NEW t \in Threads, Phase2Step(t), NEW s \in Used, NEW e,
         e \in accounted'[s] <=> e \in accounted[s],
         At(t, s)' /\ e \in mine'[t] <=> At(t, s) /\ e \in mine[t]
  PROVE  Combined(s, e)' <=> Combined(s, e)
<1>1. \A u \in Threads \ {t} : (At(u, s)' <=> At(u, s)) /\ mine'[u] = mine[u]
  BY WinnerFrame
<1> QED BY <1>1 DEF Combined

LEMMA TableSimple ==
  ASSUME TypeOK, ControlInv, TableInv, NEW t \in Threads,
         Claim(t) \/ Register(t) \/ NextEdge(t) \/ Leave2(t)
  PROVE  TableInv'
<1>1. UNCHANGED <<tables, live, accounted, output>>
  BY DEF Claim, Register, NextEdge, Leave2, slots
<1>2. UNCHANGED missing_vertices
  BY WinnerFrame DEF Phase2Step
<1>3. ASSUME NEW s \in Used, NEW e PROVE At(t, s)' /\ e \in mine'[t] <=> At(t, s) /\ e \in mine[t]
  <2>1. CASE Claim(t)
    BY <2>1 DEF Claim, NextSlot, Goto, At, Working, TypeOK, TypeControl, TypeLocals
  <2>2. CASE Register(t) \/ NextEdge(t)
    BY <1>2, <2>2 DEF Register, NextEdge, Goto, At, Working, SlotOf, TypeOK, TypeControl
  <2>3. CASE Leave2(t)
    BY <2>3 DEF Leave2, Goto, At, Working, TypeOK, TypeControl
  <2> QED BY <2>1, <2>2, <2>3
<1>4. \A s \in Used, e \in EdgeIds : Combined(s, e)' <=> Combined(s, e)
  BY <1>1, <1>3, CombinedFrame DEF Phase2Step
<1>5. UNCHANGED vertex
  BY WinnerFrame DEF Phase2Step
<1> QED BY <1>1, <1>4, <1>5, TableUnchanged DEF Phase2Step

LEMMA TableAccount ==
  ASSUME TypeOK, ControlInv, EdgeInv, TableInv, NEW t \in Threads, Account(t)
  PROVE  TableInv'
<1>0. PICK s \in Used : s = SlotOf(t)
  BY WorkingSlot DEF Account, Working
<1>1. UNCHANGED <<tables, live, output, mine>> /\ UNCHANGED <<slot_edges, vertex>>
  BY WinnerFrame DEF Phase2Step, Account
<1>2. ~Working(t)' /\ pc[t] = "account"
  BY DEF Account, NextSlot, Goto, Working, TypeOK, TypeControl
<1>3. \A r \in Used : ~At(t, r)'
  BY <1>2 DEF At
<1>4. \A u \in Threads \ {t}, r \in Used : At(u, r)' <=> At(u, r)
  BY WinnerFrame DEF Phase2Step
<1>5. ASSUME NEW r \in Used, NEW e \in EdgeIds, e < slot_edges[r]
      PROVE  Combined(r, e)' <=> Combined(r, e)
  <2>1. CASE r # s
    <3>1. ~At(t, r) /\ accounted'[r] = accounted[r]
      BY <1>0, <2>1, AccountFacts DEF At
    <3> QED BY <1>1, <1>3, <1>4, <3>1 DEF Combined
  <2>2. CASE r = s
    <3>1. At(t, s) /\ accounted'[s] = accounted[s] \cup Owned(t)
      BY <1>0, AccountFacts
    <3>2. e \in Owned(t) <=> e \in mine[t]
      <4>1. slot_edges[s] \in Nat
        BY WorkingSlot
      <4>2. e # slot_edges[s]
        BY <1>5, <2>2, <4>1 DEF EdgeIds
      <4> QED BY <1>0, <1>2, <4>2 DEF Owned, Pending, Virtual
    <3> QED BY <1>1, <1>3, <1>4, <2>2, <3>1, <3>2 DEF Combined
  <2> QED BY <2>1, <2>2
<1> QED BY <1>1, <1>5, TableUnchanged DEF Phase2Step

LEMMA TableAllocate ==
  ASSUME TypeOK, ControlInv, WorkerInv, TableInv, NEW t \in Threads, Allocate(t)
  PROVE  TableInv'
<1>0. PICK s \in Used : s = SlotOf(t)
  BY WorkingSlot DEF Allocate, Working
<1>1. ~InPhase1 /\ Used' = Used /\ UNCHANGED <<missing_vertices, slot_edges, vertex>>
  BY WinnerFrame DEF Phase2Step
<1>2. PICK w0 : w0 = worker_no[t]
  OBVIOUS
<1>3. /\ pc[t] = "allocate" /\ pc'[t] = "combine" /\ UNCHANGED <<accounted, mine, output, idx>>
      /\ tables' = [tables EXCEPT ![s][w0] = EmptyTable]
      /\ live' = [live EXCEPT ![s] = live[s] \cup {w0}]
  BY <1>0, <1>2 DEF Allocate, Goto, locals, TypeOK, TypeControl
<1>4. w0 \in Threads /\ w0 \notin live[s]
  BY <1>0, <1>1, <1>2, <1>3 DEF WorkerInv, OwnTableInv, OwnTable, Filling
<1>5. \A r \in Used : \A e : Combined(r, e)' <=> Combined(r, e)
  <2>1. \A r \in Used : At(t, r)' <=> At(t, r)
    BY <1>1, <1>3 DEF At, Working, SlotOf
  <2> QED BY <1>3, <2>1, CombinedFrame DEF Phase2Step
<1>6. /\ live'[s] = live[s] \cup {w0}
      /\ tables'[s] = [tables[s] EXCEPT ![w0] = EmptyTable]
      /\ \A r \in Used \ {s} : live'[r] = live[r] /\ tables'[r] = tables[r]
  BY <1>3 DEF TypeOK, TypeTables, Used
<1>7. /\ tables'[s][w0] = EmptyTable
      /\ \A w \in live[s] : tables'[s][w] = tables[s][w]
  <2>1. tables[s] \in [Threads -> Table] /\ live[s] \subseteq Threads
    BY DEF TypeOK, TypeTables, Used
  <2> QED BY <1>4, <1>6, <2>1
<1>8. \A e \in EdgeIds : tables'[s][w0][e] = 0
  BY <1>7 DEF EmptyTable
<1>9. ASSUME TableOK(s) PROVE TableOK(s)'
  <2>1. \A w \in live'[s], e \in EdgeIds : tables'[s][w][e] \in {0, 1}
    BY <1>6, <1>7, <1>8, <1>9 DEF TableOK
  <2>2. \A w, x \in live'[s], e \in EdgeIds :
          w # x => tables'[s][w][e] = 0 \/ tables'[s][x][e] = 0
    BY <1>6, <1>7, <1>8, <1>9 DEF TableOK
  <2>3. ASSUME NEW e \in EdgeIds
        PROVE  (\E w \in live'[s] : tables'[s][w][e] = 1)
                 <=> (\E w \in live[s] : tables[s][w][e] = 1)
    BY <1>6, <1>7, <1>8
  <2>4. \A e \in EdgeIds : (\E w \in live'[s] : tables'[s][w][e] = 1)
          <=> e < slot_edges'[s] /\ Combined(s, e)'
    BY <1>1, <1>5, <1>9, <2>3 DEF TableOK
  <2> QED BY <2>1, <2>2, <2>4 DEF TableOK
<1>10. \A r \in Used \ {s} : TableOK(r) => TableOK(r)'
  BY <1>1, <1>5, <1>6, TableQuiet
<1> QED BY <1>1, <1>3, <1>9, <1>10 DEF TableInv

LEMMA TableCombine ==
  ASSUME TypeOK, ControlInv, SlotInv, EdgeInv, WorkerInv, TableInv,
         NEW t \in Threads, Combine2(t)
  PROVE  TableInv'
<1>0. PICK s \in Used : s = SlotOf(t)
  BY WorkingSlot DEF Combine2, Working
<1>1. ~InPhase1 /\ Used' = Used /\ UNCHANGED <<missing_vertices, slot_edges, vertex>>
  BY WinnerFrame DEF Phase2Step
<1>2. PICK w0, e0 : w0 = worker_no[t] /\ e0 = d[t]
  OBVIOUS
<1>3. /\ pc[t] = "combine" /\ pc'[t] = "next" /\ UNCHANGED <<accounted, output, idx, live>>
      /\ tables' = [tables EXCEPT ![s][w0] = WithEdge(@, e0)]
      /\ mine'[t] = mine[t] \cup {e0}
  BY <1>0, <1>2 DEF Combine2, Goto, TypeOK, TypeControl, TypeLocals
<1>4. w0 \in Threads /\ w0 \in live[s]
  BY <1>0, <1>1, <1>2, <1>3 DEF WorkerInv, OwnTableInv, OwnTable, Filling
<1>5. At(t, s) /\ At(t, s)' /\ HandOK(t)
  BY <1>0, <1>1, <1>3 DEF At, Working, SlotOf, EdgeInv, HandInv
<1>6. e0 \in EdgeIds /\ e0 < slot_edges[s]
  <2>1. e0 \in Nat /\ e0 < slot_edges[s] /\ slot_edges[s] \in Nat
    BY <1>0, <1>2, <1>3, <1>5, WorkingSlot DEF HandOK
  <2>2. slot_edges[s] <= MaxDegree
    BY EdgesBound, RangeAssumption DEF SlotInv, SlotOK, Requested, AllVertices
  <2> QED BY <2>1, <2>2, GraphAssumption DEF EdgeIds
<1>7. ~Combined(s, e0)
  <2>1. e0 \in Owned(t) /\ e0 \notin mine[t] /\ e0 \notin accounted[s]
    BY <1>0, <1>2, <1>3, <1>5 DEF HandOK, Owned, Pending
  <2>2. \A u \in Threads \ {t} : At(u, s) => e0 \notin mine[u]
    BY <1>1, <1>5, <2>1 DEF EdgeInv, DisjointInv, At, Owned
  <2> QED BY <2>1, <2>2 DEF Combined
<1>8. \A u \in Threads \ {t} : mine'[u] = mine[u] /\ \A r : At(u, r)' <=> At(u, r)
  BY WinnerFrame DEF Phase2Step
<1>9. \A e : Combined(s, e)' <=> Combined(s, e) \/ e = e0
  BY <1>3, <1>5, <1>8 DEF Combined
<1>10. \A r \in Used \ {s} : \A e : Combined(r, e)' <=> Combined(r, e)
  <2>1. \A r \in Used \ {s} : ~At(t, r) /\ ~At(t, r)'
    BY <1>5 DEF At
  <2> QED BY <1>3, <1>8, <2>1 DEF Combined
<1>11. /\ tables'[s] = [tables[s] EXCEPT ![w0] = WithEdge(@, e0)]
       /\ \A r \in Used \ {s} : tables'[r] = tables[r]
  BY <1>3 DEF TypeOK, TypeTables, Used
<1>12. /\ tables'[s][w0] = WithEdge(tables[s][w0], e0)
       /\ \A w \in live[s] : w # w0 => tables'[s][w] = tables[s][w]
       /\ tables[s][w0] \in Table
  <2>1. tables[s] \in [Threads -> Table] /\ live[s] \subseteq Threads
    BY DEF TypeOK, TypeTables, Used
  <2> QED BY <1>4, <1>11, <2>1
<1>13. \A e \in EdgeIds : tables'[s][w0][e] =
         IF e = e0 THEN tables[s][w0][e0] + 1 ELSE tables[s][w0][e]
  BY <1>6, <1>12 DEF WithEdge, Table
<1>14. ASSUME TableOK(s) PROVE TableOK(s)'
  <2>1. \A w \in live[s] : tables[s][w][e0] = 0
    BY <1>6, <1>7, <1>14 DEF TableOK
  <2>2. tables'[s][w0][e0] = 1 /\ \A w \in live[s] : w # w0 => tables'[s][w][e0] = 0
    BY <1>4, <1>6, <1>12, <1>13, <2>1
  <2>3. \A w \in live[s], e \in EdgeIds : e # e0 => tables'[s][w][e] = tables[s][w][e]
    BY <1>12, <1>13
  <2>4. \A w \in live'[s], e \in EdgeIds : tables'[s][w][e] \in {0, 1}
    BY <1>3, <1>14, <2>2, <2>3 DEF TableOK
  <2>5. \A w, x \in live'[s], e \in EdgeIds :
          w # x => tables'[s][w][e] = 0 \/ tables'[s][x][e] = 0
    BY <1>3, <1>14, <2>2, <2>3 DEF TableOK
  <2>6. ASSUME NEW e \in EdgeIds
        PROVE  (\E w \in live'[s] : tables'[s][w][e] = 1)
                 <=> e < slot_edges'[s] /\ Combined(s, e)'
    <3>1. CASE e = e0
      BY <1>1, <1>3, <1>4, <1>6, <1>9, <2>2, <3>1
    <3>2. CASE e # e0
      BY <1>1, <1>3, <1>9, <1>14, <2>3, <3>2 DEF TableOK
    <3> QED BY <3>1, <3>2
  <2> QED BY <2>4, <2>5, <2>6 DEF TableOK
<1>15. \A r \in Used \ {s} : TableOK(r) => TableOK(r)'
  BY <1>1, <1>3, <1>10, <1>11, TableQuiet
<1> QED BY <1>1, <1>3, <1>14, <1>15 DEF TableInv

LEMMA TableMerge ==
  ASSUME TypeOK, ControlInv, EdgeInv, WorkerInv, TableInv, NEW t \in Threads, Merge(t)
  PROVE  TableInv'
<1>0. PICK s \in Used : s = SlotOf(t)
  BY WorkingSlot DEF Merge
<1>1. ~InPhase1 /\ Used' = Used /\ UNCHANGED <<missing_vertices, slot_edges, vertex>>
  BY WinnerFrame DEF Phase2Step
<1>2. PICK m : m = merge_i[t]
  OBVIOUS
<1>3. /\ pc[t] = "merge" /\ m < num_workers[s]
      /\ UNCHANGED <<accounted, output, idx, pc, mine>>
      /\ tables' = [tables EXCEPT ![s][0] = Merged(@, tables[s][m])]
      /\ live' = [live EXCEPT ![s] = live[s] \ {m}]
  BY <1>0, <1>2 DEF Merge
<1>4. m \in Threads /\ m # 0 /\ m \in live[s] /\ 0 \in live[s] /\ 0 \in Threads
  <2>1. Winner(t, s) /\ SlotWorkers(s)
    BY <1>0, <1>1, <1>3 DEF Winner, WorkerInv, SlotWorkersInv
  <2>2. m >= 1 /\ live[s] = {0} \cup {w \in Threads : m <= w /\ w < num_workers[s]}
    BY <1>2, <2>1 DEF SlotWorkers
  <2>3. m \in Threads
    BY <1>0, <1>2, <1>3, MergeInThreads
  <2> QED BY <1>3, <2>2, <2>3, ThreadsAssumption DEF Threads
<1>5. \A r \in Used : \A e : Combined(r, e)' <=> Combined(r, e)
  <2>1. \A r \in Used : ~At(t, r)' /\ ~At(t, r)
    BY <1>3 DEF At, Working
  <2> QED BY <1>3, <2>1, CombinedFrame DEF Phase2Step
<1>6. /\ live'[s] = live[s] \ {m}
      /\ tables'[s] = [tables[s] EXCEPT ![0] = Merged(@, tables[s][m])]
      /\ \A r \in Used \ {s} : live'[r] = live[r] /\ tables'[r] = tables[r]
  BY <1>3 DEF TypeOK, TypeTables, Used
<1>7. /\ tables'[s][0] = Merged(tables[s][0], tables[s][m])
      /\ \A w \in live[s] : w # 0 => tables'[s][w] = tables[s][w]
      /\ tables[s][0] \in Table /\ tables[s][m] \in Table
  <2>1. tables[s] \in [Threads -> Table] /\ live[s] \subseteq Threads
    BY DEF TypeOK, TypeTables, Used
  <2> QED BY <1>4, <1>6, <2>1
<1>8. \A e \in EdgeIds : tables'[s][0][e] = tables[s][0][e] + tables[s][m][e]
  BY <1>7 DEF Merged
<1>9. ASSUME TableOK(s) PROVE TableOK(s)'
  <2>1. \A w \in live[s], e \in EdgeIds : tables[s][w][e] \in {0, 1}
    BY <1>9 DEF TableOK
  <2>2. \A w, x \in live[s], e \in EdgeIds :
          w # x => tables[s][w][e] = 0 \/ tables[s][x][e] = 0
    BY <1>9 DEF TableOK
  <2>3. \A e \in EdgeIds :
          /\ tables'[s][0][e] \in {0, 1}
          /\ tables'[s][0][e] = 1 <=> tables[s][0][e] = 1 \/ tables[s][m][e] = 1
    BY <1>4, <1>8, <2>1, <2>2
  <2>4. \A w \in live'[s], e \in EdgeIds : tables'[s][w][e] \in {0, 1}
    BY <1>6, <1>7, <2>1, <2>3
  <2>5. \A w \in live'[s], e \in EdgeIds : w # 0
          => tables'[s][0][e] = 0 \/ tables'[s][w][e] = 0
    <3> SUFFICES ASSUME NEW w \in live'[s], NEW e \in EdgeIds, w # 0
                 PROVE  tables'[s][0][e] = 0 \/ tables[s][w][e] = 0
      BY <1>6, <1>7
    <3>1. w \in live[s] /\ w # m
      BY <1>6
    <3>2. tables[s][w][e] = 0 \/ (tables[s][0][e] = 0 /\ tables[s][m][e] = 0)
      BY <1>4, <2>2, <3>1
    <3> QED BY <1>8, <3>2
  <2>6. \A w, x \in live'[s], e \in EdgeIds :
          w # x => tables'[s][w][e] = 0 \/ tables'[s][x][e] = 0
    BY <1>6, <1>7, <2>2, <2>5
  <2>7. ASSUME NEW e \in EdgeIds
        PROVE  (\E w \in live'[s] : tables'[s][w][e] = 1)
                 <=> (\E w \in live[s] : tables[s][w][e] = 1)
    <3>1. ASSUME NEW w \in live[s], tables[s][w][e] = 1
          PROVE  \E x \in live'[s] : tables'[s][x][e] = 1
      <4>1. CASE w \in {0, m}
        BY <1>4, <1>6, <2>3, <3>1, <4>1
      <4>2. CASE w \notin {0, m}
        BY <1>6, <1>7, <3>1, <4>2
      <4> QED BY <4>1, <4>2
    <3>2. ASSUME NEW w \in live'[s], tables'[s][w][e] = 1
          PROVE  \E x \in live[s] : tables[s][x][e] = 1
      BY <1>4, <1>6, <1>7, <2>3, <3>2
    <3> QED BY <3>1, <3>2
  <2>8. \A e \in EdgeIds : (\E w \in live'[s] : tables'[s][w][e] = 1)
          <=> e < slot_edges'[s] /\ Combined(s, e)'
    BY <1>1, <1>5, <1>9, <2>7 DEF TableOK
  <2> QED BY <2>4, <2>6, <2>8 DEF TableOK
<1>10. \A r \in Used \ {s} : TableOK(r) => TableOK(r)'
  BY <1>1, <1>5, <1>6, TableQuiet
<1> QED BY <1>1, <1>3, <1>9, <1>10 DEF TableInv

LEMMA TableWrite ==
  ASSUME TypeOK, ControlInv, SlotInv, WinnerInv, WorkerInv, TableInv,
         NEW t \in Threads, Write2(t)
  PROVE  TableInv'
<1>0. PICK s \in Used : s = SlotOf(t)
  BY WorkingSlot DEF Write2
<1>1. ~InPhase1 /\ Used' = Used /\ UNCHANGED <<missing_vertices, slot_edges, vertex>>
  BY WinnerFrame DEF Phase2Step
<1>2. /\ pc[t] = "merge" /\ pc'[t] = "claim" /\ UNCHANGED <<accounted, live, mine>>
      /\ output' = [output EXCEPT ![vertex[s]] = Append(@, tables[s][0])]
      /\ tables' = [tables EXCEPT ![s][0] = EmptyTable]
  BY <1>0 DEF Write2, NextSlot, Goto, TypeOK, TypeControl
<1>3. \A r \in Used : vertex[r] \in AllVertices
  BY RangeAssumption DEF SlotInv, SlotOK, Requested, AllVertices
<1>4. output'[vertex[s]] # <<>>
  BY <1>2, <1>3 DEF TypeOK, TypeOutput
<1>5. \A r \in Used \ {s} : tables'[r] = tables[r] /\ output'[vertex[r]] = output[vertex[r]]
  BY <1>2, <1>3 DEF SlotInv, TypeOK, TypeOutput, TypeTables, Used
<1>6. \A r \in Used : \A e : Combined(r, e)' <=> Combined(r, e)
  <2>1. \A r \in Used : ~At(t, r)' /\ ~At(t, r)
    BY <1>2 DEF At, Working
  <2> QED BY <1>2, <2>1, CombinedFrame DEF Phase2Step
<1>7. \A r \in Used \ {s} : TableOK(r) => TableOK(r)'
  BY <1>1, <1>2, <1>5, <1>6, TableQuiet
<1> QED BY <1>1, <1>4, <1>5, <1>7 DEF TableInv

LEMMA TableCollect ==
  ASSUME TypeOK, ControlInv, Phase1Inv, SlotInv, Collect
  PROVE  TableInv'
<1> SUFFICES ASSUME ~InPhase1', NEW s \in Used' PROVE TableOK(s)'
  BY DEF TableInv
<1>1. FreshSlot(s)' /\ \A t \in Threads : ~At(t, s)'
  BY SlotCollect, PhaseChange
<1>2. slot_next'[s] \in Nat /\ slot_edges'[s] \in Nat
  <2>1. TypeOK'
    BY TypeStep, CollectFacts DEF Next, WorkerInv
  <2> QED BY <2>1 DEF TypeOK, TypeSlots, Used
<1>3. /\ live'[s] = {0} /\ slot_next'[s] <= slot_edges'[s]
      /\ accounted'[s] = 0 .. slot_next'[s] - 1
      /\ \A e \in EdgeIds : tables'[s][0][e] = IF e < slot_next'[s] THEN 1 ELSE 0
  BY <1>1 DEF FreshSlot, Prefix
<1>4. \A e \in EdgeIds : e < slot_edges'[s] /\ Combined(s, e)' <=> e < slot_next'[s]
  BY <1>1, <1>2, <1>3 DEF Combined, EdgeIds
<1> QED BY <1>3, <1>4 DEF TableOK

LEMMA TableStep ==
  ASSUME TypeOK, ControlInv, Phase1Inv, SlotInv, EdgeInv, WinnerInv, WorkerInv, TableInv,
         [Next]_vars
  PROVE  TableInv'
<1>1. ASSUME NEW t \in Threads, Phase1Step(t) PROVE TableInv'
  BY <1>1, Frame1 DEF TableInv
<1>2. ASSUME Return \/ UNCHANGED vars PROVE TableInv'
  <2>1. UNCHANGED <<pc, slots, locals, main_i, missing_vertices, output>>
    BY <1>2 DEF Return, vars, main
  <2>2. UNCHANGED InPhase1 /\ Used' = Used
    BY <2>1 DEF InPhase1, Used
  <2>3. \A s, e : Combined(s, e)' <=> Combined(s, e)
    BY <2>1 DEF Combined, At, Working, SlotOf, slots, locals
  <2> QED BY <2>1, <2>2, <2>3 DEF TableInv, TableOK, slots
<1> QED
  BY <1>1, <1>2, TableSimple, TableAllocate, TableCombine, TableAccount, TableMerge,
     TableWrite, TableCollect
  DEF Next, Phase2Step, Terminated

-----------------------------------------------------------------------------
(* The invariant. *)

LEMMA ControlInit == Init => ControlInv
<1> SUFFICES ASSUME Init PROVE ControlInv
  OBVIOUS
<1> USE ThreadsAssumption
<1>1. LabelInv
  BY DEF Init, LabelInv, InPhase1, Labels1
<1>2. FlagInv
  BY DEF Init, FlagInv, Threads
<1>3. MissingInv
  BY DEF Init, MissingInv, InPhase1, Threads
<1> QED BY <1>1, <1>2, <1>3 DEF ControlInv

LEMMA IInvInit == Init => IInv
<1> SUFFICES ASSUME Init PROVE IInv
  OBVIOUS
<1>1. InPhase1
  BY ThreadsAssumption DEF Init, InPhase1
<1>2. EdgeInv /\ WinnerInv /\ WorkerInv /\ TableInv
  BY <1>1 DEF EdgeInv, WinnerInv, WorkerInv, TableInv
<1> QED
  BY <1>2, TypeInit, ControlInit, CounterInit, Phase1Init, SlotInit DEF IInv

LEMMA IInvStep == ASSUME Headroom, IInv, [Next]_vars PROVE IInv'
<1>1. /\ TypeOK /\ ControlInv /\ CounterInv /\ Phase1Inv /\ SlotInv
      /\ EdgeInv /\ WinnerInv /\ WorkerInv /\ TableInv
  BY DEF IInv
<1>2. TypeOK' /\ ControlInv'
  BY <1>1, TypeStep, LabelStep, FlagStep, MissingStep DEF ControlInv
<1>3. CounterInv' /\ Phase1Inv' /\ SlotInv'
  BY <1>1, CounterStep, Phase1InvStep, SlotStep
<1>4. EdgeInv' /\ WinnerInv' /\ WorkerInv' /\ TableInv'
  BY <1>1, EdgeStep, WinnerStep, WorkerStep, TableStep
<1> QED BY <1>2, <1>3, <1>4 DEF IInv

(* The invariant holds in every state, provided the vertex counter has room *)
(* for the vertices and one more increment per thread.                      *)
THEOREM Invariance == ASSUME Headroom PROVE Spec => []IInv
<1>1. Init => IInv
  BY IInvInit
<1>2. IInv /\ [Next]_vars => IInv'
  BY IInvStep
<1> QED BY <1>1, <1>2, PTL DEF Spec

(* Type correctness, whatever the number of threads and the graph.         *)
THEOREM TypeCorrect == ASSUME Headroom PROVE Spec => []TypeOK
<1>1. IInv => TypeOK
  BY DEF IInv
<1> QED BY <1>1, Invariance, PTL

-----------------------------------------------------------------------------
(* The safety properties. *)

LEMMA ExactlyOnceInv == IInv => ExactlyOnce
<1> SUFFICES ASSUME IInv, NEW v \in AllVertices
             PROVE  \/ output[v] = <<>>
                    \/ v \in Requested /\ output[v] = <<CompleteTable(v)>>
  BY DEF ExactlyOnce
<1>1. VertexOK(v)
  BY DEF IInv, Phase1Inv, VertexInv
<1>2. CASE InPhase1
  <2>1. ASSUME NEW t \in Threads, Holds(t), current_vertex[t] = v PROVE output[v] = <<>>
    BY <1>2, <2>1 DEF IInv, Phase1Inv, HoldInv, HoldOK
  <2>2. ASSUME NEW s \in Used, vertex[s] = v PROVE output[v] = <<>>
    BY <1>2, <2>2 DEF IInv, SlotInv, FreshSlot
  <2> QED BY <1>1, <2>1, <2>2 DEF VertexOK, HandedOut
<1>3. CASE ~InPhase1
  <2>1. ASSUME NEW s \in Used, vertex[s] = v
        PROVE  output[v] = <<>> \/ output[v] = <<CompleteTable(v)>>
    BY <1>3, <2>1 DEF IInv, WinnerInv, WinnerOK
  <2> QED BY <1>1, <1>3, <2>1 DEF VertexOK, HandedOut
<1> QED BY <1>2, <1>3

(* Every vertex is written at most once, complete, and only if requested.  *)
THEOREM WrittenOnce == ASSUME Headroom PROVE Spec => []ExactlyOnce
BY ExactlyOnceInv, Invariance, PTL

LEMMA NothingForgottenInv == IInv => NothingForgotten
<1> SUFFICES ASSUME IInv, returned, NEW v \in Requested PROVE output[v] # <<>>
  BY DEF NothingForgotten
<1> USE DEF IInv
<1>1. ~InPhase1 /\ \A t \in Threads : pc[t] = "done" /\ idx[t] = missing_vertices
  BY DEF ControlInv, MissingInv, LabelInv
<1>2. v \in AllVertices /\ HandedOut(v)
  <2>1. next_vertex > ToVertex /\ next_vertex \in Nat
    BY <1>1 DEF CounterInv, TypeOK, TypeControl
  <2> QED BY <2>1, RangeAssumption DEF Requested, AllVertices, HandedOut
<1>3. \/ output[v] = <<CompleteTable(v)>>
      \/ \E s \in Used : vertex[s] = v
  BY <1>1, <1>2 DEF Phase1Inv, VertexInv, VertexOK
<1>4. ASSUME NEW s \in Used, vertex[s] = v PROVE output[v] = <<CompleteTable(v)>>
  <2>1. Passed(s)
    <3>1. /\ s \in Nat /\ s < missing_vertices /\ missing_vertices \in Nat
          /\ missing_vertices <= NThreads /\ 0 \in Threads
      BY ThreadsAssumption DEF Used, Slots, TypeOK, TypeControl, Threads
    <3>2. (0 + s) % missing_vertices = s
      BY <3>1, ModSmall
    <3>3. s \in 0 .. NThreads /\ s < idx[0]
      BY <1>1, <3>1, ThreadsAssumption
    <3> QED BY <1>1, <3>1, <3>2, <3>3 DEF EdgeInv, PassedInv
  <2>2. \A t \in Threads : ~At(t, s) /\ ~Winner(t, s)
    BY <1>1 DEF At, Working, Winner
  <2>3. AllAccounted(s)
    <3>1. AccountOK(s)
      BY <1>1 DEF EdgeInv, AccountInv
    <3>2. slot_edges[s] \in Nat /\ slot_next[s] \in Nat
      BY WorkingSlot
    <3>3. \A e \in 0 .. slot_edges[s] : e < slot_next[s]
      BY <2>1, <3>2 DEF Passed
    <3> QED BY <2>2, <3>1, <3>3 DEF AccountOK, AllAccounted
  <2>4. WinnerOK(s)
    BY <1>1 DEF WinnerInv
  <2>5. output[vertex[s]] = <<CompleteTable(vertex[s])>>
    BY <2>2, <2>3, <2>4 DEF WinnerOK
  <2> QED BY <1>4, <2>5
<1>5. output[v] = <<CompleteTable(v)>>
  BY <1>3, <1>4
<1>6. Len(output[v]) = 1
  BY <1>5
<1> QED BY <1>6

(* When build() returns, every requested vertex is written.                *)
THEOREM AllWrittenAtReturn == ASSUME Headroom PROVE Spec => []NothingForgotten
BY NothingForgottenInv, Invariance, PTL

LEMMA OwnershipInv == IInv => TableOwnership /\ WinnerAlone
<1> SUFFICES ASSUME IInv PROVE TableOwnership /\ WinnerAlone
  OBVIOUS
<1> USE DEF IInv
<1>1. \A t \in Threads : pc[t] \in {"combine", "next", "merge"} \/ Working(t) => ~InPhase1
  BY InPhase2 DEF Labels2, Working
<1>2. TableOwnership
  BY <1>1 DEF WorkerInv, OwnTableInv, OwnTable, DistinctInv, Filling, TableOwnership
<1>3. ASSUME NEW t \in Threads, pc[t] = "merge"
      PROVE  /\ \A u \in Threads \ {t} :
                  Working(u) \/ pc[u] = "merge" => SlotOf(u) # SlotOf(t)
             /\ {0} \cup (merge_i[t] .. num_workers[SlotOf(t)] - 1) \subseteq live[SlotOf(t)]
  <2>0. PICK s \in Used : s = SlotOf(t)
    BY <1>3, WorkingSlot
  <2>1. Winner(t, s) /\ ~InPhase1
    BY <1>1, <1>3, <2>0 DEF Winner
  <2>2. AllAccounted(s) /\ \A u \in Threads : Winner(u, s) => u = t
    BY <2>1 DEF WinnerInv, WinnerOK
  <2>3. \A u \in Threads : ~At(u, s)
    BY <2>1, <2>2, NotAllAccounted
  <2>4. live[s] = {0} \cup {w \in Threads : merge_i[t] <= w /\ w < num_workers[s]}
        /\ merge_i[t] >= 1
    BY <2>1 DEF WorkerInv, SlotWorkersInv, SlotWorkers
  <2>5. /\ num_workers[s] <= NThreads /\ num_workers[s] \in Nat /\ merge_i[t] \in Nat
        /\ NThreads \in Nat
    BY <2>1, WorkersBounded, WorkingSlot, ThreadsAssumption DEF TypeOK, TypeLocals
  <2>6. merge_i[t] .. num_workers[s] - 1 \subseteq live[s]
    BY <2>4, <2>5 DEF Threads
  <2> QED BY <2>0, <2>2, <2>3, <2>4, <2>6 DEF At, Winner
<1> QED BY <1>2, <1>3 DEF WinnerAlone

(* No two threads touch a table at the same time: workers fill tables of   *)
(* their own, and the thread that merges them is alone on the slot.        *)
THEOREM NoSharedTable ==
  ASSUME Headroom PROVE Spec => [](TableOwnership /\ WinnerAlone)
BY OwnershipInv, Invariance, PTL

LEMMA AssertionsInv == IInv => OutOfVertices /\ SlotsSuffice /\ AccountBounded
<1> SUFFICES ASSUME IInv PROVE OutOfVertices /\ SlotsSuffice /\ AccountBounded
  OBVIOUS
<1> USE DEF IInv
<1>1. 0 \in Threads /\ NThreads \in Nat
  BY ThreadsAssumption DEF Threads
<1>2. (\A t \in Threads : pc[t] = "joined") => InPhase1 /\ \E t \in Threads : Exhausted(t)
  <2>1. pc[0] = "joined" => InPhase1
    BY <1>1, InFirstPhase DEF Labels1
  <2>2. InPhase1 /\ pc[0] = "joined" => terminate_flag[0]
    BY <1>1 DEF ControlInv, FlagInv
  <2>3. InPhase1 /\ terminate_flag[0] => \E t \in Threads : Exhausted(t)
    BY <1>1 DEF ControlInv, FlagInv
  <2> QED BY <1>1, <2>1, <2>2, <2>3
<1>3. OutOfVertices
  BY <1>2 DEF CounterInv, OutOfVertices
<1>4. ASSUME \A t \in Threads : pc[t] = "joined", main_i < NThreads,
             current_vertex[main_i] <= ToVertex
      PROVE  missing_vertices \in Slots
  <2>1. PICK t \in Threads : Exhausted(t)
    BY <1>2, <1>4
  <2>2. main_i \in Nat /\ missing_vertices \in Nat /\ t \in Nat /\ t < NThreads
        /\ missing_vertices <= main_i /\ main_i \in Threads
    BY <1>1, <1>4 DEF TypeOK, TypeControl, Threads, ControlInv, MissingInv
  <2>3. current_vertex[t] > ToVertex /\ t # main_i
    <3>1. current_vertex[t] > ToVertex
      BY <2>1 DEF Exhausted
    <3>2. current_vertex[t] \in Nat /\ ToVertex \in Nat
      BY RangeAssumption DEF TypeOK, TypePhase1
    <3> QED BY <1>4, <3>1, <3>2
  <2>4. t < main_i => missing_vertices < main_i
    BY <2>3 DEF ControlInv, MissingInv
  <2> QED BY <1>1, <1>4, <2>2, <2>3, <2>4 DEF Slots
<1>5. ASSUME NEW s \in Slots, s < missing_vertices
      PROVE  /\ processed_edges[s] <= slot_edges[s] + 1
             /\ processed_edges[s] = Cardinality(accounted[s])
  <2>1. s \in Used /\ slot_edges[s] \in Nat /\ slot_next[s] \in Nat
    BY <1>5, WorkingSlot DEF Used
  <2>2. CASE InPhase1
    <3>1. /\ processed_edges[s] = slot_next[s] /\ slot_next[s] <= slot_edges[s]
          /\ accounted[s] = 0 .. slot_next[s] - 1
      BY <2>1, <2>2 DEF SlotInv, FreshSlot
    <3>2. \A n \in Nat : Cardinality(0 .. n - 1) = n
      BY FS_Interval
    <3> QED BY <2>1, <3>1, <3>2
  <2>3. CASE ~InPhase1
    <3>1. /\ processed_edges[s] = Cardinality(accounted[s])
          /\ accounted[s] \subseteq 0 .. slot_edges[s]
      BY <2>1, <2>3 DEF EdgeInv, AccountInv, AccountOK
    <3>2. /\ IsFiniteSet(0 .. slot_edges[s])
          /\ Cardinality(0 .. slot_edges[s]) = slot_edges[s] + 1
      <4>1. \A n \in Nat : IsFiniteSet(0 .. n) /\ Cardinality(0 .. n) = n + 1
        BY FS_Interval
      <4> QED BY <2>1, <4>1
    <3> QED BY <3>1, <3>2, FS_Subset
  <2> QED BY <2>2, <2>3
<1> QED BY <1>3, <1>4, <1>5 DEF SlotsSuffice, AccountBounded

(* The three assertions of the file never fail.                            *)
THEOREM AssertionsHold ==
  ASSUME Headroom PROVE Spec => [](OutOfVertices /\ SlotsSuffice /\ AccountBounded)
BY AssertionsInv, Invariance, PTL

LEMMA NoTableLeakedInv == IInv => NoTableLeaked
<1> SUFFICES ASSUME IInv, returned, NEW s \in Slots, s < missing_vertices
             PROVE  live[s] = {0}
  BY DEF NoTableLeaked
<1> USE DEF IInv
<1>1. s \in Used /\ ~InPhase1 /\ \A t \in Threads : ~Winner(t, s)
  BY DEF Used, ControlInv, MissingInv, Winner
<1>2. output[vertex[s]] # <<>>
  BY <1>1, NothingForgottenInv DEF NothingForgotten, SlotInv, SlotOK
<1>3. AllAccounted(s)
  BY <1>1, <1>2 DEF WinnerInv, WinnerOK
<1> QED BY <1>1, <1>3 DEF WorkerInv, SlotWorkersInv, SlotWorkers

(* The tables of the workers are all deleted when build() returns.         *)
THEOREM TablesDeleted == ASSUME Headroom PROVE Spec => []NoTableLeaked
BY NoTableLeakedInv, Invariance, PTL

-----------------------------------------------------------------------------
(* The refinement. *)

LEMMA ExactlyOnceNext == IInv' => ExactlyOnce'
BY ExactlyOnceInv, PTL

(* Appending to the empty record of a requested vertex is WriteRecord. *)
LEMMA WriteMaps ==
  ASSUME TypeOK, TypeOK', ExactlyOnce', NEW v \in AllVertices, NEW x,
         output[v] = <<>>, output' = [output EXCEPT ![v] = Append(@, x)]
  PROVE  Abstract!Next
<1>1. output \in [AllVertices -> Seq(Table)]
  BY DEF TypeOK, TypeOutput
<1>2. output'[v] = Append(<<>>, x)
  BY <1>1
<1>3. Len(output'[v]) = 1
  BY <1>2
<1>4. output'[v] # <<>>
  BY <1>3
<1>5. v \in Requested /\ output'[v] = <<CompleteTable(v)>>
  BY <1>4 DEF ExactlyOnce
<1>6. output' = [output EXCEPT ![v] = output'[v]]
  BY <1>1
<1>7. [w \in AllVertices |-> CompleteTable(w)][v] = CompleteTable(v)
  OBVIOUS
<1>8. output' = [output EXCEPT ![v] = <<[w \in AllVertices |-> CompleteTable(w)][v]>>]
  BY <1>5, <1>6, <1>7
<1> QED BY <1>5, <1>8 DEF Abstract!Next, Abstract!WriteRecord

LEMMA StepMaps ==
  ASSUME IInv, IInv', [Next]_vars
  PROVE  [Abstract!Next]_output
<1> USE DEF IInv
<1>1. CASE UNCHANGED vars
  BY <1>1 DEF vars
<1>2. ASSUME NEW t \in Threads, Write1(t) PROVE Abstract!Next
  <2>1. pc[t] = "loop" /\ ~terminate_flag[t] /\ InPhase1
    BY <1>2, NoSlotsYet DEF Write1
  <2>2. Holds(t)
    <3>1. ~(current_vertex[t] > ToVertex)
      BY <2>1 DEF ControlInv, FlagInv
    <3> QED BY <2>1, <3>1, RangeAssumption DEF Holds, TypeOK, TypePhase1
  <2>3. HoldOK(t)
    BY <2>1, <2>2 DEF Phase1Inv, HoldInv
  <2>4. current_vertex[t] \in AllVertices /\ output[current_vertex[t]] = <<>>
    BY <2>3, RangeAssumption DEF HoldOK, Requested, AllVertices
  <2>5. output' = [output EXCEPT ![current_vertex[t]] = Append(@, table[t])]
    BY <1>2 DEF Write1
  <2> QED BY <2>4, <2>5, WriteMaps, ExactlyOnceNext
<1>3. ASSUME NEW t \in Threads, Write2(t) PROVE Abstract!Next
  <2>0. PICK s \in Used : s = SlotOf(t)
    BY <1>3, WorkingSlot DEF Write2
  <2>1. Winner(t, s) /\ ~InPhase1
    BY <1>3, <2>0, InPhase2 DEF Write2, Winner, Labels2
  <2>2. output[vertex[s]] = <<>>
    BY <2>1 DEF WinnerInv, WinnerOK
  <2>3. vertex[s] \in AllVertices
    BY RangeAssumption DEF SlotInv, SlotOK, Requested, AllVertices
  <2>4. output' = [output EXCEPT ![vertex[s]] = Append(@, tables[s][0])]
    BY <1>3, <2>0 DEF Write2
  <2> QED BY <2>2, <2>3, <2>4, WriteMaps, ExactlyOnceNext
<1>4. ASSUME NEW t \in Threads, Phase1Step(t), ~Write1(t) PROVE UNCHANGED output
  BY <1>4 DEF Phase1Step, Fetch, Signal, Leave1, Combine1
<1>5. ASSUME NEW t \in Threads, Phase2Step(t), ~Write2(t) PROVE UNCHANGED output
  BY <1>5 DEF Phase2Step, Claim, Register, Allocate, Combine2, NextEdge, Account,
              Merge, Leave2
<1>6. CASE Collect \/ Return \/ Terminated
  BY <1>6 DEF Collect, Return, Terminated, vars
<1> QED BY <1>1, <1>2, <1>3, <1>4, <1>5, <1>6 DEF Next

(* Every step of the threads is a record of the abstract builder or no     *)
(* change of its output: the safety half of ImplementsBuildSpec.           *)
THEOREM Refines == ASSUME Headroom PROVE Spec => Abstract!Safety
<1>1. Init => Abstract!Init
  BY DEF Init, Abstract!Init
<1>2. IInv /\ IInv' /\ [Next]_vars => [Abstract!Next]_output
  BY StepMaps
<1> QED BY <1>1, <1>2, Invariance, PTL DEF Spec, Abstract!Safety

=============================================================================

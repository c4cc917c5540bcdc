--------------------- MODULE MultithreadNWSBuilderProofs ---------------------
(***************************************************************************)
(* That the worker pool of motivo-nws processes every task it finds, once, *)
(* and leaves no worker asleep next to a task, for every number of         *)
(* workers, every hypergraph and every set of treelets; that when it       *)
(* returns it has found every subtype; and that the signed sum of what it  *)
(* has counted is then, for each vertex, the sum over the vertices that    *)
(* share a hyperedge with it.                                              *)
(*                                                                         *)
(* None of this rests on tasks_in_flight, on which main decides to stop:   *)
(* the workers leave only an empty queue behind, whenever they are told.   *)
(***************************************************************************)
EXTENDS MultithreadNWSBuilder, SequenceTheorems, SumTheorems

Labels == {"wait", "blocked", "taken", "extend", "put", "count", "notify", "exited"}
MainLabels == {"start", "spin", "stop", "notify", "join", "returned"}

TypeControl ==
  /\ pc \in [Workers -> Labels]
  /\ main \in MainLabels /\ shutdown \in BOOLEAN
  /\ waiting = At("blocked")

TypeTasks ==
  /\ work_queue \in Seq(Tasks) /\ visited \subseteq Tasks
  /\ work \in [Workers -> Tasks \cup {NoTask}]
  /\ found \in [Workers -> Tasks \cup {NoTask}]
  /\ next \in [Workers -> SUBSET Tasks]
  /\ processed \in [Tasks -> Nat]
  /\ \A w \in Workers : pc[w] = "taken" => work[w] \in Tasks
  /\ \A w \in Workers : pc[w] = "put" => found[w] \in Tasks

TypeOK == TypeControl /\ TypeTasks

(* A task is in one place: in the queue once, or with one worker.          *)
Holds(w, task) ==
  \/ pc[w] = "taken" /\ work[w] = task
  \/ pc[w] = "put" /\ found[w] = task

Open(task) == task \in visited /\ processed[task] = 0

PlaceInv ==
  /\ \A i, j \in 1 .. Len(work_queue) : work_queue[i] = work_queue[j] => i = j
  /\ \A i \in 1 .. Len(work_queue) : Open(work_queue[i])
  /\ \A w \in Workers : \A task \in Tasks : Holds(w, task) => Open(task)
  /\ \A w \in Workers : \A i \in 1 .. Len(work_queue) : ~Holds(w, work_queue[i])
  /\ \A w, v \in Workers : \A task \in Tasks : Holds(w, task) /\ Holds(v, task) => w = v

(* Every task open is somewhere; the others have been processed once.      *)
OpenInv ==
  /\ \A task \in Tasks : Open(task) =>
       \/ \E i \in 1 .. Len(work_queue) : work_queue[i] = task
       \/ \E w \in Workers : Holds(w, task)
  /\ \A task \in Tasks : processed[task] <= 1 /\ (task \notin visited => processed[task] = 0)
  /\ work_queue # <<>> => \E w \in Workers : pc[w] # "exited"

(* What remains to be visited is with the worker that processed the task.  *)
FrontierInv ==
  /\ Seeds \subseteq visited
  /\ \A w \in Workers : pc[w] \in {"wait", "blocked", "taken", "exited"} => next[w] = {}
  /\ \A task \in Tasks : processed[task] > 0 =>
       \A s \in Successors(task) : s \in visited \/ \E w \in Workers : s \in next[w]
  /\ main = "returned" => \A w \in Workers : pc[w] = "exited"

IInv == TypeOK /\ PlaceInv /\ OpenInv /\ FrontierInv /\ TasksAreAwaited

-----------------------------------------------------------------------------
(* The seeds. *)

LEMMA PoolFacts ==
  /\ Workers # {} /\ IsFiniteSet(Workers)
  /\ IsFiniteSet(Treelets) /\ IsFiniteSet(Hyperedges)
BY PoolAssumption DEF PoolAssumption

LEMMA PairsAreTasks ==
  ASSUME NEW T \in Treelets, NEW E, E \subseteq Hyperedges, E # {}
  PROVE  <<T, E>> \in Tasks
<1>1. E \in (SUBSET Hyperedges) \ {{}}
  OBVIOUS
<1> QED BY <1>1 DEF Tasks

LEMMA SeedsFacts == IsFiniteSet(Seeds) /\ Seeds \subseteq Tasks
<1> DEFINE P == Treelets \X Hyperedges
           f == [x \in P |-> <<x[1], {x[2]}>>]
<1>1. IsFiniteSet(P)
  BY PoolFacts, FS_Product
<1>2. f \in Surjection(P, Seeds)
  <2>1. ASSUME NEW x \in P PROVE f[x] \in Seeds
    BY DEF Seeds
  <2>2. ASSUME NEW s \in Seeds PROVE \E x \in P : f[x] = s
    <3>1. PICK T \in Treelets, e \in Hyperedges : s = <<T, {e}>>
      BY DEF Seeds
    <3>2. <<T, e>> \in P /\ f[<<T, e>>] = s
      BY <3>1
    <3> QED BY <3>2
  <2> HIDE DEF P
  <2>3. f \in [P -> Seeds]
    BY <2>1
  <2> QED BY <2>2, <2>3 DEF Surjection
<1>3. IsFiniteSet(Seeds)
  BY <1>1, <1>2, FS_Surjection
<1>4. Seeds \subseteq Tasks
  <2>1. \A T \in Treelets, e \in Hyperedges : <<T, {e}>> \in Tasks
    BY PairsAreTasks
  <2> QED BY <2>1 DEF Seeds
<1> QED BY <1>3, <1>4

(* SetToSeq lists the elements of a finite set, each once.                 *)
LEMMA ListOfSet ==
  ASSUME NEW S, IsFiniteSet(S)
  PROVE  LET s == SetToSeq(S) IN
         /\ s \in Seq(S)
         /\ \A i, j \in 1 .. Len(s) : s[i] = s[j] => i = j
         /\ \A x \in S : \E i \in 1 .. Len(s) : s[i] = x
<1> DEFINE n == Cardinality(S)
           s == SetToSeq(S)
<1>1. n \in Nat /\ ExistsBijection(1 .. n, S)
  BY FS_CardinalityType
<1>2. \E f \in [1 .. n -> S] : IsInjective(f)
  BY <1>1 DEF ExistsBijection, Bijection, Injection
<1>3. s \in [1 .. n -> S] /\ IsInjective(s)
  BY <1>2 DEF SetToSeq
<1> HIDE DEF n, s
<1>4. s \in Seq(S) /\ Len(s) = n
  BY <1>1, <1>3
<1>5. IsFiniteSet(1 .. n) /\ Cardinality(1 .. n) = n
  <2>1. 1 \in Int /\ n \in Int /\ (IF 1 > n THEN 0 ELSE n - 1 + 1) = n
    BY <1>1
  <2> QED BY <2>1, FS_Interval
<1>6. s \in Injection(1 .. n, S)
  BY <1>3 DEF Injection
<1>7. s \in Surjection(1 .. n, S)
  BY <1>5, <1>6, FS_Injection DEF n
<1> QED BY <1>3, <1>4, <1>7 DEF Surjection, IsInjective, s

(* An extension of a task is a task. *)
LEMMA SuccessorsType == ASSUME NEW task \in Tasks PROVE Successors(task) \subseteq Tasks
<1>1. Treelet(task) \in Treelets /\ Subtype(task) \subseteq Hyperedges
  BY DEF Tasks, Treelet, Subtype
<1>2. \A F \in Extensions(Subtype(task)) : F \subseteq Hyperedges /\ F # {}
  BY <1>1 DEF Extensions
<1>3. \A F \in Extensions(Subtype(task)) : <<Treelet(task), F>> \in Tasks
  BY <1>1, <1>2, PairsAreTasks
<1> QED BY <1>3 DEF Successors

LEMMA InitOK == Init => IInv
<1> SUFFICES ASSUME Init PROVE IInv
  OBVIOUS
<1> USE DEF Init
<1>1. TypeControl
  BY DEF TypeControl, Labels, MainLabels, At
<1>2. /\ work_queue \in Seq(Seeds)
      /\ \A i, j \in 1 .. Len(work_queue) : work_queue[i] = work_queue[j] => i = j
      /\ \A x \in Seeds : \E i \in 1 .. Len(work_queue) : work_queue[i] = x
  BY SeedsFacts, ListOfSet
<1>3. \A i \in 1 .. Len(work_queue) : work_queue[i] \in Seeds
  BY <1>2, ElementOfSeq
<1>4. TypeTasks
  <2>1. work_queue \in Seq(Tasks)
    BY <1>2, SeedsFacts
  <2>2. processed \in [Tasks -> Nat] /\ next \in [Workers -> SUBSET Tasks]
    OBVIOUS
  <2> QED BY <2>1, <2>2, SeedsFacts DEF TypeTasks
<1>5. PlaceInv
  BY <1>2, <1>3, SeedsFacts DEF PlaceInv, Open, Holds
<1>6. OpenInv
  <2>1. \E w \in Workers : pc[w] # "exited"
    BY PoolFacts
  <2> QED BY <1>2, <2>1 DEF OpenInv, Open
<1>7. FrontierInv
  BY DEF FrontierInv
<1>8. TasksAreAwaited
  BY DEF TasksAreAwaited
<1> QED BY <1>1, <1>4, <1>5, <1>6, <1>7, <1>8 DEF IInv, TypeOK

-----------------------------------------------------------------------------
(* Steps that move no task. *)

Idle == {"wait", "blocked", "taken", "exited"}

TaskInv == TypeTasks /\ PlaceInv /\ OpenInv /\ FrontierInv

Quiet ==
  /\ UNCHANGED <<work_queue, visited, work, found, next, processed>>
  /\ \A w \in Workers : (pc'[w] = "taken" <=> pc[w] = "taken") /\ (pc'[w] = "put" <=> pc[w] = "put")
  /\ \A w \in Workers : pc'[w] \in Idle => next[w] = {}
  /\ work_queue # <<>> => \E w \in Workers : pc'[w] # "exited"
  /\ main' = "returned" => \A w \in Workers : pc'[w] = "exited"

LEMMA QuietKeeps == ASSUME TaskInv, Quiet PROVE TaskInv'
<1> USE DEF TaskInv, Quiet
<1>1. TypeTasks'
  BY DEF TypeTasks
<1>2. \A w \in Workers : \A task : Holds(w, task)' <=> Holds(w, task)
  BY DEF Holds
<1>3. \A task : Open(task)' <=> Open(task)
  BY DEF Open
<1>4. PlaceInv'
  <2>1. \A i, j \in 1 .. Len(work_queue') : work_queue'[i] = work_queue'[j] => i = j
    BY DEF PlaceInv
  <2>2. \A i \in 1 .. Len(work_queue') : Open(work_queue[i])'
    BY <1>3 DEF PlaceInv, Open
  <2>3. \A w \in Workers : \A i \in 1 .. Len(work_queue') : ~Holds(w, work_queue[i])'
    BY <1>2 DEF PlaceInv, Holds
  <2> QED BY <1>2, <1>3, <2>1, <2>2, <2>3 DEF PlaceInv
<1>5. OpenInv'
  BY <1>2, <1>3 DEF OpenInv
<1>6. FrontierInv'
  BY DEF FrontierInv, Idle, Successors
<1> QED BY <1>1, <1>4, <1>5, <1>6

(* Main does nothing to the workers but wake them up. *)
LEMMA MainQuiet ==
  ASSUME TypeControl, TaskInv, Main \/ UNCHANGED vars
  PROVE  TypeControl' /\ Quiet
<1> USE DEF vars, queueVars, locals, mainVars
<1>1. CASE Start \/ NotifyAll
  <2>1. /\ pc' = [w \in Workers |-> IF w \in waiting THEN "wait" ELSE pc[w]]
        /\ waiting' = {} /\ main' \in {"spin", "join"} /\ shutdown' = shutdown
        /\ UNCHANGED <<work_queue, visited, work, found, next, processed>>
    BY <1>1 DEF Start, NotifyAll, WakeAll
  <2>2. \A w \in Workers : IF pc[w] = "blocked" THEN pc'[w] = "wait" ELSE pc'[w] = pc[w]
    BY <2>1 DEF TypeControl, At
  <2>3. TypeControl'
    BY <2>1, <2>2 DEF TypeControl, At, Labels, MainLabels
  <2>4. work_queue # <<>> => \E w \in Workers : pc[w] # "exited"
    BY DEF TaskInv, OpenInv
  <2>5. work_queue # <<>> => \E w \in Workers : pc'[w] # "exited"
    BY <2>2, <2>4
  <2>6. \A w \in Workers : pc'[w] \in Idle => next[w] = {}
    BY <2>2 DEF Idle, TaskInv, FrontierInv
  <2> QED BY <2>1, <2>2, <2>3, <2>5, <2>6 DEF Quiet
<1>2. CASE Stop \/ Shutdown \/ Reduce \/ UNCHANGED vars
  <2>1. /\ UNCHANGED <<work_queue, visited, work, found, next, processed, pc, waiting>>
        /\ main' \in MainLabels /\ shutdown' \in BOOLEAN
        /\ main' = "returned" => main = "returned" \/ \A w \in Workers : pc[w] = "exited"
    BY <1>2 DEF Stop, Shutdown, Reduce, TypeControl, MainLabels
  <2>2. TypeControl'
    BY <2>1 DEF TypeControl, At
  <2> QED BY <2>1, <2>2 DEF Quiet, Idle, TaskInv, FrontierInv, OpenInv
<1> QED BY <1>1, <1>2 DEF Main

(* What a worker does besides moving tasks. *)
LEMMA WorkerQuiet ==
  ASSUME TypeControl, TaskInv, NEW w \in Workers,
         Block(w) \/ Exit(w) \/ Finish(w) \/ CountIn(w) \/ Notify(w) \/ SpuriousWakeup(w)
  PROVE  TypeControl' /\ Quiet
<1> USE DEF queueVars, locals, mainVars, Goto
<1>1. main # "returned"
  <2>1. pc[w] # "exited"
    BY DEF Block, Exit, Finish, CountIn, Notify, SpuriousWakeup, TypeControl, At
  <2> QED BY <2>1 DEF TaskInv, FrontierInv
<1>2. /\ UNCHANGED <<work_queue, visited, work, found, next, processed, main, shutdown>>
  BY DEF Block, Exit, Finish, CountIn, Notify, SpuriousWakeup
<1>3. \A v \in Workers : pc[v] \in Idle => next[v] = {}
  BY DEF TaskInv, FrontierInv, Idle
<1>4. work_queue # <<>> => \E v \in Workers : pc[v] # "exited"
  BY DEF TaskInv, OpenInv
<1>5. CASE Exit(w)
  <2>1. pc[w] = "wait" /\ pc' = [pc EXCEPT ![w] = "exited"] /\ work_queue = <<>> /\ waiting' = waiting
    BY <1>5 DEF Exit
  <2>2. TypeControl'
    BY <1>2, <2>1 DEF TypeControl, At, Labels
  <2> QED BY <1>1, <1>2, <1>3, <2>1, <2>2 DEF Quiet, Idle, TypeControl
<1>6. CASE Block(w) \/ Finish(w) \/ CountIn(w) \/ SpuriousWakeup(w)
  <2>1. /\ pc' = [pc EXCEPT ![w] = pc'[w]]
        /\ \/ pc[w] \in {"wait", "blocked"} /\ pc'[w] \in {"wait", "blocked"}
           \/ pc[w] = "extend" /\ pc'[w] = "wait" /\ next[w] = {}
           \/ pc[w] = "count" /\ pc'[w] = "notify"
        /\ waiting' = IF pc'[w] = "blocked" THEN waiting \cup {w} ELSE waiting \ {w}
    BY <1>6 DEF Block, Finish, CountIn, SpuriousWakeup, TypeControl, At
  <2>2. TypeControl'
    BY <1>2, <2>1 DEF TypeControl, At, Labels
  <2>3. \A v \in Workers : pc[v] # "exited" => pc'[v] # "exited"
    BY <2>1 DEF TypeControl
  <2>4. \A v \in Workers : pc'[v] \in Idle => next[v] = {}
    BY <1>3, <2>1 DEF TypeControl, Idle
  <2>5. \A v \in Workers : (pc'[v] = "taken" <=> pc[v] = "taken") /\ (pc'[v] = "put" <=> pc[v] = "put")
    BY <2>1 DEF TypeControl
  <2> QED BY <1>1, <1>2, <1>4, <2>2, <2>3, <2>4, <2>5 DEF Quiet
<1>7. CASE Notify(w)
  <2>1. pc[w] = "notify"
    BY <1>7 DEF Notify
  <2>2. CASE waiting = {} /\ pc' = [pc EXCEPT ![w] = "extend"] /\ UNCHANGED waiting
    <3>1. TypeControl'
      BY <1>2, <2>1, <2>2 DEF TypeControl, At, Labels
    <3> QED BY <1>1, <1>2, <1>3, <1>4, <2>1, <2>2, <3>1 DEF Quiet, Idle, TypeControl
  <2>3. ASSUME NEW u \in waiting, waiting' = waiting \ {u},
               pc' = [pc EXCEPT ![u] = "wait", ![w] = "extend"]
        PROVE  TypeControl' /\ Quiet
    <3>1. u \in Workers /\ pc[u] = "blocked" /\ u # w
      BY <2>1 DEF TypeControl, At
    <3>2. /\ pc'[u] = "wait" /\ pc'[w] = "extend" /\ \A v \in Workers \ {u, w} : pc'[v] = pc[v]
          /\ pc' \in [Workers -> Labels]
      BY <2>3, <3>1 DEF TypeControl, Labels
    <3>3. TypeControl'
      BY <1>2, <2>1, <2>3, <3>1, <3>2 DEF TypeControl, At
    <3>4. \A v \in Workers : pc'[v] \in Idle => next[v] = {}
      BY <1>3, <3>1, <3>2 DEF Idle
    <3>5. \A v \in Workers : (pc'[v] = "taken" <=> pc[v] = "taken") /\ (pc'[v] = "put" <=> pc[v] = "put")
      BY <2>1, <3>1, <3>2
    <3> QED BY <1>1, <1>2, <3>2, <3>3, <3>4, <3>5 DEF Quiet
  <2> QED BY <1>7, <2>2, <2>3 DEF Notify
<1> QED BY <1>5, <1>6, <1>7

-----------------------------------------------------------------------------
(* The steps that move a task: one from the queue to a worker, ...         *)

LEMMA TakeKeeps ==
  ASSUME TypeControl, TaskInv, NEW w \in Workers, Take(w)
  PROVE  TypeControl' /\ TaskInv'
<1> DEFINE n == Len(work_queue)
           h == work_queue[1]
<1> USE DEF TaskInv
<1>1. /\ pc[w] = "wait" /\ work_queue # <<>> /\ pc' = [pc EXCEPT ![w] = "taken"]
      /\ work' = [work EXCEPT ![w] = Head(work_queue)] /\ work_queue' = Tail(work_queue)
      /\ UNCHANGED <<visited, found, next, processed, main, shutdown, waiting>>
  BY DEF Take, Goto, mainVars
<1>2. work_queue \in Seq(Tasks) /\ n \in Nat /\ n > 0 /\ h \in Tasks /\ Head(work_queue) = h
  <2>1. work_queue \in Seq(Tasks) /\ n \in Nat /\ n > 0
    BY <1>1, EmptySeq, LenProperties DEF TypeTasks
  <2> QED BY <2>1, ElementOfSeq
<1>3. /\ work_queue' \in Seq(Tasks) /\ Len(work_queue') = n - 1
      /\ \A i \in 1 .. n - 1 : work_queue'[i] = work_queue[i + 1]
  BY <1>1, <1>2, HeadTailProperties
<1>4. main # "returned"
  BY <1>1 DEF FrontierInv
<1> HIDE DEF n, h
<1>5. pc'[w] = "taken" /\ (\A v \in Workers \ {w} : pc'[v] = pc[v]) /\ pc' \in [Workers -> Labels]
  BY <1>1 DEF TypeControl, Labels
<1>6. work'[w] = h /\ \A v \in Workers \ {w} : work'[v] = work[v]
  BY <1>1, <1>2 DEF TypeTasks
<1>7. TypeControl'
  BY <1>1, <1>5 DEF TypeControl, At
<1>8. TypeTasks'
  BY <1>1, <1>2, <1>3, <1>5, <1>6 DEF TypeTasks
<1>9. \A v \in Workers : \A task : Holds(v, task)' <=> Holds(v, task) \/ (v = w /\ task = h)
  BY <1>1, <1>5, <1>6 DEF Holds
<1>10. \A task : Open(task)' <=> Open(task)
  BY <1>1 DEF Open
<1>11. \A i \in 1 .. n : Open(work_queue[i]) /\ work_queue[i] \in Tasks
  BY <1>2, ElementOfSeq DEF PlaceInv, n
<1>12. 1 \in 1 .. n /\ h = work_queue[1]
  BY <1>2 DEF h
<1>13. PlaceInv'
  <2>1. \A i, j \in 1 .. n - 1 : work_queue'[i] = work_queue'[j] => i = j
    BY <1>2, <1>3 DEF PlaceInv, n
  <2>2. \A i \in 1 .. n - 1 : Open(work_queue'[i])
    BY <1>2, <1>3, <1>11
  <2>3. \A i \in 1 .. n - 1 : work_queue'[i] # h
    BY <1>2, <1>3, <1>12 DEF PlaceInv, n
  <2>4. \A v \in Workers : \A i \in 1 .. n - 1 : ~Holds(v, work_queue'[i])
    BY <1>2, <1>3 DEF PlaceInv, n
  <2>5. \A v \in Workers : \A i \in 1 .. n - 1 : ~Holds(v, work_queue[i])'
    <3>1. ASSUME NEW v \in Workers, NEW i \in 1 .. n - 1
          PROVE  Holds(v, work_queue[i])' <=>
                   Holds(v, work_queue'[i]) \/ (v = w /\ work_queue'[i] = h)
      BY <1>1, <1>5, <1>6 DEF Holds
    <3> QED BY <2>3, <2>4, <3>1
  <2>6. \A i \in 1 .. n - 1 : Open(work_queue[i])'
    BY <1>1, <2>2 DEF Open
  <2>7. \A v \in Workers : ~Holds(v, h)
    BY <1>12 DEF PlaceInv, n
  <2>8. \A v, u \in Workers : \A task \in Tasks : Holds(v, task)' /\ Holds(u, task)' => v = u
    BY <1>9, <2>7 DEF PlaceInv
  <2>9. \A v \in Workers : \A task \in Tasks : Holds(v, task)' => Open(task)'
    BY <1>9, <1>10, <1>11, <1>12 DEF PlaceInv
  <2> QED BY <1>3, <2>1, <2>5, <2>6, <2>8, <2>9 DEF PlaceInv
<1>14. OpenInv'
  <2>1. ASSUME NEW task \in Tasks, Open(task)
        PROVE  \/ \E i \in 1 .. n - 1 : work_queue'[i] = task
               \/ \E v \in Workers : Holds(v, task)'
    <3>1. CASE \E v \in Workers : Holds(v, task)
      BY <1>9, <3>1
    <3>2. ASSUME NEW i \in 1 .. n, work_queue[i] = task
          PROVE  \/ \E j \in 1 .. n - 1 : work_queue'[j] = task
                 \/ \E v \in Workers : Holds(v, task)'
      <4>1. CASE i = 1
        BY <1>9, <1>12, <3>2, <4>1
      <4>2. CASE i # 1
        <5>1. i - 1 \in 1 .. n - 1 /\ (i - 1) + 1 = i
          BY <1>2, <4>2
        <5> QED BY <1>3, <3>2, <5>1
      <4> QED BY <4>1, <4>2
    <3> QED BY <2>1, <3>1, <3>2 DEF OpenInv, n
  <2>2. \E v \in Workers : pc'[v] # "exited"
    BY <1>5
  <2> QED BY <1>1, <1>3, <1>10, <2>1, <2>2 DEF OpenInv
<1>15. FrontierInv'
  BY <1>1, <1>4, <1>5 DEF FrontierInv, Successors
<1> QED BY <1>7, <1>8, <1>13, <1>14, <1>15

(* ... one of a worker that is processed, ... *)
LEMMA BuildKeeps ==
  ASSUME TypeControl, TaskInv, NEW w \in Workers, Build(w)
  PROVE  TypeControl' /\ TaskInv'
<1> DEFINE t == work[w]
<1> USE DEF TaskInv
<1>1. /\ pc[w] = "taken" /\ pc' = [pc EXCEPT ![w] = "extend"]
      /\ next' = [next EXCEPT ![w] = Successors(t)]
      /\ processed' = [processed EXCEPT ![t] = @ + 1]
      /\ UNCHANGED <<work_queue, visited, work, found, main, shutdown, waiting>>
  BY DEF Build, Goto, mainVars, Successors
<1>2. t \in Tasks /\ Holds(w, t)
  BY <1>1 DEF TypeTasks, Holds
<1> HIDE DEF t
<1>3. Open(t) /\ processed[t] = 0 /\ t \in visited
  BY <1>2 DEF PlaceInv, Open
<1>4. pc'[w] = "extend" /\ (\A v \in Workers \ {w} : pc'[v] = pc[v]) /\ pc' \in [Workers -> Labels]
  BY <1>1 DEF TypeControl, Labels
<1>5. /\ processed' \in [Tasks -> Nat] /\ processed'[t] = 1
      /\ \A u \in Tasks \ {t} : processed'[u] = processed[u]
  BY <1>1, <1>2, <1>3 DEF TypeTasks
<1>6. /\ next' \in [Workers -> SUBSET Tasks] /\ next'[w] = Successors(t)
      /\ \A v \in Workers \ {w} : next'[v] = next[v]
  BY <1>1, <1>2, SuccessorsType DEF TypeTasks
<1>7. TypeControl'
  BY <1>1, <1>4 DEF TypeControl, At
<1>8. TypeTasks'
  BY <1>1, <1>4, <1>5, <1>6 DEF TypeTasks
<1>9. \A v \in Workers : \A task : Holds(v, task)' <=> Holds(v, task) /\ v # w
  BY <1>1, <1>4 DEF Holds
<1>10. \A task \in Tasks : Open(task)' <=> Open(task) /\ task # t
  BY <1>1, <1>5 DEF Open
<1>11. \A i \in 1 .. Len(work_queue) : work_queue[i] \in Tasks /\ work_queue[i] # t
  <2>1. \A i \in 1 .. Len(work_queue) : work_queue[i] \in Tasks
    BY ElementOfSeq DEF TypeTasks
  <2> QED BY <1>2, <2>1 DEF PlaceInv
<1>12. PlaceInv'
  <2>1. \A i \in 1 .. Len(work_queue) : Open(work_queue[i])'
    <3>1. \A i \in 1 .. Len(work_queue) : Open(work_queue[i])' <=> (Open(work_queue[i]) /\ work_queue[i] # t)
      BY <1>1, <1>5, <1>11 DEF Open
    <3> QED BY <1>11, <3>1 DEF PlaceInv
  <2>2. \A v \in Workers : \A i \in 1 .. Len(work_queue) : ~Holds(v, work_queue[i])'
    BY <1>1, <1>4 DEF PlaceInv, Holds
  <2>3. \A v \in Workers : \A task \in Tasks : Holds(v, task)' => Open(task)'
    BY <1>2, <1>9, <1>10 DEF PlaceInv
  <2> QED BY <1>1, <1>9, <2>1, <2>2, <2>3 DEF PlaceInv
<1>13. OpenInv'
  <2>1. ASSUME NEW task \in Tasks, Open(task)'
        PROVE  \/ \E i \in 1 .. Len(work_queue) : work_queue[i] = task
               \/ \E v \in Workers : Holds(v, task)'
    <3>1. Open(task) /\ task # t
      BY <1>10, <2>1
    <3>2. \A v \in Workers : Holds(v, task) => v # w
      BY <1>1, <3>1 DEF Holds, t
    <3> QED BY <1>9, <3>1, <3>2 DEF OpenInv
  <2>2. \A task \in Tasks : processed'[task] <= 1 /\ (task \notin visited' => processed'[task] = 0)
    BY <1>1, <1>3, <1>5 DEF OpenInv
  <2> QED BY <1>1, <1>4, <2>1, <2>2 DEF OpenInv
<1>14. FrontierInv'
  <2>1. next[w] = {} /\ main # "returned"
    BY <1>1 DEF FrontierInv
  <2>2. ASSUME NEW task \in Tasks, processed'[task] > 0, NEW s \in Successors(task)
        PROVE  s \in visited \/ \E v \in Workers : s \in next'[v]
    <3>1. CASE task = t
      BY <1>6, <2>2, <3>1
    <3>2. CASE task # t
      <4>1. s \in visited \/ \E v \in Workers : s \in next[v]
        BY <1>5, <2>2, <3>2 DEF FrontierInv
      <4> QED BY <1>6, <2>1, <4>1
    <3> QED BY <3>1, <3>2
  <2> QED BY <1>1, <1>4, <1>6, <2>1, <2>2 DEF FrontierInv, Successors
<1> QED BY <1>7, <1>8, <1>12, <1>13, <1>14

(* ... a new one that a worker has found, ... *)
LEMMA VisitKeeps ==
  ASSUME TypeControl, TaskInv, NEW w \in Workers, Visit(w)
  PROVE  TypeControl' /\ TaskInv'
<1> USE DEF TaskInv
<1>1. /\ pc[w] = "extend"
      /\ UNCHANGED <<work_queue, work, processed, main, shutdown, waiting>>
  BY DEF Visit, mainVars
<1>2. PICK t \in next[w] :
        /\ next' = [next EXCEPT ![w] = @ \ {t}]
        /\ IF t \in visited
             THEN UNCHANGED <<pc, visited, found>>
             ELSE /\ visited' = visited \cup {t}
                  /\ found' = [found EXCEPT ![w] = t]
                  /\ pc' = [pc EXCEPT ![w] = "put"]
  BY DEF Visit, Goto
<1>3. t \in Tasks /\ main # "returned"
  BY <1>1 DEF TypeTasks, FrontierInv
<1>4. /\ next' \in [Workers -> SUBSET Tasks] /\ next'[w] = next[w] \ {t}
      /\ \A v \in Workers \ {w} : next'[v] = next[v]
  BY <1>2 DEF TypeTasks
<1>5. t \in visited' /\ visited \subseteq visited'
  BY <1>2
<1>6. \A task \in Tasks : processed[task] > 0 =>
        \A s \in Successors(task) : s \in visited' \/ \E v \in Workers : s \in next'[v]
  <2>1. ASSUME NEW task \in Tasks, processed[task] > 0, NEW s \in Successors(task)
        PROVE  s \in visited' \/ \E v \in Workers : s \in next'[v]
    <3>1. s \in visited \/ \E v \in Workers : s \in next[v]
      BY <2>1 DEF FrontierInv
    <3> QED BY <1>4, <1>5, <3>1
  <2> QED BY <2>1
<1>7. CASE t \in visited
  <2>1. UNCHANGED <<pc, visited, found>>
    BY <1>2, <1>7
  <2>2. TypeControl' /\ TypeTasks'
    BY <1>1, <1>4, <2>1 DEF TypeControl, At, TypeTasks
  <2>3. FrontierInv'
    BY <1>1, <1>3, <1>4, <1>6, <2>1 DEF FrontierInv, Successors
  <2>4. PlaceInv' /\ OpenInv'
    BY <1>1, <2>1 DEF PlaceInv, OpenInv, Holds, Open
  <2> QED BY <2>2, <2>3, <2>4
<1>8. CASE t \notin visited
  <2>1. visited' = visited \cup {t} /\ found' = [found EXCEPT ![w] = t]
        /\ pc' = [pc EXCEPT ![w] = "put"]
    BY <1>2, <1>8
  <2>2. pc'[w] = "put" /\ (\A v \in Workers \ {w} : pc'[v] = pc[v]) /\ pc' \in [Workers -> Labels]
    BY <2>1 DEF TypeControl, Labels
  <2>3. found'[w] = t /\ \A v \in Workers \ {w} : found'[v] = found[v]
    BY <2>1 DEF TypeTasks
  <2>4. TypeControl'
    BY <1>1, <2>1, <2>2 DEF TypeControl, At
  <2>5. TypeTasks'
    BY <1>1, <1>3, <1>4, <2>1, <2>2 DEF TypeTasks
  <2>6. \A v \in Workers : \A task : Holds(v, task)' <=> Holds(v, task) \/ (v = w /\ task = t)
    BY <1>1, <2>2, <2>3 DEF Holds
  <2>7. processed[t] = 0
    BY <1>3, <1>8 DEF OpenInv
  <2>8. \A task : Open(task)' <=> Open(task) \/ task = t
    BY <1>1, <2>1, <2>7 DEF Open
  <2>9. \A i \in 1 .. Len(work_queue) : Open(work_queue[i]) /\ work_queue[i] # t
    BY <1>8 DEF PlaceInv, Open
  <2>10. \A v \in Workers : ~Holds(v, t)
    BY <1>3, <1>8 DEF PlaceInv, Open
  <2>11. PlaceInv'
    <3>1. \A i \in 1 .. Len(work_queue) : Open(work_queue[i])'
      BY <1>1, <2>1, <2>9 DEF Open
    <3>2. \A v \in Workers : \A i \in 1 .. Len(work_queue) : ~Holds(v, work_queue[i])'
      <4>1. \A v \in Workers : \A i \in 1 .. Len(work_queue) : ~Holds(v, work_queue[i])
        BY DEF PlaceInv
      <4>2. \A v \in Workers : \A i \in 1 .. Len(work_queue) :
              Holds(v, work_queue[i])' <=> Holds(v, work_queue[i]) \/ (v = w /\ work_queue[i] = t)
        BY <1>1, <2>2, <2>3 DEF Holds
      <4> QED BY <2>9, <4>1, <4>2
    <3>3. \A v, u \in Workers : \A task \in Tasks : Holds(v, task)' /\ Holds(u, task)' => v = u
      BY <2>6, <2>10 DEF PlaceInv
    <3>4. \A v \in Workers : \A task \in Tasks : Holds(v, task)' => Open(task)'
      BY <2>6, <2>8 DEF PlaceInv
    <3> QED BY <1>1, <3>1, <3>2, <3>3, <3>4 DEF PlaceInv
  <2>12. OpenInv'
    <3>1. ASSUME NEW task \in Tasks, Open(task)'
          PROVE  \/ \E i \in 1 .. Len(work_queue) : work_queue[i] = task
                 \/ \E v \in Workers : Holds(v, task)'
      BY <2>6, <2>8, <3>1 DEF OpenInv
    <3>2. \A task \in Tasks : processed[task] <= 1 /\ (task \notin visited' => processed[task] = 0)
      BY <1>5 DEF OpenInv
    <3> QED BY <1>1, <2>2, <3>1, <3>2 DEF OpenInv
  <2>13. FrontierInv'
    BY <1>1, <1>3, <1>4, <1>5, <1>6, <2>2 DEF FrontierInv, Successors
  <2> QED BY <2>4, <2>5, <2>11, <2>12, <2>13
<1> QED BY <1>7, <1>8

(* ... and that one to the queue. *)
LEMMA PutKeeps ==
  ASSUME TypeControl, TaskInv, NEW w \in Workers, Put(w)
  PROVE  TypeControl' /\ TaskInv'
<1> DEFINE n == Len(work_queue)
           t == found[w]
<1> USE DEF TaskInv
<1>1. /\ pc[w] = "put" /\ pc' = [pc EXCEPT ![w] = "count"]
      /\ work_queue' = Append(work_queue, t)
      /\ UNCHANGED <<visited, work, found, next, processed, main, shutdown, waiting>>
  BY DEF Put, Goto, mainVars, locals
<1>2. t \in Tasks /\ Holds(w, t) /\ work_queue \in Seq(Tasks) /\ n \in Nat
  BY <1>1, LenProperties DEF TypeTasks, Holds
<1> HIDE DEF n, t
<1>3. /\ work_queue' \in Seq(Tasks) /\ Len(work_queue') = n + 1 /\ work_queue' # <<>>
      /\ \A i \in 1 .. n : work_queue'[i] = work_queue[i]
      /\ work_queue'[n + 1] = t
  BY <1>1, <1>2, AppendProperties DEF n
<1>4. pc'[w] = "count" /\ (\A v \in Workers \ {w} : pc'[v] = pc[v]) /\ pc' \in [Workers -> Labels]
  BY <1>1 DEF TypeControl, Labels
<1>5. main # "returned"
  BY <1>1 DEF FrontierInv
<1>6. TypeControl'
  BY <1>1, <1>4 DEF TypeControl, At
<1>7. TypeTasks'
  BY <1>1, <1>3, <1>4 DEF TypeTasks
<1>8. \A v \in Workers : \A task : Holds(v, task)' <=> Holds(v, task) /\ v # w
  BY <1>1, <1>4 DEF Holds
<1>9. \A task : Open(task)' <=> Open(task)
  BY <1>1 DEF Open
<1>10. \A i \in 1 .. n : work_queue[i] \in Tasks /\ work_queue[i] # t /\ Open(work_queue[i])
  <2>1. \A i \in 1 .. n : work_queue[i] \in Tasks
    BY <1>2, ElementOfSeq DEF n
  <2> QED BY <1>2, <2>1 DEF PlaceInv, n
<1>11. Open(t)
  BY <1>2 DEF PlaceInv
<1>12. \A v \in Workers : Holds(v, t) => v = w
  BY <1>2 DEF PlaceInv
<1>13. PlaceInv'
  <2>1. \A i, j \in 1 .. n + 1 : work_queue'[i] = work_queue'[j] => i = j
    BY <1>2, <1>3, <1>10 DEF PlaceInv, n
  <2>2. \A i \in 1 .. n + 1 : Open(work_queue'[i])
    BY <1>2, <1>3, <1>10, <1>11
  <2>3. \A i \in 1 .. n + 1 : Open(work_queue[i])'
    BY <1>1, <2>2 DEF Open
  <2>4. \A v \in Workers : \A i \in 1 .. n + 1 : ~(Holds(v, work_queue'[i]) /\ v # w)
    BY <1>2, <1>3, <1>12 DEF PlaceInv, n
  <2>5. \A v \in Workers : \A i \in 1 .. n + 1 :
          Holds(v, work_queue[i])' <=> Holds(v, work_queue'[i]) /\ v # w
    BY <1>1, <1>4 DEF Holds
  <2>6. \A v, u \in Workers : \A task \in Tasks : Holds(v, task)' /\ Holds(u, task)' => v = u
    BY <1>8 DEF PlaceInv
  <2>7. \A v \in Workers : \A task \in Tasks : Holds(v, task)' => Open(task)'
    BY <1>8, <1>9 DEF PlaceInv
  <2> QED BY <1>3, <2>1, <2>3, <2>4, <2>5, <2>6, <2>7 DEF PlaceInv
<1>14. OpenInv'
  <2>1. ASSUME NEW task \in Tasks, Open(task)
        PROVE  \/ \E i \in 1 .. n + 1 : work_queue'[i] = task
               \/ \E v \in Workers : Holds(v, task)'
    <3>1. CASE \E i \in 1 .. n : work_queue[i] = task
      BY <1>2, <1>3, <3>1
    <3>2. ASSUME NEW v \in Workers, Holds(v, task)
          PROVE  \/ \E i \in 1 .. n + 1 : work_queue'[i] = task
                 \/ \E u \in Workers : Holds(u, task)'
      <4>1. CASE v = w
        <5>1. task = t /\ n + 1 \in 1 .. n + 1
          BY <1>1, <1>2, <3>2, <4>1 DEF Holds, t
        <5> QED BY <1>3, <5>1
      <4> QED BY <1>8, <3>2, <4>1
    <3> QED BY <2>1, <3>1, <3>2 DEF OpenInv, n
  <2> QED BY <1>1, <1>3, <1>4, <1>9, <2>1 DEF OpenInv
<1>15. FrontierInv'
  BY <1>1, <1>4, <1>5 DEF FrontierInv, Successors
<1> QED BY <1>6, <1>7, <1>13, <1>14, <1>15

-----------------------------------------------------------------------------
(* The wakeups. *)

(* The workers that will look at the queue without anybody's help.         *)
Awake(f) == {w \in Workers : f[w] \in {"wait", "count", "notify"}}

LEMMA AwakeFinite == ASSUME NEW f PROVE IsFiniteSet(Awake(f)) /\ Cardinality(Awake(f)) \in Nat
<1>1. IsFiniteSet(Awake(f))
  BY PoolFacts, FS_Subset DEF Awake
<1> QED BY <1>1, FS_CardinalityType

LEMMA AwakeIs ==
  /\ At("wait") \cup At("count") \cup At("notify") = Awake(pc)
  /\ (At("wait") \cup At("count") \cup At("notify"))' = Awake(pc')
BY DEF At, Awake

(* If none falls asleep but one, there is at most one fewer.               *)
LEMMA AwakeButOne ==
  ASSUME NEW f, NEW g, NEW w \in Workers,
         \A u \in Workers \ {w} : u \in Awake(f) => u \in Awake(g)
  PROVE  /\ Cardinality(Awake(g)) >= Cardinality(Awake(f)) - 1
         /\ (w \in Awake(f) => w \in Awake(g)) => Cardinality(Awake(g)) >= Cardinality(Awake(f))
         /\ w \notin Awake(f) /\ w \in Awake(g) => Cardinality(Awake(g)) >= Cardinality(Awake(f)) + 1
<1> DEFINE F == Awake(f)
           G == Awake(g)
<1>1. /\ IsFiniteSet(F) /\ IsFiniteSet(G)
      /\ Cardinality(F) \in Nat /\ Cardinality(G) \in Nat
  BY AwakeFinite
<1> HIDE DEF F, G
<1>2. /\ IsFiniteSet(F \ {w})
      /\ Cardinality(F \ {w}) = IF w \in F THEN Cardinality(F) - 1 ELSE Cardinality(F)
  BY <1>1, FS_RemoveElement
<1>3. /\ IsFiniteSet(G \ {w})
      /\ Cardinality(G \ {w}) = IF w \in G THEN Cardinality(G) - 1 ELSE Cardinality(G)
  BY <1>1, FS_RemoveElement
<1>4. F \ {w} \subseteq G \ {w}
  BY DEF F, G, Awake
<1>5. Cardinality(F \ {w}) <= Cardinality(G \ {w})
  BY <1>3, <1>4, FS_Subset
<1>6. /\ Cardinality(G) >= Cardinality(F) - 1
      /\ (w \in F => w \in G) => Cardinality(G) >= Cardinality(F)
      /\ w \notin F /\ w \in G => Cardinality(G) >= Cardinality(F) + 1
  BY <1>1, <1>2, <1>3, <1>5
<1> QED BY <1>6 DEF F, G

Awaited(f) == Len(work_queue) <= Cardinality(Awake(f))

LEMMA AwaitedKept ==
  ASSUME TypeControl, TypeTasks, TasksAreAwaited, [Next]_vars
  PROVE  TasksAreAwaited'
<1> USE DEF vars, queueVars, locals, mainVars, Goto
<1> DEFINE n == Len(work_queue)
           a == Cardinality(Awake(pc))
           b == Cardinality(Awake(pc'))
<1>1. n \in Nat /\ a \in Nat /\ b \in Nat
  BY AwakeFinite, LenProperties DEF TypeTasks
<1>2. waiting # {} /\ ~shutdown => n <= a
  BY AwakeIs DEF TasksAreAwaited
<1>3. SUFFICES ASSUME waiting' # {}, ~shutdown' PROVE Len(work_queue') <= b
  BY AwakeIs DEF TasksAreAwaited
<1> HIDE DEF n, a, b
<1>4. CASE Main \/ Terminated \/ UNCHANGED vars
  <2>1. UNCHANGED <<work_queue, pc, waiting, shutdown>>
    BY <1>3, <1>4 DEF Main, Start, Stop, Shutdown, NotifyAll, Reduce, WakeAll, Terminated
  <2> QED BY <1>2, <1>3, <2>1 DEF n, a, b
<1>5. ASSUME NEW w \in Workers, Block(w) \/ Exit(w)
      PROVE  Len(work_queue') <= b
  <2>1. work_queue' = work_queue /\ work_queue = <<>> /\ (Exit(w) => shutdown /\ shutdown' = shutdown)
    BY <1>5 DEF Block, Exit
  <2>2. Len(work_queue') = 0
    BY <2>1, EmptySeq
  <2> QED BY <1>1, <2>2
<1>6. ASSUME NEW w \in Workers, Take(w)
      PROVE  Len(work_queue') <= b
  <2>1. /\ pc[w] = "wait" /\ pc' = [pc EXCEPT ![w] = "taken"]
        /\ work_queue # <<>> /\ work_queue' = Tail(work_queue)
        /\ waiting' = waiting /\ shutdown' = shutdown
    BY <1>6 DEF Take
  <2>2. Len(work_queue') = n - 1
    BY <2>1, HeadTailProperties DEF TypeTasks, n
  <2>3. b >= a - 1
    <3>1. \A u \in Workers \ {w} : u \in Awake(pc) => u \in Awake(pc')
      BY <2>1 DEF Awake, TypeControl
    <3> QED BY <3>1, AwakeButOne DEF a, b
  <2> QED BY <1>1, <1>2, <1>3, <2>1, <2>2, <2>3
<1>7. ASSUME NEW w \in Workers, Put(w)
      PROVE  Len(work_queue') <= b
  <2>1. /\ pc[w] = "put" /\ pc' = [pc EXCEPT ![w] = "count"]
        /\ work_queue' = Append(work_queue, found[w])
        /\ waiting' = waiting /\ shutdown' = shutdown
    BY <1>7 DEF Put
  <2>2. Len(work_queue') = n + 1
    BY <2>1, <1>7, AppendProperties DEF TypeTasks, n
  <2>3. b >= a + 1
    <3>1. \A u \in Workers \ {w} : u \in Awake(pc) => u \in Awake(pc')
      BY <2>1 DEF Awake, TypeControl
    <3>2. w \notin Awake(pc) /\ w \in Awake(pc')
      BY <2>1 DEF Awake, TypeControl
    <3> QED BY <3>1, <3>2, AwakeButOne DEF a, b
  <2> QED BY <1>1, <1>2, <1>3, <2>1, <2>2, <2>3
<1>8. ASSUME NEW w \in Workers,
             Build(w) \/ Visit(w) \/ Finish(w) \/ CountIn(w) \/ SpuriousWakeup(w)
      PROVE  Len(work_queue') <= b
  <2>1. /\ \A u \in Workers \ {w} : pc'[u] = pc[u]
        /\ pc[w] \in {"taken", "extend", "blocked"} \/ pc'[w] = "notify"
        /\ work_queue' = work_queue
        /\ waiting' \subseteq waiting /\ shutdown' = shutdown
    BY <1>8 DEF Build, Visit, Finish, CountIn, SpuriousWakeup, TypeControl, At
  <2>2. b >= a
    <3>1. \A u \in Workers \ {w} : u \in Awake(pc) => u \in Awake(pc')
      BY <2>1 DEF Awake
    <3>2. w \in Awake(pc) => w \in Awake(pc')
      BY <2>1 DEF Awake
    <3> QED BY <3>1, <3>2, AwakeButOne DEF a, b
  <2> QED BY <1>1, <1>2, <1>3, <2>1, <2>2 DEF n
<1>9. ASSUME NEW w \in Workers, Notify(w)
      PROVE  Len(work_queue') <= b
  <2>1. pc[w] = "notify" /\ work_queue' = work_queue /\ shutdown' = shutdown
    BY <1>9 DEF Notify
  <2>2. PICK u \in waiting :
          waiting' = waiting \ {u} /\ pc' = [pc EXCEPT ![u] = "wait", ![w] = "extend"]
    BY <1>3, <1>9 DEF Notify
  <2> DEFINE f == [pc EXCEPT ![w] = "extend"]
             c == Cardinality(Awake(f))
  <2>3. u \in Workers /\ pc[u] = "blocked" /\ u # w
    BY <2>1 DEF TypeControl, At
  <2>4. \A v \in Workers \ {w} : v \in Awake(pc) => v \in Awake(f)
    BY DEF Awake, TypeControl
  <2>5. /\ \A v \in Workers \ {u} : v \in Awake(f) => v \in Awake(pc')
        /\ u \notin Awake(f) /\ u \in Awake(pc')
    BY <2>2, <2>3 DEF Awake, TypeControl
  <2> HIDE DEF f
  <2>6. c >= a - 1 /\ c \in Nat
    BY <2>4, AwakeButOne, AwakeFinite DEF a
  <2>7. b >= c + 1
    BY <2>3, <2>5, AwakeButOne DEF b
  <2> HIDE DEF c
  <2> QED BY <1>1, <1>2, <1>3, <2>1, <2>2, <2>6, <2>7 DEF n
<1> QED BY <1>4, <1>5, <1>6, <1>7, <1>8, <1>9 DEF Next, Worker

-----------------------------------------------------------------------------
(* The theorems. *)

LEMMA NextOK == IInv /\ [Next]_vars => IInv'
<1> SUFFICES ASSUME IInv, [Next]_vars PROVE IInv'
  OBVIOUS
<1>1. TypeControl /\ TypeTasks /\ TaskInv /\ TasksAreAwaited
  BY DEF IInv, TypeOK, TaskInv
<1>2. TasksAreAwaited'
  BY <1>1, AwaitedKept
<1>3. ASSUME Main \/ Terminated \/ UNCHANGED vars
      PROVE  TypeControl' /\ TaskInv'
  BY <1>1, <1>3, MainQuiet, QuietKeeps DEF Terminated
<1>4. ASSUME NEW w \in Workers, Worker(w) \/ SpuriousWakeup(w)
      PROVE  TypeControl' /\ TaskInv'
  <2>1. CASE Take(w) \/ Build(w) \/ Visit(w) \/ Put(w)
    BY <1>1, <2>1, TakeKeeps, BuildKeeps, VisitKeeps, PutKeeps
  <2>2. CASE Block(w) \/ Exit(w) \/ Finish(w) \/ CountIn(w) \/ Notify(w) \/ SpuriousWakeup(w)
    BY <1>1, <2>2, WorkerQuiet, QuietKeeps
  <2> QED BY <1>4, <2>1, <2>2 DEF Worker
<1>5. TypeControl' /\ TaskInv'
  BY <1>3, <1>4 DEF Next
<1> QED BY <1>2, <1>5 DEF IInv, TypeOK, TaskInv

(* The invariant holds in every reachable state. *)
THEOREM PoolInvariant == Spec => []IInv
<1> QED BY InitOK, NextOK, PTL DEF Spec

(* No task is processed twice, whichever workers find it. *)
THEOREM OnceEach == Spec => []ProcessedOnce
<1>1. IInv => ProcessedOnce
  BY DEF IInv, OpenInv, ProcessedOnce
<1> QED BY <1>1, PoolInvariant, PTL

(* Every task found is in the queue or with a worker until it is processed, *)
(* and then some worker has not left, whenever main stops the pool.        *)
THEOREM NothingLost == Spec => []NoTaskLost
<1>1. ASSUME IInv, NEW task \in visited, processed[task] = 0
      PROVE  InHand(task) /\ \E w \in Workers : pc[w] # "exited"
  <2>1. TypeTasks /\ OpenInv /\ task \in Tasks /\ Open(task)
    BY <1>1 DEF IInv, TypeOK, TypeTasks, Open
  <2>2. CASE \E i \in 1 .. Len(work_queue) : work_queue[i] = task
    <3>1. work_queue # <<>>
      BY <2>2, EmptySeq
    <3>2. task \in Range(work_queue)
      BY <2>1, <2>2 DEF Range, TypeTasks
    <3> QED BY <2>1, <3>1, <3>2 DEF OpenInv, InHand
  <2>3. CASE \E w \in Workers : Holds(w, task)
    BY <2>3 DEF Holds, InHand
  <2> QED BY <2>1, <2>2, <2>3 DEF OpenInv
<1>2. IInv => NoTaskLost
  BY <1>1 DEF NoTaskLost
<1> QED BY <1>2, PoolInvariant, PTL

(* No worker is asleep while the queue holds more tasks than are awaited.  *)
THEOREM NoneAsleep == Spec => []TasksAreAwaited
<1>1. IInv => TasksAreAwaited
  BY DEF IInv
<1> QED BY <1>1, PoolInvariant, PTL

(* When build() returns, the pool has processed, once, each seed and each  *)
(* extension of whatever it has processed.                                 *)
THEOREM NothingMissing == Spec => []AllProcessed
<1>1. ASSUME IInv, main = "returned"
      PROVE  /\ Seeds \subseteq visited
             /\ \A task \in visited : processed[task] = 1 /\ Successors(task) \subseteq visited
  <2>1. /\ \A w \in Workers : pc[w] = "exited" /\ next[w] = {}
        /\ Seeds \subseteq visited /\ visited \subseteq Tasks
        /\ processed \in [Tasks -> Nat] /\ work_queue \in Seq(Tasks)
    BY <1>1 DEF IInv, FrontierInv, TypeOK, TypeTasks
  <2>2. work_queue = <<>>
    BY <1>1, <2>1 DEF IInv, OpenInv
  <2>3. \A w \in Workers : \A task : ~Holds(w, task)
    BY <2>1 DEF Holds
  <2>4. \A task \in visited : processed[task] # 0
    <3>1. Len(work_queue) = 0
      BY <2>2, EmptySeq
    <3> QED BY <1>1, <2>1, <2>3, <3>1 DEF IInv, OpenInv, Open
  <2>5. \A task \in visited : processed[task] = 1
    BY <1>1, <2>1, <2>4 DEF IInv, OpenInv
  <2>6. \A task \in visited : Successors(task) \subseteq visited
    BY <1>1, <2>1, <2>5 DEF IInv, FrontierInv
  <2> QED BY <2>1, <2>5, <2>6
<1>2. IInv => AllProcessed
  BY <1>1 DEF AllProcessed
<1> QED BY <1>2, PoolInvariant, PTL

-----------------------------------------------------------------------------
(* Inclusion and exclusion: the sum of what the subtypes contribute.       *)

Subtypes == (SUBSET Hyperedges) \ {{}}

Signed(E, c) == IF Cardinality(E) % 2 = 1 THEN c ELSE -c

(* What NWSBuilder::build adds to the count of x for the subtype E.        *)
Contribution(T, E, x) ==
  IF x \in Common(E) THEN Sign(E) * (SumOver(T, Common(E)) - Count[T][x]) ELSE 0

LEMMA HypergraphFacts ==
  /\ IsFiniteSet(Vertices) /\ IsFiniteSet(Hyperedges)
  /\ IsFiniteSet(SUBSET Hyperedges) /\ IsFiniteSet(Subtypes)
  /\ \A E \in SUBSET Hyperedges : IsFiniteSet(E) /\ Cardinality(E) \in Nat
  /\ \A T \in Treelets : \A v \in Vertices : Count[T][v] \in Nat
  /\ \A E : Common(E) \subseteq Vertices /\ IsFiniteSet(Common(E))
<1>1. IsFiniteSet(Vertices) /\ IsFiniteSet(Hyperedges)
  BY HypergraphAssumption, PoolAssumption DEF HypergraphAssumption, PoolAssumption
<1>2. IsFiniteSet(SUBSET Hyperedges)
  BY <1>1, FS_SUBSET
<1>3. IsFiniteSet(Subtypes)
  BY <1>2, FS_Subset, Subtypes \subseteq SUBSET Hyperedges DEF Subtypes
<1>4. \A E \in SUBSET Hyperedges : IsFiniteSet(E) /\ Cardinality(E) \in Nat
  BY <1>1, FS_Subset, FS_CardinalityType
<1>5. \A T \in Treelets : \A v \in Vertices : Count[T][v] \in Nat
  BY HypergraphAssumption DEF HypergraphAssumption
<1>6. \A E : Common(E) \subseteq Vertices
  BY DEF Common
<1>7. \A E : IsFiniteSet(Common(E))
  BY <1>1, <1>6, FS_Subset
<1> QED BY <1>1, <1>2, <1>3, <1>4, <1>5, <1>6, <1>7

LEMMA SumOverIsSigma == ASSUME NEW T, NEW S PROVE SumOver(T, S) = Sigma(Count[T], S)
BY DEF SumOver, Sigma

LEMMA SignIsSigned ==
  ASSUME NEW E, NEW c \in Int
  PROVE  Sign(E) * c = Signed(E, c) /\ Signed(E, c) \in Int
BY DEF Sign, Signed

(* A hyperedge more or less changes the sign. *)
LEMMA SignAlternates ==
  ASSUME NEW E \in SUBSET Hyperedges, NEW e \in Hyperedges \ E, NEW c \in Int
  PROVE  Signed(E \cup {e}, c) = -Signed(E, c)
<1> DEFINE n == Cardinality(E)
<1>1. IsFiniteSet(E) /\ n \in Nat
  BY HypergraphFacts
<1>2. Cardinality(E \cup {e}) = n + 1
  BY <1>1, FS_AddElement
<1> HIDE DEF n
<1>3. n % 2 = 1 <=> ~((n + 1) % 2 = 1)
  BY <1>1
<1> QED BY <1>2, <1>3 DEF Signed, n

(* All the subsets of a nonempty set cancel; the empty one, which is no    *)
(* subtype, would be subtracted.                                           *)
LEMMA SignsCancel ==
  ASSUME NEW S \in SUBSET Hyperedges, S # {}, NEW c \in Int
  PROVE  Sigma([E \in SUBSET S |-> Signed(E, c)], (SUBSET S) \ {{}}) = c
<1> DEFINE f == [E \in SUBSET S |-> Signed(E, c)]
<1>1. PICK e \in S : TRUE
  OBVIOUS
<1> DEFINE Partner == [E \in SUBSET S |-> IF e \in E THEN E \ {e} ELSE E \cup {e}]
<1>2. IsFiniteSet(SUBSET S)
  BY HypergraphFacts, FS_Subset, FS_SUBSET
<1>3. \A E \in SUBSET S : f[E] = Signed(E, c) /\ f[E] \in Int
  BY SignIsSigned
<1>4. ASSUME NEW E \in SUBSET S
      PROVE  /\ Partner[E] \in SUBSET S /\ Partner[E] # E
             /\ Partner[Partner[E]] = E /\ f[Partner[E]] = -f[E]
  <2>1. CASE e \in E
    <3>1. Partner[E] = E \ {e} /\ E \ {e} \in SUBSET S /\ (E \ {e}) \cup {e} = E
      BY <2>1
    <3>2. Partner[E \ {e}] = E
      BY <3>1
    <3>3. E \ {e} \in SUBSET Hyperedges /\ e \in Hyperedges \ (E \ {e})
      OBVIOUS
    <3>4. Signed(E, c) = -Signed(E \ {e}, c)
      BY <3>1, <3>3, SignAlternates
    <3> QED BY <1>3, <2>1, <3>1, <3>2, <3>4, SignIsSigned
  <2>2. CASE e \notin E
    <3>1. Partner[E] = E \cup {e} /\ E \cup {e} \in SUBSET S /\ (E \cup {e}) \ {e} = E
      BY <1>1, <2>2
    <3>2. Partner[E \cup {e}] = E
      BY <3>1
    <3>3. E \in SUBSET Hyperedges /\ e \in Hyperedges \ E
      BY <1>1, <2>2
    <3>4. Signed(E \cup {e}, c) = -Signed(E, c)
      BY <3>3, SignAlternates
    <3> QED BY <1>3, <2>2, <3>1, <3>2, <3>4
  <2> QED BY <2>1, <2>2
<1> HIDE DEF f, Partner
<1>5. Sigma(f, SUBSET S) = 0
  BY <1>2, <1>3, <1>4, SigmaCancels
<1>6. Sigma(f, SUBSET S) = f[{}] + Sigma(f, (SUBSET S) \ {{}})
  BY <1>2, <1>3, {} \in SUBSET S, SigmaFrom
<1>7. f[{}] = -c
  BY <1>3, FS_EmptySet, {} \in SUBSET S DEF Signed
<1>8. Sigma(f, (SUBSET S) \ {{}}) \in Int
  <2>1. IsFiniteSet((SUBSET S) \ {{}})
    BY <1>2, FS_Subset
  <2> QED BY <1>3, <2>1, SigmaInt
<1> QED BY <1>5, <1>6, <1>7, <1>8 DEF f

(* The subtype E adds, at x, a term for every other vertex that it has.    *)
Term(T, x, E) ==
  [v \in Vertices |->
     IF x \in Common(E) /\ v \in Common(E) /\ v # x THEN Signed(E, Count[T][v]) ELSE 0]

LEMMA TermType ==
  ASSUME NEW T \in Treelets, NEW x \in Vertices, NEW E
  PROVE  \A v \in Vertices : Term(T, x, E)[v] \in Int
BY HypergraphFacts, SignIsSigned DEF Term

LEMMA ContributionIs ==
  ASSUME NEW T \in Treelets, NEW x \in Vertices, NEW E
  PROVE  Contribution(T, E, x) = Sigma(Term(T, x, E), Vertices)
<1> DEFINE f == Term(T, x, E)
           C == Common(E)
           R == C \ {x}
<1>1. /\ IsFiniteSet(Vertices) /\ IsFiniteSet(C) /\ IsFiniteSet(R)
      /\ C \subseteq Vertices /\ R \in SUBSET Vertices
  BY HypergraphFacts, FS_Subset
<1>2. \A v \in Vertices : f[v] \in Int
  BY TermType
<1>3. CASE x \notin C
  <2>1. \A v \in Vertices : f[v] = 0
    BY <1>3 DEF Term
  <2> QED BY <1>1, <1>3, <2>1, SigmaZero DEF Contribution
<1>4. CASE x \in C
  <2>1. \A v \in Vertices \ R : f[v] = 0
    BY DEF Term
  <2>2. \A v \in R : f[v] = Signed(E, Count[T][v])
    BY <1>1, <1>4 DEF Term
  <2> HIDE DEF f
  <2>3. Sigma(f, Vertices) = Sigma(f, R)
    BY <1>1, <1>2, <2>1, SigmaDrop
  <2>4. \A v \in C : Count[T][v] \in Int
    BY <1>1, HypergraphFacts
  <2>5. Sigma(Count[T], C) = Count[T][x] + Sigma(Count[T], R)
    BY <1>1, <1>4, <2>4, SigmaFrom
  <2>6. Sigma(Count[T], R) \in Int /\ Count[T][x] \in Int
    BY <1>1, <1>4, <2>4, SigmaInt
  <2>7. Contribution(T, E, x) = Signed(E, Sigma(Count[T], R))
    <3>1. SumOver(T, C) - Count[T][x] = Sigma(Count[T], R)
      BY <2>5, <2>6, SumOverIsSigma
    <3> QED BY <1>4, <2>6, <3>1, SignIsSigned DEF Contribution
  <2>8. CASE Cardinality(E) % 2 = 1
    <3>1. \A v \in R : f[v] = Count[T][v]
      BY <2>2, <2>8 DEF Signed
    <3>2. Sigma(f, R) = Sigma(Count[T], R)
      BY <1>1, <3>1, SigmaAgrees
    <3> QED BY <2>3, <2>7, <2>8, <3>2 DEF Signed, f
  <2>9. CASE Cardinality(E) % 2 # 1
    <3>1. \A v \in R : Count[T][v] \in Int /\ f[v] = -Count[T][v]
      BY <2>2, <2>4, <2>9 DEF Signed
    <3>2. Sigma(f, R) = -Sigma(Count[T], R)
      BY <1>1, <3>1, SigmaNegated
    <3> QED BY <2>3, <2>7, <2>9, <3>2 DEF Signed, f
  <2> QED BY <2>8, <2>9
<1> QED BY <1>3, <1>4

(* The terms of one vertex, over all the subtypes. *)
LEMMA TermsOfVertex ==
  ASSUME NEW T \in Treelets, NEW x \in Vertices, NEW v \in Vertices
  PROVE  Sigma([E \in Subtypes |-> Term(T, x, E)[v]], Subtypes)
         = IF v \in Neighbours(x) THEN Count[T][v] ELSE 0
<1> DEFINE f == [E \in Subtypes |-> Term(T, x, E)[v]]
           S == {e \in Hyperedges : {x, v} \subseteq Verts[e]}
           P == (SUBSET S) \ {{}}
           c == Count[T][v]
           g == [E \in SUBSET S |-> Signed(E, c)]
<1>1. IsFiniteSet(Subtypes) /\ S \in SUBSET Hyperedges /\ P \in SUBSET Subtypes /\ c \in Int
  BY HypergraphFacts DEF Subtypes
<1>2. \A E \in Subtypes : f[E] \in Int
  BY TermType
<1>3. \A E \in Subtypes : f[E] = IF E \in P /\ v # x THEN Signed(E, c) ELSE 0
  <2>1. ASSUME NEW E \in Subtypes
        PROVE  (x \in Common(E) /\ v \in Common(E)) <=> E \in P
    BY DEF Common, Subtypes
  <2> QED BY <2>1 DEF Term
<1>4. v \in Neighbours(x) <=> v # x /\ S # {}
  BY DEF Neighbours
<1> HIDE DEF f, S, c
<1>5. CASE v = x \/ S = {}
  <2>1. \A E \in Subtypes : f[E] = 0
    BY <1>3, <1>5
  <2> QED BY <1>1, <1>4, <1>5, <2>1, SigmaZero DEF f
<1>6. CASE v # x /\ S # {}
  <2>1. \A E \in Subtypes \ P : f[E] = 0
    BY <1>3
  <2>2. Sigma(f, Subtypes) = Sigma(f, P)
    BY <1>1, <1>2, <2>1, SigmaDrop
  <2>3. \A E \in P : f[E] = g[E]
    BY <1>1, <1>3, <1>6
  <2>4. IsFiniteSet(P)
    BY <1>1, FS_Subset
  <2>5. Sigma(f, P) = Sigma(g, P)
    BY <2>3, <2>4, SigmaAgrees
  <2>6. Sigma(g, P) = c
    BY <1>1, <1>6, SignsCancel
  <2> QED BY <1>4, <1>6, <2>2, <2>5, <2>6 DEF f, c
<1> QED BY <1>5, <1>6

(* Inclusion and exclusion: all the subtypes together count, at x, every   *)
(* vertex that shares a hyperedge with x once.                             *)
LEMMA InclusionExclusionIsExact ==
  ASSUME NEW T \in Treelets, NEW x \in Vertices
  PROVE  Sigma([E \in Subtypes |-> Contribution(T, E, x)], Subtypes)
         = SumOver(T, Neighbours(x))
<1> DEFINE F == [E \in Subtypes |-> Term(T, x, E)]
           N == Neighbours(x)
           rows == [E \in Subtypes |-> Sigma(F[E], Vertices)]
           cols == [v \in Vertices |-> Sigma([E \in Subtypes |-> F[E][v]], Subtypes)]
<1>1. IsFiniteSet(Subtypes) /\ IsFiniteSet(Vertices) /\ N \in SUBSET Vertices /\ IsFiniteSet(N)
  <2>1. N \in SUBSET Vertices
    BY DEF Neighbours
  <2> QED BY <2>1, HypergraphFacts, FS_Subset
<1>2. \A E \in Subtypes : \A v \in Vertices : F[E][v] \in Int
  BY TermType
<1>3. Sigma(rows, Subtypes) = Sigma(cols, Vertices)
  <2> HIDE DEF F
  <2> QED BY <1>1, <1>2, SigmaSwap
<1>4. rows = [E \in Subtypes |-> Contribution(T, E, x)]
  BY ContributionIs
<1>5. \A v \in Vertices : cols[v] = IF v \in N THEN Count[T][v] ELSE 0
  <2>1. \A v \in Vertices : [E \in Subtypes |-> F[E][v]] = [E \in Subtypes |-> Term(T, x, E)[v]]
    OBVIOUS
  <2> QED BY <2>1, TermsOfVertex
<1> HIDE DEF rows, cols, N
<1>6. Sigma(cols, Vertices) = Sigma(cols, N)
  <2>1. /\ \A v \in Vertices : cols[v] \in Int
        /\ \A v \in Vertices \ N : cols[v] = 0
    BY <1>5, HypergraphFacts
  <2> QED BY <1>1, <2>1, SigmaDrop
<1>7. Sigma(cols, N) = Sigma(Count[T], N)
  <2>1. \A v \in N : cols[v] = Count[T][v]
    BY <1>1, <1>5
  <2> QED BY <1>1, <2>1, SigmaAgrees
<1> QED BY <1>3, <1>4, <1>6, <1>7, SumOverIsSigma DEF N

(* A subtype that contributes has two vertices, and so have the subtypes   *)
(* it extends: it is found from one of its hyperedges, adding the others   *)
(* one by one in any order.                                                *)
LEMMA ContributorsAreFound ==
  ASSUME NEW visits, Seeds \subseteq visits,
         \A task \in visits : Successors(task) \subseteq visits,
         NEW T \in Treelets, NEW x \in Vertices,
         NEW D \in Subtypes, Contribution(T, D, x) # 0
  PROVE  <<T, D>> \in visits
<1> DEFINE Bad == {E \in Subtypes : Cardinality(Common(E)) > 1 /\ <<T, E>> \notin visits}
<1>1. Cardinality(Common(D)) > 1
  <2>1. Sigma(Term(T, x, D), Vertices) # 0
    BY ContributionIs
  <2>2. PICK v \in Vertices : Term(T, x, D)[v] # 0
    BY <2>1, HypergraphFacts, SigmaZero
  <2>3. x \in Common(D) /\ v \in Common(D) /\ v # x
    BY <2>2 DEF Term
  <2>4. Cardinality({x, v}) = 2 /\ IsFiniteSet({x, v})
    <3>1. Cardinality({x}) = 1 /\ IsFiniteSet({x}) /\ v \notin {x} /\ {x, v} = {x} \cup {v}
      BY <2>3, FS_Singleton
    <3> QED BY <3>1, FS_AddElement
  <2>5. {x, v} \subseteq Common(D) /\ IsFiniteSet(Common(D))
    BY <2>3, HypergraphFacts
  <2>6. Cardinality({x, v}) <= Cardinality(Common(D)) /\ Cardinality(Common(D)) \in Nat
    BY <2>5, FS_Subset, FS_CardinalityType
  <2> QED BY <2>4, <2>6
<1>2. ASSUME NEW E \in Bad, \A e \in E : E \ {e} \notin Bad PROVE FALSE
  <2>1. /\ E \in SUBSET Hyperedges /\ E # {}
        /\ Cardinality(Common(E)) > 1 /\ <<T, E>> \notin visits
    BY DEF Subtypes
  <2>2. PICK e \in E : TRUE
    BY <2>1
  <2> DEFINE R == E \ {e}
  <2>3. e \in Hyperedges \ R /\ R \cup {e} = E /\ R \in SUBSET Hyperedges
    BY <2>1
  <2>4. R # {}
    <3>1. <<T, {e}>> \in Seeds
      BY <2>3 DEF Seeds
    <3>2. <<T, {e}>> # <<T, E>>
      BY <2>1, <3>1
    <3> QED BY <2>3, <3>2
  <2>5. Common(E) \subseteq Common(R) /\ Common(E) \subseteq Verts[e]
    BY <2>3 DEF Common
  <2>6. Common(E) # {}
    <3>1. Cardinality({}) = 0
      BY FS_EmptySet
    <3>2. ~(0 > 1)
      OBVIOUS
    <3> HIDE DEF R, Bad
    <3> QED BY <2>1, <3>1, <3>2, Zenon
  <2>7. Cardinality(Common(R)) > 1
    <3>1. IsFiniteSet(Common(R)) /\ IsFiniteSet(Common(E))
      BY HypergraphFacts
    <3>2. /\ Cardinality(Common(E)) <= Cardinality(Common(R))
          /\ Cardinality(Common(E)) \in Nat /\ Cardinality(Common(R)) \in Nat
      BY <2>5, <3>1, FS_Subset, FS_CardinalityType
    <3> QED BY <2>1, <3>2
  <2>8. <<T, R>> \in visits
    BY <1>2, <2>3, <2>4, <2>7 DEF Subtypes
  <2>9. E \in Extensions(R)
    <3>1. Verts[e] \cap Common(R) # {}
      BY <2>5, <2>6
    <3> QED BY <2>1, <2>3, <3>1 DEF Extensions
  <2>10. <<T, E>> \in Successors(<<T, R>>)
    BY <2>9 DEF Successors, Treelet, Subtype
  <2> QED BY <2>1, <2>8, <2>10
<1>3. Bad \subseteq SUBSET Hyperedges
  BY DEF Subtypes
<1>4. Bad = {} => <<T, D>> \in visits
  BY <1>1
<1> HIDE DEF Bad
<1> QED BY <1>2, <1>3, <1>4, HypergraphFacts, SmallestSubset

-----------------------------------------------------------------------------
(* The counts of the workers add up to the contributions of the tasks they *)
(* have processed, whoever has processed which.                            *)

WorkersSum(counts, T, x) == Sigma([w \in Workers |-> counts[w][T][x]], Workers)

TasksSum(times, T, x) ==
  Sigma([E \in Subtypes |-> IF times[<<T, E>>] > 0 THEN Contribution(T, E, x) ELSE 0], Subtypes)

CountsType == nws_counts \in [Workers -> [Treelets -> [Vertices -> Int]]]

CountsInv ==
  /\ CountsType
  /\ \A T \in Treelets : \A x \in Vertices :
       WorkersSum(nws_counts, T, x) = TasksSum(processed, T, x)
  /\ main = "returned" =>
       final_counts = [T \in Treelets |-> [x \in Vertices |-> WorkersSum(nws_counts, T, x)]]

LEMMA WorkersSumIs ==
  ASSUME NEW counts, NEW T, NEW x
  PROVE  MapThenSumSet(LAMBDA w : counts[w][T][x], Workers) = WorkersSum(counts, T, x)
<1> DEFINE h == [w \in Workers |-> counts[w][T][x]]
           IsIt(g) == g = [s \in SUBSET Workers |->
                             IF s = {} THEN 0
                             ELSE counts[Pick(s)][T][x] + g[s \ {Pick(s)}]]
<1>1. MapThenSumSet(LAMBDA w : counts[w][T][x], Workers) = (CHOOSE g : IsIt(g))[Workers]
  BY Zenon DEF MapThenSumSet, MapThenFoldSet, Pick
<1>2. ASSUME NEW g PROVE IsIt(g) <=> IsSum(g, h, Workers)
  <2>1. \A s \in SUBSET Workers : s # {} => counts[Pick(s)][T][x] = h[Pick(s)]
    BY PickIn
  <2> HIDE DEF h
  <2> QED BY <2>1 DEF IsSum, SumStep
<1>3. (CHOOSE g : IsIt(g)) = (CHOOSE g : IsSum(g, h, Workers))
  <2> HIDE DEF IsIt, h
  <2> QED BY <1>2
<1>4. WorkersSum(counts, T, x) = Sum(h, Workers)[Workers]
  BY SigmaIsSum DEF WorkersSum
<1> QED BY <1>1, <1>3, <1>4 DEF Sum

LEMMA CountsInit == Init => CountsInv
<1> SUFFICES ASSUME Init PROVE CountsInv
  OBVIOUS
<1> USE DEF Init
<1>1. CountsType
  BY DEF CountsType, Zero
<1>2. ASSUME NEW T \in Treelets, NEW x \in Vertices
      PROVE  WorkersSum(nws_counts, T, x) = TasksSum(processed, T, x)
  <2>1. WorkersSum(nws_counts, T, x) = 0
    <3>1. \A w \in Workers : [v \in Workers |-> nws_counts[v][T][x]][w] = 0
      BY DEF Zero
    <3> QED BY <3>1, PoolFacts, SigmaZero DEF WorkersSum
  <2>2. TasksSum(processed, T, x) = 0
    <3>1. \A E \in Subtypes : ~(processed[<<T, E>>] > 0)
      BY PairsAreTasks DEF Subtypes
    <3>2. \A E \in Subtypes :
            [D \in Subtypes |-> IF processed[<<T, D>>] > 0 THEN Contribution(T, D, x) ELSE 0][E] = 0
      BY <3>1
    <3> QED BY <3>2, HypergraphFacts, SigmaZero DEF TasksSum
  <2> QED BY <2>1, <2>2
<1> QED BY <1>1, <1>2 DEF CountsInv

LEMMA ContributionType ==
  ASSUME NEW T \in Treelets, NEW x \in Vertices, NEW E
  PROVE  Contribution(T, E, x) \in Int
BY ContributionIs, TermType, HypergraphFacts, SigmaInt

(* A task processed adds its contribution to both sums. *)
LEMMA BuildCounts ==
  ASSUME TypeControl, TaskInv, CountsInv, NEW w \in Workers, Build(w)
  PROVE  CountsInv'
<1> DEFINE t == work[w]
           U == Treelet(t)
           D == Subtype(t)
<1>1. /\ pc[w] = "taken" /\ main' = main
      /\ nws_counts' = [nws_counts EXCEPT ![w][U] = Updated(@, U, D)]
      /\ processed' = [processed EXCEPT ![t] = @ + 1]
  BY DEF Build, mainVars
<1>2. t \in Tasks /\ processed[t] = 0 /\ processed \in [Tasks -> Nat]
  BY <1>1 DEF TaskInv, TypeTasks, PlaceInv, Holds, Open
<1>3. U \in Treelets /\ D \in Subtypes /\ t = <<U, D>>
  BY <1>2 DEF Tasks, Treelet, Subtype, Subtypes
<1> HIDE DEF t, U, D
<1>4. main # "returned"
  BY <1>1 DEF TaskInv, FrontierInv
<1>5. ASSUME NEW x \in Vertices
      PROVE  Updated(nws_counts[w][U], U, D)[x] = nws_counts[w][U][x] + Contribution(U, D, x)
  <2>1. nws_counts[w][U][x] \in Int
    BY <1>3 DEF CountsInv, CountsType
  <2> QED BY <2>1 DEF Updated, Contribution
<1>6. /\ \A x \in Vertices :
           nws_counts'[w][U][x] = nws_counts[w][U][x] + Contribution(U, D, x)
      /\ \A v \in Workers, T \in Treelets : \A x \in Vertices :
           v # w \/ T # U => nws_counts'[v][T][x] = nws_counts[v][T][x]
  BY <1>1, <1>3, <1>5 DEF CountsInv, CountsType
<1>7. CountsType'
  <2>1. Updated(nws_counts[w][U], U, D) \in [Vertices -> Int]
    <3>1. \A x \in Vertices : Updated(nws_counts[w][U], U, D)[x] \in Int
      BY <1>3, <1>5, ContributionType DEF CountsInv, CountsType
    <3> QED BY <3>1 DEF Updated
  <2> QED BY <1>1, <1>3, <2>1 DEF CountsInv, CountsType
<1>8. /\ processed'[t] = 1 /\ \A u \in Tasks \ {t} : processed'[u] = processed[u]
  BY <1>1, <1>2
<1>9. ASSUME NEW T \in Treelets, NEW x \in Vertices
      PROVE  WorkersSum(nws_counts', T, x) = TasksSum(processed', T, x)
  <2> DEFINE f == [v \in Workers |-> nws_counts[v][T][x]]
             h == [v \in Workers |-> nws_counts'[v][T][x]]
             Share(times) == [E \in Subtypes |->
                                IF times[<<T, E>>] > 0 THEN Contribution(T, E, x) ELSE 0]
             a == Share(processed)
             b == Share(processed')
  <2>1. /\ WorkersSum(nws_counts, T, x) = Sigma(f, Workers)
        /\ WorkersSum(nws_counts', T, x) = Sigma(h, Workers)
        /\ TasksSum(processed, T, x) = Sigma(a, Subtypes)
        /\ TasksSum(processed', T, x) = Sigma(b, Subtypes)
    BY DEF WorkersSum, TasksSum
  <2>2. Sigma(f, Workers) = Sigma(a, Subtypes)
    BY <2>1 DEF CountsInv
  <2>3. \A v \in Workers : f[v] = nws_counts[v][T][x] /\ h[v] = nws_counts'[v][T][x] /\ f[v] \in Int
    BY DEF CountsInv, CountsType
  <2>4. /\ \A E \in Subtypes : a[E] \in Int
        /\ \A E \in Subtypes : <<T, E>> # t => b[E] = a[E]
    <3>1. \A E \in Subtypes : Contribution(T, E, x) \in Int /\ <<T, E>> \in Tasks
      BY ContributionType, PairsAreTasks DEF Subtypes
    <3> QED BY <1>8, <3>1
  <2>5. T = U => a[D] = 0 /\ b[D] = Contribution(U, D, x)
    BY <1>2, <1>3, <1>8
  <2> HIDE DEF f, h, a, b
  <2>6. CASE T # U
    <3>1. \A v \in Workers : f[v] = h[v]
      BY <1>6, <2>3, <2>6
    <3>2. \A E \in Subtypes : a[E] = b[E]
      BY <1>3, <2>4, <2>6
    <3>3. Sigma(f, Workers) = Sigma(h, Workers)
      BY <3>1, PoolFacts, SigmaAgrees
    <3>4. Sigma(a, Subtypes) = Sigma(b, Subtypes)
      BY <3>2, HypergraphFacts, SigmaAgrees
    <3> QED BY <2>1, <2>2, <3>3, <3>4
  <2>7. CASE T = U
    <3> DEFINE c == Contribution(U, D, x)
    <3>1. c \in Int
      BY <1>3, ContributionType
    <3>2. h[w] = f[w] + c /\ \A v \in Workers \ {w} : h[v] = f[v]
      BY <1>6, <2>3, <2>7
    <3>3. b[D] = a[D] + c /\ \A E \in Subtypes \ {D} : b[E] = a[E]
      BY <1>3, <2>4, <2>5, <2>7, <3>1
    <3> HIDE DEF c
    <3>4. Sigma(h, Workers) = Sigma(f, Workers) + c
      BY <2>3, <3>1, <3>2, PoolFacts, SigmaChange
    <3>5. Sigma(b, Subtypes) = Sigma(a, Subtypes) + c
      BY <1>3, <2>4, <3>1, <3>3, HypergraphFacts, SigmaChange
    <3> QED BY <2>1, <2>2, <3>4, <3>5
  <2> QED BY <2>6, <2>7
<1> QED BY <1>1, <1>4, <1>7, <1>9 DEF CountsInv


(* Main adds up when all the workers have left. *)
LEMMA CountsNext ==
  ASSUME IInv, CountsInv, [Next]_vars
  PROVE  CountsInv'
<1> USE DEF queueVars, locals, mainVars
<1>1. TypeControl /\ TaskInv
  BY DEF IInv, TypeOK, TaskInv
<1>2. ASSUME UNCHANGED <<nws_counts, processed>>,
             (main' = main /\ final_counts' = final_counts) \/ main' # "returned"
      PROVE  CountsInv'
  <2>1. CountsType'
    BY <1>2 DEF CountsInv, CountsType
  <2>2. \A T \in Treelets : \A x \in Vertices :
          WorkersSum(nws_counts', T, x) = TasksSum(processed', T, x)
    BY <1>2 DEF CountsInv
  <2>3. main' = "returned" =>
          final_counts' = [T \in Treelets |-> [x \in Vertices |-> WorkersSum(nws_counts', T, x)]]
    BY <1>2 DEF CountsInv
  <2> QED BY <2>1, <2>2, <2>3 DEF CountsInv
<1>3. ASSUME NEW w \in Workers, Worker(w) \/ SpuriousWakeup(w) PROVE CountsInv'
  <2>1. CASE Build(w)
    BY <1>1, <2>1, BuildCounts
  <2>2. CASE \/ Block(w) \/ Exit(w) \/ Take(w) \/ Visit(w) \/ Finish(w)
             \/ Put(w) \/ CountIn(w) \/ Notify(w) \/ SpuriousWakeup(w)
    <3>1. UNCHANGED <<nws_counts, processed, main, final_counts>>
      BY <2>2 DEF Block, Exit, Take, Visit, Finish, Put, CountIn, Notify, SpuriousWakeup
    <3> QED BY <1>2, <3>1
  <2> QED BY <1>3, <2>1, <2>2 DEF Worker
<1>4. CASE Start \/ Stop \/ Shutdown \/ NotifyAll
  <2>1. UNCHANGED <<nws_counts, processed>> /\ main' # "returned"
    BY <1>4 DEF Start, Stop, Shutdown, NotifyAll
  <2> QED BY <1>2, <2>1
<1>5. CASE Reduce
  <2>1. /\ UNCHANGED <<nws_counts, processed>>
        /\ final_counts' = [T \in Treelets |-> [x \in Vertices |->
                              MapThenSumSet(LAMBDA w : nws_counts[w][T][x], Workers)]]
    BY <1>5 DEF Reduce
  <2>2. final_counts' = [T \in Treelets |-> [x \in Vertices |-> WorkersSum(nws_counts, T, x)]]
    BY <2>1, WorkersSumIs, Zenon
  <2>3. CountsType'
    BY <2>1 DEF CountsInv, CountsType
  <2>4. \A T \in Treelets : \A x \in Vertices :
          WorkersSum(nws_counts', T, x) = TasksSum(processed', T, x)
    BY <2>1 DEF CountsInv
  <2>5. final_counts' = [T \in Treelets |-> [x \in Vertices |-> WorkersSum(nws_counts', T, x)]]
    BY <2>1, <2>2
  <2> QED BY <2>3, <2>4, <2>5 DEF CountsInv
<1>6. CASE Terminated \/ UNCHANGED vars
  BY <1>2, <1>6 DEF Terminated, vars
<1> QED BY <1>3, <1>4, <1>5, <1>6 DEF Next, Main

(* The invariant holds in every reachable state. *)
LEMMA CountsInvariant == Spec => [](IInv /\ CountsInv)
<1>1. Init => IInv /\ CountsInv
  BY InitOK, CountsInit
<1>2. IInv /\ CountsInv /\ [Next]_vars => (IInv /\ CountsInv)'
  BY NextOK, CountsNext
<1> QED BY <1>1, <1>2, PTL DEF Spec

(* NWSBuilder::build, run by any number of workers in any order, writes    *)
(* for each vertex the counts of the vertices it shares a hyperedge with,  *)
(* each once: the terms that are never computed would have been 0.         *)
THEOREM ExactCountsWritten == Spec => []CountsExact
<1>1. ASSUME AllProcessed, CountsInv, IInv, main = "returned"
      PROVE  final_counts = ExactCounts
  <2>1. /\ Seeds \subseteq visited /\ visited \subseteq Tasks
        /\ \A task \in visited : processed[task] = 1 /\ Successors(task) \subseteq visited
        /\ \A task \in Tasks : task \notin visited => processed[task] = 0
    BY <1>1 DEF AllProcessed, IInv, TypeOK, TypeTasks, OpenInv
  <2>2. ASSUME NEW T \in Treelets, NEW x \in Vertices
        PROVE  WorkersSum(nws_counts, T, x) = SumOver(T, Neighbours(x))
    <3> DEFINE a == [E \in Subtypes |->
                       IF processed[<<T, E>>] > 0 THEN Contribution(T, E, x) ELSE 0]
               b == [E \in Subtypes |-> Contribution(T, E, x)]
    <3>1. ASSUME NEW E \in Subtypes PROVE a[E] = b[E]
      <4>1. CASE <<T, E>> \in visited
        BY <2>1, <4>1
      <4>2. CASE <<T, E>> \notin visited
        <5>1. <<T, E>> \in Tasks
          BY PairsAreTasks DEF Subtypes
        <5>2. processed[<<T, E>>] = 0
          BY <2>1, <4>2, <5>1
        <5>3. Contribution(T, E, x) = 0
          BY <2>1, <4>2, ContributorsAreFound
        <5> QED BY <5>2, <5>3
      <4> QED BY <4>1, <4>2
    <3>2. Sigma(a, Subtypes) = Sigma(b, Subtypes)
      <4> HIDE DEF a, b
      <4> QED BY <3>1, HypergraphFacts, SigmaAgrees
    <3>3. WorkersSum(nws_counts, T, x) = Sigma(a, Subtypes)
      BY <1>1 DEF CountsInv, TasksSum
    <3> QED BY <3>2, <3>3, InclusionExclusionIsExact
  <2> QED BY <1>1, <2>2 DEF CountsInv, ExactCounts
<1>2. AllProcessed /\ IInv /\ CountsInv => CountsExact
  BY <1>1 DEF CountsExact
<1> QED BY <1>2, NothingMissing, CountsInvariant, PTL
=============================================================================

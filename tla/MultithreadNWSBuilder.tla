------------------------ MODULE MultithreadNWSBuilder ------------------------
(***************************************************************************)
(* The worker pool of motivo-nws.  The queue holds pairs of a treelet and  *)
(* a subtype; a worker takes one, updates its own counts, enumerates the   *)
(* one-edge extensions of the subtype and puts back those nobody has seen. *)
(* tasks_in_flight goes down when a task is taken and up after a task has  *)
(* been put; main waits for it to be 0, tells the workers to stop, joins   *)
(* them and adds up their counts.                                          *)
(*                                                                         *)
(* The counter is 0 while the last tasks are being processed, and it is    *)
(* taken below 0 (that is, to its largest value) by a worker that takes a  *)
(* task before the one that put it has counted it.                         *)
(***************************************************************************)
EXTENDS InclusionExclusion, SequencesExt

CONSTANTS Workers,  \* the threads of the pool
          Modulus   \* 2^64: tasks_in_flight is a size_t

ASSUME PoolAssumption ==
  /\ Workers # {} /\ IsFiniteSet(Workers)
  /\ IsFiniteSet(Treelets) /\ IsFiniteSet(Hyperedges)
  /\ Modulus \in Nat \ {0}

NoTask == <<>>
Tasks == Treelets \X ((SUBSET Hyperedges) \ {{}})

(* A task and the subtype it stands for. *)
Treelet(task) == task[1]
Subtype(task) == task[2]

VARIABLES
  work_queue, visited, tasks_in_flight, shutdown,
  waiting,      \* the workers blocked on work_condvar
  pc,           \* where every worker is
  main,         \* where main is
  work, found,  \* the task a worker has taken, the one it is about to put
  next,         \* the extensions it has yet to go through
  nws_counts,   \* the counts of every worker
  final_counts, \* the sum of these
  processed     \* history: how many times every task has been processed

queueVars == <<work_queue, visited, tasks_in_flight>>
locals == <<work, found, next, nws_counts, processed>>
mainVars == <<main, shutdown, final_counts>>
vars == <<queueVars, pc, locals, mainVars, waiting>>

Zero == [T \in Treelets |-> [x \in Vertices |-> 0]]

(* The subtypes of one hyperedge, for every treelet. *)
Seeds == {<<T, {e}>> : T \in Treelets, e \in Hyperedges}

Goto(w, label) == pc' = [pc EXCEPT ![w] = label]

(* The constructor seeds the queue, build() starts the workers. *)
Init ==
  /\ work_queue = SetToSeq(Seeds)
  /\ visited = Seeds
  /\ tasks_in_flight = Cardinality(Seeds)
  /\ shutdown = FALSE
  /\ waiting = {}
  /\ pc = [w \in Workers |-> "wait"]
  /\ main = "start"
  /\ work = [w \in Workers |-> NoTask]
  /\ found = [w \in Workers |-> NoTask]
  /\ next = [w \in Workers |-> {}]
  /\ nws_counts = [w \in Workers |-> Zero]
  /\ final_counts = Zero
  /\ processed = [task \in Tasks |-> 0]

-----------------------------------------------------------------------------
(* worker_loop. *)

(* Nothing to do: release work_mutex and block. *)
Block(w) ==
  /\ pc[w] = "wait"
  /\ ~shutdown /\ work_queue = <<>>
  /\ waiting' = waiting \cup {w}
  /\ Goto(w, "blocked")
  /\ UNCHANGED <<queueVars, locals, mainVars>>

(* Mutant: a worker leaves at shutdown whatever is in the queue. *)
ExitAtOnce(w) ==
  /\ pc[w] = "wait"
  /\ shutdown
  /\ Goto(w, "exited")
  /\ UNCHANGED <<queueVars, locals, mainVars, waiting>>

(* Shutdown and nothing in the queue. *)
Exit(w) ==
  /\ pc[w] = "wait"
  /\ shutdown /\ work_queue = <<>>
  /\ Goto(w, "exited")
  /\ UNCHANGED <<queueVars, locals, mainVars, waiting>>

(* Take the task at the front of the queue. *)
Take(w) ==
  /\ pc[w] = "wait"
  /\ work_queue # <<>>
  /\ work' = [work EXCEPT ![w] = Head(work_queue)]
  /\ work_queue' = Tail(work_queue)
  /\ Goto(w, "taken")
  /\ UNCHANGED <<visited, tasks_in_flight, found, next, nws_counts, processed,
                 mainVars, waiting>>

(* tasks_in_flight.fetch_sub(1), on an unsigned counter *)
CountedOut == (tasks_in_flight + Modulus - 1) % Modulus

(* Count it out, update the counts of the worker, list the extensions. *)
Build(w) ==
  /\ pc[w] = "taken"
  /\ tasks_in_flight' = CountedOut
  /\ LET T == Treelet(work[w])
         E == Subtype(work[w]) IN
     /\ nws_counts' = [nws_counts EXCEPT ![w][T] = Updated(@, T, E)]
     /\ next' = [next EXCEPT ![w] = {<<T, F>> : F \in Extensions(E)}]
  /\ processed' = [processed EXCEPT ![work[w]] = @ + 1]
  /\ Goto(w, "extend")
  /\ UNCHANGED <<work_queue, visited, work, found, mainVars, waiting>>

(* Mutant: an extension is put in the queue whether or not it is visited. *)
VisitAgain(w) ==
  /\ pc[w] = "extend"
  /\ \E task \in next[w] :
       /\ next' = [next EXCEPT ![w] = @ \ {task}]
       /\ visited' = visited \cup {task}
       /\ found' = [found EXCEPT ![w] = task]
       /\ Goto(w, "put")
  /\ UNCHANGED <<work_queue, tasks_in_flight, work, nws_counts, processed,
                 mainVars, waiting>>

(* Under visited_mutex: a new extension is to be put in the queue. *)
Visit(w) ==
  /\ pc[w] = "extend"
  /\ \E task \in next[w] :
       /\ next' = [next EXCEPT ![w] = @ \ {task}]
       /\ IF task \in visited
            THEN UNCHANGED <<pc, visited, found>>
            ELSE /\ visited' = visited \cup {task}
                 /\ found' = [found EXCEPT ![w] = task]
                 /\ Goto(w, "put")
  /\ UNCHANGED <<work_queue, tasks_in_flight, work, nws_counts, processed,
                 mainVars, waiting>>

(* Mutant: back to the queue although there are extensions left. *)
FinishEarly(w) ==
  /\ pc[w] = "extend"
  /\ Goto(w, "wait")
  /\ UNCHANGED <<queueVars, locals, mainVars, waiting>>

(* No extension left: back to the queue. *)
Finish(w) ==
  /\ pc[w] = "extend"
  /\ next[w] = {}
  /\ Goto(w, "wait")
  /\ UNCHANGED <<queueVars, locals, mainVars, waiting>>

Put(w) ==
  /\ pc[w] = "put"
  /\ work_queue' = Append(work_queue, found[w])
  /\ Goto(w, "count")
  /\ UNCHANGED <<visited, tasks_in_flight, locals, mainVars, waiting>>

(* Mutant: the tasks put in the queue are not counted. *)
CountForgotten(w) ==
  /\ pc[w] = "count"
  /\ Goto(w, "notify")
  /\ UNCHANGED <<queueVars, locals, mainVars, waiting>>

CountIn(w) ==
  /\ pc[w] = "count"
  /\ tasks_in_flight' = (tasks_in_flight + 1) % Modulus
  /\ Goto(w, "notify")
  /\ UNCHANGED <<work_queue, visited, locals, mainVars, waiting>>

(* Mutant: nobody is notified. *)
NotifyForgotten(w) ==
  /\ pc[w] = "notify"
  /\ Goto(w, "extend")
  /\ UNCHANGED <<queueVars, locals, mainVars, waiting>>

(* work_condvar.notify_one() *)
Notify(w) ==
  /\ pc[w] = "notify"
  /\ \/ /\ waiting = {}
        /\ Goto(w, "extend")
        /\ UNCHANGED waiting
     \/ \E u \in waiting :
          /\ waiting' = waiting \ {u}
          /\ pc' = [pc EXCEPT ![u] = "wait", ![w] = "extend"]
  /\ UNCHANGED <<queueVars, locals, mainVars>>

(* wait() returns although nobody notified the worker. *)
SpuriousWakeup(w) ==
  /\ w \in waiting
  /\ waiting' = waiting \ {w}
  /\ Goto(w, "wait")
  /\ UNCHANGED <<queueVars, locals, mainVars>>

-----------------------------------------------------------------------------
(* build(). *)

WakeAll ==
  /\ waiting' = {}
  /\ pc' = [w \in Workers |-> IF w \in waiting THEN "wait" ELSE pc[w]]

(* notify_all() after the workers are started. *)
Start ==
  /\ main = "start"
  /\ main' = "spin"
  /\ WakeAll
  /\ UNCHANGED <<queueVars, locals, shutdown, final_counts>>

(* The spinning loop finds the counter at 0; shutdown under work_mutex. *)
Stop ==
  /\ main = "spin"
  /\ tasks_in_flight = 0
  /\ main' = "stop"
  /\ UNCHANGED <<queueVars, pc, locals, shutdown, final_counts, waiting>>

Shutdown ==
  /\ main = "stop"
  /\ shutdown' = TRUE
  /\ main' = "notify"
  /\ UNCHANGED <<queueVars, pc, locals, final_counts, waiting>>

NotifyAll ==
  /\ main = "notify"
  /\ main' = "join"
  /\ WakeAll
  /\ UNCHANGED <<queueVars, locals, shutdown, final_counts>>

(* Join the workers, add up their counts, write them. *)
Reduce ==
  /\ main = "join"
  /\ \A w \in Workers : pc[w] = "exited"
  /\ final_counts' = [T \in Treelets |-> [x \in Vertices |->
                        MapThenSumSet(LAMBDA w : nws_counts[w][T][x], Workers)]]
  /\ main' = "returned"
  /\ UNCHANGED <<queueVars, pc, locals, shutdown, waiting>>

-----------------------------------------------------------------------------
Worker(w) ==
  \/ Block(w) \/ Exit(w) \/ Take(w) \/ Build(w) \/ Visit(w) \/ Finish(w)
  \/ Put(w) \/ CountIn(w) \/ Notify(w)

Main == Start \/ Stop \/ Shutdown \/ NotifyAll \/ Reduce

Terminated == main = "returned" /\ UNCHANGED vars

Next ==
  \/ \E w \in Workers : Worker(w) \/ SpuriousWakeup(w)
  \/ Main
  \/ Terminated

(* Every thread that is not blocked is scheduled. *)
Spec ==
  /\ Init /\ [][Next]_vars
  /\ \A w \in Workers : WF_vars(Worker(w))
  /\ WF_vars(Main)

-----------------------------------------------------------------------------
(* Properties. *)

At(label) == {w \in Workers : pc[w] = label}

(* A task is processed at most once, by one worker, although two workers   *)
(* may find it at the same time from different subtypes.                   *)
ProcessedOnce == \A task \in Tasks : processed[task] <= 1

(* A task found is never lost, even when main has seen the counter at 0    *)
(* and stopped the workers before the last subtype was extended: until it  *)
(* is processed, it is in the queue or in the hands of a worker, and some  *)
(* worker has not left.                                                    *)
InHand(task) ==
  \/ task \in Range(work_queue)
  \/ \E w \in Workers : \/ pc[w] = "taken" /\ work[w] = task
                        \/ pc[w] = "put" /\ found[w] = task

NoTaskLost ==
  \A task \in visited :
    processed[task] = 0 => InHand(task) /\ \E w \in Workers : pc[w] # "exited"

(* No worker sleeps next to a task: each task in the queue is matched by a *)
(* notification still to be sent or by a worker about to look.             *)
TasksAreAwaited ==
  waiting # {} /\ ~shutdown =>
    Len(work_queue) <= Cardinality(At("wait") \cup At("count") \cup At("notify"))

(* When build() returns, the pool has processed each seed, and each        *)
(* extension of whatever it has processed, once: the inclusion-exclusion   *)
(* lacks no term and repeats none, although main stops the pool at a       *)
(* counter that is 0 too early.                                            *)
Successors(task) == {<<Treelet(task), F>> : F \in Extensions(Subtype(task))}

AllProcessed ==
  main = "returned" =>
    /\ Seeds \subseteq visited
    /\ \A task \in visited : processed[task] = 1 /\ Successors(task) \subseteq visited

(* Whatever the order in which the tasks were processed and whoever did,   *)
(* the counts written are exact, and so not negative, which build()        *)
(* asserts before it writes them.                                          *)
CountsExact == main = "returned" => final_counts = ExactCounts

Termination == <>(main = "returned")
=============================================================================

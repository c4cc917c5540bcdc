-------------------------- MODULE OccurrenceSampler --------------------------
(***************************************************************************)
(* The thread pool in which motivo-sample draws its samples: the threads   *)
(* take batches of a shared sequence of indices and put one sample per     *)
(* index in a vector of their own; main waits for all of them, or for the  *)
(* time budget to expire, raises every termination flag, joins the threads *)
(* and adds the vectors up.  OccurrenceSampler and OccurrenceStarSampler   *)
(* look at the flag after each sample, HyperOccurrenceSampler before it.   *)
(*                                                                         *)
(* What a sample is does not matter here: a vector is its length.          *)
(***************************************************************************)
EXTENDS DynamicSequencer, FiniteSets, FiniteSetsExt

CONSTANTS num_samples,  \* 0: as many as the time allows
          number_of_threads,
          MinPerThread, \* 10 in the code
          ToMax,        \* sequencer_t::to_max
          Timed,        \* whether time_budget may be finite, may be infinite
          Samplers      \* the samplers whose pool this is

(* Small requests are drawn by fewer threads: ceil(samples/10). *)
PoolSize ==
  IF num_samples # 0 /\ num_samples < MinPerThread * number_of_threads
    THEN (num_samples + MinPerThread - 1) \div MinPerThread
    ELSE number_of_threads

Threads == 0 .. PoolSize - 1
Indices == 0 .. end_exclusive - 1

(* A request without end, or for nothing, returns before the pool starts.  *)
ASSUME SamplerAssumption ==
  /\ num_samples \in Nat /\ number_of_threads \in Nat \ {0}
  /\ MinPerThread \in Nat \ {0} /\ ToMax \in Nat \ {0}
  /\ Timed \subseteq BOOLEAN
  /\ Samplers \subseteq {"OccurrenceSampler", "OccurrenceStarSampler",
                         "HyperOccurrenceSampler"}
  /\ num_samples = 0 => Timed = {TRUE}
  /\ nthreads = PoolSize
  /\ end_exclusive = IF num_samples # 0 THEN num_samples ELSE ToMax

VARIABLES
  sampler, timed,      \* the sampler at work and whether it has a time
                       \* budget, the same for the whole call
  next,                \* the sequencer's
  pc,                  \* where every thread is
  batch, i,            \* its batch and the index it is at
  samples,             \* the length of its vector
  termination_flags, terminated_threads,
                       \* the TimeoutThreadSync
  main,                \* where main is
  flagged,             \* the flags request_termination has raised so far
  table,               \* the number of samples in the table
  sampled, late,       \* history: the indices sampled; the samples a thread
                       \* has drawn with its flag raised
  expired              \* history: the time budget has expired

poolVars == <<pc, batch, i, samples, sampled, late>>
syncVars == <<termination_flags, terminated_threads>>
mainVars == <<main, flagged, table, expired>>
call == <<sampler, timed>>
vars == <<call, next, poolVars, syncVars, mainVars>>

Goto(t, label) == pc' = [pc EXCEPT ![t] = label]

(* HyperOccurrenceSampler looks at the flag before it draws a sample. *)
FlagFirst == sampler = "HyperOccurrenceSampler"
Body == IF FlagFirst THEN "check" ELSE "sample"

Init ==
  /\ sampler \in Samplers /\ timed \in Timed
  /\ next = 0
  /\ pc = [t \in Threads |-> "batch"]
  /\ batch = [t \in Threads |-> [from |-> 0, to |-> 0]]
  /\ i = [t \in Threads |-> 0]
  /\ samples = [t \in Threads |-> 0]
  /\ termination_flags = [t \in Threads |-> FALSE]
  /\ terminated_threads = 0
  /\ main = "wait" /\ flagged = 0 /\ table = 0
  /\ sampled = {} /\ late = [t \in Threads |-> 0]
  /\ expired = FALSE

-----------------------------------------------------------------------------
(* sample_thread. *)

(* next_batch(); an empty batch ends the thread. *)
NextBatch(t) ==
  /\ pc[t] = "batch"
  /\ next' = Advanced(next)
  /\ batch' = [batch EXCEPT ![t] = Batch(next)]
  /\ i' = [i EXCEPT ![t] = next]
  /\ Goto(t, IF IsEmpty(Batch(next)) THEN "signal" ELSE Body)
  /\ UNCHANGED <<call, samples, sampled, late, syncVars, mainVars>>

(* Where the loop over the batch goes from index k: on, or to a new batch. *)
LoopFrom(t, k) == Goto(t, IF k < batch[t].to THEN Body ELSE "batch")

(* sample_one() and push_back(). *)
SampleOne(t) ==
  /\ pc[t] = "sample"
  /\ samples' = [samples EXCEPT ![t] = @ + 1]
  /\ sampled' = sampled \cup {i[t]}
  /\ late' = IF termination_flags[t] THEN [late EXCEPT ![t] = @ + 1] ELSE late
  /\ IF FlagFirst
       THEN /\ i' = [i EXCEPT ![t] = @ + 1]
            /\ LoopFrom(t, i[t] + 1)
       ELSE /\ Goto(t, "check")
            /\ UNCHANGED i
  /\ UNCHANGED <<call, next, batch, syncVars, mainVars>>

(* Mutant: the flag is looked at only at the end of a batch. *)
CheckAtEnd(t) ==
  /\ pc[t] = "check"
  /\ IF termination_flags[t] /\ i[t] + 1 >= batch[t].to
       THEN Goto(t, "signal") /\ UNCHANGED i
       ELSE IF FlagFirst THEN Goto(t, "sample") /\ UNCHANGED i
       ELSE i' = [i EXCEPT ![t] = @ + 1] /\ LoopFrom(t, i[t] + 1)
  /\ UNCHANGED <<call, next, batch, samples, sampled, late, syncVars, mainVars>>

(* Mutant: a thread ends with its first batch. *)
CheckOneBatch(t) ==
  /\ pc[t] = "check"
  /\ i' = [i EXCEPT ![t] = @ + 1]
  /\ Goto(t, IF termination_flags[t] \/ i[t] + 1 >= batch[t].to
               THEN "signal" ELSE "sample")
  /\ UNCHANGED <<call, next, batch, samples, sampled, late, syncVars, mainVars>>

(* if(terminate_flag) *)
Check(t) ==
  /\ pc[t] = "check"
  /\ IF termination_flags[t]
       THEN Goto(t, "signal") /\ UNCHANGED i
       ELSE IF FlagFirst THEN Goto(t, "sample") /\ UNCHANGED i
       ELSE i' = [i EXCEPT ![t] = @ + 1] /\ LoopFrom(t, i[t] + 1)
  /\ UNCHANGED <<call, next, batch, samples, sampled, late, syncVars, mainVars>>

(* Mutant: main is notified of the threads asked for, not of those started. *)
IsLastAsked(n) == n = number_of_threads

IsLast(n) == n = PoolSize

(* signal_termination_one(): the last thread notifies main. *)
Signal(t) ==
  /\ pc[t] = "signal"
  /\ terminated_threads' = terminated_threads + 1
  /\ main' = IF IsLast(terminated_threads + 1) /\ main = "blocked"
               THEN "wait" ELSE main
  /\ Goto(t, "exited")
  /\ UNCHANGED <<call, next, batch, i, samples, sampled, late,
                 termination_flags, flagged, table, expired>>

-----------------------------------------------------------------------------
(* sample(). *)

(* wait() or wait_timeout(): block until every thread has terminated. *)
Wait ==
  /\ main = "wait"
  /\ main' = IF terminated_threads = PoolSize THEN "request" ELSE "blocked"
  /\ UNCHANGED <<call, next, poolVars, syncVars, flagged, table, expired>>

(* wait_for() times out. *)
Timeout ==
  /\ timed /\ main = "blocked"
  /\ main' = "request"
  /\ expired' = TRUE
  /\ UNCHANGED <<call, next, poolVars, syncVars, flagged, table>>

(* wait() returns although nobody notified main. *)
SpuriousWakeup ==
  /\ main = "blocked"
  /\ main' = "wait"
  /\ UNCHANGED <<call, next, poolVars, syncVars, flagged, table, expired>>

(* request_termination(), one flag at a time. *)
Request ==
  /\ main = "request"
  /\ IF flagged < PoolSize
       THEN /\ termination_flags' = [termination_flags EXCEPT ![flagged] = TRUE]
            /\ flagged' = flagged + 1
            /\ UNCHANGED main
       ELSE /\ main' = "join"
            /\ UNCHANGED <<termination_flags, flagged>>
  /\ UNCHANGED <<call, next, poolVars, terminated_threads, table, expired>>

(* Mutant: main does not wait for the threads it has told to stop. *)
NoJoin ==
  /\ main = "join"
  /\ table' = MapThenSumSet(LAMBDA t : samples[t], Threads)
  /\ main' = "returned"
  /\ UNCHANGED <<call, next, poolVars, syncVars, flagged, expired>>

(* Join the threads, add their vectors to the table. *)
Join ==
  /\ main = "join"
  /\ \A t \in Threads : pc[t] = "exited"
  /\ table' = MapThenSumSet(LAMBDA t : samples[t], Threads)
  /\ main' = "returned"
  /\ UNCHANGED <<call, next, poolVars, syncVars, flagged, expired>>

-----------------------------------------------------------------------------
ThreadStep(t) == NextBatch(t) \/ SampleOne(t) \/ Check(t) \/ Signal(t)
MainStep == Wait \/ Request \/ Join

Terminated == main = "returned" /\ UNCHANGED vars

Next ==
  \/ \E t \in Threads : ThreadStep(t)
  \/ MainStep \/ Timeout \/ SpuriousWakeup
  \/ Terminated

(* Every thread runs; a time budget expires if nothing else ends the wait. *)
Spec ==
  /\ Init /\ [][Next]_vars
  /\ \A t \in Threads : WF_vars(ThreadStep(t))
  /\ WF_vars(MainStep) /\ WF_vars(Timeout)

-----------------------------------------------------------------------------
(* Properties. *)

Drawn == MapThenSumSet(LAMBDA t : samples[t], Threads)

(* The batches never overlap and never leave an index out: each index is   *)
(* sampled by one thread, once, whatever the order of the calls of         *)
(* next_batch(), and all those given out and finished have been sampled.   *)
EachIndexOnce ==
  /\ Drawn = Cardinality(sampled)
  /\ (\A t \in Threads : pc[t] = "batch" /\ ~termination_flags[t])
       => sampled = 0 .. next - 1

(* A thread draws at most one more sample once its flag is raised, even    *)
(* with a long batch before it: the time budget is exceeded by no more     *)
(* than that.                                                              *)
StopsPromptly == \A t \in Threads : late[t] <= 1

(* The table is complete when sample() returns: nobody still holds, or is  *)
(* about to add, a sample; and unless the time has expired the table has   *)
(* the number of samples asked for, which AdaptiveSampler asserts.         *)
TableComplete ==
  main = "returned" =>
    /\ \A t \in Threads : pc[t] = "exited"
    /\ table = Drawn
    /\ expired \/ table = end_exclusive

(* The pool implements what the caller of sample() counts on. *)
Abstract == INSTANCE SampleSpec WITH
              Asked <- end_exclusive,
              drawn <- Drawn,
              returned <- (main = "returned")
ImplementsSampleSpec == Abstract!Spec

(* sample() returns, woken by the last thread or by the time budget. *)
Termination == <>(main = "returned")
=============================================================================

----------------------- MODULE OccurrenceSamplerProofs -----------------------
(***************************************************************************)
(* That the sampling pool draws each index once, stops within one sample   *)
(* of the time budget, returns a complete table and implements SampleSpec, *)
(* for every number of threads and of samples and every size of batch.     *)
(***************************************************************************)
EXTENDS OccurrenceSampler, SumTheorems

Labels == {"batch", "sample", "check", "signal", "exited"}
MainLabels == {"wait", "blocked", "request", "join", "returned"}

TypeOK ==
  /\ sampler \in Samplers /\ timed \in Timed
  /\ next \in 0 .. end_exclusive
  /\ pc \in [Threads -> Labels]
  /\ batch \in [Threads -> [from : Nat, to : Nat]]
  /\ i \in [Threads -> Nat]
  /\ samples \in [Threads -> Nat] /\ late \in [Threads -> Nat]
  /\ termination_flags \in [Threads -> BOOLEAN]
  /\ main \in MainLabels
  /\ flagged \in 0 .. PoolSize
  /\ expired \in BOOLEAN

(* The indices of its batch a thread has yet to sample. *)
First(t) == IF pc[t] = "check" /\ ~FlagFirst THEN i[t] + 1 ELSE i[t]
Rest(t) == IF pc[t] \in {"sample", "check"} THEN First(t) .. batch[t].to - 1 ELSE {}

(* The batches given out are the indices below next: each is sampled, with *)
(* one thread, or was left when the time expired.                          *)
Abandoned == expired /\ \E t \in Threads : pc[t] \in {"signal", "exited"} /\ termination_flags[t]

IndexInv ==
  /\ \A t \in Threads : pc[t] \in {"sample", "check"} =>
       i[t] < batch[t].to /\ batch[t].to <= next
  /\ sampled \subseteq 0 .. next - 1
  /\ \A t \in Threads : Rest(t) \cap sampled = {}
  /\ \A t, u \in Threads : t # u => Rest(t) \cap Rest(u) = {}
  /\ \A k \in 0 .. next - 1 : k \in sampled \/ (\E t \in Threads : k \in Rest(t)) \/ Abandoned

CountInv == Drawn = Cardinality(sampled)

(* A flag is raised when the time has expired or nobody is left.           *)
AllExited == \A t \in Threads : pc[t] = "exited"

StopInv ==
  /\ terminated_threads = Cardinality({t \in Threads : pc[t] = "exited"})
  /\ \A t \in Threads : termination_flags[t] => expired \/ AllExited
  /\ main \in {"request", "join", "returned"} => expired \/ AllExited
  /\ \A t \in Threads : pc[t] \in {"signal", "exited"} => expired \/ next = end_exclusive
  /\ main = "returned" => AllExited /\ table = Drawn
  /\ expired => timed

(* A sample drawn late is the last of its thread.                          *)
LateInv ==
  \A t \in Threads :
    /\ late[t] <= 1
    /\ late[t] > 0 => /\ termination_flags[t] /\ pc[t] # "sample"
                      /\ pc[t] = "batch" => FlagFirst

IInv == TypeOK /\ IndexInv /\ CountInv /\ StopInv /\ LateInv

-----------------------------------------------------------------------------
(* The sequencer and the threads. *)

LEMMA PoolFacts ==
  /\ PoolSize \in Nat \ {0} /\ end_exclusive \in Nat \ {0}
  /\ IsFiniteSet(Threads) /\ Cardinality(Threads) = PoolSize /\ Threads # {}
<1>1. PoolSize \in Nat \ {0}
  BY SamplerAssumption, SequencerAssumption DEF SamplerAssumption, SequencerAssumption
<1>2. end_exclusive \in Nat \ {0}
  BY SamplerAssumption DEF SamplerAssumption
<1>3. 0 \in Int /\ PoolSize - 1 \in Int /\ ~(0 > PoolSize - 1) /\ PoolSize - 1 - 0 + 1 = PoolSize
  BY <1>1
<1> HIDE DEF PoolSize
<1>4. IsFiniteSet(Threads) /\ Cardinality(Threads) = PoolSize
  BY <1>3, FS_Interval DEF Threads
<1>5. 0 \in Threads
  BY <1>1 DEF Threads
<1> QED BY <1>1, <1>2, <1>4, <1>5

LEMMA QuotientBound ==
  ASSUME NEW d \in Nat, NEW m \in Nat \ {0}
  PROVE  d \div m \in Nat /\ d \div m <= d
<1> DEFINE q == d \div m
<1>1. q \in Nat /\ d = m * q + (d % m) /\ d % m \in 0 .. m - 1
  BY SMT
<1> HIDE DEF q
<1>2. m * q >= q
  BY <1>1
<1>3. m * q \in Nat
  BY <1>1
<1>4. q <= d
  BY <1>1, <1>2, <1>3
<1> QED BY <1>1, <1>4 DEF q

(* A batch starts at next and ends where the following one starts; it is   *)
(* empty at the end of the range, and only there.                          *)
LEMMA BatchIs ==
  ASSUME NEW n \in 0 .. end_exclusive
  PROVE  /\ Advanced(n) \in 0 .. end_exclusive
         /\ Batch(n) = [from |-> n, to |-> Advanced(n)]
         /\ n < end_exclusive => Advanced(n) > n /\ ~IsEmpty(Batch(n))
         /\ n = end_exclusive => Advanced(n) = n /\ IsEmpty(Batch(n))
<1>1. end_exclusive \in Nat
  BY PoolFacts
<1> DEFINE m == nthreads * BatchesPerThread
           q == (end_exclusive - n) \div m
<1>2. m \in Nat \ {0}
  BY SequencerAssumption DEF SequencerAssumption
<1>3. end_exclusive - n \in Nat
  BY <1>1
<1> HIDE DEF m
<1>4. q \in Nat /\ q <= end_exclusive - n
  BY <1>2, <1>3, QuotientBound
<1>5. Step(n) = IF q < 1 THEN 1 ELSE q
  BY DEF Step, m
<1> HIDE DEF q
<1>6. n < end_exclusive => Step(n) \in Nat /\ Step(n) >= 1 /\ n + Step(n) <= end_exclusive
  BY <1>1, <1>4, <1>5
<1>7. Advanced(n) \in 0 .. end_exclusive /\ (n < end_exclusive => Advanced(n) > n)
      /\ (n = end_exclusive => Advanced(n) = n)
  BY <1>1, <1>6 DEF Advanced
<1>8. Batch(n).to = Advanced(n)
  BY <1>1, <1>6 DEF Batch, Advanced
<1>9. Batch(n) = [from |-> n, to |-> Advanced(n)]
  BY <1>8 DEF Batch
<1> QED BY <1>1, <1>7, <1>9 DEF IsEmpty

LEMMA InitOK == Init => IInv
<1> SUFFICES ASSUME Init PROVE IInv
  OBVIOUS
<1> USE DEF Init
<1>1. TypeOK
  <2>1. 0 \in 0 .. end_exclusive /\ 0 \in 0 .. PoolSize
    BY PoolFacts
  <2>2. batch \in [Threads -> [from : Nat, to : Nat]]
    BY DEF Init
  <2>3. pc \in [Threads -> Labels]
    BY DEF Init, Labels
  <2> QED BY <2>1, <2>2, <2>3 DEF TypeOK, MainLabels
<1>2. IndexInv
  BY DEF IndexInv, Rest
<1>3. CountInv
  <2>1. Sigma(samples, Threads) = 0
    BY PoolFacts, SigmaZero
  <2>2. Drawn = Sigma(samples, Threads)
    BY DEF Drawn, Sigma
  <2> QED BY <2>1, <2>2, FS_EmptySet DEF CountInv
<1>4. StopInv
  <2>1. {t \in Threads : pc[t] = "exited"} = {}
    OBVIOUS
  <2> QED BY <2>1, FS_EmptySet DEF StopInv
<1>5. LateInv
  BY DEF LateInv
<1> QED BY <1>1, <1>2, <1>3, <1>4, <1>5 DEF IInv

-----------------------------------------------------------------------------
(* The steps of a thread. *)

LEMMA Intervals ==
  ASSUME NEW n \in Nat, NEW m \in Nat, n <= m
  PROVE  /\ \A k \in 0 .. n - 1 : k \notin n .. m - 1
         /\ \A k \in 0 .. m - 1 : k \in 0 .. n - 1 \/ k \in n .. m - 1
OBVIOUS

LEMMA DrawnIsSigma == Drawn = Sigma(samples, Threads)
BY DEF Drawn, Sigma

(* What the code of the sampler and the count of the samples depend on.    *)
LEMMA Frames ==
  /\ UNCHANGED sampler => (FlagFirst' <=> FlagFirst) /\ Body' = Body
  /\ Drawn' = Sigma(samples', Threads)
  /\ UNCHANGED samples => Drawn' = Drawn
<1>1. UNCHANGED sampler => (FlagFirst' <=> FlagFirst)
  BY DEF FlagFirst
<1>2. UNCHANGED sampler => Body' = Body
  BY <1>1 DEF Body
<1>3. (Drawn = Sigma(samples, Threads))'
  BY DrawnIsSigma, PTL
<1>4. Drawn' = Sigma(samples', Threads)
  BY <1>3
<1> QED BY <1>1, <1>2, <1>4, DrawnIsSigma

LEMMA SampledFinite == ASSUME IndexInv, TypeOK PROVE IsFiniteSet(sampled)
<1>1. 0 \in Int /\ next - 1 \in Int
  BY PoolFacts DEF TypeOK
<1>2. IsFiniteSet(0 .. next - 1)
  BY <1>1, FS_Interval
<1> QED BY <1>2, FS_Subset DEF IndexInv

LEMMA NextBatchOK ==
  ASSUME IInv, NEW t \in Threads, NextBatch(t)
  PROVE  IInv'
<1> USE DEF IInv
<1>1. /\ pc[t] = "batch"
      /\ next' = Advanced(next)
      /\ batch' = [batch EXCEPT ![t] = Batch(next)]
      /\ i' = [i EXCEPT ![t] = next]
      /\ pc' = [pc EXCEPT ![t] = IF IsEmpty(Batch(next)) THEN "signal" ELSE Body]
      /\ UNCHANGED <<sampler, timed, samples, sampled, late, termination_flags,
                     terminated_threads, main, flagged, table, expired>>
  BY DEF NextBatch, Goto, call, syncVars, mainVars
<1>2. end_exclusive \in Nat /\ next \in 0 .. end_exclusive
  BY PoolFacts DEF TypeOK
<1>3. /\ next' \in 0 .. end_exclusive
      /\ Batch(next) = [from |-> next, to |-> next']
      /\ next < end_exclusive => next' > next /\ ~IsEmpty(Batch(next))
      /\ next = end_exclusive => next' = next /\ IsEmpty(Batch(next))
  BY <1>1, <1>2, BatchIs
<1>4. next \in Nat /\ next' \in Nat /\ next <= next'
  BY <1>2, <1>3
<1>5. Body \in {"check", "sample"}
  BY DEF Body
<1>6. TypeOK'
  <2>1. pc' \in [Threads -> Labels]
    BY <1>1, <1>5 DEF TypeOK, Labels
  <2>2. batch' \in [Threads -> [from : Nat, to : Nat]] /\ i' \in [Threads -> Nat]
    <3>1. next \in Nat /\ next' \in Nat
      BY <1>2, <1>3
    <3>2. Batch(next) \in [from : Nat, to : Nat]
      BY <1>3, <3>1
    <3> QED BY <1>1, <3>1, <3>2 DEF TypeOK
  <2> QED BY <1>1, <1>3, <2>1, <2>2 DEF TypeOK
<1>7. /\ \A u \in Threads \ {t} : pc'[u] = pc[u] /\ i'[u] = i[u] /\ batch'[u] = batch[u]
      /\ pc'[t] = IF next = end_exclusive THEN "signal" ELSE Body
      /\ i'[t] = next /\ batch'[t].to = next'
  BY <1>1, <1>2, <1>3 DEF TypeOK
<1>8. \A u \in Threads \ {t} : Rest(u)' = Rest(u)
  BY <1>1, <1>7, Frames DEF Rest, First
<1>9. Rest(t)' = next .. next' - 1
  <2>1. CASE next = end_exclusive
    <3>1. Rest(t)' = {} /\ next .. next' - 1 = {}
      BY <1>2, <1>3, <1>7, <2>1 DEF Rest
    <3> QED BY <3>1
  <2>2. CASE next # end_exclusive
    <3>1. pc'[t] = Body
      BY <1>7, <2>2
    <3>2. pc'[t] \in {"sample", "check"} /\ ~(pc'[t] = "check" /\ ~FlagFirst')
      BY <1>1, <1>5, <3>1, Frames DEF Body
    <3> QED BY <1>7, <3>2 DEF Rest, First
  <2> QED BY <2>1, <2>2
<1>10. IndexInv'
  <2>1. \A u \in Threads : pc'[u] \in {"sample", "check"} =>
            i'[u] < batch'[u].to /\ batch'[u].to <= next'
    <3>1. ASSUME NEW u \in Threads \ {t}, pc'[u] \in {"sample", "check"}
          PROVE  i'[u] < batch'[u].to /\ batch'[u].to <= next'
      <4>1. i[u] < batch[u].to /\ batch[u].to <= next /\ batch[u].to \in Nat
        BY <1>7, <3>1 DEF IndexInv, TypeOK
      <4> QED BY <1>2, <1>3, <1>4, <1>7, <4>1
    <3>2. pc'[t] \in {"sample", "check"} => i'[t] < batch'[t].to /\ batch'[t].to <= next'
      BY <1>2, <1>3, <1>7
    <3> QED BY <3>1, <3>2
  <2>2. sampled' \subseteq 0 .. next' - 1
    BY <1>1, <1>2, <1>3, <1>4 DEF IndexInv
  <2>3. \A u \in Threads : Rest(u)' \subseteq 0 .. next' - 1
    <3>1. \A u \in Threads : Rest(u) \subseteq 0 .. next - 1
      BY <1>2 DEF IndexInv, TypeOK, Rest, First
    <3> QED BY <1>2, <1>3, <1>4, <1>8, <1>9, <3>1
  <2>4. \A u \in Threads : Rest(u) \cap Rest(t)' = {} /\ sampled \cap Rest(t)' = {}
    <3>1. \A u \in Threads : Rest(u) \subseteq 0 .. next - 1
      BY <1>2 DEF IndexInv, TypeOK, Rest, First
    <3>2. \A k \in 0 .. next - 1 : k \notin next .. next' - 1
      BY <1>4, Intervals
    <3> QED BY <1>9, <3>1, <3>2 DEF IndexInv
  <2>5. \A u \in Threads : Rest(u)' \cap sampled' = {}
    BY <1>1, <1>8, <2>4 DEF IndexInv
  <2>6. \A u, v \in Threads : u # v => Rest(u)' \cap Rest(v)' = {}
    <3>1. ASSUME NEW u \in Threads, NEW v \in Threads, u # v
          PROVE  Rest(u)' \cap Rest(v)' = {}
      <4>1. CASE u = t
        BY <1>8, <2>4, <3>1, <4>1
      <4>2. CASE v = t
        BY <1>8, <2>4, <3>1, <4>2
      <4>3. CASE u # t /\ v # t
        BY <1>8, <3>1, <4>3 DEF IndexInv
      <4> QED BY <4>1, <4>2, <4>3
    <3> QED BY <3>1
  <2>7. Abandoned => Abandoned'
    BY <1>1, <1>7 DEF Abandoned
  <2>8. \A k \in 0 .. next' - 1 :
          k \in sampled' \/ (\E u \in Threads : k \in Rest(u)') \/ Abandoned'
    <3>1. ASSUME NEW k \in 0 .. next' - 1
          PROVE  k \in sampled' \/ (\E u \in Threads : k \in Rest(u)') \/ Abandoned'
      <4>1. k \in 0 .. next - 1 \/ k \in next .. next' - 1
        BY <1>4, Intervals
      <4>2. Rest(t) = {}
        BY <1>1 DEF Rest
      <4>3. CASE k \in 0 .. next - 1
        <5>1. k \in sampled \/ (\E u \in Threads : k \in Rest(u)) \/ Abandoned
          BY <4>3 DEF IndexInv
        <5> QED BY <1>1, <1>8, <2>7, <4>2, <5>1
      <4>4. CASE k \in next .. next' - 1
        BY <1>9, <4>4
      <4> QED BY <4>1, <4>3, <4>4
    <3> QED BY <3>1
  <2> QED BY <2>1, <2>2, <2>5, <2>6, <2>8 DEF IndexInv
<1>11. CountInv'
  BY <1>1, Frames DEF CountInv
<1>12. StopInv'
  <2>1. {u \in Threads : pc'[u] = "exited"} = {u \in Threads : pc[u] = "exited"}
    BY <1>1, <1>5, <1>7
  <2>2. ~AllExited /\ main # "returned"
    BY <1>1 DEF AllExited, StopInv
  <2>3. \A u \in Threads : pc'[u] \in {"signal", "exited"} => expired' \/ next' = end_exclusive
    <3>1. ASSUME NEW u \in Threads \ {t}, pc[u] \in {"signal", "exited"}
          PROVE  expired \/ next' = end_exclusive
      <4>1. expired \/ next = end_exclusive
        BY <3>1 DEF StopInv
      <4> QED BY <1>3, <4>1
    <3>2. pc'[t] \in {"signal", "exited"} => next' = end_exclusive
      BY <1>3, <1>5, <1>7
    <3> QED BY <1>1, <1>7, <3>1, <3>2
  <2> QED BY <1>1, <2>1, <2>2, <2>3 DEF StopInv
<1>13. LateInv'
  <2>1. ASSUME NEW u \in Threads
        PROVE /\ late'[u] <= 1
              /\ late'[u] > 0 => /\ termination_flags'[u] /\ pc'[u] # "sample"
                                 /\ pc'[u] = "batch" => FlagFirst'
    <3>1. CASE u = t
      <4>1. late[t] > 0 => FlagFirst
        BY <1>1 DEF LateInv
      <4>2. FlagFirst => pc'[t] \in {"signal", "check"}
        BY <1>7 DEF Body
      <4>3. pc'[t] # "batch"
        BY <1>5, <1>7
      <4> QED BY <1>1, <3>1, <4>1, <4>2, <4>3 DEF LateInv
    <3>2. CASE u # t
      BY <1>1, <1>7, <3>2, Frames DEF LateInv
    <3> QED BY <3>1, <3>2
  <2> QED BY <2>1 DEF LateInv
<1> QED BY <1>6, <1>10, <1>11, <1>12, <1>13

(* A sample is of an index no other thread holds, and no sample has been.  *)
LEMMA SampleOneDoes ==
  ASSUME IInv, NEW t \in Threads, SampleOne(t)
  PROVE  /\ pc[t] = "sample" /\ pc' = [pc EXCEPT ![t] = pc'[t]]
         /\ pc'[t] = IF ~FlagFirst \/ i[t] + 1 < batch[t].to THEN "check" ELSE "batch"
         /\ \A u \in Threads \ {t} : Rest(u)' = Rest(u)
         /\ i[t] \in Rest(t) /\ Rest(t)' = Rest(t) \ {i[t]}
         /\ i[t] \notin sampled
         /\ i' \in [Threads -> Nat]
         /\ \A u \in Threads : pc'[u] \in {"sample", "check"} => i'[u] < batch[u].to
         /\ UNCHANGED <<sampler, timed, next, batch, termination_flags,
                        terminated_threads, main, flagged, table, expired>>
<1> USE DEF IInv
<1>1. /\ pc[t] = "sample"
      /\ UNCHANGED <<sampler, timed, next, batch, termination_flags,
                     terminated_threads, main, flagged, table, expired>>
  BY DEF SampleOne, call, syncVars, mainVars
<1>2. /\ pc \in [Threads -> Labels] /\ i \in [Threads -> Nat]
      /\ i[t] \in Nat /\ batch[t].to \in Nat /\ i[t] < batch[t].to
  BY <1>1 DEF TypeOK, IndexInv
<1>3. i' = IF FlagFirst THEN [i EXCEPT ![t] = i[t] + 1] ELSE i
  BY <1>2 DEF SampleOne
<1>4. pc' = [pc EXCEPT ![t] = IF ~FlagFirst \/ i[t] + 1 < batch[t].to
                                THEN "check" ELSE "batch"]
  BY DEF SampleOne, Goto, LoopFrom, Body
<1>5. /\ pc'[t] = IF ~FlagFirst \/ i[t] + 1 < batch[t].to THEN "check" ELSE "batch"
      /\ i'[t] = IF FlagFirst THEN i[t] + 1 ELSE i[t]
      /\ \A u \in Threads \ {t} : pc'[u] = pc[u] /\ i'[u] = i[u]
  BY <1>2, <1>3, <1>4
<1>6. \A u \in Threads \ {t} : Rest(u)' = Rest(u)
  BY <1>1, <1>5, Frames DEF Rest, First
<1>7. Rest(t) = i[t] .. batch[t].to - 1
  BY <1>1 DEF Rest, First
<1>8. i[t] \in Rest(t)
  BY <1>2, <1>7
<1>9. (i[t] .. batch[t].to - 1) \ {i[t]} = i[t] + 1 .. batch[t].to - 1
  BY <1>2
<1>10. Rest(t)' = i[t] + 1 .. batch[t].to - 1
  <2>1. CASE FlagFirst /\ ~(i[t] + 1 < batch[t].to)
    <3>1. i[t] + 1 .. batch[t].to - 1 = {}
      BY <1>2, <2>1
    <3>2. pc'[t] = "batch"
      BY <1>5, <2>1
    <3> QED BY <3>1, <3>2 DEF Rest
  <2>2. CASE FlagFirst /\ i[t] + 1 < batch[t].to
    BY <1>1, <1>5, <2>2, Frames DEF Rest, First
  <2>3. CASE ~FlagFirst
    BY <1>1, <1>5, <2>3, Frames DEF Rest, First
  <2> QED BY <2>1, <2>2, <2>3
<1>11. i' \in [Threads -> Nat]
  BY <1>2, <1>3
<1>12. \A u \in Threads : pc'[u] \in {"sample", "check"} => i'[u] < batch[u].to
  <2>1. \A u \in Threads \ {t} : pc'[u] \in {"sample", "check"} => i'[u] < batch[u].to
    BY <1>5 DEF IndexInv
  <2>2. pc'[t] \in {"sample", "check"} => i'[t] < batch[t].to
    BY <1>2, <1>5
  <2> QED BY <2>1, <2>2
<1>13. i[t] \notin sampled
  BY <1>8 DEF IndexInv
<1> QED BY <1>1, <1>2, <1>4, <1>5, <1>6, <1>7, <1>8, <1>9, <1>10, <1>11, <1>12, <1>13

LEMMA SampleCounted ==
  ASSUME IInv, NEW t \in Threads, SampleOne(t)
  PROVE  Drawn' = Drawn + 1 /\ Drawn \in Nat /\ samples' \in [Threads -> Nat]
<1>1. /\ samples \in [Threads -> Nat] /\ samples' = [samples EXCEPT ![t] = samples[t] + 1]
  BY DEF SampleOne, IInv, TypeOK
<1>2. /\ samples' \in [Threads -> Nat] /\ samples'[t] = samples[t] + 1
      /\ \A u \in Threads \ {t} : samples'[u] = samples[u]
  BY <1>1
<1>3. Sigma(samples', Threads) = Sigma(samples, Threads) + 1
  <2>1. \A u \in Threads : samples[u] \in Int
    BY <1>1
  <2> QED BY <1>2, <2>1, PoolFacts, SigmaChange
<1>4. Sigma(samples, Threads) \in Nat
  BY <1>1, PoolFacts, SigmaType
<1> QED BY <1>2, <1>3, <1>4, DrawnIsSigma, Frames

LEMMA SampleOneOK ==
  ASSUME IInv, NEW t \in Threads, SampleOne(t)
  PROVE  IInv'
<1> USE DEF IInv
<1>1. /\ pc[t] = "sample" /\ pc' = [pc EXCEPT ![t] = pc'[t]]
      /\ pc'[t] = IF ~FlagFirst \/ i[t] + 1 < batch[t].to THEN "check" ELSE "batch"
      /\ \A u \in Threads \ {t} : Rest(u)' = Rest(u)
      /\ i[t] \in Rest(t) /\ Rest(t)' = Rest(t) \ {i[t]}
      /\ i[t] \notin sampled
      /\ i' \in [Threads -> Nat]
      /\ \A u \in Threads : pc'[u] \in {"sample", "check"} => i'[u] < batch[u].to
      /\ UNCHANGED <<sampler, timed, next, batch, termination_flags,
                     terminated_threads, main, flagged, table, expired>>
  BY SampleOneDoes
<1>2. /\ sampled' = sampled \cup {i[t]}
      /\ late' = IF termination_flags[t] THEN [late EXCEPT ![t] = late[t] + 1] ELSE late
  BY DEF SampleOne
<1>3. \A u \in Threads \ {t} : pc'[u] = pc[u]
  BY <1>1 DEF TypeOK
<1>4. late[t] = 0
  BY <1>1 DEF TypeOK, LateInv
<1>5. TypeOK'
  <2>1. pc' \in [Threads -> Labels]
    BY <1>1 DEF TypeOK, Labels
  <2>2. late' \in [Threads -> Nat]
    BY <1>2 DEF TypeOK
  <2> QED BY <1>1, <2>1, <2>2, SampleCounted DEF TypeOK
<1>6. IndexInv'
  <2>1. i[t] \in 0 .. next - 1
    <3>1. /\ i[t] \in Nat /\ batch[t].to \in Nat /\ next \in Nat
          /\ i[t] < batch[t].to /\ batch[t].to <= next
      BY <1>1, PoolFacts DEF IndexInv, TypeOK
    <3> QED BY <3>1
  <2>2. \A u \in Threads : pc'[u] \in {"sample", "check"} =>
          i'[u] < batch'[u].to /\ batch'[u].to <= next'
    BY <1>1, <1>3 DEF IndexInv
  <2>3. sampled' \subseteq 0 .. next' - 1
    BY <1>1, <1>2, <2>1 DEF IndexInv
  <2>4. \A u \in Threads : Rest(u)' \cap sampled' = {}
    BY <1>1, <1>2 DEF IndexInv
  <2>5. \A u, v \in Threads : u # v => Rest(u)' \cap Rest(v)' = {}
    BY <1>1 DEF IndexInv
  <2>6. Abandoned => Abandoned'
    BY <1>1, <1>3 DEF Abandoned
  <2>7. ASSUME NEW k \in 0 .. next - 1
        PROVE  k \in sampled' \/ (\E u \in Threads : k \in Rest(u)') \/ Abandoned'
    <3>1. k \in sampled \/ (\E u \in Threads : k \in Rest(u)) \/ Abandoned
      BY DEF IndexInv
    <3> QED BY <1>1, <1>2, <2>6, <3>1
  <2> QED BY <1>1, <2>2, <2>3, <2>4, <2>5, <2>7 DEF IndexInv
<1>7. CountInv'
  <2>1. Cardinality(sampled \cup {i[t]}) = Cardinality(sampled) + 1
    BY <1>1, SampledFinite, FS_AddElement
  <2> QED BY <1>2, <2>1, SampleCounted DEF CountInv
<1>8. StopInv'
  <2>1. {u \in Threads : pc'[u] = "exited"} = {u \in Threads : pc[u] = "exited"}
    BY <1>1, <1>3
  <2>2. ~AllExited /\ main # "returned"
    BY <1>1 DEF AllExited, StopInv
  <2> QED BY <1>1, <1>3, <2>1, <2>2 DEF StopInv
<1>9. LateInv'
  <2>1. ASSUME NEW u \in Threads
        PROVE /\ late'[u] <= 1
              /\ late'[u] > 0 => /\ termination_flags'[u] /\ pc'[u] # "sample"
                                 /\ pc'[u] = "batch" => FlagFirst'
    <3>1. CASE u = t
      <4>1. late'[t] = IF termination_flags[t] THEN 1 ELSE 0
        BY <1>2, <1>4 DEF TypeOK
      <4>2. pc'[t] # "sample" /\ (pc'[t] = "batch" => FlagFirst)
        BY <1>1
      <4> QED BY <1>1, <3>1, <4>1, <4>2, Frames
    <3>2. CASE u # t
      <4>1. late'[u] = late[u]
        BY <1>2, <3>2 DEF TypeOK
      <4> QED BY <1>1, <1>3, <3>2, <4>1, Frames DEF LateInv
    <3> QED BY <3>1, <3>2
  <2> QED BY <2>1 DEF LateInv
<1> QED BY <1>5, <1>6, <1>7, <1>8, <1>9

(* A step that gives out no index and samples none. *)
LEMMA IndexQuiet ==
  ASSUME IndexInv, UNCHANGED <<sampled, next>>,
         \A u \in Threads : pc'[u] \in {"sample", "check"} =>
           i'[u] < batch'[u].to /\ batch'[u].to <= next',
         \A u \in Threads : Rest(u)' \subseteq Rest(u),
         (\A u \in Threads : Rest(u)' = Rest(u)) \/ Abandoned',
         Abandoned => Abandoned'
  PROVE  IndexInv'
<1>1. \A u \in Threads : Rest(u)' \cap sampled' = {}
  BY DEF IndexInv
<1>2. \A u, v \in Threads : u # v => Rest(u)' \cap Rest(v)' = {}
  BY DEF IndexInv
<1>3. ASSUME NEW k \in 0 .. next - 1
      PROVE  k \in sampled' \/ (\E u \in Threads : k \in Rest(u)') \/ Abandoned'
  <2>1. k \in sampled \/ (\E u \in Threads : k \in Rest(u)) \/ Abandoned
    BY DEF IndexInv
  <2> QED BY <2>1
<1> QED BY <1>1, <1>2, <1>3 DEF IndexInv

LEMMA CheckOK ==
  ASSUME IInv, NEW t \in Threads, Check(t)
  PROVE  IInv'
<1> USE DEF IInv
<1>1. /\ pc[t] = "check"
      /\ UNCHANGED <<sampler, timed, next, batch, samples, sampled, late, termination_flags,
                     terminated_threads, main, flagged, table, expired>>
  BY DEF Check, call, syncVars, mainVars
<1>2. /\ pc \in [Threads -> Labels] /\ i \in [Threads -> Nat]
      /\ i[t] \in Nat /\ batch[t].to \in Nat /\ i[t] < batch[t].to
  BY <1>1 DEF TypeOK, IndexInv
<1>3. /\ termination_flags[t] => pc' = [pc EXCEPT ![t] = "signal"] /\ i' = i
      /\ ~termination_flags[t] /\ FlagFirst => pc' = [pc EXCEPT ![t] = "sample"] /\ i' = i
      /\ ~termination_flags[t] /\ ~FlagFirst =>
           /\ i' = [i EXCEPT ![t] = i[t] + 1]
           /\ pc' = [pc EXCEPT ![t] = IF i[t] + 1 < batch[t].to THEN "sample" ELSE "batch"]
  BY DEF Check, Goto, LoopFrom, Body
<1>4. /\ \A u \in Threads \ {t} : pc'[u] = pc[u] /\ i'[u] = i[u]
      /\ pc'[t] = IF termination_flags[t] THEN "signal"
                  ELSE IF FlagFirst \/ i[t] + 1 < batch[t].to THEN "sample" ELSE "batch"
      /\ i'[t] = IF termination_flags[t] \/ FlagFirst THEN i[t] ELSE i[t] + 1
  BY <1>2, <1>3
<1>5. TypeOK'
  <2>1. pc' \in [Threads -> Labels]
    BY <1>2, <1>3 DEF Labels
  <2>2. i' \in [Threads -> Nat]
    BY <1>2, <1>3
  <2> QED BY <1>1, <2>1, <2>2 DEF TypeOK
<1>6. termination_flags[t] => expired
  BY <1>1 DEF StopInv, AllExited
<1>7. IndexInv'
  <2>1. \A u \in Threads \ {t} : Rest(u)' = Rest(u)
    BY <1>1, <1>4, Frames DEF Rest, First
  <2>2. termination_flags[t] => Rest(t)' = {}
    BY <1>4 DEF Rest
  <2>3. ASSUME ~termination_flags[t] PROVE Rest(t)' = Rest(t)
    <3>1. CASE FlagFirst
      BY <1>1, <1>4, <2>3, <3>1, Frames DEF Rest, First
    <3>2. CASE ~FlagFirst /\ i[t] + 1 < batch[t].to
      BY <1>1, <1>4, <2>3, <3>2, Frames DEF Rest, First
    <3>3. CASE ~FlagFirst /\ ~(i[t] + 1 < batch[t].to)
      <4>1. i[t] + 1 .. batch[t].to - 1 = {}
        BY <1>2, <3>3
      <4>2. Rest(t) = i[t] + 1 .. batch[t].to - 1
        BY <1>1, <3>3 DEF Rest, First
      <4>3. Rest(t)' = {}
        BY <1>4, <2>3, <3>3 DEF Rest
      <4> QED BY <4>1, <4>2, <4>3
    <3> QED BY <3>1, <3>2, <3>3
  <2>4. termination_flags[t] => Abandoned'
    BY <1>1, <1>4, <1>6 DEF Abandoned
  <2>5. Abandoned => Abandoned'
    BY <1>1, <1>4 DEF Abandoned
  <2>6. \A u \in Threads : pc'[u] \in {"sample", "check"} =>
          i'[u] < batch'[u].to /\ batch'[u].to <= next'
    <3>1. pc'[t] \in {"sample", "check"} => i'[t] < batch[t].to
      BY <1>2, <1>4
    <3>2. batch[t].to <= next
      BY <1>1 DEF IndexInv
    <3> QED BY <1>1, <1>4, <3>1, <3>2 DEF IndexInv
  <2>7. \A u \in Threads : Rest(u)' \subseteq Rest(u)
    BY <2>1, <2>2, <2>3
  <2>8. (\A u \in Threads : Rest(u)' = Rest(u)) \/ Abandoned'
    BY <2>1, <2>3, <2>4
  <2> QED BY <1>1, <2>5, <2>6, <2>7, <2>8, IndexQuiet
<1>8. CountInv'
  BY <1>1, Frames DEF CountInv
<1>9. StopInv'
  <2>1. {u \in Threads : pc'[u] = "exited"} = {u \in Threads : pc[u] = "exited"}
    BY <1>1, <1>4
  <2>2. ~AllExited /\ main # "returned"
    BY <1>1 DEF AllExited, StopInv
  <2> QED BY <1>1, <1>4, <1>6, <2>1, <2>2 DEF StopInv
<1>10. LateInv'
  <2>1. ASSUME NEW u \in Threads
        PROVE /\ late'[u] <= 1
              /\ late'[u] > 0 => /\ termination_flags'[u] /\ pc'[u] # "sample"
                                 /\ pc'[u] = "batch" => FlagFirst'
    <3>1. CASE u = t
      BY <1>1, <1>4, <3>1, Frames DEF LateInv
    <3>2. CASE u # t
      BY <1>1, <1>4, <3>2, Frames DEF LateInv
    <3> QED BY <3>1, <3>2
  <2> QED BY <2>1 DEF LateInv
<1> QED BY <1>5, <1>7, <1>8, <1>9, <1>10

LEMMA SignalOK ==
  ASSUME IInv, NEW t \in Threads, Signal(t)
  PROVE  IInv'
<1> USE DEF IInv
<1>1. /\ pc[t] = "signal" /\ pc' = [pc EXCEPT ![t] = "exited"]
      /\ terminated_threads' = terminated_threads + 1
      /\ main' \in {main, "wait"} /\ (main' # main => main = "blocked")
      /\ UNCHANGED <<sampler, timed, next, batch, i, samples, sampled, late,
                     termination_flags, flagged, table, expired>>
  BY DEF Signal, Goto, call
<1>2. pc'[t] = "exited" /\ \A u \in Threads \ {t} : pc'[u] = pc[u]
  BY <1>1 DEF TypeOK
<1>3. TypeOK'
  BY <1>1 DEF TypeOK, Labels, MainLabels
<1>4. IndexInv'
  <2>1. \A u \in Threads : Rest(u)' = Rest(u)
    BY <1>1, <1>2, Frames DEF Rest, First
  <2>2. Abandoned => Abandoned'
    BY <1>1, <1>2 DEF Abandoned
  <2>3. \A u \in Threads : pc'[u] \in {"sample", "check"} =>
          i'[u] < batch'[u].to /\ batch'[u].to <= next'
    BY <1>1, <1>2 DEF IndexInv
  <2> QED BY <1>1, <2>1, <2>2, <2>3, IndexQuiet
<1>5. CountInv'
  BY <1>1, Frames DEF CountInv
<1>6. StopInv'
  <2> DEFINE E == {u \in Threads : pc[u] = "exited"}
  <2>1. {u \in Threads : pc'[u] = "exited"} = E \cup {t} /\ t \notin E
    BY <1>1, <1>2
  <2>2. IsFiniteSet(E)
    BY PoolFacts, FS_Subset
  <2>3. Cardinality(E \cup {t}) = Cardinality(E) + 1
    BY <2>1, <2>2, FS_AddElement
  <2>4. terminated_threads' = Cardinality({u \in Threads : pc'[u] = "exited"})
    BY <1>1, <2>1, <2>3 DEF StopInv
  <2>5. ~AllExited /\ main # "returned" /\ main' # "returned"
    BY <1>1 DEF AllExited, StopInv
  <2>6. \A u \in Threads : pc'[u] \in {"signal", "exited"} => expired' \/ next' = end_exclusive
    BY <1>1, <1>2 DEF StopInv
  <2>7. main' \in {"request", "join", "returned"} => expired
    BY <1>1, <2>5 DEF StopInv
  <2> QED BY <1>1, <2>4, <2>5, <2>6, <2>7 DEF StopInv
<1>7. LateInv'
  BY <1>1, <1>2, Frames DEF LateInv
<1> QED BY <1>3, <1>4, <1>5, <1>6, <1>7

-----------------------------------------------------------------------------
(* The steps of main. *)

LEMMA MainQuiet ==
  ASSUME IInv, UNCHANGED <<call, next, poolVars>>, expired => expired',
         \A t \in Threads : termination_flags[t] => termination_flags'[t]
  PROVE  IndexInv' /\ CountInv' /\ LateInv'
<1> USE DEF IInv
<1>1. UNCHANGED <<sampler, timed, next, pc, batch, i, samples, sampled, late>>
  BY DEF call, poolVars
<1>2. \A u \in Threads : Rest(u)' = Rest(u)
  BY <1>1, Frames DEF Rest, First
<1>3. Abandoned => Abandoned'
  BY <1>1 DEF Abandoned
<1>4. IndexInv'
  BY <1>1, <1>2, <1>3, IndexQuiet DEF IndexInv
<1>5. CountInv'
  BY <1>1, Frames DEF CountInv
<1>6. LateInv'
  BY <1>1, Frames DEF LateInv
<1> QED BY <1>4, <1>5, <1>6

(* When the last thread has terminated, all have exited. *)
LEMMA AllTerminated ==
  ASSUME IInv, terminated_threads = PoolSize
  PROVE  AllExited
<1> DEFINE E == {t \in Threads : pc[t] = "exited"}
<1>1. Cardinality(E) = Cardinality(Threads)
  BY PoolFacts DEF IInv, StopInv
<1>2. E = Threads
  BY <1>1, PoolFacts, FS_Subset
<1> QED BY <1>2 DEF AllExited

LEMMA MainOK ==
  ASSUME IInv, MainStep \/ Timeout \/ SpuriousWakeup
  PROVE  IInv'
<1> USE DEF IInv
<1>1. CASE Wait
  <2>1. /\ main = "wait"
        /\ main' = IF terminated_threads = PoolSize THEN "request" ELSE "blocked"
        /\ UNCHANGED <<call, next, poolVars, sampler, timed, pc, batch, i, samples, sampled, late,
                       termination_flags, terminated_threads, flagged, table, expired>>
    BY <1>1 DEF Wait, call, poolVars, syncVars
  <2>2. TypeOK'
    BY <2>1 DEF TypeOK, MainLabels
  <2>3. main' = "request" => AllExited
    BY <2>1, AllTerminated
  <2>4. StopInv'
    BY <2>1, <2>3 DEF StopInv, AllExited
  <2> QED BY <2>1, <2>2, <2>4, MainQuiet
<1>2. CASE Timeout
  <2>1. /\ timed /\ main = "blocked" /\ main' = "request" /\ expired' = TRUE
        /\ UNCHANGED <<call, next, poolVars, sampler, timed, pc, batch, i, samples, sampled, late,
                       termination_flags, terminated_threads, flagged, table>>
    BY <1>2 DEF Timeout, call, poolVars, syncVars
  <2>2. TypeOK'
    BY <2>1 DEF TypeOK, MainLabels
  <2>3. StopInv'
    BY <2>1 DEF StopInv, AllExited
  <2> QED BY <2>1, <2>2, <2>3, MainQuiet
<1>3. CASE SpuriousWakeup
  <2>1. /\ main = "blocked" /\ main' = "wait"
        /\ UNCHANGED <<call, next, poolVars, sampler, timed, pc, batch, i, samples, sampled, late,
                       termination_flags, terminated_threads, flagged, table, expired>>
    BY <1>3 DEF SpuriousWakeup, call, poolVars, syncVars
  <2>2. TypeOK'
    BY <2>1 DEF TypeOK, MainLabels
  <2>3. StopInv'
    BY <2>1 DEF StopInv, AllExited
  <2> QED BY <2>1, <2>2, <2>3, MainQuiet
<1>4. CASE Request
  <2>1. /\ main = "request"
        /\ \/ /\ flagged < PoolSize /\ main' = main /\ flagged' = flagged + 1
              /\ termination_flags' = [termination_flags EXCEPT ![flagged] = TRUE]
           \/ /\ main' = "join" /\ UNCHANGED <<termination_flags, flagged>>
        /\ UNCHANGED <<call, next, poolVars, sampler, timed, pc, batch, i, samples, sampled, late,
                       terminated_threads, table, expired>>
    BY <1>4 DEF Request, call, poolVars
  <2>2. flagged' \in 0 .. PoolSize
    <3>1. flagged \in 0 .. PoolSize /\ PoolSize \in Nat
      BY PoolFacts DEF TypeOK
    <3> HIDE DEF PoolSize
    <3> QED BY <2>1, <3>1
  <2>3. TypeOK'
    BY <2>1, <2>2 DEF TypeOK, MainLabels
  <2>4. expired \/ AllExited
    BY <2>1 DEF StopInv
  <2>5. StopInv'
    BY <2>1, <2>4 DEF StopInv, AllExited
  <2>6. \A t \in Threads : termination_flags[t] => termination_flags'[t]
    BY <2>1 DEF TypeOK
  <2> QED BY <2>1, <2>3, <2>5, <2>6, MainQuiet
<1>5. CASE Join
  <2>1. /\ main = "join" /\ main' = "returned" /\ AllExited
        /\ UNCHANGED <<call, next, poolVars, sampler, timed, pc, batch, i, samples, sampled, late,
                       termination_flags, terminated_threads, flagged, expired>>
    BY <1>5 DEF Join, AllExited, call, poolVars, syncVars
  <2>2. table' = Drawn
    BY <1>5 DEF Join, Drawn
  <2>3. Drawn' = Drawn
    BY <2>1, Frames
  <2>4. TypeOK'
    BY <2>1 DEF TypeOK, MainLabels
  <2>5. StopInv'
    BY <2>1, <2>2, <2>3 DEF StopInv, AllExited
  <2> QED BY <2>1, <2>4, <2>5, MainQuiet
<1> QED BY <1>1, <1>2, <1>3, <1>4, <1>5 DEF MainStep

LEMMA StutterOK ==
  ASSUME IInv, UNCHANGED vars
  PROVE  IInv'
<1>1. /\ UNCHANGED <<call, next, poolVars, syncVars, mainVars>>
      /\ UNCHANGED <<sampler, timed, pc, batch, i, samples, sampled, late, termination_flags,
                     terminated_threads, main, flagged, table, expired>>
  BY DEF vars, call, poolVars, syncVars, mainVars
<1>2. TypeOK' /\ StopInv'
  BY <1>1, Frames DEF IInv, TypeOK, StopInv, AllExited
<1> QED BY <1>1, <1>2, MainQuiet DEF IInv

LEMMA NextOK == IInv /\ [Next]_vars => IInv'
<1> SUFFICES ASSUME IInv, [Next]_vars PROVE IInv'
  OBVIOUS
<1>1. ASSUME NEW t \in Threads, ThreadStep(t) PROVE IInv'
  BY <1>1, NextBatchOK, SampleOneOK, CheckOK, SignalOK DEF ThreadStep
<1>2. CASE MainStep \/ Timeout \/ SpuriousWakeup
  BY <1>2, MainOK
<1>3. CASE Terminated \/ UNCHANGED vars
  BY <1>3, StutterOK DEF Terminated
<1> QED BY <1>1, <1>2, <1>3 DEF Next

-----------------------------------------------------------------------------
(* What the invariant says of the indices, and the theorems. *)

LEMMA RangeCardinality ==
  ASSUME NEW n \in Nat
  PROVE  IsFiniteSet(0 .. n - 1) /\ Cardinality(0 .. n - 1) = n
<1>1. 0 \in Int /\ n - 1 \in Int /\ n - 1 - 0 + 1 = n
  OBVIOUS
<1>2. IsFiniteSet(0 .. n - 1)
  BY <1>1, FS_Interval
<1>3. Cardinality(0 .. n - 1) = IF 0 > n - 1 THEN 0 ELSE n - 1 - 0 + 1
  BY <1>1, FS_Interval
<1>4. 0 > n - 1 <=> n = 0
  OBVIOUS
<1> QED BY <1>1, <1>2, <1>3, <1>4

(* With nobody on a batch, all the indices given out have been sampled,    *)
(* unless the time has expired.                                            *)
LEMMA AllSampled ==
  ASSUME IndexInv, \A t \in Threads : pc[t] \notin {"sample", "check"}, ~Abandoned
  PROVE  sampled = 0 .. next - 1
<1>1. \A t \in Threads : Rest(t) = {}
  BY DEF Rest
<1> QED BY <1>1 DEF IndexInv

LEMMA AllDrawn ==
  ASSUME IInv, AllExited, ~expired
  PROVE  Drawn = end_exclusive
<1>1. next = end_exclusive
  BY PoolFacts DEF IInv, StopInv, AllExited
<1>2. sampled = 0 .. end_exclusive - 1
  BY <1>1, AllSampled DEF IInv, Abandoned, AllExited
<1>3. Cardinality(0 .. end_exclusive - 1) = end_exclusive
  BY PoolFacts, RangeCardinality
<1> QED BY <1>2, <1>3 DEF IInv, CountInv

LEMMA InvariantSafety == IInv => EachIndexOnce /\ StopsPromptly /\ TableComplete
<1> SUFFICES ASSUME IInv PROVE EachIndexOnce /\ StopsPromptly /\ TableComplete
  OBVIOUS
<1>1. EachIndexOnce
  <2>1. ASSUME \A t \in Threads : pc[t] = "batch" /\ ~termination_flags[t]
        PROVE  sampled = 0 .. next - 1
    <3>1. \A t \in Threads : pc[t] \notin {"sample", "check"}
      BY <2>1
    <3>2. ~Abandoned
      BY <2>1 DEF Abandoned
    <3> QED BY <3>1, <3>2, AllSampled DEF IInv
  <2> QED BY <2>1 DEF EachIndexOnce, IInv, CountInv
<1>2. StopsPromptly
  BY DEF StopsPromptly, IInv, LateInv
<1>3. TableComplete
  <2>1. main = "returned" => AllExited /\ table = Drawn
    BY DEF IInv, StopInv
  <2> QED BY <2>1, AllDrawn DEF TableComplete, AllExited
<1> QED BY <1>1, <1>2, <1>3

(* The batches cover the range without overlap, the lengths of the vectors *)
(* add up to the indices sampled, and flags follow the end of the wait.    *)
THEOREM SamplerInvariant == Spec => []IInv
BY InitOK, NextOK, PTL DEF Spec

(* OccurrenceSampler::sample_thread: whatever the interleaving of the      *)
(* calls of next_batch(), no index is sampled twice and none is left out.  *)
THEOREM IndicesOnce == Spec => []EachIndexOnce
BY SamplerInvariant, InvariantSafety, PTL

(* A thread draws one sample at most after its flag has been raised.       *)
THEOREM PromptStop == Spec => []StopsPromptly
BY SamplerInvariant, InvariantSafety, PTL

(* sample() returns after the threads, with every sample they have drawn,  *)
(* and with as many as were asked for unless the time has expired.         *)
THEOREM CompleteTable == Spec => []TableComplete
BY SamplerInvariant, InvariantSafety, PTL

-----------------------------------------------------------------------------
(* The refinement: a sample is a Draw, the end of sample() a Return. *)

LEMMA DrawRefines ==
  ASSUME IInv, NEW t \in Threads, SampleOne(t)
  PROVE  Abstract!Draw
<1>1. /\ pc[t] = "sample" /\ i[t] \in Rest(t) /\ i[t] \notin sampled
      /\ UNCHANGED <<timed, main>>
  BY SampleOneDoes
<1>2. main # "returned"
  BY <1>1 DEF IInv, StopInv, AllExited
<1>3. Drawn < end_exclusive
  <2>1. end_exclusive \in Nat /\ next \in 0 .. end_exclusive
    BY PoolFacts DEF IInv, TypeOK
  <2>2. i[t] \in Nat /\ batch[t].to \in Nat /\ i[t] < batch[t].to /\ batch[t].to <= next
    BY <1>1, <2>1 DEF IInv, IndexInv, TypeOK
  <2>3. i[t] \in 0 .. end_exclusive - 1
    BY <2>1, <2>2
  <2>4. sampled \subseteq 0 .. end_exclusive - 1
    BY <2>1 DEF IInv, IndexInv
  <2>5. IsFiniteSet(sampled) /\ Cardinality(sampled \cup {i[t]}) = Cardinality(sampled) + 1
    BY <1>1, SampledFinite, FS_AddElement DEF IInv
  <2>6. Cardinality(sampled \cup {i[t]}) <= end_exclusive
    <3>1. /\ IsFiniteSet(0 .. end_exclusive - 1)
          /\ Cardinality(0 .. end_exclusive - 1) = end_exclusive
      BY <2>1, RangeCardinality
    <3>2. sampled \cup {i[t]} \in SUBSET (0 .. end_exclusive - 1)
      BY <2>3, <2>4
    <3> QED BY <3>1, <3>2, FS_Subset
  <2>7. Cardinality(sampled) \in Nat
    BY <2>5, FS_CardinalityType
  <2> QED BY <2>1, <2>5, <2>6, <2>7 DEF IInv, CountInv
<1>4. Drawn' = Drawn + 1
  BY SampleCounted
<1> QED BY <1>1, <1>2, <1>3, <1>4 DEF Abstract!Draw

LEMMA ReturnRefines ==
  ASSUME IInv, Join
  PROVE  Abstract!Return
<1>1. /\ main = "join" /\ main' = "returned" /\ AllExited
      /\ UNCHANGED <<timed, samples>>
  BY DEF Join, AllExited, call, poolVars
<1>2. Drawn' = Drawn
  BY <1>1, Frames
<1>3. Drawn = end_exclusive \/ timed
  BY <1>1, AllDrawn DEF IInv, StopInv
<1> QED BY <1>1, <1>2, <1>3 DEF Abstract!Return

LEMMA StepRefines ==
  ASSUME IInv, [Next]_vars
  PROVE  [Abstract!Next]_(Abstract!vars)
<1> DEFINE Hidden == /\ UNCHANGED <<timed, samples>>
                     /\ \/ main # "returned" /\ main' # "returned"
                        \/ UNCHANGED main
<1>1. Hidden => [Abstract!Next]_(Abstract!vars)
  BY Frames DEF Abstract!vars
<1>2. ASSUME NEW t \in Threads, ThreadStep(t)
      PROVE  [Abstract!Next]_(Abstract!vars)
  <2>1. CASE SampleOne(t)
    BY <2>1, DrawRefines DEF Abstract!Next
  <2>2. CASE NextBatch(t)
    BY <1>1, <2>2 DEF NextBatch, call, mainVars
  <2>3. CASE Check(t)
    BY <1>1, <2>3 DEF Check, call, mainVars
  <2>4. CASE Signal(t)
    BY <1>1, <2>4 DEF Signal, call
  <2> QED BY <1>2, <2>1, <2>2, <2>3, <2>4 DEF ThreadStep
<1>3. CASE MainStep
  <2>1. CASE Join
    BY <2>1, ReturnRefines DEF Abstract!Next
  <2>2. CASE Wait
    BY <1>1, <2>2 DEF Wait, call, poolVars
  <2>3. CASE Request
    BY <1>1, <2>3 DEF Request, call, poolVars
  <2> QED BY <1>3, <2>1, <2>2, <2>3 DEF MainStep
<1>4. CASE Timeout \/ SpuriousWakeup
  BY <1>1, <1>4 DEF Timeout, SpuriousWakeup, call, poolVars
<1>5. CASE Terminated \/ UNCHANGED vars
  BY <1>1, <1>5 DEF Terminated, vars, call, poolVars, mainVars
<1> QED BY <1>2, <1>3, <1>4, <1>5 DEF Next

(* The pool draws and returns as SampleSpec allows, and does nothing else. *)
THEOREM SamplerRefines == Spec => Abstract!Safety
<1>1. Init => Abstract!Init
  <2> SUFFICES ASSUME Init PROVE Abstract!Init
    OBVIOUS
  <2>1. Sigma(samples, Threads) = 0
    BY PoolFacts, SigmaZero DEF Init
  <2> QED BY <2>1, DrawnIsSigma, SamplerAssumption
          DEF Init, Abstract!Init, SamplerAssumption
<1>2. IInv /\ [Next]_vars => [Abstract!Next]_(Abstract!vars)
  BY StepRefines
<1> QED BY <1>1, <1>2, SamplerInvariant, PTL DEF Spec, Abstract!Safety
=============================================================================

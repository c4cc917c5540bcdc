-------------------------- MODULE DynamicSequencer --------------------------
(***************************************************************************)
(* The sequencer that hands out the indices start..end_exclusive-1 to the  *)
(* threads of a pool, in batches: large ones at first, of one index at the *)
(* end, so that the threads finish together.  next_batch() holds a mutex   *)
(* while it reads and advances next: it is one action of its callers.      *)
(***************************************************************************)
EXTENDS Integers

CONSTANTS end_exclusive,
          nthreads,         \* the threads of the pool
          BatchesPerThread  \* 100 in the code

ASSUME SequencerAssumption ==
  /\ end_exclusive \in Nat
  /\ nthreads \in Nat \ {0} /\ BatchesPerThread \in Nat \ {0}

(* What is left, divided among the threads; one at least. *)
Step(next) ==
  LET step == (end_exclusive - next) \div (nthreads * BatchesPerThread) IN
  IF step < 1 THEN 1 ELSE step

(* Mutant: an index too many. *)
BatchAndOne(next) ==
  [from |-> next,
   to |-> IF next + Step(next) + 1 > end_exclusive
            THEN end_exclusive ELSE next + Step(next) + 1]

(* The batch that starts at next; the end of the range ends it. *)
Batch(next) ==
  [from |-> next,
   to |-> IF next >= end_exclusive \/ next + Step(next) > end_exclusive
            THEN end_exclusive ELSE next + Step(next)]

IsEmpty(batch) == batch.from >= batch.to

(* next after a call: at the end of the range it stays where it is. *)
Advanced(next) == IF next >= end_exclusive THEN next ELSE next + Step(next)
=============================================================================

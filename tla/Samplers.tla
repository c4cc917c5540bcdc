------------------------------- MODULE Samplers -------------------------------
(***************************************************************************)
(* The samplers of common/random: which numbers they draw, and with which  *)
(* weights, for every outcome of the generator they rest on.               *)
(***************************************************************************)
EXTENDS Integers, Sequences, SequencesExt, FiniteSets, FiniteSetsExt, Functions

CONSTANT Word \* 2^64, the numbers of one word

(* random_uint<uint128_t>(): the two words of the difference are drawn on  *)
(* their own; drawn is what the pair (high, low) gives.                    *)
Draws(from, to) ==
  [w \in (0 .. (to - from) \div Word) \X (0 .. (to - from) % Word) |->
     from + w[1] * Word + w[2]]

(* How many of the pairs, all as likely, give r. *)
Weight(from, to, r) ==
  Cardinality({w \in DOMAIN Draws(from, to) : Draws(from, to)[w] = r})

-----------------------------------------------------------------------------
(* RangeSampler: the ranges [from, to) in the order they were added. *)

(* Mutant: ranges that touch are not told from ranges that do not. *)
AddRangeGlued(ranges, from, to) ==
  IF from = to THEN ranges
  ELSE IF ranges # <<>> THEN [ranges EXCEPT ![Len(ranges)].to = to]
  ELSE Append(ranges, [from |-> from, to |-> to])

AddRange(ranges, from, to) ==
  IF from = to THEN ranges
  ELSE IF ranges # <<>> /\ Last(ranges).to = from
    THEN [ranges EXCEPT ![Len(ranges)].to = to]
  ELSE Append(ranges, [from |-> from, to |-> to])

Lengths(ranges) ==
  LET length == [k \in DOMAIN ranges |-> ranges[k].to - ranges[k].from]
  IN  MapThenSumSet(LAMBDA k : length[k], DOMAIN ranges)

(* sample(), for the number rand below the total length. *)
InRanges(ranges, rand) ==
  LET r == Min({k \in DOMAIN ranges : rand < Lengths(SubSeq(ranges, 1, k))})
  IN  ranges[r].from + (rand - Lengths(SubSeq(ranges, 1, r - 1)))

-----------------------------------------------------------------------------
(* AliasMethodSampler: U and K of n elements, all weights 0 to begin with. *)

AliasNew(n) == [n |-> n, total |-> 0, U |-> [i \in 0 .. n - 1 |-> 0],
                K |-> [i \in 0 .. n - 1 |-> 0]]

AliasSet(a, i, weight) ==
  [a EXCEPT !.total = @ - a.U[i] + weight, !.U[i] = weight]

(* Mutant: the alias is entered at the wrong end. *)
AliasStepSwapped(st, total) ==
  LET of == Last(st.over)
      uf == Last(st.under)
      left == st.U[of] - (total - st.U[uf])
  IN  [U |-> [st.U EXCEPT ![of] = left], K |-> [st.K EXCEPT ![of] = uf],
       over |-> IF left > total THEN st.over ELSE Front(st.over),
       under |-> IF left < total THEN Append(Front(st.under), of) ELSE Front(st.under)]

(* One round of the loop of build(): the last overfull element fills the   *)
(* last underfull one, and goes where it then belongs.                     *)
AliasStep(st, total) ==
  LET of == Last(st.over)
      uf == Last(st.under)
      left == st.U[of] - (total - st.U[uf])
  IN  [U |-> [st.U EXCEPT ![of] = left], K |-> [st.K EXCEPT ![uf] = of],
       over |-> IF left > total THEN st.over ELSE Front(st.over),
       under |-> IF left < total THEN Append(Front(st.under), of) ELSE Front(st.under)]

(* The first loop of build(): overfull and underfull, an element at a time. *)
AliasListed(a) ==
  LET listed[k \in 0 .. a.n] ==
        IF k = 0
          THEN [U |-> [i \in DOMAIN a.U |-> a.U[i] * a.n], K |-> a.K, over |-> <<>>, under |-> <<>>]
          ELSE LET st == listed[k - 1]
               IN  IF st.U[k - 1] > a.total THEN [st EXCEPT !.over = Append(@, k - 1)]
                   ELSE IF st.U[k - 1] < a.total THEN [st EXCEPT !.under = Append(@, k - 1)]
                   ELSE st
  IN  listed

(* The second loop; a round takes an element from one of both, so that n   *)
(* rounds are enough.                                                      *)
AliasRounds(a) ==
  LET rounds[k \in 0 .. a.n] ==
        IF k = 0 THEN AliasListed(a)[a.n]
        ELSE LET st == rounds[k - 1]
             IN  IF st.over = <<>> THEN st ELSE AliasStep(st, a.total)
  IN  rounds

AliasBuild(a) ==
  LET built == AliasRounds(a)[a.n]
  IN  [a EXCEPT !.U = built.U, !.K = built.K]

(* sample(): i among the elements, y below the total weight. *)
AliasSample(a, i, y) == IF y < a.U[i] THEN i ELSE a.K[i]

(* Of the n * total outcomes of the generator, those that give element e.  *)
AliasWeight(a, e) ==
  LET outcomes == [i \in 0 .. a.n - 1 |->
                     Cardinality({y \in 0 .. a.total - 1 : AliasSample(a, i, y) = e})]
  IN  MapThenSumSet(LAMBDA i : outcomes[i], 0 .. a.n - 1)
===============================================================================

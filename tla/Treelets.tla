------------------------------ MODULE Treelets ------------------------------
(***************************************************************************)
(* Coloured rooted treelets and their encoding in Treelet: a structure is  *)
(* a number of Bits bits that holds, from the highest bit on, the steps of *)
(* a depth-first visit (1 into a vertex, 0 out of it), the step into the   *)
(* root left out; the 16 bits of the colours are a set.                    *)
(***************************************************************************)
EXTENDS Integers, Sequences, FiniteSets, FiniteSetsExt

CONSTANT Bits \* treelet_structure_bits, 32

(* Four lookups read a quarter of the bits each. *)
ASSUME BitsAssumption == Bits \in Nat /\ Bits > 0 /\ Bits % 4 = 0

Highest == 2 ^ (Bits - 1)
Invalid == 2 ^ Bits - 1
AllColors == 0 .. 15

Bit(s, i) == (s \div 2 ^ (Bits - 1 - i)) % 2

(* number_of_vertices() *)
Size(s) == 1 + Cardinality({i \in 0 .. Bits - 1 : Bit(s, i) = 1})

Singleton(color) == [s |-> 0, c |-> {color}]
InvalidTreelet == [s |-> Invalid, c |-> {}]
InvalidColors == [s |-> Invalid, c |-> {0}]
InvalidStructure == [s |-> Invalid, c |-> {1}]
IsValid(t) == t.s # Invalid

(* operator<: the largest structure comes first. *)
Mask(c) ==
  LET bits == [i \in AllColors |-> 2 ^ i]
  IN  MapThenSumSet(LAMBDA i : bits[i], c)
Less(a, b) == a.s > b.s \/ (a.s = b.s /\ Mask(a.c) < Mask(b.c))

-----------------------------------------------------------------------------
(* leftmost_bit_tie1(): the length of the first child, its two steps       *)
(* included, by lookups of a quarter of the bits each.                     *)

Balance(s, from, to) ==
  2 * Cardinality({i \in from .. to - 1 : Bit(s, i) = 1}) - (to - from)

(* The entry of lookup table k for the sum so far and the bits of quarter  *)
(* k: the position of the tie, the new sum, or 127 if no tie can follow.   *)
Lookup(s, k, sum) ==
  LET q == Bits \div 4
      ties == {i \in 1 .. q : sum + Balance(s, k * q, k * q + i) = 0}
      after == sum + Balance(s, k * q, (k + 1) * q)
  IN  IF ties # {} THEN [tie |-> k * q + Min(ties), sum |-> 0]
      ELSE [tie |-> IF after > (3 - k) * q THEN 127 ELSE 0, sum |-> after]

LeftmostTie(s) ==
  LET look[k \in 0 .. 3] ==
        IF k = 0 THEN Lookup(s, 0, 0)
        ELSE LET last == look[k - 1]
             IN  IF last.tie # 0 THEN last ELSE Lookup(s, k, last.sum)
  IN  look[3].tie

(* split_child(): the first child, without colours. *)
Child(s) ==
  LET kept == 2 ^ (Bits - LeftmostTie(s) + 1)
  IN  (((2 * s) % 2 ^ Bits) \div kept) * kept

Split(t) == [s |-> Child(t.s), c |-> {}]

(* complement(): t without its first child t2. *)
Complement(t, t2) ==
  [s |-> (t.s % 2 ^ (Bits - 2 * Size(t2.s))) * 4 ^ Size(t2.s), c |-> t.c \ t2.c]

(* merge(): other becomes the first child of t, unless that is larger.     *)
Merge(t, other) ==
  LET n == Size(other.s)
      new == Highest + other.s \div 2 + t.s \div 4 ^ n
      differ == t.s \div 2 ^ (Bits - 2 * n) # new \div 2 ^ (Bits - 2 * n)
  IN  IF t.c \cap other.c # {} THEN InvalidColors
      ELSE IF differ /\ t.s > new THEN InvalidStructure
      ELSE [s |-> new, c |-> t.c \cup other.c]

(* normalization_factor(): the number of children equal to the first.      *)
NormalizationFactor(s) ==
  IF s = 0 THEN 1
  ELSE LET b == LeftmostTie(s)
           Block(m) == (s \div 2 ^ (Bits - (m + 1) * b)) % 2 ^ b
       IN  Min({m \in 1 .. Bits : (m + 1) * b > Bits \/ Block(m) # Block(0)})

-----------------------------------------------------------------------------
(* The visit of Occurrence(treelet, occ): the position of the parent of    *)
(* the vertex in position p > 1, the root being in position 1.             *)
ParentOf(s, p) ==
  LET open == {i \in 0 .. Bits - 1 : Bit(s, i) = 1}
      enter(q) == CHOOSE i \in open : Cardinality({j \in open : j < i}) = q - 2
      above == {q \in 2 .. p - 1 : \A j \in enter(q) + 1 .. enter(p) : Balance(s, enter(q), j) > 0}
  IN  IF above = {} THEN 1 ELSE Max(above)

-----------------------------------------------------------------------------
(* TreeletStructureSelector: a mode and a set of structures. *)

IsIncluded(sel, s) == (sel.mode = "INCLUDE") = (s \in sel.structures)

RestrictToSizes(sel, from, to) ==
  [sel EXCEPT !.structures = {s \in @ : Size(s) \in from .. to}]

(* buildable_closure(): what has to be counted on the way to the treelets  *)
(* that are included.                                                      *)
Parts(S) == UNION {{Child(s), Complement([s |-> s, c |-> {}], Split([s |-> s])).s} :
                     s \in S \ {0}} \ {0}
BuildableClosure(sel) ==
  LET sizes == {Size(s) : s \in sel.structures}
      closed[k \in 0 .. Bits] ==
        IF k = 0 THEN sel.structures
        ELSE LET S == closed[k - 1] IN S \cup Parts(S)
  IN  IF sel.mode = "EXCLUDE"
        THEN IF sizes = {} THEN sel ELSE RestrictToSizes(sel, Max(sizes), Max(sizes))
        ELSE [sel EXCEPT !.structures = closed[Bits]]

StarFromCenter(size) ==
  MapThenSumSet(LAMBDA i : Highest \div 4 ^ i, 0 .. size - 2)
StarFromLeaf(size) ==
  Highest + MapThenSumSet(LAMBDA i : Highest \div 2 ^ (2 * i - 1), 1 .. size - 2)
=============================================================================

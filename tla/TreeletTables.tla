---------------------------- MODULE TreeletTables ----------------------------
(***************************************************************************)
(* TreeletTable: the record of a vertex, as motivo-merge writes it, and    *)
(* the searches in it.  An entry is a treelet t and the sum n of the       *)
(* counts up to it; the first entry is a sentinel, so that the difference  *)
(* with the entry before is always a count.                                *)
(***************************************************************************)
EXTENDS Treelets, RecordFiles, Samplers

CONSTANT Modulus \* 2^128, counts are unsigned

ASSUME ModulusAssumption == Modulus \in Nat \ {0}

PairSize == 22 \* sizeof(treelet_count_pair)

TreeletOf(structure) == [s |-> structure, c |-> {}]
AllColored(structure) == [s |-> structure, c |-> AllColors]

(* treelet_upper_bound(), count_upper_bound(): the position of the first   *)
(* entry from from on that is not among those below; the range that is     *)
(* left after each round of the loop, the last one for ever.               *)
FirstNotBelow(record, from, below) ==
  LET Mid(r) == r.begin + (r.end - r.begin) \div 2
      range[k \in 0 .. Len(record)] ==
        IF k = 0 THEN [begin |-> from, end |-> Len(record) + 1]
        ELSE LET r == range[k - 1]
             IN  IF r.begin >= r.end THEN r
                 ELSE IF Mid(r) \in below THEN [begin |-> Mid(r) + 1, end |-> r.end]
                 ELSE [begin |-> r.begin, end |-> Mid(r)]
  IN  range[Len(record)].begin

FindTreelet(record, from, t) ==
  FirstNotBelow(record, from, {i \in DOMAIN record : Less(record[i].t, t)})
FindCount(record, r) == FirstNotBelow(record, 2, {i \in DOMAIN record : record[i].n < r})

(* const_iterator::count() *)
CountAt(record, p) == (record[p].n - record[p - 1].n) % Modulus

GetCount(record, t) ==
  LET p == FindTreelet(record, 2, t)
  IN  IF p <= Len(record) /\ record[p].t = t THEN CountAt(record, p) ELSE 0

(* begin(u, t) and the iterator: what it gives until it is over. *)
From(record, t) ==
  LET p == FindTreelet(record, 2, t)
  IN  [k \in 1 .. Len(record) + 1 - p |->
         [t |-> record[p + k - 1].t, n |-> CountAt(record, p + k - 1)]]

(* get_treelet_no(), from 0; get_random_treelet() for the number drawn,    *)
(* from 1 to the last sum.                                                 *)
GetTreeletNo(record, no) == record[FindCount(record, no + 1)].t
DrawnTreelet(record, r) == record[FindCount(record, r)].t
Total(record) == record[Len(record)].n

(* The entries of a structure: the first, and the one after the last.      *)
LowerOf(record, s) == FindTreelet(record, 2, TreeletOf(s))
UpperOf(record, s) ==
  LET found == FindTreelet(record, LowerOf(record, s), AllColored(s))
  IN  IF found <= Len(record) /\ record[found].t = AllColored(s) THEN found + 1 ELSE found

AddStructure(record, mode, st, s) ==
  LET lower == LowerOf(record, s)
      upper == UpperOf(record, s)
  IN  IF lower = upper THEN st
      ELSE IF mode = "INCLUDE"
        THEN [ranges |-> AddRange(st.ranges, record[lower - 1].n, record[upper - 1].n),
              next |-> st.next]
      ELSE [ranges |-> AddRange(st.ranges, record[st.next - 1].n, record[lower - 1].n),
            next |-> upper]

(* build_range_sampler(): a structure at a time, the largest first, as the *)
(* entries are; what is excluded splits the rest.                          *)
Descending(S) ==
  [k \in 1 .. Cardinality(S) |-> CHOOSE s \in S : Cardinality({u \in S : u > s}) = k - 1]
RangesOf(record, selector) ==
  LET order == Descending(selector.structures)
      added[k \in 0 .. Cardinality(selector.structures)] ==
        IF k = 0 THEN [ranges |-> <<>>, next |-> 2]
        ELSE AddStructure(record, selector.mode, added[k - 1], order[k])
      done == added[Cardinality(selector.structures)]
  IN  IF selector.mode = "EXCLUDE"
        THEN AddRange(done.ranges, record[done.next - 1].n, Total(record))
      ELSE done.ranges
=============================================================================

------------------------------ MODULE TableFiles ------------------------------
(***************************************************************************)
(* motivo-merge, from the count files of the builders to the files of a    *)
(* table (.dtz, .treelets.dtz, .rts, .info), and what a sampler makes of   *)
(* them.  A merge may be run again on the same basename.                   *)
(*                                                                         *)
(* A count file has a number of vertices, rows <<vertex, entries>>, and is *)
(* whole unless its end is missing.                                        *)
(***************************************************************************)
EXTENDS TreeletTables

CONSTANTS Merges,    \* the command lines: [files, ie]
          Selectors, \* the selections of motivo-sample
          MaxRuns    \* bound: merges in a row

TreeletSize == 6 \* sizeof(Treelet)

(* A count file: merge() asserts that its vertices are below the number in *)
(* its head, and there is one file at least.  The builders sort the        *)
(* treelets of a row, and count each with as many bits as a sum has.  A    *)
(* row has no more entries than there are treelets of one size, below ten  *)
(* million, so that the header of its record can hold the length, which it *)
(* can up to 2^39 bytes.                                                   *)
CountFile == [nv : Nat, rows : Seq(Nat \X Seq([t : [s : Nat, c : SUBSET AllColors], n : Nat])),
              whole : BOOLEAN]

ASSUME MergesAssumption ==
  /\ HeaderFits(TreeletSize)
  /\ \A merge \in Merges :
       /\ merge.files \in Seq(CountFile) /\ merge.files # <<>>
       /\ \A i \in DOMAIN merge.files : \A k \in DOMAIN merge.files[i].rows :
            LET row == merge.files[i].rows[k][2]
            IN  /\ merge.files[i].rows[k][1] < merge.files[i].nv
                /\ \A a, b \in DOMAIN row : a < b => Less(row[a].t, row[b].t)
                /\ \A a \in DOMAIN row : row[a].n < Modulus
                /\ HeaderFits((Len(row) + 1) * PairSize)

ASSUME SelectorsAssumption ==
  \A selector \in Selectors :
    /\ selector.mode \in {"INCLUDE", "EXCLUDE"}
    /\ selector.structures \subseteq Nat /\ IsFiniteSet(selector.structures)

VARIABLES
  job, pc, runs,
  next,       \* the file, then the vertex that is next
  info,       \* info: the entries of the vertices read so far
  writer,     \* the CompressedRecordFileWriter of the table
  roots,      \* alias_sampler
  disk,       \* the files
  before,     \* history: the files before this merge
  sampler     \* range_samplers and root_sampler of a TreeletSampler

vars == <<job, pc, runs, next, info, writer, roots, disk, before, sampler>>

None == [n |-> -1]
NumVertices == job.files[1].nv

Init ==
  /\ job = None /\ pc = "idle" /\ runs = 0 /\ next = 0
  /\ info = <<>> /\ writer = None /\ roots = None
  /\ disk = [dtz |-> None, list |-> None, rts |-> None, info |-> None]
  /\ before = disk
  /\ sampler = None

Start ==
  /\ pc \in {"idle", "done", "failed"} /\ runs < MaxRuns
  /\ job' \in Merges
  /\ pc' = "read" /\ next' = 1 /\ info' = <<>> /\ runs' = runs + 1
  /\ before' = disk /\ sampler' = None
  /\ UNCHANGED <<writer, roots, disk>>

(* An exception, or the abort() of safe_add and safe_mul. *)
Fail == pc' = "failed" /\ UNCHANGED <<next, info, roots>>

(* Mutant: vertices are compared within a file only. *)
DuplicateInFile(file, seen) == ~IsInjective([k \in DOMAIN file.rows |-> file.rows[k][1]])

(* seen_vertices[vertex] *)
Duplicate(file, seen) ==
  \/ ~IsInjective([k \in DOMAIN file.rows |-> file.rows[k][1]])
  \/ \E k \in DOMAIN file.rows : file.rows[k][1] \in seen

ReadFile ==
  /\ pc = "read" /\ next <= Len(job.files)
  /\ LET file == job.files[next]
         bad == file.nv # NumVertices \/ Duplicate(file, DOMAIN info) \/ ~file.whole
         rows == ToSet(file.rows)
     IN  \/ bad /\ Fail
         \/ /\ ~bad
            /\ info' = [v \in DOMAIN info \cup {r[1] : r \in rows} |->
                          IF v \in DOMAIN info THEN info[v]
                          ELSE (CHOOSE r \in rows : r[1] = v)[2]]
            /\ next' = next + 1
            /\ UNCHANGED <<pc, roots>>
  /\ UNCHANGED <<job, runs, writer, disk, before, sampler>>

(* The head of write_table(); opening the .dtz file empties it. *)
Check ==
  /\ pc = "read" /\ next > Len(job.files)
  /\ \/ /\ Cardinality(DOMAIN info) # NumVertices
        /\ Fail
        /\ UNCHANGED <<writer, disk>>
     \/ /\ Cardinality(DOMAIN info) = NumVertices
        /\ pc' = "rows" /\ next' = 0
        /\ writer' = Create(NumVertices)
        /\ disk' = [disk EXCEPT !.dtz = writer']
        /\ roots' = AliasNew(NumVertices)
        /\ UNCHANGED info
  /\ UNCHANGED <<job, runs, before, sampler>>

(* The record of a row: a sentinel and the sums of the counts, which may   *)
(* wrap without notice.                                                    *)
Counts(row) == [j \in DOMAIN row |-> row[j].n]
SumTo(row, k) == MapThenSumSet(LAMBDA j : Counts(row)[j], 1 .. k)
RecordOf(row) ==
  <<[t |-> InvalidTreelet, n |-> 0]>>
    \o [k \in DOMAIN row |-> [t |-> row[k].t, n |-> SumTo(row, k) % Modulus]]

WriteRow ==
  /\ pc = "rows" /\ next < NumVertices
  /\ LET record == RecordOf(info[next])
         overflow == roots.total + Total(record) >= Modulus
     IN  /\ writer' = WriteRecord(writer, record, PairSize)
         /\ \/ overflow /\ Fail
            \/ /\ ~overflow
               /\ roots' = AliasSet(roots, next, Total(record))
               /\ next' = next + 1
               /\ UNCHANGED <<pc, info>>
  /\ UNCHANGED <<job, runs, disk, before, sampler>>

Unique == UNION {{x.t : x \in ToSet(info[v])} : v \in DOMAIN info}

(* std::sort() with operator<. *)
Sorted(S) ==
  [k \in 1 .. Cardinality(S) |-> CHOOSE t \in S : Cardinality({u \in S : Less(u, t)}) = k - 1]

ListOf(S) ==
  LET order == Sorted(S)
      file[k \in 0 .. Cardinality(S)] ==
        IF k = 0 THEN Create(Cardinality(S))
        ELSE WriteRecord(file[k - 1], <<order[k]>>, TreeletSize)
  IN  Close(file[Cardinality(S)])

(* The list of the treelets, and the end of the table. *)
Finish ==
  /\ pc = "rows" /\ next = NumVertices
  /\ disk' = [disk EXCEPT !.list = IF job.ie THEN @ ELSE ListOf(Unique),
                          !.dtz = IF CanClose(writer) THEN Close(writer) ELSE @]
  /\ pc' = IF CanClose(writer) THEN "roots" ELSE "failed"
  /\ UNCHANGED <<job, runs, next, info, writer, roots, before, sampler>>

WriteRoots ==
  /\ pc = "roots"
  /\ \/ /\ \E v \in DOMAIN roots.U : roots.U[v] * roots.n >= Modulus
        /\ Fail
        /\ UNCHANGED disk
     \/ /\ \A v \in DOMAIN roots.U : roots.U[v] * roots.n < Modulus
        /\ disk' = [disk EXCEPT !.rts = AliasBuild(roots)]
        /\ pc' = "info"
        /\ UNCHANGED <<next, info, roots>>
  /\ UNCHANGED <<job, runs, writer, before, sampler>>

(* TotTreelets, whether or not there is an .info file already. *)
WriteInfo ==
  /\ pc = "info"
  /\ disk' = [disk EXCEPT !.info = IF job.ie THEN @ ELSE [n |-> roots.total]]
  /\ pc' = "done"
  /\ UNCHANGED <<job, runs, next, info, writer, roots, before, sampler>>

RecordAt(u) == GetRecord(disk.dtz, u, PairSize)

Vertices == 0 .. NumVertices - 1
RowTotals == [v \in Vertices |-> SumTo(info[v], Len(info[v]))]
RowTotal(v) == RowTotals[v]
NothingWrapped == \A v \in Vertices : RowTotal(v) < Modulus

(* root_sampler: a vertex at a time. *)
RootsOf(n, ranges) ==
  LET set[k \in 0 .. n] ==
        IF k = 0 THEN AliasNew(n) ELSE AliasSet(set[k - 1], k - 1, Lengths(ranges[k - 1]))
  IN  AliasBuild(set[n])

(* TreeletSampler::set_selector(): whichever thread builds the sampler of a *)
(* vertex, it depends on the table alone.  What it makes of sums that have *)
(* wrapped is left out.                                                    *)
SetSelector ==
  /\ pc = "done" /\ NothingWrapped
  /\ \E selector \in Selectors :
       LET ranges == [u \in Vertices |-> RangesOf(RecordAt(u), selector)]
       IN  sampler' = [selector |-> selector, ranges |-> ranges,
                       roots |-> RootsOf(NumVertices, ranges)]
  /\ UNCHANGED <<job, pc, runs, next, info, writer, roots, disk, before>>

DropSelector ==
  /\ sampler # None
  /\ sampler' = None
  /\ UNCHANGED <<job, pc, runs, next, info, writer, roots, disk, before>>

Next ==
  \/ Start \/ ReadFile \/ Check \/ WriteRow \/ Finish
  \/ WriteRoots \/ WriteInfo \/ SetSelector \/ DropSelector

Spec == Init /\ [][Next]_vars

-----------------------------------------------------------------------------
(* Properties. *)

AllRows == UNION {ToSet(job.files[i].rows) : i \in DOMAIN job.files}
RowOf(v) == (CHOOSE r \in AllRows : r[1] = v)[2]
CountIn(row, t) ==
  LET counts == [k \in DOMAIN row |-> IF row[k].t = t THEN row[k].n ELSE 0]
  IN  MapThenSumSet(LAMBDA k : counts[k], DOMAIN row)
Known == UNION {{x.t : x \in ToSet(r[2])} : r \in AllRows}

(* A table that is complete has, at every vertex, the counts of the files: *)
(* by search, through the compressed records, even for a vertex whose sums *)
(* wrap; and by number, when they do not, each treelet as often as it was  *)
(* counted.  The iterator from a structure on gives the rest of the row,   *)
(* and the list has every treelet once, in the order of the rows.          *)
TableIsFaithful ==
  pc = "done" =>
    /\ \A v \in Vertices : \A t \in Known :
         LET record == RecordAt(v)
             row == RowOf(v)
         IN  /\ GetCount(record, t) = CountIn(row, t)
             /\ \E d \in 0 .. Len(row) :
                  /\ {k \in DOMAIN row : row[k].t.s <= t.s} = d + 1 .. Len(row)
                  /\ From(record, TreeletOf(t.s)) = SubSeq(row, d + 1, Len(row))
             /\ RowTotal(v) < Modulus =>
                  /\ Cardinality({no \in 0 .. RowTotal(v) - 1 : GetTreeletNo(record, no) = t})
                       = CountIn(row, t)
                  /\ Cardinality({r \in 1 .. RowTotal(v) : DrawnTreelet(record, r) = t})
                       = CountIn(row, t)
    /\ ~job.ie =>
         [k \in 1 .. disk.list.number |-> GetRecord(disk.list, k - 1, TreeletSize)[1]]
           = Sorted(Known)

(* Where the rows of a vertex are: the file, and the place in it. *)
Places(v) == {p \in UNION {{i} \X DOMAIN job.files[i].rows : i \in DOMAIN job.files} :
                job.files[p[1]].rows[p[2]][1] = v}
FitTogether ==
  /\ \A i \in DOMAIN job.files : job.files[i].whole /\ job.files[i].nv = NumVertices
  /\ \A v \in Vertices : \E p \in Places(v) : Places(v) = {p}

(* A merge is carried out only on whole files that have the same number of *)
(* vertices and between them one row of each; one that is refused has not  *)
(* touched the files of an earlier merge.                                  *)
RefusesBadInput ==
  /\ pc \in {"rows", "roots", "info", "done"} => FitTogether
  /\ pc = "failed" /\ ~FitTogether => disk = before

(* The root sampler of a complete table draws each vertex in proportion to *)
(* the sum of its counts, whatever the order in which over- and underfull  *)
(* elements met, and the .info file has the sum of all.                    *)
RootsAreExact ==
  pc = "done" /\ NothingWrapped =>
    /\ \A v \in Vertices : AliasWeight(disk.rts, v) = NumVertices * RowTotal(v)
    /\ ~job.ie => disk.info.n = MapThenSumSet(RowTotal, Vertices)

(* With a selection, the numbers that can be drawn at a vertex are those of *)
(* the treelets selected, each once, and the roots are drawn accordingly.  *)
SelectionIsExact ==
  sampler # None =>
    \A v \in Vertices :
      LET ranges == sampler.ranges[v]
          drawn == [r \in 0 .. Lengths(ranges) - 1 |-> InRanges(ranges, r)]
          numbers == {no \in 0 .. RowTotal(v) - 1 :
                        IsIncluded(sampler.selector, GetTreeletNo(RecordAt(v), no).s)}
      IN  /\ IsInjective(drawn)
          /\ {drawn[r] : r \in DOMAIN drawn} = numbers
          /\ AliasWeight(sampler.roots, v) = NumVertices * Lengths(ranges)

(* Random.h:78 says of random_uint() that the integer is chosen uniformly  *)
(* at random, hence TreeletTable.h:134 that the treelet is.                *)
RandomIsUniform ==
  pc = "done" =>
    \A v \in Vertices :
      \A r \in 1 .. Total(RecordAt(v)) : Weight(1, Total(RecordAt(v)), r) = 1
=============================================================================

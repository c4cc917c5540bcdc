--------------------------- MODULE TableFilesProofs ---------------------------
(***************************************************************************)
(* That motivo-merge accepts count files only if they fit together, and    *)
(* leaves the files of an earlier merge alone otherwise; that the root     *)
(* sampler it writes draws each root as often as the root has treelets;    *)
(* that its table answers as the files say, through the compression of the *)
(* records and the searches in them; and that what is drawn with a         *)
(* selection are the treelets selected: for every list of files, every     *)
(* number of vertices, every count and every number of merges in a row.    *)
(***************************************************************************)
EXTENDS TableFiles, SequenceTheorems, SumTheorems

Files == job.files
VertexAt(files, i, k) == files[i].rows[k][1]
VerticesOf(files, i) == {VertexAt(files, i, k) : k \in DOMAIN files[i].rows}

(* While the files are read: those read so far fit together, and the       *)
(* vertices seen are theirs, each at one place.                            *)
ReadInv ==
  /\ next \in 1 .. Len(Files) + 1
  /\ disk = before
  /\ \A i \in 1 .. next - 1 : Files[i].whole /\ Files[i].nv = NumVertices
  /\ DOMAIN info = UNION {VerticesOf(Files, i) : i \in 1 .. next - 1}
  /\ \A i, j \in 1 .. next - 1 :
       \A k \in DOMAIN Files[i].rows : \A l \in DOMAIN Files[j].rows :
         VertexAt(Files, i, k) = VertexAt(Files, j, l) => i = j /\ k = l

Writing == {"rows", "roots", "info", "done"}

MergeInv ==
  /\ pc \in {"idle", "read", "failed"} \cup Writing
  /\ pc # "idle" => job \in Merges
  /\ pc = "read" => ReadInv
  /\ pc \in Writing => FitTogether
  /\ pc = "failed" => FitTogether \/ disk = before

-----------------------------------------------------------------------------
LEMMA JobFacts ==
  ASSUME job \in Merges
  PROVE  /\ Len(Files) \in Nat \ {0} /\ DOMAIN Files = 1 .. Len(Files)
         /\ NumVertices \in Nat
         /\ \A i \in 1 .. Len(Files) :
              /\ Files[i] \in CountFile
              /\ DOMAIN Files[i].rows = 1 .. Len(Files[i].rows)
              /\ \A k \in DOMAIN Files[i].rows :
                   VertexAt(Files, i, k) \in Nat /\ VertexAt(Files, i, k) < Files[i].nv
<1>1. /\ Files \in Seq(CountFile) /\ Files # <<>>
      /\ \A i \in DOMAIN Files : \A k \in DOMAIN Files[i].rows :
           VertexAt(Files, i, k) < Files[i].nv
  BY MergesAssumption DEF MergesAssumption, Files, VertexAt
<1>2. Len(Files) \in Nat \ {0} /\ DOMAIN Files = 1 .. Len(Files)
  BY <1>1
<1>3. \A i \in 1 .. Len(Files) : Files[i] \in CountFile
  BY <1>1, <1>2
<1>4. NumVertices \in Nat
  BY <1>2, <1>3 DEF NumVertices, CountFile, Files
<1>5. ASSUME NEW i \in 1 .. Len(Files)
      PROVE  /\ DOMAIN Files[i].rows = 1 .. Len(Files[i].rows)
             /\ \A k \in DOMAIN Files[i].rows : VertexAt(Files, i, k) \in Nat
  <2> DEFINE rows == Files[i].rows
             S == Seq([t : [s : Nat, c : SUBSET AllColors], n : Nat])
  <2>1. rows \in Seq(Nat \X S)
    BY <1>3 DEF CountFile
  <2> HIDE DEF S
  <2>2. \A k \in DOMAIN rows : rows[k] \in Nat \X S
    BY <2>1
  <2>3. \A k \in DOMAIN rows : rows[k][1] \in Nat
    BY <2>2
  <2> QED BY <2>1, <2>3 DEF VertexAt
<1> QED BY <1>1, <1>2, <1>3, <1>4, <1>5

LEMMA RangeCardinality ==
  ASSUME NEW n \in Nat
  PROVE  IsFiniteSet(0 .. n - 1) /\ Cardinality(0 .. n - 1) = n
<1>1. 0 \in Int /\ n - 1 \in Int /\ n - 1 - 0 + 1 = n
  OBVIOUS
<1>2. IsFiniteSet(0 .. n - 1)
  BY <1>1, FS_Interval
<1>3. Cardinality(0 .. n - 1) = IF 0 > n - 1 THEN 0 ELSE n - 1 - 0 + 1
  BY <1>1, FS_Interval
<1>4. 0 > n - 1 <=> n = 0
  OBVIOUS
<1> QED BY <1>1, <1>2, <1>3, <1>4

(* A file that is whole, of the right size and without a vertex seen       *)
(* before, leaves the files read so far fitting together.                  *)
LEMMA ReadKeeps ==
  ASSUME MergeInv, ReadFile
  PROVE  MergeInv'
<1>1. /\ pc = "read" /\ next <= Len(Files) /\ job \in Merges /\ ReadInv
      /\ UNCHANGED <<job, disk, before>>
  BY DEF ReadFile, MergeInv, Files
<1>2. CASE Fail
  BY <1>1, <1>2 DEF Fail, MergeInv, ReadInv, Writing
<1>3. CASE /\ Files[next].nv = NumVertices /\ Files[next].whole
           /\ ~Duplicate(Files[next], DOMAIN info)
           /\ DOMAIN info' = DOMAIN info \cup {r[1] : r \in ToSet(Files[next].rows)}
           /\ next' = next + 1 /\ pc' = pc
  <2>1. next \in Nat /\ next \in 1 .. Len(Files) /\ Len(Files) \in Nat
    BY <1>1, JobFacts DEF ReadInv
  <2>2. 1 .. next' - 1 = (1 .. next - 1) \cup {next} /\ next' \in 1 .. Len(Files) + 1
    BY <1>3, <2>1
  <2>3. VerticesOf(Files, next) = {r[1] : r \in ToSet(Files[next].rows)}
    BY DEF VerticesOf, VertexAt, ToSet
  <2>4. /\ \A k, l \in DOMAIN Files[next].rows : VertexAt(Files, next, k) = VertexAt(Files, next, l) => k = l
        /\ \A k \in DOMAIN Files[next].rows : VertexAt(Files, next, k) \notin DOMAIN info
    BY <1>3 DEF Duplicate, IsInjective, VertexAt
  <2>5. \A i \in 1 .. next - 1 : \A k \in DOMAIN Files[i].rows : VertexAt(Files, i, k) \in DOMAIN info
    BY <1>1 DEF ReadInv, VerticesOf
  <2>6. DOMAIN info' = UNION {VerticesOf(Files, i) : i \in 1 .. next' - 1}
    BY <1>1, <1>3, <2>2, <2>3 DEF ReadInv
  <2>7. \A i, j \in 1 .. next' - 1 :
          \A k \in DOMAIN Files[i].rows : \A l \in DOMAIN Files[j].rows :
            VertexAt(Files, i, k) = VertexAt(Files, j, l) => i = j /\ k = l
    <3>1. ASSUME NEW i \in 1 .. next' - 1, NEW j \in 1 .. next' - 1,
                 NEW k \in DOMAIN Files[i].rows, NEW l \in DOMAIN Files[j].rows,
                 VertexAt(Files, i, k) = VertexAt(Files, j, l)
          PROVE  i = j /\ k = l
      <4>1. CASE i = next /\ j = next
        BY <2>4, <3>1, <4>1
      <4>2. CASE i = next /\ j \in 1 .. next - 1
        BY <2>4, <2>5, <3>1, <4>2
      <4>3. CASE i \in 1 .. next - 1 /\ j = next
        BY <2>4, <2>5, <3>1, <4>3
      <4>4. CASE i \in 1 .. next - 1 /\ j \in 1 .. next - 1
        BY <1>1, <3>1, <4>4 DEF ReadInv
      <4> QED BY <2>2, <4>1, <4>2, <4>3, <4>4
    <3> QED BY <3>1
  <2>8. \A i \in 1 .. next' - 1 : Files[i].whole /\ Files[i].nv = NumVertices
    BY <1>1, <1>3, <2>2 DEF ReadInv
  <2>9. ReadInv'
    <3>1. Files' = Files /\ NumVertices' = NumVertices /\ disk' = before'
      BY <1>1 DEF Files, NumVertices, ReadInv
    <3>2. next' \in 1 .. Len(Files') + 1
      BY <2>2, <3>1
    <3>3. \A i \in 1 .. next' - 1 : Files'[i].whole /\ Files'[i].nv = NumVertices'
      BY <2>8, <3>1
    <3>4. DOMAIN info' = UNION {VerticesOf(Files', i) : i \in 1 .. next' - 1}
      BY <2>6, <3>1
    <3>5. \A i, j \in 1 .. next' - 1 :
            \A k \in DOMAIN Files'[i].rows : \A l \in DOMAIN Files'[j].rows :
              VertexAt(Files', i, k) = VertexAt(Files', j, l) => i = j /\ k = l
      BY <2>7, <3>1
    <3> QED BY <3>1, <3>2, <3>3, <3>4, <3>5 DEF ReadInv
  <2> QED BY <1>1, <1>3, <2>9 DEF MergeInv, Writing
<1> QED BY <1>2, <1>3 DEF ReadFile, Files

(* As many vertices seen as there are: each has been, once.                *)
LEMMA SeenVertices ==
  ASSUME job \in Merges, ReadInv, next > Len(Files), Cardinality(DOMAIN info) = NumVertices
  PROVE  DOMAIN info = Vertices
<1>1. /\ Len(Files) \in Nat /\ DOMAIN Files = 1 .. Len(Files) /\ NumVertices \in Nat
      /\ next - 1 = Len(Files)
  BY JobFacts DEF ReadInv
<1>2. \A i \in DOMAIN Files : Files[i].whole /\ Files[i].nv = NumVertices
  BY <1>1 DEF ReadInv
<1>3. DOMAIN info \subseteq Vertices
  <2>1. \A i \in DOMAIN Files : \A k \in DOMAIN Files[i].rows : VertexAt(Files, i, k) \in Vertices
    BY <1>1, <1>2, JobFacts DEF Vertices
  <2> QED BY <1>1, <2>1 DEF ReadInv, VerticesOf
<1> QED BY <1>1, <1>3, RangeCardinality, FS_Subset DEF Vertices

LEMMA AllSeen ==
  ASSUME job \in Merges, ReadInv, next > Len(Files), Cardinality(DOMAIN info) = NumVertices
  PROVE  FitTogether
<1>1. /\ Len(Files) \in Nat /\ DOMAIN Files = 1 .. Len(Files) /\ NumVertices \in Nat
      /\ next - 1 = Len(Files)
  BY JobFacts DEF ReadInv
<1>2. \A i \in DOMAIN Files : Files[i].whole /\ Files[i].nv = NumVertices
  BY <1>1 DEF ReadInv
<1>4. DOMAIN info = Vertices
  BY SeenVertices
<1>5. ASSUME NEW v \in Vertices PROVE \E p \in Places(v) : Places(v) = {p}
  <2>1. PICK i \in DOMAIN Files : \E k \in DOMAIN Files[i].rows : VertexAt(Files, i, k) = v
    BY <1>1, <1>4 DEF ReadInv, VerticesOf
  <2>2. PICK k \in DOMAIN Files[i].rows : VertexAt(Files, i, k) = v
    BY <2>1
  <2>3. <<i, k>> \in Places(v)
    BY <2>2 DEF Places, Files, VertexAt
  <2>4. ASSUME NEW p \in Places(v) PROVE p = <<i, k>>
    <3>1. PICK j \in DOMAIN Files : p \in {j} \X DOMAIN Files[j].rows
      BY DEF Places, Files
    <3>2. PICK l \in DOMAIN Files[j].rows : p = <<j, l>>
      BY <3>1
    <3>3. VertexAt(Files, j, l) = v
      BY <3>2 DEF Places, VertexAt, Files
    <3>4. j = i /\ l = k
      BY <1>1, <2>2, <3>3 DEF ReadInv
    <3> QED BY <3>2, <3>4
  <2> QED BY <2>3, <2>4
<1> QED BY <1>2, <1>5 DEF FitTogether, Files

LEMMA SameJob == UNCHANGED job => FitTogether' = FitTogether /\ Files' = Files /\ NumVertices' = NumVertices
BY DEF FitTogether, Files, NumVertices, Vertices, Places

(* The steps of write_table. *)
LEMMA WriteKeeps ==
  ASSUME MergeInv, Check \/ WriteRow \/ Finish \/ WriteRoots \/ WriteInfo
  PROVE  MergeInv'
<1>1. UNCHANGED <<job, before>> /\ pc # "idle" /\ job \in Merges
  BY DEF MergeInv, Check, WriteRow, Finish, WriteRoots, WriteInfo
<1>2. CASE Check
  <2>1. pc = "read" /\ ReadInv /\ next > Len(Files)
    BY <1>2 DEF Check, MergeInv, Files
  <2>2. CASE Cardinality(DOMAIN info) # NumVertices
    <3>1. pc' = "failed" /\ disk' = before'
      BY <1>1, <1>2, <2>1, <2>2 DEF Check, Fail, ReadInv
    <3> QED BY <1>1, <3>1 DEF MergeInv, Writing
  <2>3. CASE Cardinality(DOMAIN info) = NumVertices
    <3>1. FitTogether
      BY <1>1, <2>1, <2>3, AllSeen
    <3>2. pc' = "rows"
      BY <1>2, <2>3 DEF Check
    <3> QED BY <1>1, <3>1, <3>2, SameJob DEF MergeInv, Writing
  <2> QED BY <2>2, <2>3
<1>3. CASE WriteRow \/ Finish \/ WriteRoots \/ WriteInfo
  <2>1. pc \in Writing /\ pc' \in Writing \cup {"failed"}
    BY <1>3 DEF WriteRow, Finish, WriteRoots, WriteInfo, Fail, Writing
  <2>2. FitTogether
    BY <2>1 DEF MergeInv
  <2> QED BY <1>1, <2>1, <2>2, SameJob DEF MergeInv, Writing
<1> QED BY <1>2, <1>3

LEMMA MergeNext == MergeInv /\ [Next]_vars => MergeInv'
<1> SUFFICES ASSUME MergeInv, [Next]_vars PROVE MergeInv'
  OBVIOUS
<1>1. CASE Start
  <2>1. /\ job' \in Merges /\ pc' = "read" /\ next' = 1 /\ DOMAIN info' = {}
        /\ before' = disk /\ disk' = disk
    BY <1>1 DEF Start
  <2>2. Len(Files') \in Nat
    BY <2>1, MergesAssumption DEF MergesAssumption, Files
  <2>3. 1 .. next' - 1 = {}
    BY <2>1
  <2>4. ReadInv'
    BY <2>1, <2>2, <2>3 DEF ReadInv
  <2> QED BY <2>1, <2>4 DEF MergeInv, Writing
<1>2. CASE ReadFile
  BY <1>2, ReadKeeps
<1>3. CASE Check \/ WriteRow \/ Finish \/ WriteRoots \/ WriteInfo
  BY <1>3, WriteKeeps
<1>4. CASE SetSelector \/ DropSelector \/ UNCHANGED vars
  <2>1. UNCHANGED <<job, pc, next, info, disk, before>>
    BY <1>4 DEF SetSelector, DropSelector, vars
  <2>2. ReadInv' = ReadInv
    BY <2>1 DEF ReadInv, Files, VerticesOf, VertexAt, NumVertices
  <2> QED BY <2>1, <2>2, SameJob DEF MergeInv
<1> QED BY <1>1, <1>2, <1>3, <1>4 DEF Next

(* merge() reads every file before it writes anything.                     *)
THEOREM MergeInvariant == Spec => []MergeInv
<1>1. Init => MergeInv
  BY DEF Init, MergeInv, Writing
<1> QED BY <1>1, MergeNext, PTL DEF Spec

(* merge() carries out a merge only on files that fit together, and one it *)
(* refuses leaves the table of an earlier merge as it was.                 *)
THEOREM BadInputRefused == Spec => []RefusesBadInput
<1>1. MergeInv => RefusesBadInput
  BY DEF MergeInv, RefusesBadInput, Writing
<1> QED BY <1>1, MergeInvariant, PTL

-----------------------------------------------------------------------------
(* The alias table, AliasMethodSampler::build(). *)

Members(s) == {s[i] : i \in 1 .. Len(s)}
Distinct(s) == \A i, j \in 1 .. Len(s) : s[i] = s[j] => i = j
Stack(s, S) == s \in Seq(S) /\ Distinct(s)

LEMMA StackPushed ==
  ASSUME NEW S, NEW s, Stack(s, S), NEW x \in S, x \notin Members(s)
  PROVE  /\ Stack(Append(s, x), S) /\ Len(Append(s, x)) = Len(s) + 1
         /\ Members(Append(s, x)) = Members(s) \cup {x}
<1> DEFINE r == Append(s, x)
<1>1. s \in Seq(S) /\ Len(s) \in Nat /\ Distinct(s)
  BY DEF Stack
<1>2. /\ r \in Seq(S) /\ Len(r) = Len(s) + 1 /\ r[Len(s) + 1] = x
      /\ \A i \in 1 .. Len(s) : r[i] = s[i]
  BY <1>1
<1> HIDE DEF r
<1>3. Members(r) = Members(s) \cup {x}
  <2>1. 1 .. Len(r) = (1 .. Len(s)) \cup {Len(s) + 1}
    BY <1>1, <1>2
  <2> QED BY <1>2, <2>1 DEF Members
<1>4. \A i \in 1 .. Len(s) : s[i] # x
  BY DEF Members
<1>5. Distinct(r)
  BY <1>1, <1>2, <1>4 DEF Distinct
<1> QED BY <1>2, <1>3, <1>5 DEF Stack, r

LEMMA StackPopped ==
  ASSUME NEW S, NEW s, Stack(s, S), s # <<>>
  PROVE  /\ Last(s) \in Members(s) /\ Last(s) \in S
         /\ Stack(Front(s), S) /\ Len(Front(s)) = Len(s) - 1
         /\ Members(Front(s)) = Members(s) \ {Last(s)}
<1> DEFINE r == Front(s)
           n == Len(s)
<1>1. s \in Seq(S) /\ n \in Nat \ {0} /\ Distinct(s)
  BY DEF Stack
<1>2. /\ r \in Seq(S) /\ Len(r) = n - 1 /\ Last(s) = s[n] /\ s[n] \in S
      /\ \A i \in 1 .. n - 1 : r[i] = s[i]
  <2>1. Last(s) = s[n] /\ s[n] \in S
    BY <1>1 DEF Last
  <2>2. r = SubSeq(s, 1, n - 1)
    BY DEF Front
  <2>3. \A i \in 1 .. n - 1 : s[i] \in S
    BY <1>1
  <2>4. r = [i \in 1 .. n - 1 |-> s[i]] /\ n - 1 \in Nat
    BY <1>1, <2>2
  <2> HIDE DEF r
  <2>5. r \in Seq(S) /\ Len(r) = n - 1
    BY <2>3, <2>4
  <2> QED BY <2>1, <2>4, <2>5
<1>3. 1 .. n = (1 .. n - 1) \cup {n} /\ \A i \in 1 .. n - 1 : i # n
  BY <1>1
<1> HIDE DEF r
<1>4. Distinct(r)
  BY <1>1, <1>2 DEF Distinct
<1>5. \A i \in 1 .. n - 1 : s[i] # s[n]
  BY <1>1, <1>3 DEF Distinct
<1>6. Members(r) = Members(s) \ {s[n]}
  BY <1>1, <1>2, <1>3, <1>5 DEF Members
<1>7. s[n] \in Members(s)
  BY <1>1 DEF Members
<1> QED BY <1>2, <1>4, <1>6, <1>7 DEF Stack, r

-----------------------------------------------------------------------------
(* The state of build() between two rounds: U0 are the weights times the   *)
(* number n of elements, total the sum of the weights.                     *)
Waiting(st) == Members(st.over) \cup Members(st.under)

(* What is given away by the elements settled with alias e. *)
Gift(st, total, e) ==
  [i \in DOMAIN st.U |-> IF i \notin Waiting(st) /\ st.K[i] = e THEN total - st.U[i] ELSE 0]

Excess(st, total) ==
  [i \in DOMAIN st.U |-> IF i \in Waiting(st) THEN st.U[i] - total ELSE 0]

RoundType(st, n) ==
  /\ st.U \in [0 .. n - 1 -> Nat] /\ st.K \in [0 .. n - 1 -> Nat]
  /\ Stack(st.over, 0 .. n - 1) /\ Stack(st.under, 0 .. n - 1)

RoundLists(st, n, total) ==
  /\ \A i \in Members(st.over) : st.U[i] > total
  /\ \A i \in Members(st.under) : st.U[i] < total
  /\ \A i \in 0 .. n - 1 : i \notin Waiting(st) => st.U[i] <= total

RoundInv(st, n, total, U0) ==
  /\ RoundType(st, n) /\ RoundLists(st, n, total)
  /\ Sigma(Excess(st, total), 0 .. n - 1) = 0
  /\ \A e \in 0 .. n - 1 : st.U[e] + Sigma(Gift(st, total, e), 0 .. n - 1) = U0[e]

LEMMA WaitingIn ==
  ASSUME NEW n \in Nat, NEW st, RoundType(st, n)
  PROVE  /\ Members(st.over) \subseteq 0 .. n - 1 /\ Members(st.under) \subseteq 0 .. n - 1
         /\ IsFiniteSet(0 .. n - 1)
<1>1. IsFiniteSet(0 .. n - 1)
  BY FS_Interval
<1>2. \A s : Stack(s, 0 .. n - 1) => Members(s) \subseteq 0 .. n - 1
  BY DEF Stack, Members
<1> QED BY <1>1, <1>2 DEF RoundType

(* The assertion of the loop: next to an overfull element there is an       *)
(* underfull one.                                                          *)
LEMMA UnderfullLeft ==
  ASSUME NEW n \in Nat, NEW total \in Nat, NEW U0, NEW st, RoundInv(st, n, total, U0),
         st.over # <<>>
  PROVE  st.under # <<>>
<1> DEFINE I == 0 .. n - 1
           f == Excess(st, total)
<1>1. SUFFICES ASSUME st.under = <<>> PROVE FALSE
  OBVIOUS
<1>2. RoundType(st, n) /\ RoundLists(st, n, total) /\ st.U \in [I -> Nat] /\ Sigma(f, I) = 0
  BY DEF RoundInv, RoundType
<1>3. Members(st.under) = {}
  BY <1>1 DEF Members
<1>4. \A i \in I : f[i] \in Nat
  BY <1>2, <1>3 DEF Excess, Waiting, RoundLists
<1>5. PICK t \in I : t \in Members(st.over)
  BY <1>2, StackPopped DEF RoundType
<1>6. f[t] > 0
  BY <1>2, <1>5 DEF Excess, Waiting, RoundLists
<1> HIDE DEF f
<1>7. Sigma(f, I) > 0
  BY <1>2, <1>4, <1>6, SigmaPositive, WaitingIn
<1> QED BY <1>2, <1>7

(* The assertion after the loop: with no overfull element left there is no *)
(* underfull one.                                                          *)
LEMMA NoUnderfullLeft ==
  ASSUME NEW n \in Nat, NEW total \in Nat, NEW U0, NEW st, RoundInv(st, n, total, U0),
         st.over = <<>>
  PROVE  Waiting(st) = {}
<1> DEFINE I == 0 .. n - 1
           f == Excess(st, total)
           g == [i \in I |-> -f[i]]
<1>1. RoundType(st, n) /\ RoundLists(st, n, total) /\ st.U \in [I -> Nat] /\ Sigma(f, I) = 0
  BY DEF RoundInv, RoundType
<1>2. Members(st.over) = {}
  BY DEF Members
<1>3. SUFFICES ASSUME NEW t \in Members(st.under) PROVE FALSE
  BY <1>2 DEF Waiting
<1>4. \A i \in I : f[i] \in Int /\ -f[i] \in Nat
  BY <1>1, <1>2 DEF Excess, Waiting, RoundLists
<1>5. t \in I /\ -f[t] > 0
  BY <1>1, <1>3, WaitingIn DEF Excess, Waiting, RoundLists
<1> HIDE DEF f
<1>6. \A i \in I : g[i] = -f[i]
  OBVIOUS
<1> HIDE DEF g
<1>7. IsFiniteSet(I)
  BY <1>1, WaitingIn
<1>8. Sigma(g, I) = -Sigma(f, I)
  BY <1>4, <1>6, <1>7, SigmaNegated
<1>9. Sigma(g, I) > 0
  BY <1>4, <1>5, <1>6, <1>7, SigmaPositive
<1> QED BY <1>1, <1>8, <1>9

LEMMA RoundKeeps ==
  ASSUME NEW n \in Nat, NEW total \in Nat, NEW U0, NEW st, RoundInv(st, n, total, U0),
         st.over # <<>>
  PROVE  LET after == AliasStep(st, total)
         IN  /\ RoundInv(after, n, total, U0)
             /\ Len(after.over) + Len(after.under) < Len(st.over) + Len(st.under)
<1> DEFINE I == 0 .. n - 1
           of == Last(st.over)
           uf == Last(st.under)
           left == st.U[of] - (total - st.U[uf])
           d == total - st.U[uf]
           after == AliasStep(st, total)
<1>1. /\ RoundType(st, n) /\ RoundLists(st, n, total)
      /\ st.U \in [I -> Nat] /\ st.K \in [I -> Nat]
      /\ Stack(st.over, I) /\ Stack(st.under, I) /\ IsFiniteSet(I)
  BY WaitingIn DEF RoundInv, RoundType
<1>2. /\ of \in Members(st.over) /\ of \in I
      /\ Stack(Front(st.over), I) /\ Len(Front(st.over)) = Len(st.over) - 1
      /\ Members(Front(st.over)) = Members(st.over) \ {of}
  BY <1>1, StackPopped
<1>3. /\ uf \in Members(st.under) /\ uf \in I
      /\ Stack(Front(st.under), I) /\ Len(Front(st.under)) = Len(st.under) - 1
      /\ Members(Front(st.under)) = Members(st.under) \ {uf}
  BY <1>1, UnderfullLeft, StackPopped
<1>4. /\ after.U = [st.U EXCEPT ![of] = left]
      /\ after.K = [st.K EXCEPT ![uf] = of]
      /\ after.over = IF left > total THEN st.over ELSE Front(st.over)
      /\ after.under = IF left < total THEN Append(Front(st.under), of) ELSE Front(st.under)
  BY DEF AliasStep
<1> HIDE DEF of, uf, after
<1>5. /\ st.U[of] \in Nat /\ st.U[uf] \in Nat /\ st.U[of] > total /\ st.U[uf] < total
      /\ of # uf /\ left \in Nat /\ d \in Nat /\ left = st.U[of] - d
      /\ d = total - st.U[uf]
  <2>1. st.U[of] \in Nat /\ st.U[uf] \in Nat /\ st.U[of] > total /\ st.U[uf] < total
    BY <1>1, <1>2, <1>3 DEF RoundLists
  <2> QED BY <2>1
<1> HIDE DEF left, d
<1>6. /\ of \notin Members(st.under) /\ uf \notin Members(st.over)
      /\ Members(st.over) \cap Members(st.under) = {}
  <2>1. /\ \A i \in Members(st.over) : st.U[i] > total /\ st.U[i] \in Nat
        /\ \A i \in Members(st.under) : st.U[i] < total /\ st.U[i] \in Nat
    BY <1>1, WaitingIn DEF RoundLists
  <2>2. \A m \in Nat : ~(m > total /\ m < total)
    OBVIOUS
  <2> QED BY <1>2, <1>3, <2>1, <2>2
<1>7. /\ Stack(after.over, I)
      /\ Members(after.over) = IF left > total THEN Members(st.over) ELSE Members(st.over) \ {of}
  BY <1>1, <1>2, <1>4
<1>8. /\ Stack(after.under, I)
      /\ Members(after.under) = (Members(st.under) \ {uf}) \cup (IF left < total THEN {of} ELSE {})
  <2>1. CASE left < total
    BY <1>2, <1>3, <1>4, <1>6, <2>1, StackPushed
  <2>2. CASE ~(left < total)
    BY <1>3, <1>4, <2>2
  <2> QED BY <2>1, <2>2
<1>9. Waiting(after) = (Waiting(st) \ {uf}) \ (IF left = total THEN {of} ELSE {})
  BY <1>2, <1>3, <1>5, <1>6, <1>7, <1>8 DEF Waiting
<1>10. /\ after.U \in [I -> Nat] /\ after.K \in [I -> Nat]
       /\ after.U[of] = left /\ after.U[uf] = st.U[uf] /\ after.K[uf] = of
       /\ \A i \in I \ {of} : after.U[i] = st.U[i]
       /\ \A i \in I \ {uf} : after.K[i] = st.K[i]
  <2>1. /\ after.U \in [I -> Nat] /\ after.U[of] = left
        /\ \A i \in I \ {of} : after.U[i] = st.U[i]
    BY <1>1, <1>2, <1>4, <1>5
  <2>2. of \in Nat
    BY <1>2
  <2>3. /\ after.K \in [I -> Nat] /\ after.K[uf] = of
        /\ \A i \in I \ {uf} : after.K[i] = st.K[i]
    BY <1>1, <1>3, <1>4, <2>2
  <2> QED BY <1>3, <1>5, <2>1, <2>3
<1>11. RoundType(after, n)
  BY <1>7, <1>8, <1>10 DEF RoundType
<1>12. RoundLists(after, n, total)
  <2>1. \A i \in Members(after.over) : after.U[i] > total
    BY <1>1, <1>2, <1>7, <1>10, WaitingIn DEF RoundLists
  <2>2. \A i \in Members(after.under) : after.U[i] < total
    BY <1>1, <1>6, <1>8, <1>10, WaitingIn DEF RoundLists
  <2>3. ASSUME NEW i \in I, i \notin Waiting(after) PROVE after.U[i] <= total
    <3>1. CASE i = of
      BY <1>2, <1>5, <1>6, <1>9, <1>10, <2>3, <3>1 DEF Waiting
    <3>2. CASE i = uf
      BY <1>5, <1>10, <3>2
    <3>3. CASE i # of /\ i # uf
      BY <1>1, <1>9, <1>10, <2>3, <3>3 DEF RoundLists
    <3> QED BY <3>1, <3>2, <3>3
  <2> QED BY <2>1, <2>2, <2>3 DEF RoundLists
<1>13. Sigma(Excess(after, total), I) = 0
  <2> DEFINE f == Excess(st, total)
             g == Excess(after, total)
             h == [f EXCEPT ![uf] = 0]
  <2>1. of \in Waiting(st) /\ uf \in Waiting(st)
    BY <1>2, <1>3 DEF Waiting
  <2>2. /\ f = [i \in I |-> IF i \in Waiting(st) THEN st.U[i] - total ELSE 0]
        /\ g = [i \in I |-> IF i \in Waiting(after) THEN after.U[i] - total ELSE 0]
    BY <1>1, <1>10 DEF Excess
  <2> HIDE DEF f, g, I
  <2>3. \A i \in I : st.U[i] \in Nat /\ after.U[i] \in Nat
    BY <1>1, <1>10
  <2>4. /\ DOMAIN f = I /\ f[of] = st.U[of] - total /\ f[uf] = 0 - d
        /\ \A i \in I : f[i] \in Int
    BY <1>2, <1>3, <1>5, <2>1, <2>2, <2>3
  <2>5. of \in I /\ uf \in I /\ of # uf /\ d \in Int /\ left = st.U[of] - d
        /\ st.U[of] \in Int /\ left \in Int /\ IsFiniteSet(I)
    BY <1>1, <1>2, <1>3, <1>5
  <2>6. g[uf] = 0
    BY <1>9, <2>2, <2>5
  <2>7. g[of] = left - total
    <3>1. after.U[of] = left /\ (left = total \/ of \in Waiting(after))
      BY <1>9, <1>10, <2>1, <2>5
    <3>2. g[of] = IF of \in Waiting(after) THEN left - total ELSE 0
      BY <2>2, <2>5, <3>1
    <3> QED BY <2>5, <3>1, <3>2
  <2>8. \A i \in I \ {of, uf} : g[i] = f[i]
    BY <1>9, <1>10, <2>2
  <2>9. h[uf] = f[uf] + d /\ (\A i \in I \ {uf} : h[i] = f[i]) /\ h[of] = f[of] /\ h[uf] = 0
    BY <2>4, <2>5
  <2>10. \A i \in I : f[i] \in Int /\ h[i] \in Int
    BY <2>4, <2>9
  <2> HIDE DEF h
  <2>11. Sigma(h, I) = Sigma(f, I) + d
    BY <2>5, <2>9, <2>10, SigmaChange
  <2>12. 0 - d \in Int /\ g[of] = h[of] + (0 - d)
    <3>1. f[of] = st.U[of] - total
      BY <2>4
    <3> QED BY <2>5, <2>7, <2>9, <3>1
  <2>14. \A i \in I \ {of} : g[i] = h[i]
    BY <2>6, <2>8, <2>9
  <2>15. Sigma(g, I) = Sigma(h, I) + (0 - d)
    BY <2>5, <2>10, <2>12, <2>14, SigmaChange
  <2>13. Sigma(f, I) = 0
    BY DEF RoundInv, f, I
  <2> QED BY <2>5, <2>11, <2>13, <2>15 DEF g, I
<1>14. ASSUME NEW e \in I
       PROVE  after.U[e] + Sigma(Gift(after, total, e), I) = U0[e]
  <2> DEFINE f == Gift(st, total, e)
             g == Gift(after, total, e)
             c == IF e = of THEN d ELSE 0
  <2>1. of \in Waiting(st) /\ uf \in Waiting(st)
    BY <1>2, <1>3 DEF Waiting
  <2>0. /\ f = [i \in I |-> IF i \notin Waiting(st) /\ st.K[i] = e THEN total - st.U[i] ELSE 0]
        /\ g = [i \in I |-> IF i \notin Waiting(after) /\ after.K[i] = e
                             THEN total - after.U[i] ELSE 0]
    BY <1>1, <1>10 DEF Gift
  <2> HIDE DEF f, g, I
  <2>2. /\ f[of] = 0 /\ f[uf] = 0
        /\ \A i \in I : f[i] \in Int
    <3>1. \A i \in I : st.U[i] \in Nat
      BY <1>1
    <3> QED BY <1>2, <1>3, <2>0, <2>1, <3>1
  <2>3. g[uf] = c
    BY <1>3, <1>5, <1>9, <1>10, <2>0
  <2>4. g[of] = 0
    <3>1. of \in I /\ after.U[of] = left
      BY <1>2, <1>10
    <3>2. CASE left = total
      <4>1. total - after.U[of] = 0
        BY <1>5, <3>1, <3>2
      <4> QED BY <2>0, <3>1, <4>1
    <3>3. CASE left # total
      <4>1. of \in Waiting(after)
        BY <1>5, <1>9, <2>1, <3>3
      <4> QED BY <2>0, <3>1, <4>1
    <3> QED BY <3>2, <3>3
  <2>5. \A i \in I \ {of, uf} : g[i] = f[i]
    BY <1>9, <1>10, <2>0
  <2>6. c \in Int /\ g[uf] = f[uf] + c /\ \A i \in I \ {uf} : g[i] = f[i]
    BY <1>5, <2>2, <2>3, <2>4, <2>5
  <2> HIDE DEF c
  <2>7. Sigma(g, I) = Sigma(f, I) + c
    BY <1>1, <1>3, <2>2, <2>6, SigmaChange
  <2>8. after.U[e] = st.U[e] - c /\ st.U[e] \in Nat
    <3>1. st.U[e] \in Nat
      BY <1>1
    <3>2. CASE e = of
      BY <1>5, <1>10, <3>1, <3>2 DEF c
    <3>3. CASE e # of
      BY <1>10, <3>1, <3>3 DEF c
    <3> QED BY <3>1, <3>2, <3>3
  <2>9. st.U[e] + Sigma(f, I) = U0[e] /\ Sigma(f, I) \in Int
    <3>1. Sigma(f, I) \in Int
      BY <1>1, <2>2, SigmaInt
    <3> QED BY <3>1 DEF RoundInv, f, I
  <2> QED BY <2>6, <2>7, <2>8, <2>9 DEF g
<1>15. Len(after.over) + Len(after.under) < Len(st.over) + Len(st.under)
  <2>1. Len(st.over) \in Nat /\ Len(st.under) \in Nat
    BY <1>1 DEF Stack
  <2>2. Len(Append(Front(st.under), of)) = Len(Front(st.under)) + 1
    BY <1>2, <1>3 DEF Stack
  <2> DEFINE a == Len(st.over)
             b == Len(st.under)
             p == Len(after.over)
             q == Len(after.under)
  <2>3. p = IF left > total THEN a ELSE a - 1
    BY <1>2, <1>4
  <2>4. q = IF left < total THEN b ELSE b - 1
    BY <1>3, <1>4, <2>1, <2>2
  <2> HIDE DEF a, b, p, q
  <2>5. a \in Nat /\ b \in Nat
    BY <2>1 DEF a, b
  <2>6. p + q < a + b
    BY <1>5, <2>3, <2>4, <2>5
  <2> QED BY <2>6 DEF a, b, p, q
<1>16. RoundInv(after, n, total, U0)
  BY <1>11, <1>12, <1>13, <1>14 DEF RoundInv
<1> QED BY <1>15, <1>16 DEF after

-----------------------------------------------------------------------------
(* The two loops of build() as functions of the number of rounds. *)
ListStep(a, g, k) ==
  IF k = 0
    THEN [U |-> [i \in DOMAIN a.U |-> a.U[i] * a.n], K |-> a.K, over |-> <<>>, under |-> <<>>]
    ELSE LET st == g[k - 1]
         IN  IF st.U[k - 1] > a.total THEN [st EXCEPT !.over = Append(@, k - 1)]
             ELSE IF st.U[k - 1] < a.total THEN [st EXCEPT !.under = Append(@, k - 1)]
             ELSE st

RoundStep(a, g, k) ==
  IF k = 0 THEN AliasListed(a)[a.n]
  ELSE LET st == g[k - 1] IN IF st.over = <<>> THEN st ELSE AliasStep(st, a.total)

IsListed(a, g, m) == g = [k \in 0 .. m |-> ListStep(a, g, k)]
IsRounds(a, g, m) == g = [k \in 0 .. m |-> RoundStep(a, g, k)]

LEMMA ListedIs ==
  ASSUME NEW a, a.n \in Nat
  PROVE  IsListed(a, AliasListed(a), a.n)
<1> DEFINE G == {m \in 0 .. a.n : \E g : IsListed(a, g, m)}
<1>1. 0 \in G
  <2> DEFINE g == [k \in 0 .. 0 |-> ListStep(a, <<>>, k)]
  <2>1. \A k \in 0 .. 0 : ListStep(a, g, k) = ListStep(a, <<>>, k)
    BY DEF ListStep
  <2> QED BY <2>1 DEF IsListed
<1>2. ASSUME NEW m \in 1 .. a.n, m - 1 \in G PROVE m \in G
  <2>1. PICK g : IsListed(a, g, m - 1)
    BY <1>2
  <2> DEFINE h == [k \in 0 .. m |-> ListStep(a, g, k)]
  <2>2. ASSUME NEW k \in 0 .. m PROVE ListStep(a, h, k) = ListStep(a, g, k)
    <3>1. CASE k = 0
      BY <3>1 DEF ListStep
    <3>2. CASE k # 0
      <4>1. k - 1 \in 0 .. m /\ k - 1 \in 0 .. m - 1
        BY <3>2
      <4>2. h[k - 1] = g[k - 1]
        BY <2>1, <4>1 DEF IsListed
      <4> HIDE DEF h
      <4> QED BY <4>2, <3>2 DEF ListStep
    <3> QED BY <3>1, <3>2
  <2>3. IsListed(a, h, m)
    BY <2>2 DEF IsListed
  <2> QED BY <2>3
<1>3. \E g : IsListed(a, g, a.n)
  <2> HIDE DEF G
  <2>1. 0 .. a.n \subseteq G
    BY <1>1, <1>2, UpTo
  <2>2. a.n \in G
    BY <2>1
  <2> QED BY <2>2 DEF G
<1>4. AliasListed(a) = CHOOSE g : IsListed(a, g, a.n)
  BY Zenon DEF AliasListed, IsListed, ListStep
<1> QED BY <1>3, <1>4

LEMMA RoundsAre ==
  ASSUME NEW a, a.n \in Nat
  PROVE  IsRounds(a, AliasRounds(a), a.n)
<1> DEFINE G == {m \in 0 .. a.n : \E g : IsRounds(a, g, m)}
<1>1. 0 \in G
  <2> DEFINE g == [k \in 0 .. 0 |-> RoundStep(a, <<>>, k)]
  <2>1. \A k \in 0 .. 0 : RoundStep(a, g, k) = RoundStep(a, <<>>, k)
    BY DEF RoundStep
  <2> QED BY <2>1 DEF IsRounds
<1>2. ASSUME NEW m \in 1 .. a.n, m - 1 \in G PROVE m \in G
  <2>1. PICK g : IsRounds(a, g, m - 1)
    BY <1>2
  <2> DEFINE h == [k \in 0 .. m |-> RoundStep(a, g, k)]
  <2>2. ASSUME NEW k \in 0 .. m PROVE RoundStep(a, h, k) = RoundStep(a, g, k)
    <3>1. CASE k = 0
      BY <3>1 DEF RoundStep
    <3>2. CASE k # 0
      <4>1. k - 1 \in 0 .. m /\ k - 1 \in 0 .. m - 1
        BY <3>2
      <4>2. h[k - 1] = g[k - 1]
        BY <2>1, <4>1 DEF IsRounds
      <4> HIDE DEF h
      <4> QED BY <4>2, <3>2 DEF RoundStep
    <3> QED BY <3>1, <3>2
  <2>3. IsRounds(a, h, m)
    BY <2>2 DEF IsRounds
  <2> QED BY <2>3
<1>3. \E g : IsRounds(a, g, a.n)
  <2> HIDE DEF G
  <2>1. 0 .. a.n \subseteq G
    BY <1>1, <1>2, UpTo
  <2>2. a.n \in G
    BY <2>1
  <2> QED BY <2>2 DEF G
<1>4. AliasRounds(a) = CHOOSE g : IsRounds(a, g, a.n)
  BY Zenon DEF AliasRounds, IsRounds, RoundStep
<1> QED BY <1>3, <1>4

-----------------------------------------------------------------------------
(* What set() leaves to build(). *)
AliasInput(a) ==
  /\ a = [n |-> a.n, total |-> a.total, U |-> a.U, K |-> a.K]
  /\ a.n \in Nat
  /\ a.U \in [0 .. a.n - 1 -> Nat] /\ a.K \in [0 .. a.n - 1 -> Nat]
  /\ a.total = Sigma(a.U, 0 .. a.n - 1)

Scaled(a) == [i \in 0 .. a.n - 1 |-> a.U[i] * a.n]

ListInv(a, st, k) ==
  /\ st = [U |-> Scaled(a), K |-> a.K, over |-> st.over, under |-> st.under]
  /\ Stack(st.over, 0 .. a.n - 1) /\ Stack(st.under, 0 .. a.n - 1)
  /\ Members(st.over) = {i \in 0 .. k - 1 : Scaled(a)[i] > a.total}
  /\ Members(st.under) = {i \in 0 .. k - 1 : Scaled(a)[i] < a.total}
  /\ Len(st.over) + Len(st.under) <= k

LEMMA InputFacts ==
  ASSUME NEW a, AliasInput(a)
  PROVE  /\ a.n \in Nat /\ a.total \in Nat /\ IsFiniteSet(0 .. a.n - 1)
         /\ Scaled(a) \in [0 .. a.n - 1 -> Nat]
<1>1. IsFiniteSet(0 .. a.n - 1)
  <2>1. a.n - 1 \in Int
    BY DEF AliasInput
  <2> QED BY <2>1, FS_Interval
<1>2. a.total \in Nat
  BY <1>1, SigmaType DEF AliasInput
<1>3. \A i \in 0 .. a.n - 1 : a.U[i] * a.n \in Nat
  BY DEF AliasInput
<1> QED BY <1>1, <1>2, <1>3 DEF AliasInput, Scaled

LEMMA RecordOver ==
  ASSUME NEW st, st = [U |-> st.U, K |-> st.K, over |-> st.over, under |-> st.under], NEW x
  PROVE  [st EXCEPT !.over = Append(@, x)]
         = [U |-> st.U, K |-> st.K, over |-> Append(st.over, x), under |-> st.under]
<1>1. PICK U, K, over, under : st = [U |-> U, K |-> K, over |-> over, under |-> under]
  BY Zenon
<1>2. st.U = U /\ st.K = K /\ st.over = over /\ st.under = under
  BY <1>1
<1>3. [st EXCEPT !.over = Append(@, x)]
      = [U |-> U, K |-> K, over |-> Append(over, x), under |-> under]
  BY <1>1
<1> QED BY <1>1, <1>2, <1>3

LEMMA RecordUnder ==
  ASSUME NEW st, st = [U |-> st.U, K |-> st.K, over |-> st.over, under |-> st.under], NEW x
  PROVE  [st EXCEPT !.under = Append(@, x)]
         = [U |-> st.U, K |-> st.K, over |-> st.over, under |-> Append(st.under, x)]
<1>1. PICK U, K, over, under : st = [U |-> U, K |-> K, over |-> over, under |-> under]
  BY Zenon
<1>2. st.U = U /\ st.K = K /\ st.over = over /\ st.under = under
  BY <1>1
<1>3. [st EXCEPT !.under = Append(@, x)]
      = [U |-> U, K |-> K, over |-> over, under |-> Append(under, x)]
  BY <1>1
<1> QED BY <1>1, <1>2, <1>3

LEMMA AllListed ==
  ASSUME NEW a, AliasInput(a)
  PROVE  ListInv(a, AliasListed(a)[a.n], a.n)
<1> DEFINE n == a.n
           I == 0 .. n - 1
           g == AliasListed(a)
           G == {k \in 0 .. n : ListInv(a, g[k], k)}
<1>1. \A k \in 0 .. n : g[k] = ListStep(a, g, k)
  BY ListedIs, InputFacts DEF IsListed
<1>2. n \in Nat /\ Scaled(a) \in [I -> Nat] /\ a.total \in Nat
  BY InputFacts
<1> HIDE DEF g
<1>3. 0 \in G
  <2>1. g[0] = [U |-> Scaled(a), K |-> a.K, over |-> <<>>, under |-> <<>>]
    <3>1. g[0] = [U |-> [i \in DOMAIN a.U |-> a.U[i] * a.n], K |-> a.K, over |-> <<>>, under |-> <<>>]
      <4>1. g[0] = ListStep(a, g, 0)
        BY <1>1, <1>2
      <4> QED BY <4>1, Zenon DEF ListStep
    <3>2. DOMAIN a.U = 0 .. a.n - 1
      BY DEF AliasInput
    <3> QED BY <3>1, <3>2 DEF Scaled
  <2>2. Stack(<<>>, I) /\ Members(<<>>) = {} /\ Len(<<>>) = 0
    BY DEF Stack, Members, Distinct
  <2>3. 0 .. 0 - 1 = {}
    OBVIOUS
  <2>4. ListInv(a, g[0], 0)
    BY <2>1, <2>2, <2>3 DEF ListInv
  <2> QED BY <1>2, <2>4
<1>4. ASSUME NEW k \in 1 .. n, k - 1 \in G PROVE k \in G
  <2> DEFINE st == g[k - 1]
             x == k - 1
             u == Scaled(a)
  <2>1. ListInv(a, st, x)
    BY <1>4
  <2>2. /\ x \in I /\ k \in 0 .. n /\ k # 0 /\ x \in Nat /\ k = x + 1
        /\ 0 .. k - 1 = (0 .. x - 1) \cup {x} /\ x \notin 0 .. x - 1
    BY <1>2
  <2>3. /\ st = [U |-> u, K |-> a.K, over |-> st.over, under |-> st.under]
        /\ Stack(st.over, I) /\ Stack(st.under, I)
        /\ Members(st.over) = {i \in 0 .. x - 1 : u[i] > a.total}
        /\ Members(st.under) = {i \in 0 .. x - 1 : u[i] < a.total}
        /\ Len(st.over) + Len(st.under) <= x
    BY <2>1 DEF ListInv
  <2>4. x \notin Members(st.over) /\ x \notin Members(st.under)
    BY <2>2, <2>3
  <2>5. g[k] = IF st.U[x] > a.total THEN [st EXCEPT !.over = Append(@, x)]
               ELSE IF st.U[x] < a.total THEN [st EXCEPT !.under = Append(@, x)]
               ELSE st
    BY <1>1, <2>2 DEF ListStep
  <2>6. Len(st.over) \in Nat /\ Len(st.under) \in Nat
    BY <2>3 DEF Stack
  <2>7. st.U = u /\ u[x] \in Nat
    BY <1>2, <2>2, <2>3
  <2> HIDE DEF st, x, u, I
  <2>12. /\ st = [U |-> st.U, K |-> st.K, over |-> st.over, under |-> st.under]
         /\ st.U = u /\ st.K = a.K
    BY <2>3
  <2>11. x \in I /\ Stack(st.over, I) /\ Stack(st.under, I)
    BY <2>2, <2>3
  <2>8. CASE u[x] > a.total
    <3>1. g[k] = [U |-> u, K |-> a.K, over |-> Append(st.over, x), under |-> st.under]
      <4>1. g[k] = [st EXCEPT !.over = Append(@, x)]
        BY <2>5, <2>7, <2>8
      <4>2. [st EXCEPT !.over = Append(@, x)]
            = [U |-> u, K |-> a.K, over |-> Append(st.over, x), under |-> st.under]
        BY <2>12, RecordOver
      <4> QED BY <4>1, <4>2
    <3>2. ~(u[x] < a.total)
      BY <1>2, <2>7, <2>8
    <3>3. /\ Stack(Append(st.over, x), I) /\ Len(Append(st.over, x)) = Len(st.over) + 1
          /\ Members(Append(st.over, x)) = Members(st.over) \cup {x}
      BY <2>4, <2>11, StackPushed
    <3>4. /\ Members(Append(st.over, x)) = {i \in 0 .. k - 1 : u[i] > a.total}
          /\ Members(st.under) = {i \in 0 .. k - 1 : u[i] < a.total}
      BY <2>2, <2>3, <2>8, <3>2, <3>3
    <3>5. Len(Append(st.over, x)) + Len(st.under) <= k
      BY <2>2, <2>3, <2>6, <3>3
    <3>6. ListInv(a, g[k], k)
      BY <2>3, <3>1, <3>3, <3>4, <3>5 DEF ListInv, u, I
    <3> QED BY <2>2, <3>6
  <2>9. CASE u[x] < a.total
    <3>1. g[k] = [U |-> u, K |-> a.K, over |-> st.over, under |-> Append(st.under, x)]
      <4>1. ~(u[x] > a.total)
        BY <1>2, <2>7, <2>9
      <4>2. g[k] = [st EXCEPT !.under = Append(@, x)]
        BY <2>5, <2>7, <2>9, <4>1
      <4>3. [st EXCEPT !.under = Append(@, x)]
            = [U |-> u, K |-> a.K, over |-> st.over, under |-> Append(st.under, x)]
        BY <2>12, RecordUnder
      <4> QED BY <4>2, <4>3
    <3>2. ~(u[x] > a.total)
      BY <1>2, <2>7, <2>9
    <3>3. /\ Stack(Append(st.under, x), I) /\ Len(Append(st.under, x)) = Len(st.under) + 1
          /\ Members(Append(st.under, x)) = Members(st.under) \cup {x}
      BY <2>4, <2>11, StackPushed
    <3>4. /\ Members(Append(st.under, x)) = {i \in 0 .. k - 1 : u[i] < a.total}
          /\ Members(st.over) = {i \in 0 .. k - 1 : u[i] > a.total}
      BY <2>2, <2>3, <2>9, <3>2, <3>3
    <3>5. Len(st.over) + Len(Append(st.under, x)) <= k
      BY <2>2, <2>3, <2>6, <3>3
    <3>6. ListInv(a, g[k], k)
      BY <2>3, <3>1, <3>3, <3>4, <3>5 DEF ListInv, u, I
    <3> QED BY <2>2, <3>6
  <2>10. CASE ~(u[x] > a.total) /\ ~(u[x] < a.total)
    <3>1. g[k] = st
      BY <2>5, <2>7, <2>10
    <3>2. /\ Members(st.over) = {i \in 0 .. k - 1 : u[i] > a.total}
          /\ Members(st.under) = {i \in 0 .. k - 1 : u[i] < a.total}
      BY <2>2, <2>3, <2>10
    <3>3. Len(st.over) + Len(st.under) <= k
      BY <2>2, <2>3, <2>6
    <3>4. ListInv(a, g[k], k)
      BY <2>3, <3>1, <3>2, <3>3 DEF ListInv, u, I
    <3> QED BY <2>2, <3>4
  <2> QED BY <2>8, <2>9, <2>10
<1>5. n \in G
  <2> HIDE DEF G, n
  <2>1. 0 .. n \subseteq G
    BY <1>2, <1>3, <1>4, UpTo
  <2> QED BY <1>2, <2>1
<1> QED BY <1>5 DEF g

(* The assertion between the loops, as much over as under, and with it the *)
(* invariant of the second loop at its beginning.                          *)
LEMMA StartInv ==
  ASSUME NEW a, AliasInput(a), NEW st, ListInv(a, st, a.n)
  PROVE  RoundInv(st, a.n, a.total, Scaled(a))
<1> DEFINE n == a.n
           I == 0 .. n - 1
           u == Scaled(a)
           total == a.total
<1>1. n \in Nat /\ total \in Nat /\ IsFiniteSet(I) /\ u \in [I -> Nat]
  BY InputFacts
<1>2. /\ st.U = u /\ st.K = a.K /\ Stack(st.over, I) /\ Stack(st.under, I)
      /\ Members(st.over) = {i \in I : u[i] > total}
      /\ Members(st.under) = {i \in I : u[i] < total}
  BY DEF ListInv
<1>3. a.K \in [I -> Nat] /\ a.U \in [I -> Nat] /\ total = Sigma(a.U, I)
  BY DEF AliasInput
<1>4. \A i \in I : u[i] = a.U[i] * n /\ u[i] \in Nat /\ a.U[i] \in Int
  BY <1>1, <1>3 DEF Scaled
<1> HIDE DEF n, I, u, total
<1>5. RoundType(st, n)
  BY <1>1, <1>2, <1>3 DEF RoundType, I
<1>6. \A i \in I : i \notin Waiting(st) => u[i] = total
  <2>1. ASSUME NEW i \in I, i \notin Waiting(st) PROVE u[i] = total
    <3>1. ~(u[i] > total) /\ ~(u[i] < total)
      BY <1>2, <2>1 DEF Waiting
    <3> QED BY <1>1, <1>4, <3>1
  <2> QED BY <2>1
<1>7. RoundLists(st, n, total)
  BY <1>1, <1>2, <1>6 DEF RoundLists, I
<1>8. Sigma(Excess(st, total), I) = 0
  <2> DEFINE f == Excess(st, total)
             c == [i \in I |-> -total]
  <2>1. \A i \in I : f[i] = u[i] - total
    BY <1>1, <1>2, <1>4, <1>6 DEF Excess
  <2> HIDE DEF f
  <2>2. \A i \in I : u[i] \in Int /\ c[i] \in Int /\ f[i] = u[i] + c[i]
    BY <1>1, <1>4, <2>1
  <2>3. -total \in Int /\ \A i \in I : c[i] = -total
    BY <1>1
  <2> HIDE DEF c
  <2>4. Sigma(f, I) = Sigma(u, I) + Sigma(c, I)
    BY <1>1, <2>2, SigmaSum
  <2>5. Sigma(u, I) = total * n
    <3>1. n \in Int
      BY <1>1
    <3>2. \A i \in I : a.U[i] \in Int /\ u[i] = a.U[i] * n
      BY <1>4
    <3> QED BY <1>1, <1>3, <3>1, <3>2, SigmaScaled
  <2>6. Cardinality(I) = n
    BY <1>1, RangeCardinality DEF I
  <2>7. Sigma(c, I) = n * (-total)
    BY <1>1, <2>3, <2>6, SigmaConstant
  <2>8. total * n + n * (-total) = 0
    BY <1>1
  <2> QED BY <2>4, <2>5, <2>7, <2>8 DEF f
<1>9. ASSUME NEW e \in I
      PROVE  st.U[e] + Sigma(Gift(st, total, e), I) = u[e]
  <2> DEFINE f == Gift(st, total, e)
  <2>1. \A i \in I : f[i] = 0
    BY <1>1, <1>2, <1>4, <1>6 DEF Gift
  <2> HIDE DEF f
  <2>2. Sigma(f, I) = 0
    BY <1>1, <2>1, SigmaZero
  <2>3. st.U[e] \in Nat /\ st.U[e] = u[e]
    BY <1>2, <1>4
  <2> QED BY <2>2, <2>3 DEF f
<1> QED BY <1>5, <1>7, <1>8, <1>9 DEF RoundInv, n, I, u, total

(* After n rounds there is nothing left to do. *)
LEMMA RoundsDone ==
  ASSUME NEW a, AliasInput(a)
  PROVE  LET built == AliasRounds(a)[a.n]
         IN  RoundInv(built, a.n, a.total, Scaled(a)) /\ Waiting(built) = {}
<1> DEFINE n == a.n
           total == a.total
           g == AliasRounds(a)
           Inv(st) == RoundInv(st, n, total, Scaled(a))
           Left(st) == Len(st.over) + Len(st.under)
           G == {k \in 0 .. n : Inv(g[k]) /\ (g[k].over = <<>> \/ Left(g[k]) <= n - k)}
<1>1. n \in Nat /\ total \in Nat /\ \A k \in 0 .. n : g[k] = RoundStep(a, g, k)
  BY InputFacts, RoundsAre DEF IsRounds
<1> HIDE DEF g
<1>2. 0 \in G
  <2>1. g[0] = AliasListed(a)[n]
    <3>1. g[0] = RoundStep(a, g, 0)
      BY <1>1
    <3> QED BY <3>1 DEF RoundStep
  <2>2. ListInv(a, g[0], n)
    BY <2>1, AllListed
  <2>3. Inv(g[0])
    BY <2>2, StartInv
  <2>4. Left(g[0]) <= n
    BY <2>2 DEF ListInv
  <2> HIDE DEF n, Inv, Left
  <2> QED BY <1>1, <2>3, <2>4
<1>3. ASSUME NEW k \in 1 .. n, k - 1 \in G PROVE k \in G
  <2> DEFINE st == g[k - 1]
  <2>1. /\ k \in 0 .. n /\ k # 0 /\ k \in Nat /\ Inv(st)
        /\ st.over = <<>> \/ Left(st) <= n - (k - 1)
        /\ g[k] = IF st.over = <<>> THEN st ELSE AliasStep(st, total)
    <3>1. k \in 0 .. n /\ k # 0 /\ k \in Nat
      BY <1>1
    <3>2. g[k] = RoundStep(a, g, k)
      BY <1>1, <3>1
    <3>3. g[k] = IF st.over = <<>> THEN st ELSE AliasStep(st, total)
      BY <3>1, <3>2 DEF RoundStep
    <3> HIDE DEF st, Inv, Left
    <3> QED BY <1>3, <3>1, <3>3 DEF st
  <2> HIDE DEF st
  <2>2. CASE st.over = <<>>
    <3>1. g[k] = st
      BY <2>1, <2>2
    <3> HIDE DEF Inv, Left
    <3> QED BY <2>1, <2>2, <3>1
  <2>3. CASE st.over # <<>>
    <3> DEFINE after == AliasStep(st, total)
    <3>1. Inv(after) /\ Left(after) < Left(st)
      BY <1>1, <2>1, <2>3, RoundKeeps
    <3>2. g[k] = after
      BY <2>1, <2>3
    <3>3. Left(after) \in Nat /\ Left(st) \in Nat
      <4>1. RoundType(after, n) /\ RoundType(st, n)
        BY <2>1, <3>1 DEF RoundInv
      <4> HIDE DEF after
      <4>2. /\ Len(after.over) \in Nat /\ Len(after.under) \in Nat
            /\ Len(st.over) \in Nat /\ Len(st.under) \in Nat
        BY <4>1 DEF RoundType, Stack
      <4>3. \A p, q \in Nat : p + q \in Nat
        OBVIOUS
      <4> QED BY <4>2, <4>3, Zenon
    <3> HIDE DEF Inv, Left, after
    <3>4. Left(after) <= n - k
      BY <1>1, <2>1, <2>3, <3>1, <3>3
    <3> QED BY <2>1, <3>1, <3>2, <3>4
  <2> QED BY <2>2, <2>3
<1>4. n \in G
  <2> HIDE DEF G, n
  <2>1. 0 .. n \subseteq G
    BY <1>1, <1>2, <1>3, UpTo
  <2> QED BY <1>1, <2>1
<1>5. Inv(g[n])
  BY <1>4
<1>6. g[n].over = <<>>
  <2> DEFINE over == g[n].over
             under == g[n].under
  <2>1. over = <<>> \/ Len(over) + Len(under) <= n - n
    BY <1>4
  <2>2. Stack(over, 0 .. n - 1) /\ Stack(under, 0 .. n - 1)
    BY <1>5 DEF RoundInv, RoundType
  <2> HIDE DEF over, under
  <2>3. ASSUME over # <<>> PROVE FALSE
    <3>1. Len(over) \in Nat \ {0} /\ Len(under) \in Nat
      BY <2>2, <2>3 DEF Stack
    <3>2. n - n = 0
      BY <1>1
    <3> QED BY <2>1, <2>3, <3>1, <3>2
  <2> QED BY <2>3 DEF over
<1>7. Waiting(g[n]) = {}
  BY <1>1, <1>5, <1>6, NoUnderfullLeft
<1> QED BY <1>5, <1>7 DEF g

(* The numbers below total that an element i gives to e, and how many. *)
Given(total, u, i, k, e) == {y \in 0 .. total - 1 : (IF y < u THEN i ELSE k) = e}

LEMMA OutcomesAre ==
  ASSUME NEW total \in Nat, NEW u \in Nat, u <= total, NEW i, NEW k, NEW e
  PROVE  Cardinality(Given(total, u, i, k, e))
         = (IF i = e THEN u ELSE 0) + (IF k = e THEN total - u ELSE 0)
<1> DEFINE S == Given(total, u, i, k, e)
           c == (IF i = e THEN u ELSE 0) + (IF k = e THEN total - u ELSE 0)
<1>1. CASE i = e /\ k = e
  <2>1. S = 0 .. total - 1 /\ c = total
    BY <1>1 DEF Given
  <2> HIDE DEF S, c
  <2>2. Cardinality(S) = c
    BY <2>1, RangeCardinality
  <2> QED BY <2>2 DEF S, c
<1>2. CASE i = e /\ k # e
  <2>1. S = 0 .. u - 1 /\ c = u
    BY <1>2 DEF Given
  <2> HIDE DEF S, c
  <2>2. Cardinality(S) = c
    BY <2>1, RangeCardinality
  <2> QED BY <2>2 DEF S, c
<1>3. CASE i # e /\ k = e
  <2>1. S = u .. total - 1 /\ c = total - u
    BY <1>3 DEF Given
  <2> HIDE DEF S, c
  <2>2. Cardinality(u .. total - 1) = IF u > total - 1 THEN 0 ELSE total - 1 - u + 1
    <3>1. total - 1 \in Int /\ u \in Int
      OBVIOUS
    <3> QED BY <3>1, FS_Interval
  <2>3. (IF u > total - 1 THEN 0 ELSE total - 1 - u + 1) = total - u
    OBVIOUS
  <2> QED BY <2>1, <2>2, <2>3 DEF S, c
<1>4. CASE i # e /\ k # e
  <2>1. S = {} /\ c = 0
    BY <1>4 DEF Given
  <2> HIDE DEF S, c
  <2>2. Cardinality(S) = c
    BY <2>1, FS_EmptySet
  <2> QED BY <2>2 DEF S, c
<1> QED BY <1>1, <1>2, <1>3, <1>4

(* Of the n * total outcomes of sample(), as many give element e as n      *)
(* times its weight: for every number of elements and all weights.         *)
LEMMA AliasIsExact ==
  ASSUME NEW a, AliasInput(a), NEW e \in 0 .. a.n - 1
  PROVE  AliasWeight(AliasBuild(a), e) = a.U[e] * a.n
<1> DEFINE n == a.n
           total == a.total
           I == 0 .. n - 1
           st == AliasRounds(a)[n]
           b == AliasBuild(a)
           gift == Gift(st, total, e)
           own == [i \in I |-> IF i = e THEN st.U[i] ELSE 0]
           outcomes == [i \in 0 .. b.n - 1 |->
                          Cardinality({y \in 0 .. b.total - 1 : AliasSample(b, i, y) = e})]
<1>1. n \in Nat /\ total \in Nat /\ IsFiniteSet(I)
  BY InputFacts
<1>2. b.n = n /\ b.total = total /\ b.U = st.U /\ b.K = st.K
  <2>1. a = [n |-> a.n, total |-> a.total, U |-> a.U, K |-> a.K]
    BY DEF AliasInput
  <2>2. b = [a EXCEPT !.U = st.U, !.K = st.K]
    BY DEF AliasBuild
  <2> HIDE DEF b, st
  <2> QED BY <2>1, <2>2
<1>3. RoundInv(st, n, total, Scaled(a)) /\ Waiting(st) = {}
  BY RoundsDone
<1> HIDE DEF st, b, I
<1>4. /\ st.U \in [I -> Nat] /\ st.K \in [I -> Nat]
      /\ \A i \in I : st.U[i] <= total
      /\ st.U[e] + Sigma(gift, I) = Scaled(a)[e]
  BY <1>3 DEF RoundInv, RoundType, RoundLists, I
<1>5. /\ gift = [i \in I |-> IF st.K[i] = e THEN total - st.U[i] ELSE 0]
      /\ \A i \in I : st.U[i] \in Nat
  BY <1>3, <1>4 DEF Gift
<1> HIDE DEF gift
<1>6. ASSUME NEW i \in I
      PROVE  outcomes[i] = own[i] + gift[i] /\ own[i] \in Int /\ gift[i] \in Int
  <2> DEFINE S == Given(total, st.U[i], i, st.K[i], e)
  <2>1. outcomes[i] = Cardinality(S)
    BY <1>2 DEF AliasSample, I, Given
  <2>2. st.U[i] \in Nat /\ st.U[i] <= total
    BY <1>4, <1>5
  <2>3. Cardinality(S) = (IF i = e THEN st.U[i] ELSE 0) + (IF st.K[i] = e THEN total - st.U[i] ELSE 0)
    <3>1. total \in Nat
      BY <1>1
    <3> HIDE DEF total
    <3> QED BY <2>2, <3>1, OutcomesAre
  <2> QED BY <1>1, <1>5, <2>1, <2>2, <2>3
<1>7. AliasWeight(b, e) = Sigma(outcomes, I)
  BY <1>2, Zenon DEF AliasWeight, Sigma, I
<1> HIDE DEF outcomes
<1>8. Sigma(outcomes, I) = Sigma(own, I) + Sigma(gift, I)
  BY <1>1, <1>6, SigmaSum
<1>9. Sigma(own, I) = st.U[e]
  <2>1. e \in I /\ own[e] = st.U[e] /\ st.U[e] \in Int /\ \A i \in I \ {e} : own[i] = 0
    BY <1>5 DEF I
  <2> HIDE DEF own
  <2> QED BY <1>1, <2>1, SigmaSingle
<1>10. Scaled(a)[e] = a.U[e] * a.n
  BY DEF Scaled
<1> QED BY <1>4, <1>7, <1>8, <1>9, <1>10 DEF b

-----------------------------------------------------------------------------
(* The root sampler of write_table(). *)

Row == Seq([t : [s : Nat, c : SUBSET AllColors], n : Nat])

(* The weights after the rows of the vertices below k. *)
WeightsAt(V, totals, k) == [v \in V |-> IF v < k THEN totals[v] % Modulus ELSE 0]
WeightsTo(k) == WeightsAt(Vertices, RowTotals, k)

RootsAt(n, V, totals, k) ==
  [n |-> n, total |-> Sigma(WeightsAt(V, totals, k), V),
   U |-> WeightsAt(V, totals, k), K |-> [v \in V |-> 0]]
RootsTo(k) == roots = RootsAt(NumVertices, Vertices, RowTotals, k)

DiskType == disk = [dtz |-> disk.dtz, list |-> disk.list, rts |-> disk.rts, info |-> disk.info]

InfoInv ==
  /\ \A v \in DOMAIN info : info[v] \in Row
  /\ pc \in Writing => DOMAIN info = Vertices

RootsInv ==
  /\ DiskType /\ InfoInv
  /\ pc = "rows" => next \in 0 .. NumVertices /\ RootsTo(next)
  /\ pc \in {"roots", "info", "done"} => RootsTo(NumVertices)
  /\ pc \in {"info", "done"} => disk.rts = AliasBuild(roots)
  /\ pc = "done" /\ ~job.ie => disk.info = [n |-> roots.total]

TableInv == MergeInv /\ RootsInv

LEMMA SumToIs == ASSUME NEW row, NEW k PROVE SumTo(row, k) = Sigma(Counts(row), 1 .. k)
BY Zenon DEF Sigma, SumTo

LEMMA SumToType ==
  ASSUME NEW row \in Row
  PROVE  /\ Len(row) \in Nat /\ DOMAIN row = 1 .. Len(row) /\ SumTo(row, 0) = 0
         /\ \A k \in 0 .. Len(row) : SumTo(row, k) \in Nat
<1>1. Len(row) \in Nat /\ DOMAIN row = 1 .. Len(row) /\ \A j \in 1 .. Len(row) : row[j].n \in Nat
  <2> DEFINE S == [t : [s : Nat, c : SUBSET AllColors], n : Nat]
  <2>1. \A x \in S : x.n \in Nat
    OBVIOUS
  <2> HIDE DEF S
  <2>2. row \in Seq(S)
    BY DEF Row, S
  <2>3. \A j \in 1 .. Len(row) : row[j] \in S
    BY <2>2
  <2> QED BY <2>1, <2>2, <2>3
<1>2. \A j \in 1 .. Len(row) : Counts(row)[j] \in Nat
  BY <1>1 DEF Counts
<1>3. 1 .. 0 = {}
  OBVIOUS
<1>4. SumTo(row, 0) = 0
  BY <1>3, SumToIs, SigmaEmpty
<1>5. ASSUME NEW k \in 0 .. Len(row) PROVE SumTo(row, k) \in Nat
  <2>1. k \in Int /\ 1 \in Int
    BY <1>1
  <2>2. IsFiniteSet(1 .. k)
    BY <2>1, FS_Interval
  <2>3. \A j \in 1 .. k : Counts(row)[j] \in Nat
    BY <1>1, <1>2
  <2> QED BY <2>2, <2>3, SumToIs, SigmaType
<1> QED BY <1>1, <1>4, <1>5

(* The last sum in the record of a vertex. *)
LEMMA RecordTotal ==
  ASSUME NEW row \in Row
  PROVE  Total(RecordOf(row)) = SumTo(row, Len(row)) % Modulus
<1> DEFINE n == Len(row)
           rest == [k \in DOMAIN row |-> [t |-> row[k].t, n |-> SumTo(row, k) % Modulus]]
           first == <<[t |-> InvalidTreelet, n |-> 0]>>
<1>1. n \in Nat /\ DOMAIN row = 1 .. n /\ SumTo(row, 0) = 0
  BY SumToType
<1> DEFINE S == {first[1]} \cup {rest[k] : k \in 1 .. n}
<1>2. rest \in Seq(S) /\ Len(rest) = n
  BY <1>1
<1>3. first \in Seq(S) /\ Len(first) = 1
  OBVIOUS
<1>4. RecordOf(row) = first \o rest
  BY DEF RecordOf
<1>5. CASE n = 0
  <2>1. rest = <<>>
    BY <1>1, <1>5
  <2>2. RecordOf(row) = first
    BY <1>3, <1>4, <2>1
  <2>3. Total(first) = 0
    BY DEF Total
  <2>4. 0 % Modulus = 0
    BY ModulusAssumption DEF ModulusAssumption
  <2> QED BY <1>1, <1>5, <2>2, <2>3, <2>4
<1>6. CASE n # 0
  <2>1. n \in 1 .. n /\ rest[n].n = SumTo(row, n) % Modulus
    BY <1>1, <1>6
  <2> HIDE DEF rest, first, S, n
  <2>3. n \in Nat \ {0} /\ first \in Seq(S) /\ rest \in Seq(S)
    BY <1>1, <1>2, <1>3, <1>6
  <2>4. /\ Len(first \o rest) = Len(first) + Len(rest)
        /\ \A i \in 1 .. Len(first) + Len(rest) :
             (first \o rest)[i] = IF i <= Len(first) THEN first[i] ELSE rest[i - Len(first)]
    BY <2>3, ConcatProperties
  <2>5. n + 1 \in 1 .. 1 + n /\ ~(n + 1 <= 1) /\ n + 1 - 1 = n
    BY <2>3
  <2>2. Len(first \o rest) = n + 1 /\ (first \o rest)[n + 1] = rest[n]
    BY <1>2, <1>3, <2>3, <2>4, <2>5
  <2> QED BY <1>4, <2>1, <2>2 DEF Total, n
<1> QED BY <1>5, <1>6

LEMMA WeightFacts ==
  ASSUME job \in Merges, InfoInv, pc \in Writing
  PROVE  /\ NumVertices \in Nat /\ IsFiniteSet(Vertices)
         /\ Modulus \in Nat \ {0}
         /\ \A v \in Vertices : info[v] \in Row /\ RowTotal(v) \in Nat /\ RowTotal(v) % Modulus \in Nat
         /\ \A k : WeightsTo(k) \in [Vertices -> Nat]
<1>1. NumVertices \in Nat
  BY JobFacts
<1>2. IsFiniteSet(Vertices)
  BY <1>1, RangeCardinality DEF Vertices
<1>3. \A v \in Vertices : info[v] \in Row
  BY DEF InfoInv
<1>4. ASSUME NEW v \in Vertices PROVE RowTotal(v) \in Nat
  <2>1. Len(info[v]) \in Nat /\ \A k \in 0 .. Len(info[v]) : SumTo(info[v], k) \in Nat
    BY <1>3, SumToType
  <2>2. Len(info[v]) \in 0 .. Len(info[v])
    BY <2>1
  <2> QED BY <2>1, <2>2 DEF RowTotal, RowTotals
<1>5. Modulus \in Nat \ {0}
  BY ModulusAssumption DEF ModulusAssumption
<1>6. \A m \in Nat : m % Modulus \in Nat
  BY <1>5
<1>7. \A v \in Vertices : RowTotal(v) % Modulus \in Nat
  BY <1>4, <1>6
<1>8. \A k : WeightsTo(k) \in [Vertices -> Nat]
  BY <1>7 DEF WeightsTo, WeightsAt, RowTotal
<1> QED BY <1>1, <1>2, <1>3, <1>4, <1>5, <1>7, <1>8

(* set() of the next vertex. *)
LEMMA RootsGrow ==
  ASSUME job \in Merges, InfoInv, pc \in Writing, NEW k \in Vertices, RootsTo(k)
  PROVE  AliasSet(roots, k, RowTotal(k) % Modulus)
         = RootsAt(NumVertices, Vertices, RowTotals, k + 1)
<1> DEFINE f == WeightsTo(k)
           h == WeightsTo(k + 1)
           w == RowTotal(k) % Modulus
           K == [v \in Vertices |-> 0]
<1>1. NumVertices \in Nat /\ IsFiniteSet(Vertices) /\ w \in Nat /\ k \in Nat
  BY WeightFacts DEF Vertices
<1>2. f \in [Vertices -> Nat] /\ h \in [Vertices -> Nat]
  BY WeightFacts
<1>3. f[k] = 0 /\ h[k] = w /\ \A v \in Vertices \ {k} : h[v] = f[v]
  BY <1>1 DEF WeightsTo, WeightsAt, RowTotal, Vertices
<1> HIDE DEF f, h, w, K
<1>4. h = [f EXCEPT ![k] = w]
  BY <1>2, <1>3
<1>5. /\ \A v \in Vertices : f[v] \in Int
      /\ w \in Int /\ h[k] = f[k] + w
  BY <1>1, <1>2, <1>3
<1>6. Sigma(h, Vertices) = Sigma(f, Vertices) + w
  <2>1. IsFiniteSet(Vertices) /\ (\A v \in Vertices : f[v] \in Int) /\ w \in Int
    BY <1>1, <1>5
  <2>2. h[k] = f[k] + w /\ \A v \in Vertices \ {k} : h[v] = f[v]
    BY <1>3, <1>5
  <2> QED BY <2>1, <2>2, SigmaChange
<1>7. Sigma(f, Vertices) \in Int
  BY <1>1, <1>5, SigmaInt
<1>8. roots = [n |-> NumVertices, total |-> Sigma(f, Vertices), U |-> f, K |-> K]
  BY DEF RootsTo, RootsAt, WeightsTo, f, K
<1>9. AliasSet(roots, k, w) = [roots EXCEPT !.total = @ - roots.U[k] + w, !.U[k] = w]
  BY DEF AliasSet
<1>10. Sigma(f, Vertices) - f[k] + w = Sigma(h, Vertices)
  BY <1>1, <1>3, <1>6, <1>7
<1>11. AliasSet(roots, k, w) = [n |-> NumVertices, total |-> Sigma(f, Vertices) - f[k] + w,
                               U |-> [f EXCEPT ![k] = w], K |-> K]
  BY <1>8, <1>9
<1> QED BY <1>4, <1>10, <1>11 DEF f, h, w, K, RootsAt, WeightsTo

LEMMA DiskFields ==
  ASSUME NEW d, d = [dtz |-> d.dtz, list |-> d.list, rts |-> d.rts, info |-> d.info], NEW x
  PROVE  /\ [d EXCEPT !.dtz = x] = [dtz |-> x, list |-> d.list, rts |-> d.rts, info |-> d.info]
         /\ [d EXCEPT !.list = x] = [dtz |-> d.dtz, list |-> x, rts |-> d.rts, info |-> d.info]
         /\ [d EXCEPT !.rts = x] = [dtz |-> d.dtz, list |-> d.list, rts |-> x, info |-> d.info]
         /\ [d EXCEPT !.info = x] = [dtz |-> d.dtz, list |-> d.list, rts |-> d.rts, info |-> x]
<1>1. PICK dtz, list, rts, inf : d = [dtz |-> dtz, list |-> list, rts |-> rts, info |-> inf]
  BY Zenon
<1>2. d.dtz = dtz /\ d.list = list /\ d.rts = rts /\ d.info = inf
  BY <1>1
<1>3. [d EXCEPT !.dtz = x] = [dtz |-> x, list |-> list, rts |-> rts, info |-> inf]
  BY <1>1
<1>4. [d EXCEPT !.list = x] = [dtz |-> dtz, list |-> x, rts |-> rts, info |-> inf]
  BY <1>1
<1>5. [d EXCEPT !.rts = x] = [dtz |-> dtz, list |-> list, rts |-> x, info |-> inf]
  BY <1>1
<1>6. [d EXCEPT !.info = x] = [dtz |-> dtz, list |-> list, rts |-> rts, info |-> x]
  BY <1>1
<1> QED BY <1>2, <1>3, <1>4, <1>5, <1>6

LEMMA RootsFrame ==
  UNCHANGED <<job, info>> =>
    /\ NumVertices' = NumVertices /\ Vertices' = Vertices /\ RowTotals' = RowTotals
BY DEF NumVertices, Vertices, RowTotals

LEMMA RowsOfFile ==
  ASSUME job \in Merges, NEW i \in 1 .. Len(Files), NEW r \in ToSet(Files[i].rows)
  PROVE  r[2] \in Row
<1> DEFINE rows == Files[i].rows
<1>1. rows \in Seq(Nat \X Row)
  BY JobFacts DEF CountFile, Row
<1>2. PICK k \in DOMAIN rows : r = rows[k]
  BY DEF ToSet
<1> HIDE DEF rows
<1>3. r \in Nat \X Row
  BY <1>1, <1>2
<1> QED BY <1>3

LEMMA ReadKeepsRoots ==
  ASSUME TableInv, ReadFile
  PROVE  RootsInv'
<1>1. /\ pc = "read" /\ next <= Len(Files) /\ job \in Merges /\ UNCHANGED <<job, disk>>
      /\ next \in 1 .. Len(Files)
  BY JobFacts DEF ReadFile, TableInv, MergeInv, ReadInv, Files
<1>2. pc' \in {"read", "failed"}
  BY <1>1 DEF ReadFile, Fail
<1>3. \A v \in DOMAIN info : info[v] \in Row
  BY DEF TableInv, RootsInv, InfoInv
<1>4. \A v \in DOMAIN info' : info'[v] \in Row
  <2>1. CASE info' = info
    BY <1>3, <2>1
  <2>2. CASE info' # info
    <3> DEFINE rows == ToSet(Files[next].rows)
    <3>1. info' = [v \in DOMAIN info \cup {r[1] : r \in rows} |->
                     IF v \in DOMAIN info THEN info[v] ELSE (CHOOSE r \in rows : r[1] = v)[2]]
      BY <2>2 DEF ReadFile, Fail, Files
    <3>2. \A r \in rows : r[2] \in Row
      BY <1>1, RowsOfFile
    <3> HIDE DEF rows
    <3>3. ASSUME NEW v \in DOMAIN info' PROVE info'[v] \in Row
      <4>1. CASE v \in DOMAIN info
        BY <1>3, <3>1, <4>1
      <4>2. CASE v \notin DOMAIN info
        <5>1. \E r \in rows : r[1] = v
          BY <3>1, <3>3, <4>2
        <5>2. (CHOOSE r \in rows : r[1] = v) \in rows
          BY <5>1
        <5>3. info'[v] = (CHOOSE r \in rows : r[1] = v)[2]
          BY <3>1, <3>3, <4>2
        <5> QED BY <3>2, <5>2, <5>3
      <4> QED BY <4>1, <4>2
    <3> QED BY <3>3
  <2> QED BY <2>1, <2>2
<1>5. DiskType'
  BY <1>1 DEF TableInv, RootsInv, DiskType
<1> QED BY <1>2, <1>4, <1>5 DEF RootsInv, InfoInv, Writing

(* write_table() begins with all weights 0. *)
LEMMA CheckSetsRoots ==
  ASSUME TableInv, Check
  PROVE  RootsInv'
<1>1. /\ pc = "read" /\ next > Len(Files) /\ job \in Merges /\ ReadInv /\ DiskType /\ InfoInv
      /\ UNCHANGED <<job, info>>
  BY DEF Check, TableInv, MergeInv, RootsInv, Files, Fail
<1>2. CASE Cardinality(DOMAIN info) # NumVertices
  <2>1. pc' = "failed" /\ disk' = disk
    BY <1>2 DEF Check, Fail
  <2> QED BY <1>1, <2>1 DEF RootsInv, InfoInv, DiskType, Writing
<1>3. CASE Cardinality(DOMAIN info) = NumVertices
  <2>1. /\ pc' = "rows" /\ next' = 0 /\ roots' = AliasNew(NumVertices)
        /\ disk' = [disk EXCEPT !.dtz = writer']
    BY <1>3 DEF Check
  <2>2. DOMAIN info = Vertices /\ NumVertices \in Nat /\ IsFiniteSet(Vertices)
    BY <1>1, <1>3, SeenVertices, JobFacts, RangeCardinality DEF Vertices
  <2>3. NumVertices' = NumVertices /\ Vertices' = Vertices /\ RowTotals' = RowTotals
    BY <1>1, RootsFrame
  <2>4. disk' = [dtz |-> writer', list |-> disk.list, rts |-> disk.rts, info |-> disk.info]
    BY <1>1, <2>1, DiskFields DEF DiskType
  <2>5. DiskType'
    BY <2>4 DEF DiskType
  <2>6. InfoInv'
    BY <1>1, <2>2, <2>3 DEF InfoInv
  <2> DEFINE f == WeightsAt(Vertices, RowTotals, 0)
  <2>7. f = [v \in Vertices |-> 0]
    BY <2>2 DEF WeightsAt, Vertices
  <2>8. Sigma(f, Vertices) = 0
    <3>1. \A v \in Vertices : f[v] = 0
      BY <2>7
    <3> HIDE DEF f
    <3> QED BY <2>2, <3>1, SigmaZero
  <2>9. roots' = RootsAt(NumVertices, Vertices, RowTotals, 0)
    BY <2>1, <2>7, <2>8 DEF AliasNew, RootsAt, Vertices
  <2>10. RootsTo(next)'
    BY <2>1, <2>3, <2>9 DEF RootsTo
  <2>11. next' \in 0 .. NumVertices'
    BY <2>1, <2>2, <2>3
  <2> QED BY <2>1, <2>5, <2>6, <2>10, <2>11 DEF RootsInv
<1> QED BY <1>2, <1>3

LEMMA WriteRowSetsRoots ==
  ASSUME TableInv, WriteRow
  PROVE  RootsInv'
<1>1. /\ pc = "rows" /\ pc \in Writing /\ next < NumVertices /\ job \in Merges /\ InfoInv /\ DiskType
      /\ next \in 0 .. NumVertices /\ RootsTo(next)
      /\ UNCHANGED <<job, info, disk>>
  BY DEF WriteRow, TableInv, MergeInv, RootsInv, Fail, Writing
<1>2. NumVertices' = NumVertices /\ Vertices' = Vertices /\ RowTotals' = RowTotals
  BY <1>1, RootsFrame
<1>3. InfoInv' \/ ~(\A v \in DOMAIN info : info[v] \in Row) \/ DOMAIN info # Vertices
  BY <1>1, <1>2 DEF InfoInv
<1>4. InfoInv' /\ DiskType'
  BY <1>1, <1>3 DEF InfoInv, DiskType
<1>5. CASE pc' = "failed"
  BY <1>4, <1>5 DEF RootsInv
<1>6. CASE pc' # "failed"
  <2>1. /\ pc' = pc /\ next' = next + 1
        /\ roots' = AliasSet(roots, next, Total(RecordOf(info[next])))
    BY <1>6 DEF WriteRow, Fail
  <2>2. next \in Vertices /\ next' \in 0 .. NumVertices /\ NumVertices \in Nat
    BY <1>1, <2>1, JobFacts DEF Vertices
  <2>3. Total(RecordOf(info[next])) = RowTotal(next) % Modulus
    <3>1. info[next] \in Row
      BY <1>1, <2>2, WeightFacts
    <3>2. Total(RecordOf(info[next])) = SumTo(info[next], Len(info[next])) % Modulus
      BY <3>1, RecordTotal
    <3> QED BY <2>2, <3>2 DEF RowTotal, RowTotals
  <2>4. roots' = RootsAt(NumVertices, Vertices, RowTotals, next + 1)
    BY <1>1, <2>1, <2>2, <2>3, RootsGrow
  <2>5. RootsTo(next)'
    BY <1>2, <2>1, <2>4 DEF RootsTo
  <2> QED BY <1>1, <1>2, <1>4, <2>1, <2>2, <2>5 DEF RootsInv
<1> QED BY <1>5, <1>6

(* The end of the table, the file of the root sampler and .info. *)
LEMMA FinishKeepsRoots ==
  ASSUME TableInv, Finish \/ WriteRoots \/ WriteInfo
  PROVE  RootsInv'
<1>1. /\ pc \in Writing /\ job \in Merges /\ InfoInv /\ DiskType
      /\ UNCHANGED <<job, info, roots>>
      /\ DiskType
  BY DEF Finish, WriteRoots, WriteInfo, TableInv, MergeInv, RootsInv, Fail, Writing
<1>2. NumVertices' = NumVertices /\ Vertices' = Vertices /\ RowTotals' = RowTotals
  BY <1>1, RootsFrame
<1>3. InfoInv'
  <2>1. (\A v \in DOMAIN info : info[v] \in Row) /\ DOMAIN info = Vertices
    BY <1>1 DEF InfoInv
  <2> QED BY <1>1, <1>2, <2>1 DEF InfoInv
<1>4. RootsTo(NumVertices) => RootsTo(NumVertices)'
  BY <1>1, <1>2 DEF RootsTo
<1>5. CASE Finish
  <2>1. PICK list, dtz : disk' = [disk EXCEPT !.list = list, !.dtz = dtz]
    BY <1>5 DEF Finish
  <2>2. DiskType'
    <3> DEFINE d == [disk EXCEPT !.list = list]
    <3>1. d = [dtz |-> disk.dtz, list |-> list, rts |-> disk.rts, info |-> disk.info]
      BY <1>1, DiskFields DEF DiskType
    <3>2. disk' = [d EXCEPT !.dtz = dtz]
      BY <2>1
    <3> HIDE DEF d
    <3>3. disk' = [dtz |-> dtz, list |-> list, rts |-> disk.rts, info |-> disk.info]
      BY <3>1, <3>2
    <3> QED BY <3>3 DEF DiskType
  <2>3. pc = "rows" /\ next = NumVertices /\ pc' \in {"roots", "failed"} /\ RootsTo(NumVertices)
    BY <1>5 DEF Finish, TableInv, RootsInv
  <2> QED BY <1>3, <1>4, <2>2, <2>3 DEF RootsInv
<1>6. CASE WriteRoots
  <2>1. pc = "roots" /\ RootsTo(NumVertices)
    BY <1>6 DEF WriteRoots, TableInv, RootsInv
  <2>2. CASE pc' = "failed" /\ disk' = disk
    BY <1>1, <1>3, <2>2 DEF RootsInv, DiskType
  <2>3. CASE pc' = "info" /\ disk' = [disk EXCEPT !.rts = AliasBuild(roots)]
    <3>1. disk' = [dtz |-> disk.dtz, list |-> disk.list, rts |-> AliasBuild(roots), info |-> disk.info]
      BY <1>1, <2>3, DiskFields DEF DiskType
    <3>2. DiskType' /\ disk'.rts = AliasBuild(roots')
      BY <1>1, <3>1 DEF DiskType
    <3> QED BY <1>3, <1>4, <2>1, <2>3, <3>2 DEF RootsInv
  <2> QED BY <1>6, <2>2, <2>3 DEF WriteRoots, Fail
<1>7. CASE WriteInfo
  <2>1. pc = "info" /\ pc' = "done" /\ RootsTo(NumVertices) /\ disk.rts = AliasBuild(roots)
    BY <1>7 DEF WriteInfo, TableInv, RootsInv
  <2>2. disk' = [disk EXCEPT !.info = IF job.ie THEN disk.info ELSE [n |-> roots.total]]
    BY <1>7 DEF WriteInfo
  <2>3. disk' = [dtz |-> disk.dtz, list |-> disk.list, rts |-> disk.rts,
                 info |-> IF job.ie THEN disk.info ELSE [n |-> roots.total]]
    BY <1>1, <2>2, DiskFields DEF DiskType
  <2>4. DiskType' /\ disk'.rts = AliasBuild(roots') /\ (~job'.ie => disk'.info = [n |-> roots'.total])
    BY <1>1, <2>1, <2>3 DEF DiskType
  <2> QED BY <1>3, <1>4, <2>1, <2>4 DEF RootsInv
<1> QED BY <1>5, <1>6, <1>7

LEMMA RootsNext == TableInv /\ [Next]_vars => RootsInv'
<1> SUFFICES ASSUME TableInv, [Next]_vars PROVE RootsInv'
  OBVIOUS
<1>1. CASE Start
  <2>1. pc' = "read" /\ info' = <<>> /\ disk' = disk
    BY <1>1 DEF Start
  <2> QED BY <2>1 DEF TableInv, RootsInv, DiskType, InfoInv, Writing
<1>2. CASE ReadFile
  BY <1>2, ReadKeepsRoots
<1>3. CASE Check
  BY <1>3, CheckSetsRoots
<1>4. CASE WriteRow
  BY <1>4, WriteRowSetsRoots
<1>5. CASE Finish \/ WriteRoots \/ WriteInfo
  BY <1>5, FinishKeepsRoots
<1>6. CASE SetSelector \/ DropSelector \/ UNCHANGED vars
  <2>1. UNCHANGED <<job, pc, next, info, roots, disk>>
    BY <1>6 DEF SetSelector, DropSelector, vars
  <2>2. NumVertices' = NumVertices /\ Vertices' = Vertices /\ RowTotals' = RowTotals
    BY <2>1, RootsFrame
  <2>3. InfoInv' /\ DiskType'
    BY <2>1, <2>2 DEF TableInv, RootsInv, InfoInv, DiskType
  <2>4. RootsTo(next)' = RootsTo(next) /\ RootsTo(NumVertices)' = RootsTo(NumVertices)
    BY <2>1, <2>2 DEF RootsTo
  <2> QED BY <2>1, <2>2, <2>3, <2>4 DEF TableInv, RootsInv
<1> QED BY <1>1, <1>2, <1>3, <1>4, <1>5, <1>6 DEF Next

(* write_table(): the weights of the root sampler are the sums of the rows *)
(* written so far, and the file has the alias table built from all of them. *)
THEOREM TableInvariant == Spec => []TableInv
<1>1. Init => TableInv
  BY DEF Init, TableInv, MergeInv, RootsInv, DiskType, InfoInv, Writing
<1>2. TableInv /\ [Next]_vars => TableInv'
  BY MergeNext, RootsNext DEF TableInv
<1> QED BY <1>1, <1>2, PTL DEF Spec

LEMMA BuiltRoots ==
  ASSUME job \in Merges, InfoInv, pc \in Writing, RootsTo(NumVertices), NothingWrapped
  PROVE  /\ roots.total = Sigma(RowTotals, Vertices)
         /\ \A v \in Vertices : AliasWeight(AliasBuild(roots), v) = NumVertices * RowTotal(v)
<1> DEFINE n == NumVertices
           f == WeightsTo(n)
<1>1. /\ n \in Nat /\ IsFiniteSet(Vertices) /\ Vertices = 0 .. n - 1
      /\ Modulus \in Nat \ {0} /\ f \in [Vertices -> Nat]
      /\ \A v \in Vertices : RowTotal(v) \in Nat
  BY WeightFacts DEF Vertices
<1>2. \A m \in Nat : m < Modulus => m % Modulus = m
  BY <1>1
<1>3. \A v \in Vertices : f[v] = RowTotal(v)
  <2>1. \A v \in Vertices : RowTotal(v) % Modulus = RowTotal(v)
    BY <1>1, <1>2 DEF NothingWrapped
  <2>2. \A v \in Vertices : v < n
    BY <1>1
  <2>3. \A v \in Vertices : f[v] = RowTotal(v) % Modulus
    BY <2>2 DEF WeightsTo, WeightsAt, RowTotal
  <2> QED BY <2>1, <2>3
<1>4. roots = [n |-> n, total |-> Sigma(f, Vertices), U |-> f, K |-> [v \in Vertices |-> 0]]
  BY DEF RootsTo, RootsAt, WeightsTo
<1> HIDE DEF f, n
<1>5. AliasInput(roots)
  <2>1. roots.n = n /\ roots.total = Sigma(f, Vertices) /\ roots.U = f /\ roots.K = [v \in Vertices |-> 0]
    BY <1>4
  <2>2. [v \in Vertices |-> 0] \in [Vertices -> Nat]
    OBVIOUS
  <2> QED BY <1>1, <1>4, <2>1, <2>2 DEF AliasInput
<1>6. \A v \in Vertices : f[v] = RowTotals[v]
  BY <1>3 DEF RowTotal
<1>7. Sigma(f, Vertices) = Sigma(RowTotals, Vertices)
  BY <1>1, <1>6, SigmaAgrees
<1>8. ASSUME NEW v \in Vertices
      PROVE  AliasWeight(AliasBuild(roots), v) = n * RowTotal(v)
  <2>1. roots.n = n /\ roots.U = f
    BY <1>4
  <2>2. AliasWeight(AliasBuild(roots), v) = roots.U[v] * roots.n
    BY <1>1, <1>5, <2>1, AliasIsExact
  <2>3. f[v] = RowTotal(v) /\ RowTotal(v) \in Nat /\ n \in Nat
    BY <1>1, <1>3
  <2> QED BY <2>1, <2>2, <2>3
<1> QED BY <1>4, <1>7, <1>8 DEF n

LEMMA RowTotalSum == MapThenSumSet(RowTotal, Vertices) = Sigma(RowTotals, Vertices)
BY Zenon DEF Sigma, RowTotal

(* The table that motivo-sample draws its roots from gives each vertex as  *)
(* many of the outcomes of the generator as the number of vertices times   *)
(* the treelets rooted in it, and .info the number of all treelets.        *)
THEOREM RootsExact == Spec => []RootsAreExact
<1>1. TableInv => RootsAreExact
  <2> SUFFICES ASSUME TableInv, pc = "done", NothingWrapped
               PROVE  /\ \A v \in Vertices : AliasWeight(disk.rts, v) = NumVertices * RowTotal(v)
                      /\ ~job.ie => disk.info.n = MapThenSumSet(RowTotal, Vertices)
    BY DEF RootsAreExact
  <2>1. /\ job \in Merges /\ InfoInv /\ pc \in Writing /\ RootsTo(NumVertices)
        /\ disk.rts = AliasBuild(roots)
        /\ ~job.ie => disk.info = [n |-> roots.total]
    BY DEF TableInv, MergeInv, RootsInv, Writing
  <2> QED BY <2>1, BuiltRoots, RowTotalSum
<1> QED BY <1>1, TableInvariant, PTL

-----------------------------------------------------------------------------
(* RecordCompressor: 1 << exp, as a function of the number of bits. *)
ShiftStep(g, k) == IF k = 0 THEN 1 ELSE 2 * g[k - 1]
IsShift(g, m) == g = [k \in 0 .. m |-> ShiftStep(g, k)]

LEMMA ShiftExists == ASSUME NEW n \in Nat PROVE \E g : IsShift(g, n)
<1> DEFINE G == {m \in 0 .. n : \E g : IsShift(g, m)}
<1>1. 0 \in G
  <2> DEFINE g == [k \in 0 .. 0 |-> ShiftStep(<<>>, k)]
  <2>1. \A k \in 0 .. 0 : ShiftStep(g, k) = ShiftStep(<<>>, k)
    BY DEF ShiftStep
  <2> QED BY <2>1 DEF IsShift
<1>2. ASSUME NEW m \in 1 .. n, m - 1 \in G PROVE m \in G
  <2>1. PICK g : IsShift(g, m - 1)
    BY <1>2
  <2> DEFINE h == [k \in 0 .. m |-> ShiftStep(g, k)]
  <2>2. ASSUME NEW k \in 0 .. m PROVE ShiftStep(h, k) = ShiftStep(g, k)
    <3>1. CASE k = 0
      BY <3>1 DEF ShiftStep
    <3>2. CASE k # 0
      <4>1. k - 1 \in 0 .. m /\ k - 1 \in 0 .. m - 1
        BY <3>2
      <4>2. h[k - 1] = g[k - 1]
        BY <2>1, <4>1 DEF IsShift
      <4> HIDE DEF h
      <4> QED BY <4>2, <3>2 DEF ShiftStep
    <3> QED BY <3>1, <3>2
  <2>3. IsShift(h, m)
    BY <2>2 DEF IsShift
  <2> QED BY <2>3
<1> HIDE DEF G
<1>3. 0 .. n \subseteq G
  BY <1>1, <1>2, UpTo
<1>4. n \in G
  BY <1>3
<1> QED BY <1>4 DEF G

LEMMA ShiftedType == ASSUME NEW n \in Nat PROVE Shifted(n) \in Nat \ {0}
<1> DEFINE g == CHOOSE f : IsShift(f, n)
           G == {k \in 0 .. n : g[k] \in Nat \ {0}}
<1>1. Shifted(n) = g[n]
  BY Zenon DEF Shifted, IsShift, ShiftStep
<1>2. \A k \in 0 .. n : g[k] = ShiftStep(g, k)
  <2>1. IsShift(g, n)
    BY ShiftExists
  <2> HIDE DEF g
  <2> QED BY <2>1 DEF IsShift
<1> HIDE DEF g
<1>3. 0 \in G
  BY <1>2 DEF ShiftStep
<1>4. ASSUME NEW k \in 1 .. n, k - 1 \in G PROVE k \in G
  <2>1. g[k] = 2 * g[k - 1] /\ g[k - 1] \in Nat \ {0}
    BY <1>2, <1>4 DEF ShiftStep
  <2> QED BY <2>1
<1> HIDE DEF G
<1>5. 0 .. n \subseteq G
  BY <1>3, <1>4, UpTo
<1>6. n \in G
  BY <1>5
<1> QED BY <1>1, <1>6 DEF G

-----------------------------------------------------------------------------
(* A record of a whole number of entries whose length its header can hold. *)
LEMMA RoomSuffices ==
  ASSUME NEW length \in Nat, HeaderFits(length), NEW k \in Nat, NEW s \in {PairSize, TreeletSize},
         length = k * s
  PROVE  /\ Room(Header(length), s) \in Nat
         /\ length <= Room(Header(length), s)
<1> DEFINE e == Min(Exponents(length))
           p == Shifted(e)
           room == (length \div p) * p + (p - 1)
<1>1. e \in Nat
  <2>1. Exponents(length) \subseteq Nat /\ Exponents(length) # {}
    BY RecordAssumption DEF RecordAssumption, Exponents, HeaderFits
  <2>2. \E x \in Exponents(length) : \A y \in Exponents(length) : x <= y
    BY <2>1, LeastNatural
  <2>3. Min(Exponents(length)) \in Exponents(length)
    BY <2>2, Zenon DEF Min
  <2> QED BY <2>1, <2>3
<1>2. p \in Nat \ {0}
  BY <1>1, ShiftedType
<1>3. Room(Header(length), s) = room - (room % s)
  BY DEF Room, Header
<1> HIDE DEF p
<1>4. length <= room /\ room \in Nat
  BY <1>2
<1> HIDE DEF room, e
<1>5. CASE s = 22
  BY <1>3, <1>4, <1>5
<1>6. CASE s = 6
  BY <1>3, <1>4, <1>6
<1> QED BY <1>5, <1>6 DEF PairSize, TreeletSize

(* compress(): what is left for a block when it begins has room for it.    *)
LEMMA BlocksFit ==
  ASSUME NEW length \in Nat
  PROVE  LET b == Blocks(length)
         IN  /\ Len(b) \in Nat /\ DOMAIN b = 1 .. Len(b)
             /\ \A k \in 1 .. Len(b) : b[k] \in 1 .. MaxBlock
             /\ \A k \in 1 .. Len(b) : b[k] <= length - Sigma(b, 1 .. k - 1)
<1> DEFINE M == MaxBlock
           w == length \div M
           r == length % M
           front == [k \in 1 .. w |-> M]
           back == IF r = 0 THEN <<>> ELSE <<r>>
           b == Blocks(length)
<1>1. /\ M \in Nat \ {0} /\ w \in Nat /\ r \in Nat /\ r < M /\ length = w * M + r
  BY RecordAssumption DEF RecordAssumption
<1>2. b = front \o back
  BY DEF Blocks
<1> HIDE DEF w, r, M, b
<1>3. front \in Seq(1 .. M) /\ Len(front) = w /\ \A k \in 1 .. w : front[k] = M
  BY <1>1
<1>4. back \in Seq(1 .. M) /\ Len(back) = (IF r = 0 THEN 0 ELSE 1) /\ (r # 0 => back[1] = r)
  <2>1. CASE r = 0
    BY <2>1
  <2>2. CASE r # 0
    <3>1. r \in 1 .. M /\ back = <<r>>
      BY <1>1, <2>2
    <3> QED BY <2>2, <3>1
  <2> QED BY <2>1, <2>2
<1> HIDE DEF front, back
<1>5. /\ Len(b) = Len(front) + Len(back) /\ b \in Seq(1 .. M)
      /\ \A i \in 1 .. Len(front) + Len(back) :
           b[i] = IF i <= Len(front) THEN front[i] ELSE back[i - Len(front)]
  BY <1>2, <1>3, <1>4, ConcatProperties
<1> DEFINE n == Len(b)
<1>6. /\ n = (IF r = 0 THEN w ELSE w + 1) /\ n \in Nat
      /\ \A k \in 1 .. w : b[k] = M
      /\ r # 0 => b[n] = r
  <2>1. n = w + (IF r = 0 THEN 0 ELSE 1)
    BY <1>3, <1>4, <1>5
  <2>2. n = IF r = 0 THEN w ELSE w + 1
    BY <1>1, <2>1
  <2>3. \A k \in 1 .. w : b[k] = M
    BY <1>1, <1>3, <1>4, <1>5
  <2>4. ASSUME r # 0 PROVE b[n] = r
    <3>1. n = w + 1 /\ n \in 1 .. w + 1 /\ ~(n <= w) /\ n - w = 1
      BY <1>1, <2>2, <2>4
    <3>2. b[n] = back[n - w]
      BY <1>3, <1>4, <1>5, <2>4, <3>1
    <3> QED BY <1>4, <2>4, <3>1, <3>2
  <2> QED BY <1>1, <2>2, <2>3, <2>4
<1> HIDE DEF n
<1>7. DOMAIN b = 1 .. n /\ \A k \in 1 .. n : b[k] \in 1 .. M
  <2> DEFINE S == 1 .. M
  <2>1. b \in Seq(S)
    BY <1>5
  <2> HIDE DEF S
  <2>2. DOMAIN b = 1 .. n /\ \A k \in 1 .. n : b[k] \in S
    BY <2>1 DEF n
  <2> QED BY <2>2 DEF S
<1>8. ASSUME NEW k \in 1 .. n PROVE b[k] <= length - Sigma(b, 1 .. k - 1)
  <2>1. k \in Nat \ {0} /\ k - 1 \in Nat /\ k - 1 <= w
    BY <1>1, <1>6
  <2>2. IsFiniteSet(1 .. k - 1) /\ Cardinality(1 .. k - 1) = k - 1
    <3>1. 1 \in Int /\ k - 1 \in Int
      BY <2>1
    <3>2. Cardinality(1 .. k - 1) = (IF 1 > k - 1 THEN 0 ELSE k - 1 - 1 + 1)
      BY <3>1, FS_Interval
    <3>3. IsFiniteSet(1 .. k - 1)
      BY <3>1, FS_Interval
    <3> QED BY <2>1, <3>2, <3>3
  <2>3. \A j \in 1 .. k - 1 : b[j] = M
    BY <1>1, <1>6, <2>1
  <2>4. M \in Int
    BY <1>1
  <2>5. Sigma(b, 1 .. k - 1) = (k - 1) * M
    BY <2>2, <2>3, <2>4, SigmaConstant
  <2>6. CASE k <= w
    <3>1. b[k] = M
      BY <1>6, <2>1, <2>6
    <3>2. (k - 1) * M + M = k * M /\ k * M <= w * M
      BY <1>1, <2>1, <2>6
    <3>3. (k - 1) * M \in Int /\ w * M \in Int /\ k * M \in Int
      BY <1>1, <2>1
    <3> QED BY <1>1, <2>5, <3>1, <3>2, <3>3
  <2>7. CASE ~(k <= w)
    <3>1. k = w + 1 /\ r # 0 /\ k = n
      BY <1>1, <1>6, <2>1, <2>7
    <3>2. b[k] = r /\ k - 1 = w
      BY <1>1, <1>6, <3>1
    <3>3. w * M \in Int
      BY <1>1
    <3> QED BY <1>1, <2>5, <3>2, <3>3
  <2> QED BY <2>6, <2>7
<1> QED BY <1>6, <1>7, <1>8 DEF n, b, M

(* The size of a compressed record. *)
LEMMA CompressedSize ==
  ASSUME NEW length \in Nat
  PROVE  Compressed(length).size \in Nat /\ Compressed(length).size >= HeaderSize
<1> DEFINE b == Blocks(length)
           packed == [k \in DOMAIN b |->
                        Lz4(b[k]) + (IF Len(b) > 1 THEN BlockLengthSize ELSE 0)]
<1>1. Compressed(length).size = HeaderSize + Sigma(packed, DOMAIN b)
  BY Zenon DEF Compressed, Sigma
<1>2. /\ Len(b) \in Nat /\ DOMAIN b = 1 .. Len(b)
      /\ \A k \in 1 .. Len(b) : b[k] \in 1 .. MaxBlock
  BY BlocksFit
<1> HIDE DEF b
<1>3. \A k \in DOMAIN b : packed[k] \in Nat
  BY <1>2, RecordAssumption DEF RecordAssumption, BlockLengthSize
<1>4. IsFiniteSet(DOMAIN b)
  <2>1. 1 \in Int /\ Len(b) \in Int
    BY <1>2
  <2> QED BY <1>2, <2>1, FS_Interval
<1> HIDE DEF packed
<1>5. Sigma(packed, DOMAIN b) \in Nat
  BY <1>3, <1>4, SigmaType
<1> QED BY <1>1, <1>5 DEF HeaderSize

(* write_record(): the bytes of a record in a file. *)
Shrinks(length) == Percent > 0 /\ 100 * Compressed(length).size < length * Percent
SizeOf(record, s) ==
  LET length == Len(record) * s
  IN  IF length = 0 THEN 0
      ELSE IF Shrinks(length) THEN Compressed(length).size ELSE HeaderSize + length
BlobOf(record, s) ==
  LET packed == Compressed(Len(record) * s)
  IN  [compressed |-> Shrinks(Len(record) * s), entries |-> record, header |-> packed.header,
       multi |-> packed.multi, blocks |-> packed.blocks]

(* What is decompressed is what was written. *)
LEMMA RecordReadBack ==
  ASSUME NEW record, Len(record) \in Nat, NEW s \in {PairSize, TreeletSize},
         HeaderFits(Len(record) * s)
  PROVE  /\ SizeOf(record, s) \in Nat
         /\ Len(record) = 0 => SizeOf(record, s) = 0
         /\ Len(record) # 0 =>
              /\ SizeOf(record, s) > 0
              /\ Decompress(BlobOf(record, s), SizeOf(record, s), s) = record
<1> DEFINE length == Len(record) * s
           b == Blocks(length)
           room == Room(Header(length), s)
           size == SizeOf(record, s)
           blob == BlobOf(record, s)
<1>1. length \in Nat /\ s \in Nat \ {0} /\ (length = 0 <=> Len(record) = 0)
  BY DEF PairSize, TreeletSize
<1>2. Compressed(length).size \in Nat /\ Compressed(length).size >= HeaderSize
  BY <1>1, CompressedSize
<1>3. size = IF length = 0 THEN 0
             ELSE IF Shrinks(length) THEN Compressed(length).size ELSE HeaderSize + length
  BY DEF SizeOf
<1>4. room \in Nat /\ length <= room
  BY <1>1, RoomSuffices
<1>5. /\ Len(b) \in Nat /\ DOMAIN b = 1 .. Len(b)
      /\ \A k \in 1 .. Len(b) : b[k] \in 1 .. MaxBlock
      /\ \A k \in 1 .. Len(b) : b[k] <= length - Sigma(b, 1 .. k - 1)
  BY <1>1, BlocksFit
<1>6. /\ blob.compressed = Shrinks(length) /\ blob.entries = record
      /\ blob.header = Header(length) /\ blob.blocks = b
  BY DEF BlobOf, Compressed
<1>7. ASSUME NEW k \in DOMAIN b
      PROVE  b[k] <= room - Sigma(b, 1 .. k - 1)
  <2>1. k \in 1 .. Len(b) /\ 1 \in Int /\ k - 1 \in Int /\ b[k] \in Int
    BY <1>5
  <2>2. IsFiniteSet(1 .. k - 1) /\ \A j \in 1 .. k - 1 : b[j] \in Int
    <3>1. \A j \in 1 .. k - 1 : j \in 1 .. Len(b)
      BY <1>5, <2>1
    <3>2. \A j \in 1 .. Len(b) : b[j] \in Int
      BY <1>5
    <3>3. IsFiniteSet(1 .. k - 1)
      BY <2>1, FS_Interval
    <3> HIDE DEF b
    <3> QED BY <3>1, <3>2, <3>3
  <2>3. Sigma(b, 1 .. k - 1) \in Int
    BY <2>2, SigmaInt
  <2>4. b[k] <= length - Sigma(b, 1 .. k - 1)
    BY <1>5, <2>1
  <2> HIDE DEF length, room, b
  <2> QED BY <1>1, <1>4, <2>1, <2>3, <2>4
<1>8. Decompress(blob, size, s) =
        IF size < HeaderSize THEN <<>>
        ELSE IF ~blob.compressed THEN blob.entries
        ELSE LET r == Room(blob.header, s)
             IN  IF \A k \in DOMAIN blob.blocks :
                      blob.blocks[k] <= r - Sigma(blob.blocks, 1 .. k - 1)
                   THEN blob.entries ELSE SubSeq(blob.entries, 1, r \div s)
  BY Zenon DEF Decompress, Sigma
<1> HIDE DEF length, b, room, size, blob
<1>9. size \in Nat
  BY <1>1, <1>2, <1>3 DEF HeaderSize
<1>10. ASSUME Len(record) # 0
       PROVE  size > 0 /\ Decompress(blob, size, s) = record
  <2>1. size >= HeaderSize /\ ~(size < HeaderSize) /\ size > 0
    BY <1>1, <1>2, <1>3, <1>10 DEF HeaderSize
  <2>2. \A k \in DOMAIN blob.blocks :
          blob.blocks[k] <= Room(blob.header, s) - Sigma(blob.blocks, 1 .. k - 1)
    BY <1>6, <1>7 DEF room
  <2> QED BY <1>6, <1>8, <2>1, <2>2
<1> QED BY <1>1, <1>3, <1>9, <1>10 DEF size, blob

(* A file to which the first w of the records R have been written. *)
Written(file, n, R, w, s) ==
  /\ file = [number |-> n, offsets |-> [i \in 0 .. n |-> 0], blobs |-> file.blobs,
             written |-> w, pending |-> file.pending, position |-> file.position]
  /\ file.position \in Nat /\ file.pending \in Seq(Nat) /\ Len(file.pending) = w
  /\ \A i \in 1 .. w :
       /\ file.pending[i] <= file.position
       /\ (IF i = w THEN file.position ELSE file.pending[i + 1])
            = file.pending[i] + SizeOf(R[i], s)
       /\ Len(R[i]) # 0 => /\ file.pending[i] \in DOMAIN file.blobs
                           /\ file.blobs[file.pending[i]] = BlobOf(R[i], s)
  /\ \A p \in DOMAIN file.blobs : p \in Nat /\ p < file.position

LEMMA CreatedEmpty ==
  ASSUME NEW n \in Nat, NEW R, NEW s
  PROVE  Written(Create(n), n, R, 0, s)
<1> DEFINE file == Create(n)
<1>1. file = [number |-> n, offsets |-> [i \in 0 .. n |-> 0], blobs |-> <<>>,
              written |-> 0, pending |-> <<>>, position |-> 8 * (n + 2)]
  BY DEF Create
<1>2. /\ file.number = n /\ file.blobs = <<>> /\ file.written = 0 /\ file.pending = <<>>
      /\ file.position = 8 * (n + 2)
  BY <1>1
<1>3. 8 * (n + 2) \in Nat
  OBVIOUS
<1>4. file = [number |-> n, offsets |-> [i \in 0 .. n |-> 0], blobs |-> file.blobs,
              written |-> 0, pending |-> file.pending, position |-> file.position]
  BY <1>1, <1>2
<1> HIDE DEF file
<1>5. <<>> \in Seq(Nat) /\ Len(<<>>) = 0 /\ DOMAIN <<>> = {} /\ 1 .. 0 = {}
  OBVIOUS
<1> QED BY <1>2, <1>3, <1>4, <1>5 DEF Written, file

LEMMA RecordAppended ==
  ASSUME NEW file, NEW n \in Nat, NEW R, NEW w \in 0 .. n - 1, NEW s \in {PairSize, TreeletSize},
         Written(file, n, R, w, s), Len(R[w + 1]) \in Nat, HeaderFits(Len(R[w + 1]) * s)
  PROVE  Written(WriteRecord(file, R[w + 1], s), n, R, w + 1, s)
<1> DEFINE r == R[w + 1]
           after == WriteRecord(file, r, s)
           size == SizeOf(r, s)
           blob == BlobOf(r, s)
           blobs == IF Len(r) * s = 0 THEN file.blobs
                    ELSE [p \in DOMAIN file.blobs \cup {file.position} |->
                            IF p = file.position THEN blob ELSE file.blobs[p]]
           last == file.position
           pending == Append(file.pending, last)
<1>1. /\ file = [number |-> n, offsets |-> [i \in 0 .. n |-> 0], blobs |-> file.blobs,
                 written |-> w, pending |-> file.pending, position |-> last]
      /\ last \in Nat /\ file.pending \in Seq(Nat) /\ Len(file.pending) = w
      /\ \A p \in DOMAIN file.blobs : p \in Nat /\ p < last
  BY DEF Written
<1>2. after = [file EXCEPT !.written = @ + 1, !.pending = pending,
                           !.position = @ + size, !.blobs = blobs]
  BY Zenon DEF WriteRecord, SizeOf, BlobOf, Shrinks
<1>3. /\ size \in Nat /\ (Len(r) = 0 => size = 0) /\ (Len(r) # 0 => size > 0)
  BY RecordReadBack
<1> HIDE DEF size, blob, pending, blobs
<1>4. after = [number |-> n, offsets |-> [i \in 0 .. n |-> 0], blobs |-> blobs,
               written |-> w + 1, pending |-> pending, position |-> last + size]
  <2>1. PICK bl, pe, po : file = [number |-> n, offsets |-> [i \in 0 .. n |-> 0], blobs |-> bl,
                 written |-> w, pending |-> pe, position |-> po] /\ po = last
    BY <1>1, Zenon
  <2> HIDE DEF last, after
  <2> QED BY <1>2, <2>1
<1>5. /\ after.blobs = blobs /\ after.pending = pending /\ after.position = last + size
      /\ after = [number |-> n, offsets |-> [i \in 0 .. n |-> 0], blobs |-> after.blobs,
               written |-> w + 1, pending |-> after.pending, position |-> after.position]
  <2> HIDE DEF after
  <2> QED BY <1>4
<1> HIDE DEF after
<1>6. /\ pending \in Seq(Nat) /\ Len(pending) = w + 1
      /\ \A i \in 1 .. w : pending[i] = file.pending[i]
      /\ pending[w + 1] = last
  BY <1>1 DEF pending
<1>7. /\ \A p \in DOMAIN file.blobs : p \in DOMAIN blobs /\ blobs[p] = file.blobs[p]
      /\ Len(r) # 0 => last \in DOMAIN blobs /\ blobs[last] = blob
      /\ \A p \in DOMAIN blobs : p \in Nat /\ p < last + size
  <2>1. s \in Nat \ {0} /\ (Len(r) * s = 0 <=> Len(r) = 0)
    BY DEF PairSize, TreeletSize
  <2>2. CASE Len(r) = 0
    <3>1. blobs = file.blobs /\ size = 0
      BY <1>3, <2>1, <2>2 DEF blobs
    <3> HIDE DEF last
    <3>2. last + size = last
      BY <1>1, <3>1
    <3> QED BY <1>1, <2>2, <3>1, <3>2
  <2>3. CASE Len(r) # 0
    <3>1. blobs = [p \in DOMAIN file.blobs \cup {last} |-> IF p = last THEN blob ELSE file.blobs[p]]
      BY <2>1, <2>3 DEF blobs
    <3>2. ~(last < last) /\ last < last + size
      BY <1>1, <1>3, <2>3
    <3>3. last \notin DOMAIN file.blobs
      BY <1>1, <3>2
    <3>4. \A p \in DOMAIN file.blobs : p < last + size
      <4>1. \A p \in DOMAIN file.blobs : p \in Nat /\ p < last
        BY <1>1
      <4> HIDE DEF last
      <4> QED BY <4>1, <1>1, <1>3, <2>3
    <3>5. last \in Nat /\ \A p \in DOMAIN file.blobs : p \in Nat
      BY <1>1
    <3> HIDE DEF last
    <3>6. /\ \A p \in DOMAIN file.blobs : p \in DOMAIN blobs /\ blobs[p] = file.blobs[p]
          /\ last \in DOMAIN blobs /\ blobs[last] = blob
      BY <3>1, <3>3
    <3>7. DOMAIN blobs = DOMAIN file.blobs \cup {last}
      BY <3>1
    <3> QED BY <3>2, <3>4, <3>5, <3>6, <3>7
  <2> QED BY <2>2, <2>3
<1>8. ASSUME NEW i \in 1 .. w + 1
      PROVE  /\ pending[i] <= last + size
             /\ (IF i = w + 1 THEN last + size ELSE pending[i + 1]) = pending[i] + SizeOf(R[i], s)
             /\ Len(R[i]) # 0 => pending[i] \in DOMAIN blobs /\ blobs[pending[i]] = BlobOf(R[i], s)
  <2>1. CASE i = w + 1
    <3>1. pending[i] = last /\ R[i] = r
      BY <1>6, <2>1
    <3>2. last <= last + size
      BY <1>1, <1>3
    <3> QED BY <1>7, <2>1, <3>1, <3>2 DEF size, blob
  <2>2. CASE i # w + 1
    <3>1. i \in 1 .. w /\ w \in Nat
      BY <2>2
    <3>2. /\ file.pending[i] <= last
          /\ (IF i = w THEN last ELSE file.pending[i + 1]) = file.pending[i] + SizeOf(R[i], s)
          /\ Len(R[i]) # 0 => /\ file.pending[i] \in DOMAIN file.blobs
                              /\ file.blobs[file.pending[i]] = BlobOf(R[i], s)
      BY <3>1 DEF Written
    <3>3. pending[i] = file.pending[i] /\ file.pending[i] \in Nat
      BY <1>1, <1>6, <3>1
    <3>4. pending[i + 1] = IF i = w THEN last ELSE file.pending[i + 1]
      <4>1. i = w \/ i + 1 \in 1 .. w
        BY <3>1
      <4> QED BY <1>6, <3>1, <4>1
    <3>5. pending[i] <= last + size
      <4> HIDE DEF last
      <4> QED BY <1>1, <1>3, <3>2, <3>3
    <3> QED BY <1>7, <2>2, <3>2, <3>3, <3>4, <3>5
  <2> QED BY <2>1, <2>2
<1>9. last + size \in Nat
  BY <1>1, <1>3
<1>10. Written(after, n, R, w + 1, s)
  <2> HIDE DEF last
  <2> QED BY <1>5, <1>6, <1>7, <1>8, <1>9 DEF Written
<1> QED BY <1>10 DEF after

(* close(), and what get_record() finds then. *)
Writable(n, R, s) ==
  \A i \in 1 .. n : Len(R[i]) \in Nat /\ HeaderFits(Len(R[i]) * s) /\ (Len(R[i]) = 0 => R[i] = <<>>)

LEMMA ClosedReads ==
  ASSUME NEW file, NEW n \in Nat, NEW R, NEW s \in {PairSize, TreeletSize},
         Written(file, n, R, n, s),
         Writable(n, R, s)
  PROVE  /\ CanClose(file) /\ Close(file).number = n
         /\ \A i \in 0 .. n - 1 : GetRecord(Close(file), i, s) = R[i + 1]
<1> DEFINE after == Close(file)
           offsets == [i \in 0 .. n |-> IF i = n THEN file.position ELSE file.pending[i + 1]]
<1>1. /\ file = [number |-> n, offsets |-> [i \in 0 .. n |-> 0], blobs |-> file.blobs,
                 written |-> n, pending |-> file.pending, position |-> file.position]
      /\ file.pending \in Seq(Nat) /\ Len(file.pending) = n /\ file.position \in Nat
  BY DEF Written
<1>2. after = [number |-> n, offsets |-> offsets, blobs |-> file.blobs,
               written |-> n, pending |-> file.pending, position |-> file.position]
  <2>1. PICK bl, pe, po : file = [number |-> n, offsets |-> [i \in 0 .. n |-> 0], blobs |-> bl,
                 written |-> n, pending |-> pe, position |-> po]
    BY <1>1, Zenon
  <2>2. file.number = n /\ DOMAIN file.offsets = 0 .. n /\ file.written = n
    BY <2>1
  <2>3. after = [file EXCEPT !.offsets = offsets]
    BY <2>2 DEF Close
  <2> HIDE DEF offsets, after
  <2>4. after = [number |-> n, offsets |-> offsets, blobs |-> bl,
                 written |-> n, pending |-> pe, position |-> po]
    BY <2>1, <2>3
  <2>5. file.blobs = bl /\ file.pending = pe /\ file.position = po
    BY <2>1
  <2> QED BY <2>4, <2>5
<1>3. after.offsets = offsets /\ after.blobs = file.blobs /\ after.number = n
  <2> HIDE DEF after, offsets
  <2> QED BY <1>2
<1>4. file.written = n /\ file.number = n
  BY <1>1
<1> HIDE DEF after
<1>5. ASSUME NEW i \in 0 .. n - 1
      PROVE  GetRecord(after, i, s) = R[i + 1]
  <2> DEFINE p == file.pending[i + 1]
             r == R[i + 1]
             size == SizeOf(r, s)
  <2>1. i \in 0 .. n /\ i + 1 \in 0 .. n /\ i # n /\ i + 1 \in 1 .. n
    OBVIOUS
  <2>2. offsets[i] = p
    BY <2>1
  <2>3. offsets[i + 1] = IF i + 1 = n THEN file.position ELSE file.pending[i + 1 + 1]
    BY <2>1
  <2>4. /\ (IF i + 1 = n THEN file.position ELSE file.pending[i + 1 + 1]) = p + size
        /\ Len(r) # 0 => p \in DOMAIN file.blobs /\ file.blobs[p] = BlobOf(r, s)
    BY <2>1 DEF Written
  <2>5. p \in Nat
    BY <1>1, <2>1
  <2>6. Len(r) \in Nat /\ HeaderFits(Len(r) * s)
    BY <2>1 DEF Writable
  <2>7. Len(r) = 0 => r = <<>>
    BY <2>1 DEF Writable
  <2>11. /\ size \in Nat /\ (Len(r) = 0 => size = 0)
         /\ Len(r) # 0 => size > 0 /\ Decompress(BlobOf(r, s), size, s) = r
    BY <2>6, RecordReadBack
  <2> HIDE DEF p, r, size, offsets
  <2>8. offsets[i + 1] - offsets[i] = size
    BY <2>2, <2>3, <2>4, <2>5, <2>11
  <2>9. GetRecord(after, i, s) = IF size = 0 THEN <<>> ELSE Decompress(file.blobs[p], size, s)
    BY <1>3, <2>2, <2>8 DEF GetRecord
  <2>10. size = 0 <=> Len(r) = 0
    BY <2>11
  <2> QED BY <2>4, <2>7, <2>9, <2>10, <2>11 DEF r
<1> QED BY <1>3, <1>4, <1>5 DEF CanClose, after

-----------------------------------------------------------------------------
(* treelet_upper_bound() and count_upper_bound(), by rounds of the loop. *)
MiddleOf(r) == r.begin + (r.end - r.begin) \div 2
Halve(below, r) ==
  IF r.begin >= r.end THEN r
  ELSE IF MiddleOf(r) \in below THEN [begin |-> MiddleOf(r) + 1, end |-> r.end]
  ELSE [begin |-> r.begin, end |-> MiddleOf(r)]
HalveStep(g, L, from, below, k) ==
  IF k = 0 THEN [begin |-> from, end |-> L + 1] ELSE Halve(below, g[k - 1])
IsHalving(g, L, from, below, m) == g = [k \in 0 .. m |-> HalveStep(g, L, from, below, k)]

LEMMA HalvingExists ==
  ASSUME NEW L, NEW from, NEW below, NEW n \in Nat
  PROVE  \E g : IsHalving(g, L, from, below, n)
<1> DEFINE G == {m \in 0 .. n : \E g : IsHalving(g, L, from, below, m)}
<1>1. 0 \in G
  <2> DEFINE g == [k \in 0 .. 0 |-> HalveStep(<<>>, L, from, below, k)]
  <2>1. \A k \in 0 .. 0 : HalveStep(g, L, from, below, k) = HalveStep(<<>>, L, from, below, k)
    BY DEF HalveStep
  <2> QED BY <2>1 DEF IsHalving
<1>2. ASSUME NEW m \in 1 .. n, m - 1 \in G PROVE m \in G
  <2>1. PICK g : IsHalving(g, L, from, below, m - 1)
    BY <1>2
  <2> DEFINE h == [k \in 0 .. m |-> HalveStep(g, L, from, below, k)]
  <2>2. ASSUME NEW k \in 0 .. m
        PROVE  HalveStep(h, L, from, below, k) = HalveStep(g, L, from, below, k)
    <3>1. CASE k = 0
      BY <3>1 DEF HalveStep
    <3>2. CASE k # 0
      <4>1. k - 1 \in 0 .. m /\ k - 1 \in 0 .. m - 1
        BY <3>2
      <4>2. h[k - 1] = g[k - 1]
        BY <2>1, <4>1 DEF IsHalving
      <4> HIDE DEF h
      <4> QED BY <4>2, <3>2 DEF HalveStep
    <3> QED BY <3>1, <3>2
  <2>3. IsHalving(h, L, from, below, m)
    BY <2>2 DEF IsHalving
  <2> QED BY <2>3
<1> HIDE DEF G
<1>3. 0 .. n \subseteq G
  BY <1>1, <1>2, UpTo
<1>4. n \in G
  BY <1>3
<1> QED BY <1>4 DEF G

(* The entries from from on that are below are those before d. *)
Parted(L, from, below, d) ==
  d \in from .. L + 1 /\ \A i \in from .. L : i \in below <=> i < d

HalfOK(L, from, below, r) ==
  /\ r = [begin |-> r.begin, end |-> r.end]
  /\ r.begin \in from .. L + 1 /\ r.end \in from .. L + 1 /\ r.begin <= r.end
  /\ \A d \in from .. L + 1 : Parted(L, from, below, d) => d \in r.begin .. r.end

LEMMA HalveKeeps ==
  ASSUME NEW L \in Nat, NEW from \in 1 .. L + 1, NEW below, NEW r, HalfOK(L, from, below, r)
  PROVE  LET s == Halve(below, r)
         IN  /\ HalfOK(L, from, below, s)
             /\ s.begin >= s.end \/ s.end - s.begin < r.end - r.begin
<1> DEFINE b == r.begin
           e == r.end
           m == MiddleOf(r)
           s == Halve(below, r)
<1>1. /\ r = [begin |-> b, end |-> e]
      /\ b \in from .. L + 1 /\ e \in from .. L + 1 /\ b <= e
      /\ \A d \in from .. L + 1 : Parted(L, from, below, d) => d \in b .. e
  BY DEF HalfOK
<1>2. CASE b >= e
  <2>1. s = r
    BY <1>2 DEF Halve
  <2> QED BY <1>2, <2>1
<1>3. CASE ~(b >= e)
  <2>0. s = IF m \in below THEN [begin |-> m + 1, end |-> e] ELSE [begin |-> b, end |-> m]
    BY <1>3 DEF Halve
  <2>1. m \in Nat /\ b <= m /\ m < e /\ b \in Nat /\ e \in Nat
    <3>1. m = b + (e - b) \div 2
      BY DEF MiddleOf
    <3>2. b \in Nat /\ e \in Nat /\ b < e
      BY <1>1, <1>3
    <3> HIDE DEF b, e, m
    <3> QED BY <3>1, <3>2
  <2> HIDE DEF b, e, m, s
  <2>2. m \in from .. L /\ b \in Int /\ e \in Int
    BY <1>1, <2>1
  <2>3. CASE m \in below
    <3>1. s = [begin |-> m + 1, end |-> e]
      BY <2>0, <2>3
    <3>2. ASSUME NEW d \in from .. L + 1, Parted(L, from, below, d) PROVE d \in m + 1 .. e
      <4>1. d \in b .. e /\ m < d
        BY <1>1, <2>2, <2>3, <3>2 DEF Parted
      <4> QED BY <2>1, <4>1
    <3>3. HalfOK(L, from, below, s)
      BY <1>1, <2>1, <2>2, <3>1, <3>2 DEF HalfOK
    <3> QED BY <2>1, <3>1, <3>3 DEF b, e, s
  <2>4. CASE m \notin below
    <3>1. s = [begin |-> b, end |-> m]
      BY <2>0, <2>4
    <3>2. ASSUME NEW d \in from .. L + 1, Parted(L, from, below, d) PROVE d \in b .. m
      <4>1. d \in b .. e /\ ~(m < d)
        BY <1>1, <2>2, <2>4, <3>2 DEF Parted
      <4> QED BY <2>1, <4>1
    <3>3. HalfOK(L, from, below, s)
      BY <1>1, <2>1, <2>2, <3>1, <3>2 DEF HalfOK
    <3> QED BY <2>1, <3>1, <3>3 DEF b, e, s
  <2> QED BY <2>3, <2>4
<1> QED BY <1>2, <1>3

LEMMA SearchEnds ==
  ASSUME NEW record, Len(record) \in Nat, NEW from \in 1 .. Len(record) + 1, NEW below
  PROVE  /\ FirstNotBelow(record, from, below) \in from .. Len(record) + 1
         /\ \A d \in from .. Len(record) + 1 :
              Parted(Len(record), from, below, d) => FirstNotBelow(record, from, below) = d
<1> DEFINE L == Len(record)
           g == CHOOSE f : IsHalving(f, L, from, below, L)
           Left(k) == g[k].begin >= g[k].end \/ g[k].end - g[k].begin <= L - k
           G == {k \in 0 .. L : HalfOK(L, from, below, g[k]) /\ Left(k)}
<1>1. FirstNotBelow(record, from, below) = g[L].begin
  BY Zenon DEF FirstNotBelow, IsHalving, HalveStep, Halve, MiddleOf
<1>2. L \in Nat /\ from \in 1 .. L + 1
  OBVIOUS
<1>3. \A k \in 0 .. L : g[k] = HalveStep(g, L, from, below, k)
  <2>1. IsHalving(g, L, from, below, L)
    BY <1>2, HalvingExists
  <2> HIDE DEF g
  <2> QED BY <2>1 DEF IsHalving
<1> HIDE DEF g, L
<1>4. 0 \in G
  <2>1. g[0] = [begin |-> from, end |-> L + 1]
    BY <1>2, <1>3 DEF HalveStep
  <2>2. HalfOK(L, from, below, g[0])
    BY <1>2, <2>1 DEF HalfOK
  <2>3. Left(0)
    BY <1>2, <2>1
  <2> QED BY <1>2, <2>2, <2>3
<1>5. ASSUME NEW k \in 1 .. L, k - 1 \in G PROVE k \in G
  <2> DEFINE r == g[k - 1]
             s == g[k]
  <2>1. s = Halve(below, r)
    BY <1>2, <1>3 DEF HalveStep
  <2>2. HalfOK(L, from, below, r) /\ Left(k - 1)
    BY <1>5
  <2> HIDE DEF r, s
  <2>3. /\ HalfOK(L, from, below, s)
        /\ s.begin >= s.end \/ s.end - s.begin < r.end - r.begin
    BY <1>2, <2>1, <2>2, HalveKeeps DEF r
  <2>4. Left(k)
    <3>1. CASE r.begin >= r.end
      <4>1. s = r
        BY <2>1, <3>1 DEF Halve
      <4> QED BY <3>1, <4>1 DEF s
    <3>2. CASE ~(r.begin >= r.end)
      <4>1. r.end - r.begin <= L - (k - 1)
        BY <2>2, <3>2 DEF r
      <4>2. r.begin \in Int /\ r.end \in Int /\ s.begin \in Int /\ s.end \in Int
        <5>1. HalfOK(L, from, below, r)
          BY <2>2 DEF r
        <5> QED BY <2>3, <5>1 DEF HalfOK
      <4>3. s.begin >= s.end \/ s.end - s.begin <= L - k
        BY <1>2, <2>3, <4>1, <4>2
      <4> QED BY <4>3 DEF s
    <3> QED BY <3>1, <3>2
  <2> QED BY <1>2, <2>3, <2>4 DEF s
<1> HIDE DEF G
<1>6. L \in G
  <2>1. 0 .. L \subseteq G
    BY <1>2, <1>4, <1>5, UpTo
  <2> QED BY <1>2, <2>1
<1>7. HalfOK(L, from, below, g[L]) /\ Left(L)
  BY <1>6 DEF G
<1> DEFINE last == g[L]
<1>8. last.begin \in from .. L + 1 /\ last.end = last.begin
  BY <1>2, <1>7 DEF HalfOK
<1>9. \A d \in from .. L + 1 : Parted(L, from, below, d) => d = last.begin
  <2>1. \A d \in from .. L + 1 : Parted(L, from, below, d) => d \in last.begin .. last.end
    BY <1>7 DEF HalfOK
  <2> HIDE DEF last
  <2> QED BY <1>8, <2>1
<1> QED BY <1>1, <1>8, <1>9 DEF L

-----------------------------------------------------------------------------
(* Rows and their records. *)
Treelet == [s : Nat, c : SUBSET AllColors]

(* What MergesAssumption says of a row. *)
GoodRow(row) ==
  /\ row \in Row
  /\ \A a, b \in DOMAIN row : a < b => Less(row[a].t, row[b].t)
  /\ \A a \in DOMAIN row : row[a].n < Modulus

LEMMA MaskType ==
  ASSUME NEW c \in SUBSET AllColors
  PROVE  Mask(c) \in Nat /\ Mask({}) = 0
<1> DEFINE bits == [i \in AllColors |-> 2 ^ i]
<1>1. \A d : Mask(d) = Sigma(bits, d)
  BY Zenon DEF Mask, Sigma
<1>2. \A i \in AllColors : i \in {0, 1, 2, 3, 4, 5, 6, 7, 8, 9, 10, 11, 12, 13, 14, 15}
  BY DEF AllColors
<1>3. /\ 2 ^ 0 \in Nat /\ 2 ^ 1 \in Nat /\ 2 ^ 2 \in Nat /\ 2 ^ 3 \in Nat
      /\ 2 ^ 4 \in Nat /\ 2 ^ 5 \in Nat /\ 2 ^ 6 \in Nat /\ 2 ^ 7 \in Nat
      /\ 2 ^ 8 \in Nat /\ 2 ^ 9 \in Nat /\ 2 ^ 10 \in Nat /\ 2 ^ 11 \in Nat
      /\ 2 ^ 12 \in Nat /\ 2 ^ 13 \in Nat /\ 2 ^ 14 \in Nat /\ 2 ^ 15 \in Nat
  OBVIOUS
<1>4. \A i \in AllColors : 2 ^ i \in Nat
  BY <1>2, <1>3
<1>5. \A i \in c : bits[i] \in Nat
  BY <1>4
<1>6. IsFiniteSet(c)
  <2>1. IsFiniteSet(AllColors)
    <3>1. 0 \in Int /\ 15 \in Int
      OBVIOUS
    <3> QED BY <3>1, FS_Interval DEF AllColors
  <2> QED BY <2>1, FS_Subset
<1> HIDE DEF bits
<1> QED BY <1>1, <1>5, <1>6, SigmaType, SigmaEmpty

(* operator< orders the treelets. *)
LEMMA LessOrders ==
  /\ \A a \in Treelet : ~Less(a, a)
  /\ \A a, b \in Treelet : Less(a, b) => ~Less(b, a)
  /\ \A a \in Treelet : \A s \in Nat : Less(a, TreeletOf(s)) <=> a.s > s
<1>1. ASSUME NEW a \in Treelet PROVE Mask(a.c) \in Nat /\ a.s \in Nat /\ Mask({}) = 0
  <2>1. a.c \in SUBSET AllColors /\ a.s \in Nat
    BY DEF Treelet
  <2> QED BY <2>1, MaskType
<1>2. \A a \in Treelet : ~Less(a, a)
  BY <1>1 DEF Less
<1>3. \A a, b \in Treelet : Less(a, b) => ~Less(b, a)
  BY <1>1 DEF Less
<1>4. ASSUME NEW a \in Treelet, NEW s \in Nat PROVE Less(a, TreeletOf(s)) <=> a.s > s
  BY <1>1 DEF Less, TreeletOf
<1> QED BY <1>2, <1>3, <1>4

LEMMA RowFacts ==
  ASSUME NEW row, GoodRow(row)
  PROVE  /\ Len(row) \in Nat /\ DOMAIN row = 1 .. Len(row)
         /\ \A k \in 1 .. Len(row) : /\ row[k] = [t |-> row[k].t, n |-> row[k].n]
                                     /\ row[k].t \in Treelet /\ row[k].n \in Nat
<1> DEFINE S == [t : Treelet, n : Nat]
<1>1. \A x \in S : x = [t |-> x.t, n |-> x.n] /\ x.t \in Treelet /\ x.n \in Nat
  OBVIOUS
<1>2. row \in Seq(S)
  BY DEF GoodRow, Row, Treelet
<1> HIDE DEF S
<1>3. Len(row) \in Nat /\ DOMAIN row = 1 .. Len(row) /\ \A k \in 1 .. Len(row) : row[k] \in S
  BY <1>2
<1> QED BY <1>1, <1>3

LEMMA SumNext ==
  ASSUME NEW row, GoodRow(row), NEW k \in 1 .. Len(row)
  PROVE  /\ SumTo(row, k) = SumTo(row, k - 1) + row[k].n
         /\ SumTo(row, k) \in Nat /\ SumTo(row, k - 1) \in Nat /\ row[k].n \in Nat
<1> DEFINE f == Counts(row)
<1>1. Len(row) \in Nat /\ DOMAIN row = 1 .. Len(row) /\ \A j \in 1 .. Len(row) : row[j].n \in Nat
  BY RowFacts
<1>2. /\ \A j \in 1 .. k : j \in 1 .. Len(row)
      /\ k \in 0 .. Len(row) /\ k - 1 \in 0 .. Len(row) /\ k \in 1 .. k /\ 1 .. k - 1 = (1 .. k) \ {k}
      /\ k \in Int /\ 1 \in Int
  BY <1>1
<1>3. \A j \in 1 .. k : f[j] = row[j].n /\ f[j] \in Int
  BY <1>1, <1>2 DEF Counts
<1>4. IsFiniteSet(1 .. k)
  BY <1>2, FS_Interval
<1> HIDE DEF f
<1>5. Sigma(f, 1 .. k) = f[k] + Sigma(f, (1 .. k) \ {k})
  BY <1>2, <1>3, <1>4, SigmaFrom
<1>6. SumTo(row, k) = Sigma(f, 1 .. k) /\ SumTo(row, k - 1) = Sigma(f, (1 .. k) \ {k})
  BY <1>2, SumToIs DEF f
<1>7. row \in Row
  BY DEF GoodRow
<1>8. SumTo(row, k) \in Nat /\ SumTo(row, k - 1) \in Nat
  BY <1>2, <1>7, SumToType
<1>9. f[k] = row[k].n /\ row[k].n \in Nat
  BY <1>1, <1>2, <1>3
<1> QED BY <1>5, <1>6, <1>8, <1>9

LEMMA RecordIs ==
  ASSUME NEW row, GoodRow(row)
  PROVE  /\ Len(RecordOf(row)) = Len(row) + 1
         /\ RecordOf(row)[1] = [t |-> InvalidTreelet, n |-> 0]
         /\ \A k \in 1 .. Len(row) :
              RecordOf(row)[k + 1] = [t |-> row[k].t, n |-> SumTo(row, k) % Modulus]
<1> DEFINE n == Len(row)
           rest == [k \in DOMAIN row |-> [t |-> row[k].t, n |-> SumTo(row, k) % Modulus]]
           first == <<[t |-> InvalidTreelet, n |-> 0]>>
           S == {first[1]} \cup {rest[k] : k \in 1 .. n}
<1>1. n \in Nat /\ DOMAIN row = 1 .. n
  BY RowFacts
<1>2. rest \in Seq(S) /\ Len(rest) = n
  BY <1>1
<1>3. first \in Seq(S) /\ Len(first) = 1
  OBVIOUS
<1>4. RecordOf(row) = first \o rest
  BY DEF RecordOf
<1>5. \A k \in 1 .. n : rest[k] = [t |-> row[k].t, n |-> SumTo(row, k) % Modulus]
  BY <1>1
<1>6. first[1] = [t |-> InvalidTreelet, n |-> 0]
  OBVIOUS
<1> HIDE DEF rest, first, S, n
<1>7. /\ Len(first \o rest) = Len(first) + Len(rest)
      /\ \A i \in 1 .. Len(first) + Len(rest) :
           (first \o rest)[i] = IF i <= Len(first) THEN first[i] ELSE rest[i - Len(first)]
  BY <1>2, <1>3, ConcatProperties
<1>8. (first \o rest)[1] = first[1]
  BY <1>1, <1>2, <1>3, <1>7
<1>9. ASSUME NEW k \in 1 .. n PROVE (first \o rest)[k + 1] = rest[k]
  <2>1. k + 1 \in 1 .. 1 + n /\ ~(k + 1 <= 1) /\ k + 1 - 1 = k
    BY <1>1
  <2> QED BY <1>2, <1>3, <1>7, <2>1
<1>10. Len(first \o rest) = n + 1
  BY <1>1, <1>2, <1>3, <1>7
<1> QED BY <1>4, <1>5, <1>6, <1>8, <1>9, <1>10 DEF n

LEMMA RecordFields ==
  ASSUME NEW row, GoodRow(row)
  PROVE  /\ Len(RecordOf(row)) = Len(row) + 1 /\ RecordOf(row)[1].n = 0
         /\ \A k \in 1 .. Len(row) : /\ RecordOf(row)[k + 1].t = row[k].t
                                     /\ RecordOf(row)[k + 1].n = SumTo(row, k) % Modulus
<1> DEFINE r == RecordOf(row)
<1>1. /\ \A k \in 1 .. Len(row) : r[k + 1] = [t |-> row[k].t, n |-> SumTo(row, k) % Modulus]
      /\ Len(r) = Len(row) + 1
      /\ r[1] = [t |-> InvalidTreelet, n |-> 0]
  BY RecordIs
<1> HIDE DEF r
<1>2. ASSUME NEW k \in 1 .. Len(row)
      PROVE  r[k + 1].t = row[k].t /\ r[k + 1].n = SumTo(row, k) % Modulus
  <2>1. r[k + 1] = [t |-> row[k].t, n |-> SumTo(row, k) % Modulus]
    BY <1>1
  <2> QED BY <2>1
<1>3. r[1].n = 0
  BY <1>1
<1> QED BY <1>1, <1>2, <1>3 DEF r

(* The difference of two sums that may have wrapped is the count.          *)
LEMMA DifferenceIs ==
  ASSUME NEW X \in Nat, NEW n \in Nat, NEW M \in Nat \ {0}, n < M
  PROVE  (((X + n) % M) - (X % M)) % M = n
<1> DEFINE q == X \div M
           x == X % M
           p == (X + n) \div M
           y == (X + n) % M
<1>1. q \in Nat /\ x \in Nat /\ x < M /\ X = q * M + x
  OBVIOUS
<1>2. p \in Nat /\ y \in Nat /\ y < M /\ X + n = p * M + y
  <2>1. X + n \in Nat
    OBVIOUS
  <2> QED BY <2>1
<1> HIDE DEF q, x, p, y
<1>3. p * M + y = q * M + x + n
  BY <1>1, <1>2
<1>4. y - x = n \/ y - x = n - M
  <2>1. p = q \/ p = q + 1 \/ p < q \/ p > q + 1
    BY <1>1, <1>2
  <2>2. CASE p = q
    BY <1>1, <1>2, <1>3, <2>2
  <2>3. CASE p = q + 1
    <3>1. p * M = q * M + M /\ q * M \in Nat
      BY <1>1, <2>3
    <3> QED BY <1>1, <1>2, <1>3, <3>1
  <2>4. CASE p < q
    <3>1. p * M + M <= q * M /\ q * M \in Nat /\ p * M \in Nat
      <4>1. p + 1 <= q /\ (p + 1) * M = p * M + M
        BY <1>1, <1>2, <2>4
      <4> QED BY <1>1, <1>2, <4>1
    <3> QED BY <1>1, <1>2, <1>3, <3>1
  <2>5. CASE p > q + 1
    <3>1. q * M + 2 * M <= p * M /\ q * M \in Nat /\ p * M \in Nat
      <4>1. q + 2 <= p /\ (q + 2) * M = q * M + 2 * M
        BY <1>1, <1>2, <2>5
      <4> QED BY <1>1, <1>2, <4>1
    <3> QED BY <1>1, <1>2, <1>3, <3>1
  <2> QED BY <2>1, <2>2, <2>3, <2>4, <2>5
<1>5. n % M = n /\ (n - M) % M = n
  OBVIOUS
<1> QED BY <1>4, <1>5 DEF x, y

LEMMA CountAtIs ==
  ASSUME NEW row, GoodRow(row), NEW k \in 1 .. Len(row)
  PROVE  CountAt(RecordOf(row), k + 1) = row[k].n
<1> DEFINE r == RecordOf(row)
           X == SumTo(row, k - 1)
           m == row[k].n
<1>1. Len(row) \in Nat /\ k \in Nat \ {0} /\ DOMAIN row = 1 .. Len(row)
  BY RowFacts
<1>2. X \in Nat /\ m \in Nat /\ SumTo(row, k) = X + m
  BY SumNext
<1>3. m < Modulus /\ Modulus \in Nat \ {0}
  BY <1>1, ModulusAssumption DEF GoodRow, ModulusAssumption
<1>4. r[k + 1].n = (X + m) % Modulus
  BY <1>2, RecordFields
<1>5. r[k].n = X % Modulus
  <2>1. CASE k = 1
    <3>1. r[1].n = 0
      BY RecordFields
    <3>2. X = 0
      <4>1. row \in Row
        BY DEF GoodRow
      <4>2. SumTo(row, 0) = 0 /\ k - 1 = 0
        BY <2>1, <4>1, SumToType
      <4> QED BY <4>2
    <3>3. 0 % Modulus = 0
      BY <1>3
    <3> QED BY <2>1, <3>1, <3>2, <3>3
  <2>2. CASE k # 1
    <3>1. k - 1 \in 1 .. Len(row) /\ k - 1 + 1 = k
      BY <1>1, <2>2
    <3>2. r[k - 1 + 1].n = X % Modulus
      BY <3>1, RecordFields
    <3> QED BY <3>1, <3>2
  <2> QED BY <2>1, <2>2
<1>6. k + 1 - 1 = k
  BY <1>1
<1> HIDE DEF r, X, m
<1>8. CountAt(r, k + 1) = (((X + m) % Modulus) - (X % Modulus)) % Modulus
  BY <1>4, <1>5, <1>6 DEF CountAt
<1>9. (((X + m) % Modulus) - (X % Modulus)) % Modulus = m
  BY <1>2, <1>3, DifferenceIs
<1> QED BY <1>8, <1>9 DEF r, m

(* Where treelet_upper_bound() ends in the record of a row. *)
LEMMA TreeletFound ==
  ASSUME NEW row, GoodRow(row)
  PROVE  /\ \A k \in 1 .. Len(row) : FindTreelet(RecordOf(row), 2, row[k].t) = k + 1
         /\ \A t : FindTreelet(RecordOf(row), 2, t) \in 2 .. Len(row) + 2
         /\ \A s \in Nat : \A d \in 0 .. Len(row) :
              (\A k \in 1 .. Len(row) : row[k].t.s > s <=> k <= d)
                => FindTreelet(RecordOf(row), 2, TreeletOf(s)) = d + 2
<1> DEFINE r == RecordOf(row)
           n == Len(row)
           Below(t) == {i \in DOMAIN r : Less(r[i].t, t)}
<1>1. /\ n \in Nat /\ DOMAIN row = 1 .. n /\ \A k \in 1 .. n : row[k].t \in Treelet
  BY RowFacts
<1>2. Len(r) = n + 1 /\ \A k \in 1 .. n : r[k + 1].t = row[k].t
  BY RecordFields
<1>3. DOMAIN r = 1 .. n + 1
  <2>1. r = <<[t |-> InvalidTreelet, n |-> 0]>>
              \o [k \in DOMAIN row |-> [t |-> row[k].t, n |-> SumTo(row, k) % Modulus]]
    BY DEF RecordOf
  <2> HIDE DEF r
  <2> QED BY <1>1, <1>2, <2>1
<1> HIDE DEF r, n
<1>4. \A t : FindTreelet(r, 2, t) = FirstNotBelow(r, 2, Below(t))
  BY DEF FindTreelet
<1>5. Len(r) \in Nat /\ 2 \in 1 .. Len(r) + 1 /\ Len(r) + 1 = n + 2
  BY <1>1, <1>2
<1>6. \A t : FindTreelet(r, 2, t) \in 2 .. n + 2
  BY <1>4, <1>5, SearchEnds
<1>7. ASSUME NEW t, NEW d \in 0 .. n, \A k \in 1 .. n : Less(row[k].t, t) <=> k <= d
      PROVE  FindTreelet(r, 2, t) = d + 2
  <2>1. d + 2 \in 2 .. Len(r) + 1
    BY <1>1, <1>2
  <2>2. ASSUME NEW i \in 2 .. Len(r) PROVE i \in Below(t) <=> i < d + 2
    <3>1. i - 1 \in 1 .. n /\ i - 1 + 1 = i /\ i \in 1 .. n + 1 /\ (i < d + 2 <=> i - 1 <= d)
      BY <1>1, <1>2
    <3>2. r[i].t = row[i - 1].t
      BY <1>2, <3>1
    <3>3. i \in Below(t) <=> Less(row[i - 1].t, t)
      BY <1>3, <3>1, <3>2
    <3> QED BY <1>7, <3>1, <3>3
  <2>3. Parted(Len(r), 2, Below(t), d + 2)
    BY <2>1, <2>2 DEF Parted
  <2> HIDE DEF Below
  <2> QED BY <1>4, <1>5, <2>1, <2>3, SearchEnds
<1>8. ASSUME NEW k \in 1 .. n PROVE FindTreelet(r, 2, row[k].t) = k + 1
  <2>1. k - 1 \in 0 .. n /\ k - 1 + 2 = k + 1
    BY <1>1
  <2>2. ASSUME NEW j \in 1 .. n PROVE Less(row[j].t, row[k].t) <=> j <= k - 1
    <3>1. CASE j < k
      <4>1. Less(row[j].t, row[k].t)
        BY <1>1, <3>1 DEF GoodRow
      <4> QED BY <1>1, <3>1, <4>1
    <3>2. CASE j = k
      <4>1. ~Less(row[k].t, row[k].t)
        BY <1>1, LessOrders
      <4> QED BY <1>1, <3>2, <4>1
    <3>3. CASE j > k
      <4>1. Less(row[k].t, row[j].t)
        BY <1>1, <3>3 DEF GoodRow
      <4>2. ~Less(row[j].t, row[k].t)
        BY <1>1, <4>1, LessOrders
      <4> QED BY <1>1, <3>3, <4>2
    <3> QED BY <1>1, <3>1, <3>2, <3>3
  <2>3. FindTreelet(r, 2, row[k].t) = k - 1 + 2
    BY <1>7, <2>1, <2>2
  <2> QED BY <2>1, <2>3
<1>9. ASSUME NEW s \in Nat, NEW d \in 0 .. n, \A k \in 1 .. n : row[k].t.s > s <=> k <= d
      PROVE  FindTreelet(r, 2, TreeletOf(s)) = d + 2
  <2>1. \A k \in 1 .. n : Less(row[k].t, TreeletOf(s)) <=> k <= d
    BY <1>1, <1>9, LessOrders
  <2> QED BY <1>7, <2>1
<1> QED BY <1>6, <1>8, <1>9 DEF r, n

(* get_count(). *)
LEMMA GetCountIs ==
  ASSUME NEW row, GoodRow(row), NEW t
  PROVE  GetCount(RecordOf(row), t) = CountIn(row, t)
<1> DEFINE r == RecordOf(row)
           n == Len(row)
           p == FindTreelet(r, 2, t)
           counts == [k \in DOMAIN row |-> IF row[k].t = t THEN row[k].n ELSE 0]
<1>1. /\ n \in Nat /\ DOMAIN row = 1 .. n
      /\ \A k \in 1 .. n : row[k].n \in Nat /\ row[k].t \in Treelet
  BY RowFacts
<1>2. Len(r) = n + 1 /\ \A k \in 1 .. n : r[k + 1].t = row[k].t
  BY RecordFields
<1>3. CountIn(row, t) = Sigma(counts, DOMAIN row)
  BY Zenon DEF CountIn, Sigma
<1>4. GetCount(r, t) = IF p <= Len(r) /\ r[p].t = t THEN CountAt(r, p) ELSE 0
  BY DEF GetCount
<1>5. p \in 2 .. n + 2
  BY TreeletFound
<1>6. IsFiniteSet(DOMAIN row)
  <2>1. 1 \in Int /\ n \in Int
    BY <1>1
  <2> QED BY <1>1, <2>1, FS_Interval
<1>7. CASE \E k \in 1 .. n : row[k].t = t
  <2>1. PICK k \in 1 .. n : row[k].t = t
    BY <1>7
  <2>2. p = k + 1
    BY <2>1, TreeletFound
  <2>3. r[p].t = t /\ p <= Len(r)
    BY <1>1, <1>2, <2>1, <2>2
  <2>4. CountAt(r, k + 1) = row[k].n
    BY CountAtIs
  <2>5. ASSUME NEW j \in (1 .. n) \ {k} PROVE row[j].t # t
    <3>1. p = j + 1 \/ row[j].t # t
      BY TreeletFound
    <3> HIDE DEF p, n
    <3> QED BY <1>1, <2>2, <2>5, <3>1
  <2>6. counts[k] = row[k].n /\ \A j \in (DOMAIN row) \ {k} : counts[j] = 0
    BY <1>1, <2>1, <2>5
  <2>7. counts[k] \in Int /\ k \in DOMAIN row
    BY <1>1, <2>6
  <2> HIDE DEF counts, p, r
  <2>8. Sigma(counts, DOMAIN row) = counts[k]
    BY <1>6, <2>6, <2>7, SigmaSingle
  <2> QED BY <1>3, <1>4, <2>2, <2>3, <2>4, <2>6, <2>8 DEF r
<1>8. CASE ~ \E k \in 1 .. n : row[k].t = t
  <2>1. \A k \in DOMAIN row : counts[k] = 0
    BY <1>1, <1>8
  <2>2. ~(p <= Len(r) /\ r[p].t = t)
    <3> SUFFICES ASSUME p <= Len(r), r[p].t = t PROVE FALSE
      OBVIOUS
    <3> HIDE DEF p, r, n
    <3>1. p - 1 \in 1 .. n /\ p - 1 + 1 = p
      BY <1>1, <1>2, <1>5
    <3>2. r[p].t = row[p - 1].t
      BY <1>2, <3>1
    <3> QED BY <1>8, <3>1, <3>2
  <2> HIDE DEF counts, p, r
  <2>3. Sigma(counts, DOMAIN row) = 0
    BY <1>6, <2>1, SigmaZero
  <2> QED BY <1>3, <1>4, <2>2, <2>3 DEF r
<1> QED BY <1>7, <1>8

(* begin(u, t) and the iterator. *)
LEMMA FromIs ==
  ASSUME NEW row, GoodRow(row), NEW s \in Nat
  PROVE  \E d \in 0 .. Len(row) :
           /\ {k \in DOMAIN row : row[k].t.s <= s} = d + 1 .. Len(row)
           /\ From(RecordOf(row), TreeletOf(s)) = SubSeq(row, d + 1, Len(row))
<1> DEFINE r == RecordOf(row)
           n == Len(row)
           p == FindTreelet(r, 2, TreeletOf(s))
           Rest == {k \in DOMAIN row : row[k].t.s <= s}
<1>1. /\ n \in Nat /\ DOMAIN row = 1 .. n
      /\ \A k \in 1 .. n : /\ row[k] = [t |-> row[k].t, n |-> row[k].n]
                           /\ row[k].t.s \in Nat
  BY RowFacts DEF Treelet
<1>2. \A j, k \in 1 .. n : j < k => row[k].t.s <= row[j].t.s
  <2>1. ASSUME NEW j \in 1 .. n, NEW k \in 1 .. n, j < k PROVE row[k].t.s <= row[j].t.s
    <3>1. Less(row[j].t, row[k].t)
      BY <1>1, <2>1 DEF GoodRow
    <3> QED BY <1>1, <3>1 DEF Less
  <2> QED BY <2>1
<1>3. \E d \in 0 .. n : \A k \in 1 .. n : row[k].t.s > s <=> k <= d
  <2>1. CASE Rest = {}
    <3>1. n \in 0 .. n /\ \A k \in 1 .. n : row[k].t.s > s /\ k <= n
      BY <1>1, <2>1
    <3> QED BY <3>1
  <2>2. CASE Rest # {}
    <3>1. Rest \subseteq Nat
      BY <1>1
    <3> HIDE DEF Rest
    <3>2. PICK m \in Rest : \A k \in Rest : m <= k
      BY <2>2, <3>1, LeastNatural
    <3>3. m \in 1 .. n /\ row[m].t.s <= s
      BY <1>1, <3>2 DEF Rest
    <3>4. m - 1 \in 0 .. n
      BY <1>1, <3>3
    <3>5. ASSUME NEW k \in 1 .. n PROVE row[k].t.s > s <=> k <= m - 1
      <4>1. CASE k < m
        <5>1. k \notin Rest
          BY <3>2, <3>3, <4>1
        <5>2. ~(row[k].t.s <= s)
          BY <1>1, <5>1 DEF Rest
        <5> QED BY <1>1, <3>3, <4>1, <5>2
      <4>2. CASE ~(k < m)
        <5>1. row[k].t.s <= row[m].t.s
          <6>1. k = m \/ m < k
            BY <3>3, <4>2
          <6> QED BY <1>1, <1>2, <3>3, <6>1
        <5> QED BY <1>1, <3>3, <4>2, <5>1
      <4> QED BY <4>1, <4>2
    <3> QED BY <3>4, <3>5
  <2> QED BY <2>1, <2>2
<1>4. PICK d \in 0 .. n : \A k \in 1 .. n : row[k].t.s > s <=> k <= d
  BY <1>3
<1>5. p = d + 2
  BY <1>4, TreeletFound
<1>6. Rest = d + 1 .. n
  <2>1. \A k \in 1 .. n : row[k].t.s <= s <=> ~(k <= d)
    BY <1>1, <1>4
  <2>2. \A k \in 1 .. n : ~(k <= d) <=> k \in d + 1 .. n
    BY <1>1
  <2>3. d + 1 .. n \subseteq 1 .. n
    BY <1>1
  <2> QED BY <1>1, <2>1, <2>2, <2>3
<1>7. Len(r) = n + 1 /\ \A k \in 1 .. n : r[k + 1].t = row[k].t
  BY RecordFields
<1>8. \A k \in 1 .. n : CountAt(r, k + 1) = row[k].n
  BY CountAtIs
<1>9. From(r, TreeletOf(s)) =
        [k \in 1 .. Len(r) + 1 - p |->
           [t |-> r[p + k - 1].t, n |-> CountAt(r, p + k - 1)]]
  BY DEF From
<1> HIDE DEF p, r, n
<1>10. Len(r) + 1 - p = n - d
  BY <1>1, <1>5, <1>7
<1>11. ASSUME NEW k \in 1 .. n - d
       PROVE  [t |-> r[p + k - 1].t, n |-> CountAt(r, p + k - 1)] = row[d + k]
  <2>1. d + k \in 1 .. n /\ p + k - 1 = d + k + 1
    <3>1. k \in Int /\ d \in Int /\ n \in Int /\ k >= 1 /\ k <= n - d /\ d >= 0
      BY <1>1
    <3> QED BY <1>5, <3>1
  <2> QED BY <1>1, <1>7, <1>8, <2>1
<1>12. From(r, TreeletOf(s)) = [k \in 1 .. n - d |-> row[d + k]]
  BY <1>9, <1>10, <1>11
<1>13. SubSeq(row, d + 1, n) = [k \in 1 .. n - d |-> row[d + k]]
  <2> DEFINE S == [t : [s : Nat, c : SUBSET AllColors], n : Nat]
  <2>1. row \in Seq(S)
    BY DEF GoodRow, Row
  <2> HIDE DEF S
  <2>2. d + 1 \in 1 .. n + 1 /\ n \in d .. n /\ n = Len(row) /\ d \in Nat
    BY <1>1 DEF n
  <2>3. \A k \in 1 .. n - d : d + 1 + k - 1 = d + k
    BY <1>1
  <2>4. n - (d + 1) + 1 = n - d
    BY <1>1
  <2>5. SubSeq(row, d + 1, n) = [k \in 1 .. n - (d + 1) + 1 |-> row[d + 1 + k - 1]]
    BY <2>1, <2>2
  <2> QED BY <2>3, <2>4, <2>5
<1> QED BY <1>6, <1>12, <1>13 DEF r, n

(* The sums of a row never fall. *)
LEMMA SumsGrow ==
  ASSUME NEW row, GoodRow(row)
  PROVE  /\ \A k \in 0 .. Len(row) : SumTo(row, k) \in Nat
         /\ \A j, k \in 0 .. Len(row) : j <= k => SumTo(row, j) <= SumTo(row, k)
<1> DEFINE n == Len(row)
           G == {k \in 0 .. n : \A j \in 0 .. k : SumTo(row, j) <= SumTo(row, k)}
<1>1. n \in Nat
  BY RowFacts
<1>2. \A k \in 0 .. n : SumTo(row, k) \in Nat
  BY SumToType DEF GoodRow
<1>3. 0 \in G
  BY <1>1, <1>2
<1>4. ASSUME NEW k \in 1 .. n, k - 1 \in G PROVE k \in G
  <2>1. SumTo(row, k) = SumTo(row, k - 1) + row[k].n /\ row[k].n \in Nat
    BY SumNext
  <2>2. k - 1 \in 0 .. n /\ k \in 0 .. n /\ \A j \in 0 .. k : j \in 0 .. n /\ (j = k \/ j \in 0 .. k - 1)
    BY <1>1
  <2>3. ASSUME NEW j \in 0 .. k PROVE SumTo(row, j) <= SumTo(row, k)
    <3>1. CASE j = k
      BY <1>2, <2>2, <3>1
    <3>2. CASE j # k
      <4>1. j \in 0 .. k - 1
        BY <2>2, <3>2
      <4>2. SumTo(row, j) <= SumTo(row, k - 1)
        BY <1>4, <4>1
      <4> QED BY <1>2, <2>1, <2>2, <4>2
    <3> QED BY <3>1, <3>2
  <2> QED BY <2>2, <2>3
<1> HIDE DEF G
<1>5. 0 .. n \subseteq G
  BY <1>1, <1>3, <1>4, UpTo
<1>6. ASSUME NEW j \in 0 .. n, NEW k \in 0 .. n, j <= k PROVE SumTo(row, j) <= SumTo(row, k)
  <2>1. k \in G /\ j \in 0 .. k
    BY <1>5, <1>6
  <2> QED BY <2>1 DEF G
<1> QED BY <1>2, <1>6

(* The numbers x that fall to the entry of row[k]. *)
FallsTo(row, k, x) == SumTo(row, k - 1) < x /\ x <= SumTo(row, k)

(* Where count_upper_bound() ends, if the sums have not wrapped. *)
LEMMA CountFound ==
  ASSUME NEW row, GoodRow(row), SumTo(row, Len(row)) < Modulus,
         NEW x \in 1 .. SumTo(row, Len(row))
  PROVE  /\ \A k \in 1 .. Len(row) : FallsTo(row, k, x) => FindCount(RecordOf(row), x) = k + 1
         /\ \E k \in 1 .. Len(row) : FallsTo(row, k, x)
<1> DEFINE r == RecordOf(row)
           n == Len(row)
           T == SumTo(row, n)
           below == {i \in DOMAIN r : r[i].n < x}
<1>1. n \in Nat /\ Modulus \in Nat \ {0} /\ n \in 0 .. n
  BY RowFacts, ModulusAssumption DEF ModulusAssumption
<1>2. /\ \A k \in 0 .. n : SumTo(row, k) \in Nat
      /\ \A j, k \in 0 .. n : j <= k => SumTo(row, j) <= SumTo(row, k)
  BY SumsGrow
<1>3. \A m \in Nat : m < Modulus => m % Modulus = m
  BY <1>1
<1>4. \A k \in 1 .. n : SumTo(row, k) % Modulus = SumTo(row, k)
  <2> SUFFICES ASSUME NEW k \in 1 .. n PROVE SumTo(row, k) % Modulus = SumTo(row, k)
    OBVIOUS
  <2>1. k \in 0 .. n /\ k <= n
    BY <1>1
  <2>2. SumTo(row, k) \in Nat /\ SumTo(row, k) <= T /\ T \in Nat
    BY <1>1, <1>2, <2>1
  <2> HIDE DEF T
  <2>3. T < Modulus
    BY DEF T
  <2>4. SumTo(row, k) < Modulus
    BY <1>1, <2>2, <2>3
  <2> QED BY <1>3, <2>2, <2>4
<1>5. Len(r) = n + 1 /\ \A k \in 1 .. n : r[k + 1].n = SumTo(row, k)
  BY <1>4, RecordFields
<1>6. DOMAIN r = 1 .. n + 1
  <2>1. DOMAIN row = 1 .. n
    BY RowFacts
  <2>2. r = <<[t |-> InvalidTreelet, n |-> 0]>>
              \o [k \in DOMAIN row |-> [t |-> row[k].t, n |-> SumTo(row, k) % Modulus]]
    BY DEF RecordOf
  <2> HIDE DEF r
  <2> QED BY <1>1, <1>5, <2>1, <2>2
<1>7. FindCount(r, x) = FirstNotBelow(r, 2, below)
  BY DEF FindCount
<1>8. x \in Nat \ {0} /\ x <= T /\ T \in Nat /\ SumTo(row, 0) = 0
  <2>1. SumTo(row, 0) = 0
    BY SumToType DEF GoodRow
  <2> QED BY <1>1, <1>2, <2>1
<1> HIDE DEF r, n
<1>9. ASSUME NEW k \in 1 .. n, FallsTo(row, k, x) PROVE FindCount(r, x) = k + 1
  <2>1. k + 1 \in 2 .. Len(r) + 1 /\ Len(r) \in Nat /\ 2 \in 1 .. Len(r) + 1 /\ k - 1 \in 0 .. n /\ k \in 0 .. n
    BY <1>1, <1>5
  <2>2. ASSUME NEW i \in 2 .. Len(r) PROVE i \in below <=> i < k + 1
    <3>1. i - 1 \in 1 .. n /\ i - 1 + 1 = i /\ i \in 1 .. n + 1 /\ i - 1 \in 0 .. n
      BY <1>1, <1>5
    <3>2. r[i].n = SumTo(row, i - 1)
      BY <1>5, <3>1
    <3>3. i \in below <=> SumTo(row, i - 1) < x
      BY <1>6, <3>1, <3>2
    <3>4. CASE i < k + 1
      <4>1. i - 1 <= k - 1
        BY <3>1, <3>4
      <4>2. SumTo(row, i - 1) <= SumTo(row, k - 1)
        BY <1>2, <2>1, <3>1, <4>1
      <4>3. SumTo(row, i - 1) < x
        BY <1>2, <1>8, <1>9, <2>1, <3>1, <4>2 DEF FallsTo
      <4> QED BY <3>3, <3>4, <4>3
    <3>5. CASE ~(i < k + 1)
      <4>1. k <= i - 1
        BY <3>1, <3>5
      <4>2. SumTo(row, k) <= SumTo(row, i - 1)
        BY <1>2, <2>1, <3>1, <4>1
      <4>3. ~(SumTo(row, i - 1) < x)
        BY <1>2, <1>8, <1>9, <2>1, <3>1, <4>2 DEF FallsTo
      <4> QED BY <3>3, <3>5, <4>3
    <3> QED BY <3>4, <3>5
  <2>3. Parted(Len(r), 2, below, k + 1)
    BY <2>1, <2>2 DEF Parted
  <2> HIDE DEF below
  <2> QED BY <1>7, <2>1, <2>3, SearchEnds
<1>10. \E k \in 1 .. n : FallsTo(row, k, x)
  <2> DEFINE K == {k \in 0 .. n : x <= SumTo(row, k)}
  <2>1. K \subseteq Nat /\ n \in K
    BY <1>1, <1>8
  <2> HIDE DEF K
  <2>2. PICK k \in K : \A j \in K : k <= j
    BY <2>1, LeastNatural
  <2>3. k \in 0 .. n /\ x <= SumTo(row, k)
    BY <2>2 DEF K
  <2>4. k # 0
    BY <1>8, <2>3
  <2>5. k \in 1 .. n /\ k - 1 \in 0 .. n /\ ~(k <= k - 1)
    BY <1>1, <2>3, <2>4
  <2>6. k - 1 \notin K
    BY <2>2, <2>5
  <2>7. ~(x <= SumTo(row, k - 1))
    BY <2>5, <2>6 DEF K
  <2>8. SumTo(row, k - 1) < x
    BY <1>2, <1>8, <2>5, <2>7
  <2> QED BY <2>3, <2>5, <2>8 DEF FallsTo
<1> QED BY <1>9, <1>10 DEF r, n

LEMMA IntervalSize ==
  ASSUME NEW a \in Int, NEW m \in Nat
  PROVE  Cardinality(a .. a + m - 1) = m
<1>1. a + m - 1 \in Int
  OBVIOUS
<1>2. Cardinality(a .. a + m - 1) = IF a > a + m - 1 THEN 0 ELSE a + m - 1 - a + 1
  BY <1>1, FS_Interval
<1> QED BY <1>2

(* get_treelet_no() and get_random_treelet(): each treelet of the row for  *)
(* as many numbers as it was counted.                                      *)
LEMMA NumbersOf ==
  ASSUME NEW row, GoodRow(row), SumTo(row, Len(row)) < Modulus, NEW t
  PROVE  LET r == RecordOf(row)
             T == SumTo(row, Len(row))
         IN  /\ Cardinality({no \in 0 .. T - 1 : GetTreeletNo(r, no) = t}) = CountIn(row, t)
             /\ Cardinality({x \in 1 .. T : DrawnTreelet(r, x) = t}) = CountIn(row, t)
<1> DEFINE r == RecordOf(row)
           n == Len(row)
           T == SumTo(row, n)
           counts == [k \in DOMAIN row |-> IF row[k].t = t THEN row[k].n ELSE 0]
           Numbers == {no \in 0 .. T - 1 : GetTreeletNo(r, no) = t}
           Draws1 == {x \in 1 .. T : DrawnTreelet(r, x) = t}
<1>1. /\ n \in Nat /\ DOMAIN row = 1 .. n /\ n \in 0 .. n
      /\ \A k \in 1 .. n : row[k].n \in Nat /\ row[k].t \in Treelet
  <2>1. /\ n \in Nat /\ DOMAIN row = 1 .. n
        /\ \A k \in 1 .. n : row[k].n \in Nat /\ row[k].t \in Treelet
    BY RowFacts
  <2>2. n \in 0 .. n
    BY <2>1
  <2> QED BY <2>1, <2>2
<1>2. CountIn(row, t) = Sigma(counts, DOMAIN row)
  BY Zenon DEF CountIn, Sigma
<1>3. IsFiniteSet(DOMAIN row)
  <2>1. 1 \in Int /\ n \in Int
    BY <1>1
  <2> QED BY <1>1, <2>1, FS_Interval
<1>4. T \in Nat
  BY <1>1, SumsGrow
<1>5. \A k \in 1 .. n : r[k + 1].t = row[k].t
  BY RecordFields
<1>6. ASSUME NEW x \in 1 .. T
      PROVE  \E k \in 1 .. n : FallsTo(row, k, x) /\ DrawnTreelet(r, x) = row[k].t
  <2>1. PICK k \in 1 .. n : FallsTo(row, k, x)
    BY CountFound
  <2>2. FindCount(r, x) = k + 1
    BY <2>1, CountFound
  <2>3. DrawnTreelet(r, x) = row[k].t
    BY <1>5, <2>2 DEF DrawnTreelet
  <2> QED BY <2>1, <2>3
<1>7. ASSUME NEW k \in 1 .. n, NEW x \in 1 .. T, FallsTo(row, k, x)
      PROVE  DrawnTreelet(r, x) = row[k].t
  <2>1. FindCount(r, x) = k + 1
    BY <1>7, CountFound
  <2> QED BY <1>5, <2>1 DEF DrawnTreelet
<1>8. \A no \in 0 .. T - 1 : no + 1 \in 1 .. T /\ GetTreeletNo(r, no) = DrawnTreelet(r, no + 1)
  BY <1>4 DEF GetTreeletNo, DrawnTreelet
<1>9. CASE \E k \in 1 .. n : row[k].t = t
  <2>1. PICK k \in 1 .. n : row[k].t = t
    BY <1>9
  <2> DEFINE a == SumTo(row, k - 1)
             m == row[k].n
  <2>2. a \in Nat /\ m \in Nat /\ SumTo(row, k) = a + m
    BY SumNext
  <2>3. ASSUME NEW j \in (1 .. n) \ {k} PROVE row[j].t # t
    <3>1. FindTreelet(r, 2, row[k].t) = k + 1 /\ FindTreelet(r, 2, row[j].t) = j + 1
      BY TreeletFound
    <3> HIDE DEF r, n
    <3>2. j \in Int /\ k \in Int /\ j # k
      BY <1>1, <2>3
    <3> QED BY <2>1, <3>1, <3>2
  <2>4. SumTo(row, k) <= T
    <3>1. k \in 0 .. n /\ k <= n
      BY <1>1
    <3> QED BY <1>1, <3>1, SumsGrow
  <2>5. counts[k] = m /\ \A j \in (DOMAIN row) \ {k} : counts[j] = 0
    BY <1>1, <2>1, <2>3
  <2>6. counts[k] \in Int /\ k \in DOMAIN row
    BY <1>1, <2>2, <2>5
  <2>7. Sigma(counts, DOMAIN row) = m
    <3> HIDE DEF counts, m
    <3> QED BY <1>3, <2>5, <2>6, SigmaSingle
  <2> HIDE DEF T, r, n, counts, a, m
  <2>8. Draws1 = a + 1 .. a + 1 + m - 1
    <3>1. ASSUME NEW x \in Draws1 PROVE x \in a + 1 .. a + 1 + m - 1
      <4>1. x \in 1 .. T /\ DrawnTreelet(r, x) = t
        OBVIOUS
      <4>2. PICK j \in 1 .. n : FallsTo(row, j, x) /\ DrawnTreelet(r, x) = row[j].t
        BY <1>6, <4>1
      <4>3. j = k
        BY <2>3, <4>1, <4>2
      <4>4. a < x /\ x <= a + m
        BY <2>2, <4>2, <4>3 DEF FallsTo, a
      <4> QED BY <1>4, <2>2, <4>1, <4>4
    <3>2. ASSUME NEW x \in a + 1 .. a + 1 + m - 1 PROVE x \in Draws1
      <4>1. x \in Int /\ a < x /\ x <= a + m
        BY <2>2
      <4>2. x \in 1 .. T
        BY <1>4, <2>2, <2>4, <4>1
      <4>3. FallsTo(row, k, x)
        BY <2>2, <4>1 DEF FallsTo, a
      <4>4. DrawnTreelet(r, x) = t
        BY <1>7, <2>1, <4>2, <4>3
      <4> QED BY <4>2, <4>4
    <3> HIDE DEF Draws1
    <3> QED BY <3>1, <3>2
  <2>9. Numbers = a .. a + m - 1
    <3>1. ASSUME NEW no \in Numbers PROVE no \in a .. a + m - 1
      <4>1. no \in 0 .. T - 1 /\ no + 1 \in 1 .. T /\ DrawnTreelet(r, no + 1) = t
        BY <1>8
      <4>2. no + 1 \in a + 1 .. a + 1 + m - 1
        BY <2>8, <4>1
      <4> QED BY <2>2, <4>1, <4>2
    <3>2. ASSUME NEW no \in a .. a + m - 1 PROVE no \in Numbers
      <4>1. no + 1 \in a + 1 .. a + 1 + m - 1 /\ no \in Int /\ no >= 0
        BY <2>2
      <4>2. no + 1 \in 1 .. T /\ DrawnTreelet(r, no + 1) = t
        BY <2>8, <4>1
      <4>3. no \in 0 .. T - 1
        BY <1>4, <4>1, <4>2
      <4> QED BY <1>8, <4>2, <4>3
    <3> HIDE DEF Numbers
    <3> QED BY <3>1, <3>2
  <2> HIDE DEF Numbers, Draws1
  <2>10. Cardinality(Draws1) = m
    <3>1. a + 1 \in Int
      BY <2>2
    <3> QED BY <2>2, <2>8, <3>1, IntervalSize
  <2>11. Cardinality(Numbers) = m
    <3>1. a \in Int
      BY <2>2
    <3> QED BY <2>2, <2>9, <3>1, IntervalSize
  <2> QED BY <1>2, <2>7, <2>10, <2>11 DEF Numbers, Draws1, T, r, n
<1>10. CASE ~ \E k \in 1 .. n : row[k].t = t
  <2>1. \A k \in DOMAIN row : counts[k] = 0
    BY <1>1, <1>10
  <2> HIDE DEF counts
  <2>2. Sigma(counts, DOMAIN row) = 0
    BY <1>3, <2>1, SigmaZero
  <2> HIDE DEF T, r, n
  <2>3. Draws1 = {}
    BY <1>6, <1>10
  <2>4. Numbers = {}
    BY <1>8, <2>3
  <2> HIDE DEF Numbers, Draws1
  <2> QED BY <1>2, <2>2, <2>3, <2>4, FS_EmptySet DEF Numbers, Draws1, T, r, n
<1> QED BY <1>9, <1>10


-----------------------------------------------------------------------------
(* What the merge has read is what the files say, and what it has written  *)
(* is the records of what it has read.                                     *)
RecordsOf(inf, n) == [i \in 1 .. n |-> RecordOf(inf[i - 1])]
ReadsAs(file, inf, n) == \A v \in 0 .. n - 1 : GetRecord(file, v, PairSize) = RecordOf(inf[v])

InfoGiven == \A v \in DOMAIN info : <<v, info[v]>> \in AllRows

ContentInv ==
  /\ pc \in {"read"} \cup Writing => InfoGiven
  /\ pc = "rows" => Written(writer, NumVertices, RecordsOf(info, NumVertices), next, PairSize)
  /\ pc \in {"roots", "info", "done"} =>
       /\ ReadsAs(disk.dtz, info, NumVertices)
       /\ ~job.ie => disk.list = ListOf(Unique)

FaithfulInv == TableInv /\ ContentInv

LEMMA GivenRows ==
  ASSUME job \in Merges, NEW r \in AllRows
  PROVE  /\ r = <<r[1], r[2]>> /\ GoodRow(r[2]) /\ HeaderFits((Len(r[2]) + 1) * PairSize)
         /\ \E i \in DOMAIN Files : \E k \in DOMAIN Files[i].rows : r = Files[i].rows[k]
<1>1. PICK i \in DOMAIN Files : r \in ToSet(Files[i].rows)
  BY DEF AllRows, Files
<1>2. i \in 1 .. Len(Files)
  BY JobFacts
<1>3. PICK k \in DOMAIN Files[i].rows : r = Files[i].rows[k]
  BY <1>1 DEF ToSet
<1> DEFINE rows == Files[i].rows
<1>4. rows \in Seq(Nat \X Row)
  BY <1>2, JobFacts DEF CountFile, Row
<1> HIDE DEF rows
<1>5. r \in Nat \X Row
  BY <1>3, <1>4 DEF rows
<1>6. /\ \A a, b \in DOMAIN r[2] : a < b => Less(r[2][a].t, r[2][b].t)
      /\ \A a \in DOMAIN r[2] : r[2][a].n < Modulus
      /\ HeaderFits((Len(r[2]) + 1) * PairSize)
  BY <1>3, MergesAssumption DEF MergesAssumption, Files
<1>7. r = <<r[1], r[2]>> /\ r[2] \in Row
  BY <1>5
<1> QED BY <1>3, <1>6, <1>7 DEF GoodRow

LEMMA InfoRows ==
  ASSUME job \in Merges, InfoGiven, NEW v \in DOMAIN info
  PROVE  GoodRow(info[v]) /\ HeaderFits((Len(info[v]) + 1) * PairSize)
<1> DEFINE r == <<v, info[v]>>
<1>1. r \in AllRows /\ r[2] = info[v]
  BY DEF InfoGiven
<1> HIDE DEF r
<1> QED BY <1>1, GivenRows

LEMMA ReadKeepsContent ==
  ASSUME FaithfulInv, ReadFile
  PROVE  ContentInv'
<1>1. /\ pc = "read" /\ next <= Len(Files) /\ job \in Merges /\ UNCHANGED job
      /\ next \in 1 .. Len(Files)
  BY JobFacts DEF ReadFile, FaithfulInv, TableInv, MergeInv, ReadInv, Files
<1>2. pc' \in {"read", "failed"}
  BY <1>1 DEF ReadFile, Fail
<1>3. InfoGiven /\ AllRows' = AllRows
  BY <1>1 DEF FaithfulInv, ContentInv, AllRows
<1>4. \A v \in DOMAIN info' : <<v, info'[v]>> \in AllRows
  <2>1. CASE info' = info
    BY <1>3, <2>1 DEF InfoGiven
  <2>2. CASE info' # info
    <3> DEFINE rows == ToSet(Files[next].rows)
    <3>1. info' = [v \in DOMAIN info \cup {r[1] : r \in rows} |->
                     IF v \in DOMAIN info THEN info[v] ELSE (CHOOSE r \in rows : r[1] = v)[2]]
      BY <2>2 DEF ReadFile, Fail, Files
    <3>2. \A r \in rows : r \in AllRows
      BY <1>1, JobFacts DEF AllRows, Files
    <3> HIDE DEF rows
    <3>3. ASSUME NEW v \in DOMAIN info' PROVE <<v, info'[v]>> \in AllRows
      <4>1. CASE v \in DOMAIN info
        BY <1>3, <3>1, <4>1 DEF InfoGiven
      <4>2. CASE v \notin DOMAIN info
        <5> DEFINE r == CHOOSE r \in rows : r[1] = v
        <5>1. \E s \in rows : s[1] = v
          BY <3>1, <3>3, <4>2
        <5>2. r \in rows /\ r[1] = v
          BY <5>1
        <5>3. info'[v] = r[2]
          BY <3>1, <3>3, <4>2
        <5> HIDE DEF r
        <5>4. r = <<r[1], r[2]>>
          BY <1>1, <3>2, <5>2, GivenRows
        <5> QED BY <3>2, <5>2, <5>3, <5>4
      <4> QED BY <4>1, <4>2
    <3> QED BY <3>3
  <2> QED BY <2>1, <2>2
<1>5. InfoGiven'
  BY <1>3, <1>4 DEF InfoGiven
<1> QED BY <1>2, <1>5 DEF ContentInv, Writing


LEMMA InfoReads ==
  ASSUME job \in Merges, InfoGiven, DOMAIN info = Vertices
  PROVE  LET n == NumVertices
             R == RecordsOf(info, n)
         IN  \A i \in 1 .. n : /\ R[i] = RecordOf(info[i - 1])
                               /\ Len(R[i]) \in Nat \ {0} /\ HeaderFits(Len(R[i]) * PairSize)
<1> DEFINE n == NumVertices
           R == RecordsOf(info, n)
<1>1. n \in Nat
  BY JobFacts
<1>2. ASSUME NEW i \in 1 .. n
      PROVE  /\ R[i] = RecordOf(info[i - 1])
             /\ Len(R[i]) \in Nat \ {0} /\ HeaderFits(Len(R[i]) * PairSize)
  <2>1. i - 1 \in DOMAIN info
    BY <1>1 DEF Vertices
  <2>2. R[i] = RecordOf(info[i - 1])
    BY DEF RecordsOf
  <2> DEFINE row == info[i - 1]
  <2>3. GoodRow(row) /\ HeaderFits((Len(row) + 1) * PairSize)
    BY <2>1, InfoRows
  <2> HIDE DEF row, R
  <2>4. Len(RecordOf(row)) = Len(row) + 1 /\ Len(row) \in Nat
    BY <2>3, RecordIs, RowFacts
  <2>5. Len(R[i]) = Len(row) + 1
    BY <2>2, <2>4 DEF row
  <2>6. Len(R[i]) \in Nat \ {0}
    BY <2>4, <2>5
  <2>7. HeaderFits(Len(R[i]) * PairSize)
    BY <2>3, <2>5
  <2> QED BY <2>2, <2>6, <2>7 DEF row
<1> QED BY <1>2

LEMMA CheckSetsContent ==
  ASSUME FaithfulInv, Check
  PROVE  ContentInv'
<1>1. /\ pc = "read" /\ job \in Merges /\ InfoGiven /\ UNCHANGED <<job, info>>
  BY DEF Check, FaithfulInv, TableInv, MergeInv, ContentInv, Fail
<1>2. InfoGiven'
  BY <1>1 DEF InfoGiven, AllRows
<1>3. CASE pc' = "failed"
  BY <1>3 DEF ContentInv, Writing
<1>4. CASE pc' # "failed"
  <2>1. pc' = "rows" /\ next' = 0 /\ writer' = Create(NumVertices)
    BY <1>4 DEF Check, Fail
  <2>2. NumVertices' = NumVertices /\ NumVertices \in Nat
    BY <1>1, RootsFrame, JobFacts
  <2>3. Written(Create(NumVertices), NumVertices, RecordsOf(info, NumVertices), 0, PairSize)
    BY <2>2, CreatedEmpty
  <2>4. Written(writer', NumVertices', RecordsOf(info', NumVertices'), next', PairSize)
    BY <1>1, <2>1, <2>2, <2>3
  <2> QED BY <1>2, <2>1, <2>4 DEF ContentInv
<1> QED BY <1>3, <1>4

LEMMA WriteRowKeepsContent ==
  ASSUME FaithfulInv, WriteRow
  PROVE  ContentInv'
<1> DEFINE n == NumVertices
           R == RecordsOf(info, n)
<1>1. /\ pc = "rows" /\ next < n /\ job \in Merges /\ UNCHANGED <<job, info>>
      /\ next \in 0 .. n /\ DOMAIN info = Vertices /\ InfoGiven
      /\ Written(writer, n, R, next, PairSize)
  BY DEF WriteRow, FaithfulInv, TableInv, MergeInv, RootsInv, InfoInv, ContentInv, Writing, Fail
<1>2. InfoGiven'
  BY <1>1 DEF InfoGiven, AllRows
<1>3. CASE pc' = "failed"
  BY <1>3 DEF ContentInv, Writing
<1>4. CASE pc' # "failed"
  <2>1. /\ pc' = "rows" /\ next' = next + 1
        /\ writer' = WriteRecord(writer, RecordOf(info[next]), PairSize)
    BY <1>1, <1>4 DEF WriteRow, Fail
  <2>2. NumVertices' = n /\ n \in Nat
    BY <1>1, RootsFrame, JobFacts
  <2>3. next \in 0 .. n - 1 /\ next + 1 \in 1 .. n /\ next + 1 - 1 = next
    BY <1>1, <2>2
  <2>4. \A i \in 1 .. n : /\ R[i] = RecordOf(info[i - 1])
                          /\ Len(R[i]) \in Nat \ {0} /\ HeaderFits(Len(R[i]) * PairSize)
    BY <1>1, InfoReads
  <2> HIDE DEF n, R
  <2>5. /\ R[next + 1] = RecordOf(info[next])
        /\ Len(R[next + 1]) \in Nat /\ HeaderFits(Len(R[next + 1]) * PairSize)
    BY <2>3, <2>4
  <2>6. Written(WriteRecord(writer, R[next + 1], PairSize), n, R, next + 1, PairSize)
    BY <1>1, <2>2, <2>3, <2>5, RecordAppended
  <2>7. Written(writer', NumVertices', RecordsOf(info', NumVertices'), next', PairSize)
    BY <1>1, <2>1, <2>2, <2>5, <2>6 DEF R
  <2> QED BY <1>2, <2>1, <2>7 DEF ContentInv
<1> QED BY <1>3, <1>4

(* The end of the table: what is read from it are the records. *)
LEMMA FinishKeepsContent ==
  ASSUME FaithfulInv, Finish
  PROVE  ContentInv'
<1> DEFINE n == NumVertices
           R == RecordsOf(info, n)
<1>1. /\ pc = "rows" /\ next = n /\ job \in Merges /\ UNCHANGED <<job, info>>
      /\ DOMAIN info = Vertices /\ InfoGiven /\ DiskType
      /\ Written(writer, n, R, next, PairSize)
  BY DEF Finish, FaithfulInv, TableInv, MergeInv, RootsInv, InfoInv, ContentInv, Writing
<1>2. InfoGiven' /\ Unique' = Unique
  BY <1>1 DEF InfoGiven, AllRows, Unique
<1>3. NumVertices' = n /\ n \in Nat
  BY <1>1, RootsFrame, JobFacts
<1>4. \A i \in 1 .. n : /\ R[i] = RecordOf(info[i - 1])
                        /\ Len(R[i]) \in Nat \ {0} /\ HeaderFits(Len(R[i]) * PairSize)
  BY <1>1, InfoReads
<1> HIDE DEF n, R
<1>5. /\ CanClose(writer)
      /\ \A i \in 0 .. n - 1 : GetRecord(Close(writer), i, PairSize) = R[i + 1]
  <2>1. Writable(n, R, PairSize)
    BY <1>4 DEF Writable
  <2>2. Written(writer, n, R, n, PairSize)
    BY <1>1
  <2> QED BY <1>3, <2>1, <2>2, ClosedReads
<1>6. ReadsAs(Close(writer), info, n)
  <2>1. ASSUME NEW v \in 0 .. n - 1
        PROVE  GetRecord(Close(writer), v, PairSize) = RecordOf(info[v])
    <3>1. v + 1 \in 1 .. n /\ v + 1 - 1 = v
      BY <1>3
    <3>2. R[v + 1] = RecordOf(info[v])
      BY <1>4, <3>1
    <3> QED BY <1>5, <3>2
  <2> QED BY <2>1 DEF ReadsAs
<1> DEFINE list == IF job.ie THEN disk.list ELSE ListOf(Unique)
           d == [disk EXCEPT !.list = list]
<1>7. pc' = "roots" /\ disk' = [d EXCEPT !.dtz = Close(writer)]
  BY <1>5 DEF Finish
<1>8. d = [dtz |-> disk.dtz, list |-> list, rts |-> disk.rts, info |-> disk.info]
  BY <1>1, DiskFields DEF DiskType
<1> HIDE DEF d, list
<1>9. disk' = [dtz |-> Close(writer), list |-> list, rts |-> disk.rts, info |-> disk.info]
  BY <1>7, <1>8
<1>10. disk'.dtz = Close(writer) /\ disk'.list = list
  BY <1>9
<1>11. ReadsAs(disk'.dtz, info', NumVertices')
  BY <1>1, <1>3, <1>6, <1>10
<1>12. ~job'.ie => disk'.list = ListOf(Unique')
  BY <1>1, <1>2, <1>10 DEF list
<1> QED BY <1>2, <1>7, <1>11, <1>12 DEF ContentInv

LEMMA EndKeepsContent ==
  ASSUME FaithfulInv, WriteRoots \/ WriteInfo
  PROVE  ContentInv'
<1>1. /\ pc \in {"roots", "info"} /\ job \in Merges /\ UNCHANGED <<job, info>>
      /\ InfoGiven /\ DiskType /\ ReadsAs(disk.dtz, info, NumVertices)
      /\ ~job.ie => disk.list = ListOf(Unique)
  BY DEF WriteRoots, WriteInfo, FaithfulInv, TableInv, MergeInv, RootsInv, ContentInv, Writing, Fail
<1>2. InfoGiven' /\ Unique' = Unique /\ NumVertices' = NumVertices
  BY <1>1, RootsFrame DEF InfoGiven, AllRows, Unique
<1>3. CASE pc' = "failed"
  BY <1>3 DEF ContentInv, Writing
<1>4. CASE pc' # "failed"
  <2>1. pc' \in {"info", "done"}
    BY <1>4 DEF WriteRoots, WriteInfo, Fail
  <2>2. disk'.dtz = disk.dtz /\ disk'.list = disk.list
    <3>1. CASE WriteRoots
      <4>1. disk' = [disk EXCEPT !.rts = AliasBuild(roots)]
        BY <1>4, <3>1 DEF WriteRoots, Fail
      <4>2. disk' = [dtz |-> disk.dtz, list |-> disk.list, rts |-> AliasBuild(roots), info |-> disk.info]
        BY <1>1, <4>1, DiskFields DEF DiskType
      <4> QED BY <4>2
    <3>2. CASE WriteInfo
      <4> DEFINE inf == IF job.ie THEN disk.info ELSE [n |-> roots.total]
      <4>1. disk' = [disk EXCEPT !.info = inf]
        BY <3>2 DEF WriteInfo
      <4> HIDE DEF inf
      <4>2. disk' = [dtz |-> disk.dtz, list |-> disk.list, rts |-> disk.rts, info |-> inf]
        BY <1>1, <4>1, DiskFields DEF DiskType
      <4> QED BY <4>2
    <3> QED BY <3>1, <3>2
  <2>3. ReadsAs(disk'.dtz, info', NumVertices')
    BY <1>1, <1>2, <2>2
  <2>4. ~job'.ie => disk'.list = ListOf(Unique')
    BY <1>1, <1>2, <2>2
  <2> QED BY <1>2, <2>1, <2>3, <2>4 DEF ContentInv, Writing
<1> QED BY <1>3, <1>4

LEMMA ContentNext == FaithfulInv /\ [Next]_vars => ContentInv'
<1> SUFFICES ASSUME FaithfulInv, [Next]_vars PROVE ContentInv'
  OBVIOUS
<1>1. CASE Start
  <2>1. pc' = "read" /\ info' = <<>>
    BY <1>1 DEF Start
  <2> QED BY <2>1 DEF ContentInv, InfoGiven, Writing
<1>2. CASE ReadFile
  BY <1>2, ReadKeepsContent
<1>3. CASE Check
  BY <1>3, CheckSetsContent
<1>4. CASE WriteRow
  BY <1>4, WriteRowKeepsContent
<1>5. CASE Finish
  BY <1>5, FinishKeepsContent
<1>6. CASE WriteRoots \/ WriteInfo
  BY <1>6, EndKeepsContent
<1>7. CASE SetSelector \/ DropSelector \/ UNCHANGED vars
  <2>1. UNCHANGED <<job, pc, next, info, writer, disk>>
    BY <1>7 DEF SetSelector, DropSelector, vars
  <2>2. NumVertices' = NumVertices /\ InfoGiven' = InfoGiven /\ Unique' = Unique
    BY <2>1, RootsFrame DEF InfoGiven, AllRows, Unique
  <2>3. pc = "rows" => Written(writer', NumVertices', RecordsOf(info', NumVertices'), next', PairSize)
    BY <2>1, <2>2 DEF FaithfulInv, ContentInv
  <2>4. pc \in {"roots", "info", "done"} =>
          /\ ReadsAs(disk'.dtz, info', NumVertices')
          /\ ~job'.ie => disk'.list = ListOf(Unique')
    BY <2>1, <2>2 DEF FaithfulInv, ContentInv
  <2> QED BY <2>1, <2>2, <2>3, <2>4 DEF FaithfulInv, ContentInv
<1> QED BY <1>1, <1>2, <1>3, <1>4, <1>5, <1>6, <1>7 DEF Next

(* write_table(): what has been read are rows of the files, and what can   *)
(* be read of the table it has closed are the records of those rows.       *)
THEOREM FaithfulInvariant == Spec => []FaithfulInv
<1>1. Init => FaithfulInv
  BY DEF Init, FaithfulInv, TableInv, MergeInv, RootsInv, DiskType, InfoInv, ContentInv, Writing
<1>2. FaithfulInv /\ [Next]_vars => FaithfulInv'
  BY MergeNext, RootsNext, ContentNext DEF FaithfulInv, TableInv
<1> QED BY <1>1, <1>2, PTL DEF Spec


-----------------------------------------------------------------------------
(* The list of the treelets. *)
ListedStep(g, S, k) ==
  IF k = 0 THEN Create(Cardinality(S)) ELSE WriteRecord(g[k - 1], <<Sorted(S)[k]>>, TreeletSize)
IsListing(g, S, m) == g = [k \in 0 .. m |-> ListedStep(g, S, k)]

LEMMA ListingExists == ASSUME NEW S, NEW n \in Nat PROVE \E g : IsListing(g, S, n)
<1> DEFINE G == {m \in 0 .. n : \E g : IsListing(g, S, m)}
<1>1. 0 \in G
  <2> DEFINE g == [k \in 0 .. 0 |-> ListedStep(<<>>, S, k)]
  <2>1. \A k \in 0 .. 0 : ListedStep(g, S, k) = ListedStep(<<>>, S, k)
    BY DEF ListedStep
  <2> QED BY <2>1 DEF IsListing
<1>2. ASSUME NEW m \in 1 .. n, m - 1 \in G PROVE m \in G
  <2>1. PICK g : IsListing(g, S, m - 1)
    BY <1>2
  <2> DEFINE h == [k \in 0 .. m |-> ListedStep(g, S, k)]
  <2>2. ASSUME NEW k \in 0 .. m PROVE ListedStep(h, S, k) = ListedStep(g, S, k)
    <3>1. CASE k = 0
      BY <3>1 DEF ListedStep
    <3>2. CASE k # 0
      <4>1. k - 1 \in 0 .. m /\ k - 1 \in 0 .. m - 1
        BY <3>2
      <4>2. h[k - 1] = g[k - 1]
        BY <2>1, <4>1 DEF IsListing
      <4> HIDE DEF h
      <4> QED BY <4>2, <3>2 DEF ListedStep
    <3> QED BY <3>1, <3>2
  <2>3. IsListing(h, S, m)
    BY <2>2 DEF IsListing
  <2> QED BY <2>3
<1> HIDE DEF G
<1>3. 0 .. n \subseteq G
  BY <1>1, <1>2, UpTo
<1>4. n \in G
  BY <1>3
<1> QED BY <1>4 DEF G

(* The list has the treelets of a finite set, each once, in their order.   *)
LEMMA ListReads ==
  ASSUME NEW S, IsFiniteSet(S)
  PROVE  /\ ListOf(S).number = Cardinality(S)
         /\ \A k \in 1 .. Cardinality(S) :
              GetRecord(ListOf(S), k - 1, TreeletSize) = <<Sorted(S)[k]>>
<1> DEFINE n == Cardinality(S)
           g == CHOOSE f : IsListing(f, S, n)
           R == [k \in 1 .. n |-> <<Sorted(S)[k]>>]
           G == {k \in 0 .. n : Written(g[k], n, R, k, TreeletSize)}
<1>1. n \in Nat
  BY FS_CardinalityType
<1>2. ListOf(S) = Close(g[n])
  BY Zenon DEF ListOf, IsListing, ListedStep
<1>3. \A k \in 0 .. n : g[k] = ListedStep(g, S, k)
  <2>1. IsListing(g, S, n)
    BY <1>1, ListingExists
  <2> HIDE DEF g
  <2> QED BY <2>1 DEF IsListing
<1>4. \A k \in 1 .. n : R[k] = <<Sorted(S)[k]>> /\ Len(R[k]) = 1 /\ HeaderFits(Len(R[k]) * TreeletSize)
  <2>1. HeaderFits(TreeletSize)
    BY MergesAssumption DEF MergesAssumption
  <2>3. 1 * TreeletSize = TreeletSize
    BY DEF TreeletSize
  <2>2. \A k \in 1 .. n : R[k] = <<Sorted(S)[k]>> /\ Len(R[k]) = 1
    OBVIOUS
  <2> HIDE DEF R
  <2> QED BY <2>1, <2>2, <2>3
<1> HIDE DEF g, R, n
<1>5. 0 \in G
  <2>1. 0 \in 0 .. n
    BY <1>1
  <2>2. g[0] = ListedStep(g, S, 0)
    BY <1>3, <2>1
  <2>3. g[0] = Create(n)
    BY <2>2 DEF ListedStep, n
  <2>4. Written(Create(n), n, R, 0, TreeletSize)
    BY <1>1, CreatedEmpty
  <2> QED BY <2>1, <2>3, <2>4
<1>6. ASSUME NEW k \in 1 .. n, k - 1 \in G PROVE k \in G
  <2>1. k - 1 \in 0 .. n - 1 /\ k \in 0 .. n /\ k - 1 + 1 = k /\ k # 0
    BY <1>1
  <2>2. Written(g[k - 1], n, R, k - 1, TreeletSize)
    BY <1>6
  <2>3. g[k] = WriteRecord(g[k - 1], R[k], TreeletSize)
    BY <1>3, <1>4, <2>1 DEF ListedStep
  <2>4. Len(R[k]) \in Nat /\ HeaderFits(Len(R[k]) * TreeletSize)
    BY <1>4
  <2> DEFINE j == k - 1
  <2>5. j \in 0 .. n - 1 /\ j + 1 = k /\ Written(g[j], n, R, j, TreeletSize)
    BY <2>1, <2>2
  <2> HIDE DEF j
  <2>6. Written(WriteRecord(g[j], R[j + 1], TreeletSize), n, R, j + 1, TreeletSize)
    BY <1>1, <2>4, <2>5, RecordAppended
  <2>7. Written(g[k], n, R, k, TreeletSize)
    BY <2>3, <2>5, <2>6 DEF j
  <2> QED BY <2>1, <2>7
<1> HIDE DEF G
<1>7. 0 .. n \subseteq G
  BY <1>1, <1>5, <1>6, UpTo
<1>8. Written(g[n], n, R, n, TreeletSize)
  BY <1>1, <1>7 DEF G
<1>9. Writable(n, R, TreeletSize)
  BY <1>4 DEF Writable
<1>10. /\ Close(g[n]).number = n
       /\ \A i \in 0 .. n - 1 : GetRecord(Close(g[n]), i, TreeletSize) = R[i + 1]
  <2> DEFINE file == g[n]
  <2>1. Written(file, n, R, n, TreeletSize) /\ TreeletSize \in {PairSize, TreeletSize}
    BY <1>8
  <2> HIDE DEF file
  <2>2. /\ Close(file).number = n
        /\ \A i \in 0 .. n - 1 : GetRecord(Close(file), i, TreeletSize) = R[i + 1]
    BY <1>1, <1>9, <2>1, ClosedReads
  <2> QED BY <2>2 DEF file
<1>11. ASSUME NEW k \in 1 .. n
       PROVE  GetRecord(ListOf(S), k - 1, TreeletSize) = <<Sorted(S)[k]>>
  <2>1. k - 1 \in 0 .. n - 1 /\ k - 1 + 1 = k
    BY <1>1
  <2> QED BY <1>2, <1>4, <1>10, <2>1
<1> QED BY <1>2, <1>10, <1>11 DEF n

LEMMA RowTreeletsFinite ==
  ASSUME NEW row, GoodRow(row)
  PROVE  IsFiniteSet({x.t : x \in ToSet(row)}) /\ {x.t : x \in ToSet(row)} \subseteq Treelet
<1> DEFINE n == Len(row)
           T == {x.t : x \in ToSet(row)}
           f == [k \in 1 .. n |-> row[k].t]
<1>1. n \in Nat /\ DOMAIN row = 1 .. n /\ \A k \in 1 .. n : row[k].t \in Treelet
  BY RowFacts
<1>2. T = {row[k].t : k \in 1 .. n}
  BY <1>1 DEF ToSet
<1> HIDE DEF n, T
<1>3. f \in [1 .. n -> T] /\ \A t \in T : \E k \in 1 .. n : f[k] = t
  BY <1>2
<1>4. f \in Surjection(1 .. n, T)
  BY <1>3 DEF Surjection
<1>5. IsFiniteSet(1 .. n)
  <2>1. 1 \in Int /\ n \in Int
    BY <1>1
  <2> QED BY <2>1, FS_Interval
<1>6. IsFiniteSet(T)
  BY <1>4, <1>5, FS_Surjection
<1>7. T \subseteq Treelet
  BY <1>1, <1>2
<1> QED BY <1>6, <1>7 DEF T

LEMMA UniqueFinite ==
  ASSUME job \in Merges, InfoGiven, DOMAIN info = Vertices
  PROVE  IsFiniteSet(Unique) /\ Unique \subseteq Treelet
<1> DEFINE n == NumVertices
           At(v) == {x.t : x \in ToSet(info[v])}
           Below(m) == UNION {At(v) : v \in 0 .. m - 1}
           G == {m \in 0 .. n : IsFiniteSet(Below(m))}
<1>1. n \in Nat
  BY JobFacts
<1>2. \A v \in 0 .. n - 1 : IsFiniteSet(At(v)) /\ At(v) \subseteq Treelet
  BY InfoRows, RowTreeletsFinite DEF Vertices
<1>3. Unique = Below(n)
  BY DEF Unique, Vertices
<1> HIDE DEF n, At
<1>4. 0 \in G
  <2>1. Below(0) = {}
    OBVIOUS
  <2> QED BY <1>1, <2>1, FS_EmptySet
<1>5. ASSUME NEW m \in 1 .. n, m - 1 \in G PROVE m \in G
  <2>1. 0 .. m - 1 = (0 .. m - 1 - 1) \cup {m - 1} /\ m - 1 \in 0 .. n - 1 /\ m \in 0 .. n
    BY <1>1
  <2>2. Below(m) = Below(m - 1) \cup At(m - 1)
    BY <2>1
  <2>3. IsFiniteSet(Below(m - 1))
    BY <1>5
  <2>4. IsFiniteSet(At(m - 1))
    BY <1>2, <2>1
  <2> HIDE DEF Below
  <2>5. IsFiniteSet(Below(m - 1) \cup At(m - 1))
    BY <2>3, <2>4, FS_Union
  <2>6. IsFiniteSet(Below(m))
    BY <2>2, <2>5
  <2> QED BY <2>1, <2>6
<1> HIDE DEF G
<1>6. 0 .. n \subseteq G
  BY <1>1, <1>4, <1>5, UpTo
<1>7. IsFiniteSet(Below(n))
  BY <1>1, <1>6 DEF G
<1>8. Below(n) \subseteq Treelet
  BY <1>2
<1> QED BY <1>3, <1>7, <1>8

(* Files that fit together have one row of each vertex, and it is the one  *)
(* that has been read.                                                     *)
LEMMA RowsAreInfo ==
  ASSUME job \in Merges, InfoGiven, DOMAIN info = Vertices, FitTogether
  PROVE  /\ \A v \in Vertices : RowOf(v) = info[v]
         /\ Known = Unique
<1>1. ASSUME NEW r \in AllRows
      PROVE  r[1] \in Vertices /\ r = <<r[1], info[r[1]]>>
  <2>1. PICK i \in DOMAIN Files : \E k \in DOMAIN Files[i].rows : r = Files[i].rows[k]
    BY GivenRows
  <2>2. PICK k \in DOMAIN Files[i].rows : r = Files[i].rows[k]
    BY <2>1
  <2> DEFINE v == r[1]
  <2>3. v = VertexAt(Files, i, k)
    BY <2>2 DEF VertexAt
  <2>4. i \in 1 .. Len(Files) /\ Files[i].nv = NumVertices
    BY JobFacts DEF FitTogether, Files
  <2>5. v \in Vertices
    <3>1. v \in Nat /\ v < NumVertices /\ NumVertices \in Nat
      BY <2>3, <2>4, JobFacts
    <3> HIDE DEF v
    <3> QED BY <3>1 DEF Vertices
  <2>6. <<v, info[v]>> \in AllRows
    BY <2>5 DEF InfoGiven
  <2>7. PICK j \in DOMAIN Files : \E l \in DOMAIN Files[j].rows : <<v, info[v]>> = Files[j].rows[l]
    BY <2>6, GivenRows
  <2>8. PICK l \in DOMAIN Files[j].rows : <<v, info[v]>> = Files[j].rows[l]
    BY <2>7
  <2>9. VertexAt(Files, j, l) = v
    BY <2>8 DEF VertexAt
  <2> HIDE DEF v
  <2>10. <<i, k>> \in Places(v) /\ <<j, l>> \in Places(v)
    BY <2>3, <2>9 DEF Places, Files, VertexAt
  <2>11. \E p \in Places(v) : Places(v) = {p}
    BY <2>5 DEF FitTogether
  <2>12. i = j /\ k = l
    BY <2>10, <2>11
  <2>13. r = <<v, info[v]>>
    BY <2>2, <2>8, <2>12
  <2> QED BY <2>5, <2>13 DEF v
<1>2. ASSUME NEW v \in Vertices
      PROVE  RowOf(v) = info[v]
  <2> DEFINE r == CHOOSE s \in AllRows : s[1] = v
  <2>1. <<v, info[v]>> \in AllRows
    BY DEF InfoGiven
  <2>2. r \in AllRows /\ r[1] = v
    <3>1. <<v, info[v]>>[1] = v
      OBVIOUS
    <3> QED BY <2>1, <3>1
  <2>3. RowOf(v) = r[2]
    BY Zenon DEF RowOf
  <2> HIDE DEF r
  <2>4. r = <<v, info[v]>>
    BY <1>1, <2>2
  <2> QED BY <2>3, <2>4
<1>3. Known \subseteq Unique
  <2>1. ASSUME NEW t \in Known PROVE t \in Unique
    <3>1. PICK r \in AllRows : t \in {x.t : x \in ToSet(r[2])}
      BY DEF Known
    <3>2. r[1] \in DOMAIN info /\ r[2] = info[r[1]]
      BY <1>1
    <3> QED BY <3>1, <3>2 DEF Unique
  <2> QED BY <2>1
<1>4. Unique \subseteq Known
  <2>1. ASSUME NEW t \in Unique PROVE t \in Known
    <3>1. PICK v \in DOMAIN info : t \in {x.t : x \in ToSet(info[v])}
      BY DEF Unique
    <3> DEFINE r == <<v, info[v]>>
    <3>2. r \in AllRows /\ r[2] = info[v]
      BY DEF InfoGiven
    <3> HIDE DEF r
    <3> QED BY <3>1, <3>2 DEF Known
  <2> QED BY <2>1
<1> QED BY <1>2, <1>3, <1>4

(* A complete table answers as the count files say: the count of a         *)
(* treelet at a vertex, the rows from a structure on, the treelet of a     *)
(* number, what a draw gives, and the list of the treelets; through the    *)
(* compression of the records, and whether or not the sums wrap.           *)
THEOREM TableFaithful == Spec => []TableIsFaithful
<1>1. FaithfulInv => TableIsFaithful
  <2> SUFFICES ASSUME FaithfulInv, pc = "done" PROVE TableIsFaithful
    BY DEF TableIsFaithful
  <2>1. /\ job \in Merges /\ DOMAIN info = Vertices /\ InfoGiven /\ FitTogether
        /\ ReadsAs(disk.dtz, info, NumVertices)
        /\ ~job.ie => disk.list = ListOf(Unique)
    BY DEF FaithfulInv, TableInv, MergeInv, RootsInv, InfoInv, ContentInv, Writing
  <2>2. /\ Known = Unique /\ IsFiniteSet(Known) /\ Known \subseteq Treelet
        /\ \A v \in Vertices : RowOf(v) = info[v] /\ GoodRow(info[v])
    BY <2>1, RowsAreInfo, UniqueFinite, InfoRows
  <2>3. ASSUME NEW v \in Vertices, NEW t \in Known
        PROVE  LET record == RecordAt(v)
                   row == RowOf(v)
               IN  /\ GetCount(record, t) = CountIn(row, t)
                   /\ \E d \in 0 .. Len(row) :
                        /\ {k \in DOMAIN row : row[k].t.s <= t.s} = d + 1 .. Len(row)
                        /\ From(record, TreeletOf(t.s)) = SubSeq(row, d + 1, Len(row))
                   /\ RowTotal(v) < Modulus =>
                        /\ Cardinality({no \in 0 .. RowTotal(v) - 1 : GetTreeletNo(record, no) = t})
                             = CountIn(row, t)
                        /\ Cardinality({r \in 1 .. RowTotal(v) : DrawnTreelet(record, r) = t})
                             = CountIn(row, t)
    <3> DEFINE row == info[v]
    <3>1. RowOf(v) = row /\ GoodRow(row)
      BY <2>2
    <3>2. RecordAt(v) = RecordOf(row)
      BY <2>1 DEF ReadsAs, RecordAt, Vertices
    <3>3. RowTotal(v) = SumTo(row, Len(row))
      BY DEF RowTotal, RowTotals
    <3>4. t.s \in Nat
      BY <2>2 DEF Treelet
    <3> HIDE DEF row
    <3>5. GetCount(RecordOf(row), t) = CountIn(row, t)
      BY <3>1, GetCountIs
    <3>6. \E d \in 0 .. Len(row) :
            /\ {k \in DOMAIN row : row[k].t.s <= t.s} = d + 1 .. Len(row)
            /\ From(RecordOf(row), TreeletOf(t.s)) = SubSeq(row, d + 1, Len(row))
      BY <3>1, <3>4, FromIs
    <3>7. SumTo(row, Len(row)) < Modulus =>
            /\ Cardinality({no \in 0 .. SumTo(row, Len(row)) - 1 : GetTreeletNo(RecordOf(row), no) = t})
                 = CountIn(row, t)
            /\ Cardinality({r \in 1 .. SumTo(row, Len(row)) : DrawnTreelet(RecordOf(row), r) = t})
                 = CountIn(row, t)
      BY <3>1, NumbersOf
    <3> QED BY <3>1, <3>2, <3>3, <3>5, <3>6, <3>7, Zenon
  <2>4. ASSUME ~job.ie
        PROVE  [k \in 1 .. disk.list.number |-> GetRecord(disk.list, k - 1, TreeletSize)[1]]
                 = Sorted(Known)
    <3> DEFINE n == Cardinality(Known)
    <3>1. /\ disk.list = ListOf(Known) /\ disk.list.number = n
          /\ \A k \in 1 .. n : GetRecord(disk.list, k - 1, TreeletSize) = <<Sorted(Known)[k]>>
      BY <2>1, <2>2, <2>4, ListReads
    <3>2. \A k \in 1 .. n : GetRecord(disk.list, k - 1, TreeletSize)[1] = Sorted(Known)[k]
      BY <3>1
    <3>3. Sorted(Known) = [k \in 1 .. n |-> Sorted(Known)[k]]
      <4> DEFINE At(k) == CHOOSE t \in Known : Cardinality({u \in Known : Less(u, t)}) = k - 1
      <4>1. Sorted(Known) = [k \in 1 .. n |-> At(k)]
        BY Zenon DEF Sorted
      <4> HIDE DEF At, n
      <4> QED BY <4>1
    <3> HIDE DEF n
    <3> QED BY <3>1, <3>2, <3>3
  <2> QED BY <2>3, <2>4 DEF TableIsFaithful
<1> QED BY <1>1, FaithfulInvariant, PTL

-----------------------------------------------------------------------------
(* RangeSampler: ranges in order, none empty, that hold the numbers in X. *)
Interval == [from : Nat, to : Nat]
Covers(ranges, X) ==
  /\ ranges \in Seq(Interval)
  /\ \A k \in 1 .. Len(ranges) : ranges[k].from < ranges[k].to
  /\ \A j, k \in 1 .. Len(ranges) : j < k => ranges[j].to <= ranges[k].from
  /\ X = {x \in Nat : \E k \in 1 .. Len(ranges) : ranges[k].from <= x /\ x < ranges[k].to}
Between(a, b) == {x \in Nat : a <= x /\ x < b}

LEMMA RangeAdded ==
  ASSUME NEW ranges, NEW X, Covers(ranges, X), NEW a \in Nat, NEW b \in Nat, a <= b,
         \A x \in X : x < a
  PROVE  Covers(AddRange(ranges, a, b), X \cup Between(a, b))
<1> DEFINE n == Len(ranges)
           r == AddRange(ranges, a, b)
<1>1. /\ n \in Nat /\ ranges \in Seq(Interval) /\ DOMAIN ranges = 1 .. n
      /\ \A k \in 1 .. n : /\ ranges[k].from \in Nat /\ ranges[k].to \in Nat
                           /\ ranges[k] = [from |-> ranges[k].from, to |-> ranges[k].to]
                           /\ ranges[k].from < ranges[k].to
  <2>1. ranges \in Seq(Interval) /\ \A k \in 1 .. n : ranges[k].from < ranges[k].to
    BY DEF Covers
  <2>2. n \in Nat /\ DOMAIN ranges = 1 .. n /\ \A k \in 1 .. n : ranges[k] \in Interval
    BY <2>1
  <2> QED BY <2>1, <2>2 DEF Interval
<1>2. \A j, k \in 1 .. n : j < k => ranges[j].to <= ranges[k].from
  BY DEF Covers
<1>3. X = {x \in Nat : \E k \in 1 .. n : ranges[k].from <= x /\ x < ranges[k].to}
  BY DEF Covers
<1>4. ASSUME NEW k \in 1 .. n PROVE ranges[k].to <= a
  <2> DEFINE x == ranges[k].to - 1
  <2>1. ranges[k].from \in Nat /\ ranges[k].to \in Nat /\ ranges[k].from < ranges[k].to
    BY <1>1
  <2>2. x \in Nat /\ ranges[k].from <= x /\ x < ranges[k].to
    BY <2>1
  <2>3. x \in X
    BY <1>3, <2>2
  <2> QED BY <2>1, <2>3
<1>5. CASE a = b
  <2>1. r = ranges /\ Between(a, b) = {}
    BY <1>5 DEF AddRange, Between
  <2> QED BY <2>1
<1>6. CASE a # b /\ ranges # <<>> /\ Last(ranges).to = a
  <2>1. n \in 1 .. n /\ Last(ranges) = ranges[n]
    BY <1>1, <1>6 DEF Last
  <2>2. r = [ranges EXCEPT ![n].to = b]
    BY <1>6 DEF AddRange
  <2> DEFINE f == ranges[n].from
             last == [from |-> f, to |-> b]
  <2>3. ranges[n] = [from |-> f, to |-> a] /\ f \in Nat /\ f < a
    BY <1>1, <1>6, <2>1
  <2>4. r = [ranges EXCEPT ![n] = last]
    <3>1. [ranges[n] EXCEPT !.to = b] = last
      <4> HIDE DEF f
      <4> QED BY <2>3
    <3> HIDE DEF last
    <3> QED BY <2>2, <3>1
  <2>5. last \in Interval /\ last.from = f /\ last.to = b
    BY <2>3 DEF Interval
  <2> HIDE DEF last, f, r, n
  <2>6. /\ r \in Seq(Interval) /\ Len(r) = n /\ r[n] = last
        /\ \A k \in 1 .. n : k # n => r[k] = ranges[k]
    BY <1>1, <2>1, <2>4, <2>5 DEF n
  <2>7. \A k \in 1 .. n : r[k].from = ranges[k].from /\ (k # n => r[k].to = ranges[k].to)
    BY <2>5, <2>6 DEF f
  <2>8. r[n].to = b /\ ranges[n].to = a /\ r[n].from = f
    BY <2>3, <2>5, <2>6
  <2>9. \A k \in 1 .. n : r[k].from < r[k].to
    BY <1>1, <2>3, <2>7, <2>8
  <2>10. \A j, k \in 1 .. n : j < k => r[j].to <= r[k].from
    BY <1>1, <1>2, <2>7
  <2>11. X \cup Between(a, b) = {x \in Nat : \E k \in 1 .. n : r[k].from <= x /\ x < r[k].to}
    <3>1. ASSUME NEW x \in X \cup Between(a, b)
          PROVE  x \in Nat /\ \E k \in 1 .. n : r[k].from <= x /\ x < r[k].to
      <4>1. CASE x \in X
        <5>1. PICK k \in 1 .. n : ranges[k].from <= x /\ x < ranges[k].to
          BY <1>3, <4>1
        <5>2. x \in Nat
          BY <1>3, <4>1
        <5>3. CASE k = n
          BY <2>1, <2>3, <2>7, <2>8, <5>1, <5>2, <5>3
        <5>4. CASE k # n
          BY <2>7, <5>1, <5>2, <5>4
        <5> QED BY <5>3, <5>4
      <4>2. CASE x \in Between(a, b)
        BY <2>1, <2>3, <2>8, <4>2 DEF Between
      <4> QED BY <4>1, <4>2
    <3>2. ASSUME NEW x \in Nat, NEW k \in 1 .. n, r[k].from <= x, x < r[k].to
          PROVE  x \in X \cup Between(a, b)
      <4>1. CASE k = n /\ a <= x
        BY <2>8, <3>2, <4>1 DEF Between
      <4>2. CASE k = n /\ x < a
        BY <1>3, <2>1, <2>7, <2>8, <3>2, <4>2
      <4>3. CASE k # n
        BY <1>3, <2>7, <3>2, <4>3
      <4> QED BY <4>1, <4>2, <4>3
    <3> QED BY <3>1, <3>2
  <2> QED BY <2>6, <2>9, <2>10, <2>11 DEF Covers, r
<1>7. CASE a # b /\ ~(ranges # <<>> /\ Last(ranges).to = a)
  <2> DEFINE new == [from |-> a, to |-> b]
  <2>1. r = Append(ranges, new)
    BY <1>7 DEF AddRange
  <2>2. new \in Interval /\ new.from = a /\ new.to = b
    BY DEF Interval
  <2> HIDE DEF new, r
  <2>3. /\ r \in Seq(Interval) /\ Len(r) = n + 1 /\ r[n + 1] = new
        /\ \A k \in 1 .. n : r[k] = ranges[k]
    BY <1>1, <2>1, <2>2
  <2>4. 1 .. Len(r) = (1 .. n) \cup {n + 1} /\ \A k \in 1 .. n : k < n + 1
    BY <1>1, <2>3
  <2> HIDE DEF n
  <2>5. \A k \in 1 .. Len(r) : r[k].from < r[k].to
    BY <1>1, <1>7, <2>2, <2>3, <2>4
  <2>6. \A j, k \in 1 .. Len(r) : j < k => r[j].to <= r[k].from
    <3>1. ASSUME NEW j \in 1 .. n, NEW k \in 1 .. n, j < k PROVE r[j].to <= r[k].from
      BY <1>2, <2>3, <3>1
    <3>2. ASSUME NEW j \in 1 .. n PROVE r[j].to <= r[n + 1].from
      BY <1>4, <2>2, <2>3
    <3>3. \A k \in 1 .. n : ~(n + 1 < k)
      BY <1>1
    <3> QED BY <1>1, <2>4, <3>1, <3>2, <3>3
  <2>7. X \cup Between(a, b) = {x \in Nat : \E k \in 1 .. Len(r) : r[k].from <= x /\ x < r[k].to}
    BY <1>3, <2>2, <2>3, <2>4 DEF Between
  <2> QED BY <2>3, <2>5, <2>6, <2>7 DEF Covers, r
<1> QED BY <1>5, <1>6, <1>7

LEMMA Grows ==
  ASSUME NEW n \in Nat, NEW P, \A k \in 0 .. n : P[k] \in Nat, \A k \in 1 .. n : P[k - 1] <= P[k]
  PROVE  \A j, k \in 0 .. n : j <= k => P[j] <= P[k]
<1> DEFINE G == {k \in 0 .. n : \A j \in 0 .. k : P[j] <= P[k]}
<1>1. 0 \in G
  OBVIOUS
<1>2. ASSUME NEW k \in 1 .. n, k - 1 \in G PROVE k \in G
  <2>1. k - 1 \in 0 .. n /\ k \in 0 .. n /\ \A j \in 0 .. k : j \in 0 .. n /\ (j = k \/ j \in 0 .. k - 1)
    OBVIOUS
  <2>2. ASSUME NEW j \in 0 .. k PROVE P[j] <= P[k]
    <3>1. CASE j = k
      BY <2>1, <3>1
    <3>2. CASE j # k
      <4>1. j \in 0 .. k - 1
        BY <2>1, <3>2
      <4>2. P[j] <= P[k - 1] /\ P[k - 1] <= P[k]
        BY <1>2, <4>1
      <4>3. P[j] \in Nat /\ P[k - 1] \in Nat /\ P[k] \in Nat
        BY <2>1
      <4> QED BY <4>2, <4>3
    <3> QED BY <3>1, <3>2
  <2> QED BY <2>1, <2>2
<1> HIDE DEF G
<1>3. 0 .. n \subseteq G
  BY <1>1, <1>2, UpTo
<1>4. ASSUME NEW j \in 0 .. n, NEW k \in 0 .. n, j <= k PROVE P[j] <= P[k]
  <2>1. k \in G /\ j \in 0 .. k
    BY <1>3, <1>4
  <2> QED BY <2>1 DEF G
<1> QED BY <1>4

(* The lengths of the first k ranges. *)
LengthsTo(ranges) == [k \in 0 .. Len(ranges) |-> Lengths(SubSeq(ranges, 1, k))]
LengthOf(ranges) == [k \in 1 .. Len(ranges) |-> ranges[k].to - ranges[k].from]

LEMMA LengthsGrow ==
  ASSUME NEW ranges, NEW X, Covers(ranges, X)
  PROVE  LET n == Len(ranges)
             P == LengthsTo(ranges)
         IN  /\ n \in Nat /\ DOMAIN ranges = 1 .. n
             /\ P[0] = 0 /\ P[n] = Lengths(ranges)
             /\ \A k \in 0 .. n : P[k] \in Nat /\ P[k] = Lengths(SubSeq(ranges, 1, k))
             /\ \A k \in 1 .. n : P[k] = P[k - 1] + (ranges[k].to - ranges[k].from)
             /\ \A j, k \in 0 .. n : j <= k => P[j] <= P[k]
<1> DEFINE n == Len(ranges)
           P == LengthsTo(ranges)
           len == LengthOf(ranges)
<1>1. /\ n \in Nat /\ DOMAIN ranges = 1 .. n
      /\ \A k \in 1 .. n : /\ ranges[k].from \in Nat /\ ranges[k].to \in Nat
                           /\ ranges[k].from < ranges[k].to
  <2>1. ranges \in Seq(Interval) /\ \A k \in 1 .. n : ranges[k].from < ranges[k].to
    BY DEF Covers
  <2>2. n \in Nat /\ DOMAIN ranges = 1 .. n /\ \A k \in 1 .. n : ranges[k] \in Interval
    BY <2>1
  <2> QED BY <2>1, <2>2 DEF Interval
<1>2. \A k \in 1 .. n : len[k] = ranges[k].to - ranges[k].from /\ len[k] \in Nat
  BY <1>1 DEF LengthOf
<1>3. \A k \in 0 .. n : IsFiniteSet(1 .. k)
  <2>1. \A k \in 0 .. n : 1 \in Int /\ k \in Int
    BY <1>1
  <2> QED BY <2>1, FS_Interval
<1> HIDE DEF len
<1>4. ASSUME NEW k \in 0 .. n
      PROVE  P[k] = Sigma(len, 1 .. k) /\ P[k] = Lengths(SubSeq(ranges, 1, k))
  <2> DEFINE s == SubSeq(ranges, 1, k)
             g == [j \in DOMAIN s |-> s[j].to - s[j].from]
  <2>1. s = [j \in 1 .. k |-> ranges[j]]
    BY <1>1
  <2>2. DOMAIN s = 1 .. k /\ \A j \in 1 .. k : s[j] = ranges[j] /\ j \in 1 .. n
    <3> HIDE DEF s
    <3> QED BY <1>1, <2>1
  <2>3. P[k] = Lengths(s)
    BY DEF LengthsTo
  <2>4. Lengths(s) = Sigma(g, DOMAIN s)
    <3> HIDE DEF s
    <3> QED BY Zenon DEF Lengths, Sigma
  <2> HIDE DEF s
  <2>5. \A j \in 1 .. k : g[j] = len[j]
    BY <1>2, <2>2
  <2> HIDE DEF g
  <2>6. Sigma(g, 1 .. k) = Sigma(len, 1 .. k)
    BY <1>3, <2>5, SigmaAgrees
  <2> QED BY <2>2, <2>3, <2>4, <2>6 DEF s
<1>5. P[n] = Lengths(ranges)
  <2>1. n \in 0 .. n
    BY <1>1
  <2>2. SubSeq(ranges, 1, n) = ranges
    <3>1. ranges \in Seq(Interval)
      BY DEF Covers
    <3> QED BY <3>1
  <2> QED BY <1>4, <2>1, <2>2
<1> HIDE DEF P, n
<1>6. P[0] = 0
  <2>1. 1 .. 0 = {} /\ 0 \in 0 .. n
    BY <1>1
  <2> QED BY <1>4, <2>1, SigmaEmpty
<1>7. ASSUME NEW k \in 0 .. n PROVE P[k] \in Nat
  <2>1. \A j \in 1 .. k : len[j] \in Nat
    BY <1>1, <1>2
  <2>2. Sigma(len, 1 .. k) \in Nat
    BY <1>3, <2>1, SigmaType
  <2> QED BY <1>4, <2>2
<1>8. ASSUME NEW k \in 1 .. n PROVE P[k] = P[k - 1] + (ranges[k].to - ranges[k].from)
  <2>1. k \in 0 .. n /\ k - 1 \in 0 .. n /\ k \in 1 .. k /\ (1 .. k) \ {k} = 1 .. k - 1
    BY <1>1
  <2>2. \A j \in 1 .. k : len[j] \in Int
    BY <1>1, <1>2
  <2>3. Sigma(len, 1 .. k) = len[k] + Sigma(len, 1 .. k - 1)
    <3>1. IsFiniteSet(1 .. k)
      BY <1>3, <2>1
    <3>2. Sigma(len, 1 .. k) = len[k] + Sigma(len, (1 .. k) \ {k})
      BY <2>1, <2>2, <3>1, SigmaFrom
    <3> QED BY <2>1, <3>2
  <2>4. P[k] = Sigma(len, 1 .. k) /\ P[k - 1] = Sigma(len, 1 .. k - 1)
    BY <1>4, <2>1
  <2>5. P[k - 1] \in Nat /\ len[k] \in Nat /\ len[k] = ranges[k].to - ranges[k].from
    BY <1>2, <1>7, <2>1
  <2>6. P[k] = len[k] + P[k - 1]
    BY <2>3, <2>4
  <2> QED BY <2>5, <2>6
<1>9. \A k \in 1 .. n : P[k - 1] <= P[k]
  <2>1. ASSUME NEW k \in 1 .. n PROVE P[k - 1] <= P[k]
    <3>1. k - 1 \in 0 .. n
      BY <1>1
    <3>2. P[k - 1] \in Nat
      BY <1>7, <3>1
    <3>3. ranges[k].to \in Nat /\ ranges[k].from \in Nat /\ ranges[k].from < ranges[k].to
      BY <1>1
    <3> QED BY <1>8, <3>2, <3>3
  <2> QED BY <2>1
<1>10. \A j, k \in 0 .. n : j <= k => P[j] <= P[k]
  BY <1>1, <1>7, <1>9, Grows
<1> QED BY <1>1, <1>4, <1>5, <1>6, <1>7, <1>8, <1>10 DEF P, n

(* The range in which sample() stops. *)
StopsIn(P, k, r) == P[k - 1] <= r /\ r < P[k]

LEMMA RangeStops ==
  ASSUME NEW ranges, NEW X, Covers(ranges, X)
  PROVE  LET n == Len(ranges)
             P == LengthsTo(ranges)
         IN  /\ \A r \in 0 .. Lengths(ranges) - 1 : \E k \in 1 .. n : StopsIn(P, k, r)
             /\ \A r \in Nat : \A k \in 1 .. n :
                  StopsIn(P, k, r) => /\ r \in 0 .. Lengths(ranges) - 1
                                      /\ InRanges(ranges, r) = ranges[k].from + (r - P[k - 1])
<1> DEFINE n == Len(ranges)
           P == LengthsTo(ranges)
           L == Lengths(ranges)
           K(r) == {k \in DOMAIN ranges : r < Lengths(SubSeq(ranges, 1, k))}
<1>1. /\ n \in Nat /\ DOMAIN ranges = 1 .. n /\ P[0] = 0 /\ P[n] = L
      /\ \A k \in 0 .. n : P[k] \in Nat /\ P[k] = Lengths(SubSeq(ranges, 1, k))
      /\ \A j, k \in 0 .. n : j <= k => P[j] <= P[k]
  BY LengthsGrow
<1>2. \A r : K(r) = {k \in 1 .. n : r < P[k]}
  <2>1. \A k \in 1 .. n : k \in 0 .. n
    BY <1>1
  <2> QED BY <1>1, <2>1
<1>3. n \in 0 .. n /\ L \in Nat
  BY <1>1
<1>4. \A r : InRanges(ranges, r) = ranges[Min(K(r))].from + (r - Lengths(SubSeq(ranges, 1, Min(K(r)) - 1)))
  BY Zenon DEF InRanges
<1> HIDE DEF n, P, L, K
<1>5. ASSUME NEW r \in Nat, NEW k \in 1 .. n, StopsIn(P, k, r)
      PROVE  r \in 0 .. L - 1 /\ InRanges(ranges, r) = ranges[k].from + (r - P[k - 1])
  <2>1. k \in 0 .. n /\ k - 1 \in 0 .. n /\ k <= n
    BY <1>1
  <2>2. P[k - 1] <= r /\ r < P[k] /\ P[k - 1] \in Nat /\ P[k] \in Nat /\ P[k] <= L
    BY <1>1, <1>3, <1>5, <2>1 DEF StopsIn
  <2>3. k \in K(r)
    BY <1>2, <2>2
  <2>4. ASSUME NEW j \in K(r) PROVE k <= j
    <3>1. j \in 1 .. n /\ r < P[j] /\ j \in 0 .. n
      BY <1>1, <1>2
    <3>2. SUFFICES ASSUME j <= k - 1 PROVE FALSE
      BY <1>1, <3>1
    <3>3. P[j] <= P[k - 1] /\ P[j] \in Nat
      BY <1>1, <2>1, <3>1, <3>2
    <3> QED BY <2>2, <3>1, <3>3
  <2>5. Min(K(r)) = k
    <3>1. \A x \in K(r) : x \in Nat
      BY <1>1, <1>2
    <3>2. \E x \in K(r) : \A y \in K(r) : x <= y
      BY <2>3, <2>4
    <3>3. Min(K(r)) \in K(r) /\ \A y \in K(r) : Min(K(r)) <= y
      BY <3>2, Zenon DEF Min
    <3> DEFINE m == Min(K(r))
    <3>4. m \in Nat /\ k \in Nat /\ m <= k /\ k <= m
      BY <2>3, <2>4, <3>1, <3>3
    <3> HIDE DEF m
    <3>5. m = k
      BY <3>4
    <3> QED BY <3>5 DEF m
  <2>6. Lengths(SubSeq(ranges, 1, k - 1)) = P[k - 1]
    BY <1>1, <2>1
  <2> QED BY <1>3, <1>4, <2>2, <2>5, <2>6
<1>6. ASSUME NEW r \in 0 .. L - 1 PROVE \E k \in 1 .. n : StopsIn(P, k, r)
  <2> DEFINE B == {k \in 0 .. n : r < P[k]}
  <2>1. B \subseteq Nat /\ n \in B
    BY <1>1, <1>3
  <2>2. PICK k \in B : \A j \in B : k <= j
    BY <2>1, LeastNatural
  <2>3. k \in 0 .. n /\ r < P[k]
    OBVIOUS
  <2>4. k # 0
    BY <1>1, <1>3, <2>3
  <2>5. k \in 1 .. n /\ k - 1 \in 0 .. n /\ ~(k <= k - 1)
    BY <1>1, <2>3, <2>4
  <2>6. ~(r < P[k - 1])
    BY <2>2, <2>5
  <2>7. P[k - 1] \in Nat /\ r \in Nat
    BY <1>1, <1>3, <2>5
  <2> QED BY <2>3, <2>5, <2>6, <2>7 DEF StopsIn
<1> QED BY <1>5, <1>6 DEF n, P, L

(* sample() gives each number of the ranges for one number drawn. *)
LEMMA SampleCovers ==
  ASSUME NEW ranges, NEW X, Covers(ranges, X)
  PROVE  LET drawn == [r \in 0 .. Lengths(ranges) - 1 |-> InRanges(ranges, r)]
         IN  /\ Lengths(ranges) \in Nat /\ IsInjective(drawn)
             /\ {drawn[r] : r \in DOMAIN drawn} = X
<1> DEFINE n == Len(ranges)
           P == LengthsTo(ranges)
           L == Lengths(ranges)
           drawn == [r \in 0 .. L - 1 |-> InRanges(ranges, r)]
<1>1. /\ n \in Nat /\ P[0] = 0 /\ P[n] = L /\ n \in 0 .. n
      /\ \A k \in 0 .. n : P[k] \in Nat
      /\ \A k \in 1 .. n : P[k] = P[k - 1] + (ranges[k].to - ranges[k].from)
  <2>1. /\ n \in Nat /\ P[0] = 0 /\ P[n] = L
        /\ \A k \in 0 .. n : P[k] \in Nat
        /\ \A k \in 1 .. n : P[k] = P[k - 1] + (ranges[k].to - ranges[k].from)
    BY LengthsGrow
  <2>2. n \in 0 .. n
    BY <2>1
  <2> QED BY <2>1, <2>2
<1>2. L \in Nat
  BY <1>1
<1>3. /\ \A r \in 0 .. L - 1 : \E k \in 1 .. n : StopsIn(P, k, r)
      /\ \A r \in Nat : \A k \in 1 .. n :
           StopsIn(P, k, r) => r \in 0 .. L - 1 /\ InRanges(ranges, r) = ranges[k].from + (r - P[k - 1])
  BY RangeStops
<1>4. /\ \A k \in 1 .. n : ranges[k].from \in Nat /\ ranges[k].to \in Nat
      /\ \A j, k \in 1 .. n : j < k => ranges[j].to <= ranges[k].from
      /\ X = {x \in Nat : \E k \in 1 .. n : ranges[k].from <= x /\ x < ranges[k].to}
  <2>1. \A k \in 1 .. n : ranges[k] \in Interval
    <3>1. ranges \in Seq(Interval)
      BY DEF Covers
    <3> QED BY <3>1
  <2>2. \A k \in 1 .. n : ranges[k].from \in Nat /\ ranges[k].to \in Nat
    BY <2>1 DEF Interval
  <2> QED BY <2>2 DEF Covers
<1> HIDE DEF n, P, L
<1>5. ASSUME NEW r \in 0 .. L - 1
      PROVE  \E k \in 1 .. n : /\ StopsIn(P, k, r) /\ drawn[r] = ranges[k].from + (r - P[k - 1])
                               /\ drawn[r] \in Nat
                               /\ ranges[k].from <= drawn[r] /\ drawn[r] < ranges[k].to
  <2>1. PICK k \in 1 .. n : StopsIn(P, k, r)
    BY <1>3
  <2>2. r \in Nat /\ drawn[r] = InRanges(ranges, r)
    BY <1>2
  <2>3. drawn[r] = ranges[k].from + (r - P[k - 1])
    BY <1>3, <2>1, <2>2
  <2>4. k \in 0 .. n /\ k - 1 \in 0 .. n
    BY <1>1
  <2>5. /\ P[k - 1] \in Nat /\ P[k] = P[k - 1] + (ranges[k].to - ranges[k].from)
        /\ P[k - 1] <= r /\ r < P[k] /\ ranges[k].from \in Nat /\ ranges[k].to \in Nat
    BY <1>1, <1>4, <2>1, <2>4 DEF StopsIn
  <2> HIDE DEF drawn
  <2>6. drawn[r] \in Nat /\ ranges[k].from <= drawn[r] /\ drawn[r] < ranges[k].to
    BY <2>2, <2>3, <2>5
  <2> QED BY <2>1, <2>3, <2>6
<1>6. DOMAIN drawn = 0 .. L - 1
  OBVIOUS
<1> HIDE DEF drawn
<1>7. ASSUME NEW q \in 0 .. L - 1, NEW r \in 0 .. L - 1, drawn[q] = drawn[r] PROVE q = r
  <2>1. PICK j \in 1 .. n : /\ drawn[q] = ranges[j].from + (q - P[j - 1]) /\ drawn[q] \in Nat
                            /\ ranges[j].from <= drawn[q] /\ drawn[q] < ranges[j].to
    BY <1>5
  <2>2. PICK k \in 1 .. n : /\ drawn[r] = ranges[k].from + (r - P[k - 1])
                            /\ ranges[k].from <= drawn[r] /\ drawn[r] < ranges[k].to
    BY <1>5
  <2>3. /\ ranges[j].from \in Nat /\ ranges[j].to \in Nat
        /\ ranges[k].from \in Nat /\ ranges[k].to \in Nat /\ j \in Nat /\ k \in Nat
    BY <1>1, <1>4
  <2>4. ~(j < k)
    <3>1. j < k => ranges[j].to <= ranges[k].from
      BY <1>4
    <3> QED BY <1>7, <2>1, <2>2, <2>3, <3>1
  <2>5. ~(k < j)
    <3>1. k < j => ranges[k].to <= ranges[j].from
      BY <1>4
    <3> QED BY <1>7, <2>1, <2>2, <2>3, <3>1
  <2>6. j = k
    BY <2>3, <2>4, <2>5
  <2>7. j - 1 \in 0 .. n
    BY <1>1
  <2>8. P[j - 1] \in Nat
    BY <1>1, <2>7
  <2> DEFINE f == ranges[j].from
             p == P[j - 1]
  <2>9. f + (q - p) = f + (r - p)
    BY <1>7, <2>1, <2>2, <2>6
  <2>10. f \in Nat /\ p \in Nat /\ q \in Int /\ r \in Int
    BY <1>2, <2>3, <2>8
  <2> HIDE DEF f, p
  <2> QED BY <2>9, <2>10
<1>8. \A r \in 0 .. L - 1 : drawn[r] \in X
  BY <1>4, <1>5
<1>9. ASSUME NEW x \in X PROVE \E r \in 0 .. L - 1 : drawn[r] = x
  <2>1. PICK k \in 1 .. n : ranges[k].from <= x /\ x < ranges[k].to
    BY <1>4
  <2> DEFINE r == P[k - 1] + (x - ranges[k].from)
  <2>2. k - 1 \in 0 .. n /\ x \in Nat
    BY <1>1, <1>4
  <2>3. /\ P[k - 1] \in Nat /\ P[k] = P[k - 1] + (ranges[k].to - ranges[k].from)
        /\ ranges[k].from \in Nat /\ ranges[k].to \in Nat
    BY <1>1, <1>4, <2>2
  <2>4. r \in Nat /\ P[k - 1] <= r /\ r < P[k] /\ ranges[k].from + (r - P[k - 1]) = x
    BY <2>1, <2>2, <2>3
  <2> HIDE DEF r
  <2>5. StopsIn(P, k, r)
    BY <2>4 DEF StopsIn
  <2>6. r \in 0 .. L - 1 /\ InRanges(ranges, r) = x
    BY <1>3, <2>4, <2>5
  <2>7. drawn[r] = x
    BY <2>6 DEF drawn
  <2> QED BY <2>6, <2>7
<1>10. IsInjective(drawn)
  BY <1>6, <1>7 DEF IsInjective
<1>11. {drawn[r] : r \in DOMAIN drawn} = X
  BY <1>6, <1>8, <1>9
<1> QED BY <1>2, <1>10, <1>11 DEF drawn, L

-----------------------------------------------------------------------------
(* Selections of treelets. *)

LEMMA RecordSums ==
  ASSUME NEW row, GoodRow(row), SumTo(row, Len(row)) < Modulus
  PROVE  \A k \in 0 .. Len(row) : RecordOf(row)[k + 1].n = SumTo(row, k)
<1> DEFINE n == Len(row)
           T == SumTo(row, n)
           r == RecordOf(row)
<1>1. n \in Nat /\ Modulus \in Nat \ {0} /\ n \in 0 .. n
  BY RowFacts, ModulusAssumption DEF ModulusAssumption
<1>2. /\ \A k \in 0 .. n : SumTo(row, k) \in Nat
      /\ \A j, k \in 0 .. n : j <= k => SumTo(row, j) <= SumTo(row, k)
  BY SumsGrow
<1>3. \A m \in Nat : m < Modulus => m % Modulus = m
  BY <1>1
<1>4. r[1].n = 0 /\ \A k \in 1 .. n : r[k + 1].n = SumTo(row, k) % Modulus
  BY RecordFields
<1>5. T < Modulus
  OBVIOUS
<1> HIDE DEF n, T, r
<1>6. ASSUME NEW k \in 1 .. n PROVE r[k + 1].n = SumTo(row, k)
  <2>1. k \in 0 .. n /\ k <= n
    BY <1>1
  <2>2. SumTo(row, k) \in Nat /\ SumTo(row, k) <= T /\ T \in Nat
    BY <1>1, <1>2, <2>1 DEF T
  <2>3. SumTo(row, k) < Modulus
    BY <1>1, <1>5, <2>2
  <2> QED BY <1>3, <1>4, <2>2, <2>3
<1>7. r[0 + 1].n = SumTo(row, 0)
  <2>1. SumTo(row, 0) = 0
    BY SumToType DEF GoodRow
  <2> QED BY <1>4, <2>1
<1>8. \A k \in 0 .. n : k = 0 \/ k \in 1 .. n
  BY <1>1
<1> QED BY <1>6, <1>7, <1>8 DEF n, r

(* The numbers, from 0, of the treelets in a set of places of the row. *)
NumberedBy(row, k, x) == SumTo(row, k - 1) <= x /\ x < SumTo(row, k)
NumbersAt(row, K) == {x \in Nat : \E k \in K : NumberedBy(row, k, x)}

LEMMA NumbersUnion ==
  ASSUME NEW row, NEW K, NEW L
  PROVE  NumbersAt(row, K \cup L) = NumbersAt(row, K) \cup NumbersAt(row, L)
BY DEF NumbersAt

LEMMA NumbersBetween ==
  ASSUME NEW row, GoodRow(row), NEW a \in 0 .. Len(row), NEW b \in 0 .. Len(row), a <= b
  PROVE  Between(SumTo(row, a), SumTo(row, b)) = NumbersAt(row, a + 1 .. b)
<1> DEFINE n == Len(row)
           S(k) == SumTo(row, k)
<1>1. n \in Nat
  BY RowFacts
<1>2. /\ \A k \in 0 .. n : S(k) \in Nat
      /\ \A j, k \in 0 .. n : j <= k => S(j) <= S(k)
  BY SumsGrow
<1> HIDE DEF n, S
<1>3. ASSUME NEW x \in Nat, S(a) <= x, x < S(b)
      PROVE  \E k \in a + 1 .. b : S(k - 1) <= x /\ x < S(k)
  <2> DEFINE B == {k \in 0 .. n : x < S(k)}
  <2>1. B \subseteq Nat /\ b \in B
    BY <1>1, <1>3 DEF n
  <2> HIDE DEF B
  <2>2. PICK k \in B : \A j \in B : k <= j
    BY <2>1, LeastNatural
  <2>3. k \in 0 .. n /\ x < S(k) /\ k <= b
    BY <2>1, <2>2 DEF B
  <2>4. a < k
    <3> SUFFICES ASSUME k <= a PROVE FALSE
      BY <2>3 DEF n
    <3>1. S(k) <= S(a) /\ S(k) \in Nat /\ S(a) \in Nat
      BY <1>2, <2>3 DEF n
    <3> QED BY <1>3, <2>3, <3>1
  <2>5. k - 1 \in 0 .. n /\ ~(k <= k - 1) /\ k \in a + 1 .. b
    BY <1>1, <2>3, <2>4 DEF n
  <2>6. ~(x < S(k - 1))
    BY <2>2, <2>5 DEF B
  <2>7. S(k - 1) \in Nat
    BY <1>2, <2>5
  <2> QED BY <2>3, <2>5, <2>6, <2>7
<1>4. ASSUME NEW x \in Nat, NEW k \in a + 1 .. b, S(k - 1) <= x, x < S(k)
      PROVE  S(a) <= x /\ x < S(b)
  <2>1. k - 1 \in 0 .. n /\ k \in 0 .. n /\ a <= k - 1 /\ k <= b /\ a \in 0 .. n /\ b \in 0 .. n
    BY <1>1 DEF n
  <2>2. S(a) <= S(k - 1) /\ S(k) <= S(b)
    BY <1>2, <2>1
  <2>3. S(a) \in Nat /\ S(b) \in Nat /\ S(k) \in Nat /\ S(k - 1) \in Nat
    BY <1>2, <2>1
  <2> QED BY <1>4, <2>2, <2>3
<1> QED BY <1>3, <1>4 DEF NumbersAt, NumberedBy, Between, S

LEMMA NumbersBelow ==
  ASSUME NEW row, GoodRow(row), NEW a \in 0 .. Len(row), NEW K, K \subseteq 1 .. a
  PROVE  \A x \in NumbersAt(row, K) : x < SumTo(row, a)
<1> DEFINE n == Len(row)
<1>1. n \in Nat
  BY RowFacts
<1>2. /\ \A k \in 0 .. n : SumTo(row, k) \in Nat
      /\ \A j, k \in 0 .. n : j <= k => SumTo(row, j) <= SumTo(row, k)
  BY SumsGrow
<1>3. ASSUME NEW x \in Nat, NEW k \in K, NumberedBy(row, k, x) PROVE x < SumTo(row, a)
  <2>1. k \in 0 .. n /\ k <= a
    BY <1>1
  <2>2. SumTo(row, k) <= SumTo(row, a) /\ SumTo(row, k) \in Nat /\ SumTo(row, a) \in Nat
    BY <1>2, <2>1
  <2> QED BY <1>3, <2>2 DEF NumberedBy
<1> QED BY <1>3 DEF NumbersAt

(* add_range() between two places of the record. *)
LEMMA PlacesAdded ==
  ASSUME NEW row, GoodRow(row), SumTo(row, Len(row)) < Modulus,
         NEW a \in 0 .. Len(row), NEW b \in 0 .. Len(row), a <= b,
         NEW K, K \subseteq 1 .. a, NEW ranges, Covers(ranges, NumbersAt(row, K))
  PROVE  Covers(AddRange(ranges, RecordOf(row)[a + 1].n, RecordOf(row)[b + 1].n),
                NumbersAt(row, K \cup (a + 1 .. b)))
<1> DEFINE A == SumTo(row, a)
           B == SumTo(row, b)
           X == NumbersAt(row, K)
<1>1. RecordOf(row)[a + 1].n = A /\ RecordOf(row)[b + 1].n = B
  BY RecordSums
<1>2. A \in Nat /\ B \in Nat /\ A <= B
  BY SumsGrow
<1>3. \A x \in X : x < A
  BY NumbersBelow
<1>4. Between(A, B) = NumbersAt(row, a + 1 .. b)
  BY NumbersBetween
<1>5. Covers(ranges, X)
  OBVIOUS
<1> HIDE DEF A, B, X
<1>6. Covers(AddRange(ranges, A, B), X \cup Between(A, B))
  BY <1>2, <1>3, <1>5, RangeAdded
<1>7. X \cup Between(A, B) = NumbersAt(row, K \cup (a + 1 .. b))
  <2>1. NumbersAt(row, K \cup (a + 1 .. b)) = NumbersAt(row, K) \cup NumbersAt(row, a + 1 .. b)
    BY NumbersUnion
  <2> QED BY <1>4, <2>1 DEF X
<1> QED BY <1>1, <1>6, <1>7

(* The largest set of colours. *)
LEMMA MaskLargest ==
  ASSUME NEW c \in SUBSET AllColors, c # AllColors
  PROVE  Mask(c) < Mask(AllColors)
<1> DEFINE bits == [i \in AllColors |-> 2 ^ i]
           g == [i \in AllColors |-> IF i \in c THEN bits[i] ELSE 0]
           h == [i \in AllColors |-> IF i \in c THEN 0 ELSE bits[i]]
<1>1. \A d : Mask(d) = Sigma(bits, d)
  BY Zenon DEF Mask, Sigma
<1>2. \A i \in AllColors : bits[i] \in Nat /\ bits[i] > 0
  <2>1. \A i \in AllColors : i \in {0, 1, 2, 3, 4, 5, 6, 7, 8, 9, 10, 11, 12, 13, 14, 15}
    BY DEF AllColors
  <2>2. /\ 2 ^ 0 > 0 /\ 2 ^ 1 > 0 /\ 2 ^ 2 > 0 /\ 2 ^ 3 > 0
        /\ 2 ^ 4 > 0 /\ 2 ^ 5 > 0 /\ 2 ^ 6 > 0 /\ 2 ^ 7 > 0
        /\ 2 ^ 8 > 0 /\ 2 ^ 9 > 0 /\ 2 ^ 10 > 0 /\ 2 ^ 11 > 0
        /\ 2 ^ 12 > 0 /\ 2 ^ 13 > 0 /\ 2 ^ 14 > 0 /\ 2 ^ 15 > 0
    OBVIOUS
  <2>3. /\ 2 ^ 0 \in Nat /\ 2 ^ 1 \in Nat /\ 2 ^ 2 \in Nat /\ 2 ^ 3 \in Nat
        /\ 2 ^ 4 \in Nat /\ 2 ^ 5 \in Nat /\ 2 ^ 6 \in Nat /\ 2 ^ 7 \in Nat
        /\ 2 ^ 8 \in Nat /\ 2 ^ 9 \in Nat /\ 2 ^ 10 \in Nat /\ 2 ^ 11 \in Nat
        /\ 2 ^ 12 \in Nat /\ 2 ^ 13 \in Nat /\ 2 ^ 14 \in Nat /\ 2 ^ 15 \in Nat
    OBVIOUS
  <2>4. \A i \in AllColors : 2 ^ i \in Nat /\ 2 ^ i > 0
    BY <2>1, <2>2, <2>3
  <2> QED BY <2>4
<1>3. IsFiniteSet(AllColors)
  <2>1. 0 \in Int /\ 15 \in Int
    OBVIOUS
  <2> QED BY <2>1, FS_Interval DEF AllColors
<1> HIDE DEF bits
<1>4. /\ \A i \in AllColors : g[i] \in Nat /\ h[i] \in Nat /\ bits[i] = g[i] + h[i]
      /\ \A i \in AllColors \ c : g[i] = 0 /\ h[i] = bits[i]
      /\ \A i \in c : g[i] = bits[i]
  BY <1>2
<1> HIDE DEF g, h
<1>5. \A i \in AllColors : g[i] \in Int /\ h[i] \in Int
  BY <1>4
<1>6. Sigma(bits, AllColors) = Sigma(g, AllColors) + Sigma(h, AllColors)
  BY <1>3, <1>4, <1>5, SigmaSum
<1>7. Sigma(g, AllColors) = Sigma(g, c)
  BY <1>3, <1>4, <1>5, SigmaDrop
<1>8. Sigma(g, c) = Sigma(bits, c)
  <2>1. IsFiniteSet(c)
    BY <1>3, FS_Subset
  <2> QED BY <1>4, <2>1, SigmaAgrees
<1>9. Sigma(h, AllColors) > 0
  <2>1. PICK i \in AllColors : i \notin c
    OBVIOUS
  <2>2. h[i] > 0
    BY <1>2, <1>4, <2>1
  <2>3. \A j \in AllColors : h[j] \in Nat
    BY <1>4
  <2> QED BY <1>3, <2>2, <2>3, SigmaPositive
<1>10. Sigma(h, AllColors) \in Nat /\ Sigma(g, AllColors) \in Nat
  BY <1>3, <1>4, SigmaType
<1>11. Mask(c) = Sigma(g, AllColors) /\ Mask(AllColors) = Sigma(bits, AllColors)
  BY <1>1, <1>7, <1>8
<1> QED BY <1>6, <1>9, <1>10, <1>11

LEMMA ColorsOrder ==
  ASSUME NEW a \in Treelet, NEW s \in Nat
  PROVE  /\ Less(a, AllColored(s)) <=> a.s > s \/ (a.s = s /\ a # AllColored(s))
         /\ ~Less(AllColored(s), a) \/ a.s < s
         /\ AllColored(s) \in Treelet
<1>1. a.s \in Nat /\ a.c \in SUBSET AllColors /\ a = [s |-> a.s, c |-> a.c]
  BY DEF Treelet
<1>2. Mask(a.c) \in Nat /\ Mask(AllColors) \in Nat
  BY <1>1, MaskType
<1>3. a.c # AllColors => Mask(a.c) < Mask(AllColors)
  BY <1>1, MaskLargest
<1>4. a.s = s => (a # AllColored(s) <=> a.c # AllColors)
  BY <1>1 DEF AllColored
<1>5. AllColored(s).s = s /\ AllColored(s).c = AllColors /\ AllColored(s) \in Treelet
  BY DEF AllColored, Treelet
<1> QED BY <1>1, <1>2, <1>3, <1>4, <1>5 DEF Less

(* The places in front of which a row is cut. *)
LEMMA CutAt ==
  ASSUME NEW n \in Nat, NEW K, \A j, k \in 1 .. n : j < k /\ k \in K => j \in K
  PROVE  \E d \in 0 .. n : \A k \in 1 .. n : k \in K <=> k <= d
<1> DEFINE R == {k \in 1 .. n : k \notin K}
<1>1. CASE R = {}
  BY <1>1
<1>2. CASE R # {}
  <2>1. R \subseteq Nat
    OBVIOUS
  <2>2. PICK m \in R : \A k \in R : m <= k
    BY <1>2, <2>1, LeastNatural
  <2>3. m \in 1 .. n /\ m \notin K /\ m - 1 \in 0 .. n
    BY <2>2
  <2>4. \A k \in 1 .. n : k \in K <=> k <= m - 1
    BY <2>2, <2>3
  <2> QED BY <2>3, <2>4
<1> QED BY <1>1, <1>2

LEMMA RowDescends ==
  ASSUME NEW row, GoodRow(row)
  PROVE  /\ \A k \in 1 .. Len(row) : row[k].t \in Treelet /\ row[k].t.s \in Nat
         /\ \A j, k \in 1 .. Len(row) : j < k => Less(row[j].t, row[k].t) /\ row[k].t.s <= row[j].t.s
<1>1. /\ Len(row) \in Nat /\ DOMAIN row = 1 .. Len(row)
      /\ \A k \in 1 .. Len(row) : row[k].t \in Treelet /\ row[k].t.s \in Nat
  BY RowFacts DEF Treelet
<1>2. ASSUME NEW j \in 1 .. Len(row), NEW k \in 1 .. Len(row), j < k
      PROVE  Less(row[j].t, row[k].t) /\ row[k].t.s <= row[j].t.s
  <2>1. Less(row[j].t, row[k].t)
    BY <1>1, <1>2 DEF GoodRow
  <2>2. row[j].t.s > row[k].t.s \/ row[j].t.s = row[k].t.s
    BY <2>1 DEF Less
  <2>3. row[j].t.s \in Nat /\ row[k].t.s \in Nat
    BY <1>1
  <2> QED BY <2>1, <2>2, <2>3
<1> QED BY <1>1, <1>2

(* Where treelet_upper_bound() ends if the entries from from on that are   *)
(* below t are those up to d.                                              *)
LEMMA SearchFrom ==
  ASSUME NEW row, GoodRow(row), NEW t, NEW from \in 2 .. Len(row) + 2,
         NEW d \in 0 .. Len(row), from <= d + 2,
         \A k \in 1 .. Len(row) : from <= k + 1 => (Less(row[k].t, t) <=> k <= d)
  PROVE  FindTreelet(RecordOf(row), from, t) = d + 2
<1> DEFINE r == RecordOf(row)
           n == Len(row)
           below == {i \in DOMAIN r : Less(r[i].t, t)}
<1>1. n \in Nat
  BY RowFacts
<1>2. Len(r) = n + 1 /\ \A k \in 1 .. n : r[k + 1].t = row[k].t
  BY RecordFields
<1>3. DOMAIN r = 1 .. n + 1
  <2>1. r = <<[t |-> InvalidTreelet, n |-> 0]>>
              \o [k \in DOMAIN row |-> [t |-> row[k].t, n |-> SumTo(row, k) % Modulus]]
    BY DEF RecordOf
  <2>2. DOMAIN row = 1 .. n
    BY RowFacts
  <2> HIDE DEF r
  <2> QED BY <1>1, <1>2, <2>1, <2>2
<1> HIDE DEF r
<1>4. FindTreelet(r, from, t) = FirstNotBelow(r, from, below)
  BY DEF FindTreelet
<1>5. ASSUME NEW i \in from .. Len(r) PROVE i \in below <=> i < d + 2
  <2>1. i - 1 \in 1 .. n /\ i - 1 + 1 = i /\ i \in 1 .. n + 1 /\ (i < d + 2 <=> i - 1 <= d)
        /\ from <= i - 1 + 1
    BY <1>1, <1>2
  <2>2. r[i].t = row[i - 1].t
    BY <1>2, <2>1
  <2>3. Less(row[i - 1].t, t) <=> i - 1 <= d
    BY <2>1
  <2> QED BY <1>3, <2>1, <2>2, <2>3
<1> HIDE DEF below
<1>6. d + 2 \in from .. Len(r) + 1 /\ Len(r) \in Nat /\ from \in 1 .. Len(r) + 1
  BY <1>1, <1>2
<1>7. Parted(Len(r), from, below, d + 2)
  BY <1>5, <1>6 DEF Parted
<1>8. FirstNotBelow(r, from, below) = d + 2
  BY <1>6, <1>7, SearchEnds
<1> QED BY <1>4, <1>8 DEF r

(* The entries of structure s are those after d, up to e. *)
Structure(row, s, d, e) ==
  /\ d \in 0 .. Len(row) /\ e \in 0 .. Len(row) /\ d <= e
  /\ \A k \in 1 .. Len(row) : row[k].t.s > s <=> k <= d
  /\ \A k \in 1 .. Len(row) : row[k].t.s >= s <=> k <= e

LEMMA StructureExists ==
  ASSUME NEW row, GoodRow(row), NEW s \in Nat
  PROVE  \E d, e : Structure(row, s, d, e)
<1> DEFINE n == Len(row)
           A == {k \in 1 .. n : row[k].t.s > s}
           B == {k \in 1 .. n : row[k].t.s >= s}
<1>1. /\ n \in Nat /\ \A k \in 1 .. n : row[k].t.s \in Nat
      /\ \A j, k \in 1 .. n : j < k => row[k].t.s <= row[j].t.s
  BY RowFacts, RowDescends
<1> HIDE DEF n
<1>2. \A j, k \in 1 .. n : j < k /\ k \in A => j \in A
  BY <1>1
<1>3. \A j, k \in 1 .. n : j < k /\ k \in B => j \in B
  BY <1>1
<1>4. PICK d \in 0 .. n : \A k \in 1 .. n : k \in A <=> k <= d
  <2> HIDE DEF A
  <2> QED BY <1>1, <1>2, CutAt
<1>5. PICK e \in 0 .. n : \A k \in 1 .. n : k \in B <=> k <= e
  <2> HIDE DEF B
  <2> QED BY <1>1, <1>3, CutAt
<1>6. d <= e
  <2> SUFFICES ASSUME ~(d <= e) PROVE FALSE
    OBVIOUS
  <2>1. d \in 1 .. n /\ d \in A /\ d \notin B
    BY <1>1, <1>4, <1>5
  <2> QED BY <1>1, <2>1
<1> QED BY <1>4, <1>5, <1>6 DEF Structure, n

LEMMA StructureFound ==
  ASSUME NEW row, GoodRow(row), NEW s \in Nat, NEW d, NEW e, Structure(row, s, d, e)
  PROVE  LowerOf(RecordOf(row), s) = d + 2 /\ UpperOf(RecordOf(row), s) = e + 2
<1> DEFINE r == RecordOf(row)
           n == Len(row)
           t == AllColored(s)
           found == FindTreelet(r, d + 2, t)
<1>1. /\ n \in Nat /\ \A k \in 1 .. n : row[k].t \in Treelet /\ row[k].t.s \in Nat
      /\ \A j, k \in 1 .. n : j < k => Less(row[j].t, row[k].t) /\ row[k].t.s <= row[j].t.s
  BY RowFacts, RowDescends
<1>2. /\ d \in 0 .. n /\ e \in 0 .. n /\ d <= e
      /\ \A k \in 1 .. n : row[k].t.s > s <=> k <= d
      /\ \A k \in 1 .. n : row[k].t.s >= s <=> k <= e
  BY DEF Structure
<1>3. Len(r) = n + 1 /\ \A k \in 1 .. n : r[k + 1].t = row[k].t
  BY RecordFields
<1>4. /\ \A k \in 1 .. n : Less(row[k].t, t) <=> row[k].t.s > s \/ (row[k].t.s = s /\ row[k].t # t)
      /\ \A k \in 1 .. n : ~Less(t, row[k].t) \/ row[k].t.s < s
      /\ t.s = s
  <2>1. t.s = s
    BY DEF AllColored
  <2> QED BY <1>1, <2>1, ColorsOrder
<1>5. LowerOf(r, s) = d + 2
  BY <1>2, TreeletFound DEF LowerOf
<1>6. UpperOf(r, s) = IF found <= Len(r) /\ r[found].t = t THEN found + 1 ELSE found
  BY <1>5 DEF UpperOf
<1> HIDE DEF t
<1>7. CASE \E k \in 1 .. n : row[k].t = t
  <2>1. PICK k \in 1 .. n : row[k].t = t
    BY <1>7
  <2>2. k <= e /\ ~(k <= d)
    BY <1>1, <1>2, <1>4, <2>1
  <2>3. e \in 1 .. n /\ e - 1 \in 0 .. n /\ d <= e - 1
    BY <1>1, <1>2, <2>2
  <2>4. k = e
    <3> SUFFICES ASSUME k < e PROVE FALSE
      BY <2>2, <2>3
    <3>1. Less(t, row[e].t) /\ row[e].t.s >= s
      BY <1>1, <1>2, <2>1, <2>3
    <3>2. row[e].t.s < s
      BY <1>4, <2>3, <3>1
    <3> QED BY <1>1, <2>3, <3>1, <3>2
  <2>5. ASSUME NEW j \in 1 .. n PROVE Less(row[j].t, t) <=> j <= e - 1
    <3>1. CASE j < e
      <4>1. Less(row[j].t, t)
        BY <1>1, <2>1, <2>4, <3>1
      <4> QED BY <2>3, <3>1, <4>1
    <3>2. CASE j = e
      BY <1>1, <1>4, <2>1, <2>3, <2>4, <3>2
    <3>3. CASE j > e
      <4>1. ~(row[j].t.s >= s)
        BY <1>2, <3>3
      <4>2. ~Less(row[j].t, t)
        BY <1>1, <1>4, <4>1
      <4> QED BY <2>3, <3>3, <4>2
    <3> QED BY <2>3, <3>1, <3>2, <3>3
  <2>6. found = e - 1 + 2
    <3>1. d + 2 \in 2 .. n + 2 /\ d + 2 <= e - 1 + 2
      BY <1>1, <1>2, <2>3
    <3> QED BY <2>3, <2>5, <3>1, SearchFrom
  <2>7. found = e + 1 /\ found <= Len(r) /\ r[found].t = t
    <3> HIDE DEF found
    <3>1. found = e + 1
      BY <2>3, <2>6
    <3> QED BY <1>1, <1>3, <2>1, <2>3, <2>4, <3>1
  <2> HIDE DEF found
  <2> QED BY <1>5, <1>6, <2>3, <2>7
<1>8. CASE ~ \E k \in 1 .. n : row[k].t = t
  <2>1. \A j \in 1 .. n : Less(row[j].t, t) <=> j <= e
    <3> SUFFICES ASSUME NEW j \in 1 .. n PROVE Less(row[j].t, t) <=> row[j].t.s >= s
      BY <1>2
    <3>1. Less(row[j].t, t) <=> row[j].t.s > s \/ row[j].t.s = s
      BY <1>4, <1>8
    <3> QED BY <1>1, <3>1
  <2>2. found = e + 2
    <3>1. d + 2 \in 2 .. n + 2 /\ d + 2 <= e + 2
      BY <1>1, <1>2
    <3> QED BY <1>2, <2>1, <3>1, SearchFrom
  <2>3. ~(found <= Len(r) /\ r[found].t = t)
    <3> SUFFICES ASSUME found <= Len(r), r[found].t = t PROVE FALSE
      OBVIOUS
    <3> HIDE DEF found
    <3>1. e + 1 \in 1 .. n /\ found = e + 1 + 1
      BY <1>1, <1>2, <1>3, <2>2
    <3> QED BY <1>3, <1>8, <3>1
  <2> QED BY <1>5, <1>6, <2>2, <2>3
<1> QED BY <1>7, <1>8 DEF r

(* The structures of a selection, the largest first. *)
LEMMA DescendingLists ==
  ASSUME NEW S, S \subseteq Nat, IsFiniteSet(S)
  PROVE  LET n == Cardinality(S)
             o == Descending(S)
         IN  /\ n \in Nat
             /\ \A k \in 1 .. n : o[k] \in S
             /\ \A j, k \in 1 .. n : j < k => o[j] > o[k]
             /\ \A s \in S : \E k \in 1 .. n : o[k] = s
<1> DEFINE n == Cardinality(S)
           o == Descending(S)
           Above(s) == {u \in S : u > s}
           rank == [s \in S |-> Cardinality(Above(s))]
<1>1. n \in Nat
  BY FS_CardinalityType
<1>2. ASSUME NEW s \in S
      PROVE  IsFiniteSet(Above(s)) /\ rank[s] = Cardinality(Above(s)) /\ rank[s] \in Nat
  <2>1. Above(s) \subseteq S
    OBVIOUS
  <2> HIDE DEF Above
  <2>2. IsFiniteSet(Above(s))
    BY <2>1, FS_Subset
  <2> QED BY <2>2, FS_CardinalityType
<1>3. \A k \in 1 .. n : o[k] = CHOOSE s \in S : rank[s] = k - 1
  BY Zenon DEF Descending
<1>4. ASSUME NEW s \in S, NEW t \in S, s < t
      PROVE  Above(t) \subseteq Above(s) \ {t} /\ t \in Above(s)
  <2>1. s \in Nat /\ t \in Nat
    OBVIOUS
  <2>2. ASSUME NEW u \in S, u > t PROVE u > s /\ u # t
    <3>1. u \in Nat
      OBVIOUS
    <3> QED BY <1>4, <2>1, <2>2, <3>1
  <2> QED BY <1>4, <2>1, <2>2
<1>5. \A s \in S : Above(s) \subseteq S \ {s}
  OBVIOUS
<1> HIDE DEF o, Above, rank
<1>6. ASSUME NEW s \in S, NEW t \in S, s < t PROVE rank[t] < rank[s]
  <2>1. IsFiniteSet(Above(s) \ {t}) /\ Cardinality(Above(s) \ {t}) = Cardinality(Above(s)) - 1
    BY <1>2, <1>4, <1>6, FS_RemoveElement
  <2>2. Cardinality(Above(t)) <= Cardinality(Above(s) \ {t})
    BY <1>4, <1>6, <2>1, FS_Subset
  <2> QED BY <1>2, <2>1, <2>2
<1>7. ASSUME NEW s \in S PROVE rank[s] \in 0 .. n - 1
  <2>1. IsFiniteSet(S \ {s}) /\ Cardinality(S \ {s}) = n - 1
    BY FS_RemoveElement
  <2>2. Cardinality(Above(s)) <= Cardinality(S \ {s})
    BY <1>5, <2>1, FS_Subset
  <2> QED BY <1>1, <1>2, <2>1, <2>2
<1>8. \A s, t \in S : rank[s] = rank[t] => s = t
  <2>1. ASSUME NEW s \in S, NEW t \in S, rank[s] = rank[t] PROVE s = t
    <3>1. s \in Nat /\ t \in Nat /\ rank[s] \in Nat /\ rank[t] \in Nat
      BY <1>2
    <3>2. ~(s < t) /\ ~(t < s)
      BY <1>6, <2>1, <3>1
    <3> QED BY <3>1, <3>2
  <2> QED BY <2>1
<1>9. \A m \in 0 .. n - 1 : \E s \in S : rank[s] = m
  <2>1. DOMAIN rank = S
    BY DEF rank
  <2>2. rank \in [S -> 0 .. n - 1]
    BY <1>7 DEF rank
  <2>3. rank \in Injection(S, 0 .. n - 1)
    BY <1>8, <2>2 DEF Injection, IsInjective
  <2>4. IsFiniteSet(0 .. n - 1) /\ Cardinality(0 .. n - 1) = n
    BY <1>1, RangeCardinality
  <2> HIDE DEF n
  <2>5. Cardinality(S) = Cardinality(0 .. n - 1)
    BY <2>4 DEF n
  <2>6. rank \in Surjection(S, 0 .. n - 1)
    BY <2>3, <2>4, <2>5, FS_Injection
  <2> QED BY <2>6 DEF Surjection
<1> HIDE DEF n
<1>10. ASSUME NEW k \in 1 .. n PROVE o[k] \in S /\ rank[o[k]] = k - 1
  <2>1. k - 1 \in 0 .. n - 1
    BY <1>1
  <2>2. \E s \in S : rank[s] = k - 1
    BY <1>9, <2>1
  <2> QED BY <1>3, <2>2
<1>11. ASSUME NEW j \in 1 .. n, NEW k \in 1 .. n, j < k PROVE o[j] > o[k]
  <2>1. rank[o[j]] < rank[o[k]] /\ o[j] \in S /\ o[k] \in S
    BY <1>1, <1>10, <1>11
  <2>2. o[j] \in Nat /\ o[k] \in Nat /\ rank[o[j]] \in Nat /\ rank[o[k]] \in Nat
    BY <1>2, <2>1
  <2>3. ~(o[j] < o[k])
    BY <1>6, <2>1, <2>2
  <2>4. o[j] # o[k]
    BY <2>1, <2>2
  <2> QED BY <2>2, <2>3, <2>4
<1>12. ASSUME NEW s \in S PROVE \E k \in 1 .. n : o[k] = s
  <2> DEFINE k == rank[s] + 1
  <2>1. k \in 1 .. n /\ k - 1 = rank[s]
    BY <1>1, <1>7
  <2> HIDE DEF k
  <2>2. o[k] \in S /\ rank[o[k]] = rank[s]
    BY <1>10, <2>1
  <2>3. o[k] = s
    BY <1>8, <2>2
  <2> QED BY <2>1, <2>3
<1> QED BY <1>1, <1>10, <1>11, <1>12 DEF n, o

(* The entries whose structure is in D; those up to m whose structure is   *)
(* not.                                                                    *)
Chosen(row, D) == {k \in 1 .. Len(row) : row[k].t.s \in D}
Skipped(row, D, m) == {k \in 1 .. m : row[k].t.s \notin D}

(* What build_range_sampler() has done when the structures in D are done.  *)
IncludeInv(row, D, st) == Covers(st.ranges, NumbersAt(row, Chosen(row, D)))
ExcludeAt(row, D, st, m) ==
  /\ m \in 0 .. Len(row) /\ st.next = m + 2
  /\ m > 0 => row[m].t.s \in D
  /\ \A k \in m + 1 .. Len(row) : row[k].t.s \notin D
  /\ Covers(st.ranges, NumbersAt(row, Skipped(row, D, m)))
ExcludeInv(row, D, st) == \E m : ExcludeAt(row, D, st, m)

LEMMA AddStructureIs ==
  ASSUME NEW record, NEW st, NEW s, NEW l, NEW u,
         LowerOf(record, s) = l, UpperOf(record, s) = u, l # u
  PROVE  /\ AddStructure(record, "INCLUDE", st, s)
            = [ranges |-> AddRange(st.ranges, record[l - 1].n, record[u - 1].n), next |-> st.next]
         /\ AddStructure(record, "EXCLUDE", st, s)
            = [ranges |-> AddRange(st.ranges, record[st.next - 1].n, record[l - 1].n), next |-> u]
<1>1. "EXCLUDE" # "INCLUDE"
  OBVIOUS
<1> QED BY <1>1, Zenon DEF AddStructure

LEMMA IncludeKeeps ==
  ASSUME NEW row, GoodRow(row), SumTo(row, Len(row)) < Modulus,
         NEW D, D \subseteq Nat, NEW s \in Nat, \A u \in D : u > s,
         NEW st, IncludeInv(row, D, st)
  PROVE  IncludeInv(row, D \cup {s}, AddStructure(RecordOf(row), "INCLUDE", st, s))
<1> DEFINE r == RecordOf(row)
           n == Len(row)
           K == Chosen(row, D)
           L == Chosen(row, D \cup {s})
           after == AddStructure(r, "INCLUDE", st, s)
<1>1. n \in Nat /\ \A k \in 1 .. n : row[k].t.s \in Nat
  BY RowFacts, RowDescends
<1>2. PICK d, e : Structure(row, s, d, e)
  BY StructureExists
<1>3. /\ d \in 0 .. n /\ e \in 0 .. n /\ d <= e
      /\ \A k \in 1 .. n : row[k].t.s > s <=> k <= d
      /\ \A k \in 1 .. n : row[k].t.s >= s <=> k <= e
  BY <1>2 DEF Structure
<1>4. LowerOf(r, s) = d + 2 /\ UpperOf(r, s) = e + 2
  BY <1>2, StructureFound
<1>5. K \subseteq 1 .. d
  BY <1>1, <1>3 DEF Chosen
<1>6. \A k \in 1 .. n : row[k].t.s = s <=> k \in d + 1 .. e
  <2> SUFFICES ASSUME NEW k \in 1 .. n PROVE row[k].t.s = s <=> k \in d + 1 .. e
    OBVIOUS
  <2>1. row[k].t.s \in Nat /\ (row[k].t.s > s <=> k <= d) /\ (row[k].t.s >= s <=> k <= e)
    BY <1>1, <1>3
  <2> QED BY <1>1, <1>3, <2>1
<1>7. L = K \cup (d + 1 .. e)
  <2>1. d + 1 .. e \subseteq 1 .. n
    BY <1>1, <1>3
  <2> QED BY <1>6, <2>1 DEF Chosen
<1>8. Covers(st.ranges, NumbersAt(row, K))
  BY DEF IncludeInv
<1>9. d + 2 = e + 2 <=> d = e
  BY <1>3
<1>10. CASE d = e
  <2>1. after = st
    BY <1>4, <1>10 DEF AddStructure
  <2>2. d + 1 .. e = {}
    BY <1>3, <1>10
  <2>3. L = K
    BY <1>7, <2>2
  <2> HIDE DEF after
  <2> QED BY <1>8, <2>1, <2>3 DEF IncludeInv, after
<1>11. CASE d # e
  <2>1. after.ranges = AddRange(st.ranges, r[d + 1].n, r[e + 1].n)
    <3> DEFINE l == d + 2
               u == e + 2
    <3>1. LowerOf(r, s) = l /\ UpperOf(r, s) = u /\ l # u
      BY <1>4, <1>9, <1>11
    <3>3. l - 1 = d + 1 /\ u - 1 = e + 1
      BY <1>3
    <3> HIDE DEF l, u, r
    <3>2. after = [ranges |-> AddRange(st.ranges, r[l - 1].n, r[u - 1].n), next |-> st.next]
      BY <3>1, AddStructureIs
    <3> HIDE DEF after
    <3> QED BY <3>2, <3>3
  <2> HIDE DEF after, K, L
  <2>3. Covers(AddRange(st.ranges, r[d + 1].n, r[e + 1].n), NumbersAt(row, K \cup (d + 1 .. e)))
    BY <1>3, <1>5, <1>8, PlacesAdded
  <2>4. Covers(after.ranges, NumbersAt(row, L))
    BY <1>7, <2>1, <2>3
  <2> QED BY <2>4 DEF IncludeInv, after, L
<1> QED BY <1>10, <1>11

LEMMA ExcludeKeeps ==
  ASSUME NEW row, GoodRow(row), SumTo(row, Len(row)) < Modulus,
         NEW D, D \subseteq Nat, NEW s \in Nat, \A u \in D : u > s,
         NEW st, ExcludeInv(row, D, st)
  PROVE  ExcludeInv(row, D \cup {s}, AddStructure(RecordOf(row), "EXCLUDE", st, s))
<1> DEFINE r == RecordOf(row)
           n == Len(row)
           after == AddStructure(r, "EXCLUDE", st, s)
           E == D \cup {s}
<1>1. /\ n \in Nat /\ \A k \in 1 .. n : row[k].t.s \in Nat
      /\ \A j, k \in 1 .. n : j < k => row[k].t.s <= row[j].t.s
  BY RowFacts, RowDescends
<1>2. PICK d, e : Structure(row, s, d, e)
  BY StructureExists
<1>3. /\ d \in 0 .. n /\ e \in 0 .. n /\ d <= e
      /\ \A k \in 1 .. n : row[k].t.s > s <=> k <= d
      /\ \A k \in 1 .. n : row[k].t.s >= s <=> k <= e
  BY <1>2 DEF Structure
<1>4. LowerOf(r, s) = d + 2 /\ UpperOf(r, s) = e + 2
  BY <1>2, StructureFound
<1>5. PICK m : ExcludeAt(row, D, st, m)
  BY DEF ExcludeInv
<1>6. /\ m \in 0 .. n /\ st.next = m + 2 /\ (m > 0 => row[m].t.s \in D)
      /\ \A k \in m + 1 .. n : row[k].t.s \notin D
      /\ Covers(st.ranges, NumbersAt(row, Skipped(row, D, m)))
  BY <1>5 DEF ExcludeAt
<1> HIDE DEF n
<1>7. m <= d
  <2>1. CASE m = 0
    BY <1>3, <2>1
  <2>2. CASE m > 0
    <3>1. m \in 1 .. n /\ row[m].t.s > s
      BY <1>1, <1>6, <2>2
    <3> QED BY <1>3, <3>1
  <2> QED BY <1>6, <2>1, <2>2
<1>8. \A k \in 1 .. n : row[k].t.s = s <=> k \in d + 1 .. e
  <2> SUFFICES ASSUME NEW k \in 1 .. n PROVE row[k].t.s = s <=> k \in d + 1 .. e
    OBVIOUS
  <2>1. row[k].t.s \in Nat /\ (row[k].t.s > s <=> k <= d) /\ (row[k].t.s >= s <=> k <= e)
    BY <1>1, <1>3
  <2> QED BY <1>1, <1>3, <2>1
<1>9. d + 2 = e + 2 <=> d = e
  BY <1>3
<1>10. \A k \in 1 .. n : row[k].t.s \in E <=> row[k].t.s \in D \/ k \in d + 1 .. e
  BY <1>8
<1> HIDE DEF E
<1>11. CASE d = e
  <2>1. after = st
    BY <1>4, <1>11 DEF AddStructure
  <2>2. \A k \in 1 .. n : row[k].t.s \in E <=> row[k].t.s \in D
    BY <1>3, <1>10, <1>11
  <2>3. \A k \in 1 .. m : k \in 1 .. n
    BY <1>1, <1>6
  <2>4. Skipped(row, E, m) = Skipped(row, D, m)
    BY <2>2, <2>3 DEF Skipped
  <2>5. m > 0 => row[m].t.s \in E
    <3>1. m > 0 => m \in 1 .. n
      BY <1>6
    <3> QED BY <1>6, <2>2, <3>1
  <2>6. \A k \in m + 1 .. n : row[k].t.s \notin E
    <3>1. \A k \in m + 1 .. n : k \in 1 .. n
      BY <1>1, <1>6
    <3> QED BY <1>6, <2>2, <3>1
  <2>7. ExcludeAt(row, E, st, m)
    BY <1>6, <2>4, <2>5, <2>6 DEF ExcludeAt, n
  <2> HIDE DEF after
  <2> QED BY <2>1, <2>7 DEF ExcludeInv, after, E
<1>12. CASE d # e
  <2>1. /\ after.ranges = AddRange(st.ranges, r[m + 1].n, r[d + 1].n)
        /\ after.next = e + 2
    <3> DEFINE l == d + 2
               u == e + 2
    <3>1. LowerOf(r, s) = l /\ UpperOf(r, s) = u /\ l # u
      BY <1>4, <1>9, <1>12
    <3>3. l - 1 = d + 1 /\ st.next - 1 = m + 1 /\ u = e + 2
      BY <1>3, <1>6
    <3> HIDE DEF l, u, r
    <3>2. after = [ranges |-> AddRange(st.ranges, r[st.next - 1].n, r[l - 1].n), next |-> u]
      BY <3>1, AddStructureIs
    <3> HIDE DEF after
    <3> QED BY <3>2, <3>3
  <2> HIDE DEF after
  <2> DEFINE K == Skipped(row, D, m)
  <2>3. K \subseteq 1 .. m /\ Covers(st.ranges, NumbersAt(row, K)) /\ d \in 0 .. Len(row) /\ m \in 0 .. Len(row)
    BY <1>3, <1>6 DEF Skipped, n
  <2> HIDE DEF K
  <2>4. Covers(AddRange(st.ranges, r[m + 1].n, r[d + 1].n), NumbersAt(row, K \cup (m + 1 .. d)))
    BY <1>7, <2>3, PlacesAdded
  <2>5. Skipped(row, E, e) = K \cup (m + 1 .. d)
    <3>1. ASSUME NEW k \in 1 .. e PROVE row[k].t.s \notin E <=> k \in K \cup (m + 1 .. d)
      <4>1. k \in 1 .. n
        BY <1>1, <1>3
      <4>2. CASE k <= m
        <5>1. k \in 1 .. m /\ k \notin d + 1 .. e /\ k \notin m + 1 .. d
          BY <1>3, <1>6, <1>7, <4>1, <4>2
        <5> QED BY <1>10, <4>1, <5>1 DEF K, Skipped
      <4>3. CASE m < k
        <5>1. k \in m + 1 .. n /\ k \notin 1 .. m /\ (k \in m + 1 .. d <=> k \notin d + 1 .. e)
          BY <1>3, <1>6, <1>7, <4>1, <4>3
        <5>2. row[k].t.s \notin D
          BY <1>6, <5>1
        <5>3. k \notin K
          BY <2>3, <5>1
        <5> QED BY <1>10, <4>1, <5>1, <5>2, <5>3
      <4> QED BY <1>6, <4>1, <4>2, <4>3
    <3>2. K \cup (m + 1 .. d) \subseteq 1 .. e
      BY <1>3, <1>6, <1>7, <2>3
    <3> QED BY <3>1, <3>2 DEF Skipped
  <2>6. Covers(after.ranges, NumbersAt(row, Skipped(row, E, e)))
    BY <2>1, <2>4, <2>5
  <2>7. e > 0 => row[e].t.s \in E
    <3>1. e \in 1 .. n /\ e \in d + 1 .. e
      BY <1>3, <1>12
    <3> QED BY <1>10, <3>1
  <2>8. \A k \in e + 1 .. n : row[k].t.s \notin E
    <3>1. \A k \in e + 1 .. n : k \in 1 .. n /\ k \in m + 1 .. n /\ k \notin d + 1 .. e
      BY <1>1, <1>3, <1>6, <1>7
    <3> QED BY <1>6, <1>10, <3>1
  <2>9. ExcludeAt(row, E, after, e)
    BY <1>3, <2>1, <2>6, <2>7, <2>8 DEF ExcludeAt, n
  <2> QED BY <2>9 DEF ExcludeInv, after, E
<1> QED BY <1>11, <1>12

(* build_range_sampler(), a structure at a time. *)
AddedStep(record, mode, order, g, k) ==
  IF k = 0 THEN [ranges |-> <<>>, next |-> 2]
  ELSE AddStructure(record, mode, g[k - 1], order[k])
IsAdded(record, mode, order, g, m) == g = [k \in 0 .. m |-> AddedStep(record, mode, order, g, k)]
Added(record, mode, order, n) == CHOOSE g : IsAdded(record, mode, order, g, n)

LEMMA AddedSteps ==
  ASSUME NEW record, NEW mode, NEW order, NEW n \in Nat
  PROVE  \A k \in 0 .. n :
           Added(record, mode, order, n)[k]
           = AddedStep(record, mode, order, Added(record, mode, order, n), k)
<1> DEFINE Step(g, k) == AddedStep(record, mode, order, g, k)
           Is(g, m) == IsAdded(record, mode, order, g, m)
           G == {m \in 0 .. n : \E g : Is(g, m)}
<1>1. \A g, h, k : k = 0 \/ g[k - 1] = h[k - 1] => Step(g, k) = Step(h, k)
  BY DEF AddedStep
<1>2. \A g, m : Is(g, m) <=> g = [k \in 0 .. m |-> Step(g, k)]
  BY DEF IsAdded
<1> HIDE DEF Step, Is
<1>3. 0 \in G
  <2> DEFINE g == [k \in 0 .. 0 |-> Step(<<>>, k)]
  <2>1. \A k \in 0 .. 0 : Step(g, k) = Step(<<>>, k)
    BY <1>1
  <2>2. Is(g, 0)
    BY <1>2, <2>1
  <2> QED BY <2>2
<1>4. ASSUME NEW m \in 1 .. n, m - 1 \in G PROVE m \in G
  <2>1. PICK g : Is(g, m - 1)
    BY <1>4
  <2> DEFINE h == [k \in 0 .. m |-> Step(g, k)]
  <2>2. ASSUME NEW k \in 0 .. m PROVE Step(h, k) = Step(g, k)
    <3>1. CASE k = 0
      BY <1>1, <3>1
    <3>2. CASE k # 0
      <4>1. k - 1 \in 0 .. m /\ k - 1 \in 0 .. m - 1
        BY <3>2
      <4>2. h[k - 1] = Step(g, k - 1)
        BY <4>1
      <4>3. g[k - 1] = Step(g, k - 1)
        BY <1>2, <2>1, <4>1
      <4>4. h[k - 1] = g[k - 1]
        BY <4>2, <4>3
      <4> HIDE DEF h
      <4> QED BY <1>1, <4>4
    <3> QED BY <3>1, <3>2
  <2>3. Is(h, m)
    BY <1>2, <2>2
  <2> QED BY <2>3
<1>5. \E g : Is(g, n)
  <2> HIDE DEF G
  <2>1. 0 .. n \subseteq G
    BY <1>3, <1>4, UpTo
  <2>2. n \in G
    BY <2>1
  <2> QED BY <2>2 DEF G
<1> DEFINE a == Added(record, mode, order, n)
<1>6. Is(a, n)
  BY <1>5, Zenon DEF Added, Is
<1> HIDE DEF a
<1>7. \A k \in 0 .. n : a[k] = Step(a, k)
  BY <1>2, <1>6
<1> QED BY <1>7 DEF a, Step

LEMMA RangesOfIs ==
  ASSUME NEW record, NEW selector
  PROVE  LET order == Descending(selector.structures)
             n == Cardinality(selector.structures)
             done == Added(record, selector.mode, order, n)[n]
         IN  RangesOf(record, selector)
             = IF selector.mode = "EXCLUDE"
                 THEN AddRange(done.ranges, record[done.next - 1].n, Total(record))
               ELSE done.ranges
BY Zenon DEF RangesOf, Added, IsAdded, AddedStep

Done(order, m) == {order[j] : j \in 1 .. m}

LEMMA NothingAdded ==
  ASSUME NEW row, GoodRow(row)
  PROVE  /\ IncludeInv(row, {}, [ranges |-> <<>>, next |-> 2])
         /\ ExcludeInv(row, {}, [ranges |-> <<>>, next |-> 2])
<1> DEFINE st == [ranges |-> <<>>, next |-> 2]
<1>1. Covers(<<>>, {})
  BY DEF Covers
<1>2. Chosen(row, {}) = {} /\ Skipped(row, {}, 0) = {} /\ NumbersAt(row, {}) = {}
  BY DEF Chosen, Skipped, NumbersAt
<1>3. st.ranges = <<>> /\ st.next = 0 + 2
  OBVIOUS
<1>4. 0 \in 0 .. Len(row)
  BY RowFacts
<1> HIDE DEF st
<1>5. ExcludeAt(row, {}, st, 0)
  <2>1. Covers(st.ranges, NumbersAt(row, Skipped(row, {}, 0)))
    BY <1>1, <1>2, <1>3
  <2>2. ~(0 > 0) /\ \A k \in 0 + 1 .. Len(row) : row[k].t.s \notin {}
    OBVIOUS
  <2> QED BY <1>3, <1>4, <2>1, <2>2, Zenon DEF ExcludeAt
<1> QED BY <1>1, <1>2, <1>3, <1>5 DEF IncludeInv, ExcludeInv, st

LEMMA AllAdded ==
  ASSUME NEW row, GoodRow(row), SumTo(row, Len(row)) < Modulus,
         NEW S, S \subseteq Nat, IsFiniteSet(S)
  PROVE  LET order == Descending(S)
             n == Cardinality(S)
             r == RecordOf(row)
         IN  /\ IncludeInv(row, S, Added(r, "INCLUDE", order, n)[n])
             /\ ExcludeInv(row, S, Added(r, "EXCLUDE", order, n)[n])
<1> DEFINE o == Descending(S)
           n == Cardinality(S)
           r == RecordOf(row)
           i == Added(r, "INCLUDE", o, n)
           e == Added(r, "EXCLUDE", o, n)
           G == {m \in 0 .. n : IncludeInv(row, Done(o, m), i[m]) /\ ExcludeInv(row, Done(o, m), e[m])}
<1>1. /\ n \in Nat
      /\ \A k \in 1 .. n : o[k] \in S
      /\ \A j, k \in 1 .. n : j < k => o[j] > o[k]
      /\ \A s \in S : \E k \in 1 .. n : o[k] = s
  BY DescendingLists
<1> HIDE DEF o, n
<1>2. /\ \A k \in 0 .. n : i[k] = AddedStep(r, "INCLUDE", o, i, k)
      /\ \A k \in 0 .. n : e[k] = AddedStep(r, "EXCLUDE", o, e, k)
  BY <1>1, AddedSteps
<1> HIDE DEF i, e
<1>3. 0 \in G
  <2>1. 0 \in 0 .. n /\ Done(o, 0) = {}
    BY <1>1 DEF Done
  <2>2. i[0] = [ranges |-> <<>>, next |-> 2] /\ e[0] = [ranges |-> <<>>, next |-> 2]
    BY <1>2, <2>1 DEF AddedStep
  <2> QED BY <2>1, <2>2, NothingAdded
<1>4. ASSUME NEW m \in 1 .. n, m - 1 \in G PROVE m \in G
  <2> DEFINE D == Done(o, m - 1)
             s == o[m]
  <2>1. m \in 0 .. n /\ m # 0
    BY <1>1
  <2>2. /\ i[m] = AddStructure(r, "INCLUDE", i[m - 1], s)
        /\ e[m] = AddStructure(r, "EXCLUDE", e[m - 1], s)
    BY <1>2, <2>1 DEF AddedStep
  <2>3. IncludeInv(row, D, i[m - 1]) /\ ExcludeInv(row, D, e[m - 1])
    BY <1>4
  <2>4. \A j \in 1 .. m - 1 : j \in 1 .. n /\ j < m
    BY <1>1
  <2>5. D \subseteq Nat /\ s \in Nat /\ \A u \in D : u > s
    BY <1>1, <2>4 DEF Done
  <2>6. Done(o, m) = D \cup {s}
    <3>1. 1 .. m = (1 .. m - 1) \cup {m}
      BY <1>1
    <3> QED BY <3>1 DEF Done
  <2> HIDE DEF D, s
  <2>7. IncludeInv(row, D \cup {s}, AddStructure(r, "INCLUDE", i[m - 1], s))
    BY <2>3, <2>5, IncludeKeeps
  <2>8. ExcludeInv(row, D \cup {s}, AddStructure(r, "EXCLUDE", e[m - 1], s))
    BY <2>3, <2>5, ExcludeKeeps
  <2> QED BY <2>1, <2>2, <2>6, <2>7, <2>8
<1>5. n \in G
  <2> HIDE DEF G
  <2>1. 0 .. n \subseteq G
    BY <1>1, <1>3, <1>4, UpTo
  <2> QED BY <1>1, <2>1
<1>6. Done(o, n) = S
  BY <1>1 DEF Done
<1> QED BY <1>5, <1>6 DEF o, n, i, e

(* The numbers of the treelets selected. *)
Selected(row, selector) == {k \in 1 .. Len(row) : IsIncluded(selector, row[k].t.s)}

LEMMA RangesCover ==
  ASSUME NEW row, GoodRow(row), SumTo(row, Len(row)) < Modulus,
         NEW selector, selector.mode \in {"INCLUDE", "EXCLUDE"},
         selector.structures \subseteq Nat, IsFiniteSet(selector.structures)
  PROVE  Covers(RangesOf(RecordOf(row), selector), NumbersAt(row, Selected(row, selector)))
<1> DEFINE S == selector.structures
           o == Descending(S)
           c == Cardinality(S)
           r == RecordOf(row)
           n == Len(row)
           done == Added(r, selector.mode, o, c)[c]
<1>1. RangesOf(r, selector)
      = IF selector.mode = "EXCLUDE" THEN AddRange(done.ranges, r[done.next - 1].n, Total(r))
        ELSE done.ranges
  BY RangesOfIs
<1>2. /\ IncludeInv(row, S, Added(r, "INCLUDE", o, c)[c])
      /\ ExcludeInv(row, S, Added(r, "EXCLUDE", o, c)[c])
  BY AllAdded
<1>3. n \in Nat /\ Len(r) = n + 1
  BY RowFacts, RecordFields
<1> HIDE DEF o, c, r, n
<1>4. CASE selector.mode = "INCLUDE"
  <2>1. IncludeInv(row, S, done)
    BY <1>2, <1>4
  <2>2. RangesOf(r, selector) = done.ranges
    BY <1>1, <1>4
  <2>3. Selected(row, selector) = Chosen(row, S)
    BY <1>4 DEF Selected, Chosen, IsIncluded
  <2> QED BY <2>1, <2>2, <2>3 DEF IncludeInv, r
<1>5. CASE selector.mode = "EXCLUDE"
  <2>1. ExcludeInv(row, S, done)
    BY <1>2, <1>5
  <2> HIDE DEF done
  <2>2. RangesOf(r, selector) = AddRange(done.ranges, r[done.next - 1].n, Total(r))
    BY <1>1, <1>5
  <2>3. PICK m : ExcludeAt(row, S, done, m)
    BY <2>1 DEF ExcludeInv
  <2> DEFINE K == Skipped(row, S, m)
  <2>4. /\ m \in 0 .. n /\ done.next = m + 2
        /\ \A k \in m + 1 .. n : row[k].t.s \notin S
        /\ Covers(done.ranges, NumbersAt(row, K)) /\ K \subseteq 1 .. m
    BY <2>3 DEF ExcludeAt, n, Skipped
  <2>5. done.next - 1 = m + 1 /\ Total(r) = r[n + 1].n /\ n \in 0 .. n /\ m <= n
    BY <1>3, <2>4 DEF Total
  <2>6. Selected(row, selector) = K \cup (m + 1 .. n)
    <3>1. ASSUME NEW k \in 1 .. n
          PROVE  IsIncluded(selector, row[k].t.s) <=> k \in K \cup (m + 1 .. n)
      <4>1. IsIncluded(selector, row[k].t.s) <=> row[k].t.s \notin S
        BY <1>5 DEF IsIncluded
      <4>2. CASE k <= m
        <5>1. k \in 1 .. m /\ k \notin m + 1 .. n
          BY <1>3, <2>4, <4>2
        <5> QED BY <4>1, <5>1 DEF Skipped
      <4>3. CASE m < k
        <5>1. k \in m + 1 .. n
          BY <1>3, <2>4, <4>3
        <5> QED BY <2>4, <4>1, <5>1
      <4> QED BY <1>3, <2>4, <4>2, <4>3
    <3>2. K \cup (m + 1 .. n) \subseteq 1 .. n
      BY <1>3, <2>4
    <3> HIDE DEF K
    <3> QED BY <3>1, <3>2 DEF Selected, n
  <2> HIDE DEF K
  <2>7. Covers(AddRange(done.ranges, r[m + 1].n, r[n + 1].n), NumbersAt(row, K \cup (m + 1 .. n)))
    BY <2>4, <2>5, PlacesAdded DEF r, n
  <2>8. RangesOf(r, selector) = AddRange(done.ranges, r[m + 1].n, r[n + 1].n)
    BY <2>2, <2>5
  <2> QED BY <2>6, <2>7, <2>8 DEF r
<1> QED BY <1>4, <1>5

(* get_treelet_no() of a number gives the treelet it falls to. *)
LEMMA NumbersSelected ==
  ASSUME NEW row, GoodRow(row), SumTo(row, Len(row)) < Modulus, NEW selector
  PROVE  {no \in 0 .. SumTo(row, Len(row)) - 1 :
            IsIncluded(selector, GetTreeletNo(RecordOf(row), no).s)}
         = NumbersAt(row, Selected(row, selector))
<1> DEFINE r == RecordOf(row)
           n == Len(row)
           T == SumTo(row, n)
           K == Selected(row, selector)
           N == NumbersAt(row, K)
<1>1. /\ n \in Nat /\ n \in 0 .. n
      /\ \A k \in 0 .. n : SumTo(row, k) \in Nat
      /\ \A j, k \in 0 .. n : j <= k => SumTo(row, j) <= SumTo(row, k)
  <2>1. n \in Nat
    BY RowFacts
  <2> QED BY <2>1, SumsGrow
<1>2. T \in Nat
  BY <1>1
<1>3. \A k \in 1 .. n : r[k + 1].t = row[k].t
  BY RecordFields
<1>4. \A x \in 1 .. T : /\ \A k \in 1 .. n : FallsTo(row, k, x) => FindCount(r, x) = k + 1
                        /\ \E k \in 1 .. n : FallsTo(row, k, x)
  BY CountFound
<1>5. K = {k \in 1 .. n : IsIncluded(selector, row[k].t.s)}
  BY DEF Selected
<1> HIDE DEF r, n, T, K
<1>6. ASSUME NEW x \in Nat, NEW k \in 1 .. n
      PROVE  NumberedBy(row, k, x) <=> FallsTo(row, k, x + 1)
  <2>1. k - 1 \in 0 .. n /\ k \in 0 .. n
    BY <1>1
  <2>2. SumTo(row, k - 1) \in Nat /\ SumTo(row, k) \in Nat
    BY <1>1, <2>1
  <2> QED BY <2>2 DEF NumberedBy, FallsTo
<1>7. ASSUME NEW x \in 0 .. T - 1, NEW k \in 1 .. n, NumberedBy(row, k, x)
      PROVE  GetTreeletNo(r, x) = row[k].t
  <2>1. x \in Nat /\ x + 1 \in 1 .. T
    BY <1>2
  <2>2. FindCount(r, x + 1) = k + 1
    BY <1>4, <1>6, <1>7, <2>1
  <2> QED BY <1>3, <2>2 DEF GetTreeletNo
<1>8. ASSUME NEW x \in 0 .. T - 1 PROVE \E k \in 1 .. n : NumberedBy(row, k, x)
  <2>1. x \in Nat /\ x + 1 \in 1 .. T
    BY <1>2
  <2> QED BY <1>4, <1>6, <2>1
<1>9. ASSUME NEW x \in N PROVE x \in 0 .. T - 1 /\ IsIncluded(selector, GetTreeletNo(r, x).s)
  <2>1. x \in Nat /\ \E k \in K : NumberedBy(row, k, x)
    BY DEF NumbersAt
  <2>2. PICK k \in K : NumberedBy(row, k, x)
    BY <2>1
  <2>3. k \in 1 .. n /\ IsIncluded(selector, row[k].t.s)
    BY <1>5
  <2>4. k \in 0 .. n /\ k <= n
    BY <1>1, <2>3
  <2>5. SumTo(row, k) <= T /\ SumTo(row, k) \in Nat
    BY <1>1, <2>4 DEF T
  <2>6. x \in 0 .. T - 1
    BY <1>2, <2>1, <2>2, <2>5 DEF NumberedBy
  <2>7. GetTreeletNo(r, x) = row[k].t
    BY <1>7, <2>2, <2>3, <2>6
  <2> QED BY <2>3, <2>6, <2>7
<1>10. ASSUME NEW x \in 0 .. T - 1, IsIncluded(selector, GetTreeletNo(r, x).s) PROVE x \in N
  <2>1. PICK k \in 1 .. n : NumberedBy(row, k, x)
    BY <1>8
  <2>2. GetTreeletNo(r, x) = row[k].t
    BY <1>7, <2>1
  <2>3. k \in K
    BY <1>5, <1>10, <2>2
  <2> QED BY <1>2, <2>1, <2>3 DEF NumbersAt
<1> HIDE DEF N
<1> QED BY <1>9, <1>10 DEF r, n, T, K, N

-----------------------------------------------------------------------------
(* root_sampler, a vertex at a time. *)
SetStep(n, w, g, k) == IF k = 0 THEN AliasNew(n) ELSE AliasSet(g[k - 1], k - 1, w[k - 1])
IsSet(n, w, g, m) == g = [k \in 0 .. m |-> SetStep(n, w, g, k)]
SetTo(n, w) == CHOOSE g : IsSet(n, w, g, n)

LEMMA SetSteps ==
  ASSUME NEW n \in Nat, NEW w
  PROVE  \A k \in 0 .. n : SetTo(n, w)[k] = SetStep(n, w, SetTo(n, w), k)
<1> DEFINE Step(g, k) == SetStep(n, w, g, k)
           Is(g, m) == IsSet(n, w, g, m)
           G == {m \in 0 .. n : \E g : Is(g, m)}
<1>1. \A g, h, k : k = 0 \/ g[k - 1] = h[k - 1] => Step(g, k) = Step(h, k)
  BY DEF SetStep
<1>2. \A g, m : Is(g, m) <=> g = [k \in 0 .. m |-> Step(g, k)]
  BY DEF IsSet
<1> HIDE DEF Step, Is
<1>3. 0 \in G
  <2> DEFINE g == [k \in 0 .. 0 |-> Step(<<>>, k)]
  <2>1. \A k \in 0 .. 0 : Step(g, k) = Step(<<>>, k)
    BY <1>1
  <2>2. Is(g, 0)
    BY <1>2, <2>1
  <2> QED BY <2>2
<1>4. ASSUME NEW m \in 1 .. n, m - 1 \in G PROVE m \in G
  <2>1. PICK g : Is(g, m - 1)
    BY <1>4
  <2> DEFINE h == [k \in 0 .. m |-> Step(g, k)]
  <2>2. ASSUME NEW k \in 0 .. m PROVE Step(h, k) = Step(g, k)
    <3>1. CASE k = 0
      BY <1>1, <3>1
    <3>2. CASE k # 0
      <4>1. k - 1 \in 0 .. m /\ k - 1 \in 0 .. m - 1
        BY <3>2
      <4>2. h[k - 1] = Step(g, k - 1)
        BY <4>1
      <4>3. g[k - 1] = Step(g, k - 1)
        BY <1>2, <2>1, <4>1
      <4>4. h[k - 1] = g[k - 1]
        BY <4>2, <4>3
      <4> HIDE DEF h
      <4> QED BY <1>1, <4>4
    <3> QED BY <3>1, <3>2
  <2>3. Is(h, m)
    BY <1>2, <2>2
  <2> QED BY <2>3
<1>5. \E g : Is(g, n)
  <2> HIDE DEF G
  <2>1. 0 .. n \subseteq G
    BY <1>3, <1>4, UpTo
  <2>2. n \in G
    BY <2>1
  <2> QED BY <2>2 DEF G
<1> DEFINE a == SetTo(n, w)
<1>6. Is(a, n)
  BY <1>5, Zenon DEF SetTo, Is
<1> HIDE DEF a
<1>7. \A k \in 0 .. n : a[k] = Step(a, k)
  BY <1>2, <1>6
<1> QED BY <1>7 DEF a, Step

LEMMA RootsOfIs ==
  ASSUME NEW n, NEW ranges, NEW w, w = [v \in 0 .. n - 1 |-> Lengths(ranges[v])], n \in Nat
  PROVE  RootsOf(n, ranges) = AliasBuild(SetTo(n, w)[n])
<1>1. \A g : \A k \in 0 .. n : SetStep(n, w, g, k) =
          IF k = 0 THEN AliasNew(n) ELSE AliasSet(g[k - 1], k - 1, Lengths(ranges[k - 1]))
  <2>1. ASSUME NEW g, NEW k \in 0 .. n
        PROVE  SetStep(n, w, g, k) =
          IF k = 0 THEN AliasNew(n) ELSE AliasSet(g[k - 1], k - 1, Lengths(ranges[k - 1]))
    <3>1. k # 0 => w[k - 1] = Lengths(ranges[k - 1])
      <4>1. k # 0 => k - 1 \in 0 .. n - 1
        OBVIOUS
      <4> QED BY <4>1
    <3> QED BY <3>1 DEF SetStep
  <2> QED BY <2>1
<1>2. \A g : IsSet(n, w, g, n) <=> g = [k \in 0 .. n |->
          IF k = 0 THEN AliasNew(n) ELSE AliasSet(g[k - 1], k - 1, Lengths(ranges[k - 1]))]
  BY <1>1 DEF IsSet
<1>3. SetTo(n, w) = CHOOSE g : g = [k \in 0 .. n |->
          IF k = 0 THEN AliasNew(n) ELSE AliasSet(g[k - 1], k - 1, Lengths(ranges[k - 1]))]
  BY <1>2, Zenon DEF SetTo
<1> QED BY <1>3, Zenon DEF RootsOf

(* The weights after the vertices below k. *)
WeightsBelow(w, n, k) == [v \in 0 .. n - 1 |-> IF v < k THEN w[v] ELSE 0]
SamplerAt(w, n, k) ==
  [n |-> n, total |-> Sigma(WeightsBelow(w, n, k), 0 .. n - 1), U |-> WeightsBelow(w, n, k),
   K |-> [v \in 0 .. n - 1 |-> 0]]

LEMMA WeightSet ==
  ASSUME NEW n \in Nat, NEW w \in [0 .. n - 1 -> Nat], NEW k \in 0 .. n - 1
  PROVE  AliasSet(SamplerAt(w, n, k), k, w[k]) = SamplerAt(w, n, k + 1)
<1> DEFINE V == 0 .. n - 1
           f == WeightsBelow(w, n, k)
           h == WeightsBelow(w, n, k + 1)
           K == [v \in V |-> 0]
           x == w[k]
           a == SamplerAt(w, n, k)
<1>1. IsFiniteSet(V) /\ x \in Nat /\ k \in V
  BY RangeCardinality
<1>2. f \in [V -> Nat] /\ h \in [V -> Nat]
  BY DEF WeightsBelow
<1>3. f[k] = 0 /\ h[k] = x /\ \A v \in V \ {k} : h[v] = f[v]
  BY DEF WeightsBelow
<1>4. a = [n |-> n, total |-> Sigma(f, V), U |-> f, K |-> K]
  BY DEF SamplerAt
<1> HIDE DEF V, f, h, K, x, a
<1>5. h = [f EXCEPT ![k] = x]
  BY <1>1, <1>2, <1>3
<1>6. /\ \A v \in V : f[v] \in Int
      /\ x \in Int /\ h[k] = f[k] + x
  BY <1>1, <1>2, <1>3
<1>7. Sigma(h, V) = Sigma(f, V) + x
  <2>1. \A v \in V \ {k} : h[v] = f[v]
    BY <1>3
  <2> QED BY <1>1, <1>6, <2>1, SigmaChange
<1>8. Sigma(f, V) \in Int
  BY <1>1, <1>6, SigmaInt
<1>9. AliasSet(a, k, x) = [a EXCEPT !.total = @ - a.U[k] + x, !.U[k] = x]
  BY DEF AliasSet
<1>10. Sigma(f, V) - f[k] + x = Sigma(h, V)
  BY <1>1, <1>3, <1>7, <1>8
<1>11. AliasSet(a, k, x) = [n |-> n, total |-> Sigma(f, V) - f[k] + x, U |-> [f EXCEPT ![k] = x], K |-> K]
  BY <1>4, <1>9
<1> QED BY <1>5, <1>10, <1>11 DEF f, h, K, V, x, a, SamplerAt

(* Whatever the weights, each element is drawn in proportion to its own. *)
LEMMA RootsOfExact ==
  ASSUME NEW n \in Nat, NEW ranges, \A v \in 0 .. n - 1 : Lengths(ranges[v]) \in Nat,
         NEW v \in 0 .. n - 1
  PROVE  AliasWeight(RootsOf(n, ranges), v) = n * Lengths(ranges[v])
<1> DEFINE V == 0 .. n - 1
           w == [u \in V |-> Lengths(ranges[u])]
           g == SetTo(n, w)
           G == {k \in 0 .. n : g[k] = SamplerAt(w, n, k)}
<1>1. w \in [V -> Nat] /\ w[v] = Lengths(ranges[v])
  OBVIOUS
<1>2. RootsOf(n, ranges) = AliasBuild(g[n])
  BY RootsOfIs
<1> HIDE DEF w
<1>3. \A k \in 0 .. n : g[k] = SetStep(n, w, g, k)
  BY SetSteps
<1> HIDE DEF g
<1>4. 0 \in G
  <2>1. g[0] = AliasNew(n)
    BY <1>3 DEF SetStep
  <2> DEFINE f == WeightsBelow(w, n, 0)
  <2>2. f = [i \in V |-> 0] /\ \A i \in V : f[i] = 0
    <3>1. \A i \in V : ~(i < 0)
      OBVIOUS
    <3> QED BY <3>1 DEF WeightsBelow
  <2>3. IsFiniteSet(V)
    BY RangeCardinality
  <2> HIDE DEF f, V
  <2>4. Sigma(f, V) = 0
    BY <2>2, <2>3, SigmaZero
  <2>5. SamplerAt(w, n, 0) = [n |-> n, total |-> Sigma(f, V), U |-> f, K |-> [i \in V |-> 0]]
    BY DEF SamplerAt, f, V
  <2>6. AliasNew(n) = [n |-> n, total |-> 0, U |-> [i \in V |-> 0], K |-> [i \in V |-> 0]]
    BY DEF AliasNew, V
  <2>7. SamplerAt(w, n, 0) = AliasNew(n)
    BY <2>2, <2>4, <2>5, <2>6
  <2> QED BY <2>1, <2>7
<1>5. ASSUME NEW k \in 1 .. n, k - 1 \in G PROVE k \in G
  <2>1. k \in 0 .. n /\ k # 0 /\ k - 1 \in 0 .. n - 1 /\ k - 1 + 1 = k
    OBVIOUS
  <2>2. g[k] = AliasSet(g[k - 1], k - 1, w[k - 1])
    BY <1>3, <2>1 DEF SetStep
  <2>3. g[k - 1] = SamplerAt(w, n, k - 1)
    BY <1>5
  <2>4. AliasSet(SamplerAt(w, n, k - 1), k - 1, w[k - 1]) = SamplerAt(w, n, k - 1 + 1)
    BY <1>1, <2>1, WeightSet
  <2> QED BY <2>1, <2>2, <2>3, <2>4
<1>6. g[n] = SamplerAt(w, n, n)
  <2> HIDE DEF G
  <2>1. 0 .. n \subseteq G
    BY <1>4, <1>5, UpTo
  <2> QED BY <2>1 DEF G
<1> DEFINE a == SamplerAt(w, n, n)
           f == WeightsBelow(w, n, n)
<1>7. f \in [V -> Nat] /\ f[v] = w[v]
  BY <1>1 DEF WeightsBelow
<1>8. a = [n |-> n, total |-> Sigma(f, V), U |-> f, K |-> [i \in V |-> 0]]
  BY DEF SamplerAt
<1> HIDE DEF a, f
<1>9. AliasInput(a)
  <2>1. a.n = n /\ a.total = Sigma(f, V) /\ a.U = f /\ a.K = [i \in V |-> 0]
    BY <1>8
  <2>2. [i \in V |-> 0] \in [V -> Nat]
    OBVIOUS
  <2> QED BY <1>7, <1>8, <2>1, <2>2 DEF AliasInput
<1>10. a.n = n /\ a.U = f
  BY <1>8
<1>11. AliasWeight(AliasBuild(a), v) = a.U[v] * a.n
  BY <1>9, <1>10, AliasIsExact
<1>12. AliasWeight(AliasBuild(a), v) = w[v] * n /\ w[v] \in Nat
  BY <1>1, <1>7, <1>10, <1>11
<1> DEFINE x == w[v]
<1>13. w[v] * n = n * w[v]
  <2>1. x \in Nat
    BY <1>12
  <2> HIDE DEF x
  <2>2. x * n = n * x
    BY <2>1
  <2> QED BY <2>2 DEF x
<1> QED BY <1>1, <1>2, <1>6, <1>12, <1>13 DEF a

-----------------------------------------------------------------------------
(* A sampler is made from the rows that were read, for one of the          *)
(* selections, and not kept beyond the next merge.                         *)
RangesFor(inf, V, selector) == [u \in V |-> RangesOf(RecordOf(inf[u]), selector)]
SelectionInv ==
  sampler # None =>
    /\ pc = "done" /\ NothingWrapped /\ sampler.selector \in Selectors
    /\ sampler.ranges = RangesFor(info, Vertices, sampler.selector)
    /\ sampler.roots = RootsOf(NumVertices, sampler.ranges)

LEMMA SelectionNext == FaithfulInv /\ SelectionInv /\ [Next]_vars => SelectionInv'
<1> SUFFICES ASSUME FaithfulInv, SelectionInv, [Next]_vars PROVE SelectionInv'
  OBVIOUS
<1>1. CASE Start \/ DropSelector
  <2>1. sampler' = None
    BY <1>1 DEF Start, DropSelector
  <2> QED BY <2>1 DEF SelectionInv, None
<1>2. CASE ReadFile \/ Check \/ WriteRow \/ Finish \/ WriteRoots \/ WriteInfo
  <2>1. pc # "done" /\ sampler' = sampler
    BY <1>2 DEF ReadFile, Check, WriteRow, Finish, WriteRoots, WriteInfo
  <2>2. sampler' = None
    BY <2>1 DEF SelectionInv
  <2> QED BY <2>2 DEF SelectionInv, None
<1>3. CASE SetSelector
  <2>1. UNCHANGED <<job, pc, info>> /\ pc = "done" /\ NothingWrapped
    BY <1>3 DEF SetSelector
  <2>2. NumVertices' = NumVertices /\ Vertices' = Vertices /\ RowTotals' = RowTotals
    BY <2>1, RootsFrame
  <2>3. NothingWrapped'
    BY <2>1, <2>2 DEF NothingWrapped, RowTotal
  <2>4. ReadsAs(disk.dtz, info, NumVertices)
    BY <2>1 DEF FaithfulInv, ContentInv
  <2>5. PICK selector \in Selectors :
          LET ranges == [u \in Vertices |-> RangesOf(RecordAt(u), selector)]
          IN  sampler' = [selector |-> selector, ranges |-> ranges,
                          roots |-> RootsOf(NumVertices, ranges)]
    BY <1>3, Zenon DEF SetSelector
  <2> DEFINE ranges == [u \in Vertices |-> RangesOf(RecordAt(u), selector)]
  <2>6. ranges = RangesFor(info, Vertices, selector)
    <3>1. \A u \in Vertices : RecordAt(u) = RecordOf(info[u])
      BY <2>4 DEF ReadsAs, RecordAt, Vertices
    <3> QED BY <3>1 DEF RangesFor
  <2>7. sampler' = [selector |-> selector, ranges |-> ranges, roots |-> RootsOf(NumVertices, ranges)]
    BY <2>5
  <2> HIDE DEF ranges
  <2>8. sampler'.selector = selector /\ sampler'.ranges = ranges
        /\ sampler'.roots = RootsOf(NumVertices, ranges)
    BY <2>7
  <2>9. /\ pc' = "done" /\ sampler'.selector \in Selectors
        /\ sampler'.ranges = RangesFor(info', Vertices', sampler'.selector)
        /\ sampler'.roots = RootsOf(NumVertices', sampler'.ranges)
    BY <2>1, <2>2, <2>6, <2>8
  <2> QED BY <2>3, <2>9 DEF SelectionInv
<1>4. CASE UNCHANGED vars
  <2>1. UNCHANGED <<job, pc, info, sampler>>
    BY <1>4 DEF vars
  <2>2. NumVertices' = NumVertices /\ Vertices' = Vertices /\ RowTotals' = RowTotals
    BY <2>1, RootsFrame
  <2>3. NothingWrapped' = NothingWrapped
    BY <2>1, <2>2 DEF NothingWrapped, RowTotal
  <2>4. sampler' # None' => sampler # None
    BY <2>1 DEF None
  <2>5. sampler # None =>
          /\ pc' = "done" /\ NothingWrapped' /\ sampler'.selector \in Selectors
          /\ sampler'.ranges = RangesFor(info', Vertices', sampler'.selector)
          /\ sampler'.roots = RootsOf(NumVertices', sampler'.ranges)
    BY <2>1, <2>2, <2>3 DEF SelectionInv
  <2> QED BY <2>4, <2>5 DEF SelectionInv
<1> QED BY <1>1, <1>2, <1>3, <1>4 DEF Next

(* TreeletSampler::set_selector() and sample(): over a complete table, and *)
(* for every selection, the numbers drawn at a vertex are those of the     *)
(* treelets selected, each for one outcome, and the roots are drawn in     *)
(* proportion to how many those are.                                       *)
THEOREM SelectionExact == Spec => []SelectionIsExact
<1>1. FaithfulInv /\ SelectionInv => SelectionIsExact
  <2> SUFFICES ASSUME FaithfulInv, SelectionInv, sampler # None, NEW v \in Vertices
      PROVE  LET ranges == sampler.ranges[v]
                 drawn == [r \in 0 .. Lengths(ranges) - 1 |-> InRanges(ranges, r)]
                 numbers == {no \in 0 .. RowTotal(v) - 1 :
                               IsIncluded(sampler.selector, GetTreeletNo(RecordAt(v), no).s)}
             IN  /\ IsInjective(drawn)
                 /\ {drawn[r] : r \in DOMAIN drawn} = numbers
                 /\ AliasWeight(sampler.roots, v) = NumVertices * Lengths(ranges)
    BY Zenon DEF SelectionIsExact
  <2> DEFINE selector == sampler.selector
             n == NumVertices
             all == sampler.ranges
  <2>1. /\ pc = "done" /\ NothingWrapped /\ selector \in Selectors
        /\ all = RangesFor(info, Vertices, selector)
        /\ sampler.roots = RootsOf(n, all)
    BY DEF SelectionInv
  <2>2. /\ job \in Merges /\ DOMAIN info = Vertices /\ InfoGiven
        /\ ReadsAs(disk.dtz, info, n)
    BY <2>1 DEF FaithfulInv, TableInv, MergeInv, RootsInv, InfoInv, ContentInv, Writing
  <2>3. n \in Nat /\ Vertices = 0 .. n - 1
    BY <2>2, JobFacts DEF Vertices
  <2>4. /\ selector.mode \in {"INCLUDE", "EXCLUDE"} /\ selector.structures \subseteq Nat
        /\ IsFiniteSet(selector.structures)
    BY <2>1, SelectorsAssumption DEF SelectorsAssumption
  <2> HIDE DEF n, all, selector
  <2>5. ASSUME NEW u \in Vertices
        PROVE  /\ Covers(all[u], NumbersAt(info[u], Selected(info[u], selector)))
               /\ Lengths(all[u]) \in Nat
    <3> DEFINE row == info[u]
    <3>1. GoodRow(row) /\ SumTo(row, Len(row)) < Modulus
      BY <2>1, <2>2, InfoRows DEF NothingWrapped, RowTotal, RowTotals
    <3>2. all[u] = RangesOf(RecordOf(row), selector)
      BY <2>1 DEF RangesFor
    <3> HIDE DEF row
    <3>3. Covers(all[u], NumbersAt(row, Selected(row, selector)))
      BY <2>4, <3>1, <3>2, RangesCover
    <3>4. Lengths(all[u]) \in Nat
      BY <3>3, SampleCovers
    <3> QED BY <3>3, <3>4 DEF row
  <2> DEFINE row == info[v]
             ranges == all[v]
             drawn == [r \in 0 .. Lengths(ranges) - 1 |-> InRanges(ranges, r)]
             numbers == {no \in 0 .. RowTotal(v) - 1 :
                           IsIncluded(selector, GetTreeletNo(RecordAt(v), no).s)}
             X == NumbersAt(row, Selected(row, selector))
  <2>6. GoodRow(row) /\ SumTo(row, Len(row)) < Modulus /\ RowTotal(v) = SumTo(row, Len(row))
    BY <2>1, <2>2, InfoRows DEF NothingWrapped, RowTotal, RowTotals
  <2>7. RecordAt(v) = RecordOf(row)
    BY <2>2, <2>3 DEF ReadsAs, RecordAt
  <2>8. numbers = X
    <3> HIDE DEF row
    <3>1. {no \in 0 .. SumTo(row, Len(row)) - 1 :
             IsIncluded(selector, GetTreeletNo(RecordOf(row), no).s)} = X
      BY <2>6, NumbersSelected
    <3> QED BY <2>6, <2>7, <3>1
  <2>9. Covers(ranges, X)
    BY <2>5
  <2> HIDE DEF X, ranges
  <2>10. IsInjective(drawn) /\ {drawn[r] : r \in DOMAIN drawn} = X
    BY <2>9, SampleCovers
  <2>11. AliasWeight(sampler.roots, v) = n * Lengths(ranges)
    <3>1. \A u \in 0 .. n - 1 : Lengths(all[u]) \in Nat
      BY <2>3, <2>5
    <3>2. AliasWeight(RootsOf(n, all), v) = n * Lengths(all[v])
      BY <2>3, <3>1, RootsOfExact
    <3> QED BY <2>1, <3>2 DEF ranges
  <2> HIDE DEF drawn, numbers
  <2>12. /\ IsInjective(drawn) /\ {drawn[r] : r \in DOMAIN drawn} = numbers
         /\ AliasWeight(sampler.roots, v) = n * Lengths(ranges)
    BY <2>8, <2>10, <2>11
  <2> QED BY <2>12, Zenon DEF drawn, numbers, ranges, all, n, selector
<1>2. Init => SelectionInv
  BY DEF Init, SelectionInv
<1>3. FaithfulInv /\ SelectionInv /\ [Next]_vars => SelectionInv'
  BY SelectionNext
<1> QED BY <1>1, <1>2, <1>3, FaithfulInvariant, PTL DEF Spec
=============================================================================

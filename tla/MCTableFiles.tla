----------------------------- MODULE MCTableFiles -----------------------------
(* Three vertices, rows of up to four treelets of three structures, spread   *)
(* over one file or two; and files that do not fit together.               *)
EXTENDS TableFiles

T(s, c) == [s |-> s, c |-> c]
Path == 224
Middle == 208
Star == 168
E(t, n) == [t |-> t, n |-> n]
Row0 == <<>>
Row1 == <<E(T(Path, 0 .. 3), 1), E(T(Star, 0 .. 3), 2)>>
Row2 == <<E(T(Path, 0 .. 3), 3), E(T(Middle, 0 .. 3), 1), E(T(Middle, 1 .. 4), 1),
          E(T(Star, 1 .. 4), 2)>>
Row3 == <<E(T(Star, 0 .. 3), 6)>>
Row4 == <<E(T(Path, 0 .. 3), 9), E(T(Path, AllColors), 9), E(T(Middle, 0 .. 3), 9)>>

File(nv, rows) == [nv |-> nv, rows |-> rows, whole |-> TRUE]

Good ==
  {<<File(3, <<<<0, f[0]>>, <<1, f[1]>>, <<2, f[2]>>>>)>> :
     f \in [0 .. 2 -> {Row0, Row2, Row3}]}
  \cup {<<File(3, <<<<2, f[2]>>, <<0, f[0]>>>>), File(3, <<<<1, f[1]>>>>)>> :
     f \in [0 .. 2 -> {Row1, Row4}]}

Bad ==
  {<<File(3, <<<<0, Row1>>, <<1, Row2>>>>)>>,
   <<File(3, <<<<0, Row1>>, <<1, Row2>>>>), File(3, <<<<1, Row2>>, <<2, Row0>>>>)>>,
   <<File(3, <<<<0, Row1>>, <<0, Row1>>, <<2, Row0>>>>)>>,
   <<File(3, <<<<0, Row1>>, <<1, Row2>>, <<2, Row0>>>>), File(2, <<>>)>>,
   <<[File(3, <<<<0, Row1>>, <<1, Row2>>, <<2, Row0>>>>) EXCEPT !.whole = FALSE]>>}

MCMerges == [files : Good, ie : {FALSE}] \cup [files : Bad, ie : {FALSE}]
  \cup {[files |-> <<File(2, <<<<1, Row1>>, <<0, Row2>>>>)>>, ie |-> TRUE]}

MCSelectors == [mode : {"INCLUDE", "EXCLUDE"},
                structures : {{}, {Path, Star}, {Middle}, {Middle, Star}}]

MCLz4(n) == n \div 2 + 1
=============================================================================

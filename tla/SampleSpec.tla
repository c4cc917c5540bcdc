------------------------------ MODULE SampleSpec ------------------------------
(***************************************************************************)
(* What sample() promises to its caller: as many samples as were asked     *)
(* for, unless there is a time budget, in which case there may be fewer,   *)
(* and the table is returned complete: nothing is added to it afterwards.  *)
(***************************************************************************)
EXTENDS Naturals

CONSTANT Asked \* the number of samples asked for, or the most there can be

VARIABLES timed,    \* whether there is a time budget
          drawn,    \* the samples drawn so far
          returned  \* sample() has returned

vars == <<timed, drawn, returned>>

Init == timed \in BOOLEAN /\ drawn = 0 /\ returned = FALSE

Draw ==
  /\ ~returned /\ drawn < Asked
  /\ drawn' = drawn + 1
  /\ UNCHANGED <<timed, returned>>

Return ==
  /\ ~returned /\ (drawn = Asked \/ timed)
  /\ returned' = TRUE
  /\ UNCHANGED <<timed, drawn>>

Next == Draw \/ Return

Safety == Init /\ [][Next]_vars

Spec == Safety /\ WF_vars(Return)
=============================================================================

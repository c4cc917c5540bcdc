----------------------------- MODULE WriterSpec -----------------------------
(***************************************************************************)
(* What the ConcurrentWriter promises: the records are written to the      *)
(* stream in the order in which write() accepted them, none is lost or     *)
(* repeated unless the stream fails, and when close() returns everything   *)
(* accepted has been written.  A stream that fails swallows what follows.  *)
(***************************************************************************)
EXTENDS Sequences, Naturals

CONSTANT Records

VARIABLES accepted,  \* the records in the order in which they were accepted
          output,    \* what the stream has received
          failed,    \* the stream has failed
          closed     \* close() has returned

vars == <<accepted, output, failed, closed>>

Init == accepted = <<>> /\ output = <<>> /\ failed = FALSE /\ closed = FALSE

Accept(r) ==
  /\ ~closed
  /\ accepted' = Append(accepted, r)
  /\ UNCHANGED <<output, failed, closed>>

Emit ==
  /\ ~failed /\ ~closed
  /\ Len(output) < Len(accepted)
  /\ output' = Append(output, accepted[Len(output) + 1])
  /\ UNCHANGED <<accepted, failed, closed>>

Fail ==
  /\ ~failed /\ Len(output) < Len(accepted)
  /\ failed' = TRUE
  /\ UNCHANGED <<accepted, output, closed>>

Close ==
  /\ ~closed /\ (failed \/ output = accepted)
  /\ closed' = TRUE
  /\ UNCHANGED <<accepted, output, failed>>

Next == (\E r \in Records : Accept(r)) \/ Emit \/ Fail \/ Close

Safety == Init /\ [][Next]_vars
Spec == Safety /\ WF_vars(Emit)
=============================================================================

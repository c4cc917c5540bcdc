---------------------- MODULE HyperMultithreadedBuilder ----------------------
(***************************************************************************)
(* The parallel builder of hyper-build, with its writer: every thread      *)
(* takes a vertex with a relaxed fetch_add, combines it alone, serialises  *)
(* the table and hands the record to the ConcurrentWriter, until the       *)
(* vertices are exhausted.  There is no second phase: a vertex belongs to  *)
(* the thread that took it.                                                *)
(*                                                                         *)
(* The table of a thread and the payload it makes of it are its own, so    *)
(* what a thread does between the fetch_add and the write() is part of the *)
(* action that takes the vertex; the record of vertex v is the element v.  *)
(***************************************************************************)
EXTENDS ConcurrentWriter

CONSTANTS FromVertex, ToVertex, MaxVertex

AllVertices == 0 .. ToVertex
Requested == FromVertex .. ToVertex

(* build() asserts that there is a thread. *)
ASSUME HyperAssumption ==
  /\ Producers # {}
  /\ FromVertex \in Nat /\ ToVertex \in Nat /\ MaxVertex \in Nat
  /\ FromVertex <= ToVertex /\ ToVertex <= MaxVertex
  /\ Records = AllVertices

VARIABLE next_vertex

hyperVars == <<vars, next_vertex>>

HyperInit == Init /\ next_vertex = FromVertex

(* fetch_add(1) on an unsigned integer whose largest value is MaxVertex. *)
Successor(n) == IF n = MaxVertex THEN 0 ELSE n + 1

(* Mutants: the last vertex is taken for one past the end, the one past    *)
(* the end for the last.                                                   *)
PastTheEnd(u) == u >= ToVertex
OneMore(u) == u > ToVertex + 1

(* "if (u > to_vertex) break" *)
Exhausted(u) == u > ToVertex

(* Take a vertex and call write() with its record, or leave the loop. *)
Fetch(t) ==
  /\ pc[t] = "pushed"
  /\ next_vertex' = Successor(next_vertex)
  /\ IF Exhausted(next_vertex)
       THEN Goto(t, "done") /\ UNCHANGED <<element, issued>>
       ELSE /\ element' = [element EXCEPT ![t] = next_vertex]
            /\ issued' = issued \cup {next_vertex}
            /\ Goto(t, "push")
  /\ UNCHANGED <<ring, conditions, streamVars, closed, accepted>>

HyperNext ==
  \/ \E t \in Producers : Fetch(t)
  \/ \E t \in Producers : Pushing(t) /\ UNCHANGED next_vertex
  \/ (WriteLoop \/ CloseStep) /\ UNCHANGED next_vertex
  \/ \E t \in Threads : Wakeup(t) /\ UNCHANGED next_vertex
  \/ Terminated /\ UNCHANGED next_vertex

HyperSpec ==
  /\ HyperInit /\ [][HyperNext]_hyperVars
  /\ \A t \in Producers : /\ WF_hyperVars(Fetch(t))
                          /\ WF_hyperVars(Pushing(t) /\ UNCHANGED next_vertex)
  /\ WF_hyperVars(WriteLoop /\ UNCHANGED next_vertex)
  /\ WF_hyperVars(CloseStep /\ UNCHANGED next_vertex)

-----------------------------------------------------------------------------
(* Properties. *)

(* The records of a vertex in the file: one for every place that holds it. *)
Places(v) == {n \in 1 .. Len(output) : output[n] = v}
RecordsOf(v) == [n \in 1 .. Cardinality(Places(v)) |-> v]
File == [v \in AllVertices |-> RecordsOf(v)]

(* The parallel builder is the sequential one with its vertices reordered: *)
(* each requested vertex has one record, and eventually has it.            *)
Sequential == INSTANCE BuildSpec WITH
                output <- File,
                Complete <- [v \in AllVertices |-> v]
ImplementsBuildSpec == Sequential!Spec

(* When the writer of build() is gone and the stream has not failed, the   *)
(* file has one record of every requested vertex and no other: the threads *)
(* left the loop with no vertex untaken and no record on its way.          *)
FileComplete ==
  closed /\ ~failed =>
    \A v \in AllVertices : RecordsOf(v) = IF v \in Requested THEN <<v>> ELSE <<>>

(* The threads use the writer as its own module lets its callers use it:   *)
(* what is checked there holds here.                                       *)
Callers == INSTANCE ConcurrentWriter
UsesWriterAsSpecified == Callers!Spec
=============================================================================

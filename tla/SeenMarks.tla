------------------------------ MODULE SeenMarks ------------------------------
(***************************************************************************)
(* How a sampling thread avoids visiting a hyperedge, or a vertex, twice   *)
(* in one call: a thread-local array holds for each of them the mark of    *)
(* the call that saw it last, and the mark of a call is the next value of  *)
(* a 32-bit counter.  When the counter wraps to 0 the array is cleared.    *)
(*                                                                         *)
(* Three functions do so, each with an array and a counter of its own; the *)
(* function of OccurrenceSampler and that of HyperOccurrenceSampler differ *)
(* in what they do after the array has been cleared.                       *)
(***************************************************************************)
EXTENDS Integers, FiniteSets

CONSTANTS Vertices, Hyperedges,
          Verts,     \* the vertices of every hyperedge
          Samples,   \* the sets of vertices that may be sampled
          Modulus,   \* 2^32
          TakesNew,  \* the functions that take a new mark after the reset
          Calls      \* the functions that are called

Functions == {"build_weak_and_incidence", "common_incident_count", "choose_high"}

ASSUME MarksAssumption ==
  /\ Verts \in [Hyperedges -> SUBSET Vertices]
  /\ Samples \subseteq SUBSET Vertices
  /\ Modulus \in Nat /\ Modulus > 2
  /\ TakesNew \subseteq Functions /\ Calls \subseteq Functions

(* What a function marks. *)
Items(f) == IF f = "choose_high" THEN Vertices ELSE Hyperedges

VARIABLES seen,    \* tls_seen_edge_build, tls_last_seen_edge,
                   \* tls_seen_vertex_high
          epoch,   \* tls_seen_epoch, tls_visit_id, tls_seen_vertex_epoch
          result,  \* what the last call has computed
          wrapped, \* history: its counter wrapped in the last call
          expected \* history: what the last call should have computed

vars == <<seen, epoch, result, wrapped, expected>>

Init ==
  /\ seen = [f \in Calls |-> [x \in Items(f) |-> 0]]
  /\ epoch = [f \in Calls |-> 1]
  /\ result = {} /\ wrapped = FALSE /\ expected = {}

Incident(v) == {e \in Hyperedges : v \in Verts[e]}
IncidentTo(U) == UNION {Incident(v) : v \in U}

-----------------------------------------------------------------------------
Wraps(f) == (epoch[f] + 1) % Modulus = 0

(* Mutant: the array is not cleared. *)
NotCleared(f) == seen[f]

(* The array as the call finds it: cleared if the counter has wrapped. *)
Cleared(f) == IF Wraps(f) THEN [x \in Items(f) |-> 0] ELSE seen[f]

(* The counter after the call. *)
NewEpoch(f) ==
  IF ~Wraps(f) THEN epoch[f] + 1 ELSE IF f \in TakesNew THEN 2 ELSE 1

(* The mark of the call: the value of ++epoch, taken before the reset; one *)
(* of the functions takes another one after it.                            *)
Mark(f) == IF Wraps(f) /\ f \in TakesNew THEN 2 ELSE (epoch[f] + 1) % Modulus

(* The call marks the items it visits. *)
Visit(f, items) ==
  /\ f \in Calls
  /\ seen' = [seen EXCEPT ![f] =
                [x \in Items(f) |-> IF x \in items THEN Mark(f) ELSE Cleared(f)[x]]]
  /\ epoch' = [epoch EXCEPT ![f] = NewEpoch(f)]
  /\ wrapped' = Wraps(f)

NotSeen(f, items) == {x \in items : Cleared(f)[x] # Mark(f)}

(* The restrictions to U of the hyperedges visited, those of two vertices  *)
(* or more.                                                                *)
Restrictions(edges, U) ==
  {S \in {Verts[e] \cap U : e \in edges} : Cardinality(S) >= 2}

(* The hypergraph that the sample U induces: the hyperedges incident to U  *)
(* that have not been processed.                                           *)
BuildWeakAndIncidence(U) ==
  LET f == "build_weak_and_incidence" IN
  /\ Visit(f, IncidentTo(U))
  /\ result' = Restrictions(NotSeen(f, IncidentTo(U)), U)
  /\ expected' = Restrictions(Hyperedges, U)

(* Mark the hyperedges incident to v, then count those of u with the mark. *)
CommonIncidentCount(v, u) ==
  LET f == "common_incident_count" IN
  /\ Visit(f, Incident(v))
  /\ result' = {e \in Incident(u) : seen'[f][e] = Mark(f)}
  /\ expected' = Incident(v) \cap Incident(u)

(* The candidates among the HIGH neighbours of u: those that root some     *)
(* occurrence of the child.                                                *)
ChooseHigh(u, roots) ==
  LET f == "choose_high"
      neighbours == (UNION {Verts[e] : e \in Incident(u)}) \ {u} IN
  /\ Incident(u) # {}
  /\ Visit(f, neighbours)
  /\ result' = NotSeen(f, neighbours) \cap roots
  /\ expected' = {x \in roots \ {u} : \E e \in Hyperedges : {x, u} \subseteq Verts[e]}

Next ==
  \/ \E U \in Samples : BuildWeakAndIncidence(U)
  \/ \E u \in Vertices : \E v \in Vertices \ {u} : CommonIncidentCount(v, u)
  \/ \E u \in Vertices, roots \in SUBSET Vertices : ChooseHigh(u, roots)

(* Every thread has its own arrays, and so is a behaviour of its own. *)
Spec == Init /\ [][Next]_vars

-----------------------------------------------------------------------------
(* The counter stays within its width and is never behind a mark. *)
TypeOK ==
  /\ epoch \in [Calls -> 1 .. Modulus - 1]
  /\ DOMAIN seen = Calls
  /\ \A f \in Calls : seen[f] \in [Items(f) -> 0 .. epoch[f]]
  /\ wrapped \in BOOLEAN

(* No call mistakes the mark of an earlier call for its own, even after    *)
(* the counter has gone round: its result depends on its arguments only.   *)
(* The code comments the reset with "wrap-around safety".                  *)
EveryCallExact == result = expected

(* The marks left by a call never disturb a later one, those left by the   *)
(* call that cleared the array included.                                   *)
ExactUnlessWrapped == ~wrapped => result = expected
=============================================================================

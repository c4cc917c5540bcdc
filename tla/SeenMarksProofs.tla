-------------------------- MODULE SeenMarksProofs --------------------------
(***************************************************************************)
(* That the marks of one call never disturb another one, for every         *)
(* hypergraph, every sequence of calls and every width of the counter.     *)
(***************************************************************************)
EXTENDS SeenMarks, FiniteSetTheorems, TLAPS

(* A call finds nothing marked with its own mark, unless the counter has   *)
(* wrapped and the mark was copied before the reset.                       *)
LEMMA NothingMarked ==
  ASSUME TypeOK, NEW f \in Calls, ~Wraps(f) \/ f \in TakesNew
  PROVE  \A x \in Items(f) : Cleared(f)[x] # Mark(f)
<1>1. CASE Wraps(f)
  BY <1>1 DEF Cleared, Mark
<1>2. CASE ~Wraps(f)
  <2>1. epoch[f] \in 1 .. Modulus - 1 /\ epoch[f] + 1 # Modulus
    <3>1. epoch[f] \in 1 .. Modulus - 1
      BY DEF TypeOK
    <3>2. Modulus \in Nat /\ Modulus % Modulus = 0
      BY MarksAssumption DEF MarksAssumption
    <3> QED BY <1>2, <3>1, <3>2 DEF Wraps
  <2>2. Mark(f) = epoch[f] + 1
    BY <1>2, <2>1, MarksAssumption DEF Mark, MarksAssumption
  <2>3. \A x \in Items(f) : seen[f][x] \in 0 .. epoch[f]
    BY DEF TypeOK
  <2>4. Cleared(f) = seen[f]
    BY <1>2 DEF Cleared
  <2> QED BY <2>1, <2>2, <2>3, <2>4
<1> QED BY <1>1, <1>2

(* A call keeps the type invariant. *)
LEMMA VisitTypeOK ==
  ASSUME TypeOK, NEW f, NEW items, Visit(f, items)
  PROVE  TypeOK'
<1>1. f \in Calls
  BY DEF Visit
<1>2. epoch[f] \in 1 .. Modulus - 1 /\ Modulus \in Nat /\ Modulus > 2
  BY <1>1, MarksAssumption DEF TypeOK, MarksAssumption
<1>3. /\ NewEpoch(f) \in 1 .. Modulus - 1
      /\ Mark(f) \in 0 .. NewEpoch(f)
      /\ \A x \in Items(f) : Cleared(f)[x] \in 0 .. NewEpoch(f)
  <2>1. CASE Wraps(f)
    BY <1>2, <2>1 DEF NewEpoch, Mark, Cleared, Wraps
  <2>2. CASE ~Wraps(f)
    <3>1. epoch[f] + 1 # Modulus
      BY <1>2, <2>2 DEF Wraps
    <3>2. (epoch[f] + 1) % Modulus = epoch[f] + 1
      BY <1>2, <3>1
    <3>3. \A x \in Items(f) : seen[f][x] \in 0 .. epoch[f]
      BY <1>1 DEF TypeOK
    <3> QED BY <1>2, <2>2, <3>1, <3>2, <3>3 DEF NewEpoch, Mark, Cleared
  <2> QED BY <2>1, <2>2
<1>4. epoch' \in [Calls -> 1 .. Modulus - 1] /\ epoch'[f] = NewEpoch(f)
  BY <1>1, <1>3 DEF Visit, TypeOK
<1>5. DOMAIN seen' = Calls
  BY DEF Visit, TypeOK
<1>6. ASSUME NEW g \in Calls PROVE seen'[g] \in [Items(g) -> 0 .. epoch'[g]]
  <2>1. CASE g = f
    BY <1>1, <1>3, <1>4, <2>1 DEF Visit, TypeOK
  <2>2. CASE g # f
    BY <1>6, <2>2 DEF Visit, TypeOK
  <2> QED BY <2>1, <2>2
<1>7. wrapped' \in BOOLEAN
  BY DEF Visit, Wraps
<1> QED BY <1>4, <1>5, <1>6, <1>7 DEF TypeOK

LEMMA InitTypeOK == Init => TypeOK
<1> SUFFICES ASSUME Init PROVE TypeOK
  OBVIOUS
<1>1. epoch \in [Calls -> 1 .. Modulus - 1]
  BY MarksAssumption DEF Init, MarksAssumption
<1>2. \A f \in Calls : seen[f] \in [Items(f) -> 0 .. epoch[f]]
  BY DEF Init
<1> QED BY <1>1, <1>2 DEF Init, TypeOK

(* Every step is a call of some function. *)
LEMMA NextTypeOK == TypeOK /\ [Next]_vars => TypeOK'
<1> SUFFICES ASSUME TypeOK, [Next]_vars PROVE TypeOK'
  OBVIOUS
<1>1. ASSUME NEW U \in Samples, BuildWeakAndIncidence(U) PROVE TypeOK'
  BY <1>1, VisitTypeOK DEF BuildWeakAndIncidence
<1>2. ASSUME NEW u, NEW v, CommonIncidentCount(v, u) PROVE TypeOK'
  BY <1>2, VisitTypeOK DEF CommonIncidentCount
<1>3. ASSUME NEW u, NEW roots, ChooseHigh(u, roots) PROVE TypeOK'
  BY <1>3, VisitTypeOK DEF ChooseHigh
<1>4. CASE UNCHANGED vars
  BY <1>4 DEF vars, TypeOK
<1> QED BY <1>1, <1>2, <1>3, <1>4 DEF Next

(* The hyperedges that are not incident to U have no vertex in it, so that *)
(* those that are give all the restrictions of two vertices or more.       *)
LEMMA IncidentSuffice ==
  ASSUME NEW U
  PROVE  Restrictions(IncidentTo(U), U) = Restrictions(Hyperedges, U)
<1>1. ASSUME NEW e \in Hyperedges, e \notin IncidentTo(U) PROVE Verts[e] \cap U = {}
  BY <1>1 DEF IncidentTo, Incident
<1>2. IncidentTo(U) \subseteq Hyperedges
  BY DEF IncidentTo, Incident
<1>3. Cardinality({}) = 0
  BY FS_EmptySet
<1>4. ASSUME NEW e \in Hyperedges, Cardinality(Verts[e] \cap U) >= 2
      PROVE  e \in IncidentTo(U)
  <2>1. Verts[e] \cap U # {}
    BY <1>3, <1>4
  <2> QED BY <1>1, <2>1
<1> QED BY <1>2, <1>4 DEF Restrictions

LEMMA BuildExact ==
  ASSUME TypeOK, NEW U, BuildWeakAndIncidence(U),
         ~Wraps("build_weak_and_incidence") \/ "build_weak_and_incidence" \in TakesNew
  PROVE  result' = expected'
<1> DEFINE f == "build_weak_and_incidence"
<1>1. f \in Calls
  BY DEF BuildWeakAndIncidence, Visit
<1>2. \A x \in Items(f) : Cleared(f)[x] # Mark(f)
  BY <1>1, NothingMarked
<1>3. IncidentTo(U) \subseteq Items(f)
  BY DEF IncidentTo, Incident, Items
<1>4. NotSeen(f, IncidentTo(U)) = IncidentTo(U)
  BY <1>2, <1>3 DEF NotSeen
<1> QED BY <1>4, IncidentSuffice DEF BuildWeakAndIncidence

LEMMA CommonExact ==
  ASSUME TypeOK, NEW v, NEW u, CommonIncidentCount(v, u),
         ~Wraps("common_incident_count") \/ "common_incident_count" \in TakesNew
  PROVE  result' = expected'
<1> DEFINE f == "common_incident_count"
<1>1. f \in Calls
  BY DEF CommonIncidentCount, Visit
<1>2. \A x \in Items(f) : Cleared(f)[x] # Mark(f)
  BY <1>1, NothingMarked
<1>3. Items(f) = Hyperedges
  BY DEF Items
<1>4. seen'[f] = [x \in Hyperedges |-> IF x \in Incident(v) THEN Mark(f) ELSE Cleared(f)[x]]
  BY <1>1, <1>3 DEF CommonIncidentCount, Visit, TypeOK
<1>5. \A e \in Hyperedges : seen'[f][e] = Mark(f) <=> e \in Incident(v)
  BY <1>2, <1>3, <1>4
<1>6. /\ result' = {e \in Incident(u) : seen'[f][e] = Mark(f)}
      /\ expected' = Incident(v) \cap Incident(u)
  BY DEF CommonIncidentCount
<1>7. Incident(u) \subseteq Hyperedges
  BY DEF Incident
<1> QED BY <1>5, <1>6, <1>7

LEMMA ChooseExact ==
  ASSUME TypeOK, NEW u \in Vertices, NEW roots \in SUBSET Vertices, ChooseHigh(u, roots),
         ~Wraps("choose_high") \/ "choose_high" \in TakesNew
  PROVE  result' = expected'
<1> DEFINE f == "choose_high"
           neighbours == (UNION {Verts[e] : e \in Incident(u)}) \ {u}
<1>1. f \in Calls
  BY DEF ChooseHigh, Visit
<1>2. \A x \in Items(f) : Cleared(f)[x] # Mark(f)
  BY <1>1, NothingMarked
<1>3. neighbours \subseteq Items(f)
  BY MarksAssumption DEF Incident, Items, MarksAssumption
<1>4. NotSeen(f, neighbours) = neighbours
  BY <1>2, <1>3 DEF NotSeen
<1>5. result' = neighbours \cap roots
  BY <1>4 DEF ChooseHigh
<1>6. expected' = {x \in roots \ {u} : \E e \in Hyperedges : {x, u} \subseteq Verts[e]}
  BY DEF ChooseHigh
<1>7. ASSUME NEW x PROVE x \in neighbours <=> x # u /\ \E e \in Hyperedges : {x, u} \subseteq Verts[e]
  BY DEF Incident
<1> QED BY <1>5, <1>6, <1>7

(* A call is exact if its counter does not wrap, or takes a new mark.      *)
LEMMA CallExact ==
  ASSUME TypeOK, Next, ~wrapped' \/ TakesNew = Functions
  PROVE  result' = expected'
<1>1. ASSUME NEW U \in Samples, BuildWeakAndIncidence(U) PROVE result' = expected'
  BY <1>1, BuildExact DEF BuildWeakAndIncidence, Visit, Functions
<1>2. ASSUME NEW u \in Vertices, NEW v, CommonIncidentCount(v, u) PROVE result' = expected'
  BY <1>2, CommonExact DEF CommonIncidentCount, Visit, Functions
<1>3. ASSUME NEW u \in Vertices, NEW roots \in SUBSET Vertices, ChooseHigh(u, roots)
      PROVE  result' = expected'
  BY <1>3, ChooseExact DEF ChooseHigh, Visit, Functions
<1> QED BY <1>1, <1>2, <1>3 DEF Next

-----------------------------------------------------------------------------
(* The counter stays within its width and no mark is ahead of it.          *)
THEOREM MarksBehind == Spec => []TypeOK
  BY InitTypeOK, NextTypeOK, PTL DEF Spec

(* Whatever the functions do after a reset, only the call in which the     *)
(* counter wraps can go wrong: the marks it leaves do no harm later on.    *)
THEOREM OnlyTheWrap == Spec => []ExactUnlessWrapped
<1>1. Init => ExactUnlessWrapped
  BY DEF Init, ExactUnlessWrapped
<1>2. TypeOK /\ ExactUnlessWrapped /\ [Next]_vars => ExactUnlessWrapped'
  <2> SUFFICES ASSUME TypeOK, ExactUnlessWrapped, [Next]_vars PROVE ExactUnlessWrapped'
    OBVIOUS
  <2>1. CASE Next
    BY <2>1, CallExact DEF ExactUnlessWrapped
  <2>2. CASE UNCHANGED vars
    BY <2>2 DEF ExactUnlessWrapped, vars
  <2> QED BY <2>1, <2>2
<1> QED BY <1>1, <1>2, MarksBehind, PTL DEF Spec

(* With a new mark after every reset, which is what OccurrenceSampler      *)
(* does, every call is exact.                                              *)
THEOREM NewMarkSuffices ==
  ASSUME TakesNew = Functions
  PROVE  Spec => []EveryCallExact
<1>1. Init => EveryCallExact
  BY DEF Init, EveryCallExact
<1>2. TypeOK /\ EveryCallExact /\ [Next]_vars => EveryCallExact'
  <2> SUFFICES ASSUME TypeOK, EveryCallExact, [Next]_vars PROVE EveryCallExact'
    OBVIOUS
  <2>1. CASE Next
    BY <2>1, CallExact DEF EveryCallExact
  <2>2. CASE UNCHANGED vars
    BY <2>2 DEF EveryCallExact, vars
  <2> QED BY <2>1, <2>2
<1> QED BY <1>1, <1>2, MarksBehind, PTL DEF Spec
=============================================================================

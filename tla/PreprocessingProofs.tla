------------------------- MODULE PreprocessingProofs -------------------------
(***************************************************************************)
(* That motivo-dedup and motivo-hgsplit keep what two vertices have to do  *)
(* with each other, for every text, every threshold and every number of    *)
(* damaged .pairs files, and that motivo-gaifman and motivo-graph write    *)
(* the graph that was asked for, from any of these hypergraphs, for every  *)
(* choice of options and every largest number of a .gof file.              *)
(***************************************************************************)
EXTENDS Preprocessing, SequenceTheorems, SumTheorems

(* How many members of S are below v. *)
RankIn(S, v) == Cardinality({w \in S : w < v})

LEMMA RankBound ==
  ASSUME NEW S, S \subseteq Int, IsFiniteSet(S)
  PROVE  /\ Cardinality(S) \in Nat
         /\ \A v \in S : RankIn(S, v) \in 0 .. Cardinality(S) - 1
         /\ \A v, w \in S : v < w => RankIn(S, v) < RankIn(S, w)
<1>1. Cardinality(S) \in Nat
  BY FS_CardinalityType
<1>2. ASSUME NEW v \in S PROVE RankIn(S, v) \in 0 .. Cardinality(S) - 1
  <2> DEFINE B == {w \in S : w < v}
  <2>1. B \subseteq S \ {v}
    OBVIOUS
  <2>2. IsFiniteSet(S \ {v}) /\ Cardinality(S \ {v}) = Cardinality(S) - 1
    BY FS_RemoveElement
  <2>3. IsFiniteSet(B) /\ Cardinality(B) <= Cardinality(S \ {v})
    BY <2>1, <2>2, FS_Subset
  <2>4. Cardinality(B) \in Nat
    BY <2>3, FS_CardinalityType
  <2> QED BY <1>1, <2>2, <2>3, <2>4 DEF RankIn
<1>3. ASSUME NEW v \in S, NEW w \in S, v < w PROVE RankIn(S, v) < RankIn(S, w)
  <2> DEFINE B == {x \in S : x < v}
             C == {x \in S : x < w}
  <2> HIDE DEF B, C
  <2>0. v \in Int /\ w \in Int /\ \A x \in S : x \in Int
    OBVIOUS
  <2>6. v \notin B /\ C \subseteq S /\ B \subseteq S
    BY <2>0 DEF B, C
  <2>7. v \in C
    BY <1>3 DEF C
  <2>8. \A x \in B : x \in C
    BY <1>3, <2>0 DEF B, C
  <2>1. B \cup {v} \subseteq C /\ v \notin B /\ C \subseteq S /\ B \subseteq S
    BY <2>6, <2>7, <2>8
  <2>2. IsFiniteSet(B) /\ IsFiniteSet(C)
    BY <2>1, FS_Subset
  <2>3. IsFiniteSet(B \cup {v}) /\ Cardinality(B \cup {v}) = Cardinality(B) + 1
    BY <2>1, <2>2, FS_AddElement
  <2>4. Cardinality(B \cup {v}) <= Cardinality(C)
    BY <2>1, <2>2, FS_Subset
  <2>5. Cardinality(B) \in Nat /\ Cardinality(C) \in Nat
    BY <2>2, FS_CardinalityType
  <2> QED BY <2>3, <2>4, <2>5 DEF RankIn, B, C
<1> QED BY <1>1, <1>2, <1>3

(* Sorted(S) lists S, the smallest first. *)
LEMMA SortedFacts ==
  ASSUME NEW S, S \subseteq Int, IsFiniteSet(S)
  PROVE  /\ Cardinality(S) \in Nat /\ Sorted(S) \in [1 .. Cardinality(S) -> S]
         /\ \A i, j \in 1 .. Cardinality(S) : i < j => Sorted(S)[i] < Sorted(S)[j]
         /\ \A v \in S : \E k \in 1 .. Cardinality(S) : Sorted(S)[k] = v
<1> DEFINE n == Cardinality(S)
           r == [v \in S |-> RankIn(S, v) + 1]
<1>1. /\ n \in Nat
      /\ \A v \in S : RankIn(S, v) \in 0 .. n - 1
      /\ \A v, w \in S : v < w => RankIn(S, v) < RankIn(S, w)
  BY RankBound
<1> HIDE DEF n
<1>2. r \in [S -> 1 .. n]
  BY <1>1
<1>3. ASSUME NEW v \in S, NEW w \in S, v # w PROVE r[v] # r[w]
  <2>1. v < w \/ w < v
    BY <1>3
  <2> QED BY <1>1, <2>1
<1>4. r \in Injection(S, 1 .. n)
  BY <1>2, <1>3 DEF Injection, IsInjective
<1>5. IsFiniteSet(1 .. n) /\ Cardinality(1 .. n) = n
  BY <1>1, FS_Interval
<1>6. r \in Surjection(S, 1 .. n)
  BY <1>4, <1>5, FS_Injection DEF n
<1>7. \A k \in 1 .. n : \E v \in S : RankIn(S, v) = k - 1
  <2>1. \A k \in 1 .. n : \E v \in S : r[v] = k
    BY <1>6 DEF Surjection
  <2> QED BY <1>1, <2>1
<1>8. \A k \in 1 .. n : Sorted(S)[k] = CHOOSE v \in S : RankIn(S, v) = k - 1
  BY DEF Sorted, RankIn, n
<1>9. \A k \in 1 .. n : Sorted(S)[k] \in S /\ RankIn(S, Sorted(S)[k]) = k - 1
  BY <1>7, <1>8
<1>10. Sorted(S) \in [1 .. n -> S]
  BY <1>9 DEF Sorted, n
<1>11. ASSUME NEW i \in 1 .. n, NEW j \in 1 .. n, i < j PROVE Sorted(S)[i] < Sorted(S)[j]
  <2> DEFINE a == Sorted(S)[i]
             b == Sorted(S)[j]
  <2>1. a \in S /\ b \in S /\ RankIn(S, a) = i - 1 /\ RankIn(S, b) = j - 1
    BY <1>9
  <2> HIDE DEF a, b
  <2>2. RankIn(S, a) < RankIn(S, b)
    BY <1>11, <2>1
  <2>3. a # b /\ ~(b < a)
    BY <1>1, <2>1, <2>2
  <2>4. a < b
    BY <2>1, <2>3
  <2> QED BY <2>4 DEF a, b
<1>12. ASSUME NEW v \in S PROVE \E k \in 1 .. n : Sorted(S)[k] = v
  <2> DEFINE k == RankIn(S, v) + 1
             a == Sorted(S)[k]
  <2>1. k \in 1 .. n
    BY <1>1
  <2>2. a \in S /\ RankIn(S, a) = RankIn(S, v)
    BY <1>1, <1>9, <2>1
  <2> HIDE DEF a, k
  <2>3. ~(a < v) /\ ~(v < a)
    BY <1>1, <2>2
  <2>4. a = v
    BY <2>2, <2>3
  <2> QED BY <2>1, <2>4 DEF a
<1> QED BY <1>1, <1>10, <1>11, <1>12 DEF n

LEMMA MaxFacts ==
  ASSUME NEW S, S \subseteq Int, IsFiniteSet(S), S # {}
  PROVE  Max(S) \in S /\ \A v \in S : v <= Max(S)
<1> DEFINE n == Cardinality(S)
           m == Sorted(S)[n]
<1>1. n \in Nat /\ n # 0
  BY FS_CardinalityType, FS_EmptySet
<1>2. n \in 1 .. n
  BY <1>1
<1>3. m \in S
  BY <1>2, SortedFacts
<1>4. ASSUME NEW v \in S PROVE v <= m
  <2>1. PICK k \in 1 .. n : Sorted(S)[k] = v
    BY SortedFacts
  <2>2. k = n \/ k < n
    BY <1>1
  <2>3. v = m \/ v < m
    BY <1>2, <2>1, <2>2, SortedFacts
  <2>4. v \in Int /\ m \in Int
    BY <1>3
  <2> HIDE DEF m
  <2> QED BY <2>3, <2>4
<1> QED BY <1>3, <1>4 DEF Max

LEMMA MinFacts ==
  ASSUME NEW S, S \subseteq Nat, S # {}
  PROVE  Min(S) \in S /\ \A v \in S : Min(S) <= v
BY LeastNatural DEF Min

LEMMA AtPositionsFacts ==
  ASSUME NEW T, NEW s \in Seq(T), NEW P, P \subseteq DOMAIN s
  PROVE  /\ IsFiniteSet(P) /\ Cardinality(P) \in Nat
         /\ AtPositions(s, P) \in Seq(T)
         /\ Len(AtPositions(s, P)) = Cardinality(P)
         /\ ToSet(AtPositions(s, P)) = {s[p] : p \in P}
<1> DEFINE n == Cardinality(P)
           t == AtPositions(s, P)
<1>1. Len(s) \in Nat /\ DOMAIN s = 1 .. Len(s)
  OBVIOUS
<1>2. IsFiniteSet(P) /\ P \subseteq Int
  <2>1. IsFiniteSet(1 .. Len(s))
    BY <1>1, FS_Interval
  <2> QED BY <1>1, <2>1, FS_Subset
<1>3. n \in Nat /\ Sorted(P) \in [1 .. n -> P] /\ \A p \in P : \E k \in 1 .. n : Sorted(P)[k] = p
  BY <1>2, SortedFacts
<1> HIDE DEF n
<1>4. t = [k \in 1 .. n |-> s[Sorted(P)[k]]]
  BY DEF AtPositions, n
<1>5. \A k \in 1 .. n : s[Sorted(P)[k]] \in T
  BY <1>3
<1>6. t \in Seq(T) /\ Len(t) = n
  BY <1>3, <1>4, <1>5
<1>7. ToSet(t) = {s[p] : p \in P}
  <2>1. ToSet(t) = {t[k] : k \in 1 .. n}
    BY <1>4 DEF ToSet
  <2> QED BY <1>3, <1>4, <2>1
<1> QED BY <1>2, <1>3, <1>6, <1>7 DEF n

-----------------------------------------------------------------------------
(* motivo-dedup. *)
GoodHypergraph(H) == H.n \in Nat /\ H.he \in Seq(SUBSET Vertices(H))

FirstOf(H, v) == Min({u \in Vertices(H) : Signature(H, u) = Signature(H, v)})
SignaturesBelow(H, k) == {Signature(H, u) : u \in 0 .. k - 1}

LEMMA ImageFinite ==
  ASSUME NEW D, IsFiniteSet(D), NEW f, DOMAIN f = D
  PROVE  IsFiniteSet({f[x] : x \in D}) /\ Cardinality({f[x] : x \in D}) <= Cardinality(D)
<1> DEFINE T == {f[x] : x \in D}
           g == [x \in D |-> f[x]]
<1>1. g \in Surjection(D, T)
  BY DEF Surjection
<1> QED BY <1>1, FS_Surjection

LEMMA BelowFacts ==
  ASSUME NEW H, NEW k \in Nat
  PROVE  /\ IsFiniteSet(SignaturesBelow(H, k))
         /\ Cardinality(SignaturesBelow(H, k)) \in 0 .. k
<1> DEFINE D == 0 .. k - 1
           f == [u \in D |-> Signature(H, u)]
<1>1. IsFiniteSet(D) /\ Cardinality(D) = k
  <2>1. 0 \in Int /\ k - 1 \in Int
    OBVIOUS
  <2>2. IsFiniteSet(D) /\ Cardinality(D) = IF 0 > k - 1 THEN 0 ELSE k - 1 - 0 + 1
    BY <2>1, FS_Interval
  <2> QED BY <2>2
<1>2. SignaturesBelow(H, k) = {f[x] : x \in D}
  BY DEF SignaturesBelow
<1>3. DOMAIN f = D
  OBVIOUS
<1> HIDE DEF f, D
<1>4. IsFiniteSet(SignaturesBelow(H, k)) /\ Cardinality(SignaturesBelow(H, k)) <= k
  BY <1>1, <1>2, <1>3, ImageFinite
<1>5. Cardinality(SignaturesBelow(H, k)) \in Nat
  BY <1>4, FS_CardinalityType
<1> QED BY <1>4, <1>5

LEMMA FirstFacts ==
  ASSUME NEW H, H.n \in Nat, NEW v \in Vertices(H)
  PROVE  /\ FirstOf(H, v) \in Vertices(H) /\ FirstOf(H, v) \in Nat /\ FirstOf(H, v) <= v
         /\ Signature(H, FirstOf(H, v)) = Signature(H, v)
         /\ \A u \in Vertices(H) : Signature(H, u) = Signature(H, v) => FirstOf(H, v) <= u
         /\ ClassOf(H, v) = Cardinality(SignaturesBelow(H, FirstOf(H, v)))
<1> DEFINE S == {u \in Vertices(H) : Signature(H, u) = Signature(H, v)}
<1>1. S \subseteq Nat /\ v \in S
  BY DEF Vertices
<1>2. Min(S) \in S /\ \A u \in S : Min(S) <= u
  BY <1>1, MinFacts
<1>3. FirstOf(H, v) = Min(S)
  BY DEF FirstOf
<1>4. ClassOf(H, v) = Cardinality(SignaturesBelow(H, FirstOf(H, v)))
  BY DEF ClassOf, FirstOf, SignaturesBelow
<1> QED BY <1>1, <1>2, <1>3, <1>4

LEMMA ClassLess ==
  ASSUME NEW H, H.n \in Nat, NEW u \in Vertices(H), NEW v \in Vertices(H),
         FirstOf(H, u) < FirstOf(H, v)
  PROVE  ClassOf(H, u) < ClassOf(H, v)
<1> DEFINE a == FirstOf(H, u)
           b == FirstOf(H, v)
           s == Signature(H, u)
<1>1. /\ a \in Nat /\ b \in Nat /\ a < b /\ a \in Vertices(H)
      /\ Signature(H, a) = s
      /\ \A x \in Vertices(H) : Signature(H, x) = s => a <= x
      /\ ClassOf(H, u) = Cardinality(SignaturesBelow(H, a))
      /\ ClassOf(H, v) = Cardinality(SignaturesBelow(H, b))
  BY FirstFacts
<1> HIDE DEF a, b, s
<1>2. s \in SignaturesBelow(H, b)
  BY <1>1 DEF SignaturesBelow
<1>3. s \notin SignaturesBelow(H, a)
  <2>1. \A x \in 0 .. a - 1 : x \in Vertices(H) /\ ~(a <= x)
    BY <1>1 DEF Vertices
  <2>2. \A x \in 0 .. a - 1 : Signature(H, x) # s
    BY <1>1, <2>1
  <2> QED BY <2>2 DEF SignaturesBelow
<1>4. SignaturesBelow(H, a) \subseteq SignaturesBelow(H, b)
  BY <1>1 DEF SignaturesBelow
<1>5. IsFiniteSet(SignaturesBelow(H, a)) /\ IsFiniteSet(SignaturesBelow(H, b))
  BY <1>1, BelowFacts
<1>6. Cardinality(SignaturesBelow(H, a)) \in Nat /\ Cardinality(SignaturesBelow(H, b)) \in Nat
  BY <1>5, FS_CardinalityType
<1>7. /\ Cardinality(SignaturesBelow(H, a)) <= Cardinality(SignaturesBelow(H, b))
      /\ Cardinality(SignaturesBelow(H, a)) # Cardinality(SignaturesBelow(H, b))
  BY <1>2, <1>3, <1>4, <1>5, FS_Subset
<1> QED BY <1>1, <1>6, <1>7

(* Two vertices have the same class iff they have the same hyperedges.     *)
LEMMA ClassFacts ==
  ASSUME NEW H, H.n \in Nat
  PROVE  /\ \A v \in Vertices(H) : ClassOf(H, v) \in 0 .. H.n
         /\ \A u, v \in Vertices(H) :
              ClassOf(H, u) = ClassOf(H, v) <=> Incident(H, u) = Incident(H, v)
<1>1. ASSUME NEW v \in Vertices(H) PROVE ClassOf(H, v) \in 0 .. H.n
  <2>1. FirstOf(H, v) \in Nat /\ FirstOf(H, v) <= H.n
    BY FirstFacts DEF Vertices
  <2>2. ClassOf(H, v) \in 0 .. FirstOf(H, v)
    BY <2>1, FirstFacts, BelowFacts
  <2> QED BY <2>1, <2>2
<1>2. ASSUME NEW u \in Vertices(H), NEW v \in Vertices(H), Signature(H, u) = Signature(H, v)
      PROVE  ClassOf(H, u) = ClassOf(H, v)
  BY <1>2 DEF ClassOf
<1>3. ASSUME NEW u \in Vertices(H), NEW v \in Vertices(H), Signature(H, u) # Signature(H, v)
      PROVE  ClassOf(H, u) # ClassOf(H, v)
  <2>1. FirstOf(H, u) \in Nat /\ FirstOf(H, v) \in Nat /\ FirstOf(H, u) # FirstOf(H, v)
    BY <1>3, FirstFacts
  <2>2. ClassOf(H, u) < ClassOf(H, v) \/ ClassOf(H, v) < ClassOf(H, u)
    BY <2>1, ClassLess
  <2>3. ClassOf(H, u) \in Nat /\ ClassOf(H, v) \in Nat
    BY <1>1
  <2> QED BY <2>2, <2>3
<1> QED BY <1>1, <1>2, <1>3 DEF Signature

LEMMA LargestFacts ==
  ASSUME NEW he, UNION ToSet(he) \subseteq Nat, IsFiniteSet(UNION ToSet(he))
  PROVE  LargestVertex(he) \in Nat /\ \A v \in UNION ToSet(he) : v <= LargestVertex(he)
<1> DEFINE U == UNION ToSet(he)
           S == U \cup {0}
<1>1. U \subseteq Nat /\ IsFiniteSet(U)
  OBVIOUS
<1>5. LargestVertex(he) = Max(S)
  BY Zenon DEF LargestVertex
<1> HIDE DEF U
<1>2. S \subseteq Int /\ S \subseteq Nat /\ S # {}
  BY <1>1
<1>3. IsFiniteSet(S)
  BY <1>1, FS_AddElement
<1> HIDE DEF S
<1>4. Max(S) \in S /\ \A v \in S : v <= Max(S)
  BY <1>2, <1>3, MaxFacts
<1> QED BY <1>1, <1>2, <1>4, <1>5 DEF U, S

LEMMA DedupFacts ==
  ASSUME NEW H, GoodHypergraph(H)
  PROVE  /\ GoodHypergraph(Dedup(H))
         /\ DOMAIN Dedup(H).he = DOMAIN H.he
         /\ \A e \in DOMAIN H.he : Dedup(H).he[e] = {ClassOf(H, v) : v \in H.he[e]}
<1> DEFINE he == [e \in DOMAIN H.he |-> {ClassOf(H, v) : v \in H.he[e]}]
<1>1. Dedup(H) = [n |-> LargestVertex(he) + 1, he |-> he]
  BY DEF Dedup
<1>2. H.n \in Nat /\ H.he \in Seq(SUBSET Vertices(H))
  BY DEF GoodHypergraph
<1>3. /\ Len(H.he) \in Nat /\ DOMAIN H.he = 1 .. Len(H.he)
      /\ \A e \in DOMAIN H.he : H.he[e] \subseteq Vertices(H)
  BY <1>2
<1>4. \A e \in DOMAIN H.he : he[e] \subseteq 0 .. H.n
  BY <1>2, <1>3, ClassFacts
<1> HIDE DEF he
<1>5. DOMAIN he = DOMAIN H.he
  BY DEF he
<1>6. UNION ToSet(he) \subseteq 0 .. H.n
  BY <1>4, <1>5 DEF ToSet
<1>7. UNION ToSet(he) \subseteq Nat /\ IsFiniteSet(UNION ToSet(he))
  <2>1. IsFiniteSet(0 .. H.n)
    BY <1>2, FS_Interval
  <2> QED BY <1>2, <1>6, <2>1, FS_Subset
<1>8. LargestVertex(he) \in Nat /\ \A v \in UNION ToSet(he) : v <= LargestVertex(he)
  BY <1>7, LargestFacts
<1>9. \A e \in DOMAIN he : he[e] \subseteq 0 .. LargestVertex(he)
  BY <1>7, <1>8 DEF ToSet
<1>10. he \in Seq(SUBSET (0 .. LargestVertex(he)))
  <2>1. he = [e \in 1 .. Len(H.he) |-> he[e]]
    BY <1>3 DEF he
  <2> QED BY <1>3, <1>5, <1>9, <2>1
<1>11. GoodHypergraph(Dedup(H))
  <2>1. LargestVertex(he) + 1 \in Nat /\ LargestVertex(he) + 1 - 1 = LargestVertex(he)
    BY <1>8
  <2>2. Dedup(H).n = LargestVertex(he) + 1 /\ Dedup(H).he = he
    BY <1>1
  <2>3. Vertices(Dedup(H)) = 0 .. LargestVertex(he)
    <3>1. Vertices(Dedup(H)) = 0 .. Dedup(H).n - 1
      BY DEF Vertices
    <3>2. Dedup(H).n - 1 = LargestVertex(he)
      BY <1>8, <2>2
    <3> QED BY <3>1, <3>2
  <2> QED BY <1>10, <2>1, <2>2, <2>3 DEF GoodHypergraph
<1> QED BY <1>1, <1>11 DEF he

LEMMA QuotientExact ==
  ASSUME NEW H, GoodHypergraph(H), NEW u \in Vertices(H), NEW v \in Vertices(H)
  PROVE  LET c == ClassOf(H, u)
             d == ClassOf(H, v)
         IN  /\ Incident(H, u) # {} => c \in Vertices(Dedup(H))
             /\ c # d => (Together(H, u, v) <=> Together(Dedup(H), c, d))
             /\ c = d => Incident(H, u) = Incident(H, v)
<1> DEFINE G == Dedup(H)
           c == ClassOf(H, u)
           d == ClassOf(H, v)
<1>1. /\ GoodHypergraph(G) /\ DOMAIN G.he = DOMAIN H.he
      /\ \A e \in DOMAIN H.he : G.he[e] = {ClassOf(H, x) : x \in H.he[e]}
  BY DedupFacts
<1>2. /\ H.n \in Nat
      /\ \A e \in DOMAIN H.he : H.he[e] \subseteq Vertices(H)
      /\ \A e \in DOMAIN H.he : G.he[e] \subseteq Vertices(G)
  BY <1>1 DEF GoodHypergraph
<1>3. \A x, y \in Vertices(H) : ClassOf(H, x) = ClassOf(H, y) <=> Incident(H, x) = Incident(H, y)
  BY <1>2, ClassFacts
<1> HIDE DEF G
<1>4. Incident(H, u) # {} => c \in Vertices(G)
  BY <1>1, <1>2 DEF Incident
<1>5. Together(H, u, v) => Together(G, c, d)
  BY <1>1 DEF Together, ToSet
<1>6. Together(G, c, d) => Together(H, u, v)
  <2> SUFFICES ASSUME NEW e \in DOMAIN G.he, c \in G.he[e], d \in G.he[e]
               PROVE  u \in H.he[e] /\ v \in H.he[e]
    BY <1>1 DEF Together, ToSet
  <2>1. PICK x \in H.he[e] : ClassOf(H, x) = c
    BY <1>1
  <2>2. PICK y \in H.he[e] : ClassOf(H, y) = d
    BY <1>1
  <2>3. Incident(H, x) = Incident(H, u) /\ Incident(H, y) = Incident(H, v)
    BY <1>1, <1>2, <1>3, <2>1, <2>2
  <2> QED BY <1>1, <2>1, <2>2, <2>3 DEF Incident
<1> QED BY <1>3, <1>4, <1>5, <1>6 DEF G

-----------------------------------------------------------------------------
(* motivo-hypergraph. *)
Hyperedges == {s \in SUBSET Nat : IsFiniteSet(s)}

LEMMA ReadFacts ==
  ASSUME NEW lines \in Texts
  PROVE  ReadText(lines) \in Seq(Hyperedges)
<1>1. Len(lines) \in Nat /\ DOMAIN lines = 1 .. Len(lines) /\ \A k \in DOMAIN lines : lines[k] \in Seq(Nat)
  BY TextsAssumption DEF TextsAssumption
<1>2. ASSUME NEW k \in DOMAIN lines PROVE ToSet(lines[k]) \in Hyperedges
  <2> DEFINE l == lines[k]
  <2>1. l \in Seq(Nat)
    BY <1>1
  <2> HIDE DEF l
  <2>2. Len(l) \in Nat /\ DOMAIN l = 1 .. Len(l) /\ \A i \in DOMAIN l : l[i] \in Nat
    BY <2>1
  <2>3. IsFiniteSet(1 .. Len(l))
    BY <2>2, FS_Interval
  <2>4. IsFiniteSet({l[i] : i \in DOMAIN l})
    BY <2>2, <2>3, ImageFinite
  <2> QED BY <2>2, <2>4 DEF ToSet, Hyperedges, l
<1> DEFINE he == [k \in DOMAIN lines |-> ToSet(lines[k])]
           P == {k \in DOMAIN lines : ToSet(lines[k]) # {}}
<1>3. he \in Seq(Hyperedges) /\ P \subseteq DOMAIN he
  BY <1>1, <1>2
<1>4. ReadText(lines) = AtPositions(he, P)
  BY DEF ReadText
<1> HIDE DEF he, P
<1> QED BY <1>3, <1>4, AtPositionsFacts

LEMMA SortedBySizeFacts ==
  ASSUME NEW he \in Seq(Hyperedges), NEW sorted \in SortedBySize(he)
  PROVE  sorted \in Seq(Hyperedges)
<1>1. PICK p \in Bijection(DOMAIN he, DOMAIN he) : sorted = [k \in DOMAIN he |-> he[p[k]]]
  BY DEF SortedBySize
<1>2. p \in [DOMAIN he -> DOMAIN he]
  BY DEF Bijection, Injection
<1>3. DOMAIN he = 1 .. Len(he) /\ Len(he) \in Nat /\ \A k \in DOMAIN he : he[k] \in Hyperedges
  OBVIOUS
<1> QED BY <1>1, <1>2, <1>3

LEMMA WriteFacts ==
  ASSUME NEW he \in Seq(Hyperedges)
  PROVE  GoodHypergraph(WriteHypergraph(he))
<1> DEFINE L == LargestVertex(he)
           n == IF he = <<>> THEN 0 ELSE L + 1
<1>1. /\ DOMAIN he = 1 .. Len(he) /\ Len(he) \in Nat
      /\ \A k \in DOMAIN he : he[k] \subseteq Nat /\ IsFiniteSet(he[k])
  BY DEF Hyperedges
<1>2. IsFiniteSet(ToSet(he))
  <2>1. IsFiniteSet(1 .. Len(he))
    BY <1>1, FS_Interval
  <2> QED BY <1>1, <2>1, ImageFinite DEF ToSet
<1>3. UNION ToSet(he) \subseteq Nat /\ IsFiniteSet(UNION ToSet(he))
  <2>1. \A s \in ToSet(he) : s \subseteq Nat /\ IsFiniteSet(s)
    BY <1>1 DEF ToSet
  <2> QED BY <1>2, <2>1, FS_UNION
<1>4. L \in Nat /\ \A v \in UNION ToSet(he) : v <= L
  BY <1>3, LargestFacts
<1> HIDE DEF L
<1>5. \A k \in DOMAIN he : he[k] \subseteq 0 .. L
  BY <1>1, <1>4 DEF ToSet
<1>6. n \in Nat /\ (he # <<>> => n - 1 = L)
  BY <1>4
<1>7. WriteHypergraph(he).n = n /\ WriteHypergraph(he).he = he
  BY DEF WriteHypergraph, L
<1>8. Vertices(WriteHypergraph(he)) = 0 .. n - 1
  BY <1>7 DEF Vertices
<1> HIDE DEF n
<1>9. he \in Seq(SUBSET (0 .. n - 1))
  <2>1. CASE he = <<>>
    BY <2>1
  <2>2. CASE he # <<>>
    <3>1. \A k \in 1 .. Len(he) : he[k] \in SUBSET (0 .. n - 1)
      BY <1>1, <1>5, <1>6, <2>2
    <3>2. he = [k \in 1 .. Len(he) |-> he[k]]
      OBVIOUS
    <3> QED BY <1>1, <3>1, <3>2
  <2> QED BY <2>1, <2>2
<1> QED BY <1>6, <1>7, <1>8, <1>9 DEF GoodHypergraph

-----------------------------------------------------------------------------
(* motivo-hgsplit. *)
LEMMA SplitFacts ==
  ASSUME NEW H, GoodHypergraph(H), NEW t
  PROVE  LET low == Small(H, t)
             high == Large(H, t)
             overlap == OverlapPairs(low, high)
         IN  /\ Len(low.he) + Len(high.he) = Len(H.he)
             /\ low.n = H.n /\ high.n = H.n
             /\ \A u, v : Together(H, u, v) <=> Together(low, u, v) \/ Together(high, u, v)
             /\ IsFiniteSet(overlap)
             /\ overlap = {p \in Both(Vertices(H)) :
                             Together(low, p[1], p[2]) /\ Together(high, p[1], p[2])}
<1> DEFINE D == DOMAIN H.he
           P == SmallOnes(H, t)
           Q == D \ P
           low == Small(H, t)
           high == Large(H, t)
           V == Vertices(H)
<1>1. H.n \in Nat /\ H.he \in Seq(SUBSET V) /\ D = 1 .. Len(H.he) /\ Len(H.he) \in Nat
  BY DEF GoodHypergraph
<1>2. P \subseteq D /\ Q \subseteq D /\ P \cup Q = D /\ P \cap Q = {}
  BY DEF SmallOnes
<1>3. /\ low.n = H.n /\ low.he = AtPositions(H.he, P)
      /\ high.n = H.n /\ high.he = AtPositions(H.he, Q)
  BY DEF Small, Large
<1> HIDE DEF P, Q, low, high, V
<1>4. /\ IsFiniteSet(P) /\ Cardinality(P) \in Nat
      /\ Len(low.he) = Cardinality(P) /\ ToSet(low.he) = {H.he[e] : e \in P}
      /\ low.he \in Seq(SUBSET V)
  BY <1>1, <1>2, <1>3, AtPositionsFacts
<1>5. /\ IsFiniteSet(Q) /\ Cardinality(Q) \in Nat
      /\ Len(high.he) = Cardinality(Q) /\ ToSet(high.he) = {H.he[e] : e \in Q}
      /\ high.he \in Seq(SUBSET V)
  BY <1>1, <1>2, <1>3, AtPositionsFacts
<1>6. Len(low.he) + Len(high.he) = Len(H.he)
  <2>1. Cardinality(P \cup Q) = Cardinality(P) + Cardinality(Q) - Cardinality(P \cap Q)
    BY <1>4, <1>5, FS_Union
  <2>2. Cardinality(P \cap Q) = 0
    BY <1>2, FS_EmptySet
  <2>3. Cardinality(D) = Len(H.he)
    <3>1. 1 \in Int /\ Len(H.he) \in Int
      BY <1>1
    <3>2. Cardinality(1 .. Len(H.he)) = IF 1 > Len(H.he) THEN 0 ELSE Len(H.he) - 1 + 1
      BY <3>1, FS_Interval
    <3> QED BY <1>1, <3>2
  <2>4. Cardinality(P \cup Q) = Cardinality(D)
    BY <1>2
  <2> HIDE DEF D
  <2> QED BY <1>4, <1>5, <2>1, <2>2, <2>3, <2>4
<1>7. ASSUME NEW u, NEW v
      PROVE  Together(H, u, v) <=> Together(low, u, v) \/ Together(high, u, v)
  <2>1. Together(H, u, v) <=> \E e \in D : {u, v} \subseteq H.he[e]
    BY DEF Together, ToSet
  <2>2. Together(low, u, v) <=> \E e \in P : {u, v} \subseteq H.he[e]
    BY <1>4 DEF Together
  <2>3. Together(high, u, v) <=> \E e \in Q : {u, v} \subseteq H.he[e]
    BY <1>5 DEF Together
  <2> QED BY <1>2, <2>1, <2>2, <2>3
<1>8. Vertices(low) = V
  BY <1>3 DEF Vertices, V
<1>9. ASSUME NEW u, NEW v, u # v
      PROVE  /\ v \in Marked(low, u) <=> Together(low, u, v)
             /\ Share(high, u, v) <=> Together(high, u, v)
  <2>1. Marked(low, u) = (UNION {e \in ToSet(low.he) : u \in e}) \ {u}
    BY DEF Marked
  <2>2. v \in Marked(low, u) <=> \E e \in ToSet(low.he) : u \in e /\ v \in e
    BY <1>9, <2>1
  <2>3. Together(low, u, v) <=> \E e \in ToSet(low.he) : u \in e /\ v \in e
    BY DEF Together
  <2>4. Share(high, u, v) <=> \E k \in DOMAIN high.he : u \in high.he[k] /\ v \in high.he[k]
    BY DEF Share, Incident
  <2>5. Together(high, u, v) <=> \E k \in DOMAIN high.he : u \in high.he[k] /\ v \in high.he[k]
    BY DEF Together, ToSet
  <2> QED BY <2>2, <2>3, <2>4, <2>5
<1>10. OverlapPairs(low, high) = {p \in Both(V) : Together(low, p[1], p[2]) /\ Together(high, p[1], p[2])}
  <2>1. ASSUME NEW p \in V \X V, p[1] < p[2] PROVE p[1] # p[2]
    <3>1. p[1] \in Int /\ p[2] \in Int
      BY DEF V, Vertices
    <3> QED BY <2>1, <3>1
  <2> QED BY <1>8, <1>9, <2>1 DEF OverlapPairs, Both
<1>11. IsFiniteSet(OverlapPairs(low, high))
  <2>1. IsFiniteSet(V)
    <3>1. 0 \in Int /\ H.n - 1 \in Int
      BY <1>1
    <3> QED BY <3>1, FS_Interval DEF V, Vertices
  <2>2. IsFiniteSet(V \X V)
    BY <2>1, FS_Product
  <2>3. OverlapPairs(low, high) \subseteq V \X V
    BY <1>10 DEF Both
  <2> QED BY <2>2, <2>3, FS_Subset
<1> QED BY <1>3, <1>6, <1>7, <1>10, <1>11 DEF low, high, V


-----------------------------------------------------------------------------
(* The invariant: what each tool has left behind. *)

Intact == DOMAIN hg = Files /\ pairs = [M |-> pairs.M, pairs |-> pairs.pairs]

Converted == stage # "text" => GoodHypergraph(hg.H)
Unchanged == stage = "hypergraph" => original = hg.H
Deduped   == stage = "dedup" => GoodHypergraph(original) /\ hg.H = Dedup(original)

(* Small and Large hyperedges at some threshold, and of the pairs on both  *)
(* sides the number and those that are left.                               *)
SplitAt(t) ==
  LET overlap == OverlapPairs(Small(hg.H, t), Large(hg.H, t))
  IN  /\ hg.LOW = Small(hg.H, t) /\ hg.HIGH = Large(hg.H, t)
      /\ pairs.M = Cardinality(overlap) /\ pairs.pairs \subseteq overlap
HasSplit == stage = "split" => \E t : SplitAt(t)

PrepInv ==
  /\ stage \in {"text", "hypergraph", "dedup", "split"}
  /\ Intact /\ Converted /\ Unchanged /\ Deduped /\ HasSplit

LEMMA PrepInit == Init => PrepInv
BY DEF Init, PrepInv, Intact, Files, Converted, Unchanged, Deduped, HasSplit

LEMMA PrepConvert == PrepInv /\ Convert => PrepInv'
<1> SUFFICES ASSUME PrepInv, Convert PROVE PrepInv'
  OBVIOUS
<1>0. PICK lines \in Texts : \E he \in SortedBySize(ReadText(lines)) :
        /\ hg' = [hg EXCEPT !.H = WriteHypergraph(he)]
        /\ original' = hg'.H
  BY DEF Convert
<1>1. PICK he \in SortedBySize(ReadText(lines)) :
        /\ hg' = [hg EXCEPT !.H = WriteHypergraph(he)]
        /\ original' = hg'.H
  BY <1>0
<1>2. stage' = "hypergraph" /\ pairs' = pairs
  BY DEF Convert
<1>3. DOMAIN hg = {"H", "LOW", "HIGH"} /\ Intact
  BY DEF PrepInv, Intact, Files
<1>4. hg'.H = WriteHypergraph(he) /\ DOMAIN hg' = DOMAIN hg
  BY <1>1, <1>3
<1>5. GoodHypergraph(WriteHypergraph(he))
  <2>1. he \in Seq(Hyperedges)
    BY ReadFacts, SortedBySizeFacts
  <2> QED BY <2>1, WriteFacts
<1> QED BY <1>1, <1>2, <1>3, <1>4, <1>5
        DEF PrepInv, Intact, Files, Converted, Unchanged, Deduped, HasSplit

LEMMA PrepDedup == PrepInv /\ DedupStep => PrepInv'
<1> SUFFICES ASSUME PrepInv, DedupStep PROVE PrepInv'
  OBVIOUS
<1>1. /\ stage = "hypergraph" /\ stage' = "dedup" /\ pairs' = pairs /\ original' = original
      /\ hg' = [hg EXCEPT !.H = Dedup(hg.H)]
  BY DEF DedupStep
<1>2. Intact /\ DOMAIN hg = {"H", "LOW", "HIGH"} /\ GoodHypergraph(hg.H) /\ original = hg.H
  BY <1>1 DEF PrepInv, Intact, Files, Converted, Unchanged
<1>3. hg'.H = Dedup(hg.H) /\ DOMAIN hg' = DOMAIN hg
  BY <1>1, <1>2
<1>4. GoodHypergraph(Dedup(hg.H))
  BY <1>2, DedupFacts
<1> QED BY <1>1, <1>2, <1>3, <1>4
        DEF PrepInv, Intact, Files, Converted, Unchanged, Deduped, HasSplit

LEMMA PrepSplit == PrepInv /\ Split => PrepInv'
<1> SUFFICES ASSUME PrepInv, Split PROVE PrepInv'
  OBVIOUS
<1>1. PICK t : LET low == Small(hg.H, t)
                   high == Large(hg.H, t)
                   overlap == OverlapPairs(low, high)
               IN  /\ hg' = [hg EXCEPT !.LOW = low, !.HIGH = high]
                   /\ pairs' = [M |-> Cardinality(overlap), pairs |-> overlap]
  BY DEF Split
<1>2. stage \in {"hypergraph", "dedup"} /\ stage' = "split"
  BY DEF Split
<1>3. DOMAIN hg = {"H", "LOW", "HIGH"} /\ GoodHypergraph(hg.H)
  BY <1>2 DEF PrepInv, Intact, Files, Converted
<1>4. /\ hg'.H = hg.H /\ hg'.LOW = Small(hg.H, t) /\ hg'.HIGH = Large(hg.H, t)
      /\ DOMAIN hg' = DOMAIN hg
  BY <1>1, <1>3
<1>5. /\ pairs'.M = Cardinality(OverlapPairs(Small(hg.H, t), Large(hg.H, t)))
      /\ pairs'.pairs = OverlapPairs(Small(hg.H, t), Large(hg.H, t))
      /\ pairs' = [M |-> pairs'.M, pairs |-> pairs'.pairs]
  BY <1>1
<1>6. \E s : SplitAt(s)'
  <2>1. SplitAt(t)'
    BY <1>4, <1>5 DEF SplitAt
  <2> QED BY <2>1
<1> QED BY <1>2, <1>3, <1>4, <1>5, <1>6
        DEF PrepInv, Intact, Files, Converted, Unchanged, Deduped, HasSplit

LEMMA PrepCut == PrepInv /\ CutPairs => PrepInv'
<1> SUFFICES ASSUME PrepInv, CutPairs PROVE PrepInv'
  OBVIOUS
<1>1. PICK p \in pairs.pairs : pairs' = [pairs EXCEPT !.pairs = @ \ {p}]
  BY DEF CutPairs
<1>2. stage = "split" /\ stage' = stage /\ hg' = hg /\ original' = original
  BY DEF CutPairs
<1>3. pairs = [M |-> pairs.M, pairs |-> pairs.pairs]
  BY DEF PrepInv, Intact, Files
<1>4. /\ pairs'.M = pairs.M /\ pairs'.pairs = pairs.pairs \ {p}
      /\ pairs' = [M |-> pairs'.M, pairs |-> pairs'.pairs]
  BY <1>1, <1>3
<1>5. PICK t : SplitAt(t)
  BY <1>2 DEF PrepInv, HasSplit
<1>6. SplitAt(t)'
  BY <1>2, <1>4, <1>5 DEF SplitAt
<1> QED BY <1>2, <1>4, <1>6
        DEF PrepInv, Intact, Files, Converted, Unchanged, Deduped, HasSplit

LEMMA PrepNext == PrepInv /\ [Next]_vars => PrepInv'
<1> SUFFICES ASSUME PrepInv, [Next]_vars PROVE PrepInv'
  OBVIOUS
<1>1. ASSUME stage' = stage, hg' = hg, original' = original, pairs' = pairs
      PROVE  PrepInv'
  BY <1>1 DEF PrepInv, Intact, Files, Converted, Unchanged, Deduped, HasSplit, SplitAt
<1>2. CASE Convert
  BY <1>2, PrepConvert
<1>3. CASE DedupStep
  BY <1>3, PrepDedup
<1>4. CASE Split
  BY <1>4, PrepSplit
<1>5. CASE CutPairs
  BY <1>5, PrepCut
<1>6. CASE RunGaifman
  BY <1>1, <1>6 DEF RunGaifman
<1>7. CASE DumpGraph
  BY <1>1, <1>7 DEF DumpGraph
<1>8. CASE ImportGraph
  BY <1>1, <1>8 DEF ImportGraph
<1>9. CASE UNCHANGED vars
  BY <1>1, <1>9 DEF vars
<1> QED BY <1>2, <1>3, <1>4, <1>5, <1>6, <1>7, <1>8, <1>9 DEF Next

(* What every tool finds on disk is what the tools before it wrote, from   *)
(* any text and with any options: a hypergraph of valid vertices, its      *)
(* quotient, its two halves and the pairs that are in both.                *)
THEOREM PrepInvariant == Spec => []PrepInv
<1>1. PrepInv /\ [Next]_vars => PrepInv'
  BY PrepNext
<1> QED BY PrepInit, <1>1, PTL DEF Spec

(* motivo-dedup loses nothing: a vertex with a hyperedge has a class the   *)
(* output knows, two classes share a hyperedge iff their vertices do, and  *)
(* vertices of one class have the same hyperedges.                         *)
THEOREM DedupExact == Spec => []DedupIsQuotient
<1>1. PrepInv => DedupIsQuotient
  <2> SUFFICES ASSUME PrepInv, stage = "dedup", NEW p \in Both(Vertices(original))
               PROVE  LET c == ClassOf(original, p[1])
                          d == ClassOf(original, p[2])
                      IN  /\ Incident(original, p[1]) # {} => c \in Vertices(hg.H)
                          /\ c # d => (Together(original, p[1], p[2]) <=> Together(hg.H, c, d))
                          /\ c = d => Incident(original, p[1]) = Incident(original, p[2])
    BY Zenon DEF DedupIsQuotient
  <2>1. GoodHypergraph(original) /\ hg.H = Dedup(original)
    BY DEF PrepInv, Deduped
  <2>2. p[1] \in Vertices(original) /\ p[2] \in Vertices(original)
    BY DEF Both
  <2> QED BY <2>1, <2>2, QuotientExact
<1> QED BY PrepInvariant, <1>1, PTL

(* motivo-hgsplit loses nothing and counts nothing twice: LOW and HIGH     *)
(* together are the hypergraph, and a .pairs file with as many pairs as    *)
(* its header says holds those that are together in both.                  *)
THEOREM SplitExact == Spec => []SplitIsExact
<1>1. PrepInv => SplitIsExact
  <2> SUFFICES ASSUME PrepInv, stage = "split"
               PROVE  /\ Len(hg.LOW.he) + Len(hg.HIGH.he) = Len(hg.H.he)
                      /\ \A p \in Both(Vertices(hg.H)) :
                           LET low == Together(hg.LOW, p[1], p[2])
                               high == Together(hg.HIGH, p[1], p[2])
                           IN  /\ Together(hg.H, p[1], p[2]) <=> low \/ high
                               /\ p \in pairs.pairs => low /\ high
                               /\ low /\ high /\ pairs.M = Cardinality(pairs.pairs)
                                    => p \in pairs.pairs
    BY Zenon DEF SplitIsExact
  <2>1. PICK t : SplitAt(t)
    BY DEF PrepInv, HasSplit
  <2> DEFINE H == hg.H
             low == Small(H, t)
             high == Large(H, t)
             overlap == OverlapPairs(low, high)
  <2>2. GoodHypergraph(H)
    BY DEF PrepInv, Converted
  <2>3. /\ hg.LOW = low /\ hg.HIGH = high
        /\ pairs.M = Cardinality(overlap) /\ pairs.pairs \subseteq overlap
    BY <2>1 DEF SplitAt
  <2>4. /\ Len(low.he) + Len(high.he) = Len(H.he)
        /\ \A u, v : Together(H, u, v) <=> Together(low, u, v) \/ Together(high, u, v)
        /\ IsFiniteSet(overlap)
        /\ overlap = {p \in Both(Vertices(H)) :
                        Together(low, p[1], p[2]) /\ Together(high, p[1], p[2])}
    BY <2>2, SplitFacts
  <2> HIDE DEF low, high, overlap
  <2>5. pairs.M = Cardinality(pairs.pairs) => pairs.pairs = overlap
    BY <2>3, <2>4, FS_Subset
  <2> HIDE DEF H
  <2>6. H = hg.H
    BY DEF H
  <2> QED BY <2>3, <2>4, <2>5, <2>6
<1> QED BY PrepInvariant, <1>1, PTL

-----------------------------------------------------------------------------
(* A list of neighbours: in order, without repetitions. *)
Increasing(s) == \A i, j \in DOMAIN s : i < j => s[i] < s[j]
ListOfSet(s, S) == s \in Seq(Int) /\ Increasing(s) /\ ToSet(s) = S

LEMMA SortedList ==
  ASSUME NEW S, S \subseteq Int, IsFiniteSet(S)
  PROVE  ListOfSet(Sorted(S), S) /\ Len(Sorted(S)) = Cardinality(S)
<1> DEFINE n == Cardinality(S)
           s == Sorted(S)
<1>1. /\ n \in Nat /\ s \in [1 .. n -> S]
      /\ \A i, j \in 1 .. n : i < j => s[i] < s[j]
      /\ \A v \in S : \E k \in 1 .. n : s[k] = v
  BY SortedFacts
<1> HIDE DEF s, n
<1>2. s \in Seq(S) /\ Len(s) = n /\ DOMAIN s = 1 .. n
  BY <1>1
<1>3. s \in Seq(Int)
  <2>1. \A k \in 1 .. n : s[k] \in Int
    BY <1>1
  <2> QED BY <1>1, <1>2, <2>1
<1>4. ToSet(s) = S
  BY <1>1, <1>2 DEF ToSet
<1> QED BY <1>1, <1>2, <1>3, <1>4 DEF ListOfSet, Increasing, s, n

(* What is left of a list at some of its positions. *)
LEMMA PartOfList ==
  ASSUME NEW S, NEW s, ListOfSet(s, S), NEW P, P \subseteq DOMAIN s
  PROVE  /\ ListOfSet(AtPositions(s, P), {s[p] : p \in P})
         /\ Len(AtPositions(s, P)) <= Len(s)
<1> DEFINE n == Cardinality(P)
           t == AtPositions(s, P)
<1>1. s \in Seq(Int) /\ Increasing(s) /\ ToSet(s) = S /\ DOMAIN s = 1 .. Len(s) /\ Len(s) \in Nat
  BY DEF ListOfSet
<1>2. /\ IsFiniteSet(P) /\ n \in Nat /\ t \in Seq(Int) /\ Len(t) = n
      /\ ToSet(t) = {s[p] : p \in P}
  BY <1>1, AtPositionsFacts
<1>3. P \subseteq Int
  BY <1>1
<1>4. Sorted(P) \in [1 .. n -> P] /\ \A i, j \in 1 .. n : i < j => Sorted(P)[i] < Sorted(P)[j]
  BY <1>2, <1>3, SortedFacts
<1>5. t = [k \in 1 .. n |-> s[Sorted(P)[k]]]
  BY DEF AtPositions
<1>6. n <= Len(s)
  <2>1. 1 \in Int /\ Len(s) \in Int
    BY <1>1
  <2>2. IsFiniteSet(1 .. Len(s)) /\ Cardinality(1 .. Len(s)) = IF 1 > Len(s) THEN 0 ELSE Len(s) - 1 + 1
    BY <2>1, FS_Interval
  <2>3. Cardinality(P) <= Cardinality(1 .. Len(s))
    BY <1>1, <2>2, FS_Subset
  <2>4. Cardinality(1 .. Len(s)) = Len(s)
    BY <1>1, <2>2
  <2> QED BY <2>3, <2>4
<1> HIDE DEF n, t
<1>7. Increasing(t)
  <2>1. DOMAIN t = 1 .. n
    BY <1>5
  <2> SUFFICES ASSUME NEW i \in 1 .. n, NEW j \in 1 .. n, i < j PROVE t[i] < t[j]
    BY <2>1 DEF Increasing
  <2> DEFINE a == Sorted(P)[i]
             b == Sorted(P)[j]
  <2>2. a \in P /\ b \in P /\ a < b
    BY <1>4
  <2>3. t[i] = s[a] /\ t[j] = s[b]
    BY <1>5
  <2> HIDE DEF a, b
  <2>4. s[a] < s[b]
    BY <1>1, <2>2 DEF Increasing
  <2> QED BY <2>3, <2>4
<1> QED BY <1>2, <1>6, <1>7 DEF ListOfSet, t, n

-----------------------------------------------------------------------------
(* The threads of motivo-gaifman fill all the lists. *)
LEMMA ChunkCovers ==
  ASSUME NEW n \in Nat, NEW threads \in Nat, threads > 0, NEW v \in 0 .. n - 1
  PROVE  \E t \in 0 .. threads - 1 : v \in Part(n, threads, t)
<1> DEFINE C == Chunk(n, threads)
           B == {t \in Nat : v < (t + 1) * C}
<1>1. C \in Nat /\ threads * C >= n
  <2> DEFINE x == n + threads - 1
             r == x % threads
  <2>1. x \in Nat
    OBVIOUS
  <2>2. C = x \div threads
    BY DEF Chunk
  <2> HIDE DEF x, C
  <2>3. C \in Nat /\ r \in 0 .. threads - 1
    BY <2>1, <2>2
  <2>4. x = threads * C + r
    BY <2>1, <2>2
  <2> HIDE DEF r
  <2>5. threads * C \in Nat
    BY <2>3
  <2>6. x = n + threads - 1
    BY DEF x
  <2> QED BY <2>3, <2>4, <2>5, <2>6
<1> HIDE DEF C
<1>2. threads - 1 \in B
  <2>1. (threads - 1 + 1) * C = threads * C
    BY <1>1
  <2> QED BY <1>1, <2>1
<1>3. PICK t \in B : \A u \in B : t <= u
  BY <1>2, LeastNatural
<1>4. t \in 0 .. threads - 1
  BY <1>2, <1>3
<1>5. v >= t * C
  <2>1. CASE t = 0
    BY <1>1, <2>1
  <2>2. CASE t # 0
    <3>1. t - 1 \in Nat /\ t - 1 + 1 = t /\ ~(t <= t - 1)
      BY <1>4, <2>2
    <3>2. t - 1 \notin B
      BY <1>3, <3>1
    <3>3. ~(v < t * C)
      BY <3>1, <3>2
    <3>4. t * C \in Nat
      BY <1>1, <1>3
    <3> QED BY <3>3, <3>4
  <2> QED BY <2>1, <2>2
<1>6. v < (t + 1) * C
  BY <1>3
<1> QED BY <1>4, <1>5, <1>6 DEF Part, C

LEMMA AdjacencyIs ==
  ASSUME NEW H, H.n \in Nat, NEW max_m, NEW asked \in Nat
  PROVE  Adjacency(H, max_m, asked)
         = [u \in Vertices(H) |-> Sorted(Neighbours(H, max_m, u))]
<1> DEFINE least == Min({asked, H.n})
           threads == Max({1, least})
           filled == UNION {Part(H.n, threads, t) : t \in 0 .. threads - 1}
<1>1. least \in Nat
  <2>1. {asked, H.n} \subseteq Nat /\ {asked, H.n} # {}
    OBVIOUS
  <2>2. least \in {asked, H.n}
    BY <2>1, MinFacts
  <2> QED BY <2>2
<1> HIDE DEF least
<1>2. threads \in Nat /\ threads > 0
  <2>1. {1, least} \subseteq Int /\ {1, least} # {}
    BY <1>1
  <2>2. IsFiniteSet({1, least})
    <3>1. IsFiniteSet({1} \cup {least})
      BY FS_Singleton, FS_Union
    <3>2. {1, least} = {1} \cup {least}
      OBVIOUS
    <3> QED BY <3>1, <3>2
  <2>3. threads \in {1, least} /\ \A v \in {1, least} : v <= threads
    BY <2>1, <2>2, MaxFacts
  <2> HIDE DEF threads
  <2> QED BY <1>1, <2>3
<1>3. Adjacency(H, max_m, asked)
      = [u \in Vertices(H) |-> IF u \in filled THEN Sorted(Neighbours(H, max_m, u)) ELSE <<>>]
  BY Zenon DEF Adjacency, least
<1> HIDE DEF threads
<1>4. \A u \in Vertices(H) : u \in filled
  <2> SUFFICES ASSUME NEW u \in Vertices(H) PROVE u \in filled
    OBVIOUS
  <2>1. u \in 0 .. H.n - 1
    BY DEF Vertices
  <2>2. PICK t \in 0 .. threads - 1 : u \in Part(H.n, threads, t)
    BY <1>2, <2>1, ChunkCovers
  <2> QED BY <2>2
<1> HIDE DEF filled
<1> QED BY <1>3, <1>4

-----------------------------------------------------------------------------
(* What is excluded. *)
Edge(u, v) == IF u < v THEN <<u, v>> ELSE <<v, u>>

LEMMA RowFacts ==
  ASSUME NEW omit, IsFiniteSet(omit), omit \subseteq Nat \X Nat, NEW u \in Nat
  PROVE  /\ Row(omit, u) \subseteq Nat /\ IsFiniteSet(Row(omit, u))
         /\ \A v : v \in Row(omit, u) <=> <<u, v>> \in omit
<1> DEFINE Q == {q \in omit : q[1] = u}
           f == [p \in Q |-> p[2]]
<1>1. IsFiniteSet(Q)
  BY FS_Subset
<1>2. \A q \in omit : q = <<q[1], q[2]>> /\ q[1] \in Nat /\ q[2] \in Nat
  OBVIOUS
<1>3. Row(omit, u) = {p[2] : p \in Q}
  BY DEF Row
<1>4. Row(omit, u) = {f[p] : p \in Q}
  BY <1>3
<1>5. IsFiniteSet({f[p] : p \in Q})
  BY <1>1, ImageFinite
<1>6. \A v : v \in Row(omit, u) <=> <<u, v>> \in omit
  BY <1>2, <1>3
<1> QED BY <1>2, <1>3, <1>4, <1>5, <1>6

AllowedBy(u, omit, v) ==
  IF v < u
    THEN LET row == Row(omit, v)
         IN  row = {} \/ Min(row) > u \/ Max(row) < u \/ u \notin row
    ELSE v \notin Row(omit, u)

LEMMA AllowedIs ==
  ASSUME NEW omit, IsFiniteSet(omit), omit \subseteq Nat \X Nat,
         NEW u \in Nat, NEW v \in Nat, u # v
  PROVE  AllowedBy(u, omit, v) <=> Edge(u, v) \notin omit
<1>1. CASE v < u
  <2> DEFINE row == Row(omit, v)
  <2>1. row \subseteq Nat /\ row \subseteq Int /\ IsFiniteSet(row) /\ (u \in row <=> <<v, u>> \in omit)
    BY RowFacts
  <2>2. Edge(u, v) = <<v, u>>
    BY <1>1 DEF Edge
  <2>3. AllowedBy(u, omit, v) <=> (row = {} \/ Min(row) > u \/ Max(row) < u \/ u \notin row)
    BY <1>1 DEF AllowedBy
  <2> HIDE DEF row
  <2>4. ASSUME u \in row PROVE Min(row) \in Nat /\ Max(row) \in Nat /\ Min(row) <= u /\ u <= Max(row)
    <3>1. row # {}
      BY <2>4
    <3>2. Min(row) \in row /\ Min(row) <= u
      BY <2>1, <2>4, <3>1, MinFacts
    <3>3. Max(row) \in row /\ u <= Max(row)
      BY <2>1, <2>4, <3>1, MaxFacts
    <3> QED BY <2>1, <3>2, <3>3
  <2>5. u \in row => row # {} /\ ~(Min(row) > u) /\ ~(Max(row) < u)
    BY <2>4
  <2> QED BY <2>1, <2>2, <2>3, <2>5
<1>2. CASE ~(v < u)
  <2>1. u < v
    BY <1>2
  <2>2. Edge(u, v) = <<u, v>>
    BY <2>1 DEF Edge
  <2> QED BY <1>2, <2>2, RowFacts DEF AllowedBy
<1> QED BY <1>1, <1>2

LEMMA KeptIs ==
  ASSUME NEW omit, IsFiniteSet(omit), omit \subseteq Nat \X Nat,
         NEW u \in Nat, NEW S, S \subseteq Nat \ {u}, NEW s, ListOfSet(s, S)
  PROVE  /\ ListOfSet(Kept(u, s, omit), {v \in S : Edge(u, v) \notin omit})
         /\ Len(Kept(u, s, omit)) <= Len(s)
<1> DEFINE P == {k \in DOMAIN s : AllowedBy(u, omit, s[k])}
<1>1. Kept(u, s, omit) = AtPositions(s, P)
  BY Zenon DEF Kept, AllowedBy
<1>2. ToSet(s) = S /\ \A k \in DOMAIN s : s[k] \in S
  BY DEF ListOfSet, ToSet
<1>3. P = {k \in DOMAIN s : Edge(u, s[k]) \notin omit}
  <2>1. ASSUME NEW k \in DOMAIN s PROVE AllowedBy(u, omit, s[k]) <=> Edge(u, s[k]) \notin omit
    <3>1. s[k] \in Nat /\ s[k] # u
      BY <1>2
    <3> QED BY <3>1, AllowedIs
  <2> QED BY <2>1
<1> HIDE DEF P
<1>4. {s[p] : p \in P} = {v \in S : Edge(u, v) \notin omit}
  <2>1. S = {s[k] : k \in DOMAIN s}
    BY <1>2 DEF ToSet
  <2> QED BY <1>2, <1>3, <2>1
<1>5. P \subseteq DOMAIN s
  BY <1>3
<1>6. /\ ListOfSet(AtPositions(s, P), {s[p] : p \in P})
      /\ Len(AtPositions(s, P)) <= Len(s)
  BY <1>5, PartOfList
<1>7. ListOfSet(AtPositions(s, P), {v \in S : Edge(u, v) \notin omit})
  BY Zenon, <1>4, <1>6
<1> QED BY Zenon, <1>1, <1>6, <1>7

-----------------------------------------------------------------------------
(* One list after the other. *)
FlatStep(g, seqs, i) == IF i = 1 THEN seqs[i] ELSE g[i - 1] \o seqs[i]
IsFlat(g, seqs, m) == g = [i \in 1 .. m |-> FlatStep(g, seqs, i)]

LEMMA FlatExists ==
  ASSUME NEW seqs, NEW n \in Nat, n > 0
  PROVE  \E g : IsFlat(g, seqs, n)
<1> DEFINE G == {m \in 0 .. n : m > 0 => \E g : IsFlat(g, seqs, m)}
<1>1. 0 \in G
  OBVIOUS
<1>2. ASSUME NEW m \in 1 .. n, m - 1 \in G PROVE m \in G
  <2>1. CASE m = 1
    <3> DEFINE g == [i \in 1 .. 1 |-> seqs[i]]
    <3>1. \A i \in 1 .. 1 : FlatStep(g, seqs, i) = seqs[i]
      BY DEF FlatStep
    <3>2. IsFlat(g, seqs, 1)
      BY <3>1 DEF IsFlat
    <3> QED BY <2>1, <3>2
  <2>2. CASE m # 1
    <3>1. PICK g : IsFlat(g, seqs, m - 1)
      BY <1>2, <2>2
    <3> DEFINE h == [i \in 1 .. m |-> FlatStep(g, seqs, i)]
    <3>2. ASSUME NEW i \in 1 .. m PROVE FlatStep(h, seqs, i) = FlatStep(g, seqs, i)
      <4>1. CASE i = 1
        BY <4>1 DEF FlatStep
      <4>2. CASE i # 1
        <5>1. i - 1 \in 1 .. m /\ i - 1 \in 1 .. m - 1
          BY <4>2
        <5>2. h[i - 1] = g[i - 1]
          BY <3>1, <5>1 DEF IsFlat
        <5> HIDE DEF h
        <5> QED BY <4>2, <5>2 DEF FlatStep
      <4> QED BY <4>1, <4>2
    <3>3. IsFlat(h, seqs, m)
      BY <3>2 DEF IsFlat
    <3> QED BY <3>3
  <2> QED BY <2>1, <2>2
<1> HIDE DEF G
<1>3. 0 .. n \subseteq G
  BY <1>1, <1>2, UpTo
<1>4. n \in G
  BY <1>3
<1> QED BY <1>4 DEF G

LEMMA ConcatFacts ==
  ASSUME NEW T, NEW s \in Seq(T), NEW t \in Seq(T)
  PROVE  /\ s \o t \in Seq(T) /\ Len(s \o t) = Len(s) + Len(t)
         /\ \A i \in 1 .. Len(s) : (s \o t)[i] = s[i]
         /\ \A i \in 1 .. Len(t) : (s \o t)[Len(s) + i] = t[i]
         /\ ToSet(s \o t) = ToSet(s) \cup ToSet(t)
<1> DEFINE u == s \o t
<1>1. u \in Seq(T) /\ Len(u) = Len(s) + Len(t) /\ DOMAIN u = 1 .. Len(s) + Len(t)
  OBVIOUS
<1>2. Len(s) \in Nat /\ Len(t) \in Nat /\ DOMAIN s = 1 .. Len(s) /\ DOMAIN t = 1 .. Len(t)
  OBVIOUS
<1>3. \A i \in 1 .. Len(s) : u[i] = s[i] /\ i \in DOMAIN u
  OBVIOUS
<1>4. \A i \in 1 .. Len(t) : u[Len(s) + i] = t[i] /\ Len(s) + i \in DOMAIN u
  OBVIOUS
<1> HIDE DEF u
<1>5. \A k \in DOMAIN u : u[k] \in ToSet(s) \cup ToSet(t)
  <2> SUFFICES ASSUME NEW k \in DOMAIN u PROVE u[k] \in ToSet(s) \cup ToSet(t)
    OBVIOUS
  <2>1. CASE k <= Len(s)
    <3>1. k \in DOMAIN s
      BY <1>1, <1>2, <2>1
    <3> QED BY <1>2, <1>3, <3>1 DEF ToSet
  <2>2. CASE ~(k <= Len(s))
    <3>1. k - Len(s) \in DOMAIN t /\ Len(s) + (k - Len(s)) = k
      BY <1>1, <1>2, <2>2
    <3>2. u[k] = t[k - Len(s)]
      BY <1>2, <1>4, <3>1
    <3> QED BY <3>1, <3>2 DEF ToSet
  <2> QED BY <2>1, <2>2
<1>6. ToSet(u) = ToSet(s) \cup ToSet(t)
  <2>1. ToSet(u) \subseteq ToSet(s) \cup ToSet(t)
    BY <1>5 DEF ToSet
  <2>2. ToSet(s) \subseteq ToSet(u)
    BY <1>2, <1>3 DEF ToSet
  <2>3. ToSet(t) \subseteq ToSet(u)
    BY <1>2, <1>4 DEF ToSet
  <2> QED BY <2>1, <2>2, <2>3
<1> QED BY <1>1, <1>3, <1>4, <1>6 DEF u

(* Where the elements of list k end. *)
End(g, k) == IF k = 0 THEN 0 ELSE Len(g[k])

FlatStepOK(T, seqs, g, k) ==
  /\ g[k] \in Seq(T)
  /\ End(g, k) \in Nat /\ End(g, k - 1) \in Nat /\ Len(seqs[k]) \in Nat
  /\ End(g, k) = End(g, k - 1) + Len(seqs[k])
  /\ \A i \in 1 .. End(g, k - 1) : g[k][i] = g[k - 1][i]
  /\ \A i \in 1 .. Len(seqs[k]) : g[k][End(g, k - 1) + i] = seqs[k][i]
  /\ ToSet(g[k]) = (IF k = 1 THEN {} ELSE ToSet(g[k - 1])) \cup ToSet(seqs[k])

LEMMA FlatStepFacts ==
  ASSUME NEW T, NEW seqs \in Seq(Seq(T)), NEW g, NEW k \in 1 .. Len(seqs),
         g[k] = FlatStep(g, seqs, k), k > 1 => g[k - 1] \in Seq(T)
  PROVE  FlatStepOK(T, seqs, g, k)
<1>1. seqs[k] \in Seq(T) /\ Len(seqs[k]) \in Nat
  OBVIOUS
<1>2. CASE k = 1
  <2>1. g[1] = seqs[1] /\ k - 1 = 0
    BY <1>2 DEF FlatStep
  <2>2. End(g, k - 1) = 0 /\ End(g, k) = Len(seqs[k])
    BY <1>2, <2>1 DEF End
  <2> QED BY <1>1, <1>2, <2>1, <2>2 DEF FlatStepOK
<1>3. CASE k # 1
  <2> DEFINE h == g[k - 1]
  <2>1. k > 1 /\ k # 0 /\ k - 1 # 0
    BY <1>3
  <2>2. h \in Seq(T) /\ g[k] = h \o seqs[k]
    BY <1>3, <2>1 DEF FlatStep
  <2>3. End(g, k - 1) = Len(h) /\ End(g, k) = Len(g[k])
    BY <2>1 DEF End
  <2> HIDE DEF h
  <2>4. Len(h) \in Nat
    BY <2>2
  <2>5. /\ h \o seqs[k] \in Seq(T) /\ Len(h \o seqs[k]) = Len(h) + Len(seqs[k])
        /\ \A i \in 1 .. Len(h) : (h \o seqs[k])[i] = h[i]
        /\ \A i \in 1 .. Len(seqs[k]) : (h \o seqs[k])[Len(h) + i] = seqs[k][i]
        /\ ToSet(h \o seqs[k]) = ToSet(h) \cup ToSet(seqs[k])
    BY <1>1, <2>2, ConcatFacts
  <2>6. /\ g[k] \in Seq(T) /\ Len(g[k]) = Len(h) + Len(seqs[k])
        /\ \A i \in 1 .. Len(h) : g[k][i] = h[i]
        /\ \A i \in 1 .. Len(seqs[k]) : g[k][Len(h) + i] = seqs[k][i]
        /\ ToSet(g[k]) = ToSet(h) \cup ToSet(seqs[k])
    BY <2>2, <2>5
  <2>7. (IF k = 1 THEN {} ELSE ToSet(g[k - 1])) = ToSet(h)
    BY <1>3 DEF h
  <2>8. \A i \in 1 .. End(g, k - 1) : g[k][i] = g[k - 1][i]
    BY <2>3, <2>6 DEF h
  <2>9. \A i \in 1 .. Len(seqs[k]) : g[k][End(g, k - 1) + i] = seqs[k][i]
    BY <2>3, <2>6
  <2>10. End(g, k) = End(g, k - 1) + Len(seqs[k]) /\ End(g, k) \in Nat /\ End(g, k - 1) \in Nat
    BY <1>1, <2>3, <2>4, <2>6
  <2> QED BY <1>1, <2>6, <2>7, <2>8, <2>9, <2>10 DEF FlatStepOK
<1> QED BY <1>2, <1>3

FlatOK(T, seqs, g, m) ==
  /\ g[m] \in Seq(T)
  /\ End(g, m) \in Nat /\ End(g, m - 1) \in Nat
  /\ End(g, m) = End(g, m - 1) + Len(seqs[m])
  /\ ToSet(g[m]) = UNION {ToSet(seqs[k]) : k \in 1 .. m}
  /\ \A k \in 1 .. m :
       /\ End(g, k) <= End(g, m)
       /\ \A i \in 1 .. Len(seqs[k]) : g[m][End(g, k - 1) + i] = seqs[k][i]

LEMMA FlatFacts ==
  ASSUME NEW T, NEW seqs \in Seq(Seq(T)), NEW g, IsFlat(g, seqs, Len(seqs))
  PROVE  \A m \in 1 .. Len(seqs) : FlatOK(T, seqs, g, m)
<1> DEFINE n == Len(seqs)
           Upto(m) == UNION {ToSet(seqs[k]) : k \in 1 .. m}
           Places(m) == \A k \in 1 .. m :
                          /\ End(g, k) <= End(g, m)
                          /\ \A i \in 1 .. Len(seqs[k]) : g[m][End(g, k - 1) + i] = seqs[k][i]
           P(m) == g[m] \in Seq(T) /\ ToSet(g[m]) = Upto(m) /\ Places(m)
           G == {m \in 0 .. n : m > 0 => P(m)}
<1>1. n \in Nat /\ \A k \in 1 .. n : g[k] = FlatStep(g, seqs, k)
  <2>1. n \in Nat
    OBVIOUS
  <2> HIDE DEF n
  <2>2. IsFlat(g, seqs, n)
    BY DEF n
  <2> QED BY <2>1, <2>2 DEF IsFlat
<1>2. ASSUME NEW k \in 1 .. n, k > 1 => g[k - 1] \in Seq(T)
      PROVE  FlatStepOK(T, seqs, g, k)
  <2>1. g[k] = FlatStep(g, seqs, k) /\ k \in 1 .. Len(seqs)
    BY <1>1
  <2> QED BY <1>2, <2>1, FlatStepFacts
<1>3. 0 \in G
  BY <1>1
<1>4. \A k \in 1 .. n : g[k] \in Seq(T)
  <2> DEFINE K == {m \in 0 .. n : m > 0 => g[m] \in Seq(T)}
  <2>1. 0 \in K
    BY <1>1
  <2>2. ASSUME NEW m \in 1 .. n, m - 1 \in K PROVE m \in K
    <3>1. m > 1 => g[m - 1] \in Seq(T)
      BY <2>2
    <3>2. g[m] \in Seq(T)
      BY <1>2, <3>1 DEF FlatStepOK
    <3> QED BY <3>2
  <2> HIDE DEF K
  <2>3. 0 .. n \subseteq K
    BY <1>1, <2>1, <2>2, UpTo
  <2>4. \A k \in 1 .. n : k \in 0 .. n /\ k > 0
    BY <1>1
  <2> QED BY <2>3, <2>4 DEF K
<1>5. ASSUME NEW k \in 1 .. n
      PROVE  /\ End(g, k) \in Nat /\ End(g, k - 1) \in Nat /\ Len(seqs[k]) \in Nat
             /\ End(g, k) = End(g, k - 1) + Len(seqs[k])
             /\ \A i \in 1 .. End(g, k - 1) : g[k][i] = g[k - 1][i]
             /\ \A i \in 1 .. Len(seqs[k]) : g[k][End(g, k - 1) + i] = seqs[k][i]
             /\ ToSet(g[k]) = (IF k = 1 THEN {} ELSE ToSet(g[k - 1])) \cup ToSet(seqs[k])
  <2>1. k > 1 => k - 1 \in 1 .. n
    BY <1>1
  <2>2. k > 1 => g[k - 1] \in Seq(T)
    BY <1>4, <2>1
  <2> QED BY <1>2, <2>2 DEF FlatStepOK
<1>6. ASSUME NEW m \in 1 .. n, m - 1 \in G PROVE m \in G
  <2>1. CASE m = 1
    <3>1. ToSet(g[1]) = Upto(1)
      <4>1. ToSet(g[1]) = {} \cup ToSet(seqs[1])
        BY <1>5, <2>1
      <4>2. Upto(1) = UNION {ToSet(seqs[1])}
        <5>1. 1 .. 1 = {1}
          OBVIOUS
        <5>2. {ToSet(seqs[k]) : k \in {1}} = {ToSet(seqs[1])}
          OBVIOUS
        <5> QED BY <5>1, <5>2
      <4> HIDE DEF Upto
      <4> QED BY <4>1, <4>2
    <3>2. ASSUME NEW k \in 1 .. 1
          PROVE  End(g, k) <= End(g, 1) /\ \A i \in 1 .. Len(seqs[k]) : g[1][End(g, k - 1) + i] = seqs[k][i]
      <4>1. k = 1
        OBVIOUS
      <4> QED BY <1>5, <2>1, <4>1
    <3>3. Places(1)
      BY <3>2
    <3> HIDE DEF Upto, Places
    <3>4. P(1)
      BY <1>4, <2>1, <3>1, <3>3
    <3> HIDE DEF P
    <3> QED BY <2>1, <3>4
  <2>2. CASE m # 1
    <3> DEFINE l == m - 1
    <3>1. l \in 1 .. n /\ l > 0 /\ l \in Nat
      BY <2>2, <1>1
    <3>2. P(l)
      <4> HIDE DEF P
      <4> QED BY <1>6, <3>1
    <3>3. ToSet(g[m]) = ToSet(g[l]) \cup ToSet(seqs[m])
      BY <1>5, <2>2
    <3>4. ToSet(g[m]) = Upto(m)
      <4>1. 1 .. m = 1 .. l \cup {m}
        BY <3>1
      <4> QED BY <3>2, <3>3, <4>1
    <3>5. End(g, l) \in Nat /\ End(g, m) \in Nat /\ End(g, l) <= End(g, m)
      BY <1>5
    <3>6. ASSUME NEW k \in 1 .. m
          PROVE  End(g, k) <= End(g, m) /\ \A i \in 1 .. Len(seqs[k]) : g[m][End(g, k - 1) + i] = seqs[k][i]
      <4>1. CASE k = m
        BY <1>5, <3>5, <4>1
      <4>2. CASE k # m
        <5>1. k \in 1 .. l /\ k \in 1 .. n
          BY <4>2
        <5> HIDE DEF l
        <5>2. End(g, k) <= End(g, l) /\ \A i \in 1 .. Len(seqs[k]) : g[l][End(g, k - 1) + i] = seqs[k][i]
          BY <3>2, <5>1
        <5>3. /\ End(g, k) = End(g, k - 1) + Len(seqs[k]) /\ End(g, k) \in Nat
              /\ End(g, k - 1) \in Nat /\ Len(seqs[k]) \in Nat
          BY <1>5, <5>1
        <5>4. ASSUME NEW i \in 1 .. Len(seqs[k]) PROVE g[m][End(g, k - 1) + i] = seqs[k][i]
          <6>1. End(g, k - 1) + i \in 1 .. End(g, l)
            BY <3>5, <5>2, <5>3
          <6>2. g[m][End(g, k - 1) + i] = g[l][End(g, k - 1) + i]
            BY <1>5, <6>1 DEF l
          <6> QED BY <5>2, <6>2
        <5> QED BY <3>5, <5>2, <5>3, <5>4
      <4> QED BY <4>1, <4>2
    <3>7. Places(m)
      BY <3>6
    <3> HIDE DEF Upto, Places
    <3>8. P(m)
      BY <1>4, <3>4, <3>7
    <3> HIDE DEF P
    <3> QED BY <3>8
  <2> QED BY <2>1, <2>2
<1>7. \A m \in 1 .. n : P(m)
  <2> HIDE DEF P
  <2>2. \A m \in 1 .. n : m \in 0 .. n /\ m > 0
    BY <1>1
  <2>4. \A m \in G : m > 0 => P(m)
    OBVIOUS
  <2> HIDE DEF G
  <2>1. 0 .. n \subseteq G
    BY <1>1, <1>3, <1>6, UpTo
  <2> QED BY <2>1, <2>2, <2>4
<1> QED BY <1>5, <1>7 DEF FlatOK

(* at[k]: where the elements of list k end. *)
FlatAt(F, seqs, at) ==
  /\ at \in [0 .. Len(seqs) -> Nat] /\ at[0] = 0 /\ at[Len(seqs)] = Len(F)
  /\ \A k \in 1 .. Len(seqs) :
       /\ at[k] = at[k - 1] + Len(seqs[k]) /\ at[k] <= Len(F)
       /\ \A i \in 1 .. Len(seqs[k]) : F[at[k - 1] + i] = seqs[k][i]

LEMMA FlattenFacts ==
  ASSUME NEW T, NEW seqs \in Seq(Seq(T))
  PROVE  /\ FlattenSeq(seqs) \in Seq(T)
         /\ ToSet(FlattenSeq(seqs)) = UNION {ToSet(seqs[k]) : k \in DOMAIN seqs}
         /\ \E at : FlatAt(FlattenSeq(seqs), seqs, at)
<1> DEFINE n == Len(seqs)
<1>1. n \in Nat /\ DOMAIN seqs = 1 .. n /\ \A k \in 1 .. n : seqs[k] \in Seq(T)
  OBVIOUS
<1>2. CASE n = 0
  <2>1. seqs = <<>> /\ FlattenSeq(seqs) = <<>>
    BY <1>2 DEF FlattenSeq
  <2>2. ToSet(<<>>) = {}
    BY DEF ToSet
  <2>3. FlatAt(<<>>, seqs, [k \in 0 .. 0 |-> 0])
    BY <1>2, <2>1 DEF FlatAt
  <2>4. <<>> \in Seq(T) /\ DOMAIN seqs = {}
    BY <2>1
  <2> QED BY <2>1, <2>2, <2>3, <2>4
<1>3. CASE n > 0
  <2> DEFINE g == CHOOSE f : IsFlat(f, seqs, n)
             at == [k \in 0 .. n |-> End(g, k)]
  <2>1. IsFlat(g, seqs, n)
    <3>1. \E f : IsFlat(f, seqs, n)
      BY <1>1, <1>3, FlatExists
    <3> QED BY <3>1
  <2>2. FlattenSeq(seqs) = g[n]
    <3>1. ~(n = 0)
      BY <1>3
    <3> QED BY <3>1, Zenon DEF FlattenSeq, IsFlat, FlatStep
  <2> HIDE DEF g
  <2>3. n \in 1 .. n
    BY <1>1, <1>3
  <2>11. \A m \in 1 .. n : FlatOK(T, seqs, g, m)
    BY <2>1, FlatFacts
  <2>4. \A m \in 1 .. n :
           /\ g[m] \in Seq(T)
           /\ End(g, m) \in Nat /\ End(g, m - 1) \in Nat
           /\ End(g, m) = End(g, m - 1) + Len(seqs[m])
           /\ ToSet(g[m]) = UNION {ToSet(seqs[k]) : k \in 1 .. m}
           /\ \A k \in 1 .. m :
                /\ End(g, k) <= End(g, m)
                /\ \A i \in 1 .. Len(seqs[k]) : g[m][End(g, k - 1) + i] = seqs[k][i]
    BY <2>11 DEF FlatOK
  <2>5. End(g, 0) = 0 /\ End(g, n) = Len(g[n])
    BY <1>3 DEF End
  <2>6. at \in [0 .. n -> Nat]
    <3>1. \A k \in 0 .. n : k = 0 \/ k \in 1 .. n
      BY <1>1
    <3> QED BY <2>4, <2>5, <3>1
  <2>7. at[0] = 0 /\ at[n] = Len(g[n])
    BY <1>1, <2>5
  <2>8. \A k \in 1 .. n : at[k] = End(g, k) /\ at[k - 1] = End(g, k - 1)
    BY <1>1
  <2> HIDE DEF at
  <2>9. FlatAt(g[n], seqs, at)
    BY <2>3, <2>4, <2>5, <2>6, <2>7, <2>8 DEF FlatAt
  <2> QED BY <1>1, <2>2, <2>3, <2>4, <2>9
<1> QED BY <1>1, <1>2, <1>3

-----------------------------------------------------------------------------
(* The lists in the .ged file. *)
ListsFor(lists, n) == DOMAIN lists = 0 .. n - 1 /\ \A u \in 0 .. n - 1 : lists[u] \in Seq(Int)

Before(lists, u) == Sigma(Degrees(lists), 0 .. u - 1)

Placed(ged, lists, n) ==
  /\ ged \in Seq(Int) /\ Before(lists, n) = Len(ged)
  /\ \A u \in 0 .. n : Before(lists, u) \in 0 .. Len(ged)
  /\ \A u \in 0 .. n - 1 :
       /\ Before(lists, u + 1) = Before(lists, u) + Len(lists[u])
       /\ \A i \in 1 .. Len(lists[u]) : ged[Before(lists, u) + i] = lists[u][i]

LEMMA UpToCardinality ==
  ASSUME NEW n \in Nat
  PROVE  IsFiniteSet(0 .. n - 1) /\ Cardinality(0 .. n - 1) = n
<1>1. 0 \in Int /\ n - 1 \in Int
  OBVIOUS
<1>2. IsFiniteSet(0 .. n - 1) /\ Cardinality(0 .. n - 1) = IF 0 > n - 1 THEN 0 ELSE n - 1 - 0 + 1
  BY <1>1, FS_Interval
<1> QED BY <1>2

LEMMA BeforeStep ==
  ASSUME NEW n \in Nat, NEW lists, ListsFor(lists, n), NEW u \in 1 .. n
  PROVE  Before(lists, u) = Before(lists, u - 1) + Len(lists[u - 1])
<1> DEFINE f == Degrees(lists)
           S == 0 .. u - 1
<1>1. u - 1 \in 0 .. n - 1 /\ u - 1 \in S /\ u \in Nat
  OBVIOUS
<1>2. \A w \in 0 .. n - 1 : f[w] = Len(lists[w]) /\ f[w] \in Nat
  BY DEF Degrees, ListsFor
<1>3. \A w \in S : w \in 0 .. n - 1
  OBVIOUS
<1>4. IsFiniteSet(S)
  BY <1>1, UpToCardinality
<1>5. S \ {u - 1} = 0 .. (u - 1) - 1
  OBVIOUS
<1>6. Before(lists, u) = Sigma(f, S) /\ Before(lists, u - 1) = Sigma(f, S \ {u - 1})
  BY <1>5 DEF Before
<1> HIDE DEF f, S
<1>7. \A w \in S : f[w] \in Int /\ f[w] \in Nat
  BY <1>2, <1>3
<1>8. Sigma(f, S) = f[u - 1] + Sigma(f, S \ {u - 1})
  BY <1>1, <1>4, <1>7, SigmaFrom
<1>9. Sigma(f, S \ {u - 1}) \in Nat
  <2>1. IsFiniteSet(S \ {u - 1})
    BY <1>4, FS_Subset
  <2> QED BY <1>7, <2>1, SigmaType
<1>10. f[u - 1] = Len(lists[u - 1]) /\ f[u - 1] \in Nat
  BY <1>1, <1>2
<1> QED BY <1>6, <1>8, <1>9, <1>10

LEMMA EntriesFacts ==
  ASSUME NEW n \in Nat, NEW lists, ListsFor(lists, n)
  PROVE  /\ Placed(Entries(lists), lists, n)
         /\ Directed(lists) = Len(Entries(lists)) /\ Cardinality(DOMAIN lists) = n
<1> DEFINE seqs == [k \in 1 .. n |-> lists[k - 1]]
           F == FlattenSeq(seqs)
<1>1. Cardinality(DOMAIN lists) = n /\ DOMAIN lists = 0 .. n - 1
  BY UpToCardinality DEF ListsFor
<1>2. Entries(lists) = F
  BY <1>1 DEF Entries
<1>3. seqs \in Seq(Seq(Int)) /\ Len(seqs) = n
  <2>1. \A k \in 1 .. n : lists[k - 1] \in Seq(Int)
    BY DEF ListsFor
  <2> QED BY <2>1
<1>4. \A k \in 1 .. n : seqs[k] = lists[k - 1]
  OBVIOUS
<1> HIDE DEF seqs
<1>5. F \in Seq(Int) /\ \E at : FlatAt(F, seqs, at)
  BY <1>3, FlattenFacts
<1>6. PICK at : FlatAt(F, seqs, at)
  BY <1>5
<1> HIDE DEF F
<1>7. /\ at \in [0 .. n -> Nat] /\ at[0] = 0 /\ at[n] = Len(F)
      /\ \A k \in 1 .. n :
           /\ at[k] = at[k - 1] + Len(lists[k - 1]) /\ at[k] <= Len(F)
           /\ \A i \in 1 .. Len(lists[k - 1]) : F[at[k - 1] + i] = lists[k - 1][i]
  <2>1. /\ at \in [0 .. n -> Nat] /\ at[0] = 0 /\ at[n] = Len(F)
        /\ \A k \in 1 .. n :
             /\ at[k] = at[k - 1] + Len(seqs[k]) /\ at[k] <= Len(F)
             /\ \A i \in 1 .. Len(seqs[k]) : F[at[k - 1] + i] = seqs[k][i]
    BY <1>3, <1>6, Zenon DEF FlatAt
  <2> QED BY <1>4, <2>1
<1>8. \A u \in 0 .. n : Before(lists, u) = at[u]
  <2> DEFINE G == {u \in 0 .. n : Before(lists, u) = at[u]}
  <2>1. 0 \in G
    <3>1. 0 .. 0 - 1 = {}
      OBVIOUS
    <3>2. Before(lists, 0) = 0
      BY <3>1, SigmaEmpty DEF Before
    <3> QED BY <1>7, <3>2
  <2>2. ASSUME NEW k \in 1 .. n, k - 1 \in G PROVE k \in G
    <3>1. Before(lists, k) = Before(lists, k - 1) + Len(lists[k - 1])
      BY BeforeStep
    <3> QED BY <1>7, <2>2, <3>1
  <2> HIDE DEF G
  <2>3. 0 .. n \subseteq G
    BY <2>1, <2>2, UpTo
  <2> QED BY <2>3 DEF G
<1>9. Len(F) \in Nat
  BY <1>5
<1>10. \A u \in 0 .. n : Before(lists, u) \in 0 .. Len(F)
  <2> SUFFICES ASSUME NEW u \in 0 .. n PROVE at[u] \in 0 .. Len(F)
    BY <1>8
  <2>1. at[u] \in Nat
    BY <1>7
  <2>2. u = 0 \/ u \in 1 .. n
    OBVIOUS
  <2> QED BY <1>7, <1>9, <2>1, <2>2
<1>11. ASSUME NEW u \in 0 .. n - 1
       PROVE  /\ Before(lists, u + 1) = Before(lists, u) + Len(lists[u])
              /\ \A i \in 1 .. Len(lists[u]) : F[Before(lists, u) + i] = lists[u][i]
  <2>1. u + 1 \in 1 .. n /\ u + 1 - 1 = u /\ u \in 0 .. n /\ u + 1 \in 0 .. n
    OBVIOUS
  <2>2. /\ at[u + 1] = at[u] + Len(lists[u])
        /\ \A i \in 1 .. Len(lists[u]) : F[at[u] + i] = lists[u][i]
    BY <1>7, <2>1
  <2> QED BY <1>8, <2>1, <2>2
<1>12. Before(lists, n) = Len(F)
  BY <1>7, <1>8
<1>13. Directed(lists) = Before(lists, n)
  BY <1>1 DEF Directed, Before, Sigma
<1> QED BY <1>1, <1>2, <1>5, <1>10, <1>11, <1>12, <1>13 DEF Placed

LEMMA OffsetsExact ==
  ASSUME NEW n \in Nat, NEW lists, ListsFor(lists, n), NEW largest \in Nat,
         Len(Entries(lists)) <= largest
  PROVE  Offsets(lists, largest) = [u \in 0 .. n |-> Before(lists, u)]
<1>1. Placed(Entries(lists), lists, n) /\ Cardinality(DOMAIN lists) = n
  BY EntriesFacts
<1>2. Offsets(lists, largest) = [u \in 0 .. n |-> Before(lists, u) % (largest + 1)]
  BY <1>1 DEF Offsets, Before, Sigma
<1>3. ASSUME NEW u \in 0 .. n PROVE Before(lists, u) % (largest + 1) = Before(lists, u)
  <2> DEFINE b == Before(lists, u)
             e == Len(Entries(lists))
  <2>1. b \in 0 .. e /\ e \in Nat
    BY <1>1 DEF Placed
  <2>2. e <= largest
    OBVIOUS
  <2> HIDE DEF b, e
  <2>3. b \in Nat /\ b < largest + 1
    BY <2>1, <2>2
  <2>4. b % (largest + 1) = b
    BY <2>3
  <2> QED BY <2>4 DEF b
<1> QED BY <1>2, <1>3

-----------------------------------------------------------------------------
(* has_edge(). *)
Middle(r) == r.begin + (r.end - r.begin) \div 2
FoundIn(ged, v, r) == r.begin < r.end /\ ged[Middle(r) + 1] = v
SearchStep(ged, v, r) ==
  IF r.begin >= r.end \/ FoundIn(ged, v, r) THEN r
  ELSE IF v < ged[Middle(r) + 1] THEN [begin |-> r.begin, end |-> Middle(r)]
  ELSE [begin |-> Middle(r) + 1, end |-> r.end]
RangeStep(g, ged, lo, hi, v, k) ==
  IF k = 0 THEN [begin |-> lo, end |-> hi] ELSE SearchStep(ged, v, g[k - 1])
IsRange(g, ged, lo, hi, v, m) == g = [k \in 0 .. m |-> RangeStep(g, ged, lo, hi, v, k)]

LEMMA RangeExists ==
  ASSUME NEW ged, NEW lo, NEW hi, NEW v, NEW n \in Nat
  PROVE  \E g : IsRange(g, ged, lo, hi, v, n)
<1> DEFINE G == {m \in 0 .. n : \E g : IsRange(g, ged, lo, hi, v, m)}
<1>1. 0 \in G
  <2> DEFINE g == [k \in 0 .. 0 |-> RangeStep(<<>>, ged, lo, hi, v, k)]
  <2>1. \A k \in 0 .. 0 : RangeStep(g, ged, lo, hi, v, k) = RangeStep(<<>>, ged, lo, hi, v, k)
    BY DEF RangeStep
  <2> QED BY <2>1 DEF IsRange
<1>2. ASSUME NEW m \in 1 .. n, m - 1 \in G PROVE m \in G
  <2>1. PICK g : IsRange(g, ged, lo, hi, v, m - 1)
    BY <1>2
  <2> DEFINE h == [k \in 0 .. m |-> RangeStep(g, ged, lo, hi, v, k)]
  <2>2. ASSUME NEW k \in 0 .. m
        PROVE  RangeStep(h, ged, lo, hi, v, k) = RangeStep(g, ged, lo, hi, v, k)
    <3>1. CASE k = 0
      BY <3>1 DEF RangeStep
    <3>2. CASE k # 0
      <4>1. k - 1 \in 0 .. m /\ k - 1 \in 0 .. m - 1
        BY <3>2
      <4>2. h[k - 1] = g[k - 1]
        BY <2>1, <4>1 DEF IsRange
      <4> HIDE DEF h
      <4> QED BY <4>2, <3>2 DEF RangeStep
    <3> QED BY <3>1, <3>2
  <2>3. IsRange(h, ged, lo, hi, v, m)
    BY <2>2 DEF IsRange
  <2> QED BY <2>3
<1> HIDE DEF G
<1>3. 0 .. n \subseteq G
  BY <1>1, <1>2, UpTo
<1>4. n \in G
  BY <1>3
<1> QED BY <1>4 DEF G

(* A range that may still hold v, if any entry between lo and hi does.     *)
RangeOK(ged, lo, hi, v, r) ==
  /\ r = [begin |-> r.begin, end |-> r.end]
  /\ r.begin \in lo .. hi /\ r.end \in lo .. hi /\ r.begin <= r.end
  /\ \A i \in lo + 1 .. hi : ged[i] = v => i \in r.begin + 1 .. r.end

LEMMA SearchKeeps ==
  ASSUME NEW ged \in Seq(Int), NEW v \in Int, NEW lo \in Nat, NEW hi \in Nat,
         \A i, j \in lo + 1 .. hi : i < j => ged[i] < ged[j],
         hi <= Len(ged), NEW r, RangeOK(ged, lo, hi, v, r)
  PROVE  LET s == SearchStep(ged, v, r)
         IN  /\ RangeOK(ged, lo, hi, v, s)
             /\ \/ s.begin >= s.end \/ FoundIn(ged, v, s)
                \/ s.end - s.begin < r.end - r.begin
<1> DEFINE b == r.begin
           e == r.end
           m == Middle(r)
           s == SearchStep(ged, v, r)
<1>1. /\ r = [begin |-> b, end |-> e]
      /\ b \in lo .. hi /\ e \in lo .. hi /\ b <= e
      /\ \A i \in lo + 1 .. hi : ged[i] = v => i \in b + 1 .. e
  BY DEF RangeOK
<1>2. CASE b >= e \/ FoundIn(ged, v, r)
  <2>1. s = r
    BY <1>2 DEF SearchStep
  <2> QED BY <1>2, <2>1
<1>3. CASE ~(b >= e \/ FoundIn(ged, v, r))
  <2>0. s = IF v < ged[m + 1] THEN [begin |-> b, end |-> m] ELSE [begin |-> m + 1, end |-> e]
    BY <1>3 DEF SearchStep
  <2>1. m \in Nat /\ b <= m /\ m < e /\ b \in Nat /\ e \in Nat
    <3>1. m = b + (e - b) \div 2
      BY DEF Middle
    <3>2. b \in Nat /\ e \in Nat /\ b < e
      BY <1>1, <1>3
    <3> HIDE DEF b, e, m
    <3> QED BY <3>1, <3>2
  <2>2. ged[m + 1] # v
    BY <1>3, <2>1 DEF FoundIn
  <2> HIDE DEF b, e, m, s
  <2>3. m + 1 \in lo + 1 .. hi /\ m + 1 \in 1 .. Len(ged) /\ b \in Int /\ e \in Int
    BY <1>1, <2>1
  <2>4. ged[m + 1] \in Int /\ \A i \in lo + 1 .. hi : ged[i] \in Int
    <3>1. \A i \in lo + 1 .. hi : i \in 1 .. Len(ged)
      OBVIOUS
    <3> QED BY <2>3, <3>1
  <2>5. CASE v < ged[m + 1]
    <3>1. s = [begin |-> b, end |-> m]
      BY <2>0, <2>5
    <3>2. ASSUME NEW i \in lo + 1 .. hi, ged[i] = v PROVE i \in b + 1 .. m
      <4>1. i \in b + 1 .. e
        BY <1>1, <3>2
      <4>2. ~(i >= m + 1)
        <5>1. ~(i > m + 1)
          BY <2>3, <2>4, <2>5, <3>2
        <5>2. i # m + 1
          BY <2>2, <3>2
        <5> QED BY <2>1, <5>1, <5>2
      <4> QED BY <2>1, <4>1, <4>2
    <3>3. RangeOK(ged, lo, hi, v, s)
      BY <1>1, <2>1, <3>1, <3>2 DEF RangeOK
    <3> QED BY <2>1, <3>1, <3>3 DEF b, e, s
  <2>6. CASE ~(v < ged[m + 1])
    <3>1. s = [begin |-> m + 1, end |-> e]
      BY <2>0, <2>6
    <3>2. ASSUME NEW i \in lo + 1 .. hi, ged[i] = v PROVE i \in m + 1 + 1 .. e
      <4>1. i \in b + 1 .. e
        BY <1>1, <3>2
      <4>2. ~(i <= m + 1)
        <5>1. ~(i < m + 1)
          BY <2>3, <2>4, <2>6, <2>2, <3>2
        <5>2. i # m + 1
          BY <2>2, <3>2
        <5> QED BY <2>1, <5>1, <5>2
      <4> QED BY <2>1, <4>1, <4>2
    <3>3. RangeOK(ged, lo, hi, v, s)
      BY <1>1, <2>1, <2>3, <3>1, <3>2 DEF RangeOK
    <3> QED BY <2>1, <3>1, <3>3 DEF b, e, s
  <2> QED BY <2>5, <2>6
<1> QED BY <1>2, <1>3

LEMMA SearchFinds ==
  ASSUME NEW ged \in Seq(Int), NEW v \in Int, NEW lo \in Nat, NEW hi \in Nat,
         \A i, j \in lo + 1 .. hi : i < j => ged[i] < ged[j],
         lo <= hi, hi <= Len(ged)
  PROVE  BinarySearch(ged, lo, hi, v) <=> \E i \in lo + 1 .. hi : ged[i] = v
<1> DEFINE L == Len(ged)
           g == CHOOSE f : IsRange(f, ged, lo, hi, v, L)
           Left(k) == \/ g[k].begin >= g[k].end \/ FoundIn(ged, v, g[k])
                      \/ g[k].end - g[k].begin <= L - k
           G == {k \in 0 .. L : RangeOK(ged, lo, hi, v, g[k]) /\ Left(k)}
<1>1. BinarySearch(ged, lo, hi, v) <=> FoundIn(ged, v, g[L])
  BY Zenon DEF BinarySearch, IsRange, RangeStep, SearchStep, FoundIn, Middle
<1>2. L \in Nat
  OBVIOUS
<1>3. \A k \in 0 .. L : g[k] = RangeStep(g, ged, lo, hi, v, k)
  <2>1. \E f : IsRange(f, ged, lo, hi, v, L)
    BY <1>2, RangeExists
  <2>2. IsRange(g, ged, lo, hi, v, L)
    BY <2>1
  <2> HIDE DEF g
  <2> QED BY <2>2 DEF IsRange
<1> HIDE DEF g
<1>4. 0 \in G
  <2>1. g[0] = [begin |-> lo, end |-> hi]
    BY <1>2, <1>3 DEF RangeStep
  <2>2. RangeOK(ged, lo, hi, v, g[0])
    BY <2>1 DEF RangeOK
  <2>3. Left(0)
    BY <1>2, <2>1
  <2> QED BY <1>2, <2>2, <2>3
<1>5. ASSUME NEW k \in 1 .. L, k - 1 \in G PROVE k \in G
  <2> DEFINE r == g[k - 1]
             s == g[k]
  <2>1. s = SearchStep(ged, v, r)
    BY <1>2, <1>3 DEF RangeStep
  <2>2. RangeOK(ged, lo, hi, v, r) /\ Left(k - 1)
    BY <1>5
  <2> HIDE DEF r, s
  <2>3. /\ RangeOK(ged, lo, hi, v, s)
        /\ \/ s.begin >= s.end \/ FoundIn(ged, v, s)
           \/ s.end - s.begin < r.end - r.begin
    BY <2>1, <2>2, SearchKeeps DEF r
  <2>4. Left(k)
    <3>1. CASE r.begin >= r.end \/ FoundIn(ged, v, r)
      <4>1. s = r
        BY <2>1, <3>1 DEF SearchStep
      <4> QED BY <3>1, <4>1 DEF s
    <3>2. CASE ~(r.begin >= r.end \/ FoundIn(ged, v, r))
      <4>1. r.end - r.begin <= L - (k - 1)
        BY <2>2, <3>2 DEF r
      <4>2. r.begin \in Int /\ r.end \in Int /\ s.begin \in Int /\ s.end \in Int
        <5>1. RangeOK(ged, lo, hi, v, r)
          BY <2>2 DEF r
        <5> QED BY <2>3, <5>1 DEF RangeOK
      <4>3. s.begin >= s.end \/ FoundIn(ged, v, s) \/ s.end - s.begin <= L - k
        BY <1>2, <2>3, <4>1, <4>2
      <4> QED BY <4>3 DEF s
    <3> QED BY <3>1, <3>2
  <2> QED BY <1>2, <2>3, <2>4 DEF s
<1> HIDE DEF G
<1>6. L \in G
  <2>1. 0 .. L \subseteq G
    BY <1>2, <1>4, <1>5, UpTo
  <2> QED BY <1>2, <2>1
<1>7. RangeOK(ged, lo, hi, v, g[L]) /\ Left(L)
  BY <1>6 DEF G
<1> DEFINE last == g[L]
<1>8. FoundIn(ged, v, last) => \E i \in lo + 1 .. hi : ged[i] = v
  <2> SUFFICES ASSUME FoundIn(ged, v, last) PROVE \E i \in lo + 1 .. hi : ged[i] = v
    OBVIOUS
  <2>1. ged[Middle(last) + 1] = v /\ last.begin < last.end
    BY DEF FoundIn
  <2>2. last.begin \in lo .. hi /\ last.end \in lo .. hi
    BY <1>7 DEF RangeOK
  <2>3. Middle(last) = last.begin + (last.end - last.begin) \div 2
    BY DEF Middle
  <2> HIDE DEF last
  <2>4. Middle(last) \in Nat /\ last.begin <= Middle(last) /\ Middle(last) < last.end
    <3>1. last.begin \in Nat /\ last.end \in Nat
      BY <2>2
    <3> QED BY <2>1, <2>3, <3>1
  <2>5. Middle(last) + 1 \in lo + 1 .. hi
    BY <2>2, <2>4
  <2> QED BY <2>1, <2>5
<1>9. ASSUME NEW i \in lo + 1 .. hi, ged[i] = v PROVE FoundIn(ged, v, last)
  <2>1. /\ last.begin \in lo .. hi /\ last.end \in lo .. hi
        /\ i \in last.begin + 1 .. last.end
    BY <1>7, <1>9 DEF RangeOK
  <2>2. last.begin >= last.end \/ FoundIn(ged, v, last) \/ last.end - last.begin <= L - L
    BY <1>7
  <2> HIDE DEF last
  <2> QED BY <1>2, <2>1, <2>2
<1> QED BY <1>1, <1>8, <1>9

GoodFile(disk_, lists, n) ==
  /\ Loaded(disk_).n = n
  /\ Loaded(disk_).offsets = [u \in 0 .. n |-> Before(lists, u)]
  /\ disk_.ged = Entries(lists)

LEMMA SearchInList ==
  ASSUME NEW n \in Nat, NEW lists, ListsFor(lists, n), NEW u \in 0 .. n - 1,
         Increasing(lists[u]), NEW v \in Int
  PROVE  BinarySearch(Entries(lists), Before(lists, u), Before(lists, u + 1), v)
         <=> v \in ToSet(lists[u])
<1> DEFINE ged == Entries(lists)
           lo == Before(lists, u)
           hi == Before(lists, u + 1)
           l == lists[u]
<1>1. Placed(ged, lists, n)
  BY EntriesFacts
<1>2. u \in 0 .. n /\ u + 1 \in 0 .. n
  OBVIOUS
<1>3. /\ ged \in Seq(Int) /\ lo \in 0 .. Len(ged) /\ hi \in 0 .. Len(ged)
      /\ hi = lo + Len(l) /\ \A i \in 1 .. Len(l) : ged[lo + i] = l[i]
  BY <1>1, <1>2 DEF Placed
<1>4. l \in Seq(Int) /\ \A i, j \in DOMAIN l : i < j => l[i] < l[j]
  BY DEF ListsFor, Increasing
<1>5. ToSet(l) = {l[i] : i \in DOMAIN l}
  BY DEF ToSet
<1> HIDE DEF ged, lo, hi, l
<1>6. Len(l) \in Nat /\ DOMAIN l = 1 .. Len(l) /\ Len(ged) \in Nat
  BY <1>3, <1>4
<1>7. lo \in Nat /\ hi \in Nat /\ lo <= hi /\ hi <= Len(ged)
  BY <1>3, <1>6
<1>8. \A i \in lo + 1 .. hi : i - lo \in 1 .. Len(l) /\ lo + (i - lo) = i
  BY <1>3, <1>6, <1>7
<1>9. \A i \in lo + 1 .. hi : ged[i] = l[i - lo]
  BY <1>3, <1>8
<1>10. ASSUME NEW i \in lo + 1 .. hi, NEW j \in lo + 1 .. hi, i < j PROVE ged[i] < ged[j]
  <2>1. i - lo < j - lo
    BY <1>7, <1>10
  <2>2. l[i - lo] < l[j - lo]
    BY <1>4, <1>6, <1>8, <2>1
  <2> QED BY <1>9, <2>2
<1>11. BinarySearch(ged, lo, hi, v) <=> \E i \in lo + 1 .. hi : ged[i] = v
  BY <1>3, <1>7, <1>10, SearchFinds
<1>12. ASSUME NEW k \in 1 .. Len(l) PROVE lo + k \in lo + 1 .. hi /\ ged[lo + k] = l[k]
  BY <1>3, <1>6, <1>7
<1>13. (\E i \in lo + 1 .. hi : ged[i] = v) <=> \E k \in 1 .. Len(l) : l[k] = v
  BY <1>8, <1>9, <1>12
<1> QED BY <1>5, <1>6, <1>11, <1>13 DEF ged, lo, hi, l

LEMMA HasEdgeIs ==
  ASSUME NEW n \in Nat, NEW lists, ListsFor(lists, n),
         \A w \in 0 .. n - 1 : Increasing(lists[w]),
         NEW file, GoodFile(file, lists, n),
         NEW u \in 0 .. n - 1, NEW v \in 0 .. n - 1,
         v \in ToSet(lists[u]) <=> u \in ToSet(lists[v])
  PROVE  HasEdge(file, u, v) <=> v \in ToSet(lists[u])
<1> DEFINE G == Loaded(file)
<1>1. /\ G.offsets[u] = Before(lists, u) /\ G.offsets[u + 1] = Before(lists, u + 1)
      /\ G.offsets[v] = Before(lists, v) /\ G.offsets[v + 1] = Before(lists, v + 1)
  <2>1. u \in 0 .. n /\ u + 1 \in 0 .. n /\ v \in 0 .. n /\ v + 1 \in 0 .. n
    OBVIOUS
  <2>2. G.offsets = [w \in 0 .. n |-> Before(lists, w)]
    BY DEF GoodFile
  <2> HIDE DEF G
  <2> QED BY <2>1, <2>2
<1> DEFINE In(a, b) == BinarySearch(file.ged, G.offsets[a], G.offsets[a + 1], b)
<1>2. In(u, v) <=> v \in ToSet(lists[u])
  BY <1>1, SearchInList DEF GoodFile
<1>3. In(v, u) <=> u \in ToSet(lists[v])
  BY <1>1, SearchInList DEF GoodFile
<1>4. HasEdge(file, u, v) <=> IF Degree(G, u) <= Degree(G, v) THEN In(u, v) ELSE In(v, u)
  BY DEF HasEdge
<1> HIDE DEF In, G
<1> QED BY <1>2, <1>3, <1>4

-----------------------------------------------------------------------------
(* How many entries there are. *)
LEMMA SigmaMonotone ==
  ASSUME NEW S, IsFiniteSet(S), NEW f, NEW g,
         \A x \in S : f[x] \in Nat /\ g[x] \in Nat /\ f[x] <= g[x]
  PROVE  Sigma(f, S) <= Sigma(g, S)
<1> DEFINE h == [x \in S |-> g[x] - f[x]]
<1>1. \A x \in S : h[x] \in Nat /\ f[x] \in Int /\ h[x] \in Int /\ g[x] = f[x] + h[x]
  OBVIOUS
<1> HIDE DEF h
<1>2. Sigma(g, S) = Sigma(f, S) + Sigma(h, S)
  BY <1>1, SigmaSum
<1>3. Sigma(h, S) \in Nat /\ Sigma(f, S) \in Nat
  BY <1>1, SigmaType
<1> QED BY <1>2, <1>3

LEMMA UnionBound ==
  ASSUME NEW S, IsFiniteSet(S), NEW F, NEW c,
         \A x \in S : IsFiniteSet(F[x]) /\ c[x] = Cardinality(F[x])
  PROVE  /\ IsFiniteSet(UNION {F[x] : x \in S})
         /\ Cardinality(UNION {F[x] : x \in S}) <= Sigma(c, S)
<1> DEFINE U(r) == UNION {F[x] : x \in r}
           P(r) == IsFiniteSet(U(r)) /\ Cardinality(U(r)) <= Sigma(c, r)
           Bad == {r \in SUBSET S : ~P(r)}
<1>1. \A x \in S : c[x] \in Nat /\ c[x] \in Int
  BY FS_CardinalityType
<1>2. ASSUME NEW r \in SUBSET S, \A x \in r : P(r \ {x}) PROVE P(r)
  <2>1. CASE r = {}
    <3>1. U(r) = {}
      BY <2>1
    <3>2. IsFiniteSet(U(r)) /\ Cardinality(U(r)) = 0
      BY <3>1, FS_EmptySet
    <3>3. Sigma(c, r) = 0
      BY <2>1, SigmaEmpty
    <3> QED BY <3>2, <3>3
  <2>2. CASE r # {}
    <3>1. PICK x \in r : TRUE
      BY <2>2
    <3> DEFINE A == U(r \ {x})
               B == F[x]
    <3>2. U(r) = A \cup B
      OBVIOUS
    <3>3. IsFiniteSet(A) /\ Cardinality(A) <= Sigma(c, r \ {x})
      BY <1>2, <3>1
    <3>4. IsFiniteSet(B) /\ c[x] = Cardinality(B)
      BY <3>1
    <3> HIDE DEF A, B, U
    <3>5. /\ IsFiniteSet(A \cup B)
          /\ Cardinality(A \cup B) = Cardinality(A) + Cardinality(B) - Cardinality(A \cap B)
      BY <3>3, <3>4, FS_Union
    <3>6. IsFiniteSet(A \cap B)
      BY <3>3, FS_Subset
    <3>7. Cardinality(A) \in Nat /\ Cardinality(B) \in Nat /\ Cardinality(A \cap B) \in Nat
      BY <3>3, <3>4, <3>6, FS_CardinalityType
    <3>8. IsFiniteSet(r) /\ IsFiniteSet(r \ {x})
      BY FS_Subset
    <3>9. Sigma(c, r) = c[x] + Sigma(c, r \ {x})
      BY <1>1, <3>8, <3>1, SigmaFrom
    <3>10. Sigma(c, r \ {x}) \in Nat
      BY <1>1, <3>8, SigmaType
    <3>11. Cardinality(U(r)) <= Sigma(c, r)
      BY <3>2, <3>3, <3>4, <3>5, <3>7, <3>9, <3>10
    <3> QED BY <3>2, <3>5, <3>11
  <2> QED BY <2>1, <2>2
<1> HIDE DEF P
<1>3. Bad = {}
  <2> SUFFICES ASSUME Bad # {} PROVE FALSE
    OBVIOUS
  <2>1. PICK r \in Bad : \A x \in r : r \ {x} \notin Bad
    BY SmallestSubset
  <2>2. \A x \in r : P(r \ {x})
    BY <2>1
  <2> QED BY <1>2, <2>1, <2>2
<1>4. P(S)
  BY <1>3
<1> QED BY <1>4 DEF P

LEMMA NeighbourFacts ==
  ASSUME NEW H, GoodHypergraph(H), NEW max_m, NEW u
  PROVE  /\ Neighbours(H, max_m, u) \subseteq Vertices(H) \ {u}
         /\ IsFiniteSet(Neighbours(H, max_m, u))
         /\ \A v : v \in Neighbours(H, max_m, u)
                   <=> /\ u # v
                       /\ \E e \in ToSet(H.he) : /\ {u, v} \subseteq e
                                                 /\ max_m = 0 \/ Cardinality(e) <= max_m
<1>1. H.n \in Nat /\ \A e \in ToSet(H.he) : e \subseteq Vertices(H)
  BY DEF GoodHypergraph, ToSet
<1>2. \A v : v \in Neighbours(H, max_m, u)
             <=> /\ u # v
                 /\ \E e \in ToSet(H.he) : /\ {u, v} \subseteq e
                                           /\ max_m = 0 \/ Cardinality(e) <= max_m
  BY DEF Neighbours
<1>3. Neighbours(H, max_m, u) \subseteq Vertices(H) \ {u}
  BY <1>1, <1>2
<1>4. IsFiniteSet(Vertices(H))
  BY <1>1, UpToCardinality DEF Vertices
<1> QED BY <1>2, <1>3, <1>4, FS_Subset

LEMMA BoundHolds ==
  ASSUME NEW H, GoodHypergraph(H), NEW max_m, NEW asked \in Nat
  PROVE  /\ Directed(Adjacency(H, max_m, asked)) <= UpperBound(H, max_m)
         /\ UpperBound(H, max_m) \in Nat
<1> DEFINE V == Vertices(H)
           C == {e \in DOMAIN H.he : max_m = 0 \/ Cardinality(H.he[e]) <= max_m}
           d == [u \in V |-> Cardinality(Neighbours(H, max_m, u))]
           size(e) == Cardinality(H.he[e])
           M == [u \in V |-> [e \in C |-> IF u \in H.he[e] THEN size(e) - 1 ELSE 0]]
           entries == [e \in C |-> size(e) * (size(e) - 1)]
           cols == [e \in C |-> Sigma([u \in V |-> M[u][e]], V)]
           rows == [u \in V |-> Sigma(M[u], C)]
<1>1. /\ H.n \in Nat /\ \A e \in DOMAIN H.he : H.he[e] \subseteq V
      /\ DOMAIN H.he = 1 .. Len(H.he) /\ Len(H.he) \in Nat
  BY DEF GoodHypergraph
<1>2. IsFiniteSet(V) /\ IsFiniteSet(C)
  <2>1. IsFiniteSet(V)
    BY <1>1, UpToCardinality DEF Vertices
  <2>2. 1 \in Int /\ Len(H.he) \in Int
    BY <1>1
  <2>3. IsFiniteSet(1 .. Len(H.he))
    BY <2>2, FS_Interval
  <2> QED BY <1>1, <2>1, <2>3, FS_Subset
<1>3. \A e \in C : IsFiniteSet(H.he[e]) /\ size(e) \in Nat
  BY <1>1, <1>2, FS_Subset, FS_CardinalityType
<1>4. \A u \in V : \A e \in C : M[u][e] = IF u \in H.he[e] THEN size(e) - 1 ELSE 0
  OBVIOUS
<1>5. \A u \in V : \A e \in C : M[u][e] \in Nat
  <2> SUFFICES ASSUME NEW u \in V, NEW e \in C, u \in H.he[e] PROVE size(e) - 1 \in Nat
    BY <1>4
  <2>1. size(e) # 0
    BY <1>3, FS_EmptySet
  <2> QED BY <1>3, <2>1
<1>6. /\ UpperBound(H, max_m) = Sigma(entries, C)
      /\ Directed(Adjacency(H, max_m, asked)) = Sigma(d, V)
  <2>1. UpperBound(H, max_m) = Sigma(entries, C)
    BY DEF UpperBound, Sigma
  <2>2. Adjacency(H, max_m, asked) = [u \in V |-> Sorted(Neighbours(H, max_m, u))]
    BY <1>1, AdjacencyIs
  <2>3. Degrees(Adjacency(H, max_m, asked)) = d
    <3>1. \A u \in V : Len(Sorted(Neighbours(H, max_m, u))) = Cardinality(Neighbours(H, max_m, u))
      <4> SUFFICES ASSUME NEW u \in V
                   PROVE Len(Sorted(Neighbours(H, max_m, u))) = Cardinality(Neighbours(H, max_m, u))
        OBVIOUS
      <4>1. IsFiniteSet(Neighbours(H, max_m, u)) /\ Neighbours(H, max_m, u) \subseteq V
        BY NeighbourFacts
      <4>2. V \subseteq Int
        BY DEF Vertices
      <4>3. Neighbours(H, max_m, u) \subseteq Int
        BY <4>1, <4>2
      <4> QED BY <4>1, <4>3, SortedList
    <3> HIDE DEF V
    <3> QED BY <2>2, <3>1 DEF Degrees
  <2>4. DOMAIN Adjacency(H, max_m, asked) = V
    BY <2>2
  <2> QED BY <2>1, <2>3, <2>4 DEF Directed, Sigma
<1> HIDE DEF M, V, C, size
<1>7. ASSUME NEW u \in V PROVE d[u] \in Nat /\ rows[u] \in Nat /\ d[u] <= rows[u]
  <2> DEFINE N == Neighbours(H, max_m, u)
             F == [e \in C |-> IF u \in H.he[e] THEN H.he[e] \ {u} ELSE {}]
  <2>1. IsFiniteSet(N) /\ Cardinality(N) \in Nat
    BY NeighbourFacts, FS_CardinalityType
  <2>2. N = UNION {F[e] : e \in C}
    <3>1. \A v : v \in N <=> v # u /\ \E e \in C : u \in H.he[e] /\ v \in H.he[e]
      BY DEF Neighbours, ToSet, C
    <3>2. \A v : v \in UNION {F[e] : e \in C} <=> v # u /\ \E e \in C : u \in H.he[e] /\ v \in H.he[e]
      OBVIOUS
    <3> HIDE DEF N, F
    <3> QED BY <3>1, <3>2
  <2>3. \A e \in C : IsFiniteSet(F[e]) /\ M[u][e] = Cardinality(F[e])
    <3> SUFFICES ASSUME NEW e \in C PROVE IsFiniteSet(F[e]) /\ M[u][e] = Cardinality(F[e])
      OBVIOUS
    <3>1. CASE u \in H.he[e]
      <4>1. F[e] = H.he[e] \ {u} /\ M[u][e] = size(e) - 1
        BY <1>4, <3>1
      <4> QED BY <1>3, <3>1, <4>1, FS_RemoveElement DEF size
    <3>2. CASE u \notin H.he[e]
      <4>1. F[e] = {} /\ M[u][e] = 0
        BY <1>4, <3>2
      <4> QED BY <4>1, FS_EmptySet
    <3> QED BY <3>1, <3>2
  <2> HIDE DEF N, F
  <2>4. Cardinality(N) <= Sigma(M[u], C)
    BY <1>2, <2>2, <2>3, UnionBound
  <2>5. Sigma(M[u], C) \in Nat
    BY <1>2, <1>5, SigmaType
  <2> QED BY <2>1, <2>4, <2>5 DEF N
<1>8. ASSUME NEW e \in C PROVE cols[e] = entries[e]
  <2> DEFINE f == [u \in V |-> M[u][e]]
             T == H.he[e]
             k == size(e) - 1
  <2>1. T \subseteq V /\ IsFiniteSet(T) /\ size(e) = Cardinality(T) /\ size(e) \in Nat /\ k \in Int
    BY <1>1, <1>3 DEF C, size
  <2>2. \A u \in V : f[u] \in Int /\ f[u] = M[u][e]
    BY <1>5
  <2>3. (\A u \in V \ T : f[u] = 0) /\ (\A u \in T : f[u] = k)
    BY <1>4, <2>1, <2>2
  <2> HIDE DEF f, k, T
  <2>4. Sigma(f, V) = Sigma(f, T)
    BY <1>2, <2>1, <2>2, <2>3, SigmaDrop
  <2>5. Sigma(f, T) = Cardinality(T) * k
    BY <2>1, <2>3, SigmaConstant
  <2> QED BY <2>1, <2>4, <2>5 DEF f, k
<1>9. Sigma(rows, V) = Sigma(cols, C)
  <2>1. \A u \in V : \A e \in C : M[u][e] \in Int
    BY <1>5
  <2>2. Sigma([u \in V |-> Sigma(M[u], C)], V)
        = Sigma([e \in C |-> Sigma([u \in V |-> M[u][e]], V)], C)
    BY <1>2, <2>1, SigmaSwap
  <2> QED BY <2>2
<1>12. \A e \in C : cols[e] \in Nat
  <2> SUFFICES ASSUME NEW e \in C PROVE Sigma([u \in V |-> M[u][e]], V) \in Nat
    OBVIOUS
  <2> DEFINE f == [u \in V |-> M[u][e]]
  <2>1. \A u \in V : f[u] \in Nat
    BY <1>5
  <2> HIDE DEF f
  <2>2. Sigma(f, V) \in Nat
    BY <1>2, <2>1, SigmaType
  <2> QED BY <2>2 DEF f
<1> HIDE DEF d, rows, cols, entries
<1>13. Sigma(entries, C) \in Nat
  <2>1. \A e \in C : entries[e] \in Nat
    BY <1>8, <1>12
  <2> QED BY <1>2, <2>1, SigmaType
<1>10. Sigma(d, V) <= Sigma(rows, V)
  BY <1>2, <1>7, SigmaMonotone
<1>11. Sigma(cols, C) = Sigma(entries, C)
  BY <1>2, <1>8, SigmaAgrees
<1> QED BY <1>6, <1>9, <1>10, <1>11, <1>13

-----------------------------------------------------------------------------
(* What motivo-gaifman writes. *)
Wanted(H, max_m, excluded, u) ==
  {v \in Neighbours(H, max_m, u) : Edge(u, v) \notin excluded}

Listing(lists, H, max_m, excluded) ==
  /\ DOMAIN lists = 0 .. H.n - 1
  /\ \A u \in 0 .. H.n - 1 : ListOfSet(lists[u], Wanted(H, max_m, excluded, u))

ListsOf(adj, omit) ==
  [u \in DOMAIN adj |-> IF omit = {} THEN adj[u] ELSE Kept(u, adj[u], omit)]

LEMMA ListingIs ==
  ASSUME NEW H, GoodHypergraph(H), NEW max_m, NEW excluded,
         NEW lists, Listing(lists, H, max_m, excluded)
  PROVE  /\ ListsFor(lists, H.n)
         /\ \A u \in 0 .. H.n - 1 : Increasing(lists[u])
         /\ \A u, v \in 0 .. H.n - 1 :
              /\ v \in ToSet(lists[u]) <=> u \in ToSet(lists[v])
              /\ v \in ToSet(lists[u])
                   <=> /\ u # v /\ Edge(u, v) \notin excluded
                       /\ \E e \in ToSet(H.he) : /\ {u, v} \subseteq e
                                                 /\ max_m = 0 \/ Cardinality(e) <= max_m
<1>1. \A u \in 0 .. H.n - 1 : /\ lists[u] \in Seq(Int) /\ Increasing(lists[u])
                              /\ ToSet(lists[u]) = Wanted(H, max_m, excluded, u)
  BY DEF Listing, ListOfSet
<1>2. ListsFor(lists, H.n)
  BY <1>1 DEF Listing, ListsFor
<1>3. ASSUME NEW u \in 0 .. H.n - 1, NEW v \in 0 .. H.n - 1
      PROVE  v \in ToSet(lists[u])
                   <=> /\ u # v /\ Edge(u, v) \notin excluded
                       /\ \E e \in ToSet(H.he) : /\ {u, v} \subseteq e
                                                 /\ max_m = 0 \/ Cardinality(e) <= max_m
  <2>1. v \in ToSet(lists[u]) <=> v \in Neighbours(H, max_m, u) /\ Edge(u, v) \notin excluded
    BY <1>1 DEF Wanted
  <2>2. v \in Neighbours(H, max_m, u)
                   <=> /\ u # v
                       /\ \E e \in ToSet(H.he) : /\ {u, v} \subseteq e
                                                 /\ max_m = 0 \/ Cardinality(e) <= max_m
    BY NeighbourFacts
  <2> QED BY <2>1, <2>2
<1>4. ASSUME NEW u \in 0 .. H.n - 1, NEW v \in 0 .. H.n - 1
      PROVE  v \in ToSet(lists[u]) <=> u \in ToSet(lists[v])
  <2>1. u # v => Edge(u, v) = Edge(v, u)
    BY DEF Edge
  <2>2. \A e : {u, v} \subseteq e <=> {v, u} \subseteq e
    OBVIOUS
  <2> QED BY <1>3, <2>1, <2>2
<1> QED BY <1>1, <1>2, <1>3, <1>4

(* The lists of motivo-gaifman are those that were asked for, and what is  *)
(* excluded does not make them longer.                                     *)
LEMMA GaifmanLists ==
  ASSUME NEW H, GoodHypergraph(H), NEW max_m, NEW asked \in Nat,
         NEW excluded, IsFiniteSet(excluded), excluded \subseteq Nat \X Nat
  PROVE  LET adj == Adjacency(H, max_m, asked)
             lists == ListsOf(adj, excluded)
         IN  /\ Listing(lists, H, max_m, excluded)
             /\ Len(Entries(lists)) <= Directed(adj)
<1> DEFINE adj == Adjacency(H, max_m, asked)
           lists == ListsOf(adj, excluded)
           V == 0 .. H.n - 1
           N(u) == Neighbours(H, max_m, u)
<1>1. H.n \in Nat /\ adj = [u \in V |-> Sorted(N(u))]
  BY AdjacencyIs DEF GoodHypergraph, Vertices
<1> HIDE DEF adj
<1>2. lists = [u \in V |-> IF excluded = {} THEN adj[u] ELSE Kept(u, adj[u], excluded)]
  BY <1>1 DEF ListsOf
<1> HIDE DEF lists
<1>3. ASSUME NEW u \in V
      PROVE  /\ ListOfSet(lists[u], Wanted(H, max_m, excluded, u))
             /\ Len(lists[u]) <= Len(adj[u]) /\ Len(adj[u]) \in Nat /\ adj[u] \in Seq(Int)
  <2>1. /\ N(u) \subseteq Nat \ {u} /\ N(u) \subseteq Int /\ IsFiniteSet(N(u)) /\ u \in Nat
    BY NeighbourFacts DEF Vertices
  <2>2. ListOfSet(Sorted(N(u)), N(u))
    BY <2>1, SortedList
  <2>3. adj[u] = Sorted(N(u)) /\ adj[u] \in Seq(Int) /\ Len(adj[u]) \in Nat
    BY <1>1, <2>2 DEF ListOfSet
  <2>4. Wanted(H, max_m, excluded, u) = {v \in N(u) : Edge(u, v) \notin excluded}
    BY DEF Wanted
  <2> HIDE DEF N
  <2>5. CASE excluded = {}
    <3>1. lists[u] = adj[u]
      BY <1>2, <2>5
    <3>2. {v \in N(u) : Edge(u, v) \notin excluded} = N(u)
      BY <2>5
    <3>3. ListOfSet(lists[u], Wanted(H, max_m, excluded, u))
      BY <2>2, <2>3, <2>4, <3>1, <3>2
    <3>4. Len(lists[u]) <= Len(adj[u])
      BY <2>3, <3>1
    <3> QED BY <2>3, <3>3, <3>4
  <2>6. CASE excluded # {}
    <3>1. lists[u] = Kept(u, adj[u], excluded)
      BY <1>2, <2>6
    <3>2. ListOfSet(adj[u], N(u))
      BY <2>2, <2>3
    <3>3. /\ ListOfSet(Kept(u, adj[u], excluded), {v \in N(u) : Edge(u, v) \notin excluded})
          /\ Len(Kept(u, adj[u], excluded)) <= Len(adj[u])
      BY <2>1, <3>2, KeptIs
    <3>4. ListOfSet(lists[u], Wanted(H, max_m, excluded, u))
      BY <2>4, <3>1, <3>3
    <3> QED BY <2>3, <3>1, <3>3, <3>4
  <2>7. ListOfSet(lists[u], Wanted(H, max_m, excluded, u))
    BY <2>5, <2>6
  <2>8. Len(lists[u]) <= Len(adj[u])
    BY <2>5, <2>6
  <2> QED BY <2>3, <2>7, <2>8
<1>4. Listing(lists, H, max_m, excluded)
  BY <1>2, <1>3 DEF Listing
<1>5. ListsFor(lists, H.n)
  BY <1>4, ListingIs
<1>6. Len(Entries(lists)) = Directed(lists)
  BY <1>1, <1>5, EntriesFacts
<1>7. Directed(lists) <= Directed(adj)
  <2>1. IsFiniteSet(V)
    BY <1>1, UpToCardinality
  <2>2. DOMAIN lists = V /\ DOMAIN adj = V
    BY <1>1, <1>2
  <2>3. \A u \in V : /\ Degrees(lists)[u] = Len(lists[u]) /\ Degrees(adj)[u] = Len(adj[u])
    BY <2>2 DEF Degrees
  <2>4. \A u \in V : Len(lists[u]) \in Nat
    <3>1. \A u \in V : lists[u] \in Seq(Int)
      BY <1>3 DEF ListOfSet
    <3> QED BY <3>1
  <2>5. \A u \in V : /\ Degrees(lists)[u] \in Nat /\ Degrees(adj)[u] \in Nat
                     /\ Degrees(lists)[u] <= Degrees(adj)[u]
    BY <1>3, <2>3, <2>4
  <2>6. Sigma(Degrees(lists), V) <= Sigma(Degrees(adj), V)
    BY <2>1, <2>5, SigmaMonotone
  <2> QED BY <2>2, <2>6 DEF Directed, Sigma
<1> QED BY <1>4, <1>6, <1>7 DEF lists, adj

-----------------------------------------------------------------------------
(* What is read back from a dump. *)

Less(seq, v) == {i \in DOMAIN seq : seq[i] < v}
AtMost(seq, v) == {i \in DOMAIN seq : seq[i] <= v}
IsAt(seq, k, v) == Cardinality(Less(seq, v)) < k /\ Cardinality(AtMost(seq, v)) >= k

LEMMA LessUpTo ==
  ASSUME NEW seq \in Seq(Int), NEW v \in Int
  PROVE  /\ IsFiniteSet(Less(seq, v)) /\ Cardinality(Less(seq, v)) \in 0 .. Len(seq)
         /\ IsFiniteSet(AtMost(seq, v)) /\ Cardinality(AtMost(seq, v)) \in 0 .. Len(seq)
         /\ (\A i \in DOMAIN seq : seq[i] <= v) => Cardinality(AtMost(seq, v)) = Len(seq)
         /\ v \in ToSet(seq) => Cardinality(Less(seq, v)) < Cardinality(AtMost(seq, v))
         /\ \A w \in Int : w < v => Cardinality(AtMost(seq, w)) <= Cardinality(Less(seq, v))
<1> DEFINE n == Len(seq)
<1>1. n \in Nat /\ DOMAIN seq = 1 .. n /\ \A i \in 1 .. n : seq[i] \in Int
  OBVIOUS
<1>2. IsFiniteSet(1 .. n) /\ Cardinality(1 .. n) = n
  <2>1. 1 \in Int /\ n \in Int
    BY <1>1
  <2>2. IsFiniteSet(1 .. n) /\ Cardinality(1 .. n) = IF 1 > n THEN 0 ELSE n - 1 + 1
    BY <2>1, FS_Interval
  <2> HIDE DEF n
  <2> QED BY <1>1, <2>2
<1> HIDE DEF n
<1>3. \A S \in SUBSET (1 .. n) : IsFiniteSet(S) /\ Cardinality(S) \in 0 .. n
  <2> SUFFICES ASSUME NEW S \in SUBSET (1 .. n) PROVE IsFiniteSet(S) /\ Cardinality(S) \in 0 .. n
    OBVIOUS
  <2>1. IsFiniteSet(S) /\ Cardinality(S) <= n
    BY <1>2, FS_Subset
  <2>2. Cardinality(S) \in Nat
    BY <2>1, FS_CardinalityType
  <2> QED BY <1>1, <2>1, <2>2
<1>4. \A w : Less(seq, w) \in SUBSET (1 .. n) /\ AtMost(seq, w) \in SUBSET (1 .. n)
  BY <1>1 DEF Less, AtMost
<1>5. (\A i \in DOMAIN seq : seq[i] <= v) => Cardinality(AtMost(seq, v)) = n
  <2> SUFFICES ASSUME \A i \in DOMAIN seq : seq[i] <= v PROVE Cardinality(AtMost(seq, v)) = n
    OBVIOUS
  <2>1. AtMost(seq, v) = 1 .. n
    BY <1>1 DEF AtMost
  <2> QED BY <1>2, <2>1
<1>6. v \in ToSet(seq) => Cardinality(Less(seq, v)) < Cardinality(AtMost(seq, v))
  <2> SUFFICES ASSUME v \in ToSet(seq) PROVE Cardinality(Less(seq, v)) < Cardinality(AtMost(seq, v))
    OBVIOUS
  <2>1. PICK i \in 1 .. n : seq[i] = v
    BY <1>1 DEF ToSet
  <2>2. Less(seq, v) \subseteq AtMost(seq, v)
    BY <1>1 DEF Less, AtMost
  <2>3. i \in AtMost(seq, v) /\ i \notin Less(seq, v)
    BY <1>1, <2>1 DEF Less, AtMost
  <2>4. IsFiniteSet(AtMost(seq, v)) /\ Less(seq, v) # AtMost(seq, v)
    BY <1>3, <1>4, <2>3
  <2>5. Cardinality(Less(seq, v)) <= Cardinality(AtMost(seq, v))
    BY <2>2, <2>4, FS_Subset
  <2>6. Cardinality(Less(seq, v)) # Cardinality(AtMost(seq, v))
    BY <2>2, <2>4, FS_Subset
  <2>7. Cardinality(Less(seq, v)) \in Int /\ Cardinality(AtMost(seq, v)) \in Int
    BY <1>1, <1>3, <1>4
  <2> QED BY <2>5, <2>6, <2>7
<1>7. ASSUME NEW w \in Int, w < v
      PROVE  Cardinality(AtMost(seq, w)) <= Cardinality(Less(seq, v))
  <2>1. AtMost(seq, w) \subseteq Less(seq, v)
    BY <1>1, <1>7 DEF Less, AtMost
  <2>2. IsFiniteSet(Less(seq, v))
    BY <1>3, <1>4
  <2> QED BY <2>1, <2>2, FS_Subset
<1> QED BY <1>3, <1>4, <1>5, <1>6, <1>7 DEF n

(* The order statistics of a sequence exist, do not decrease, and are all  *)
(* of its elements.                                                        *)
LEMMA InOrderIs ==
  ASSUME NEW seq \in Seq(Int)
  PROVE  /\ InOrder(seq) \in Seq(Int) /\ DOMAIN InOrder(seq) = DOMAIN seq
         /\ \A k \in DOMAIN seq : /\ InOrder(seq)[k] \in ToSet(seq)
                                  /\ IsAt(seq, k, InOrder(seq)[k])
<1> DEFINE n == Len(seq)
           At(k, v) == Cardinality({i \in DOMAIN seq : seq[i] < v}) < k
                       /\ Cardinality({i \in DOMAIN seq : seq[i] <= v}) >= k
<1>1. n \in Nat /\ DOMAIN seq = 1 .. n /\ \A i \in 1 .. n : seq[i] \in Int
  OBVIOUS
<1>2. ToSet(seq) \subseteq Int
  BY <1>1 DEF ToSet
<1>3. IsFiniteSet(ToSet(seq))
  <2>1. IsFiniteSet(DOMAIN seq)
    <3>1. 1 \in Int /\ n \in Int
      BY <1>1
    <3> QED BY <1>1, <3>1, FS_Interval
  <2>2. ToSet(seq) = {seq[i] : i \in DOMAIN seq}
    BY DEF ToSet
  <2>3. IsFiniteSet({seq[i] : i \in DOMAIN seq})
    BY <2>1, ImageFinite
  <2> QED BY <2>2, <2>3
<1>4. ASSUME NEW k \in 1 .. n PROVE \E v \in ToSet(seq) : IsAt(seq, k, v)
  <2> DEFINE S == {v \in ToSet(seq) : Cardinality(AtMost(seq, v)) >= k}
  <2>1. seq[k] \in ToSet(seq)
    BY <1>1 DEF ToSet
  <2>2. Max(ToSet(seq)) \in ToSet(seq) /\ \A v \in ToSet(seq) : v <= Max(ToSet(seq))
    BY <1>2, <1>3, <2>1, MaxFacts
  <2>3. Max(ToSet(seq)) \in S
    <3>1. \A i \in DOMAIN seq : seq[i] <= Max(ToSet(seq))
      BY <2>2 DEF ToSet
    <3>2. Max(ToSet(seq)) \in Int
      BY <1>2, <2>2
    <3>3. Cardinality(AtMost(seq, Max(ToSet(seq)))) = Len(seq)
      BY <3>1, <3>2, LessUpTo
    <3> QED BY <2>2, <3>3, <1>1
  <2>4. S \subseteq Int /\ IsFiniteSet(S) /\ S # {}
    BY <1>2, <1>3, <2>3, FS_Subset
  <2>5. PICK m \in S : \A v \in S : m <= v
    <3> DEFINE c == Cardinality(S)
               m == Sorted(S)[1]
    <3>1. /\ c \in Nat /\ Sorted(S) \in [1 .. c -> S]
          /\ \A i, j \in 1 .. c : i < j => Sorted(S)[i] < Sorted(S)[j]
          /\ \A v \in S : \E q \in 1 .. c : Sorted(S)[q] = v
      BY <2>4, SortedFacts
    <3>2. c # 0
      BY <2>4, FS_EmptySet
    <3> HIDE DEF S, c
    <3>3. 1 \in 1 .. c
      BY <3>1, <3>2
    <3>4. m \in S
      BY <3>1, <3>3
    <3>5. ASSUME NEW v \in S PROVE m <= v
      <4>1. PICK q \in 1 .. c : Sorted(S)[q] = v
        BY <3>1
      <4>2. q = 1 \/ 1 < q
        BY <3>1
      <4>3. m \in Int /\ v \in Int
        BY <2>4, <3>4
      <4>4. CASE q = 1
        BY <4>1, <4>3, <4>4
      <4>5. CASE 1 < q
        <5>1. Sorted(S)[1] < Sorted(S)[q]
          BY <3>1, <3>3, <4>5
        <5> QED BY <4>1, <4>3, <5>1
      <4> QED BY <4>2, <4>4, <4>5
    <3> QED BY <3>4, <3>5
  <2>6. m \in ToSet(seq) /\ m \in Int /\ Cardinality(AtMost(seq, m)) >= k
    BY <2>4, <2>5
  <2>7. Cardinality(Less(seq, m)) < k
    <3> DEFINE L == {seq[i] : i \in Less(seq, m)}
    <3>1. IsFiniteSet(Less(seq, m)) /\ Cardinality(Less(seq, m)) \in 0 .. n
      BY <2>6, LessUpTo
    <3>2. L \subseteq ToSet(seq)
      BY DEF Less, ToSet
    <3>3. L \subseteq Int /\ IsFiniteSet(L)
      BY <1>2, <1>3, <3>2, FS_Subset
    <3>4. CASE Less(seq, m) = {}
      <4>1. Cardinality(Less(seq, m)) = 0
        BY <3>4, FS_EmptySet
      <4> QED BY <4>1
    <3>5. CASE Less(seq, m) # {}
      <4>1. L # {}
        BY <3>5
      <4>2. Max(L) \in L /\ \A v \in L : v <= Max(L)
        BY <3>3, <4>1, MaxFacts
      <4>3. Max(L) \in ToSet(seq) /\ Max(L) \in Int
        BY <3>2, <3>3, <4>2
      <4>4. Max(L) < m
        BY <4>2 DEF Less
      <4>5. ~(m <= Max(L))
        BY <2>6, <4>3, <4>4
      <4>6. Max(L) \notin S
        BY <2>5, <4>5
      <4>7. ~(Cardinality(AtMost(seq, Max(L))) >= k)
        BY <4>3, <4>6
      <4>8. IsFiniteSet(AtMost(seq, Max(L))) /\ Cardinality(AtMost(seq, Max(L))) \in 0 .. n
        BY <4>3, LessUpTo
      <4>9. Less(seq, m) \subseteq AtMost(seq, Max(L))
        BY <4>2 DEF Less, AtMost
      <4>10. Cardinality(Less(seq, m)) <= Cardinality(AtMost(seq, Max(L)))
        BY <4>8, <4>9, FS_Subset
      <4> HIDE DEF L, S
      <4> QED BY <3>1, <4>7, <4>8, <4>10
    <3> QED BY <3>4, <3>5
  <2> QED BY <2>6, <2>7 DEF IsAt
<1>5. \A k, v : IsAt(seq, k, v) <=> At(k, v)
  BY DEF IsAt, Less, AtMost
<1>6. InOrder(seq) = [k \in 1 .. n |-> CHOOSE v \in ToSet(seq) : At(k, v)]
  BY Zenon, <1>1 DEF InOrder
<1>7. ASSUME NEW k \in 1 .. n
      PROVE  InOrder(seq)[k] \in ToSet(seq) /\ IsAt(seq, k, InOrder(seq)[k])
  <2>1. InOrder(seq)[k] = CHOOSE v \in ToSet(seq) : At(k, v)
    BY <1>6
  <2> HIDE DEF At
  <2>2. \E v \in ToSet(seq) : At(k, v)
    BY <1>4, <1>5
  <2>3. InOrder(seq)[k] \in ToSet(seq) /\ At(k, InOrder(seq)[k])
    BY Zenon, <2>1, <2>2
  <2> QED BY <1>5, <2>3
<1> HIDE DEF At
<1>8. DOMAIN InOrder(seq) = 1 .. n
  BY <1>6
<1>9. InOrder(seq) \in Seq(Int)
  <2>1. \A k \in 1 .. n : InOrder(seq)[k] \in Int
    BY <1>2, <1>7
  <2>2. InOrder(seq) = [k \in 1 .. n |-> InOrder(seq)[k]]
    BY <1>6
  <2> QED BY <1>1, <2>1, <2>2
<1> QED BY <1>1, <1>7, <1>8, <1>9

LEMMA InOrderFacts ==
  ASSUME NEW seq \in Seq(Int)
  PROVE  /\ InOrder(seq) \in Seq(Int)
         /\ IsInjective(InOrder(seq)) => ListOfSet(InOrder(seq), ToSet(seq))
<1> DEFINE n == Len(seq)
           r == InOrder(seq)
<1>1. /\ n \in Nat /\ DOMAIN seq = 1 .. n /\ ToSet(seq) \subseteq Int
      /\ r \in Seq(Int) /\ DOMAIN r = 1 .. n
      /\ \A k \in 1 .. n : r[k] \in ToSet(seq) /\ IsAt(seq, k, r[k])
  BY InOrderIs DEF ToSet
<1>2. \A v \in Int : Cardinality(Less(seq, v)) \in 0 .. n /\ Cardinality(AtMost(seq, v)) \in 0 .. n
  BY LessUpTo
<1>3. \A v, w \in Int : w < v => Cardinality(AtMost(seq, w)) <= Cardinality(Less(seq, v))
  BY LessUpTo
<1>4. \A v \in ToSet(seq) : Cardinality(Less(seq, v)) < Cardinality(AtMost(seq, v))
  BY <1>1, LessUpTo
<1> HIDE DEF n, r
<1>5. ASSUME NEW k \in 1 .. n, NEW l \in 1 .. n, k < l PROVE r[k] <= r[l]
  <2>1. r[k] \in Int /\ r[l] \in Int
    BY <1>1
  <2>2. Cardinality(Less(seq, r[k])) < k /\ Cardinality(AtMost(seq, r[l])) >= l
    BY <1>1 DEF IsAt
  <2>3. Cardinality(Less(seq, r[k])) \in 0 .. n /\ Cardinality(AtMost(seq, r[l])) \in 0 .. n
    BY <1>2, <2>1
  <2>4. r[l] < r[k] => Cardinality(AtMost(seq, r[l])) <= Cardinality(Less(seq, r[k]))
    BY <1>3, <2>1
  <2> QED BY <1>1, <1>5, <2>1, <2>2, <2>3, <2>4
<1>6. ASSUME NEW v \in ToSet(seq) PROVE \E k \in 1 .. n : r[k] = v
  <2> DEFINE c == Cardinality(Less(seq, v))
             u == Cardinality(AtMost(seq, v))
  <2>1. v \in Int
    BY <1>1
  <2>2. c \in 0 .. n /\ u \in 0 .. n /\ c < u
    BY <1>2, <1>4, <2>1
  <2> HIDE DEF c, u
  <2>3. c + 1 \in 1 .. n
    BY <1>1, <2>2
  <2> DEFINE w == r[c + 1]
  <2>4. w \in Int /\ IsAt(seq, c + 1, w)
    BY <1>1, <2>3
  <2> HIDE DEF w
  <2>5. Cardinality(Less(seq, w)) < c + 1 /\ Cardinality(AtMost(seq, w)) >= c + 1
    BY <2>4 DEF IsAt
  <2>6. Cardinality(Less(seq, w)) \in 0 .. n /\ Cardinality(AtMost(seq, w)) \in 0 .. n
    BY <1>2, <2>4
  <2>7. w < v => Cardinality(AtMost(seq, w)) <= c
    BY <1>3, <2>1, <2>4 DEF c
  <2>8. v < w => u <= Cardinality(Less(seq, w))
    BY <1>3, <2>1, <2>4 DEF u
  <2>9. w = v
    BY <1>1, <2>1, <2>2, <2>4, <2>5, <2>6, <2>7, <2>8
  <2> QED BY <2>3, <2>9 DEF w
<1>7. ToSet(r) = ToSet(seq)
  <2>1. ToSet(r) = {r[k] : k \in 1 .. n}
    BY <1>1 DEF ToSet
  <2> QED BY <1>1, <1>6, <2>1
<1>8. IsInjective(r) => Increasing(r)
  <2> SUFFICES ASSUME IsInjective(r), NEW i \in 1 .. n, NEW j \in 1 .. n, i < j PROVE r[i] < r[j]
    BY <1>1 DEF Increasing
  <2>1. r[i] # r[j]
    <3>1. i # j
      BY <1>1
    <3> QED BY <1>1, <3>1 DEF IsInjective
  <2>2. r[i] \in Int /\ r[j] \in Int /\ r[i] <= r[j]
    BY <1>1, <1>5
  <2> QED BY <2>1, <2>2
<1> QED BY <1>1, <1>7, <1>8 DEF ListOfSet, r


(* The lines of a vertex in a dump. *)
LinesOf(lists, format, k) ==
  IF format = "LOE"
    THEN [i \in 1 .. Len(lists[k - 1]) |-> <<k - 1, lists[k - 1][i]>>]
  ELSE <<<<IF format = "NODE" THEN k - 1 ELSE Len(lists[k - 1])>> \o lists[k - 1]>>

AllLines(lists, format, n) == [k \in 1 .. n |-> LinesOf(lists, format, k)]

LEMMA ListOfIs ==
  ASSUME NEW n \in Nat, NEW lists, ListsFor(lists, n), NEW file, GoodFile(file, lists, n),
         NEW u \in 0 .. n - 1
  PROVE  ListOf(file, u) = lists[u] /\ Degree(Loaded(file), u) = Len(lists[u])
<1> DEFINE ged == file.ged
           b == Before(lists, u)
           e == Before(lists, u + 1)
           s == lists[u]
<1>1. /\ ged \in Seq(Int) /\ \A w \in 0 .. n : Before(lists, w) \in 0 .. Len(ged)
      /\ e = b + Len(s) /\ \A i \in 1 .. Len(s) : ged[b + i] = s[i]
  BY EntriesFacts DEF Placed, GoodFile
<1>2. u \in 0 .. n /\ u + 1 \in 0 .. n
  OBVIOUS
<1>3. Loaded(file).offsets[u] = b /\ Loaded(file).offsets[u + 1] = e
  BY <1>2 DEF GoodFile
<1>4. s \in Seq(Int) /\ Len(s) \in Nat /\ s = [i \in 1 .. Len(s) |-> s[i]]
  BY DEF ListsFor
<1>5. b \in Nat /\ e \in Nat
  BY <1>1, <1>2
<1> HIDE DEF ged, b, e, s
<1>6. SubSeq(ged, b + 1, e) = s
  <2> DEFINE t == SubSeq(ged, b + 1, e)
  <2>0. \A i \in b + 1 .. e : ged[i] \in Int
    <3>1. e \in 0 .. Len(ged)
      BY <1>1, <1>2 DEF e
    <3> QED BY <1>1, <1>5, <3>1
  <2>1. /\ t \in Seq(Int) /\ Len(t) = (IF b + 1 <= e THEN e - (b + 1) + 1 ELSE 0)
        /\ \A i \in 1 .. e - (b + 1) + 1 : t[i] = ged[(b + 1) + i - 1]
    <3>1. b + 1 \in Int /\ e \in Int
      BY <1>5
    <3> QED BY <2>0, <3>1, SubSeqProperties
  <2> HIDE DEF t
  <2>2. e - (b + 1) + 1 = Len(s) /\ Len(t) = Len(s)
    BY <1>1, <1>4, <1>5, <2>1
  <2>3. \A i \in 1 .. Len(s) : ged[(b + 1) + i - 1] = s[i]
    <3>1. \A i \in 1 .. Len(s) : (b + 1) + i - 1 = b + i
      BY <1>5
    <3> QED BY <1>1, <3>1
  <2>4. t = [i \in 1 .. Len(t) |-> t[i]]
    BY <2>1
  <2>5. \A i \in 1 .. Len(s) : t[i] = s[i]
    BY <2>1, <2>2, <2>3
  <2> QED BY <1>4, <2>2, <2>4, <2>5 DEF t
<1>7. e - b = Len(s)
  BY <1>1, <1>4, <1>5
<1> QED BY <1>3, <1>6, <1>7 DEF ListOf, Degree, ged, s

LEMMA DumpIs ==
  ASSUME NEW n \in Nat, NEW lists, ListsFor(lists, n), NEW file, GoodFile(file, lists, n),
         NEW format
  PROVE  /\ Dump(file, format).n = n /\ Dump(file, format).format = format
         /\ Dump(file, format).lines = FlattenSeq(AllLines(lists, format, n))
<1> DEFINE G == Loaded(file)
           line == [k \in 1 .. G.n |-> IF format = "LOE"
                 THEN [i \in 1 .. Degree(G, k - 1) |-> <<k - 1, ListOf(file, k - 1)[i]>>]
                 ELSE <<<<IF format = "NODE" THEN k - 1 ELSE Degree(G, k - 1)>>
                        \o ListOf(file, k - 1)>>]
<1>1. G.n = n
  BY DEF GoodFile
<1>2. Dump(file, format)
      = [n |-> G.n, edges |-> G.edges, format |-> format, lines |-> FlattenSeq(line)]
  BY Zenon DEF Dump
<1>3. \A k \in 1 .. n : ListOf(file, k - 1) = lists[k - 1] /\ Degree(G, k - 1) = Len(lists[k - 1])
  <2>1. \A k \in 1 .. n : k - 1 \in 0 .. n - 1
    OBVIOUS
  <2> QED BY <2>1, ListOfIs
<1>4. line = AllLines(lists, format, n)
  BY <1>1, <1>3 DEF AllLines, LinesOf
<1> HIDE DEF line, G
<1> QED BY <1>1, <1>2, <1>4

(* The lines of each format: what their first numbers say, and the rest.   *)
LEMMA LinesFacts ==
  ASSUME NEW n \in Nat, NEW lists, ListsFor(lists, n), NEW format, NEW k \in 1 .. n
  PROVE  /\ LinesOf(lists, format, k) \in Seq(Seq(Int))
         /\ \A l \in ToSet(LinesOf(lists, format, k)) : l \in Seq(Int) /\ Len(l) > 0
         /\ format = "NODE_DEGREE" => /\ Len(LinesOf(lists, format, k)) = 1
                                      /\ Tail(LinesOf(lists, format, k)[1]) = lists[k - 1]
         /\ format # "NODE_DEGREE" /\ format \in {"LOE", "NODE"} =>
              /\ \A l \in ToSet(LinesOf(lists, format, k)) : l[1] = k - 1
              /\ \A w : w \in ToSet(lists[k - 1])
                        <=> \E l \in ToSet(LinesOf(lists, format, k)) : w \in ToSet(Tail(l))
<1> DEFINE s == lists[k - 1]
           L == LinesOf(lists, format, k)
<1>1. s \in Seq(Int) /\ k - 1 \in Int /\ Len(s) \in Int /\ Len(s) \in Nat
  <2>1. k - 1 \in 0 .. n - 1
    OBVIOUS
  <2> QED BY <2>1 DEF ListsFor
<1>2. L = IF format = "LOE" THEN [i \in 1 .. Len(s) |-> <<k - 1, s[i]>>]
          ELSE <<<<IF format = "NODE" THEN k - 1 ELSE Len(s)>> \o s>>
  BY DEF LinesOf
<1> HIDE DEF s, L
<1>3. ASSUME NEW h \in Int
      PROVE  LET l == <<h>> \o s
             IN  l \in Seq(Int) /\ Len(l) > 0 /\ l[1] = h /\ Tail(l) = s
  <2> DEFINE l == <<h>> \o s
  <2>0. <<h>> \in Seq(Int) /\ Len(<<h>>) = 1 /\ <<h>>[1] = h
    BY <1>3
  <2>1. /\ l \in Seq(Int) /\ Len(l) = 1 + Len(s)
        /\ \A i \in 1 .. 1 : l[i] = <<h>>[i]
        /\ \A i \in 1 .. Len(s) : l[1 + i] = s[i]
    <3>1. /\ l \in Seq(Int) /\ Len(l) = Len(<<h>>) + Len(s)
          /\ \A i \in 1 .. Len(<<h>>) : l[i] = <<h>>[i]
          /\ \A i \in 1 .. Len(s) : l[Len(<<h>>) + i] = s[i]
      BY <1>1, <2>0, ConcatFacts
    <3> HIDE DEF l
    <3> QED BY <2>0, <3>1
  <2> HIDE DEF l
  <2>2. l[1] = h
    BY <2>0, <2>1
  <2>3. Len(l) > 0
    BY <1>1, <2>1
  <2>4. Tail(l) = [i \in 1 .. Len(l) - 1 |-> l[i + 1]]
    <3>1. l # <<>>
      BY <2>3
    <3>2. /\ Tail(l) \in Seq(Int) /\ Len(Tail(l)) = Len(l) - 1
          /\ \A i \in 1 .. Len(Tail(l)) : Tail(l)[i] = l[i + 1]
      BY <2>1, <3>1, HeadTailProperties
    <3> DEFINE t == Tail(l)
    <3>3. t \in Seq(Int)
      BY <3>2
    <3> HIDE DEF t
    <3>4. t = [i \in 1 .. Len(t) |-> t[i]]
      BY <3>3
    <3>5. /\ Len(t) = Len(l) - 1 /\ \A i \in 1 .. Len(t) : t[i] = l[i + 1]
      BY <3>2 DEF t
    <3>6. t = [i \in 1 .. Len(l) - 1 |-> l[i + 1]]
      BY <3>4, <3>5
    <3> QED BY <3>6 DEF t
  <2>5. Tail(l) = s
    <3>1. Len(l) - 1 = Len(s)
      BY <1>1, <2>1
    <3>2. \A i \in 1 .. Len(s) : l[i + 1] = s[i]
      <4>1. \A i \in 1 .. Len(s) : i + 1 = 1 + i
        BY <1>1
      <4> QED BY <2>1, <4>1
    <3>3. s = [i \in 1 .. Len(s) |-> s[i]]
      BY <1>1
    <3> QED BY <2>4, <3>1, <3>2, <3>3
  <2> QED BY <2>1, <2>2, <2>3, <2>5 DEF l
<1>4. CASE format = "LOE"
  <2>1. L = [i \in 1 .. Len(s) |-> <<k - 1, s[i]>>] /\ DOMAIN L = 1 .. Len(s)
    BY <1>2, <1>4
  <2>2. \A i \in 1 .. Len(s) : s[i] \in Int
    BY <1>1
  <2>3. L \in Seq(Seq(Int))
    <3>1. \A i \in 1 .. Len(s) : <<k - 1, s[i]>> \in Seq(Int)
      BY <1>1, <2>2
    <3> QED BY <1>1, <2>1, <3>1
  <2>4. ToSet(L) = {<<k - 1, s[i]>> : i \in 1 .. Len(s)}
    BY <2>1 DEF ToSet
  <2>5. \A i \in 1 .. Len(s) : /\ <<k - 1, s[i]>> \in Seq(Int) /\ Len(<<k - 1, s[i]>>) > 0
                               /\ <<k - 1, s[i]>>[1] = k - 1
                               /\ ToSet(Tail(<<k - 1, s[i]>>)) = {s[i]}
    <3> SUFFICES ASSUME NEW i \in 1 .. Len(s)
                 PROVE  /\ <<k - 1, s[i]>> \in Seq(Int) /\ Len(<<k - 1, s[i]>>) > 0
                        /\ <<k - 1, s[i]>>[1] = k - 1
                        /\ ToSet(Tail(<<k - 1, s[i]>>)) = {s[i]}
      OBVIOUS
    <3>1. Tail(<<k - 1, s[i]>>) = <<s[i]>>
      BY <1>1, <2>2
    <3>2. ToSet(<<s[i]>>) = {s[i]}
      BY DEF ToSet
    <3> QED BY <1>1, <2>2, <3>1, <3>2
  <2>6. \A l \in ToSet(L) : l \in Seq(Int) /\ Len(l) > 0 /\ l[1] = k - 1
    BY <2>4, <2>5
  <2>7. ToSet(s) = {s[i] : i \in 1 .. Len(s)}
    BY <1>1 DEF ToSet
  <2>8. \A w : w \in ToSet(s) <=> \E l \in ToSet(L) : w \in ToSet(Tail(l))
    BY <2>4, <2>5, <2>7
  <2> QED BY <1>4, <2>3, <2>6, <2>8 DEF s, L
<1>5. CASE format # "LOE"
  <2> DEFINE h == IF format = "NODE" THEN k - 1 ELSE Len(s)
             l == <<h>> \o s
  <2>1. h \in Int /\ (format = "NODE" => h = k - 1)
    BY <1>1
  <2>2. L = <<l>>
    BY <1>2, <1>5
  <2>3. l \in Seq(Int) /\ Len(l) > 0 /\ l[1] = h /\ Tail(l) = s
    BY <1>3, <2>1
  <2> HIDE DEF l, h
  <2>4. ToSet(L) = {l} /\ L \in Seq(Seq(Int)) /\ Len(L) = 1 /\ L[1] = l
    BY <2>2, <2>3 DEF ToSet
  <2> QED BY <1>5, <2>1, <2>3, <2>4 DEF s, L
<1> QED BY <1>4, <1>5


LEMMA LinesSeq ==
  ASSUME NEW n \in Nat, NEW lists, ListsFor(lists, n), NEW format
  PROVE  /\ AllLines(lists, format, n) \in Seq(Seq(Seq(Int)))
         /\ Len(AllLines(lists, format, n)) = n /\ DOMAIN AllLines(lists, format, n) = 1 .. n
         /\ FlattenSeq(AllLines(lists, format, n)) \in Seq(Seq(Int))
         /\ \A l : l \in ToSet(FlattenSeq(AllLines(lists, format, n)))
                   <=> \E k \in 1 .. n : l \in ToSet(LinesOf(lists, format, k))
         /\ \E at : FlatAt(FlattenSeq(AllLines(lists, format, n)), AllLines(lists, format, n), at)
<1> DEFINE L == AllLines(lists, format, n)
<1>1. \A k \in 1 .. n : LinesOf(lists, format, k) \in Seq(Seq(Int))
  BY LinesFacts
<1>2. L = [k \in 1 .. n |-> LinesOf(lists, format, k)]
  BY DEF AllLines
<1> HIDE DEF L
<1>3. L \in Seq(Seq(Seq(Int))) /\ Len(L) = n /\ DOMAIN L = 1 .. n
  BY <1>1, <1>2
<1>4. /\ FlattenSeq(L) \in Seq(Seq(Int))
      /\ ToSet(FlattenSeq(L)) = UNION {ToSet(L[k]) : k \in DOMAIN L}
      /\ \E at : FlatAt(FlattenSeq(L), L, at)
  BY <1>3, FlattenFacts
<1>5. \A l : l \in ToSet(FlattenSeq(L)) <=> \E k \in 1 .. n : l \in ToSet(LinesOf(lists, format, k))
  <2>1. \A k \in 1 .. n : L[k] = LinesOf(lists, format, k)
    BY <1>2
  <2> QED BY <1>3, <1>4, <2>1
<1> QED BY <1>3, <1>4, <1>5 DEF L

(* With one line to each vertex, line u + 1 is that of u.                  *)
LEMMA DegreeLines ==
  ASSUME NEW n \in Nat, NEW lists, ListsFor(lists, n), NEW u \in 0 .. n - 1
  PROVE  Tail(FlattenSeq(AllLines(lists, "NODE_DEGREE", n))[u + 1]) = lists[u]
<1> DEFINE L == AllLines(lists, "NODE_DEGREE", n)
           F == FlattenSeq(L)
<1>1. PICK at : FlatAt(F, L, at)
  BY LinesSeq
<1>2. Len(L) = n /\ \A k \in 1 .. n : /\ Len(L[k]) = 1 /\ Tail(L[k][1]) = lists[k - 1]
  <2>1. Len(L) = n
    BY LinesSeq
  <2>2. \A k \in 1 .. n : L[k] = LinesOf(lists, "NODE_DEGREE", k)
    BY DEF AllLines
  <2> HIDE DEF L
  <2> QED BY <2>1, <2>2, LinesFacts
<1> HIDE DEF L, F
<1>3. /\ at \in [0 .. n -> Nat] /\ at[0] = 0
      /\ \A k \in 1 .. n : at[k] = at[k - 1] + 1 /\ F[at[k - 1] + 1] = L[k][1]
  <2>1. /\ at \in [0 .. n -> Nat] /\ at[0] = 0
        /\ \A k \in 1 .. n : /\ at[k] = at[k - 1] + Len(L[k])
                             /\ \A i \in 1 .. Len(L[k]) : F[at[k - 1] + i] = L[k][i]
    BY <1>1, <1>2 DEF FlatAt
  <2>2. ASSUME NEW k \in 1 .. n
        PROVE  at[k] = at[k - 1] + 1 /\ F[at[k - 1] + 1] = L[k][1]
    <3>1. 1 \in 1 .. Len(L[k]) /\ Len(L[k]) = 1
      BY <1>2
    <3> QED BY <2>1, <3>1
  <2> QED BY <2>1, <2>2
<1>4. \A k \in 0 .. n : at[k] = k
  <2> DEFINE Bad == {k \in 0 .. n : at[k] # k}
  <2> SUFFICES ASSUME Bad # {} PROVE FALSE
    OBVIOUS
  <2>0. Bad \subseteq Nat
    OBVIOUS
  <2> HIDE DEF Bad
  <2>1. PICK k \in Bad : \A j \in Bad : k <= j
    BY <2>0, LeastNatural
  <2> USE DEF Bad
  <2>2. k \in 1 .. n
    BY <1>3
  <2>3. k - 1 \in 0 .. n /\ ~(k <= k - 1)
    BY <2>2
  <2>4. at[k - 1] = k - 1
    BY <2>1, <2>3
  <2>5. at[k] = (k - 1) + 1
    BY <1>3, <2>2, <2>4
  <2> QED BY <2>1, <2>2, <2>5
<1>5. u + 1 \in 1 .. n /\ (u + 1) - 1 = u
  OBVIOUS
<1>6. F[u + 1] = L[u + 1][1]
  <2>1. at[u] = u
    BY <1>4
  <2> QED BY <1>3, <1>5, <2>1
<1>7. Tail(L[u + 1][1]) = lists[u]
  BY <1>2, <1>5
<1> QED BY <1>6, <1>7 DEF F, L

(* The lines that begin with a vertex hold its neighbours.                 *)
Sorting(F, u) == FlattenSeq([k \in DOMAIN F |-> IF F[k][1] = u THEN Tail(F[k]) ELSE <<>>])

LEMMA SortingIs ==
  ASSUME NEW n \in Nat, NEW lists, ListsFor(lists, n), NEW u \in 0 .. n - 1,
         NEW format \in {"LOE", "NODE"}
  PROVE  LET F == FlattenSeq(AllLines(lists, format, n))
         IN  Sorting(F, u) \in Seq(Int) /\ ToSet(Sorting(F, u)) = ToSet(lists[u])
<1> DEFINE F == FlattenSeq(AllLines(lists, format, n))
<1>1. /\ F \in Seq(Seq(Int))
      /\ \A l : l \in ToSet(F) <=> \E k \in 1 .. n : l \in ToSet(LinesOf(lists, format, k))
  BY LinesSeq
<1>2. ASSUME NEW k \in 1 .. n
      PROVE  /\ \A l \in ToSet(LinesOf(lists, format, k)) : l \in Seq(Int) /\ Len(l) > 0 /\ l[1] = k - 1
             /\ \A w : w \in ToSet(lists[k - 1])
                        <=> \E l \in ToSet(LinesOf(lists, format, k)) : w \in ToSet(Tail(l))
  <2>1. format # "NODE_DEGREE" /\ format \in {"LOE", "NODE"}
    OBVIOUS
  <2> DEFINE X == LinesOf(lists, format, k)
  <2>2. \A l \in ToSet(X) : l \in Seq(Int) /\ Len(l) > 0
    BY LinesFacts
  <2>3. /\ \A l \in ToSet(X) : l[1] = k - 1
        /\ \A w : w \in ToSet(lists[k - 1]) <=> \E l \in ToSet(X) : w \in ToSet(Tail(l))
    BY <2>1, LinesFacts
  <2> QED BY <2>2, <2>3
<1> HIDE DEF F
<1> DEFINE g == [k \in DOMAIN F |-> IF F[k][1] = u THEN Tail(F[k]) ELSE <<>>]
<1>3. ToSet(F) = {F[k] : k \in DOMAIN F} /\ DOMAIN F = 1 .. Len(F) /\ Len(F) \in Nat
  BY <1>1 DEF ToSet
<1>4. \A k \in DOMAIN F : g[k] \in Seq(Int)
  <2> SUFFICES ASSUME NEW k \in DOMAIN F PROVE g[k] \in Seq(Int)
    OBVIOUS
  <2>1. F[k] \in Seq(Int) /\ Len(F[k]) > 0
    BY <1>1, <1>2, <1>3
  <2>2. F[k] # <<>>
    BY <2>1
  <2>3. Tail(F[k]) \in Seq(Int)
    BY <2>1, <2>2, HeadTailProperties
  <2> QED BY <2>3
<1>5. g \in Seq(Seq(Int)) /\ DOMAIN g = DOMAIN F
  <2>1. g = [k \in 1 .. Len(F) |-> g[k]]
    BY <1>3
  <2> HIDE DEF g
  <2> QED BY <1>3, <1>4, <2>1
<1>6. \A w : (\E k \in DOMAIN F : w \in ToSet(g[k]))
             <=> \E l \in ToSet(F) : l[1] = u /\ w \in ToSet(Tail(l))
  <2>1. ToSet(<<>>) = {}
    BY DEF ToSet
  <2> QED BY <1>3, <2>1
<1>7. Sorting(F, u) = FlattenSeq(g)
  BY DEF Sorting
<1> HIDE DEF g
<1>8. Sorting(F, u) \in Seq(Int) /\ ToSet(Sorting(F, u)) = UNION {ToSet(g[k]) : k \in DOMAIN g}
  BY <1>5, <1>7, FlattenFacts
<1>9. u + 1 \in 1 .. n /\ (u + 1) - 1 = u /\ \A k \in 1 .. n : k - 1 = u <=> k = u + 1
  OBVIOUS
<1>10. \A w : w \in ToSet(lists[u]) <=> \E l \in ToSet(F) : l[1] = u /\ w \in ToSet(Tail(l))
  <2>1. \A l : l \in ToSet(F) /\ l[1] = u <=> l \in ToSet(LinesOf(lists, format, u + 1))
    BY <1>1, <1>2, <1>9
  <2>2. \A w : w \in ToSet(lists[u])
               <=> \E l \in ToSet(LinesOf(lists, format, u + 1)) : w \in ToSet(Tail(l))
    BY <1>2, <1>9
  <2> QED BY <2>1, <2>2
<1>11. ToSet(Sorting(F, u)) = ToSet(lists[u])
  BY <1>5, <1>6, <1>8, <1>10
<1> QED BY <1>8, <1>11 DEF F

(* A dump that is accepted is read back to lists of the same neighbours:   *)
(* for NODE_DEGREE since a list is taken as it was written, for the others *)
(* since it is sorted and checked for repetitions.                         *)
LEMMA ReadBack ==
  ASSUME NEW n \in Nat, NEW lists, ListsFor(lists, n),
         \A u \in 0 .. n - 1 : Increasing(lists[u]),
         NEW file, GoodFile(file, lists, n), NEW format \in {"LOE", "NODE", "NODE_DEGREE"},
         ValidText(Dump(file, format))
  PROVE  LET back == ReadLists(Dump(file, format))
         IN  /\ DOMAIN back = 0 .. n - 1
             /\ \A u \in 0 .. n - 1 : ListOfSet(back[u], ToSet(lists[u]))
<1> DEFINE text_ == Dump(file, format)
           back == ReadLists(text_)
           F == FlattenSeq(AllLines(lists, format, n))
<1>1. text_.n = n /\ text_.format = format /\ text_.lines = F
  BY DumpIs
<1>2. /\ format # "NODE_DEGREE" => \A u \in DOMAIN back : IsInjective(back[u])
  <2>1. text_.format # "NODE_DEGREE" => \A u \in DOMAIN ReadLists(text_) : IsInjective(ReadLists(text_)[u])
    BY DEF ValidText
  <2> QED BY <1>1, <2>1
<1>3. back = [u \in 0 .. text_.n - 1 |->
               IF text_.format = "NODE_DEGREE" THEN Tail(text_.lines[u + 1])
               ELSE InOrder(FlattenSeq([k \in DOMAIN text_.lines |->
                      IF text_.lines[k][1] = u THEN Tail(text_.lines[k]) ELSE <<>>]))]
  BY DEF ReadLists
<1> HIDE DEF text_, back
<1>4. DOMAIN back = 0 .. n - 1
  BY <1>1, <1>3
<1>5. ASSUME NEW u \in 0 .. n - 1
      PROVE  back[u] = IF format = "NODE_DEGREE" THEN Tail(F[u + 1]) ELSE InOrder(Sorting(F, u))
  <2> HIDE DEF F
  <2> QED BY <1>1, <1>3 DEF Sorting
<1>6. ASSUME NEW u \in 0 .. n - 1 PROVE ListOfSet(back[u], ToSet(lists[u]))
  <2>1. lists[u] \in Seq(Int) /\ Increasing(lists[u])
    BY DEF ListsFor
  <2>2. CASE format = "NODE_DEGREE"
    <3>1. back[u] = Tail(F[u + 1]) /\ Tail(F[u + 1]) = lists[u]
      BY <1>5, <2>2, DegreeLines
    <3> QED BY <2>1, <3>1 DEF ListOfSet
  <2>3. CASE format # "NODE_DEGREE"
    <3>1. back[u] = InOrder(Sorting(F, u)) /\ IsInjective(back[u])
      BY <1>2, <1>4, <1>5, <2>3
    <3>2. Sorting(F, u) \in Seq(Int) /\ ToSet(Sorting(F, u)) = ToSet(lists[u])
      BY <2>3, SortingIs
    <3>3. IsInjective(InOrder(Sorting(F, u)))
          => ListOfSet(InOrder(Sorting(F, u)), ToSet(Sorting(F, u)))
      BY <3>2, InOrderFacts
    <3> QED BY <3>1, <3>2, <3>3
  <2> QED BY <2>2, <2>3
<1> QED BY <1>4, <1>6 DEF back, text_

-----------------------------------------------------------------------------
(* The graph on disk. *)

(* What motivo-gaifman and motivo-graph need of the files before them.     *)
LEMMA SmallLarge ==
  ASSUME NEW H, GoodHypergraph(H), NEW t
  PROVE  GoodHypergraph(Small(H, t)) /\ GoodHypergraph(Large(H, t))
<1> DEFINE V == Vertices(H)
           P == SmallOnes(H, t)
           Q == DOMAIN H.he \ P
<1>1. /\ H.n \in Nat /\ H.he \in Seq(SUBSET V)
      /\ P \subseteq DOMAIN H.he /\ Q \subseteq DOMAIN H.he
  BY DEF GoodHypergraph, SmallOnes
<1>2. /\ Small(H, t) = [n |-> H.n, he |-> AtPositions(H.he, P)]
      /\ Large(H, t) = [n |-> H.n, he |-> AtPositions(H.he, Q)]
  BY DEF Small, Large
<1> HIDE DEF P, Q, V
<1>3. AtPositions(H.he, P) \in Seq(SUBSET V) /\ AtPositions(H.he, Q) \in Seq(SUBSET V)
  BY <1>1, AtPositionsFacts
<1>4. V = 0 .. H.n - 1
  BY DEF V, Vertices
<1> QED BY <1>1, <1>2, <1>3, <1>4 DEF GoodHypergraph, Vertices

LEMMA SplitFiles ==
  ASSUME PrepInv, stage = "split"
  PROVE  /\ \A b \in Files : GoodHypergraph(hg[b])
         /\ IsFiniteSet(pairs.pairs) /\ pairs.pairs \subseteq Nat \X Nat
<1>1. GoodHypergraph(hg.H)
  BY DEF PrepInv, Converted
<1>2. PICK t : SplitAt(t)
  BY DEF PrepInv, HasSplit
<1>3. hg.LOW = Small(hg.H, t) /\ hg.HIGH = Large(hg.H, t)
  BY <1>2 DEF SplitAt
<1>4. GoodHypergraph(hg.LOW) /\ GoodHypergraph(hg.HIGH)
  BY <1>1, <1>3, SmallLarge
<1>5. pairs.pairs \subseteq OverlapPairs(Small(hg.H, t), Large(hg.H, t))
  BY <1>2 DEF SplitAt
<1>6. /\ IsFiniteSet(OverlapPairs(Small(hg.H, t), Large(hg.H, t)))
      /\ OverlapPairs(Small(hg.H, t), Large(hg.H, t)) \subseteq Both(Vertices(hg.H))
  BY <1>1, SplitFacts
<1>7. Both(Vertices(hg.H)) \subseteq Nat \X Nat
  <2>1. Vertices(hg.H) \subseteq Nat
    BY <1>1 DEF GoodHypergraph, Vertices
  <2> QED BY <2>1 DEF Both
<1>8. IsFiniteSet(pairs.pairs)
  BY <1>5, <1>6, FS_Subset
<1> QED BY <1>1, <1>4, <1>5, <1>6, <1>7, <1>8 DEF Files

(* The lists are written: the offsets of the file that is read are exact   *)
(* when they fit and no other file is read in its place.                   *)
DiskRecord(d) == d = [gof |-> d.gof, gof64 |-> d.gof64, ged |-> d.ged]

LEMMA Written ==
  ASSUME NEW n \in Nat, NEW lists, ListsFor(lists, n), NEW d, DiskRecord(d),
         NEW wide \in BOOLEAN, NEW largest \in Nat
  PROVE  LET e == WriteGraph(d, lists, wide, largest)
         IN  /\ DiskRecord(e) /\ e.ged = Entries(lists)
             /\ ~wide /\ Len(Entries(lists)) <= MaxOffset => GoodFile(e, lists, n)
             /\ wide /\ d.gof = None /\ Len(Entries(lists)) <= largest => GoodFile(e, lists, n)
<1> DEFINE gof == [n |-> Cardinality(DOMAIN lists),
                   edges |-> Len(Entries(lists)) \div 2,
                   offsets |-> Offsets(lists, IF wide THEN largest ELSE MaxOffset)]
           e == WriteGraph(d, lists, wide, largest)
<1>1. gof.n = n /\ gof.offsets = Offsets(lists, IF wide THEN largest ELSE MaxOffset)
  BY EntriesFacts
<1>2. gof # None
  <2>1. None.n = -1
    BY DEF None
  <2>2. n # -1
    OBVIOUS
  <2> QED BY <1>1, <2>1, <2>2
<1>3. e = [d EXCEPT !.ged = Entries(lists),
                    !.gof = IF wide THEN @ ELSE gof,
                    !.gof64 = IF wide THEN gof ELSE @]
  BY Zenon DEF WriteGraph
<1> HIDE DEF gof, e
<1>4. /\ e = [gof |-> IF wide THEN d.gof ELSE gof, gof64 |-> IF wide THEN gof ELSE d.gof64,
              ged |-> Entries(lists)]
  BY <1>3 DEF DiskRecord
<1>5. DiskRecord(e) /\ e.ged = Entries(lists)
  BY <1>4 DEF DiskRecord
<1>6. ASSUME ~wide, Len(Entries(lists)) <= MaxOffset PROVE GoodFile(e, lists, n)
  <2>1. e.gof = gof /\ Loaded(e) = gof
    BY <1>2, <1>4, <1>6 DEF Loaded
  <2>2. gof.offsets = Offsets(lists, MaxOffset)
    BY <1>1, <1>6
  <2>3. gof.offsets = [u \in 0 .. n |-> Before(lists, u)]
    BY <1>6, <2>2, OffsetsExact, OffsetAssumption DEF OffsetAssumption
  <2> QED BY <1>1, <1>5, <2>1, <2>3 DEF GoodFile
<1>7. ASSUME wide, d.gof = None, Len(Entries(lists)) <= largest PROVE GoodFile(e, lists, n)
  <2>1. e.gof = None /\ e.gof64 = gof /\ Loaded(e) = gof
    BY <1>4, <1>7 DEF Loaded
  <2>2. gof.offsets = Offsets(lists, largest)
    BY <1>1, <1>7
  <2>3. gof.offsets = [u \in 0 .. n |-> Before(lists, u)]
    BY <1>7, <2>2, OffsetsExact
  <2> QED BY <1>1, <1>5, <2>1, <2>3 DEF GoodFile
<1> QED BY <1>5, <1>6, <1>7 DEF e

(* The job on disk, and a text that can be read back to the same graph.    *)
Holds(file, H, max_m, excluded) ==
  \E lists : Listing(lists, H, max_m, excluded) /\ GoodFile(file, lists, H.n)

JobRecord ==
  /\ job = [base |-> job.base, max_m |-> job.max_m, excluded |-> job.excluded,
            hidden |-> job.hidden]
  /\ job.base \in Files
JobDone ==
  job # None =>
    /\ stage = "split" /\ JobRecord
    /\ ~job.hidden => Holds(disk, hg[job.base], job.max_m, job.excluded)
TextGood ==
  text # None =>
    /\ stage = "split" /\ JobRecord
    /\ ValidText(text) => Listing(ReadLists(text), hg[job.base], job.max_m, job.excluded)

GraphInv == DiskRecord(disk) /\ JobDone /\ TextGood

(* The offsets of a .gof64 file do not wrap.                               *)
Fits == Len(disk.ged) <= Wide

LEMMA WideNat == Wide \in Nat
BY DEF Wide


(* However the graph is built, the format that is chosen has room for it.  *)
LEMMA GaifmanWrites ==
  ASSUME NEW H, GoodHypergraph(H), NEW j \in Jobs, NEW d, DiskRecord(d),
         NEW excluded, IsFiniteSet(excluded), excluded \subseteq Nat \X Nat
  PROVE  LET e == Gaifman(d, H, j, excluded, Wide)
             adj == Adjacency(H, j.max_m, j.threads)
         IN  /\ DiskRecord(e)
             /\ ~(d.gof # None /\ NeedWide(H, j.max_m, adj, j.stream))
                /\ Len(e.ged) <= Wide => Holds(e, H, j.max_m, excluded)
<1> DEFINE asked == IF j.stream THEN 1 ELSE j.threads
           m == j.max_m
           adj == Adjacency(H, m, asked)
           lists == ListsOf(adj, excluded)
           wide == NeedWide(H, m, adj, j.stream)
           e == Gaifman(d, H, j, excluded, Wide)
<1>1. j.threads \in Nat /\ m \in Nat /\ j.stream \in BOOLEAN /\ asked \in Nat
  BY JobsAssumption DEF JobsAssumption
<1>2. H.n \in Nat
  BY DEF GoodHypergraph
<1>3. Adjacency(H, m, j.threads) = adj
  <2>1. Adjacency(H, m, j.threads) = [u \in Vertices(H) |-> Sorted(Neighbours(H, m, u))]
    BY <1>1, <1>2, AdjacencyIs
  <2>2. Adjacency(H, m, asked) = [u \in Vertices(H) |-> Sorted(Neighbours(H, m, u))]
    BY <1>1, <1>2, AdjacencyIs
  <2> QED BY <2>1, <2>2
<1>4. e = WriteGraph(d, lists, wide, Wide)
  BY DEF Gaifman, ListsOf
<1> HIDE DEF asked
<1>5. Listing(lists, H, m, excluded) /\ Len(Entries(lists)) <= Directed(adj)
  BY <1>1, GaifmanLists
<1>6. Directed(adj) <= UpperBound(H, m) /\ UpperBound(H, m) \in Nat
  BY <1>1, BoundHolds
<1>7. Directed(adj) \in Nat
  <2> DEFINE none == {}
  <2>1. IsFiniteSet({}) /\ {} \subseteq Nat \X Nat
    BY FS_EmptySet
  <2>2. Listing(ListsOf(adj, {}), H, m, {})
    BY <1>1, <2>1, GaifmanLists
  <2>3. adj = [u \in Vertices(H) |-> Sorted(Neighbours(H, m, u))]
    BY <1>1, <1>2, AdjacencyIs
  <2>4. ListsOf(adj, {}) = adj
    <3> HIDE DEF adj
    <3> QED BY <2>3 DEF ListsOf
  <2>5. ListsFor(adj, H.n)
    BY <2>2, <2>4, ListingIs
  <2>6. /\ Placed(Entries(adj), adj, H.n) /\ Directed(adj) = Len(Entries(adj))
    BY <1>2, <2>5, EntriesFacts
  <2> HIDE DEF adj
  <2> QED BY <2>6 DEF Placed
<1>8. ListsFor(lists, H.n)
  BY <1>5, ListingIs
<1>9. Len(Entries(lists)) \in Nat
  BY <1>2, <1>8, EntriesFacts DEF Placed
<1> HIDE DEF adj, lists, m
<1>10. wide \in BOOLEAN
  BY DEF NeedWide
<1>11. ~wide => Len(Entries(lists)) <= MaxOffset
  <2>1. wide <=> (IF j.stream THEN UpperBound(H, m) ELSE Directed(adj)) > MaxOffset
    BY DEF NeedWide
  <2>2. MaxOffset \in Nat
    BY OffsetAssumption DEF OffsetAssumption
  <2> HIDE DEF wide
  <2> QED BY <1>5, <1>6, <1>7, <1>9, <2>1, <2>2
<1> HIDE DEF wide, e
<1>12. /\ DiskRecord(e) /\ e.ged = Entries(lists)
       /\ ~wide /\ Len(Entries(lists)) <= MaxOffset => GoodFile(e, lists, H.n)
       /\ wide /\ d.gof = None /\ Len(Entries(lists)) <= Wide => GoodFile(e, lists, H.n)
  BY <1>2, <1>4, <1>8, <1>10, WideNat, Written
<1>13. ASSUME ~(d.gof # None /\ wide), Len(e.ged) <= Wide
       PROVE  Holds(e, H, m, excluded)
  <2>1. GoodFile(e, lists, H.n)
    BY <1>11, <1>12, <1>13
  <2> QED BY <1>5, <2>1 DEF Holds
<1> QED BY <1>3, <1>12, <1>13 DEF e, wide, m

LEMMA GraphInit == Init => GraphInv
BY DEF Init, GraphInv, DiskRecord, JobDone, TextGood

LEMMA GraphGaifman == PrepInv /\ GraphInv /\ RunGaifman /\ Fits' => GraphInv'
<1> SUFFICES ASSUME PrepInv, GraphInv, RunGaifman, Fits' PROVE GraphInv'
  OBVIOUS
<1> DEFINE Excl(j) == IF j.exclude THEN LoadPairs(pairs) ELSE {}
           H(j) == hg[j.base]
           adj(j) == Adjacency(H(j), j.max_m, j.threads)
           hide(j) == disk.gof # None /\ NeedWide(H(j), j.max_m, adj(j), j.stream)
<1>1. PICK j \in Jobs :
        /\ disk' = Gaifman(disk, H(j), j, Excl(j), Wide)
        /\ job' = [base |-> j.base, max_m |-> j.max_m, excluded |-> Excl(j), hidden |-> hide(j)]
  BY DEF RunGaifman
<1>2. stage = "split" /\ stage' = stage /\ hg' = hg /\ text' = None
  BY DEF RunGaifman
<1>3. j.base \in Files
  BY JobsAssumption DEF JobsAssumption
<1>4. GoodHypergraph(H(j)) /\ IsFiniteSet(pairs.pairs) /\ pairs.pairs \subseteq Nat \X Nat
  BY <1>2, <1>3, SplitFiles
<1>5. IsFiniteSet(Excl(j)) /\ Excl(j) \subseteq Nat \X Nat
  <2>1. LoadPairs(pairs) \subseteq pairs.pairs
    BY DEF LoadPairs
  <2>2. Excl(j) \subseteq pairs.pairs
    BY <2>1
  <2>3. IsFiniteSet(Excl(j))
    BY <1>4, <2>2, FS_Subset
  <2> QED BY <1>4, <2>2, <2>3
<1>6. DiskRecord(disk) /\ Len(disk'.ged) <= Wide
  BY DEF GraphInv, Fits
<1>7. DiskRecord(disk') /\ (~hide(j) => Holds(disk', H(j), j.max_m, Excl(j)))
  BY <1>1, <1>4, <1>5, <1>6, GaifmanWrites
<1>8. /\ job'.base = j.base /\ job'.max_m = j.max_m /\ job'.excluded = Excl(j)
      /\ job'.hidden = hide(j)
      /\ job' = [base |-> job'.base, max_m |-> job'.max_m, excluded |-> job'.excluded,
                 hidden |-> job'.hidden]
  BY <1>1
<1> HIDE DEF Excl, hide
<1>9. JobDone'
  BY <1>2, <1>3, <1>7, <1>8 DEF JobDone, JobRecord
<1>10. TextGood'
  BY <1>2 DEF TextGood
<1>11. DiskRecord(disk)'
  BY <1>7
<1> QED BY <1>9, <1>10, <1>11 DEF GraphInv

LEMMA GraphDump == PrepInv /\ GraphInv /\ DumpGraph => GraphInv'
<1> SUFFICES ASSUME PrepInv, GraphInv, DumpGraph PROVE GraphInv'
  OBVIOUS
<1>1. PICK f \in Formats : text' = Dump(disk, f)
  BY DEF DumpGraph
<1>2. /\ job # None /\ ~job.hidden /\ stage' = stage /\ hg' = hg /\ job' = job /\ disk' = disk
  BY DEF DumpGraph
<1>3. stage = "split" /\ JobRecord /\ Holds(disk, hg[job.base], job.max_m, job.excluded)
  BY <1>2 DEF GraphInv, JobDone
<1> DEFINE H == hg[job.base]
<1>4. GoodHypergraph(H) /\ H.n \in Nat
  BY <1>3, SplitFiles DEF JobRecord, GoodHypergraph
<1>5. PICK lists : Listing(lists, H, job.max_m, job.excluded) /\ GoodFile(disk, lists, H.n)
  BY <1>3 DEF Holds
<1>6. f \in {"LOE", "NODE", "NODE_DEGREE"}
  BY JobsAssumption DEF JobsAssumption
<1>7. ASSUME ValidText(Dump(disk, f))
      PROVE  Listing(ReadLists(Dump(disk, f)), H, job.max_m, job.excluded)
  <2>1. ListsFor(lists, H.n) /\ \A u \in 0 .. H.n - 1 : Increasing(lists[u])
    BY <1>4, <1>5, ListingIs
  <2> DEFINE back == ReadLists(Dump(disk, f))
  <2> HIDE DEF H
  <2>2. DOMAIN back = 0 .. H.n - 1 /\ \A u \in 0 .. H.n - 1 : ListOfSet(back[u], ToSet(lists[u]))
    BY <1>4, <1>5, <1>6, <1>7, <2>1, ReadBack
  <2> HIDE DEF back
  <2>3. \A u \in 0 .. H.n - 1 : ToSet(lists[u]) = Wanted(H, job.max_m, job.excluded, u)
    BY <1>5 DEF Listing, ListOfSet
  <2>4. Listing(back, H, job.max_m, job.excluded)
    BY <2>2, <2>3 DEF Listing
  <2> QED BY <2>4 DEF back
<1>8. TextGood'
  <2>1. JobRecord'
    BY <1>2, <1>3 DEF JobRecord
  <2>2. ValidText(text') => Listing(ReadLists(text'), hg'[job'.base], job'.max_m, job'.excluded)
    BY <1>1, <1>2, <1>7
  <2> QED BY <1>2, <1>3, <2>1, <2>2 DEF TextGood
<1>9. JobDone'
  BY <1>2 DEF GraphInv, JobDone, JobRecord
<1>10. DiskRecord(disk)'
  BY <1>2 DEF GraphInv
<1> QED BY <1>8, <1>9, <1>10 DEF GraphInv

LEMMA GraphImport == PrepInv /\ GraphInv /\ ImportGraph => GraphInv'
<1> SUFFICES ASSUME PrepInv, GraphInv, ImportGraph PROVE GraphInv'
  OBVIOUS
<1> DEFINE back == ReadLists(text)
           H == hg[job.base]
<1>1. /\ text # None /\ ValidText(text)
      /\ disk' = WriteGraph(disk, back, FALSE, Wide)
      /\ job' = [job EXCEPT !.hidden = Len(disk'.ged) > MaxOffset]
      /\ stage' = stage /\ hg' = hg /\ text' = text
  BY DEF ImportGraph
<1>2. /\ stage = "split" /\ JobRecord /\ Listing(back, H, job.max_m, job.excluded)
      /\ DiskRecord(disk)
  BY <1>1 DEF GraphInv, TextGood
<1> HIDE DEF back
<1>3. /\ job' = [base |-> job.base, max_m |-> job.max_m, excluded |-> job.excluded,
                 hidden |-> Len(disk'.ged) > MaxOffset]
  BY <1>1, <1>2 DEF JobRecord
<1>4. GoodHypergraph(H) /\ H.n \in Nat
  BY <1>2, SplitFiles DEF JobRecord, GoodHypergraph
<1>5. ListsFor(back, H.n)
  BY <1>2, <1>4, ListingIs
<1>6. /\ DiskRecord(disk') /\ disk'.ged = Entries(back)
      /\ Len(Entries(back)) <= MaxOffset => GoodFile(disk', back, H.n)
  BY <1>1, <1>2, <1>4, <1>5, WideNat, Written
<1>7. Len(Entries(back)) \in Nat /\ MaxOffset \in Nat
  BY <1>4, <1>5, EntriesFacts, OffsetAssumption DEF Placed, OffsetAssumption
<1>8. ~job'.hidden => Holds(disk', H, job.max_m, job.excluded)
  <2> SUFFICES ASSUME ~job'.hidden PROVE Holds(disk', H, job.max_m, job.excluded)
    OBVIOUS
  <2>1. ~(Len(disk'.ged) > MaxOffset)
    BY <1>3
  <2>2. Len(Entries(back)) <= MaxOffset
    BY <1>6, <1>7, <2>1
  <2> QED BY <1>2, <1>6, <2>2 DEF Holds
<1>9. JobRecord' /\ job'.base = job.base /\ job'.max_m = job.max_m /\ job'.excluded = job.excluded
  BY <1>2, <1>3 DEF JobRecord
<1>10. JobDone'
  BY <1>1, <1>2, <1>8, <1>9 DEF JobDone
<1>11. TextGood'
  BY <1>1, <1>2, <1>9 DEF TextGood, back
<1>12. DiskRecord(disk)'
  BY <1>6
<1> QED BY <1>10, <1>11, <1>12 DEF GraphInv

LEMMA GraphNext == PrepInv /\ GraphInv /\ [Next]_vars /\ Fits' => GraphInv'
<1> SUFFICES ASSUME PrepInv, GraphInv, [Next]_vars, Fits' PROVE GraphInv'
  OBVIOUS
<1>1. ASSUME disk' = disk, job' = job, text' = text, stage # "split"
      PROVE  GraphInv'
  BY <1>1 DEF GraphInv, JobDone, TextGood
<1>2. ASSUME disk' = disk, job' = job, text' = text, stage' = stage, hg' = hg
      PROVE  GraphInv'
  BY <1>2 DEF GraphInv, JobDone, JobRecord, TextGood
<1>3. CASE Convert
  BY <1>1, <1>3 DEF Convert
<1>4. CASE DedupStep
  BY <1>1, <1>4 DEF DedupStep
<1>5. CASE Split
  <2>1. stage # "split" /\ disk' = disk /\ job' = job /\ text' = text
    BY <1>5 DEF Split
  <2> QED BY <1>1, <2>1
<1>6. CASE CutPairs
  BY <1>2, <1>6 DEF CutPairs
<1>7. CASE RunGaifman
  BY <1>7, GraphGaifman
<1>8. CASE DumpGraph
  BY <1>8, GraphDump
<1>9. CASE ImportGraph
  BY <1>9, GraphImport
<1>10. CASE UNCHANGED vars
  BY <1>2, <1>10 DEF vars
<1> QED BY <1>3, <1>4, <1>5, <1>6, <1>7, <1>8, <1>9, <1>10 DEF Next

(* Unless the .gof file that is read first is another graph's, the files   *)
(* hold the lists that were asked for, in order and with exact offsets,    *)
(* and so does a text that motivo-graph accepts.                           *)
THEOREM GraphInvariant == Spec /\ []Fits => []GraphInv
<1>1. PrepInv /\ GraphInv /\ Fits' /\ [Next]_vars => GraphInv'
  BY GraphNext
<1> QED BY PrepInvariant, GraphInit, <1>1, PTL DEF Spec

(* The graph on disk has an edge where two vertices share a hyperedge that *)
(* is not too large and are not excluded, and nowhere else, and has_edge() *)
(* finds it from both ends: for every way to build it, in either format,   *)
(* written by motivo-gaifman or read back from text.                       *)
THEOREM GraphFaithful == Spec /\ []Fits => []GraphIsFaithful
<1>1. PrepInv /\ GraphInv => GraphIsFaithful
  <2> SUFFICES ASSUME PrepInv, GraphInv, job # None, ~job.hidden
               PROVE  /\ Loaded(disk).n = hg[job.base].n
                      /\ \A p \in Both(Vertices(hg[job.base])) :
                           LET found == /\ \E e \in ToSet(hg[job.base].he) :
                                             /\ {p[1], p[2]} \subseteq e
                                             /\ job.max_m = 0 \/ Cardinality(e) <= job.max_m
                                        /\ p \notin job.excluded
                           IN  /\ HasEdge(disk, p[1], p[2]) <=> found
                               /\ HasEdge(disk, p[2], p[1]) <=> found
    BY Zenon DEF GraphIsFaithful
  <2> DEFINE H == hg[job.base]
  <2>1. stage = "split" /\ JobRecord /\ Holds(disk, H, job.max_m, job.excluded)
    BY DEF GraphInv, JobDone
  <2>2. GoodHypergraph(H) /\ H.n \in Nat
    BY <2>1, SplitFiles DEF JobRecord, GoodHypergraph
  <2>3. PICK lists : Listing(lists, H, job.max_m, job.excluded) /\ GoodFile(disk, lists, H.n)
    BY <2>1 DEF Holds
  <2>4. Loaded(disk).n = H.n
    BY <2>3 DEF GoodFile
  <2> HIDE DEF H
  <2>5. /\ ListsFor(lists, H.n)
        /\ \A u \in 0 .. H.n - 1 : Increasing(lists[u])
        /\ \A u, v \in 0 .. H.n - 1 :
             /\ v \in ToSet(lists[u]) <=> u \in ToSet(lists[v])
             /\ v \in ToSet(lists[u])
                  <=> /\ u # v /\ Edge(u, v) \notin job.excluded
                      /\ \E e \in ToSet(H.he) : /\ {u, v} \subseteq e
                                                /\ job.max_m = 0 \/ Cardinality(e) <= job.max_m
    BY <2>2, <2>3, ListingIs
  <2>6. ASSUME NEW p \in Both(Vertices(H))
        PROVE  LET found == /\ \E e \in ToSet(H.he) :
                                 /\ {p[1], p[2]} \subseteq e
                                 /\ job.max_m = 0 \/ Cardinality(e) <= job.max_m
                            /\ p \notin job.excluded
               IN  /\ HasEdge(disk, p[1], p[2]) <=> found
                   /\ HasEdge(disk, p[2], p[1]) <=> found
    <3> DEFINE u == p[1]
               v == p[2]
    <3>1. u \in 0 .. H.n - 1 /\ v \in 0 .. H.n - 1 /\ u < v /\ p = <<u, v>> /\ u # v
      <4>1. p \in Vertices(H) \X Vertices(H) /\ u < v
        BY DEF Both
      <4>2. u \in 0 .. H.n - 1 /\ v \in 0 .. H.n - 1 /\ p = <<u, v>>
        BY <4>1 DEF Vertices
      <4> QED BY <2>2, <4>1, <4>2
    <3>2. Edge(u, v) = p
      BY <3>1 DEF Edge
    <3> HIDE DEF u, v
    <3>3. HasEdge(disk, u, v) <=> v \in ToSet(lists[u])
      BY <2>2, <2>3, <2>5, <3>1, HasEdgeIs
    <3>4. HasEdge(disk, v, u) <=> u \in ToSet(lists[v])
      BY <2>2, <2>3, <2>5, <3>1, HasEdgeIs
    <3>5. /\ v \in ToSet(lists[u]) <=> u \in ToSet(lists[v])
          /\ v \in ToSet(lists[u])
               <=> /\ p \notin job.excluded
                   /\ \E e \in ToSet(H.he) : /\ {u, v} \subseteq e
                                             /\ job.max_m = 0 \/ Cardinality(e) <= job.max_m
      BY <2>5, <3>1, <3>2
    <3> QED BY <3>3, <3>4, <3>5 DEF u, v
  <2> QED BY <2>4, <2>6 DEF H
<1> QED BY PrepInvariant, GraphInvariant, <1>1, PTL
=============================================================================

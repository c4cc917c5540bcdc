----------------------------- MODULE SumTheorems -----------------------------
(***************************************************************************)
(* Sums over finite sets, for the proofs about counts: MapThenSumSet       *)
(* chooses the order of its terms, and any other gives the same.           *)
(***************************************************************************)
EXTENDS Integers, FiniteSets, FiniteSetsExt, FiniteSetTheorems,
        WellFoundedInduction, TLAPS

-----------------------------------------------------------------------------
(* Sums over a finite set: MapThenSumSet chooses the order of the terms.   *)

LEMMA LeastNatural ==
  ASSUME NEW B, B \subseteq Nat, B # {}
  PROVE  \E n \in B : \A m \in B : n <= m
<1>1. PICK n \in B : \A m \in B : <<m, n>> \notin OpToRel(<, Nat)
  BY NatLessThanWellFounded, WFMin
<1>2. ASSUME NEW m \in B, m < n PROVE FALSE
  <2>1. <<m, n>> \in OpToRel(<, Nat)
    BY <1>2 DEF OpToRel
  <2> QED BY <1>1, <2>1
<1>3. \A m \in B : n <= m
  BY <1>2
<1> QED BY <1>3

(* A nonempty collection of subsets of a finite set has a minimal one.     *)
LEMMA MinimalSubset ==
  ASSUME NEW S, IsFiniteSet(S), NEW B, B \subseteq SUBSET S, B # {}
  PROVE  \E s \in B : \A r \in B : r \subseteq s => r = s
<1>1. IsWellFoundedOn(StrictSubsetOrdering(S), SUBSET S)
  BY FS_StrictSubsetOrderingWellFounded, FS_FiniteSubsetsOfFinite
<1>2. PICK s \in B : \A r \in B : <<r, s>> \notin StrictSubsetOrdering(S)
  BY <1>1, WFMin
<1>3. ASSUME NEW r \in B, r \subseteq s, r # s PROVE FALSE
  BY <1>2, <1>3 DEF StrictSubsetOrdering
<1> QED BY <1>3

LEMMA SmallestSubset ==
  ASSUME NEW S, IsFiniteSet(S), NEW B, B \subseteq SUBSET S, B # {}
  PROVE  \E s \in B : \A x \in s : s \ {x} \notin B
<1>1. PICK s \in B : \A r \in B : r \subseteq s => r = s
  BY MinimalSubset
<1> QED BY <1>1

Pick(s) == CHOOSE x \in s : TRUE

(* The sum over a set from those over its subsets. *)
SumStep(f, g, s) == IF s = {} THEN 0 ELSE f[Pick(s)] + g[s \ {Pick(s)}]

IsSum(g, f, S) == g = [s \in SUBSET S |-> SumStep(f, g, s)]

Sum(f, S) == CHOOSE g : IsSum(g, f, S)

LEMMA PickIn == ASSUME NEW s, s # {} PROVE Pick(s) \in s
BY DEF Pick

LEMMA SumExists == ASSUME NEW f, NEW S, IsFiniteSet(S) PROVE \E g : IsSum(g, f, S)
<1> DEFINE D(n) == {s \in SUBSET S : Cardinality(s) <= n}
           Partial(g, n) == g = [s \in D(n) |-> SumStep(f, g, s)]
           Bad == {n \in Nat : ~ \E g : Partial(g, n)}
<1>1. \A s \in SUBSET S : IsFiniteSet(s) /\ Cardinality(s) \in Nat
                          /\ Cardinality(s) <= Cardinality(S)
  BY FS_Subset, FS_CardinalityType
<1>2. ASSUME Bad # {} PROVE FALSE
  <2>1. PICK n \in Bad : \A m \in Bad : n <= m
    BY <1>2, LeastNatural
  <2>2. n \in Nat /\ ~ \E g : Partial(g, n)
    OBVIOUS
  <2>3. CASE n = 0
    <3> DEFINE h == [s \in D(0) |-> 0]
    <3>1. \A s \in D(0) : s = {}
      BY <1>1, FS_EmptySet
    <3>2. \A s \in D(0) : SumStep(f, h, s) = 0
      BY <3>1 DEF SumStep
    <3>3. Partial(h, 0)
      BY <3>2
    <3> QED BY <2>2, <2>3, <3>3
  <2>4. CASE n # 0
    <3>1. n - 1 \in Nat /\ ~(n <= n - 1)
      BY <2>2, <2>4
    <3>2. n - 1 \notin Bad
      BY <2>1, <3>1
    <3>3. PICK g : Partial(g, n - 1)
      BY <3>1, <3>2
    <3> DEFINE h == [s \in D(n) |-> SumStep(f, g, s)]
    <3>4. ASSUME NEW s \in D(n) PROVE SumStep(f, h, s) = SumStep(f, g, s)
      <4>1. CASE s = {}
        BY <4>1 DEF SumStep
      <4>2. CASE s # {}
        <5> DEFINE r == s \ {Pick(s)}
        <5>1. Pick(s) \in s /\ r \in SUBSET S /\ s \in SUBSET S
          BY <4>2, PickIn
        <5>2. Cardinality(r) = Cardinality(s) - 1
          BY <1>1, <5>1, FS_RemoveElement
        <5>3. r \in D(n - 1) /\ r \in D(n)
          BY <1>1, <2>2, <5>1, <5>2
        <5> HIDE DEF r, D
        <5>4. h[r] = SumStep(f, g, r) /\ g[r] = SumStep(f, g, r)
          BY <3>3, <5>3
        <5> QED BY <4>2, <5>4 DEF SumStep, r
      <4> QED BY <4>1, <4>2
    <3>5. Partial(h, n)
      BY <3>4
    <3> QED BY <2>2, <3>5
  <2> QED BY <2>3, <2>4
<1>3. Cardinality(S) \in Nat
  BY FS_CardinalityType
<1>4. PICK g : Partial(g, Cardinality(S))
  BY <1>2, <1>3
<1>5. D(Cardinality(S)) = SUBSET S
  BY <1>1
<1> QED BY <1>4, <1>5 DEF IsSum

LEMMA SumOf ==
  ASSUME NEW f, NEW S, IsFiniteSet(S), NEW s \in SUBSET S
  PROVE  Sum(f, S)[s] = SumStep(f, Sum(f, S), s)
<1>1. IsSum(Sum(f, S), f, S)
  BY SumExists DEF Sum
<1> QED BY <1>1 DEF IsSum

LEMMA SumType ==
  ASSUME NEW S, IsFiniteSet(S), NEW f \in [S -> Nat], NEW s \in SUBSET S
  PROVE  Sum(f, S)[s] \in Nat
<1> DEFINE g == Sum(f, S)
           Bad == {r \in SUBSET S : g[r] \notin Nat}
<1>1. \A r \in SUBSET S : g[r] = SumStep(f, g, r)
  BY SumOf
<1> HIDE DEF g
<1>2. ASSUME NEW r \in Bad, \A x \in r : r \ {x} \notin Bad PROVE FALSE
  <2>1. CASE r = {}
    <3>1. g[r] = 0
      BY <1>1, <2>1 DEF SumStep
    <3> QED BY <3>1
  <2>2. CASE r # {}
    <3>1. Pick(r) \in r /\ Pick(r) \in S /\ r \ {Pick(r)} \in SUBSET S
      BY <2>2, PickIn
    <3>2. g[r \ {Pick(r)}] \in Nat /\ f[Pick(r)] \in Nat
      BY <1>2, <3>1
    <3>3. g[r] = f[Pick(r)] + g[r \ {Pick(r)}]
      BY <1>1, <2>2 DEF SumStep
    <3> QED BY <3>2, <3>3
  <2> QED BY <2>1, <2>2
<1>3. Bad = {}
  BY <1>2, SmallestSubset
<1> QED BY <1>3 DEF g

LEMMA SumInt ==
  ASSUME NEW S, IsFiniteSet(S), NEW f \in [S -> Int], NEW s \in SUBSET S
  PROVE  Sum(f, S)[s] \in Int
<1> DEFINE g == Sum(f, S)
           Bad == {r \in SUBSET S : g[r] \notin Int}
<1>1. \A r \in SUBSET S : g[r] = SumStep(f, g, r)
  BY SumOf
<1> HIDE DEF g
<1>2. ASSUME NEW r \in Bad, \A x \in r : r \ {x} \notin Bad PROVE FALSE
  <2>1. CASE r = {}
    <3>1. g[r] = 0
      BY <1>1, <2>1 DEF SumStep
    <3> QED BY <3>1
  <2>2. CASE r # {}
    <3>1. Pick(r) \in r /\ Pick(r) \in S /\ r \ {Pick(r)} \in SUBSET S
      BY <2>2, PickIn
    <3>2. g[r \ {Pick(r)}] \in Int /\ f[Pick(r)] \in Int
      BY <1>2, <3>1
    <3>3. g[r] = f[Pick(r)] + g[r \ {Pick(r)}]
      BY <1>1, <2>2 DEF SumStep
    <3> QED BY <3>2, <3>3
  <2> QED BY <2>1, <2>2
<1>3. Bad = {}
  BY <1>2, SmallestSubset
<1> QED BY <1>3 DEF g

(* Whichever term is taken first. *)
LEMMA SumFrom ==
  ASSUME NEW S, IsFiniteSet(S), NEW f \in [S -> Int], NEW s \in SUBSET S, NEW x \in s
  PROVE  Sum(f, S)[s] = f[x] + Sum(f, S)[s \ {x}]
<1> DEFINE g == Sum(f, S)
           Good(r) == \A y \in r : g[r] = f[y] + g[r \ {y}]
           Bad == {r \in SUBSET S : ~Good(r)}
<1>1. \A r \in SUBSET S : g[r] = SumStep(f, g, r) /\ g[r] \in Int
  BY SumOf, SumInt
<1> HIDE DEF g
<1>2. ASSUME NEW r \in Bad, \A y \in r : r \ {y} \notin Bad PROVE FALSE
  <2>1. PICK y \in r : g[r] # f[y] + g[r \ {y}]
    OBVIOUS
  <2> DEFINE p == Pick(r)
             q == r \ {p}
             t == r \ {y}
             u == q \ {y}
  <2>2. p \in r /\ g[r] = f[p] + g[q]
    <3>1. r # {}
      BY <2>1
    <3> QED BY <1>1, <3>1, PickIn DEF SumStep
  <2>3. y # p
    BY <2>1, <2>2
  <2> HIDE DEF p
  <2>4. /\ q \in SUBSET S /\ t \in SUBSET S /\ u \in SUBSET S
        /\ y \in q /\ p \in t /\ u = t \ {p} /\ p \in S /\ y \in S
    BY <2>1, <2>2, <2>3
  <2>5. Good(q) /\ Good(t)
    BY <1>2, <2>2, <2>4
  <2> HIDE DEF q, t, u
  <2>6. g[q] = f[y] + g[u] /\ g[t] = f[p] + g[u]
    BY <2>4, <2>5 DEF u
  <2>7. f[p] \in Int /\ f[y] \in Int /\ g[u] \in Int
    BY <1>1, <2>4
  <2> QED BY <2>1, <2>2, <2>6, <2>7 DEF t
<1>3. Bad = {}
  BY <1>2, SmallestSubset
<1>4. Good(s)
  BY <1>3
<1> QED BY <1>4 DEF g

(* Only the terms of the set count. *)
LEMMA SumAgrees ==
  ASSUME NEW S, IsFiniteSet(S), NEW f, NEW h,
         NEW s \in SUBSET S, \A x \in s : f[x] = h[x]
  PROVE  Sum(f, S)[s] = Sum(h, S)[s]
<1> DEFINE a == Sum(f, S)
           b == Sum(h, S)
           Bad == {r \in SUBSET S : r \subseteq s /\ a[r] # b[r]}
<1>1. \A r \in SUBSET S : a[r] = SumStep(f, a, r) /\ b[r] = SumStep(h, b, r)
  BY SumOf
<1> HIDE DEF a, b
<1>2. ASSUME NEW r \in Bad, \A x \in r : r \ {x} \notin Bad PROVE FALSE
  <2>1. CASE r = {}
    BY <1>1, <2>1 DEF SumStep
  <2>2. CASE r # {}
    <3>1. Pick(r) \in s /\ Pick(r) \in r /\ r \ {Pick(r)} \in SUBSET S
      BY <2>2, PickIn
    <3>2. a[r \ {Pick(r)}] = b[r \ {Pick(r)}] /\ f[Pick(r)] = h[Pick(r)]
      BY <1>2, <3>1
    <3> QED BY <1>1, <2>2, <3>2 DEF SumStep
  <2> QED BY <2>1, <2>2
<1>3. Bad = {}
  BY <1>2, SmallestSubset
<1> QED BY <1>3 DEF a, b

(* A sum over a set does not depend on the larger set it is made in.       *)
LEMMA SumWithin ==
  ASSUME NEW S, IsFiniteSet(S), NEW f, NEW s \in SUBSET S
  PROVE  Sum(f, S)[s] = Sum(f, s)[s]
<1> DEFINE a == Sum(f, S)
           b == Sum(f, s)
           Bad == {r \in SUBSET s : a[r] # b[r]}
<1>1. IsFiniteSet(s)
  BY FS_Subset
<1>2. /\ \A r \in SUBSET S : a[r] = SumStep(f, a, r)
      /\ \A r \in SUBSET s : b[r] = SumStep(f, b, r)
  BY <1>1, SumOf
<1> HIDE DEF a, b
<1>3. ASSUME NEW r \in Bad, \A x \in r : r \ {x} \notin Bad PROVE FALSE
  <2>1. r \in SUBSET S /\ r \in SUBSET s /\ a[r] # b[r]
    OBVIOUS
  <2>2. CASE r = {}
    BY <1>2, <2>1, <2>2 DEF SumStep
  <2>3. CASE r # {}
    <3>1. Pick(r) \in r /\ r \ {Pick(r)} \in SUBSET s
      BY <2>1, <2>3, PickIn
    <3>2. a[r \ {Pick(r)}] = b[r \ {Pick(r)}]
      BY <1>3, <3>1
    <3> QED BY <1>2, <2>1, <2>3, <3>2 DEF SumStep
  <2> QED BY <2>2, <2>3
<1>4. Bad = {}
  BY <1>1, <1>3, SmallestSubset
<1> QED BY <1>4 DEF a, b

-----------------------------------------------------------------------------
(* The sum of f over S; f may be defined on more than S.                   *)
Sigma(f, S) == MapThenSumSet(LAMBDA t : f[t], S)

LEMMA SigmaIsSum == ASSUME NEW f, NEW S PROVE Sigma(f, S) = Sum(f, S)[S]
BY Zenon DEF Sigma, MapThenSumSet, MapThenFoldSet, Sum, IsSum, SumStep, Pick

LEMMA SigmaEmpty == ASSUME NEW f PROVE Sigma(f, {}) = 0
<1>1. IsFiniteSet({}) /\ {} \in SUBSET {}
  BY FS_EmptySet
<1>2. Sum(f, {})[{}] = SumStep(f, Sum(f, {}), {})
  BY <1>1, SumOf
<1> QED BY <1>2, SigmaIsSum DEF SumStep

(* Only the terms of the set count. *)
LEMMA SigmaAgrees ==
  ASSUME NEW S, IsFiniteSet(S), NEW f, NEW h, \A x \in S : f[x] = h[x]
  PROVE  Sigma(f, S) = Sigma(h, S)
<1>1. S \in SUBSET S
  OBVIOUS
<1>2. Sum(f, S)[S] = Sum(h, S)[S]
  BY <1>1, SumAgrees
<1> QED BY <1>2, SigmaIsSum

LEMMA SigmaType ==
  ASSUME NEW S, IsFiniteSet(S), NEW f, \A x \in S : f[x] \in Nat
  PROVE  Sigma(f, S) \in Nat
<1> DEFINE g == [x \in S |-> f[x]]
<1>1. S \in SUBSET S /\ g \in [S -> Nat] /\ \A x \in S : f[x] = g[x]
  OBVIOUS
<1> HIDE DEF g
<1>2. Sum(g, S)[S] \in Nat
  BY <1>1, SumType
<1> QED BY <1>1, <1>2, SigmaIsSum, SigmaAgrees

LEMMA SigmaInt ==
  ASSUME NEW S, IsFiniteSet(S), NEW f, \A x \in S : f[x] \in Int
  PROVE  Sigma(f, S) \in Int
<1> DEFINE g == [x \in S |-> f[x]]
<1>1. S \in SUBSET S /\ g \in [S -> Int] /\ \A x \in S : f[x] = g[x]
  OBVIOUS
<1> HIDE DEF g
<1>2. Sum(g, S)[S] \in Int
  BY <1>1, SumInt
<1> QED BY <1>1, <1>2, SigmaIsSum, SigmaAgrees

(* One term and the others. *)
LEMMA SigmaFrom ==
  ASSUME NEW S, IsFiniteSet(S), NEW f, \A x \in S : f[x] \in Int, NEW t \in S
  PROVE  Sigma(f, S) = f[t] + Sigma(f, S \ {t})
<1> DEFINE g == [x \in S |-> f[x]]
           R == S \ {t}
<1>1. /\ S \in SUBSET S /\ R \in SUBSET S /\ g \in [S -> Int]
      /\ \A x \in S : f[x] = g[x]
      /\ \A x \in R : f[x] = g[x]
  OBVIOUS
<1>2. IsFiniteSet(R)
  BY FS_Subset, <1>1
<1> HIDE DEF g
<1>3. Sum(g, S)[S] = g[t] + Sum(g, S)[R]
  BY <1>1, SumFrom
<1> HIDE DEF R
<1>4. Sum(g, S)[R] = Sum(g, R)[R]
  BY <1>1, SumWithin
<1>5. Sigma(f, S) = Sum(g, S)[S]
  BY <1>1, SigmaAgrees, SigmaIsSum
<1>6. Sigma(f, R) = Sum(g, R)[R]
  BY <1>1, <1>2, SigmaAgrees, SigmaIsSum
<1>7. f[t] = g[t]
  BY <1>1
<1> QED BY <1>3, <1>4, <1>5, <1>6, <1>7 DEF R

(* A term changes by what the sum does. *)
LEMMA SigmaChange ==
  ASSUME NEW S, IsFiniteSet(S), NEW f, NEW h, \A x \in S : f[x] \in Int,
         NEW t \in S, NEW change \in Int,
         h[t] = f[t] + change, \A u \in S \ {t} : h[u] = f[u]
  PROVE  Sigma(h, S) = Sigma(f, S) + change
<1> DEFINE R == S \ {t}
<1>1. IsFiniteSet(R) /\ \A x \in R : f[x] \in Int
  BY FS_Subset, R \subseteq S
<1>2. \A x \in S : h[x] \in Int
  OBVIOUS
<1>3. \A x \in R : f[x] = h[x]
  OBVIOUS
<1>4. Sigma(f, S) = f[t] + Sigma(f, R)
  BY SigmaFrom
<1>5. Sigma(h, S) = h[t] + Sigma(h, R)
  BY <1>2, SigmaFrom
<1> HIDE DEF R
<1>6. Sigma(h, R) = Sigma(f, R) /\ Sigma(f, R) \in Int
  BY <1>1, <1>3, SigmaAgrees, SigmaInt
<1>7. f[t] \in Int
  OBVIOUS
<1> QED BY <1>4, <1>5, <1>6, <1>7

(* Terms that are 0 may be left out. *)
LEMMA SigmaDrop ==
  ASSUME NEW S, IsFiniteSet(S), NEW f, \A x \in S : f[x] \in Int,
         NEW T \in SUBSET S, \A x \in S \ T : f[x] = 0
  PROVE  Sigma(f, S) = Sigma(f, T)
<1> DEFINE Bad == {r \in SUBSET S : T \subseteq r /\ Sigma(f, r) # Sigma(f, T)}
<1>1. ASSUME NEW r \in Bad, \A x \in r : r \ {x} \notin Bad PROVE FALSE
  <2>1. r \in SUBSET S /\ T \subseteq r /\ Sigma(f, r) # Sigma(f, T)
    OBVIOUS
  <2>2. PICK x \in r : x \notin T
    BY <2>1
  <2>3. r \ {x} \in SUBSET S /\ T \subseteq r \ {x} /\ x \in S \ T
    BY <2>1, <2>2
  <2>4. Sigma(f, r \ {x}) = Sigma(f, T)
    BY <1>1, <2>2, <2>3
  <2>5. IsFiniteSet(r) /\ \A y \in r : f[y] \in Int
    BY <2>1, FS_Subset
  <2>6. Sigma(f, r) = f[x] + Sigma(f, r \ {x})
    BY <2>2, <2>5, SigmaFrom
  <2>7. f[x] = 0
    BY <2>3
  <2>8. IsFiniteSet(T) /\ \A y \in T : f[y] \in Int
    BY FS_Subset
  <2>9. Sigma(f, T) \in Int
    BY <2>8, SigmaInt
  <2> QED BY <2>1, <2>4, <2>6, <2>7, <2>9
<1>2. Bad \subseteq SUBSET S /\ (Bad = {} => Sigma(f, S) = Sigma(f, T))
  OBVIOUS
<1> HIDE DEF Bad
<1> QED BY <1>1, <1>2, SmallestSubset

LEMMA SigmaZero ==
  ASSUME NEW S, IsFiniteSet(S), NEW f, \A t \in S : f[t] = 0
  PROVE  Sigma(f, S) = 0
<1>1. {} \in SUBSET S /\ \A t \in S : f[t] \in Int
  OBVIOUS
<1>2. Sigma(f, S) = Sigma(f, {})
  BY <1>1, SigmaDrop
<1> QED BY <1>2, SigmaEmpty

(* Sums term by term. *)
LEMMA SigmaSum ==
  ASSUME NEW S, IsFiniteSet(S), NEW f, NEW g, NEW h,
         \A x \in S : f[x] \in Int /\ g[x] \in Int /\ h[x] = f[x] + g[x]
  PROVE  Sigma(h, S) = Sigma(f, S) + Sigma(g, S)
<1> DEFINE Bad == {r \in SUBSET S : Sigma(h, r) # Sigma(f, r) + Sigma(g, r)}
<1>1. ASSUME NEW r \in Bad, \A x \in r : r \ {x} \notin Bad PROVE FALSE
  <2>1. r \in SUBSET S /\ Sigma(h, r) # Sigma(f, r) + Sigma(g, r)
    OBVIOUS
  <2>2. r # {}
    BY <2>1, SigmaEmpty
  <2>3. PICK x \in r : TRUE
    BY <2>2
  <2> DEFINE q == r \ {x}
  <2>4. q \in SUBSET S /\ x \in S
    BY <2>1
  <2>5. Sigma(h, q) = Sigma(f, q) + Sigma(g, q)
    BY <1>1, <2>3, <2>4
  <2>6. IsFiniteSet(r) /\ IsFiniteSet(q)
    BY <2>1, <2>4, FS_Subset
  <2>7. /\ \A y \in r : f[y] \in Int /\ g[y] \in Int /\ h[y] \in Int
        /\ \A y \in q : f[y] \in Int /\ g[y] \in Int
    BY <2>1
  <2>8. /\ Sigma(f, r) = f[x] + Sigma(f, q)
        /\ Sigma(g, r) = g[x] + Sigma(g, q)
        /\ Sigma(h, r) = h[x] + Sigma(h, q)
    BY <2>6, <2>7, SigmaFrom
  <2> HIDE DEF q
  <2>9. Sigma(f, q) \in Int /\ Sigma(g, q) \in Int
    BY <2>6, <2>7, SigmaInt
  <2>10. h[x] = f[x] + g[x] /\ f[x] \in Int /\ g[x] \in Int
    BY <2>4
  <2> QED BY <2>1, <2>5, <2>8, <2>9, <2>10
<1>2. Bad \subseteq SUBSET S /\ (Bad = {} => Sigma(h, S) = Sigma(f, S) + Sigma(g, S))
  OBVIOUS
<1> HIDE DEF Bad
<1> QED BY <1>1, <1>2, SmallestSubset

LEMMA SigmaNegated ==
  ASSUME NEW S, IsFiniteSet(S), NEW f, NEW g, \A x \in S : f[x] \in Int /\ g[x] = -f[x]
  PROVE  Sigma(g, S) = -Sigma(f, S)
<1> DEFINE zero == [x \in S |-> 0]
<1>1. \A x \in S : f[x] \in Int /\ g[x] \in Int /\ zero[x] = f[x] + g[x]
  OBVIOUS
<1>2. Sigma(zero, S) = 0
  BY SigmaZero
<1> HIDE DEF zero
<1>3. Sigma(zero, S) = Sigma(f, S) + Sigma(g, S)
  BY <1>1, SigmaSum
<1>4. Sigma(f, S) \in Int /\ Sigma(g, S) \in Int
  BY <1>1, SigmaInt
<1> QED BY <1>2, <1>3, <1>4

(* By rows or by columns. *)
LEMMA SigmaSwap ==
  ASSUME NEW A, NEW B, IsFiniteSet(A), IsFiniteSet(B), NEW F,
         \A a \in A : \A b \in B : F[a][b] \in Int
  PROVE  Sigma([a \in A |-> Sigma(F[a], B)], A)
         = Sigma([b \in B |-> Sigma([a \in A |-> F[a][b]], A)], B)
<1> DEFINE Rows == [a \in A |-> Sigma(F[a], B)]
           Col(b) == [a \in A |-> F[a][b]]
           Cols(r) == [b \in B |-> Sigma(Col(b), r)]
           Bad == {r \in SUBSET A : Sigma(Rows, r) # Sigma(Cols(r), B)}
<1>0. /\ \A a \in A : Rows[a] = Sigma(F[a], B) /\ Rows[a] \in Int
      /\ \A b \in B : \A a \in A : Col(b)[a] = F[a][b] /\ Col(b)[a] \in Int
      /\ \A r : \A b \in B : Cols(r)[b] = Sigma(Col(b), r)
  BY SigmaInt
<1> HIDE DEF Rows, Col, Cols
<1>1. ASSUME NEW r \in Bad, \A x \in r : r \ {x} \notin Bad PROVE FALSE
  <2>1. r \in SUBSET A /\ Sigma(Rows, r) # Sigma(Cols(r), B) /\ IsFiniteSet(r)
    BY FS_Subset
  <2>2. CASE r = {}
    <3>1. \A b \in B : Cols(r)[b] = 0
      BY <1>0, <2>2, SigmaEmpty
    <3>2. Sigma(Cols(r), B) = 0
      BY <3>1, SigmaZero
    <3> QED BY <2>1, <2>2, <3>2, SigmaEmpty
  <2>3. CASE r # {}
    <3>1. PICK a \in r : TRUE
      BY <2>3
    <3> DEFINE q == r \ {a}
    <3>2. q \in SUBSET A /\ a \in A /\ IsFiniteSet(q)
      BY <2>1, FS_Subset
    <3>3. Sigma(Rows, q) = Sigma(Cols(q), B)
      BY <1>1, <3>1, <3>2
    <3>4. Sigma(Rows, r) = Rows[a] + Sigma(Rows, q)
      BY <1>0, <2>1, SigmaFrom
    <3>5. ASSUME NEW b \in B
          PROVE  Cols(r)[b] = F[a][b] + Cols(q)[b] /\ Cols(q)[b] \in Int /\ F[a][b] \in Int
      <4>1. \A y \in r : Col(b)[y] \in Int
        BY <1>0, <2>1
      <4>2. Sigma(Col(b), r) = Col(b)[a] + Sigma(Col(b), q)
        BY <2>1, <4>1, SigmaFrom
      <4>3. Sigma(Col(b), q) \in Int
        BY <3>2, <4>1, SigmaInt
      <4> QED BY <1>0, <3>2, <4>2, <4>3
    <3> HIDE DEF q
    <3>6. Sigma(Cols(r), B) = Sigma(F[a], B) + Sigma(Cols(q), B)
      BY <3>5, SigmaSum
    <3> QED BY <1>0, <2>1, <3>2, <3>3, <3>4, <3>6
  <2> QED BY <2>2, <2>3
<1>2. Bad = {}
  BY <1>1, SmallestSubset
<1>3. Sigma(Rows, A) = Sigma(Cols(A), B)
  BY <1>2
<1> QED BY <1>3 DEF Rows, Cols, Col

(* Terms that cancel in pairs. *)
LEMMA SigmaCancels ==
  ASSUME NEW S, IsFiniteSet(S), NEW f, \A x \in S : f[x] \in Int,
         NEW Partner,
         \A x \in S : /\ Partner[x] \in S /\ Partner[x] # x
                      /\ Partner[Partner[x]] = x /\ f[Partner[x]] = -f[x]
  PROVE  Sigma(f, S) = 0
<1> DEFINE Paired(r) == \A x \in r : Partner[x] \in r
           Bad == {r \in SUBSET S : Paired(r) /\ Sigma(f, r) # 0}
<1>1. ASSUME NEW r \in Bad, \A q \in Bad : q \subseteq r => q = r PROVE FALSE
  <2>1. r \in SUBSET S /\ Paired(r) /\ Sigma(f, r) # 0 /\ IsFiniteSet(r)
    BY FS_Subset
  <2>2. r # {}
    BY <2>1, SigmaEmpty
  <2>3. PICK x \in r : TRUE
    BY <2>2
  <2> DEFINE y == Partner[x]
             q == (r \ {x}) \ {y}
  <2>4. y \in r \ {x} /\ x \in S /\ y \in S /\ f[y] = -f[x] /\ f[x] \in Int
    BY <2>1
  <2>5. q \in SUBSET S /\ Paired(q) /\ IsFiniteSet(q) /\ q \subseteq r /\ q # r
    BY <2>1, <2>4, FS_Subset
  <2>6. Sigma(f, q) = 0
    BY <1>1, <2>5
  <2>7. IsFiniteSet(r \ {x}) /\ \A z \in r : f[z] \in Int
    BY <2>1, FS_Subset
  <2>8. Sigma(f, r) = f[x] + Sigma(f, r \ {x})
    BY <2>1, <2>7, SigmaFrom
  <2>9. Sigma(f, r \ {x}) = f[y] + Sigma(f, q)
    BY <2>4, <2>7, SigmaFrom
  <2> HIDE DEF q, y
  <2> QED BY <2>1, <2>4, <2>6, <2>8, <2>9
<1>2. Bad \subseteq SUBSET S /\ (Bad = {} => Sigma(f, S) = 0)
  OBVIOUS
<1> HIDE DEF Bad
<1> QED BY <1>1, <1>2, MinimalSubset

(* The same factor in every term. *)
LEMMA SigmaScaled ==
  ASSUME NEW S, IsFiniteSet(S), NEW c \in Int, NEW f, NEW g,
         \A x \in S : f[x] \in Int /\ g[x] = f[x] * c
  PROVE  Sigma(g, S) = Sigma(f, S) * c
<1> DEFINE Bad == {r \in SUBSET S : Sigma(g, r) # Sigma(f, r) * c}
<1>1. ASSUME NEW r \in Bad, \A x \in r : r \ {x} \notin Bad PROVE FALSE
  <2>1. r \in SUBSET S /\ Sigma(g, r) # Sigma(f, r) * c /\ IsFiniteSet(r)
    BY FS_Subset
  <2>2. r # {}
    <3>1. 0 * c = 0
      OBVIOUS
    <3> QED BY <2>1, <3>1, SigmaEmpty
  <2>3. PICK x \in r : TRUE
    BY <2>2
  <2> DEFINE q == r \ {x}
  <2>4. q \in SUBSET S /\ IsFiniteSet(q) /\ x \in S
    BY <2>1, FS_Subset
  <2>5. Sigma(g, q) = Sigma(f, q) * c
    BY <1>1, <2>4
  <2>6. \A y \in S : f[y] \in Int /\ g[y] \in Int
    OBVIOUS
  <2>7. Sigma(f, r) = f[x] + Sigma(f, q) /\ Sigma(g, r) = g[x] + Sigma(g, q)
    BY <2>1, <2>6, SigmaFrom
  <2> HIDE DEF q
  <2>8. Sigma(f, q) \in Int
    BY <2>4, <2>6, SigmaInt
  <2>9. g[x] = f[x] * c /\ f[x] \in Int
    BY <2>4
  <2>10. \A m, k \in Int : (m + k) * c = m * c + k * c
    OBVIOUS
  <2> QED BY <2>1, <2>5, <2>7, <2>8, <2>9, <2>10
<1>2. Bad \subseteq SUBSET S /\ (Bad = {} => Sigma(g, S) = Sigma(f, S) * c)
  OBVIOUS
<1> HIDE DEF Bad
<1> QED BY <1>1, <1>2, SmallestSubset

(* As many equal terms as the set has elements. *)
LEMMA SigmaConstant ==
  ASSUME NEW S, IsFiniteSet(S), NEW c \in Int, NEW f, \A x \in S : f[x] = c
  PROVE  Sigma(f, S) = Cardinality(S) * c
<1> DEFINE Bad == {r \in SUBSET S : Sigma(f, r) # Cardinality(r) * c}
<1>1. ASSUME NEW r \in Bad, \A x \in r : r \ {x} \notin Bad PROVE FALSE
  <2>1. r \in SUBSET S /\ Sigma(f, r) # Cardinality(r) * c /\ IsFiniteSet(r)
    BY FS_Subset
  <2>2. r # {}
    <3>1. 0 * c = 0
      OBVIOUS
    <3> QED BY <2>1, <3>1, SigmaEmpty, FS_EmptySet
  <2>3. PICK x \in r : TRUE
    BY <2>2
  <2> DEFINE q == r \ {x}
             n == Cardinality(q)
  <2>4. q \in SUBSET S /\ IsFiniteSet(q) /\ x \in S /\ n \in Nat
    BY <2>1, FS_Subset, FS_CardinalityType
  <2>5. Sigma(f, q) = n * c
    BY <1>1, <2>4
  <2>6. Sigma(f, r) = f[x] + Sigma(f, q)
    BY <2>1, SigmaFrom
  <2>7. Cardinality(r) = n + 1
    <3>1. Cardinality(r) \in Nat /\ n = Cardinality(r) - 1
      BY <2>1, <2>3, FS_RemoveElement, FS_CardinalityType
    <3> QED BY <3>1
  <2> HIDE DEF q, n
  <2>8. (n + 1) * c = c + n * c
    BY <2>4
  <2> QED BY <2>1, <2>4, <2>5, <2>6, <2>7, <2>8
<1>2. Bad \subseteq SUBSET S /\ (Bad = {} => Sigma(f, S) = Cardinality(S) * c)
  OBVIOUS
<1> HIDE DEF Bad
<1> QED BY <1>1, <1>2, SmallestSubset

LEMMA SigmaPositive ==
  ASSUME NEW S, IsFiniteSet(S), NEW f, \A x \in S : f[x] \in Nat,
         NEW t \in S, f[t] > 0
  PROVE  Sigma(f, S) > 0
<1> DEFINE R == S \ {t}
<1>1. IsFiniteSet(R) /\ \A x \in R : f[x] \in Nat
  BY FS_Subset, R \subseteq S
<1>2. Sigma(f, S) = f[t] + Sigma(f, R)
  BY SigmaFrom
<1>3. Sigma(f, R) \in Nat
  BY <1>1, SigmaType
<1> QED BY <1>2, <1>3

(* Only one term. *)
LEMMA SigmaSingle ==
  ASSUME NEW S, IsFiniteSet(S), NEW t \in S, NEW f, f[t] \in Int,
         \A x \in S \ {t} : f[x] = 0
  PROVE  Sigma(f, S) = f[t]
<1>1. \A x \in S : f[x] \in Int
  OBVIOUS
<1>2. Sigma(f, S) = f[t] + Sigma(f, S \ {t})
  BY <1>1, SigmaFrom
<1>3. IsFiniteSet(S \ {t})
  BY FS_Subset, S \ {t} \subseteq S
<1>4. Sigma(f, S \ {t}) = 0
  BY <1>3, SigmaZero
<1> QED BY <1>2, <1>4

(* What holds at 0 and is kept up to n holds up to n. *)
LEMMA UpTo ==
  ASSUME NEW n \in Nat, NEW G, 0 \in G, \A k \in 1 .. n : k - 1 \in G => k \in G
  PROVE  0 .. n \subseteq G
<1> DEFINE Bad == {k \in 0 .. n : k \notin G}
<1>1. ASSUME NEW k \in Bad, \A m \in Bad : k <= m PROVE FALSE
  <2>1. k \in 1 .. n /\ k \notin G /\ k - 1 \in 0 .. n /\ ~(k <= k - 1)
    OBVIOUS
  <2>2. k - 1 \in G
    BY <1>1, <2>1
  <2> QED BY <2>1, <2>2
<1>2. Bad = {}
  BY <1>1, LeastNatural, Bad \subseteq Nat
<1> QED BY <1>2
=============================================================================

----------------------------- MODULE FiniteSums -----------------------------
(***************************************************************************)
(* Induction over natural numbers and finite sets, stated with sets of the *)
(* numbers or subsets for which a fact holds, and what it shows about      *)
(* SumFunctionOnSet: how the sum of a function over a finite set changes   *)
(* with one of its values.                                                 *)
(***************************************************************************)
EXTENDS Integers, FiniteSets, Functions, FiniteSetTheorems, TLAPS

\* A non-empty set of natural numbers has a least element.
LEMMA LeastNatural ==
  ASSUME NEW S \in SUBSET Nat, S # {}
  PROVE  \E m \in S : \A n \in S : m <= n
<1>1. \E R : IsWellFoundedOn(R, Nat) /\ \A m, n \in Nat : <<n, m>> \in R <=> n < m
  <2> DEFINE R == {ss \in Nat \X Nat : ss[1] < ss[2]}
  <2>1. IsWellFoundedOn(R, Nat)
    BY NatLessThanWellFounded DEF OpToRel
  <2>2. \A m, n \in Nat : <<n, m>> \in R <=> n < m
    OBVIOUS
  <2>3. QED
    BY <2>1, <2>2
<1>2. PICK R : IsWellFoundedOn(R, Nat) /\ \A m, n \in Nat : <<n, m>> \in R <=> n < m
  BY <1>1
<1>3. PICK m \in S : \A n \in S : ~ (<<n, m>> \in R)
  BY <1>2, WFMin
<1>4. ASSUME NEW n \in S PROVE m <= n
  <2>1. m \in Nat /\ n \in Nat /\ ~ (n < m)
    BY <1>2, <1>3, Zenon
  <2>2. QED
    BY <2>1
<1>5. QED
  BY <1>4

\* Induction over the natural numbers.
LEMMA SetOfAllNaturals ==
  ASSUME NEW G \in SUBSET Nat, 0 \in G, \A n \in G : n + 1 \in G
  PROVE  G = Nat
<1> SUFFICES ASSUME G # Nat PROVE FALSE
  OBVIOUS
<1>1. PICK B \in SUBSET Nat : B = Nat \ G
  OBVIOUS
<1>2. PICK m \in B : \A n \in B : m <= n
  BY <1>1, LeastNatural
<1>3. m # 0 /\ m - 1 \in Nat /\ m - 1 \notin B
  BY <1>1, <1>2
<1>4. QED
  BY <1>1, <1>3

\* The element a sum takes out of a set first.
First(T) == CHOOSE x \in T : TRUE

LEMMA FirstElement == ASSUME NEW T, T # {} PROVE First(T) \in T
BY DEF First

\* Induction over the subsets of a finite set.
LEMMA SetOfAllSubsets ==
  ASSUME NEW S, IsFiniteSet(S), NEW G \in SUBSET (SUBSET S), {} \in G,
         \A T \in SUBSET S : T # {} /\ T \ {First(T)} \in G => T \in G
  PROVE  G = SUBSET S
<1> SUFFICES ASSUME G # SUBSET S PROVE FALSE
  OBVIOUS
<1>1. \A T \in SUBSET S : IsFiniteSet(T) /\ Cardinality(T) \in Nat
  BY FS_Subset, FS_CardinalityType
<1>2. PICK B : B = (SUBSET S) \ G
  OBVIOUS
<1>3. B # {} /\ B \subseteq SUBSET S
  BY <1>2
<1>4. PICK N : N = {Cardinality(T) : T \in B}
  OBVIOUS
<1>5. N \in SUBSET Nat /\ N # {}
  BY <1>1, <1>3, <1>4
<1>6. PICK m \in N : \A n \in N : m <= n
  BY <1>5, LeastNatural
<1>7. PICK T \in B : Cardinality(T) = m
  BY <1>4
<1>8. T # {} /\ T \in SUBSET S
  BY <1>2, <1>3
<1>9. PICK x \in T : x = First(T)
  BY <1>8, FirstElement
<1>10. Cardinality(T \ {x}) = Cardinality(T) - 1
  BY <1>1, <1>8, FS_RemoveElement
<1>11. T \ {x} \in B
  BY <1>2, <1>8, <1>9
<1>12. Cardinality(T \ {x}) \in N
  BY <1>4, <1>11
<1>13. QED
  BY <1>1, <1>6, <1>7, <1>8, <1>10, <1>12

-----------------------------------------------------------------------------
(* The partial sums behind SumFunctionOnSet.                               *)

\* f can be summed up over S.
Summable(f, S) == \A x \in S : f[x] \in Nat

\* What the sum over T is in terms of partial sums g over smaller sets.
SumStep(f, g, T) == IF T = {} THEN 0 ELSE f[First(T)] + g[T \ {First(T)}]

IsPartialSums(f, S, g) == g = [T \in SUBSET S |-> SumStep(f, g, T)]

PartialSums(f, S) == CHOOSE g : IsPartialSums(f, S, g)

LEMMA SumIsPartial ==
  ASSUME NEW f, NEW S
  PROVE  SumFunctionOnSet(f, S) = PartialSums(f, S)[S]
BY DEF SumFunctionOnSet, FoldFunctionOnSet, MapThenFoldSet, PartialSums,
       IsPartialSums, SumStep, First

\* The recursive definition of the partial sums has a solution.
LEMMA PartialSumsExist ==
  ASSUME NEW f, NEW S, IsFiniteSet(S), Summable(f, S)
  PROVE  IsPartialSums(f, S, PartialSums(f, S))
<1> DEFINE Upto(g, n) == \A T \in SUBSET S : Cardinality(T) <= n => g[T] = SumStep(f, g, T)
<1>1. \A T \in SUBSET S : IsFiniteSet(T) /\ Cardinality(T) \in Nat
  BY FS_Subset, FS_CardinalityType
<1>2. \A T \in SUBSET S : T # {} => /\ First(T) \in T
                                    /\ T \ {First(T)} \in SUBSET S
                                    /\ Cardinality(T \ {First(T)}) = Cardinality(T) - 1
  <2> SUFFICES ASSUME NEW T \in SUBSET S, T # {}
               PROVE /\ First(T) \in T
                     /\ T \ {First(T)} \in SUBSET S
                     /\ Cardinality(T \ {First(T)}) = Cardinality(T) - 1
    OBVIOUS
  <2>1. PICK x \in T : x = First(T)
    BY DEF First
  <2>2. QED
    BY <1>1, <2>1, FS_RemoveElement
<1>3. PICK G \in SUBSET Nat : G = {n \in Nat : \E g \in [SUBSET S -> Nat] : Upto(g, n)}
  OBVIOUS
<1>4. 0 \in G
  <2> DEFINE g == [T \in SUBSET S |-> 0]
  <2>1. \A T \in SUBSET S : Cardinality(T) <= 0 => T = {}
    BY <1>1, FS_EmptySet
  <2>2. Upto(g, 0)
    BY <2>1 DEF SumStep
  <2>3. g \in [SUBSET S -> Nat]
    OBVIOUS
  <2>4. QED
    BY <1>3, <2>2, <2>3
<1>5. ASSUME NEW n \in G PROVE n + 1 \in G
  <2>1. PICK g \in [SUBSET S -> Nat] : Upto(g, n)
    BY <1>3
  <2>0. PICK h : h = [T \in SUBSET S |-> SumStep(f, g, T)]
    OBVIOUS
  <2>2. \A T \in SUBSET S : SumStep(f, g, T) \in Nat
    <3> SUFFICES ASSUME NEW T \in SUBSET S PROVE SumStep(f, g, T) \in Nat
      OBVIOUS
    <3>1. CASE T = {}
      BY <3>1 DEF SumStep
    <3>2. CASE T # {}
      <4>1. f[First(T)] \in Nat /\ g[T \ {First(T)}] \in Nat
        BY <1>2, <3>2 DEF Summable
      <4>2. QED
        BY <3>2, <4>1 DEF SumStep
    <3>3. QED
      BY <3>1, <3>2
  <2>3. h \in [SUBSET S -> Nat]
    BY <2>0, <2>2
  <2>4. \A T \in SUBSET S : Cardinality(T) <= n => h[T] = g[T]
    BY <2>0, <2>1
  <2>5. ASSUME NEW T \in SUBSET S, Cardinality(T) <= n + 1
        PROVE  h[T] = SumStep(f, h, T)
    <3>1. ASSUME T # {} PROVE h[T \ {First(T)}] = g[T \ {First(T)}]
      <4>1. PICK U \in SUBSET S : U = T \ {First(T)} /\ Cardinality(U) = Cardinality(T) - 1
        BY <1>2, <3>1
      <4>2. Cardinality(U) <= n
        BY <1>1, <1>3, <2>5, <4>1
      <4>3. QED
        BY <2>4, <4>1, <4>2
    <3>2. QED
      BY <2>0, <3>1 DEF SumStep
  <2>6. Upto(h, n + 1)
    BY <2>5
  <2>7. n + 1 \in Nat /\ \E k \in [SUBSET S -> Nat] : Upto(k, n + 1)
    BY <2>3, <2>6
  <2>8. QED
    BY <1>3, <2>7
<1>6. Cardinality(S) \in G
  BY <1>1, <1>4, <1>5, SetOfAllNaturals
<1>7. PICK g \in [SUBSET S -> Nat] : Upto(g, Cardinality(S))
  BY <1>3, <1>6
<1>8. \A T \in SUBSET S : Cardinality(T) <= Cardinality(S)
  BY FS_Subset
<1>9. IsPartialSums(f, S, g)
  BY <1>7, <1>8 DEF IsPartialSums
<1>10. QED
  BY <1>9 DEF PartialSums

\* The empty sum.
LEMMA PartialSumsEmpty ==
  ASSUME NEW f, NEW S, IsFiniteSet(S), Summable(f, S), NEW g, g = PartialSums(f, S)
  PROVE  g[{}] = 0
<1>0. IsPartialSums(f, S, g)
  BY PartialSumsExist
<1>1. g = [T \in SUBSET S |-> SumStep(f, g, T)]
  BY <1>0 DEF IsPartialSums
<1>2. g[{}] = SumStep(f, g, {})
  BY <1>1
<1>3. QED
  BY <1>2 DEF SumStep

\* The partial sums one element at a time.
LEMMA PartialSumsAdd ==
  ASSUME NEW f, NEW S, IsFiniteSet(S), Summable(f, S), NEW g, g = PartialSums(f, S),
         NEW T \in SUBSET S, NEW x \in T, x = First(T)
  PROVE  g[T] = f[x] + g[T \ {x}]
<1>0. IsPartialSums(f, S, g)
  BY PartialSumsExist
<1>1. g = [U \in SUBSET S |-> SumStep(f, g, U)]
  BY <1>0 DEF IsPartialSums
<1>2. g[T] = SumStep(f, g, T)
  BY <1>1
<1>3. QED
  BY <1>2 DEF SumStep

\* Partial sums of natural numbers are natural numbers.
LEMMA PartialSumsType ==
  ASSUME NEW f, NEW S, IsFiniteSet(S), Summable(f, S), NEW g, g = PartialSums(f, S)
  PROVE  \A T \in SUBSET S : g[T] \in Nat
<1>1. PICK G \in SUBSET (SUBSET S) : G = {T \in SUBSET S : g[T] \in Nat}
  OBVIOUS
<1>2. {} \in G
  BY <1>1, PartialSumsEmpty
<1>3. ASSUME NEW T \in SUBSET S, T # {}, T \ {First(T)} \in G PROVE T \in G
  <2>1. PICK x \in T : x = First(T)
    BY <1>3, FirstElement
  <2>2. g[T] = f[x] + g[T \ {x}]
    BY <2>1, PartialSumsAdd
  <2>3. f[x] \in Nat /\ g[T \ {x}] \in Nat
    BY <1>1, <1>3, <2>1 DEF Summable
  <2>4. QED
    BY <1>1, <2>2, <2>3
<1>4. G = SUBSET S
  BY <1>2, <1>3, SetOfAllSubsets
<1>5. QED
  BY <1>1, <1>4

\* A sum of natural numbers is a natural number.
LEMMA SumType ==
  ASSUME NEW f, NEW S, IsFiniteSet(S), Summable(f, S)
  PROVE  SumFunctionOnSet(f, S) \in Nat
BY PartialSumsType, SumIsPartial

\* A function that differs from another at one place has a sum that differs by
\* as much.
LEMMA SumUpdate ==
  ASSUME NEW f, NEW h, NEW S, IsFiniteSet(S), Summable(f, S), Summable(h, S),
         NEW a \in S, \A x \in S \ {a} : h[x] = f[x]
  PROVE  SumFunctionOnSet(h, S) = SumFunctionOnSet(f, S) + h[a] - f[a]
<1>1. PICK g, k : g = PartialSums(f, S) /\ k = PartialSums(h, S)
  OBVIOUS
<1>2. \A T \in SUBSET S : g[T] \in Nat /\ k[T] \in Nat
  BY <1>1, PartialSumsType
<1>3. f[a] \in Nat /\ h[a] \in Nat
  BY DEF Summable
<1>4. PICK G \in SUBSET (SUBSET S) :
        G = {T \in SUBSET S : k[T] = IF a \in T THEN g[T] + h[a] - f[a] ELSE g[T]}
  OBVIOUS
<1>5. {} \in G
  BY <1>1, <1>4, PartialSumsEmpty
<1>6. ASSUME NEW T \in SUBSET S, T # {}, T \ {First(T)} \in G PROVE T \in G
  <2>1. PICK x \in T : x = First(T)
    BY <1>6, FirstElement
  <2>2. g[T] = f[x] + g[T \ {x}] /\ k[T] = h[x] + k[T \ {x}]
    BY <1>1, <2>1, PartialSumsAdd
  <2>3. k[T \ {x}] = IF a \in T \ {x} THEN g[T \ {x}] + h[a] - f[a] ELSE g[T \ {x}]
    BY <1>4, <1>6, <2>1
  <2>4. /\ f[x] \in Nat /\ h[x] \in Nat
        /\ g[T \ {x}] \in Nat /\ k[T \ {x}] \in Nat
    BY <1>2 DEF Summable
  <2>5. CASE x = a
    BY <1>4, <2>2, <2>3, <2>4, <2>5
  <2>6. CASE x # a
    <3>1. h[x] = f[x] /\ (a \in T \ {x} <=> a \in T)
      BY <2>6
    <3>2. QED
      BY <1>3, <1>4, <2>2, <2>3, <2>4, <3>1
  <2>7. QED
    BY <2>5, <2>6
<1>7. G = SUBSET S
  BY <1>5, <1>6, SetOfAllSubsets
<1>8. k[S] = g[S] + h[a] - f[a]
  BY <1>4, <1>7
<1>9. QED
  BY <1>1, <1>8, SumIsPartial

\* A sum grows with its terms.
LEMMA SumMonotone ==
  ASSUME NEW f, NEW h, NEW S, IsFiniteSet(S), Summable(f, S), Summable(h, S),
         \A x \in S : f[x] <= h[x]
  PROVE  SumFunctionOnSet(f, S) <= SumFunctionOnSet(h, S)
<1>1. PICK g, k : g = PartialSums(f, S) /\ k = PartialSums(h, S)
  OBVIOUS
<1>2. \A T \in SUBSET S : g[T] \in Nat /\ k[T] \in Nat
  BY <1>1, PartialSumsType
<1>3. PICK G \in SUBSET (SUBSET S) : G = {T \in SUBSET S : g[T] <= k[T]}
  OBVIOUS
<1>4. {} \in G
  BY <1>1, <1>3, PartialSumsEmpty
<1>5. ASSUME NEW T \in SUBSET S, T # {}, T \ {First(T)} \in G PROVE T \in G
  <2>1. PICK x \in T : x = First(T)
    BY <1>5, FirstElement
  <2>2. g[T] = f[x] + g[T \ {x}] /\ k[T] = h[x] + k[T \ {x}]
    BY <1>1, <2>1, PartialSumsAdd
  <2>3. /\ f[x] \in Nat /\ h[x] \in Nat /\ f[x] <= h[x]
        /\ g[T \ {x}] \in Nat /\ k[T \ {x}] \in Nat
        /\ g[T \ {x}] <= k[T \ {x}]
    BY <1>2, <1>3, <1>5, <2>1 DEF Summable
  <2>4. QED
    BY <1>3, <2>2, <2>3
<1>6. G = SUBSET S
  BY <1>4, <1>5, SetOfAllSubsets
<1>7. QED
  BY <1>1, <1>3, <1>6, SumIsPartial

\* The sum of zeros.
LEMMA SumZero ==
  ASSUME NEW f, NEW S, IsFiniteSet(S), \A x \in S : f[x] = 0
  PROVE  SumFunctionOnSet(f, S) = 0
<1>1. PICK g : g = PartialSums(f, S)
  OBVIOUS
<1>2. Summable(f, S)
  BY DEF Summable
<1>3. PICK G \in SUBSET (SUBSET S) : G = {T \in SUBSET S : g[T] = 0}
  OBVIOUS
<1>4. {} \in G
  BY <1>1, <1>2, <1>3, PartialSumsEmpty
<1>5. ASSUME NEW T \in SUBSET S, T # {}, T \ {First(T)} \in G PROVE T \in G
  <2>1. PICK x \in T : x = First(T)
    BY <1>5, FirstElement
  <2>2. g[T] = f[x] + g[T \ {x}] /\ f[x] = 0
    BY <1>1, <1>2, <2>1, PartialSumsAdd
  <2>3. QED
    BY <1>3, <1>5, <2>1, <2>2
<1>6. G = SUBSET S
  BY <1>4, <1>5, SetOfAllSubsets
<1>7. QED
  BY <1>1, <1>3, <1>6, SumIsPartial

\* Two functions that change at one place, the first by at most as much as the
\* second: their sums change likewise.
LEMMA SumBalance ==
  ASSUME NEW f, NEW ff, NEW g, NEW gg, NEW S, IsFiniteSet(S),
         Summable(f, S), Summable(ff, S), Summable(g, S), Summable(gg, S),
         NEW a \in S,
         \A x \in S \ {a} : ff[x] = f[x] /\ gg[x] = g[x],
         ff[a] - f[a] <= gg[a] - g[a]
  PROVE  SumFunctionOnSet(ff, S) - SumFunctionOnSet(f, S)
            <= SumFunctionOnSet(gg, S) - SumFunctionOnSet(g, S)
<1>1. SumFunctionOnSet(ff, S) = SumFunctionOnSet(f, S) + ff[a] - f[a]
  BY SumUpdate
<1>2. SumFunctionOnSet(gg, S) = SumFunctionOnSet(g, S) + gg[a] - g[a]
  BY SumUpdate
<1>3. SumFunctionOnSet(f, S) \in Nat /\ SumFunctionOnSet(g, S) \in Nat
  BY SumType
<1>4. f[a] \in Nat /\ ff[a] \in Nat /\ g[a] \in Nat /\ gg[a] \in Nat
  BY DEF Summable
<1>5. QED
  BY <1>1, <1>2, <1>3, <1>4

\* What one term loses another may gain.
LEMMA SumMove ==
  ASSUME NEW f, NEW h, NEW S, IsFiniteSet(S), Summable(f, S), Summable(h, S),
         NEW a \in S, NEW b \in S, a # b,
         \A x \in S \ {a, b} : h[x] = f[x],
         h[a] + h[b] <= f[a] + f[b]
  PROVE  SumFunctionOnSet(h, S) <= SumFunctionOnSet(f, S)
<1>1. PICK m : m = [x \in S |-> IF x = a THEN h[a] ELSE f[x]]
  OBVIOUS
<1>2. Summable(m, S)
  BY <1>1 DEF Summable
<1>3. SumFunctionOnSet(m, S) = SumFunctionOnSet(f, S) + m[a] - f[a]
  BY <1>1, <1>2, SumUpdate
<1>4. SumFunctionOnSet(h, S) = SumFunctionOnSet(m, S) + h[b] - m[b]
  BY <1>1, <1>2, SumUpdate
<1>5. m[a] = h[a] /\ m[b] = f[b]
  BY <1>1
<1>6. /\ SumFunctionOnSet(f, S) \in Nat
      /\ f[a] \in Nat /\ h[a] \in Nat /\ f[b] \in Nat /\ h[b] \in Nat
  BY SumType DEF Summable
<1>7. QED
  BY <1>3, <1>4, <1>5, <1>6

\* Summing up through an injection reaches each term at most once.
LEMMA SumInjection ==
  ASSUME NEW S, NEW E, IsFiniteSet(S), IsFiniteSet(E), NEW s \in [S -> E],
         \A x, y \in S : s[x] = s[y] => x = y,
         NEW f, Summable(f, E),
         NEW h, \A x \in S : h[x] = f[s[x]]
  PROVE  SumFunctionOnSet(h, S) <= SumFunctionOnSet(f, E)
<1> DEFINE Part(T) == [e \in E |-> IF \E x \in T : s[x] = e THEN f[e] ELSE 0]
<1>1. Summable(h, S) /\ \A T \in SUBSET S : Summable(Part(T), E)
  BY DEF Summable
<1>2. PICK g : g = PartialSums(h, S)
  OBVIOUS
<1>3. \A T \in SUBSET S : g[T] \in Nat /\ SumFunctionOnSet(Part(T), E) \in Nat
  BY <1>1, <1>2, PartialSumsType, SumType
<1>4. PICK G \in SUBSET (SUBSET S) :
        G = {T \in SUBSET S : g[T] <= SumFunctionOnSet(Part(T), E)}
  OBVIOUS
<1>5. {} \in G
  BY <1>1, <1>2, <1>3, <1>4, PartialSumsEmpty
<1>6. ASSUME NEW T \in SUBSET S, T # {}, T \ {First(T)} \in G PROVE T \in G
  <2>1. PICK x \in T : x = First(T)
    BY <1>6, FirstElement
  <2>2. g[T] = h[x] + g[T \ {x}]
    BY <1>1, <1>2, <2>1, PartialSumsAdd
  <2>3. PICK p, q : p = Part(T \ {x}) /\ q = Part(T)
    OBVIOUS
  <2>4. PICK a \in E : a = s[x]
    OBVIOUS
  <2>5. /\ \A e \in E \ {a} : q[e] = p[e]
        /\ q[a] = h[x] /\ p[a] = 0 /\ h[x] \in Nat
    BY <1>1, <2>3, <2>4 DEF Summable
  <2>6. Summable(p, E) /\ Summable(q, E)
    BY <1>1, <2>3
  <2>7. SumFunctionOnSet(q, E) = SumFunctionOnSet(p, E) + q[a] - p[a]
    BY <2>5, <2>6, SumUpdate
  <2>8. g[T \ {x}] <= SumFunctionOnSet(p, E)
    BY <1>4, <1>6, <2>1, <2>3
  <2>9. g[T \ {x}] \in Nat /\ SumFunctionOnSet(p, E) \in Nat
    BY <1>3, <2>3
  <2>10. g[T] <= SumFunctionOnSet(q, E)
    BY <2>2, <2>5, <2>7, <2>8, <2>9
  <2>11. QED
    BY <1>4, <2>3, <2>10
<1>7. G = SUBSET S
  BY <1>5, <1>6, SetOfAllSubsets
<1>8. g[S] <= SumFunctionOnSet(Part(S), E)
  BY <1>4, <1>7
<1>9. SumFunctionOnSet(Part(S), E) <= SumFunctionOnSet(f, E)
  <2>1. PICK p : p = Part(S)
    OBVIOUS
  <2>2. Summable(p, E) /\ \A e \in E : p[e] <= f[e]
    BY <1>1, <2>1 DEF Summable
  <2>3. QED
    BY <2>1, <2>2, SumMonotone
<1>10. SumFunctionOnSet(h, S) = g[S]
  BY <1>2, SumIsPartial
<1>11. SumFunctionOnSet(f, E) \in Nat
  BY SumType
<1>12. QED
  BY <1>3, <1>8, <1>9, <1>10, <1>11
=============================================================================

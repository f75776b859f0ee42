--------------------------------- MODULE Sums ---------------------------------
(***************************************************************************)
(* What SumFunctionOnSet of the community modules computes, for every      *)
(* finite set: the sum does not depend on the order in which the fold      *)
(* takes the elements.  Induction is used in the form of a statement about *)
(* a set of numbers, not about a predicate.                                *)
(***************************************************************************)
EXTENDS Integers, Functions, FiniteSetTheorems, WellFoundedInduction, TLAPS

\* A set of numbers has a least one.
LEMMA Least ==
    ASSUME NEW S, S \subseteq Nat, S # {}
    PROVE  \E m \in S : \A k \in S : m <= k
<1>1. PICK R : R = OpToRel(<, Nat)
  BY Zenon
<1>2. IsWellFoundedOn(R, Nat)
  BY <1>1, NatLessThanWellFounded, Zenon
<1>3. PICK m \in S : \A k \in S : ~(<<k, m>> \in R)
  BY <1>2, WFMin
<1>4. R = {ss \in Nat \X Nat : ss[1] < ss[2]}
  BY <1>1, Zenon DEF OpToRel
<1>5. ASSUME NEW k \in S, k < m PROVE FALSE
  <2>1. k \in Nat /\ m \in Nat
    OBVIOUS
  <2>2. <<k, m>> \in Nat \X Nat /\ <<k, m>>[1] < <<k, m>>[2]
    BY <1>5, <2>1
  <2>3. <<k, m>> \in R
    BY <1>4, <2>2, Zenon
  <2> QED BY <1>3, <2>3
<1>6. \A k \in S : k \in Nat /\ m \in Nat /\ ~(k < m)
  BY <1>5
<1> QED BY <1>6

\* Induction over the natural numbers.
LEMMA SetInduction ==
    ASSUME NEW S, 0 \in S, \A n \in Nat : n \in S => n + 1 \in S
    PROVE  Nat \subseteq S
<1> SUFFICES ASSUME Nat \ S # {} PROVE FALSE
  OBVIOUS
<1>1. PICK m \in Nat \ S : \A k \in Nat \ S : m <= k
  BY Least
<1>2. m # 0 /\ m - 1 \in Nat /\ m - 1 \in S
  BY <1>1
<1> QED BY <1>1, <1>2

\* Induction over the subsets of a finite set.
LEMMA SubsetInduction ==
    ASSUME NEW S, IsFiniteSet(S), NEW F, {} \in F,
           \A T \in SUBSET S : \A x \in S \ T : T \in F => T \cup {x} \in F
    PROVE  SUBSET S \subseteq F
<1> DEFINE Small(n) == {T \in SUBSET S : Cardinality(T) <= n}
           Ns == {n \in Nat : Small(n) \subseteq F}
<1>1. \A T \in SUBSET S : IsFiniteSet(T) /\ Cardinality(T) \in Nat
  BY FS_Subset, FS_CardinalityType
<1>2. 0 \in Ns
  <2>1. ASSUME NEW T \in SUBSET S, Cardinality(T) <= 0 PROVE T = {}
    BY <1>1, <2>1, FS_EmptySet
  <2> QED BY <2>1
<1>3. ASSUME NEW n \in Nat, n \in Ns PROVE n + 1 \in Ns
  <2>1. ASSUME NEW T \in SUBSET S, Cardinality(T) <= n + 1, T # {} PROVE T \in F
    <3>1. PICK x \in T : TRUE
      BY <2>1
    <3>2. Cardinality(T \ {x}) = Cardinality(T) - 1
      BY <1>1, FS_RemoveElement
    <3>3. T \ {x} \in Small(n)
      BY <1>1, <2>1, <3>2
    <3>4. T \ {x} \in F /\ x \in S \ (T \ {x}) /\ T \ {x} \in SUBSET S
      BY <1>3, <3>3
    <3>5. (T \ {x}) \cup {x} = T
      OBVIOUS
    <3> QED BY <3>4, <3>5
  <2> QED BY <2>1
<1> HIDE DEF Ns
<1>4. Nat \subseteq Ns
  BY <1>2, <1>3, SetInduction
<1>5. ASSUME NEW T \in SUBSET S PROVE T \in F
  <2>1. Cardinality(T) \in Ns
    BY <1>1, <1>4
  <2> QED BY <1>1, <2>1 DEF Ns
<1> QED BY <1>5

-------------------------------------------------------------------------------
(* The recursion of MapThenFoldSet, for a sum.                             *)

\* The element the fold takes first.
First(s) == CHOOSE x \in s : TRUE

Iterates(f, S, g) ==
    g = [s \in SUBSET S |-> IF s = {} THEN 0 ELSE f[First(s)] + g[s \ {First(s)}]]

LEMMA SumIsIterated ==
    ASSUME NEW f, NEW S
    PROVE  SumFunctionOnSet(f, S) = (CHOOSE g : Iterates(f, S, g))[S]
  BY Zenon DEF SumFunctionOnSet, FoldFunctionOnSet, MapThenFoldSet, Iterates, First


\* The recursion has a solution: one for the sets of at most n elements gives one for those
\* of n + 1.
LEMMA IterationExists ==
    ASSUME NEW f, NEW S, IsFiniteSet(S)
    PROVE  \E g : Iterates(f, S, g)
<1> DEFINE Rhs(g, s) == IF s = {} THEN 0 ELSE f[First(s)] + g[s \ {First(s)}]
           Small(n) == {s \in SUBSET S : Cardinality(s) <= n}
           Ns == {n \in Nat : \E g : g = [s \in SUBSET S |-> g[s]]
                                     /\ \A s \in Small(n) : g[s] = Rhs(g, s)}
<1>1. \A s \in SUBSET S : IsFiniteSet(s) /\ Cardinality(s) \in Nat
  BY FS_Subset, FS_CardinalityType
<1>2. \A s \in SUBSET S : s # {} => /\ First(s) \in s
                                    /\ s \ {First(s)} \in SUBSET S
                                    /\ Cardinality(s \ {First(s)}) = Cardinality(s) - 1
  BY <1>1, FS_RemoveElement DEF First
<1>3. 0 \in Ns
  <2>1. \A s \in Small(0) : s = {}
    BY <1>1, FS_EmptySet
  <2>2. PICK g : g = [s \in SUBSET S |-> 0]
    OBVIOUS
  <2>3. g = [s \in SUBSET S |-> g[s]] /\ \A s \in Small(0) : g[s] = Rhs(g, s)
    BY <2>1, <2>2
  <2> QED BY <2>3
<1>4. ASSUME NEW n \in Nat, n \in Ns PROVE n + 1 \in Ns
  <2>1. PICK g : /\ g = [s \in SUBSET S |-> g[s]]
                 /\ \A s \in Small(n) : g[s] = Rhs(g, s)
    BY <1>4
  <2>2. PICK h : h = [s \in SUBSET S |-> IF s \in Small(n) THEN g[s] ELSE Rhs(g, s)]
    OBVIOUS
  <2>3. ASSUME NEW s \in Small(n + 1) PROVE h[s] = Rhs(g, s)
    BY <2>1, <2>2
  <2>4. ASSUME NEW s \in Small(n + 1), s # {} PROVE h[s \ {First(s)}] = g[s \ {First(s)}]
    <3>1. s \ {First(s)} \in Small(n)
      BY <1>1, <1>2, <2>4
    <3> QED BY <2>2, <3>1
  <2>5. \A s \in Small(n + 1) : h[s] = Rhs(h, s)
    BY <2>3, <2>4
  <2>6. h = [s \in SUBSET S |-> h[s]]
    BY <2>2
  <2> HIDE DEF Small, Rhs
  <2>7. \E k : /\ k = [s \in SUBSET S |-> k[s]]
               /\ \A s \in Small(n + 1) : k[s] = Rhs(k, s)
    BY <2>5, <2>6, Zenon
  <2>8. n + 1 \in Nat
    OBVIOUS
  <2> QED BY <2>7, <2>8, Zenon
<1> HIDE DEF Ns
<1>5. Cardinality(S) \in Ns
  BY <1>1, <1>3, <1>4, SetInduction
<1>6. PICK g : /\ g = [s \in SUBSET S |-> g[s]]
               /\ \A s \in Small(Cardinality(S)) : g[s] = Rhs(g, s)
  BY <1>5 DEF Ns
<1>7. \A s \in SUBSET S : s \in Small(Cardinality(S))
  BY FS_Subset
<1>8. g = [s \in SUBSET S |-> Rhs(g, s)]
  BY <1>6, <1>7
<1> QED BY <1>8 DEF Iterates

\* Two sets have one iteration for the subsets they share.
LEMMA IterationsAgree ==
    ASSUME NEW f, NEW S, NEW T, IsFiniteSet(S), T \subseteq S,
           NEW g, Iterates(f, S, g), NEW h, Iterates(f, T, h)
    PROVE  \A s \in SUBSET T : g[s] = h[s]
<1> DEFINE Small(n) == {s \in SUBSET T : Cardinality(s) <= n}
           Ns == {n \in Nat : \A s \in Small(n) : g[s] = h[s]}
<1>1. \A s \in SUBSET T : IsFiniteSet(s) /\ Cardinality(s) \in Nat
  BY FS_Subset, FS_CardinalityType
<1>2. \A s \in SUBSET T : s # {} => /\ First(s) \in s
                                    /\ s \ {First(s)} \in SUBSET T
                                    /\ Cardinality(s \ {First(s)}) = Cardinality(s) - 1
  BY <1>1, FS_RemoveElement DEF First
<1>3. /\ \A s \in SUBSET T : s # {} => g[s] = f[First(s)] + g[s \ {First(s)}]
      /\ \A s \in SUBSET T : s # {} => h[s] = f[First(s)] + h[s \ {First(s)}]
      /\ g[{}] = 0 /\ h[{}] = 0
  BY DEF Iterates
<1>4. 0 \in Ns
  <2>1. \A s \in Small(0) : s = {}
    BY <1>1, FS_EmptySet
  <2> QED BY <1>3, <2>1
<1>5. ASSUME NEW n \in Nat, n \in Ns PROVE n + 1 \in Ns
  <2>1. ASSUME NEW s \in Small(n + 1), s # {} PROVE g[s] = h[s]
    <3>1. s \ {First(s)} \in Small(n)
      BY <1>1, <1>2, <2>1
    <3>2. g[s \ {First(s)}] = h[s \ {First(s)}]
      BY <1>5, <3>1
    <3> QED BY <1>3, <2>1, <3>2
  <2>2. \A s \in Small(n + 1) : g[s] = h[s]
    BY <1>3, <2>1
  <2> QED BY <2>2
<1> HIDE DEF Ns
<1>6. Nat \subseteq Ns
  BY <1>4, <1>5, SetInduction
<1>7. ASSUME NEW s \in SUBSET T PROVE g[s] = h[s]
  <2>1. Cardinality(s) \in Ns
    BY <1>1, <1>6
  <2> QED BY <1>1, <2>1 DEF Ns
<1> QED BY <1>7

\* The sum, element by element, in the order of the fold.
LEMMA SumUnfolds ==
    ASSUME NEW f, NEW S, IsFiniteSet(S)
    PROVE  /\ S = {} => SumFunctionOnSet(f, S) = 0
           /\ S # {} => SumFunctionOnSet(f, S) =
                            f[First(S)] + SumFunctionOnSet(f, S \ {First(S)})
<1> DEFINE T == S \ {First(S)}
<1>1. IsFiniteSet(T)
  BY FS_Subset
<1>2. PICK g : g = CHOOSE x : Iterates(f, S, x)
  OBVIOUS
<1>3. PICK h : h = CHOOSE x : Iterates(f, T, x)
  OBVIOUS
<1>4. Iterates(f, S, g)
  BY <1>2, IterationExists
<1>5. Iterates(f, T, h)
  BY <1>1, <1>3, IterationExists
<1>6. SumFunctionOnSet(f, S) = g[S] /\ SumFunctionOnSet(f, T) = h[T]
  BY <1>2, <1>3, SumIsIterated
<1> HIDE DEF T
<1>7. g[T] = h[T]
  <2>1. T \subseteq S /\ T \in SUBSET T
    BY DEF T
  <2> QED BY <1>4, <1>5, <2>1, IterationsAgree
<1>8. S = {} => g[S] = 0
  BY <1>4 DEF Iterates
<1>9. S # {} => g[S] = f[First(S)] + g[T]
  BY <1>4 DEF Iterates, T
<1> QED BY <1>6, <1>7, <1>8, <1>9 DEF T

-------------------------------------------------------------------------------
(* Sums.                                                                   *)

LEMMA SumOfNone ==
    ASSUME NEW f
    PROVE  SumFunctionOnSet(f, {}) = 0
  BY SumUnfolds, FS_EmptySet

\* The sum of natural numbers is one, and any element may be taken first.
LEMMA SumTakes ==
    ASSUME NEW f, NEW S, IsFiniteSet(S), \A s \in S : f[s] \in Nat
    PROVE  /\ SumFunctionOnSet(f, S) \in Nat
           /\ \A x \in S : SumFunctionOnSet(f, S) = f[x] + SumFunctionOnSet(f, S \ {x})
<1> DEFINE Sum(s) == SumFunctionOnSet(f, s)
           Small(n) == {s \in SUBSET S : Cardinality(s) <= n}
           Good(s) == Sum(s) \in Nat /\ \A x \in s : Sum(s) = f[x] + Sum(s \ {x})
           Ns == {n \in Nat : \A s \in Small(n) : Good(s)}
<1>1. \A s \in SUBSET S : IsFiniteSet(s) /\ Cardinality(s) \in Nat
  BY FS_Subset, FS_CardinalityType
<1>2. \A s \in SUBSET S : \A x \in s : /\ s \ {x} \in SUBSET S
                                       /\ Cardinality(s \ {x}) = Cardinality(s) - 1
  BY <1>1, FS_RemoveElement
<1>3. /\ Sum({}) = 0
      /\ \A s \in SUBSET S : s # {} => First(s) \in s /\ Sum(s) = f[First(s)] + Sum(s \ {First(s)})
  BY <1>1, SumUnfolds, FS_EmptySet DEF First
<1> HIDE DEF Sum
<1>4. 0 \in Ns
  <2>1. \A s \in Small(0) : s = {}
    BY <1>1, FS_EmptySet
  <2>2. Good({})
    BY <1>3
  <2> HIDE DEF Good
  <2> QED BY <2>1, <2>2
<1>5. ASSUME NEW n \in Nat, n \in Ns PROVE n + 1 \in Ns
  <2>1. ASSUME NEW s \in SUBSET S, NEW y \in s, Cardinality(s) <= n + 1
        PROVE  Good(s \ {y})
    <3>1. s \ {y} \in Small(n)
      BY <1>1, <1>2, <2>1
    <3> QED BY <1>5, <3>1
  <2>2. ASSUME NEW s \in SUBSET S, Cardinality(s) <= n + 1, s # {} PROVE Good(s)
    <3> DEFINE p == First(s)
    <3>1. p \in s /\ Sum(s) = f[p] + Sum(s \ {p})
      BY <1>3, <2>2
    <3> HIDE DEF p
    <3>2. Sum(s) \in Nat
      BY <2>1, <2>2, <3>1
    <3>3. ASSUME NEW x \in s, x # p PROVE Sum(s) = f[x] + Sum(s \ {x})
      <4>1. Sum(s \ {p}) = f[x] + Sum((s \ {p}) \ {x})
        BY <2>1, <2>2, <3>1, <3>3
      <4>2. Sum(s \ {x}) = f[p] + Sum((s \ {x}) \ {p})
        BY <2>1, <2>2, <3>1, <3>3
      <4>3. (s \ {p}) \ {x} = (s \ {x}) \ {p}
        OBVIOUS
      <4>4. Sum((s \ {p}) \ {x}) \in Nat
        <5>1. (s \ {p}) \ {x} \in Small(n)
          <6>1. Cardinality((s \ {p}) \ {x}) = Cardinality(s \ {p}) - 1
            BY <1>2, <3>1, <3>3
          <6>2. Cardinality(s \ {p}) = Cardinality(s) - 1 /\ (s \ {p}) \ {x} \in SUBSET S
            BY <1>2, <3>1
          <6> QED BY <1>1, <2>2, <6>1, <6>2
        <5> QED BY <1>5, <5>1
      <4> QED BY <3>1, <4>1, <4>2, <4>3, <4>4
    <3> QED BY <3>1, <3>2, <3>3
  <2>3. Good({})
    BY <1>3
  <2> QED BY <2>2, <2>3
<1> HIDE DEF Ns
<1>6. Nat \subseteq Ns
  BY <1>4, <1>5, SetInduction
<1>7. Good(S)
  <2>1. Cardinality(S) \in Ns
    BY <1>1, <1>6
  <2> QED BY <1>1, <2>1 DEF Ns
<1> QED BY <1>7 DEF Sum

\* A sum is monotone.
LEMMA SumGrows ==
    ASSUME NEW f, NEW g, NEW S, IsFiniteSet(S),
           \A s \in S : f[s] \in Nat /\ g[s] \in Nat /\ f[s] <= g[s]
    PROVE  SumFunctionOnSet(f, S) <= SumFunctionOnSet(g, S)
<1> DEFINE F == {T \in SUBSET S : SumFunctionOnSet(f, T) <= SumFunctionOnSet(g, T)}
<1>1. {} \in F
  BY SumOfNone
<1>2. ASSUME NEW T \in SUBSET S, NEW x \in S \ T, T \in F PROVE T \cup {x} \in F
  <2>1. IsFiniteSet(T) /\ IsFiniteSet(T \cup {x}) /\ (T \cup {x}) \ {x} = T
    BY FS_Subset
  <2>2. SumFunctionOnSet(f, T) \in Nat /\ SumFunctionOnSet(g, T) \in Nat
    BY <2>1, SumTakes
  <2>3. /\ SumFunctionOnSet(f, T \cup {x}) = f[x] + SumFunctionOnSet(f, T)
        /\ SumFunctionOnSet(g, T \cup {x}) = g[x] + SumFunctionOnSet(g, T)
    BY <2>1, SumTakes
  <2> QED BY <1>2, <2>2, <2>3
<1> HIDE DEF F
<1>3. S \in F
  BY <1>1, <1>2, SubsetInduction
<1> QED BY <1>3 DEF F

\* A sum depends on the values in its set only.
LEMMA SumSame ==
    ASSUME NEW f, NEW g, NEW S, IsFiniteSet(S), \A s \in S : f[s] \in Nat /\ f[s] = g[s]
    PROVE  SumFunctionOnSet(f, S) = SumFunctionOnSet(g, S)
<1>1. SumFunctionOnSet(f, S) <= SumFunctionOnSet(g, S)
  BY SumGrows
<1>2. SumFunctionOnSet(g, S) <= SumFunctionOnSet(f, S)
  BY SumGrows
<1>3. SumFunctionOnSet(f, S) \in Nat /\ SumFunctionOnSet(g, S) \in Nat
  BY SumTakes
<1> QED BY <1>1, <1>2, <1>3

\* One value changes.
LEMMA SumUpdated ==
    ASSUME NEW S, IsFiniteSet(S), NEW f, NEW g, \A s \in S : f[s] \in Nat /\ g[s] \in Nat,
           NEW x \in S, \A s \in S \ {x} : f[s] = g[s]
    PROVE  /\ SumFunctionOnSet(f, S) = f[x] + SumFunctionOnSet(f, S \ {x})
           /\ SumFunctionOnSet(g, S) = g[x] + SumFunctionOnSet(f, S \ {x})
           /\ SumFunctionOnSet(f, S \ {x}) \in Nat
<1>1. IsFiniteSet(S \ {x})
  BY FS_Subset
<1>2. SumFunctionOnSet(g, S) = g[x] + SumFunctionOnSet(g, S \ {x})
  BY SumTakes
<1>3. SumFunctionOnSet(f, S \ {x}) = SumFunctionOnSet(g, S \ {x})
  BY <1>1, SumSame
<1>4. SumFunctionOnSet(f, S) = f[x] + SumFunctionOnSet(f, S \ {x})
  BY SumTakes
<1>5. SumFunctionOnSet(f, S \ {x}) \in Nat
  BY <1>1, SumTakes
<1> QED BY <1>2, <1>3, <1>4, <1>5

\* A part of a sum.
LEMMA SumOfPart ==
    ASSUME NEW f, NEW S, IsFiniteSet(S), NEW T \in SUBSET S, \A s \in S : f[s] \in Nat
    PROVE  SumFunctionOnSet(f, T) <= SumFunctionOnSet(f, S)
<1> DEFINE F == {R \in SUBSET (S \ T) : SumFunctionOnSet(f, T) <= SumFunctionOnSet(f, T \cup R)}
<1>1. IsFiniteSet(S \ T) /\ \A R \in SUBSET S : IsFiniteSet(R) /\ SumFunctionOnSet(f, R) \in Nat
  BY FS_Subset, SumTakes
<1>2. {} \in F
  <2>1. T \cup {} = T /\ SumFunctionOnSet(f, T) \in Nat
    BY <1>1
  <2>2. SumFunctionOnSet(f, T) <= SumFunctionOnSet(f, T \cup {})
    BY <2>1
  <2> QED BY <2>2
<1>3. ASSUME NEW R \in SUBSET (S \ T), NEW x \in (S \ T) \ R, R \in F PROVE R \cup {x} \in F
  <2> DEFINE U == T \cup (R \cup {x})
  <2>1. U \in SUBSET S /\ x \in U /\ U \ {x} = T \cup R
    OBVIOUS
  <2>2. \A s \in U : f[s] \in Nat
    OBVIOUS
  <2> HIDE DEF U
  <2>3. SumFunctionOnSet(f, U) = f[x] + SumFunctionOnSet(f, U \ {x})
    BY <1>1, <2>1, <2>2, SumTakes
  <2>4. SumFunctionOnSet(f, U) = f[x] + SumFunctionOnSet(f, T \cup R)
    BY <2>1, <2>3
  <2>5. /\ f[x] \in Nat /\ SumFunctionOnSet(f, T) \in Nat /\ SumFunctionOnSet(f, T \cup R) \in Nat
        /\ SumFunctionOnSet(f, T) <= SumFunctionOnSet(f, T \cup R)
    BY <1>1, <1>3
  <2>6. SumFunctionOnSet(f, T) <= SumFunctionOnSet(f, U)
    BY <2>4, <2>5
  <2> QED BY <2>6 DEF U
<1> HIDE DEF F
<1>4. S \ T \in F
  <2>1. PICK D : D = S \ T
    OBVIOUS
  <2>2. /\ IsFiniteSet(D)
        /\ \A R \in SUBSET D : \A x \in D \ R : R \in F => R \cup {x} \in F
    BY <1>1, <1>3, <2>1
  <2>3. SUBSET D \subseteq F
    BY <1>2, <2>2, SubsetInduction
  <2> QED BY <2>1, <2>3
<1>5. T \cup (S \ T) = S
  OBVIOUS
<1> QED BY <1>4, <1>5 DEF F
===============================================================================

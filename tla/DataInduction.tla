---------------------------- MODULE DataInduction ----------------------------
(***************************************************************************)
(* Induction over numbers and over finite sets in the form of facts about  *)
(* sets: to show P of every number, or of every subset of a finite set,    *)
(* take the set of those that have P.  From it, what SumFunctionOnSet of   *)
(* the community modules computes of a finite set of any size.             *)
(***************************************************************************)
EXTENDS Integers, Functions, FiniteSets, FiniteSetTheorems, WellFoundedInduction, TLAPS

-----------------------------------------------------------------------------
(* Induction.                                                              *)

\* A set of natural numbers has a least element.
LEMMA LeastElement ==
  ASSUME NEW T \in SUBSET Nat, T # {}
  PROVE  \E n \in T : \A m \in T : n <= m
<1> DEFINE R == OpToRel(<, Nat)
<1>1. R = {p \in Nat \X Nat : p[1] < p[2]}
  BY Zenon DEF OpToRel
<1>2. IsWellFoundedOn(R, Nat)
  BY NatLessThanWellFounded, Zenon
<1> HIDE DEF R
<1>3. PICK n \in T : \A m \in T : <<m, n>> \notin R
  BY <1>2, WFMin, Zenon
<1>4. \A m \in T : ~ (m < n)
  BY <1>1, <1>3
<1> QED
  BY <1>4

\* A set that holds zero and every successor holds every number.
LEMMA InductionOnSets ==
  ASSUME NEW S, 0 \in S, \A n \in Nat : n \in S => n + 1 \in S
  PROVE  Nat \subseteq S
<1> SUFFICES ASSUME ~ (Nat \subseteq S)
             PROVE  FALSE
  OBVIOUS
<1>0. Nat \ S \in SUBSET Nat /\ Nat \ S # {}
  OBVIOUS
<1>1. PICK n \in Nat \ S : \A m \in Nat \ S : n <= m
  BY <1>0, LeastElement
<1>2. n # 0 /\ n - 1 \in Nat
  BY <1>1
<1>3. n - 1 \in S
  BY <1>1, <1>2
<1> QED
  BY <1>1, <1>2, <1>3

\* A set of subsets of a finite set holds every subset, if it holds each one whose
\* subsets with one element less it holds.
LEMMA InductionOnSubsets ==
  ASSUME NEW U, IsFiniteSet(U), NEW P,
         \A s \in SUBSET U : (\A x \in s : s \ {x} \in P) => s \in P
  PROVE  SUBSET U \subseteq P
<1> DEFINE S == {n \in Nat : \A s \in SUBSET U : Cardinality(s) = n => s \in P}
<1>1. \A s \in SUBSET U : IsFiniteSet(s) /\ Cardinality(s) \in Nat
  BY FS_Subset, FS_CardinalityType
<1>2. 0 \in S
  <2>1. ASSUME NEW s \in SUBSET U, Cardinality(s) = 0
        PROVE  s \in P
    <3>1. s = {}
      BY <1>1, <2>1, FS_EmptySet
    <3> QED
      BY <3>1
  <2> QED
    BY <2>1
<1>3. ASSUME NEW n \in Nat, n \in S
      PROVE  n + 1 \in S
  <2>1. ASSUME NEW s \in SUBSET U, Cardinality(s) = n + 1
        PROVE  s \in P
    <3>1. ASSUME NEW x \in s
          PROVE  s \ {x} \in P
      <4>1. Cardinality(s \ {x}) = n
        BY <1>1, <2>1, FS_RemoveElement
      <4> QED
        BY <1>3, <4>1
    <3> QED
      BY <3>1
  <2> QED
    BY <2>1
<1> HIDE DEF S
<1>4. Nat \subseteq S
  BY <1>2, <1>3, InductionOnSets
<1> QED
  BY <1>1, <1>4 DEF S

-----------------------------------------------------------------------------
(* Sums over finite sets.                                                  *)

\* The element that a fold takes first.
First(s) == CHOOSE x \in s : TRUE

LEMMA FirstIn == \A s : s # {} => First(s) \in s
  BY DEF First

\* f holds the sums of g over the sets of D.
SumsOf(f, g, D) ==
  f = [s \in D |-> IF s = {} THEN 0 ELSE g[First(s)] + f[s \ {First(s)}]]

LEMMA SumUnfolds ==
  ASSUME NEW g, NEW T
  PROVE  SumFunctionOnSet(g, T) = (CHOOSE f : SumsOf(f, g, SUBSET T))[T]
  BY DEF SumFunctionOnSet, FoldFunctionOnSet, MapThenFoldSet, SumsOf, First

\* There is such a function for the subsets of a finite set.
LEMMA SumsExist ==
  ASSUME NEW g, NEW T, IsFiniteSet(T)
  PROVE  \E f : SumsOf(f, g, SUBSET T)
<1> DEFINE D(n) == {s \in SUBSET T : Cardinality(s) <= n}
           S == {n \in Nat : \E f : SumsOf(f, g, D(n))}
<1>1. \A s \in SUBSET T : IsFiniteSet(s) /\ Cardinality(s) \in Nat
  BY FS_Subset, FS_CardinalityType
<1>2. \A s \in SUBSET T : s # {} =>
        s \ {First(s)} \in SUBSET T /\ Cardinality(s \ {First(s)}) = Cardinality(s) - 1
  BY <1>1, FirstIn, FS_RemoveElement
<1>3. 0 \in S
  <2> DEFINE f == [s \in D(0) |-> 0]
  <2>1. \A s \in D(0) : s = {}
    BY <1>1, FS_EmptySet
  <2>2. SumsOf(f, g, D(0))
    BY <2>1 DEF SumsOf
  <2> HIDE DEF f
  <2> QED
    BY <2>2
<1>4. ASSUME NEW n \in Nat, n \in S
      PROVE  n + 1 \in S
  <2>1. PICK f : SumsOf(f, g, D(n))
    BY <1>4
  <2> DEFINE h == [s \in D(n + 1) |-> IF s \in D(n) THEN f[s]
                                      ELSE g[First(s)] + f[s \ {First(s)}]]
  <2>2. \A s \in D(n + 1) : s # {} => s \ {First(s)} \in D(n)
    BY <1>1, <1>2
  <2>3. \A s \in D(n) : s \in D(n + 1)
    BY <1>1
  <2>4. ASSUME NEW s \in D(n + 1)
        PROVE  h[s] = IF s = {} THEN 0 ELSE g[First(s)] + h[s \ {First(s)}]
    <3>1. {} \in D(n)
      BY FS_EmptySet
    <3>2. CASE s \in D(n)
      <4>1. f[s] = IF s = {} THEN 0 ELSE g[First(s)] + f[s \ {First(s)}]
        BY <2>1, <3>2 DEF SumsOf
      <4>2. h[s] = f[s] /\ (s # {} => h[s \ {First(s)}] = f[s \ {First(s)}])
        BY <2>2, <2>3, <3>2
      <4> HIDE DEF h, D
      <4> QED
        BY <4>1, <4>2
    <3>3. CASE s \notin D(n)
      <4>1. s # {}
        BY <3>1, <3>3
      <4>2. s \ {First(s)} \in D(n)
        BY <2>2, <4>1
      <4>3. h[s] = g[First(s)] + f[s \ {First(s)}] /\ h[s \ {First(s)}] = f[s \ {First(s)}]
        BY <2>3, <3>3, <4>2
      <4> HIDE DEF h, D
      <4> QED
        BY <4>1, <4>3
    <3> QED
      BY <3>2, <3>3
  <2>5. SumsOf(h, g, D(n + 1))
    BY <2>4 DEF SumsOf
  <2>6. \E e : SumsOf(e, g, D(n + 1))
    BY <2>5
  <2> HIDE DEF h, D
  <2> QED
    BY <2>6
<1> HIDE DEF S
<1>5. Cardinality(T) \in S
  BY <1>1, <1>3, <1>4, InductionOnSets
<1>6. D(Cardinality(T)) = SUBSET T
  <2>1. \A s \in SUBSET T : Cardinality(s) <= Cardinality(T)
    BY FS_Subset
  <2> QED
    BY <2>1
<1> QED
  BY <1>5, <1>6 DEF S

\* They depend only on the values of g in the sets.
LEMMA SumsAgree ==
  ASSUME NEW g, NEW h, NEW T, IsFiniteSet(T), NEW U \in SUBSET T,
         \A x \in U : g[x] = h[x],
         NEW e, SumsOf(e, g, SUBSET U), NEW f, SumsOf(f, h, SUBSET T)
  PROVE  \A s \in SUBSET U : e[s] = f[s]
<1> DEFINE P == {s \in SUBSET U : e[s] = f[s]}
<1>1. ASSUME NEW s \in SUBSET U, \A x \in s : s \ {x} \in P
      PROVE  s \in P
  <2>1. /\ e[s] = IF s = {} THEN 0 ELSE g[First(s)] + e[s \ {First(s)}]
        /\ f[s] = IF s = {} THEN 0 ELSE h[First(s)] + f[s \ {First(s)}]
    BY DEF SumsOf
  <2>2. s # {} => g[First(s)] = h[First(s)] /\ e[s \ {First(s)}] = f[s \ {First(s)}]
    BY <1>1, FirstIn
  <2> QED
    BY <2>1, <2>2
<1>2. IsFiniteSet(U)
  BY FS_Subset
<1> HIDE DEF P
<1>3. SUBSET U \subseteq P
  BY <1>1, <1>2, InductionOnSubsets
<1> QED
  BY <1>3 DEF P

\* SumFunctionOnSet, defined by recursion, does what its recursion says.
LEMMA SumByStep ==
  ASSUME NEW g, NEW T, IsFiniteSet(T)
  PROVE  SumFunctionOnSet(g, T) =
           IF T = {} THEN 0 ELSE g[First(T)] + SumFunctionOnSet(g, T \ {First(T)})
<1> DEFINE Sums(U) == CHOOSE f : SumsOf(f, g, SUBSET U)
           U == T \ {First(T)}
<1>1. IsFiniteSet(U) /\ U \in SUBSET T
  BY FS_Subset
<1>2. SumsOf(Sums(T), g, SUBSET T) /\ SumsOf(Sums(U), g, SUBSET U)
  BY <1>1, SumsExist
<1>3. SumFunctionOnSet(g, T) = Sums(T)[T] /\ SumFunctionOnSet(g, U) = Sums(U)[U]
  BY SumUnfolds
<1> HIDE DEF Sums
<1>4. Sums(T)[T] = IF T = {} THEN 0 ELSE g[First(T)] + Sums(T)[U]
  BY <1>2 DEF SumsOf
<1> HIDE DEF U
<1>5. Sums(U)[U] = Sums(T)[U]
  <2>1. PICK e, f : e = Sums(U) /\ f = Sums(T)
    OBVIOUS
  <2>2. SumsOf(e, g, SUBSET U) /\ SumsOf(f, g, SUBSET T)
    BY <1>2, <2>1
  <2>3. \A s \in SUBSET U : e[s] = f[s]
    BY <1>1, <2>2, SumsAgree
  <2> QED
    BY <2>1, <2>3
<1> QED
  BY <1>3, <1>4, <1>5 DEF U

\* Nothing sums up to zero.
LEMMA SumOfNothing ==
  ASSUME NEW g
  PROVE  SumFunctionOnSet(g, {}) = 0
BY SumByStep, FS_EmptySet

\* A sum depends only on the values that are added.
LEMMA SumOfSame ==
  ASSUME NEW g, NEW h, NEW T, IsFiniteSet(T), \A x \in T : g[x] = h[x]
  PROVE  SumFunctionOnSet(g, T) = SumFunctionOnSet(h, T)
<1>1. \A f : SumsOf(f, g, SUBSET T) <=> SumsOf(f, h, SUBSET T)
  <2>1. \A s \in SUBSET T : s # {} => g[First(s)] = h[First(s)]
    BY FirstIn
  <2> QED
    BY <2>1 DEF SumsOf
<1> DEFINE Of(k) == CHOOSE f : SumsOf(f, k, SUBSET T)
<1>2. SumsOf(Of(g), g, SUBSET T) /\ SumsOf(Of(h), h, SUBSET T)
  BY SumsExist
<1> HIDE DEF Of
<1>3. Of(g)[T] = Of(h)[T]
  BY <1>2, SumsAgree
<1> QED
  BY <1>3, SumUnfolds DEF Of

LEMMA SumIsInt ==
  ASSUME NEW g, NEW T, IsFiniteSet(T), \A x \in T : g[x] \in Int
  PROVE  \A s \in SUBSET T : SumFunctionOnSet(g, s) \in Int
<1> DEFINE P == {s \in SUBSET T : SumFunctionOnSet(g, s) \in Int}
<1>1. ASSUME NEW s \in SUBSET T, \A x \in s : s \ {x} \in P
      PROVE  s \in P
  <2>1. IsFiniteSet(s)
    BY FS_Subset
  <2>2. SumFunctionOnSet(g, s) =
           IF s = {} THEN 0 ELSE g[First(s)] + SumFunctionOnSet(g, s \ {First(s)})
    BY <2>1, SumByStep
  <2>3. s # {} => g[First(s)] \in Int /\ SumFunctionOnSet(g, s \ {First(s)}) \in Int
    BY <1>1, FirstIn
  <2> QED
    BY <2>2, <2>3
<1> HIDE DEF P
<1>2. SUBSET T \subseteq P
  BY <1>1, InductionOnSubsets
<1> QED
  BY <1>2 DEF P

\* A sum of zeros is zero.
LEMMA SumOfZeros ==
  ASSUME NEW g, NEW T, IsFiniteSet(T), \A x \in T : g[x] = 0
  PROVE  SumFunctionOnSet(g, T) = 0
<1> DEFINE P == {s \in SUBSET T : SumFunctionOnSet(g, s) = 0}
<1>1. ASSUME NEW s \in SUBSET T, \A x \in s : s \ {x} \in P
      PROVE  s \in P
  <2>1. IsFiniteSet(s)
    BY FS_Subset
  <2>2. SumFunctionOnSet(g, s) =
           IF s = {} THEN 0 ELSE g[First(s)] + SumFunctionOnSet(g, s \ {First(s)})
    BY <2>1, SumByStep
  <2>3. s # {} => g[First(s)] = 0 /\ SumFunctionOnSet(g, s \ {First(s)}) = 0
    BY <1>1, FirstIn
  <2> QED
    BY <2>2, <2>3
<1> HIDE DEF P
<1>2. SUBSET T \subseteq P
  BY <1>1, InductionOnSubsets
<1> QED
  BY <1>2 DEF P

\* Any element may be the one that is added last.
LEMMA SumOfMember ==
  ASSUME NEW g, NEW T, IsFiniteSet(T), \A x \in T : g[x] \in Int
  PROVE  /\ SumFunctionOnSet(g, T) \in Int
         /\ \A y \in T : /\ SumFunctionOnSet(g, T \ {y}) \in Int
                         /\ SumFunctionOnSet(g, T) = g[y] + SumFunctionOnSet(g, T \ {y})
<1> DEFINE Total(s) == SumFunctionOnSet(g, s)
           P == {s \in SUBSET T : \A y \in s : Total(s) = g[y] + Total(s \ {y})}
<1>1. \A s \in SUBSET T : Total(s) \in Int
  BY SumIsInt
<1>2. \A s \in SUBSET T : s # {} => Total(s) = g[First(s)] + Total(s \ {First(s)})
  <2> TAKE s \in SUBSET T
  <2>1. IsFiniteSet(s)
    BY FS_Subset
  <2> QED
    BY <2>1, SumByStep
<1> HIDE DEF Total
<1>3. ASSUME NEW s \in SUBSET T, \A x \in s : s \ {x} \in P
      PROVE  s \in P
  <2>1. ASSUME NEW y \in s
        PROVE  Total(s) = g[y] + Total(s \ {y})
    <3> DEFINE x == First(s)
    <3>1. x \in s /\ Total(s) = g[x] + Total(s \ {x})
      BY <1>2, FirstIn
    <3> HIDE DEF x
    <3>2. CASE y # x
      <4>1. Total(s \ {x}) = g[y] + Total((s \ {x}) \ {y})
        BY <1>3, <3>1, <3>2
      <4>2. Total(s \ {y}) = g[x] + Total((s \ {y}) \ {x})
        BY <1>3, <3>1, <3>2
      <4>3. PICK t : t = Total((s \ {x}) \ {y})
        OBVIOUS
      <4>4. t = Total((s \ {y}) \ {x})
        <5>1. (s \ {x}) \ {y} = (s \ {y}) \ {x}
          OBVIOUS
        <5> QED
          BY <4>3, <5>1
      <4>5. t \in Int /\ g[x] \in Int /\ g[y] \in Int
        BY <1>1, <3>1, <4>3
      <4> QED
        BY <3>1, <4>1, <4>2, <4>3, <4>4, <4>5
    <3> QED
      BY <3>1, <3>2
  <2> QED
    BY <2>1
<1> HIDE DEF P
<1>4. SUBSET T \subseteq P
  BY <1>3, InductionOnSubsets
<1>5. \A y \in T : Total(T \ {y}) \in Int /\ Total(T) = g[y] + Total(T \ {y})
  BY <1>1, <1>4 DEF P
<1> QED
  BY <1>1, <1>5 DEF Total

\* A new member adds its value.
LEMMA SumOfOneMore ==
  ASSUME NEW g, NEW T, IsFiniteSet(T), NEW y, y \notin T,
         \A x \in T \cup {y} : g[x] \in Int
  PROVE  SumFunctionOnSet(g, T \cup {y}) = SumFunctionOnSet(g, T) + g[y]
<1>1. IsFiniteSet(T \cup {y})
  BY FS_AddElement
<1>2. (T \cup {y}) \ {y} = T /\ y \in T \cup {y}
  OBVIOUS
<1>3. /\ SumFunctionOnSet(g, (T \cup {y}) \ {y}) \in Int
      /\ SumFunctionOnSet(g, T \cup {y}) = g[y] + SumFunctionOnSet(g, (T \cup {y}) \ {y})
  BY <1>1, <1>2, SumOfMember
<1>4. g[y] \in Int
  OBVIOUS
<1>5. /\ SumFunctionOnSet(g, T) \in Int
      /\ SumFunctionOnSet(g, T \cup {y}) = g[y] + SumFunctionOnSet(g, T)
  BY <1>2, <1>3
<1> QED
  BY <1>4, <1>5

\* If the value of one member changes, the sum changes by as much.
LEMMA SumOfOneChanged ==
  ASSUME NEW g, NEW h, NEW T, IsFiniteSet(T), NEW y \in T,
         \A x \in T : g[x] \in Int /\ h[x] \in Int,
         \A x \in T \ {y} : h[x] = g[x]
  PROVE  SumFunctionOnSet(h, T) = SumFunctionOnSet(g, T) + (h[y] - g[y])
<1>0. (\A x \in T : g[x] \in Int) /\ (\A x \in T : h[x] \in Int)
  OBVIOUS
<1>1. /\ SumFunctionOnSet(g, T \ {y}) \in Int
      /\ SumFunctionOnSet(g, T) = g[y] + SumFunctionOnSet(g, T \ {y})
  <2>1. \A z \in T : /\ SumFunctionOnSet(g, T \ {z}) \in Int
                     /\ SumFunctionOnSet(g, T) = g[z] + SumFunctionOnSet(g, T \ {z})
    BY <1>0, SumOfMember
  <2> QED
    BY <2>1
<1>2. SumFunctionOnSet(h, T) = h[y] + SumFunctionOnSet(h, T \ {y})
  <2>1. \A z \in T : SumFunctionOnSet(h, T) = h[z] + SumFunctionOnSet(h, T \ {z})
    BY <1>0, SumOfMember
  <2> QED
    BY <2>1
<1>3. SumFunctionOnSet(h, T \ {y}) = SumFunctionOnSet(g, T \ {y})
  <2>1. IsFiniteSet(T \ {y})
    BY FS_Subset
  <2> QED
    BY <2>1, SumOfSame
<1>4. g[y] \in Int /\ h[y] \in Int
  OBVIOUS
<1> QED
  BY <1>1, <1>2, <1>3, <1>4

=============================================================================
